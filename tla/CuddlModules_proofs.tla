-------------------------- MODULE CuddlModules_proofs --------------------------
(***************************************************************************)
(* Proof that the init and exit functions of cuddl_manager and             *)
(* cuddl_janitor undo exactly what has been done.  It has no bounds: the   *)
(* lemmas go through each label of the two switches.                       *)
(***************************************************************************)
EXTENDS CuddlModules, TLAPS

LEMMA Five == /\ DOMAIN ManagerRungs = 1 .. 5 /\ Len(ManagerRungs) = 5
              /\ DOMAIN JanitorRungs = 1 .. 4 /\ Len(JanitorRungs) = 4
BY DEF ManagerRungs, JanitorRungs

\* The switch of cuddlk_manager_cleanup() as a table.
LEMMA ManagerTable ==
  /\ ManagerCleanup("none") = {"device", "class", "cdev", "chrdev", "manager"}
  /\ ManagerCleanup("device") = {"class", "cdev", "chrdev", "manager"}
  /\ ManagerCleanup("class") = {"cdev", "chrdev", "manager"}
  /\ ManagerCleanup("cdev") = {"chrdev", "manager"}
  /\ ManagerCleanup("chrdev") = {"manager"}
  /\ ManagerCleanup("manager") = {}
<1> DEFINE labels == <<"none", "device", "class", "cdev", "chrdev">>
           undoes == <<"device", "class", "cdev", "chrdev", "manager">>
           Behind(label) == {j \in DOMAIN labels :
                               \E i \in DOMAIN labels : labels[i] = label /\ i <= j}
<1>1. DOMAIN labels = 1 .. 5
  OBVIOUS
<1>2. /\ Behind("none") = {1, 2, 3, 4, 5} /\ Behind("device") = {2, 3, 4, 5}
      /\ Behind("class") = {3, 4, 5} /\ Behind("cdev") = {4, 5}
      /\ Behind("chrdev") = {5} /\ Behind("manager") = {}
  <2>1. /\ labels[1] = "none" /\ labels[2] = "device" /\ labels[3] = "class"
        /\ labels[4] = "cdev" /\ labels[5] = "chrdev"
    OBVIOUS
  <2>2. \A i \in 1 .. 5 : i = 1 \/ i = 2 \/ i = 3 \/ i = 4 \/ i = 5
    OBVIOUS
  <2> HIDE DEF labels
  <2>3. Behind("none") = {1, 2, 3, 4, 5}
    BY <1>1, <2>1, <2>2
  <2>4. Behind("device") = {2, 3, 4, 5}
    BY <1>1, <2>1, <2>2
  <2>5. Behind("class") = {3, 4, 5}
    BY <1>1, <2>1, <2>2
  <2>6. Behind("cdev") = {4, 5}
    BY <1>1, <2>1, <2>2
  <2>7. Behind("chrdev") = {5}
    BY <1>1, <2>1, <2>2
  <2>8. Behind("manager") = {}
    BY <1>1, <2>1, <2>2
  <2> QED
    BY <2>3, <2>4, <2>5, <2>6, <2>7, <2>8
<1>3. \A label : ManagerCleanup(label) = {undoes[j] : j \in Behind(label)}
  BY DEF ManagerCleanup, FromLabel
<1>4. /\ undoes[1] = "device" /\ undoes[2] = "class" /\ undoes[3] = "cdev"
      /\ undoes[4] = "chrdev" /\ undoes[5] = "manager"
  OBVIOUS
<1> HIDE DEF labels, undoes, Behind
<1> QED
  BY <1>2, <1>3, <1>4

\* The switch of cuddlk_janitor_cleanup() as a table.
LEMMA JanitorTable ==
  /\ JanitorCleanup("none") = {"device", "class", "cdev", "chrdev"}
  /\ JanitorCleanup("device") = {"class", "cdev", "chrdev"}
  /\ JanitorCleanup("class") = {"cdev", "chrdev"}
  /\ JanitorCleanup("cdev") = {"chrdev"}
  /\ JanitorCleanup("chrdev") = {}
<1> DEFINE labels == <<"none", "device", "class", "cdev">>
           undoes == <<"device", "class", "cdev", "chrdev">>
           Behind(label) == {j \in DOMAIN labels :
                               \E i \in DOMAIN labels : labels[i] = label /\ i <= j}
<1>1. DOMAIN labels = 1 .. 4
  OBVIOUS
<1>2. /\ Behind("none") = {1, 2, 3, 4} /\ Behind("device") = {2, 3, 4}
      /\ Behind("class") = {3, 4} /\ Behind("cdev") = {4} /\ Behind("chrdev") = {}
  BY <1>1
<1>3. \A label : JanitorCleanup(label) = {undoes[j] : j \in Behind(label)}
  BY DEF JanitorCleanup, FromLabel
<1>4. /\ undoes[1] = "device" /\ undoes[2] = "class" /\ undoes[3] = "cdev"
      /\ undoes[4] = "chrdev"
  OBVIOUS
<1> HIDE DEF labels, undoes, Behind
<1> QED
  BY <1>2, <1>3, <1>4

\* The label for the failure of a rung undoes the rungs below it, and the first label
\* of the switch all of them.
LEMMA LabelsMatchRungs ==
  \A m \in KernelModules :
    /\ \A i \in DOMAIN Rungs(m) : CleanedUp(m, Rungs(m)[i]) = Lower(m, i - 1)
    /\ CleanedUp(m, "none") = Lower(m, Len(Rungs(m)))
<1>1. /\ \A i \in 1 .. 5 : ManagerCleanup(ManagerRungs[i]) = {ManagerRungs[j] : j \in 1 .. i - 1}
      /\ ManagerCleanup("none") = {ManagerRungs[j] : j \in 1 .. 5}
  <2>1. /\ ManagerRungs[1] = "manager" /\ ManagerRungs[2] = "chrdev"
        /\ ManagerRungs[3] = "cdev" /\ ManagerRungs[4] = "class"
        /\ ManagerRungs[5] = "device"
    BY DEF ManagerRungs
  <2>2. /\ {ManagerRungs[j] : j \in 1 .. 0} = {}
        /\ {ManagerRungs[j] : j \in 1 .. 1} = {"manager"}
        /\ {ManagerRungs[j] : j \in 1 .. 2} = {"manager", "chrdev"}
        /\ {ManagerRungs[j] : j \in 1 .. 3} = {"manager", "chrdev", "cdev"}
        /\ {ManagerRungs[j] : j \in 1 .. 4} = {"manager", "chrdev", "cdev", "class"}
        /\ {ManagerRungs[j] : j \in 1 .. 5} =
             {"manager", "chrdev", "cdev", "class", "device"}
    BY <2>1
  <2>3. ASSUME NEW i \in 1 .. 5
        PROVE  ManagerCleanup(ManagerRungs[i]) = {ManagerRungs[j] : j \in 1 .. i - 1}
    <3>1. i = 1 \/ i = 2 \/ i = 3 \/ i = 4 \/ i = 5
      OBVIOUS
    <3>2. CASE i = 1  BY <3>2, <2>1, <2>2, ManagerTable
    <3>3. CASE i = 2  BY <3>3, <2>1, <2>2, ManagerTable
    <3>4. CASE i = 3  BY <3>4, <2>1, <2>2, ManagerTable
    <3>5. CASE i = 4  BY <3>5, <2>1, <2>2, ManagerTable
    <3>6. CASE i = 5  BY <3>6, <2>1, <2>2, ManagerTable
    <3> QED
      BY <3>1, <3>2, <3>3, <3>4, <3>5, <3>6
  <2> QED
    BY <2>2, <2>3, ManagerTable
<1>2. /\ \A i \in 1 .. 4 : JanitorCleanup(JanitorRungs[i]) = {JanitorRungs[j] : j \in 1 .. i - 1}
      /\ JanitorCleanup("none") = {JanitorRungs[j] : j \in 1 .. 4}
  <2>1. /\ JanitorRungs[1] = "chrdev" /\ JanitorRungs[2] = "cdev"
        /\ JanitorRungs[3] = "class" /\ JanitorRungs[4] = "device"
    BY DEF JanitorRungs
  <2>2. /\ {JanitorRungs[j] : j \in 1 .. 0} = {}
        /\ {JanitorRungs[j] : j \in 1 .. 1} = {"chrdev"}
        /\ {JanitorRungs[j] : j \in 1 .. 2} = {"chrdev", "cdev"}
        /\ {JanitorRungs[j] : j \in 1 .. 3} = {"chrdev", "cdev", "class"}
        /\ {JanitorRungs[j] : j \in 1 .. 4} = {"chrdev", "cdev", "class", "device"}
    BY <2>1
  <2>3. ASSUME NEW i \in 1 .. 4
        PROVE  JanitorCleanup(JanitorRungs[i]) = {JanitorRungs[j] : j \in 1 .. i - 1}
    <3>1. i = 1 \/ i = 2 \/ i = 3 \/ i = 4
      OBVIOUS
    <3>2. CASE i = 1  BY <3>2, <2>1, <2>2, JanitorTable
    <3>3. CASE i = 2  BY <3>3, <2>1, <2>2, JanitorTable
    <3>4. CASE i = 3  BY <3>4, <2>1, <2>2, JanitorTable
    <3>5. CASE i = 4  BY <3>5, <2>1, <2>2, JanitorTable
    <3> QED
      BY <3>1, <3>2, <3>3, <3>4, <3>5
  <2> QED
    BY <2>2, <2>3, JanitorTable
<1>3. ASSUME NEW m \in KernelModules, m = "manager"
      PROVE  /\ \A i \in DOMAIN Rungs(m) : CleanedUp(m, Rungs(m)[i]) = Lower(m, i - 1)
             /\ CleanedUp(m, "none") = Lower(m, Len(Rungs(m)))
  <2>1. Rungs(m) = ManagerRungs /\ \A label : CleanedUp(m, label) = ManagerCleanup(label)
    BY <1>3 DEF Rungs, CleanedUp
  <2> QED
    BY <1>1, <2>1, Five DEF Lower
<1>4. ASSUME NEW m \in KernelModules, m = "janitor"
      PROVE  /\ \A i \in DOMAIN Rungs(m) : CleanedUp(m, Rungs(m)[i]) = Lower(m, i - 1)
             /\ CleanedUp(m, "none") = Lower(m, Len(Rungs(m)))
  <2>1. Rungs(m) = JanitorRungs /\ \A label : CleanedUp(m, label) = JanitorCleanup(label)
    BY <1>4 DEF Rungs, CleanedUp
  <2> QED
    BY <1>2, <2>1, Five DEF Lower
<1> QED
  BY <1>3, <1>4 DEF KernelModules

-----------------------------------------------------------------------------

\* How far each module is on its ladder.
LadderInv ==
  /\ kmod \in [KernelModules -> {"out", "init", "live", "cleanup"}]
  /\ got \in [KernelModules -> SUBSET Labels]
  /\ failure \in [KernelModules -> Labels]
  /\ \A m \in KernelModules :
       /\ kmod[m] = "out" => got[m] = {}
       /\ kmod[m] = "init" => \E i \in DOMAIN Rungs(m) : got[m] = Lower(m, i - 1)
       /\ kmod[m] = "live" => got[m] = Lower(m, Len(Rungs(m)))
       /\ kmod[m] = "cleanup" => CleanedUp(m, failure[m]) = got[m]

LEMMA RungsAreSequences ==
  \A m \in KernelModules : /\ DOMAIN Rungs(m) = 1 .. Len(Rungs(m))
                           /\ Len(Rungs(m)) \in {4, 5}
                           /\ \A i \in 1 .. Len(Rungs(m)) : Rungs(m)[i] \in Labels
<1>1. /\ \A i \in 1 .. 5 : ManagerRungs[i] \in Labels
      /\ \A i \in 1 .. 4 : JanitorRungs[i] \in Labels
  <2>1. /\ ManagerRungs[1] = "manager" /\ ManagerRungs[2] = "chrdev"
        /\ ManagerRungs[3] = "cdev" /\ ManagerRungs[4] = "class"
        /\ ManagerRungs[5] = "device"
    BY DEF ManagerRungs
  <2>2. /\ JanitorRungs[1] = "chrdev" /\ JanitorRungs[2] = "cdev"
        /\ JanitorRungs[3] = "class" /\ JanitorRungs[4] = "device"
    BY DEF JanitorRungs
  <2>3. /\ \A i \in 1 .. 5 : i = 1 \/ i = 2 \/ i = 3 \/ i = 4 \/ i = 5
        /\ \A i \in 1 .. 4 : i = 1 \/ i = 2 \/ i = 3 \/ i = 4
    OBVIOUS
  <2> QED
    BY <2>1, <2>2, <2>3 DEF Labels
<1> QED
  BY <1>1, Five DEF KernelModules, Rungs

LEMMA LadderInit == ModulesInit => LadderInv
BY DEF ModulesInit, LadderInv, Labels

LEMMA LadderInvariant == LadderInv /\ [ModulesNext]_modulesVars => LadderInv'
<1> SUFFICES ASSUME LadderInv, [ModulesNext]_modulesVars
             PROVE  LadderInv'
  OBVIOUS
<1>1. ASSUME NEW m \in KernelModules, InitBegin(m)
      PROVE  LadderInv'
  <2>1. got[m] = {} /\ Lower(m, 0) = {} /\ 1 \in DOMAIN Rungs(m)
    BY <1>1, RungsAreSequences DEF InitBegin, LadderInv, Lower
  <2>2. got[m] = Lower(m, 1 - 1)
    BY <2>1
  <2> QED
    BY <1>1, <2>1, <2>2 DEF InitBegin, LadderInv
<1>2. ASSUME NEW m \in KernelModules, InitStep(m)
      PROVE  LadderInv'
  <2>1. PICK i \in DOMAIN Rungs(m) :
          /\ got[m] = Lower(m, i - 1)
          /\ got' = [got EXCEPT ![m] = @ \cup {Rungs(m)[i]}]
          /\ kmod' = [kmod EXCEPT ![m] = IF i = Len(Rungs(m)) THEN "live" ELSE @]
    BY <1>2 DEF InitStep
  <2>2. i \in 1 .. Len(Rungs(m)) /\ Len(Rungs(m)) \in Nat
    BY <2>1, RungsAreSequences
  <2>3. Lower(m, i - 1) \cup {Rungs(m)[i]} = Lower(m, i)
    BY <2>2 DEF Lower
  <2>4. got'[m] = Lower(m, i)
    BY <2>1, <2>3 DEF LadderInv
  <2>5. CASE i = Len(Rungs(m))
    BY <1>2, <2>1, <2>4, <2>5, <2>2, RungsAreSequences DEF InitStep, LadderInv
  <2>6. CASE i # Len(Rungs(m))
    <3>1. i + 1 \in DOMAIN Rungs(m) /\ Lower(m, (i + 1) - 1) = Lower(m, i)
      BY <2>2, <2>6, RungsAreSequences
    <3>2. \E j \in DOMAIN Rungs(m) : got'[m] = Lower(m, j - 1)
      BY <3>1, <2>4
    <3>3. kmod' = kmod /\ kmod[m] = "init"
      BY <1>2, <2>1, <2>6 DEF InitStep, LadderInv
    <3>4. got' \in [KernelModules -> SUBSET Labels]
      BY <2>1, <2>2, RungsAreSequences DEF LadderInv
    <3>5. \A n \in KernelModules : n # m => got'[n] = got[n]
      BY <2>1 DEF LadderInv
    <3>6. failure' = failure
      BY <1>2 DEF InitStep
    <3> QED
      BY <3>2, <3>3, <3>4, <3>5, <3>6 DEF LadderInv
  <2> QED
    BY <2>5, <2>6
<1>3. ASSUME NEW m \in KernelModules, InitFails(m)
      PROVE  LadderInv'
  <2>1. PICK i \in DOMAIN Rungs(m) :
          /\ got[m] = Lower(m, i - 1)
          /\ failure' = [failure EXCEPT ![m] = Rungs(m)[i]]
    BY <1>3 DEF InitFails
  <2>2. CleanedUp(m, failure'[m]) = got'[m] /\ failure'[m] \in Labels
    BY <1>3, <2>1, LabelsMatchRungs, RungsAreSequences DEF InitFails, LadderInv
  <2> QED
    BY <1>3, <2>1, <2>2, RungsAreSequences DEF InitFails, LadderInv
<1>4. ASSUME NEW m \in KernelModules, ExitBegin(m)
      PROVE  LadderInv'
  <2>1. CleanedUp(m, "none") = Lower(m, Len(Rungs(m)))
    BY LabelsMatchRungs
  <2>2. "none" \in Labels /\ got[m] = Lower(m, Len(Rungs(m)))
    BY <1>4 DEF ExitBegin, LadderInv, Labels
  <2>3. failure'[m] = "none" /\ got' = got
    BY <1>4 DEF ExitBegin, LadderInv
  <2>4. CleanedUp(m, failure'[m]) = got'[m]
    BY <2>1, <2>2, <2>3
  <2> QED
    BY <1>4, <2>2, <2>3, <2>4 DEF ExitBegin, LadderInv
<1>5. ASSUME NEW m \in KernelModules, Cleanup(m)
      PROVE  LadderInv'
  BY <1>5 DEF Cleanup, LadderInv
<1>6. CASE UNCHANGED modulesVars
  BY <1>6 DEF modulesVars, LadderInv
<1> QED
  BY <1>1, <1>2, <1>3, <1>4, <1>5, <1>6 DEF ModulesNext, ModuleStep

\* However often init fails and wherever, cuddlk_manager_cleanup() and
\* cuddlk_janitor_cleanup() are entered at the label that undoes what was acquired and
\* nothing else, and a module that is out has left nothing behind.
THEOREM ModulesUndoWhatTheyDid == ModulesSpec => []FailureUndoesWhatWasDone
<1>1. LadderInv => FailureUndoesWhatWasDone
  BY DEF LadderInv, FailureUndoesWhatWasDone
<1> QED
  BY <1>1, LadderInit, LadderInvariant, PTL DEF ModulesSpec
=============================================================================

----------------------------- MODULE CuddlModules -----------------------------
(***************************************************************************)
(* Loading and unloading of the kernel modules cuddl_manager and           *)
(* cuddl_janitor.  The init function of each acquires one thing after the  *)
(* other; when one of them fails it undoes those before through a switch   *)
(* that is entered at a label for the failure and falls through to its     *)
(* end.  The exit function enters the same switch at its first label.      *)
(***************************************************************************)
EXTENDS Integers, Sequences

VARIABLES
  kmod,    \* kmod[m] : what the kernel's module loader makes of m
  got,     \* got[m] : what m has acquired
  failure  \* failure[m] : label at which m enters its switch

modulesVars == <<kmod, got, failure>>

KernelModules == {"manager", "janitor"}

\* cuddlk_manager_init(), cuddlk_janitor_init(): what is acquired, in order.
ManagerRungs == <<"manager", "chrdev", "cdev", "class", "device">>
JanitorRungs == <<"chrdev", "cdev", "class", "device">>
Rungs(m) == IF m = "manager" THEN ManagerRungs ELSE JanitorRungs

Labels == {"none", "manager", "chrdev", "cdev", "class", "device"}

ModulesTypeOK ==
  /\ kmod \in [KernelModules -> {"out", "init", "live", "cleanup"}]
  /\ got \in [KernelModules -> SUBSET (Labels \ {"none"})]
  /\ failure \in [KernelModules -> Labels]

ModulesInit ==
  /\ kmod = [m \in KernelModules |-> "out"]
  /\ got = [m \in KernelModules |-> {}]
  /\ failure = [m \in KernelModules |-> "none"]

\* What a switch with these labels in this order undoes when entered at label: the
\* statement of that label and those of all labels behind it.
FromLabel(labels, undoes, label) ==
  {undoes[j] : j \in {j \in DOMAIN labels :
                        \E i \in DOMAIN labels : labels[i] = label /\ i <= j}}

\* Faulty variant: each label stands before the statement of the next one.
ManagerCleanupSkipsOne(label) ==
  FromLabel(<<"none", "device", "class", "cdev">>,
            <<"class", "cdev", "chrdev", "manager">>, label)

\* cuddlk_manager_cleanup()
ManagerCleanup(label) ==
  FromLabel(<<"none", "device", "class", "cdev", "chrdev">>,
            <<"device", "class", "cdev", "chrdev", "manager">>, label)

\* cuddlk_janitor_cleanup()
JanitorCleanup(label) ==
  FromLabel(<<"none", "device", "class", "cdev">>,
            <<"device", "class", "cdev", "chrdev">>, label)

CleanedUp(m, label) == IF m = "manager" THEN ManagerCleanup(label) ELSE JanitorCleanup(label)

\* The janitor uses a function of the manager, so that the module loader lets it in
\* only with the manager, and the manager out only without it.
InitBegin(m) ==
  /\ kmod[m] = "out"
  /\ m = "janitor" => kmod["manager"] = "live"
  /\ kmod' = [kmod EXCEPT ![m] = "init"]
  /\ UNCHANGED <<got, failure>>

\* The first i rungs of m.
Lower(m, i) == {Rungs(m)[j] : j \in 1 .. i}

InitStep(m) ==
  /\ kmod[m] = "init"
  /\ \E i \in DOMAIN Rungs(m) :
       /\ got[m] = Lower(m, i - 1)
       /\ got' = [got EXCEPT ![m] = @ \cup {Rungs(m)[i]}]
       /\ kmod' = [kmod EXCEPT ![m] = IF i = Len(Rungs(m)) THEN "live" ELSE @]
  /\ UNCHANGED failure

\* kzalloc(), alloc_chrdev_region(), cdev_add(), class_create() or device_create()
InitFails(m) ==
  /\ kmod[m] = "init"
  /\ \E i \in DOMAIN Rungs(m) :
       /\ got[m] = Lower(m, i - 1)
       /\ failure' = [failure EXCEPT ![m] = Rungs(m)[i]]
  /\ kmod' = [kmod EXCEPT ![m] = "cleanup"]
  /\ UNCHANGED got

\* cuddlk_manager_exit(), cuddlk_janitor_exit()
ExitBegin(m) ==
  /\ kmod[m] = "live"
  /\ m = "manager" => kmod["janitor"] = "out"
  /\ kmod' = [kmod EXCEPT ![m] = "cleanup"]
  /\ failure' = [failure EXCEPT ![m] = "none"]
  /\ UNCHANGED got

Cleanup(m) ==
  /\ kmod[m] = "cleanup"
  /\ got' = [got EXCEPT ![m] = @ \ CleanedUp(m, failure[m])]
  /\ kmod' = [kmod EXCEPT ![m] = "out"]
  /\ UNCHANGED failure

ModuleStep(m) == InitBegin(m) \/ InitStep(m) \/ InitFails(m) \/ Cleanup(m)

ModulesNext == \E m \in KernelModules : ModuleStep(m) \/ ExitBegin(m)

ModulesSpec == ModulesInit /\ [][ModulesNext]_modulesVars

-----------------------------------------------------------------------------
(* Properties *)

\* Wherever init fails, the switch is entered at the label that undoes what has been
\* done and nothing else: destroying a class that was never created is as fatal as a
\* character device left behind by a module that is gone.
FailureUndoesWhatWasDone ==
  /\ \A m \in KernelModules : kmod[m] = "cleanup" => CleanedUp(m, failure[m]) = got[m]
  /\ \A m \in KernelModules : kmod[m] = "out" => got[m] = {}
=============================================================================

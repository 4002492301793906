----------------------- MODULE CuddlManagerClaims_proofs -----------------------
(***************************************************************************)
(* Proofs that the counts, the tokens and the accounts of the claim        *)
(* protocol are right while its users keep to the documented protocol.     *)
(***************************************************************************)
EXTENDS CuddlManager_proofs

(***************************************************************************)
(* Processes release what they have claimed, call nothing after they have  *)
(* begun to end and do not fork; drivers set owner_ptr to their own module *)
(* and release their devices in their exit functions.  The janitor module  *)
(* may be missing when a process starts, which the user library survives.  *)
(***************************************************************************)
WellBehaved ==
  /\ Allowed \subseteq {"any_order", "stale_struct", "unmanaged_release", "no_janitor"}
  /\ OwnerOf = DriverOf

(***************************************************************************)
(* The documented protocol: every process has a janitor as well.           *)
(***************************************************************************)
Disciplined == WellBehaved /\ "no_janitor" \notin Allowed

-----------------------------------------------------------------------------
(* The inductive invariant *)

\* Claims are made on devices whose drivers stay.
ClaimedDriverLive == \A e \in refs : modstate[DriverOf[e.dev]] = "live"

\* A process that has ended holds nothing, and its files are closed.
EndedHoldsNothing ==
  \A p \in Procs : pstate[p] = "none" =>
    /\ \A t \in Tokens : held[p][t] = 0
    /\ \A f \in jfiles : f.pid # p

\* Nobody shares a janitor file.
JanitorFilesPrivate == \A f \in jfiles : f.holders = {f.pid}

\* A clean-up is run by the process it is for, as that ends.
CleanUpOfEnding ==
  janitor # NULL => /\ janitor.by = janitor.pid
                    /\ pstate[janitor.pid] = "exiting"

ProcessInv == EndedHoldsNothing /\ JanitorFilesPrivate /\ CleanUpOfEnding

TableInv == ClaimedDriverLive /\ TokensNameTheirDevice /\ CleanUpFindsDevices

CountInv == RefCountExact /\ PinsExact

ClaimInv ==
  /\ ManagerTypeOK
  /\ CountInv
  /\ TableInv
  /\ ProcessInv
  /\ Exclusive
  /\ HeldIsClaimed

\* Every running process has a janitor file.
RunningHasJanitor ==
  \A p \in Procs : pstate[p] = "running" => \E f \in jfiles : f.pid = p

\* What the janitor's presence adds: whose claims will be freed, and by whom.
AccountInv == ClaimInv /\ RunningHasJanitor /\ ClaimsAccountedFor

-----------------------------------------------------------------------------
(* Counting the list *)

\* A new node is counted once: for its resource, its module and its process.
LEMMA NodeAdded ==
  ASSUME IsFiniteSet(refs), NEW e, e \notin refs, refs' = refs \cup {e}
  PROVE  /\ \A d, r : Cardinality(ClaimsOn(d, r)') =
              IF e.dev = d /\ e.res = r THEN Cardinality(ClaimsOn(d, r)) + 1
                                        ELSE Cardinality(ClaimsOn(d, r))
         /\ \A m : Cardinality(UsersOf(m)') =
              IF OwnerOf[e.dev] = m THEN Cardinality(UsersOf(m)) + 1
                                    ELSE Cardinality(UsersOf(m))
         /\ \A p, s, r : Cardinality(RefsWith(p, s, r)') =
              IF e.pid = p /\ e.slot = s /\ e.res = r
              THEN Cardinality(RefsWith(p, s, r)) + 1
              ELSE Cardinality(RefsWith(p, s, r))
<1>1. ASSUME NEW T \in SUBSET refs
      PROVE  Cardinality(T \cup {e}) = Cardinality(T) + 1
  <2>1. IsFiniteSet(T) /\ e \notin T
    BY FS_Subset
  <2> QED
    BY <2>1, FS_AddElement
<1>2. ASSUME NEW d, NEW r
      PROVE  Cardinality(ClaimsOn(d, r)') =
               IF e.dev = d /\ e.res = r THEN Cardinality(ClaimsOn(d, r)) + 1
                                         ELSE Cardinality(ClaimsOn(d, r))
  <2>1. ClaimsOn(d, r)' = IF e.dev = d /\ e.res = r THEN ClaimsOn(d, r) \cup {e}
                                                    ELSE ClaimsOn(d, r)
    BY DEF ClaimsOn
  <2>2. ClaimsOn(d, r) \in SUBSET refs
    BY DEF ClaimsOn
  <2> QED
    BY <1>1, <2>1, <2>2
<1>3. ASSUME NEW m
      PROVE  Cardinality(UsersOf(m)') =
               IF OwnerOf[e.dev] = m THEN Cardinality(UsersOf(m)) + 1
                                     ELSE Cardinality(UsersOf(m))
  <2>1. UsersOf(m)' = IF OwnerOf[e.dev] = m THEN UsersOf(m) \cup {e} ELSE UsersOf(m)
    BY DEF UsersOf
  <2>2. UsersOf(m) \in SUBSET refs
    BY DEF UsersOf
  <2> QED
    BY <1>1, <2>1, <2>2
<1>4. ASSUME NEW p, NEW s, NEW r
      PROVE  Cardinality(RefsWith(p, s, r)') =
               IF e.pid = p /\ e.slot = s /\ e.res = r
               THEN Cardinality(RefsWith(p, s, r)) + 1
               ELSE Cardinality(RefsWith(p, s, r))
  <2>1. RefsWith(p, s, r)' = IF e.pid = p /\ e.slot = s /\ e.res = r
                             THEN RefsWith(p, s, r) \cup {e} ELSE RefsWith(p, s, r)
    BY DEF RefsWith
  <2>2. RefsWith(p, s, r) \in SUBSET refs
    BY DEF RefsWith
  <2> QED
    BY <1>1, <2>1, <2>2
<1> QED
  BY <1>2, <1>3, <1>4

\* A node taken off the list is discounted once.
LEMMA NodeRemoved ==
  ASSUME IsFiniteSet(refs), NEW e \in refs, refs' = refs \ {e}
  PROVE  /\ \A d, r : Cardinality(ClaimsOn(d, r)') =
              IF e.dev = d /\ e.res = r THEN Cardinality(ClaimsOn(d, r)) - 1
                                        ELSE Cardinality(ClaimsOn(d, r))
         /\ \A m : Cardinality(UsersOf(m)') =
              IF OwnerOf[e.dev] = m THEN Cardinality(UsersOf(m)) - 1
                                    ELSE Cardinality(UsersOf(m))
         /\ \A p, s, r : Cardinality(RefsWith(p, s, r)') =
              IF e.pid = p /\ e.slot = s /\ e.res = r
              THEN Cardinality(RefsWith(p, s, r)) - 1
              ELSE Cardinality(RefsWith(p, s, r))
<1>1. ASSUME NEW T \in SUBSET refs
      PROVE  Cardinality(T \ {e}) = IF e \in T THEN Cardinality(T) - 1 ELSE Cardinality(T)
  <2>1. IsFiniteSet(T)
    BY FS_Subset
  <2> QED
    BY <2>1, FS_RemoveElement
<1>2. ASSUME NEW d, NEW r
      PROVE  Cardinality(ClaimsOn(d, r)') =
               IF e.dev = d /\ e.res = r THEN Cardinality(ClaimsOn(d, r)) - 1
                                         ELSE Cardinality(ClaimsOn(d, r))
  <2>1. ClaimsOn(d, r)' = ClaimsOn(d, r) \ {e}
    BY DEF ClaimsOn
  <2>2. ClaimsOn(d, r) \in SUBSET refs /\ (e \in ClaimsOn(d, r) <=> e.dev = d /\ e.res = r)
    BY DEF ClaimsOn
  <2> QED
    BY <1>1, <2>1, <2>2
<1>3. ASSUME NEW m
      PROVE  Cardinality(UsersOf(m)') =
               IF OwnerOf[e.dev] = m THEN Cardinality(UsersOf(m)) - 1
                                     ELSE Cardinality(UsersOf(m))
  <2>1. UsersOf(m)' = UsersOf(m) \ {e}
    BY DEF UsersOf
  <2>2. UsersOf(m) \in SUBSET refs /\ (e \in UsersOf(m) <=> OwnerOf[e.dev] = m)
    BY DEF UsersOf
  <2> QED
    BY <1>1, <2>1, <2>2
<1>4. ASSUME NEW p, NEW s, NEW r
      PROVE  Cardinality(RefsWith(p, s, r)') =
               IF e.pid = p /\ e.slot = s /\ e.res = r
               THEN Cardinality(RefsWith(p, s, r)) - 1
               ELSE Cardinality(RefsWith(p, s, r))
  <2>1. RefsWith(p, s, r)' = RefsWith(p, s, r) \ {e}
    BY DEF RefsWith
  <2>2. /\ RefsWith(p, s, r) \in SUBSET refs
        /\ e \in RefsWith(p, s, r) <=> e.pid = p /\ e.slot = s /\ e.res = r
    BY DEF RefsWith
  <2> QED
    BY <1>1, <2>1, <2>2
<1> QED
  BY <1>2, <1>3, <1>4

\* Counts of parts of the list are natural numbers, and zero for the empty part only.
LEMMA CountsOfList ==
  ASSUME IsFiniteSet(refs)
  PROVE  /\ \A d, r : Cardinality(ClaimsOn(d, r)) \in Nat
         /\ \A d, r : Cardinality(ClaimsOn(d, r)) = 0 <=> ClaimsOn(d, r) = {}
         /\ \A m : Cardinality(UsersOf(m)) \in Nat
         /\ \A m : Cardinality(UsersOf(m)) = 0 <=> UsersOf(m) = {}
         /\ \A p, s, r : Cardinality(RefsWith(p, s, r)) \in Nat
         /\ \A p, s, r : Cardinality(RefsWith(p, s, r)) = 0 <=> RefsWith(p, s, r) = {}
<1>1. ASSUME NEW T \in SUBSET refs
      PROVE  Cardinality(T) \in Nat /\ (Cardinality(T) = 0 <=> T = {})
  <2>1. IsFiniteSet(T)
    BY FS_Subset
  <2> QED
    BY <2>1, FS_CardinalityType, FS_EmptySet
<1>2. /\ \A d, r : ClaimsOn(d, r) \in SUBSET refs
      /\ \A m : UsersOf(m) \in SUBSET refs
      /\ \A p, s, r : RefsWith(p, s, r) \in SUBSET refs
  BY DEF ClaimsOn, UsersOf, RefsWith
<1> QED
  BY <1>1, <1>2

-----------------------------------------------------------------------------
(* The counts *)

\* A claim keeps the counts exact.
LEMMA ClaimKeepsCounts ==
  ASSUME ManagerTypeOK, CountInv, NEW e \in Ref, e \notin refs, refs' = refs \cup {e},
         OwnerLive(e.dev),
         ref_count' = CountClaimed(e.dev, e.res), pins' = PinsClaimed(e.dev)
  PROVE  CountInv'
<1>1. IsFiniteSet(refs) /\ e.dev \in Devs /\ e.res \in Resources
  BY DEF ManagerTypeOK, Ref
<1>2. OwnerOf[e.dev] \in Modules
  BY <1>1, ManagerAssumption
<1>3. ASSUME NEW d \in Devs, NEW r \in Resources
      PROVE  ref_count'[d][r] = Cardinality(ClaimsOn(d, r)')
  <2>1. ref_count'[d][r] = IF e.dev = d /\ e.res = r THEN ref_count[d][r] + 1
                                                     ELSE ref_count[d][r]
    BY <1>1 DEF CountClaimed, ManagerTypeOK
  <2>2. ref_count[d][r] = Cardinality(ClaimsOn(d, r))
    BY DEF CountInv, RefCountExact
  <2> QED
    BY <1>1, <2>1, <2>2, NodeAdded
<1>4. ASSUME NEW m \in Modules
      PROVE  pins'[m] = Cardinality(UsersOf(m)')
  <2>1. pins'[m] = IF OwnerOf[e.dev] = m THEN pins[m] + 1 ELSE pins[m]
    BY <1>2 DEF PinsClaimed, ManagerTypeOK
  <2>2. pins[m] = Cardinality(UsersOf(m))
    BY DEF CountInv, PinsExact
  <2> QED
    BY <1>1, <2>1, <2>2, NodeAdded
<1> QED
  BY <1>3, <1>4 DEF CountInv, RefCountExact, PinsExact

\* A release, or a round of a clean-up, that takes a node off the list and gives
\* back the claim on the node's device keeps the counts exact.
LEMMA ReleaseKeepsCounts ==
  ASSUME ManagerTypeOK, CountInv, NEW e \in refs, refs' = refs \ {e},
         ref_count' = CountDecr(ref_count, e.dev, e.res),
         pins' = PinsDecr(pins, ref_count, e.dev, e.res)
  PROVE  CountInv'
<1>1. IsFiniteSet(refs) /\ e.dev \in Devs /\ e.res \in Resources
  BY DEF ManagerTypeOK, Ref
<1>2. OwnerOf[e.dev] \in Modules
  BY <1>1, ManagerAssumption
<1>3. ref_count[e.dev][e.res] \in Nat /\ ref_count[e.dev][e.res] # 0
  <2>1. ClaimsOn(e.dev, e.res) # {}
    BY DEF ClaimsOn
  <2> QED
    BY <1>1, <2>1, CountsOfList DEF CountInv, RefCountExact, ManagerTypeOK
<1>4. pins[OwnerOf[e.dev]] \in Nat /\ pins[OwnerOf[e.dev]] # 0
  <2>1. UsersOf(OwnerOf[e.dev]) # {}
    BY DEF UsersOf
  <2> QED
    BY <1>1, <1>2, <2>1, CountsOfList DEF CountInv, PinsExact, ManagerTypeOK
<1>5. ASSUME NEW d \in Devs, NEW r \in Resources
      PROVE  ref_count'[d][r] = Cardinality(ClaimsOn(d, r)')
  <2>1. ref_count'[d][r] = IF e.dev = d /\ e.res = r THEN ref_count[d][r] - 1
                                                     ELSE ref_count[d][r]
    BY <1>1, <1>3 DEF CountDecr, ManagerTypeOK
  <2>2. ref_count[d][r] = Cardinality(ClaimsOn(d, r))
    BY DEF CountInv, RefCountExact
  <2> QED
    BY <1>1, <2>1, <2>2, NodeRemoved
<1>6. ASSUME NEW m \in Modules
      PROVE  pins'[m] = Cardinality(UsersOf(m)')
  <2>1. pins'[m] = IF OwnerOf[e.dev] = m THEN pins[m] - 1 ELSE pins[m]
    BY <1>2, <1>3, <1>4 DEF PinsDecr, ManagerTypeOK
  <2>2. pins[m] = Cardinality(UsersOf(m))
    BY DEF CountInv, PinsExact
  <2> QED
    BY <1>1, <2>1, <2>2, NodeRemoved
<1> QED
  BY <1>5, <1>6 DEF CountInv, RefCountExact, PinsExact

\* The error path of a claim gives back exactly what the claim had taken.
LEMMA UndoneClaimChangesNothing ==
  ASSUME ManagerTypeOK, NEW d \in Devs, NEW r \in Resources, OwnerLive(d)
  PROVE  /\ CountDecr(CountClaimed(d, r), d, r) = ref_count
         /\ PinsDecr(PinsClaimed(d), CountClaimed(d, r), d, r) = pins
<1>1. /\ ref_count \in [Devs -> [Resources -> Nat]]
      /\ pins \in [Modules -> Nat] /\ OwnerOf[d] \in Modules
  BY ManagerAssumption DEF ManagerTypeOK
<1>2. CountClaimed(d, r)[d][r] = ref_count[d][r] + 1
  BY <1>1 DEF CountClaimed
<1>3. CountClaimed(d, r)[d][r] # 0 /\ ref_count[d][r] \in Nat
  BY <1>1, <1>2
<1>4. CountDecr(CountClaimed(d, r), d, r) = [CountClaimed(d, r) EXCEPT ![d][r] = @ - 1]
  BY <1>3 DEF CountDecr
<1>5. CountDecr(CountClaimed(d, r), d, r) = ref_count
  BY <1>1, <1>4 DEF CountClaimed
<1>6. PinsClaimed(d) = [pins EXCEPT ![OwnerOf[d]] = @ + 1]
  BY DEF PinsClaimed
<1>7. PinsClaimed(d)[OwnerOf[d]] = pins[OwnerOf[d]] + 1
  BY <1>1, <1>6
<1>8. PinsDecr(PinsClaimed(d), CountClaimed(d, r), d, r)
        = [PinsClaimed(d) EXCEPT ![OwnerOf[d]] = @ - 1]
  BY <1>1, <1>3, <1>7 DEF PinsDecr
<1>9. PinsDecr(PinsClaimed(d), CountClaimed(d, r), d, r) = pins
  BY <1>1, <1>6, <1>8
<1> QED
  BY <1>5, <1>9

-----------------------------------------------------------------------------
(* What a step can be, and what it cannot *)

\* Where everybody is well-behaved the operations outside the protocol are disabled.
LEMMA ProtocolGuards ==
  ASSUME WellBehaved
  PROVE  /\ \A p : Calling(p) <=> pstate[p] = "running"
         /\ "claim_going" \notin Allowed
         /\ "stray_release" \notin Allowed
         /\ \A p, s, r : ~InfoFault(p, s, r) /\ ~DecrementRefCount(p, s, r)
         /\ \A p, c : ~ProcFork(p, c)
         /\ "unbind" \notin Allowed
  BY DEF WellBehaved, Calling, InfoFault, DecrementRefCount, ProcFork

\* A claim is made on a live driver's device, which the list does not hold yet.
LEMMA ClaimedOwnerLive ==
  ASSUME WellBehaved, ManagerTypeOK, NEW p, NEW s \in Slots, NEW r \in Resources,
         NEW hostile, Claimable(p, s, r, hostile)
  PROVE  /\ devices[s] \in Devs
         /\ pstate[p] = "running"
         /\ janitor = NULL
         /\ modstate[DriverOf[devices[s]]] = "live"
         /\ OwnerLive(devices[s])
<1>1. devices[s] \in Devs
  BY ResolvedDevice DEF Claimable
<1>2. pstate[p] = "running" /\ janitor = NULL
  BY ProtocolGuards DEF Claimable, Resolved, MutexFree
<1>3. modstate[DriverOf[devices[s]]] = "live"
  BY ProtocolGuards DEF Claimable
<1> QED
  BY <1>1, <1>2, <1>3 DEF OwnerLive, WellBehaved

\* What a step of ManagerNext can be where everybody is well-behaved.
LEMMA StepCases ==
  ASSUME WellBehaved, [ManagerNext]_managerVars
  PROVE  \/ \E p \in Procs, s \in Slots, r \in Resources, hostile \in BOOLEAN :
              Claim(p, s, r, hostile) \/ ClaimUndone(p, s, r, hostile)
         \/ \E p \in Procs, s \in Slots, r \in Resources :
              Release(p, s, r) \/ ReleaseNoDevice(p, s, r)
         \/ \E p \in Procs : \/ ProcStart(p) \/ ProcExit(p) \/ JanitorClose(p)
                             \/ JanitorRelease(p) \/ ProcReap(p)
         \/ CleanUpStep
         \/ DriverStep
         \/ UNCHANGED managerVars
<1>1. ASSUME NEW p \in Procs, Ioctl(p)
      PROVE  \E s \in Slots, r \in Resources :
               \/ \E hostile \in BOOLEAN :
                    Claim(p, s, r, hostile) \/ ClaimUndone(p, s, r, hostile)
               \/ Release(p, s, r)
               \/ ReleaseNoDevice(p, s, r)
  BY <1>1, IoctlCases, ProtocolGuards
<1>2. ASSUME NEW p \in Procs, Process(p)
      PROVE  \/ ProcStart(p) \/ ProcExit(p) \/ JanitorClose(p)
             \/ JanitorRelease(p) \/ ProcReap(p)
  BY <1>2, ProtocolGuards DEF Process
<1> QED
  BY <1>1, <1>2 DEF ManagerNext

-----------------------------------------------------------------------------
(* Steps of claiming and releasing *)

LEMMA ClaimStep ==
  ASSUME WellBehaved, ClaimInv, ManagerTypeOK', NEW p \in Procs, NEW s \in Slots,
         NEW r \in Resources, NEW hostile \in BOOLEAN, Claim(p, s, r, hostile)
  PROVE  ClaimInv'
<1>1. /\ devices[s] \in Devs /\ pstate[p] = "running" /\ janitor = NULL
      /\ modstate[DriverOf[devices[s]]] = "live" /\ OwnerLive(devices[s])
  BY ClaimedOwnerLive DEF Claim, ClaimInv
<1>2. PICK a \in Addrs \ {e.addr : e \in refs} :
        refs' = refs \cup {[addr |-> a, slot |-> s, res |-> r, pid |-> p,
                            dev |-> devices[s], hostile |-> hostile]}
  BY DEF Claim
<1> DEFINE node == [addr |-> a, slot |-> s, res |-> r, pid |-> p,
                    dev |-> devices[s], hostile |-> hostile]
<1>3. /\ node \in Ref /\ node \notin refs
      /\ node.slot = s /\ node.res = r /\ node.pid = p /\ node.hostile = hostile
      /\ node.dev = devices[s]
  BY <1>1, <1>2 DEF Ref
<1>4. refs' = refs \cup {node}
  BY <1>2
<1> HIDE DEF node
<1>5. UNCHANGED <<registryVars, pstate, jfiles, janitor, oops>>
  BY DEF Claim
<1>6. CountInv'
  BY <1>1, <1>3, <1>4, ClaimKeepsCounts DEF Claim, ClaimInv
<1>7. TableInv'
  BY <1>1, <1>3, <1>4, <1>5 DEF ClaimInv, TableInv, ClaimedDriverLive,
     TokensNameTheirDevice, CleanUpFindsDevices, registryVars
<1>8. held' \in {held, [held EXCEPT ![p][<<s, r>>] = @ + 1]}
  BY DEF Claim
<1>9. ProcessInv'
  BY <1>1, <1>5, <1>8 DEF ClaimInv, ProcessInv, EndedHoldsNothing,
     JanitorFilesPrivate, CleanUpOfEnding, ManagerTypeOK
<1>10. Exclusive'
  \* The count is the size of the list, so a claim that is let in because the count
  \* is zero meets no other claim on the list.
  <2>1. MayClaim(devices[s], r, hostile)
    BY DEF Claim, Claimable
  <2>2. CASE ref_count[devices[s]][r] = 0
    <3>1. ClaimsOn(devices[s], r) = {}
      BY <1>1, <2>2, CountsOfList DEF ClaimInv, CountInv, RefCountExact, ManagerTypeOK
    <3> QED
      BY <1>3, <1>4, <3>1 DEF ClaimInv, Exclusive, ClaimsOn
  <2>3. CASE Shared[devices[s]][r] \/ hostile
    BY <1>3, <1>4, <2>3 DEF ClaimInv, Exclusive
  <2> QED
    BY <2>1, <2>2, <2>3 DEF MayClaim
<1>11. HeldIsClaimed'
  <2> SUFFICES ASSUME NEW q \in Procs, NEW t \in Slots, NEW x \in Resources,
                      pstate'[q] = "running"
               PROVE  held'[q][<<t, x>>] <= Cardinality(RefsWith(q, t, x)')
    BY DEF HeldIsClaimed
  <2>1. <<t, x>> \in Tokens /\ <<s, r>> \in Tokens
    BY DEF Tokens
  <2>2. held[q][<<t, x>>] \in Nat /\ held[q][<<t, x>>] <= Cardinality(RefsWith(q, t, x))
    BY <1>5, <2>1 DEF ClaimInv, HeldIsClaimed, ManagerTypeOK
  <2>3. held'[q][<<t, x>>] <= IF q = p /\ t = s /\ x = r THEN held[q][<<t, x>>] + 1
                                                         ELSE held[q][<<t, x>>]
    <3>1. CASE held' = held
      BY <2>2, <3>1
    <3>2. CASE held' = [held EXCEPT ![p][<<s, r>>] = @ + 1]
      <4>1. held \in [Procs -> [Tokens -> Nat]]
        BY DEF ClaimInv, ManagerTypeOK
      <4>2. held'[q][<<t, x>>] = IF q = p /\ <<t, x>> = <<s, r>> THEN held[q][<<t, x>>] + 1
                                                                ELSE held[q][<<t, x>>]
        BY <2>1, <3>2, <4>1
      <4> QED
        BY <2>2, <4>2
    <3> QED
      BY <1>8, <3>1, <3>2
  <2>4. /\ Cardinality(RefsWith(q, t, x)') =
             IF q = p /\ t = s /\ x = r THEN Cardinality(RefsWith(q, t, x)) + 1
                                        ELSE Cardinality(RefsWith(q, t, x))
        /\ Cardinality(RefsWith(q, t, x)) \in Nat
    BY <1>3, <1>4, NodeAdded, CountsOfList DEF ClaimInv, ManagerTypeOK
  <2>5. held'[q][<<t, x>>] \in Nat
    BY <2>1 DEF ManagerTypeOK
  <2> QED
    BY <2>2, <2>3, <2>4, <2>5
<1> QED
  BY <1>6, <1>7, <1>9, <1>10, <1>11 DEF ClaimInv

LEMMA ReleaseStep ==
  ASSUME WellBehaved, ClaimInv, ManagerTypeOK', NEW p \in Procs, NEW s \in Slots,
         NEW r \in Resources, Release(p, s, r)
  PROVE  ClaimInv'
<1>1. pstate[p] = "running" /\ janitor = NULL /\ held[p][<<s, r>>] > 0
  BY ProtocolGuards DEF Release, MutexFree
<1>2. <<s, r>> \in Tokens
  BY DEF Tokens
<1>3. IsFiniteSet(refs) /\ held[p][<<s, r>>] \in Nat
  BY <1>2 DEF ClaimInv, ManagerTypeOK
<1>4. RefsWith(p, s, r) # {}
  BY <1>1, <1>3, CountsOfList DEF ClaimInv, HeldIsClaimed
<1>5. PICK e \in RefsWith(p, s, r) : refs' = refs \ {e}
  BY <1>4 DEF Release
<1>6. e \in refs /\ e.pid = p /\ e.slot = s /\ e.res = r
  BY <1>5 DEF RefsWith
<1>7. devices[s] = e.dev
  BY <1>6 DEF ClaimInv, TableInv, TokensNameTheirDevice
<1>8. UNCHANGED <<registryVars, pstate, jfiles, janitor, oops>>
  BY DEF Release
<1>9. CountInv'
  BY <1>5, <1>6, <1>7, ReleaseKeepsCounts DEF Release, ClaimInv
<1>10. TableInv' /\ Exclusive'
  BY <1>5, <1>8 DEF ClaimInv, TableInv, ClaimedDriverLive, TokensNameTheirDevice,
     CleanUpFindsDevices, Exclusive, registryVars
<1>11. held' = [held EXCEPT ![p][<<s, r>>] = @ - 1]
  <2> DEFINE n == IF held[p][<<s, r>>] = 0 THEN 0 ELSE held[p][<<s, r>>] - 1
  <2>1. held' = [held EXCEPT ![p][<<s, r>>] = n]
    BY DEF Release
  <2>2. n = held[p][<<s, r>>] - 1
    BY <1>1, <1>3
  <2> HIDE DEF n
  <2> QED
    BY <2>1, <2>2
<1>12. ProcessInv'
  BY <1>1, <1>8, <1>11 DEF ClaimInv, ProcessInv, EndedHoldsNothing,
     JanitorFilesPrivate, CleanUpOfEnding, ManagerTypeOK
<1>13. HeldIsClaimed'
  <2> SUFFICES ASSUME NEW q \in Procs, NEW t \in Slots, NEW x \in Resources,
                      pstate'[q] = "running"
               PROVE  held'[q][<<t, x>>] <= Cardinality(RefsWith(q, t, x)')
    BY DEF HeldIsClaimed
  <2>1. <<t, x>> \in Tokens
    BY DEF Tokens
  <2>2. held[q][<<t, x>>] \in Nat /\ held[q][<<t, x>>] <= Cardinality(RefsWith(q, t, x))
    BY <1>8, <2>1 DEF ClaimInv, HeldIsClaimed, ManagerTypeOK
  <2>3. held'[q][<<t, x>>] = IF q = p /\ t = s /\ x = r THEN held[q][<<t, x>>] - 1
                                                        ELSE held[q][<<t, x>>]
    BY <1>2, <1>11, <2>1, <2>2 DEF ClaimInv, ManagerTypeOK
  <2>4. /\ Cardinality(RefsWith(q, t, x)') =
             IF q = p /\ t = s /\ x = r THEN Cardinality(RefsWith(q, t, x)) - 1
                                        ELSE Cardinality(RefsWith(q, t, x))
        /\ Cardinality(RefsWith(q, t, x)) \in Nat
    BY <1>3, <1>5, <1>6, NodeRemoved, CountsOfList
  <2> QED
    BY <2>2, <2>3, <2>4
<1> QED
  BY <1>9, <1>10, <1>12, <1>13 DEF ClaimInv

\* A claim that is undone, and the release of a claim whose device has gone, which
\* cannot happen to a claim that is on the list.
LEMMA NoClaimStep ==
  ASSUME WellBehaved, ClaimInv, NEW p \in Procs, NEW s \in Slots, NEW r \in Resources
  PROVE  /\ \A hostile \in BOOLEAN :
              ClaimUndone(p, s, r, hostile) => UNCHANGED managerVars
         /\ ~ReleaseNoDevice(p, s, r)
<1>1. ASSUME NEW hostile \in BOOLEAN, ClaimUndone(p, s, r, hostile)
      PROVE  UNCHANGED managerVars
  <2>1. devices[s] \in Devs /\ OwnerLive(devices[s])
    BY <1>1, ClaimedOwnerLive DEF ClaimUndone, ClaimInv
  <2>2. ref_count' = ref_count /\ pins' = pins
    BY <1>1, <2>1, UndoneClaimChangesNothing DEF ClaimUndone, ClaimInv
  <2> QED
    BY <1>1, <2>2 DEF ClaimUndone, managerVars, claimVars
<1>2. ASSUME ReleaseNoDevice(p, s, r)
      PROVE  FALSE
  <2>1. pstate[p] = "running" /\ held[p][<<s, r>>] > 0 /\ devices[s] = NULL
    BY <1>2, ProtocolGuards DEF ReleaseNoDevice
  <2>2. held[p][<<s, r>>] \in Nat
    BY DEF ClaimInv, ManagerTypeOK, Tokens
  <2>3. RefsWith(p, s, r) # {}
    BY <2>1, <2>2, CountsOfList DEF ClaimInv, HeldIsClaimed, ManagerTypeOK
  <2>4. PICK e \in refs : e.slot = s
    BY <2>3 DEF RefsWith
  <2>5. e.dev \in Devs /\ devices[s] = e.dev
    BY <2>4 DEF ClaimInv, TableInv, TokensNameTheirDevice, ManagerTypeOK, Ref
  <2> QED
    BY <2>1, <2>5, RegistryAssumption
<1> QED
  BY <1>1, <1>2

-----------------------------------------------------------------------------
(* Steps of a process's life *)

\* A step that leaves the registry, the list and the counts alone keeps what
\* relates them.
LEMMA ClaimsUntouched ==
  ASSUME ClaimInv, UNCHANGED <<registryVars, claimVars, oops>>
  PROVE  CountInv' /\ TableInv' /\ Exclusive'
<1>1. /\ \A d, r : ClaimsOn(d, r)' = ClaimsOn(d, r)
      /\ \A m : UsersOf(m)' = UsersOf(m)
  BY DEF ClaimsOn, UsersOf, claimVars
<1>2. CountInv'
  BY <1>1 DEF ClaimInv, CountInv, RefCountExact, PinsExact, claimVars
<1>3. TableInv' /\ Exclusive'
  BY DEF ClaimInv, TableInv, ClaimedDriverLive, TokensNameTheirDevice,
     CleanUpFindsDevices, Exclusive, registryVars, claimVars
<1> QED
  BY <1>2, <1>3

LEMMA SameRefsWith ==
  ASSUME refs' = refs
  PROVE  \A p, s, r : RefsWith(p, s, r)' = RefsWith(p, s, r)
  BY DEF RefsWith

LEMMA ProcStartStep ==
  ASSUME WellBehaved, ClaimInv, ManagerTypeOK', NEW p \in Procs, ProcStart(p)
  PROVE  ClaimInv'
<1>1. CountInv' /\ TableInv' /\ Exclusive'
  BY ClaimsUntouched DEF ProcStart
<1>2. jfiles' = jfiles \cup {[pid |-> p, holders |-> {p}]} \/ jfiles' = jfiles
  BY DEF ProcStart
<1>3. /\ pstate[p] = "none" /\ pstate' = [pstate EXCEPT ![p] = "running"]
      /\ held' = held /\ janitor' = janitor /\ refs' = refs /\ modstate' = modstate
  BY DEF ProcStart, claimVars, registryVars
<1>4. pstate \in [Procs -> {"none", "running", "exiting"}]
  BY DEF ClaimInv, ManagerTypeOK
<1> DEFINE new == [pid |-> p, holders |-> {p}]
<1>a. new.pid = p /\ new.holders = {p} /\ (jfiles' = jfiles \cup {new} \/ jfiles' = jfiles)
  BY <1>2
<1> HIDE DEF new
<1>5. ProcessInv'
  <2>1. EndedHoldsNothing'
    BY <1>a, <1>3, <1>4 DEF ClaimInv, ProcessInv, EndedHoldsNothing
  <2>2. JanitorFilesPrivate'
    BY <1>a, <1>3, <1>4 DEF ClaimInv, ProcessInv, JanitorFilesPrivate
  <2>3. CleanUpOfEnding'
    BY <1>3, <1>4 DEF ClaimInv, ProcessInv, CleanUpOfEnding, ManagerTypeOK, CleanUp
  <2> QED
    BY <2>1, <2>2, <2>3 DEF ProcessInv
<1>6. HeldIsClaimed'
  <2> SUFFICES ASSUME NEW q \in Procs, NEW s \in Slots, NEW r \in Resources,
                      pstate'[q] = "running"
               PROVE  held[q][<<s, r>>] <= Cardinality(RefsWith(q, s, r))
    BY <1>3, SameRefsWith DEF HeldIsClaimed
  <2>1. CASE q = p
    <3>1. held[q][<<s, r>>] = 0
      BY <1>3, <2>1 DEF ClaimInv, ProcessInv, EndedHoldsNothing, Tokens
    <3>2. Cardinality(RefsWith(q, s, r)) \in Nat
      BY CountsOfList DEF ClaimInv, ManagerTypeOK
    <3> QED
      BY <3>1, <3>2
  <2>2. CASE q # p
    BY <1>3, <1>4, <2>2 DEF ClaimInv, HeldIsClaimed
  <2> QED
    BY <2>1, <2>2
<1> QED
  BY <1>1, <1>5, <1>6 DEF ClaimInv

LEMMA ProcExitStep ==
  ASSUME WellBehaved, ClaimInv, ManagerTypeOK', NEW p \in Procs, ProcExit(p)
  PROVE  ClaimInv'
<1>1. CountInv' /\ TableInv' /\ Exclusive'
  BY ClaimsUntouched DEF ProcExit
<1>2. /\ pstate[p] = "running" /\ pstate' = [pstate EXCEPT ![p] = "exiting"]
      /\ UNCHANGED <<held, jfiles, janitor, refs, modstate>>
  BY DEF ProcExit, claimVars, registryVars
<1>3. pstate \in [Procs -> {"none", "running", "exiting"}]
  BY DEF ClaimInv, ManagerTypeOK
<1>4. ProcessInv'
  BY <1>2, <1>3 DEF ClaimInv, ProcessInv, EndedHoldsNothing, JanitorFilesPrivate,
     CleanUpOfEnding
<1>5. HeldIsClaimed'
  BY <1>2, <1>3, SameRefsWith DEF ClaimInv, HeldIsClaimed
<1> QED
  BY <1>1, <1>4, <1>5 DEF ClaimInv

\* Nobody else holds a janitor file open, so its holder's close is the last one.
LEMMA NoSharedClose ==
  ASSUME ClaimInv, NEW p \in Procs
  PROVE  ~JanitorClose(p)
  BY DEF JanitorClose, ClaimInv, ProcessInv, JanitorFilesPrivate

LEMMA JanitorReleaseStep ==
  ASSUME WellBehaved, ClaimInv, ManagerTypeOK', NEW p \in Procs, JanitorRelease(p)
  PROVE  ClaimInv'
<1>1. CountInv' /\ TableInv' /\ Exclusive'
  BY ClaimsUntouched DEF JanitorRelease
<1>2. PICK f \in jfiles : /\ f.holders = {p}
                          /\ jfiles' = jfiles \ {f}
                          /\ janitor' = [by |-> p, pid |-> f.pid]
  BY DEF JanitorRelease
<1>3. /\ pstate[p] = "exiting" /\ janitor = NULL
      /\ UNCHANGED <<held, pstate, refs, modstate>>
  BY DEF JanitorRelease, MutexFree, claimVars, registryVars
<1>4. f.pid = p
  BY <1>2 DEF ClaimInv, ProcessInv, JanitorFilesPrivate
<1>5. \A g \in jfiles : g.pid = p => g = f
  <2>1. \A g \in jfiles : g = [pid |-> g.pid, holders |-> g.holders]
    BY DEF ClaimInv, ManagerTypeOK, JanitorFile
  <2>2. \A g \in jfiles : g.holders = {g.pid}
    BY DEF ClaimInv, ProcessInv, JanitorFilesPrivate
  <2> QED
    BY <1>2, <1>4, <2>1, <2>2
<1>6. janitor'.by = p /\ janitor'.pid = p /\ janitor' # NULL
  <2>1. janitor'.by = p /\ janitor'.pid = p
    BY <1>2, <1>4
  <2>2. janitor' # NULL
    BY <1>2, <1>4, ManagerAssumption DEF CleanUp
  <2> QED
    BY <2>1, <2>2
<1>7. ProcessInv'
  BY <1>2, <1>3, <1>4, <1>5, <1>6 DEF ClaimInv, ProcessInv, EndedHoldsNothing,
     JanitorFilesPrivate, CleanUpOfEnding
<1>8. HeldIsClaimed'
  BY <1>3, SameRefsWith DEF ClaimInv, HeldIsClaimed
<1> QED
  BY <1>1, <1>7, <1>8 DEF ClaimInv

LEMMA ProcReapStep ==
  ASSUME WellBehaved, ClaimInv, ManagerTypeOK', NEW p \in Procs, ProcReap(p)
  PROVE  ClaimInv'
<1>1. CountInv' /\ TableInv' /\ Exclusive'
  BY ClaimsUntouched DEF ProcReap
<1>2. /\ pstate[p] = "exiting" /\ pstate' = [pstate EXCEPT ![p] = "none"]
      /\ held' = [held EXCEPT ![p] = [t \in Tokens |-> 0]]
      /\ \A f \in jfiles : p \notin f.holders
      /\ janitor # NULL => janitor.by # p
      /\ UNCHANGED <<jfiles, janitor, refs, modstate>>
  BY DEF ProcReap, CleaningUp, MutexFree, claimVars, registryVars
<1>3. pstate \in [Procs -> {"none", "running", "exiting"}]
      /\ held \in [Procs -> [Tokens -> Nat]]
  BY DEF ClaimInv, ManagerTypeOK
<1>4. ProcessInv'
  BY <1>2, <1>3 DEF ClaimInv, ProcessInv, EndedHoldsNothing, JanitorFilesPrivate,
     CleanUpOfEnding
<1>5. HeldIsClaimed'
  BY <1>2, <1>3, SameRefsWith DEF ClaimInv, HeldIsClaimed
<1> QED
  BY <1>1, <1>4, <1>5 DEF ClaimInv

-----------------------------------------------------------------------------
(* Steps of a clean-up and of drivers *)

LEMMA FreeRefStep ==
  ASSUME ClaimInv, ManagerTypeOK', NEW e \in refs, FreeRef(e)
  PROVE  ClaimInv'
<1>1. /\ janitor # NULL /\ e.pid = janitor.pid /\ refs' = refs \ {e}
      /\ UNCHANGED <<registryVars, procVars>>
  BY DEF FreeRef, MutexFree
<1>2. devices[e.slot] = e.dev
  BY DEF ClaimInv, TableInv, TokensNameTheirDevice
<1>3. CountInv'
  BY <1>1, <1>2, ReleaseKeepsCounts DEF FreeRef, ClaimInv
<1>4. TableInv' /\ Exclusive' /\ ProcessInv'
  BY <1>1 DEF ClaimInv, TableInv, ClaimedDriverLive, TokensNameTheirDevice,
     CleanUpFindsDevices, Exclusive, ProcessInv, EndedHoldsNothing, JanitorFilesPrivate,
     CleanUpOfEnding, registryVars, procVars
<1>5. HeldIsClaimed'
  <2> SUFFICES ASSUME NEW q \in Procs, NEW s \in Slots, NEW r \in Resources,
                      pstate'[q] = "running"
               PROVE  held'[q][<<s, r>>] <= Cardinality(RefsWith(q, s, r)')
    BY DEF HeldIsClaimed
  <2>1. q # e.pid
    BY <1>1 DEF ClaimInv, ProcessInv, CleanUpOfEnding, procVars
  <2>2. RefsWith(q, s, r)' = RefsWith(q, s, r)
    BY <1>1, <2>1 DEF RefsWith
  <2> QED
    BY <1>1, <2>2 DEF ClaimInv, HeldIsClaimed, procVars
<1> QED
  BY <1>3, <1>4, <1>5 DEF ClaimInv

LEMMA CleanUpStepStep ==
  ASSUME ClaimInv, ManagerTypeOK', CleanUpStep
  PROVE  ClaimInv'
<1>1. ASSUME NEW e \in refs, FreeRefNullDevice(e)
      PROVE  FALSE
  <2>1. e.dev \in Devs /\ devices[e.slot] = e.dev
    BY DEF ClaimInv, ManagerTypeOK, Ref, TableInv, TokensNameTheirDevice
  <2> QED
    BY <1>1, <2>1, RegistryAssumption DEF FreeRefNullDevice
<1>2. ASSUME FreeRefsDone
      PROVE  ClaimInv'
  <2>1. CountInv' /\ TableInv' /\ Exclusive'
    BY <1>2, ClaimsUntouched DEF FreeRefsDone
  <2>2. /\ \A e \in refs : e.pid # janitor.pid
        /\ janitor' = NULL /\ UNCHANGED <<held, pstate, jfiles, refs, modstate>>
    BY <1>2 DEF FreeRefsDone, claimVars, registryVars
  <2>3. ProcessInv'
    BY <2>2 DEF ClaimInv, ProcessInv, EndedHoldsNothing, JanitorFilesPrivate,
       CleanUpOfEnding
  <2>4. HeldIsClaimed'
    BY <2>2, SameRefsWith DEF ClaimInv, HeldIsClaimed
  <2> QED
    BY <2>1, <2>3, <2>4 DEF ClaimInv
<1> QED
  BY <1>1, <1>2, FreeRefStep DEF CleanUpStep

\* A driver that is not live has no device on the list.
LEMMA UnclaimedDriver ==
  ASSUME ClaimInv, WellBehaved, NEW m \in Drivers, modstate[m] # "live"
  PROVE  /\ UsersOf(m) = {}
         /\ \A d \in Devs, r \in Resources : DriverOf[d] = m => ClaimsOn(d, r) = {}
  BY DEF ClaimInv, WellBehaved, TableInv, ClaimedDriverLive, UsersOf, ClaimsOn

\* What a driver does to the table and to the states of modules leaves alone what is
\* claimed, and so leaves the invariant alone.
LEMMA DriverKeepsClaims ==
  ASSUME ClaimInv, UNCHANGED <<refs, procVars>>, CountInv', ManagerTypeOK',
         \A e \in refs : /\ modstate'[DriverOf[e.dev]] = "live"
                         /\ devices'[e.slot] = devices[e.slot]
  PROVE  ClaimInv'
<1>1. TableInv' /\ Exclusive' /\ ProcessInv'
  BY DEF ClaimInv, TableInv, ClaimedDriverLive, TokensNameTheirDevice,
     CleanUpFindsDevices, Exclusive, ProcessInv, EndedHoldsNothing, JanitorFilesPrivate,
     CleanUpOfEnding, procVars
<1>2. HeldIsClaimed'
  BY SameRefsWith DEF ClaimInv, HeldIsClaimed, procVars
<1> QED
  BY <1>1, <1>2 DEF ClaimInv

LEMMA SameCounts ==
  ASSUME CountInv, UNCHANGED claimVars
  PROVE  CountInv'
<1>1. /\ \A d, r : ClaimsOn(d, r)' = ClaimsOn(d, r)
      /\ \A m : UsersOf(m)' = UsersOf(m)
  BY DEF ClaimsOn, UsersOf, claimVars
<1> QED
  BY <1>1 DEF CountInv, RefCountExact, PinsExact, claimVars

LEMMA DriverStepStep ==
  ASSUME WellBehaved, ClaimInv, ManagerTypeOK', DriverStep
  PROVE  ClaimInv'
<1> USE DEF claimVars
<1>1. /\ \A e \in refs : e.dev \in Devs /\ modstate[DriverOf[e.dev]] = "live"
      /\ \A e \in refs : e.slot \in Slots /\ devices[e.slot] = e.dev
  BY DEF ClaimInv, ManagerTypeOK, Ref, TableInv, ClaimedDriverLive, TokensNameTheirDevice
<1>2. modstate \in [Drivers -> {"unloaded", "live", "going"}]
      /\ devices \in [Slots -> Devs \cup {NULL}] /\ NULL \notin Devs
  BY RegistryAssumption DEF ClaimInv, ManagerTypeOK, RegistryTypeOK
<1>3. ASSUME NEW m \in Drivers, Insmod(m)
      PROVE  ClaimInv'
  <2>1. modstate[m] = "unloaded" /\ modstate' = [modstate EXCEPT ![m] = "live"]
        /\ devices' = devices /\ refs' = refs /\ UNCHANGED procVars
    BY <1>3 DEF Insmod, ModuleLoad
  <2>2. /\ UsersOf(m) = {}
        /\ \A d \in Devs, r \in Resources : DriverOf[d] = m => ClaimsOn(d, r) = {}
    BY <2>1, UnclaimedDriver
  <2>3. ASSUME NEW d \in Devs, NEW r \in Resources
        PROVE  ref_count'[d][r] = Cardinality(ClaimsOn(d, r)')
    <3>1. ClaimsOn(d, r)' = ClaimsOn(d, r)
      BY <2>1 DEF ClaimsOn
    <3>2. ref_count'[d][r] = IF DriverOf[d] = m THEN 0 ELSE ref_count[d][r]
      BY <1>3 DEF Insmod
    <3> QED
      BY <2>2, <3>1, <3>2, FS_EmptySet DEF ClaimInv, CountInv, RefCountExact
  <2>4. ASSUME NEW n \in Modules
        PROVE  pins'[n] = Cardinality(UsersOf(n)')
    <3>1. UsersOf(n)' = UsersOf(n)
      BY <2>1 DEF UsersOf
    <3>2. pins'[n] = IF n = m THEN 0 ELSE pins[n]
      BY <1>3 DEF Insmod, ClaimInv, ManagerTypeOK
    <3> QED
      BY <2>2, <3>1, <3>2, FS_EmptySet DEF ClaimInv, CountInv, PinsExact
  <2>5. CountInv'
    BY <2>3, <2>4 DEF CountInv, RefCountExact, PinsExact
  <2> QED
    BY <1>1, <1>2, <2>1, <2>5, DriverKeepsClaims
<1>4. ASSUME NEW m \in Drivers, Rmmod(m)
      PROVE  ClaimInv'
  \* The loader lets go only of a module without users, and the count of users is
  \* exact: none of its devices is claimed.
  <2>1. UsersOf(m) = {}
    <3>1. pins[m] = 0 /\ m \in Modules
      BY <1>4 DEF Rmmod, Modules
    <3> QED
      BY <3>1, CountsOfList DEF ClaimInv, CountInv, PinsExact, ManagerTypeOK
  <2>2. \A e \in refs : DriverOf[e.dev] # m
    BY <2>1 DEF UsersOf, WellBehaved
  <2>3. modstate' = [modstate EXCEPT ![m] = "going"] /\ devices' = devices
        /\ UNCHANGED <<claimVars, procVars>>
    BY <1>4 DEF Rmmod, ModuleUnloadBegin
  <2> QED
    BY <1>1, <1>2, <2>2, <2>3, SameCounts, DriverKeepsClaims DEF ClaimInv
<1>5. ASSUME NEW m \in Drivers, RmmodDone(m)
      PROVE  ClaimInv'
  <2>1. modstate[m] = "going" /\ modstate' = [modstate EXCEPT ![m] = "unloaded"]
        /\ devices' = devices /\ UNCHANGED <<claimVars, procVars>>
    BY <1>5 DEF RmmodDone, ModuleUnloadEnd
  <2> QED
    BY <1>1, <1>2, <2>1, SameCounts, DriverKeepsClaims DEF ClaimInv
<1>6. ASSUME NEW d \in Devs, Manage(d)
      PROVE  ClaimInv'
  <2>1. modstate' = modstate /\ UNCHANGED <<claimVars, procVars>>
    BY <1>6 DEF Manage, DeviceManage, DeviceManageRegisterFails
  <2>2. devices' = devices
        \/ \E s \in Slots : devices[s] = NULL /\ devices' = [devices EXCEPT ![s] = d]
    BY <1>6 DEF Manage, DeviceManage, DeviceManageRegisterFails, EmptySlot, DeviceSlot, First
  <2>3. \A e \in refs : devices'[e.slot] = devices[e.slot]
    BY <1>1, <1>2, <2>2
  <2> QED
    BY <1>1, <2>1, <2>3, SameCounts, DriverKeepsClaims DEF ClaimInv
<1>7. ASSUME NEW d \in Devs, ReleaseDevice(d)
      PROVE  ClaimInv'
  <2>1. modstate' = modstate /\ UNCHANGED <<claimVars, procVars>>
    BY <1>7 DEF ReleaseDevice, DeviceRelease
  <2>2. modstate[DriverOf[d]] = "going"
    BY <1>7, ProtocolGuards DEF ReleaseDevice, DeviceRelease, MayRelease
  <2>3. \A e \in refs : devices'[e.slot] = devices[e.slot]
    BY <1>1, <1>7, <2>2 DEF ReleaseDevice, DeviceRelease, DeviceSlot, First
  <2> QED
    BY <1>1, <2>1, <2>3, SameCounts, DriverKeepsClaims DEF ClaimInv
<1> QED
  BY <1>3, <1>4, <1>5, <1>6, <1>7 DEF DriverStep

-----------------------------------------------------------------------------
(* The invariant *)

LEMMA StutterStep == ClaimInv /\ UNCHANGED managerVars => ClaimInv'
<1> SUFFICES ASSUME ClaimInv, UNCHANGED managerVars PROVE ClaimInv'
  OBVIOUS
<1>1. ManagerTypeOK'
  BY ManagerNextType DEF ClaimInv
<1>2. CountInv' /\ TableInv' /\ Exclusive'
  BY ClaimsUntouched DEF managerVars, procVars
<1>3. ProcessInv'
  BY DEF managerVars, procVars, claimVars, registryVars, ClaimInv, ProcessInv,
     EndedHoldsNothing, JanitorFilesPrivate, CleanUpOfEnding
<1>4. HeldIsClaimed'
  BY SameRefsWith DEF managerVars, procVars, claimVars, ClaimInv, HeldIsClaimed
<1> QED
  BY <1>1, <1>2, <1>3, <1>4 DEF ClaimInv

LEMMA ClaimInvInit == ManagerInit => ClaimInv
<1> SUFFICES ASSUME ManagerInit PROVE ClaimInv
  OBVIOUS
<1>1. ManagerTypeOK
  BY ManagerInitType
<1>2. refs = {} /\ (\A m : UsersOf(m) = {}) /\ (\A d, r : ClaimsOn(d, r) = {})
  BY DEF ManagerInit, UsersOf, ClaimsOn
<1>3. CountInv
  BY <1>2, FS_EmptySet DEF ManagerInit, CountInv, RefCountExact, PinsExact
<1>4. TableInv /\ Exclusive
  BY <1>2 DEF ManagerInit, TableInv, ClaimedDriverLive, TokensNameTheirDevice,
     CleanUpFindsDevices, Exclusive
<1>5. ProcessInv /\ HeldIsClaimed
  BY DEF ManagerInit, ProcessInv, EndedHoldsNothing, JanitorFilesPrivate,
     CleanUpOfEnding, HeldIsClaimed
<1> QED
  BY <1>1, <1>3, <1>4, <1>5 DEF ClaimInv

LEMMA ClaimInvNext ==
  ASSUME WellBehaved
  PROVE  ClaimInv /\ [ManagerNext]_managerVars => ClaimInv'
<1> SUFFICES ASSUME ClaimInv, [ManagerNext]_managerVars PROVE ClaimInv'
  OBVIOUS
<1>1. ManagerTypeOK'
  BY ManagerNextType DEF ClaimInv
<1>2. ASSUME NEW p \in Procs, NEW s \in Slots, NEW r \in Resources,
             NEW hostile \in BOOLEAN, Claim(p, s, r, hostile)
      PROVE  ClaimInv'
  BY <1>1, <1>2, ClaimStep
<1>3. ASSUME NEW p \in Procs, NEW s \in Slots, NEW r \in Resources,
             NEW hostile \in BOOLEAN, ClaimUndone(p, s, r, hostile)
      PROVE  ClaimInv'
  BY <1>3, NoClaimStep, StutterStep
<1>4. ASSUME NEW p \in Procs, NEW s \in Slots, NEW r \in Resources,
             Release(p, s, r) \/ ReleaseNoDevice(p, s, r)
      PROVE  ClaimInv'
  BY <1>1, <1>4, ReleaseStep, NoClaimStep
<1>5. ASSUME NEW p \in Procs,
             \/ ProcStart(p) \/ ProcExit(p) \/ JanitorClose(p)
             \/ JanitorRelease(p) \/ ProcReap(p)
      PROVE  ClaimInv'
  BY <1>1, <1>5, ProcStartStep, ProcExitStep, NoSharedClose, JanitorReleaseStep, ProcReapStep
<1>6. CASE CleanUpStep
  BY <1>1, <1>6, CleanUpStepStep
<1>7. CASE DriverStep
  BY <1>1, <1>7, DriverStepStep
<1> QED
  BY <1>2, <1>3, <1>4, <1>5, <1>6, <1>7, StepCases, StutterStep

LEMMA ClaimInvariant ==
  ASSUME WellBehaved
  PROVE  ManagerSpec => []ClaimInv
<1>1. ManagerInit => ClaimInv
  BY ClaimInvInit
<1>2. ClaimInv /\ [ManagerNext]_managerVars => ClaimInv'
  BY ClaimInvNext
<1> QED
  BY <1>1, <1>2, PTL DEF ManagerSpec

-----------------------------------------------------------------------------
(* The accounts: what a janitor for every process adds *)

\* Every claim on the list has a live driver already: what is left of an account is
\* who will free it.
LEMMA AccountOf ==
  ASSUME ClaimInv',
         \A e \in refs' : \/ \E f \in jfiles' : f.pid = e.pid
                          \/ janitor' # NULL /\ janitor'.pid = e.pid
  PROVE  ClaimsAccountedFor'
<1>1. \A e \in refs' : modstate'[DriverOf[e.dev]] = "live"
  BY DEF ClaimInv, TableInv, ClaimedDriverLive
<1>2. \A f \in jfiles' : f.pid \in f.holders
  BY DEF ClaimInv, ProcessInv, JanitorFilesPrivate
<1> QED
  BY <1>1, <1>2 DEF ClaimsAccountedFor

\* A step that leaves processes and janitor files alone and grants nothing.
LEMMA NoNewAccount ==
  ASSUME AccountInv, ClaimInv', refs' \subseteq refs, UNCHANGED <<pstate, jfiles, janitor>>
  PROVE  AccountInv'
<1>1. RunningHasJanitor'
  BY DEF AccountInv, RunningHasJanitor
<1>2. ClaimsAccountedFor'
  BY AccountOf DEF AccountInv, ClaimsAccountedFor
<1> QED
  BY <1>1, <1>2 DEF AccountInv

LEMMA ProcessAccounts ==
  ASSUME Disciplined, AccountInv, ClaimInv', NEW p \in Procs,
         \/ ProcStart(p) \/ ProcExit(p) \/ JanitorClose(p)
         \/ JanitorRelease(p) \/ ProcReap(p)
  PROVE  AccountInv'
<1>1. pstate \in [Procs -> {"none", "running", "exiting"}]
  BY DEF AccountInv, ClaimInv, ManagerTypeOK
<1>2. refs' = refs
  BY DEF ProcStart, ProcExit, JanitorClose, JanitorRelease, ProcReap, claimVars
<1>3. CASE ProcStart(p)
  <2>1. /\ \E new \in jfiles' : new.pid = p
        /\ jfiles \subseteq jfiles'
    <3> DEFINE new == [pid |-> p, holders |-> {p}]
    <3>1. jfiles' = jfiles \cup {new}
      BY <1>3 DEF ProcStart, Disciplined
    <3>2. new.pid = p
      OBVIOUS
    <3> HIDE DEF new
    <3> QED
      BY <3>1, <3>2
  <2>2. pstate' = [pstate EXCEPT ![p] = "running"] /\ janitor' = janitor
    BY <1>3 DEF ProcStart
  <2>3. RunningHasJanitor'
    BY <1>1, <2>1, <2>2 DEF AccountInv, RunningHasJanitor
  <2>4. ClaimsAccountedFor'
    BY <1>2, <2>1, <2>2, AccountOf DEF AccountInv, ClaimsAccountedFor
  <2> QED
    BY <2>3, <2>4 DEF AccountInv
<1>4. CASE ProcExit(p) \/ ProcReap(p)
  <2>1. /\ UNCHANGED <<jfiles, janitor>>
        /\ \A q \in Procs : pstate'[q] = "running" => pstate[q] = "running"
    BY <1>1, <1>4 DEF ProcExit, ProcReap
  <2>2. RunningHasJanitor'
    BY <2>1 DEF AccountInv, RunningHasJanitor
  <2>3. ClaimsAccountedFor'
    BY <1>2, <2>1, AccountOf DEF AccountInv, ClaimsAccountedFor
  <2> QED
    BY <2>2, <2>3 DEF AccountInv
<1>5. CASE JanitorRelease(p)
  <2>1. PICK f \in jfiles : /\ f.holders = {p}
                            /\ jfiles' = jfiles \ {f}
                            /\ janitor' = [by |-> p, pid |-> f.pid]
    BY <1>5 DEF JanitorRelease
  <2>2. f.pid = p
    BY <2>1 DEF AccountInv, ClaimInv, ProcessInv, JanitorFilesPrivate
  <2>3. /\ pstate[p] = "exiting" /\ janitor = NULL /\ pstate' = pstate
        /\ janitor'.pid = p /\ janitor' # NULL
    BY <1>5, <2>1, <2>2, ManagerAssumption DEF JanitorRelease, MutexFree, CleanUp
  <2>4. RunningHasJanitor'
    BY <2>1, <2>2, <2>3 DEF AccountInv, RunningHasJanitor
  <2>5. ClaimsAccountedFor'
    BY <1>2, <2>1, <2>2, <2>3, AccountOf DEF AccountInv, ClaimsAccountedFor
  <2> QED
    BY <2>4, <2>5 DEF AccountInv
<1>6. ~JanitorClose(p)
  BY NoSharedClose DEF AccountInv
<1> QED
  BY <1>3, <1>4, <1>5, <1>6

LEMMA AccountInvNext ==
  ASSUME Disciplined
  PROVE  AccountInv /\ [ManagerNext]_managerVars => AccountInv'
<1> SUFFICES ASSUME AccountInv, [ManagerNext]_managerVars PROVE AccountInv'
  OBVIOUS
<1>1. WellBehaved /\ ClaimInv /\ ClaimInv'
  BY ClaimInvNext DEF Disciplined, AccountInv
<1>2. ASSUME NEW p \in Procs, NEW s \in Slots, NEW r \in Resources,
             NEW hostile \in BOOLEAN, Claim(p, s, r, hostile)
      PROVE  AccountInv'
  \* The new claim is one of a running process, which has its janitor file.
  <2>1. pstate[p] = "running" /\ UNCHANGED <<pstate, jfiles, janitor>>
    BY <1>1, <1>2, ClaimedOwnerLive DEF Claim, ClaimInv
  <2>2. \A e \in refs' : e \in refs \/ e.pid = p
    BY <1>2 DEF Claim
  <2>3. ClaimsAccountedFor'
    BY <1>1, <2>1, <2>2, AccountOf DEF AccountInv, RunningHasJanitor, ClaimsAccountedFor
  <2> QED
    BY <1>1, <2>1, <2>3 DEF AccountInv, RunningHasJanitor
<1>3. ASSUME NEW p \in Procs, NEW s \in Slots, NEW r \in Resources,
             \/ \E hostile \in BOOLEAN : ClaimUndone(p, s, r, hostile)
             \/ Release(p, s, r) \/ ReleaseNoDevice(p, s, r)
      PROVE  AccountInv'
  <2>1. refs' \subseteq refs /\ UNCHANGED <<pstate, jfiles, janitor>>
    BY <1>3 DEF ClaimUndone, Release, ReleaseNoDevice, procVars, claimVars
  <2> QED
    BY <1>1, <2>1, NoNewAccount
<1>4. ASSUME NEW p \in Procs,
             \/ ProcStart(p) \/ ProcExit(p) \/ JanitorClose(p)
             \/ JanitorRelease(p) \/ ProcReap(p)
      PROVE  AccountInv'
  BY <1>1, <1>4, ProcessAccounts
<1>5. CASE CleanUpStep
  <2>1. ASSUME NEW e \in refs, FreeRef(e) \/ FreeRefNullDevice(e)
        PROVE  AccountInv'
    <3>1. refs' \subseteq refs /\ UNCHANGED <<pstate, jfiles, janitor>>
      BY <2>1 DEF FreeRef, FreeRefNullDevice, procVars, claimVars
    <3> QED
      BY <1>1, <3>1, NoNewAccount
  <2>2. ASSUME FreeRefsDone
        PROVE  AccountInv'
    \* The clean-up ends when the list has no node of its process left.
    <3>1. /\ \A e \in refs : e.pid # janitor.pid
          /\ UNCHANGED <<pstate, jfiles, refs>>
      BY <2>2 DEF FreeRefsDone, claimVars
    <3>2. ClaimsAccountedFor'
      BY <1>1, <3>1, AccountOf DEF AccountInv, ClaimsAccountedFor
    <3> QED
      BY <1>1, <3>1, <3>2 DEF AccountInv, RunningHasJanitor
  <2> QED
    BY <1>5, <2>1, <2>2 DEF CleanUpStep
<1>6. CASE DriverStep \/ UNCHANGED managerVars
  <2>1. refs' \subseteq refs /\ UNCHANGED <<pstate, jfiles, janitor>>
    BY <1>6 DEF DriverStep, Insmod, Rmmod, RmmodDone, Manage, ReleaseDevice,
       managerVars, claimVars, procVars
  <2> QED
    BY <1>1, <2>1, NoNewAccount
<1> QED
  BY <1>1, <1>2, <1>3, <1>4, <1>5, <1>6, StepCases

LEMMA AccountInvariant ==
  ASSUME Disciplined
  PROVE  ManagerSpec => []AccountInv
<1>1. ManagerInit => AccountInv
  <2>1. ManagerInit => ClaimInv
    BY ClaimInvInit
  <2> QED
    BY <2>1 DEF ManagerInit, AccountInv, RunningHasJanitor, ClaimsAccountedFor
<1>2. AccountInv /\ [ManagerNext]_managerVars => AccountInv'
  BY AccountInvNext
<1> QED
  BY <1>1, <1>2, PTL DEF ManagerSpec

-----------------------------------------------------------------------------
(* Theorems *)

\* While everybody keeps to the protocol, ref_count of every resource is the number of
\* claims on the list, through undone claims, releases and clean-ups after crashes, and
\* with the claims that processes without a janitor leave behind.
THEOREM RefCountsAreExact ==
  ASSUME WellBehaved
  PROVE  ManagerSpec => []RefCountExact
<1>1. ClaimInv => RefCountExact
  BY DEF ClaimInv, CountInv
<1> QED
  BY <1>1, ClaimInvariant, PTL

\* The kernel's use count of every driver module is the number of claims on its devices.
THEOREM PinsAreExact ==
  ASSUME WellBehaved
  PROVE  ManagerSpec => []PinsExact
<1>1. ClaimInv => PinsExact
  BY DEF ClaimInv, CountInv
<1> QED
  BY <1>1, ClaimInvariant, PTL

\* The slot in a token holds the claimed device for as long as the claim is on the
\* list, whatever drivers are loaded, unloaded, managed and released in between.
THEOREM TokensStayValid ==
  ASSUME WellBehaved
  PROVE  ManagerSpec => []TokensNameTheirDevice
<1>1. ClaimInv => TokensNameTheirDevice
  BY DEF ClaimInv, TableInv
<1> QED
  BY <1>1, ClaimInvariant, PTL

\* A resource that is not shared has one owner, HOSTILE claims apart.
THEOREM ClaimsAreExclusive ==
  ASSUME WellBehaved
  PROVE  ManagerSpec => []Exclusive
<1>1. ClaimInv => Exclusive
  BY DEF ClaimInv
<1> QED
  BY <1>1, ClaimInvariant, PTL

\* A running process has every claim it was granted and has not released.
THEOREM GrantsAreKept ==
  ASSUME WellBehaved
  PROVE  ManagerSpec => []HeldIsClaimed
<1>1. ClaimInv => HeldIsClaimed
  BY DEF ClaimInv
<1> QED
  BY <1>1, ClaimInvariant, PTL

\* The clean-up of a process never dereferences an empty slot.
THEOREM CleanUpIsSafe ==
  ASSUME WellBehaved
  PROVE  ManagerSpec => []CleanUpFindsDevices
<1>1. ClaimInv => CleanUpFindsDevices
  BY DEF ClaimInv, TableInv
<1> QED
  BY <1>1, ClaimInvariant, PTL

\* Every claim on the list has a live driver and somebody who will free it.
THEOREM ClaimsStayAccountedFor ==
  ASSUME Disciplined
  PROVE  ManagerSpec => []ClaimsAccountedFor
<1>1. AccountInv => ClaimsAccountedFor
  BY DEF AccountInv
<1> QED
  BY <1>1, AccountInvariant, PTL

\* No claim is on the list of a process that is gone.
THEOREM NothingOutlivesItsProcess ==
  ASSUME Disciplined
  PROVE  ManagerSpec => []NoClaimOutlivesItsProcess
<1>1. AccountInv => NoClaimOutlivesItsProcess
  <2> SUFFICES ASSUME AccountInv, NEW e \in refs PROVE pstate[e.pid] # "none"
    BY DEF NoClaimOutlivesItsProcess
  <2>1. e.pid \in Procs
    BY DEF AccountInv, ClaimInv, ManagerTypeOK, Ref
  <2>2. CASE \E f \in jfiles : f.pid = e.pid
    BY <2>1, <2>2 DEF AccountInv, ClaimInv, ProcessInv, EndedHoldsNothing
  <2>3. CASE janitor # NULL /\ janitor.pid = e.pid
    BY <2>3 DEF AccountInv, ClaimInv, ProcessInv, CleanUpOfEnding
  <2> QED
    BY <2>2, <2>3 DEF AccountInv, ClaimInv, ClaimsAccountedFor
<1> QED
  BY <1>1, AccountInvariant, PTL

\* Whatever the environment is allowed to do, stray releases and emergency decrements
\* included, a claim leaves the list only through its own process or the clean-up of
\* its pid.
THEOREM OnlyOwnersGiveUpClaims == ManagerSpec => ClaimsLeaveByOwnerOnly
<1> DEFINE Leaves ==
      \A e \in refs \ refs' :
        \/ janitor # NULL /\ janitor.pid = e.pid
        \/ /\ janitor = NULL /\ Calling(e.pid) /\ refs' = refs \ {e}
           /\ \A p \in Procs : held'[p] # held[p] => p = e.pid
<1>1. ManagerTypeOK /\ [ManagerNext]_managerVars => [Leaves]_managerVars
  <2> SUFFICES ASSUME ManagerTypeOK, ManagerNext PROVE Leaves
    OBVIOUS
  <2>1. ASSUME NEW p \in Procs, Ioctl(p)
        PROVE  Leaves
    <3>1. PICK s \in Slots, r \in Resources :
             \/ \E hostile \in BOOLEAN : Claim(p, s, r, hostile)
             \/ \E hostile \in BOOLEAN : ClaimUndone(p, s, r, hostile)
             \/ InfoFault(p, s, r)
             \/ Release(p, s, r)
             \/ ReleaseNoDevice(p, s, r)
             \/ DecrementRefCount(p, s, r)
      BY <2>1, IoctlCases
    <3>2. CASE Release(p, s, r)
      <4>1. janitor = NULL /\ Calling(p)
        BY <3>2 DEF Release, MutexFree
      <4>2. refs' = refs \/ \E e \in RefsWith(p, s, r) : refs' = refs \ {e}
        BY <3>2 DEF Release
      <4>3. \A q \in Procs : held'[q] # held[q] => q = p
        BY <3>2 DEF Release, ManagerTypeOK
      <4> QED
        BY <4>1, <4>2, <4>3 DEF RefsWith
    <3>3. CASE ~Release(p, s, r)
      BY <3>1, <3>3
         DEF Claim, ClaimUndone, InfoFault, ReleaseNoDevice, DecrementRefCount, claimVars
    <3> QED
      BY <3>2, <3>3
  <2>2. ASSUME NEW p \in Procs, Process(p)
        PROVE  Leaves
    BY <2>2 DEF Process, ProcStart, ProcFork, ProcExit, JanitorClose, JanitorRelease,
       ProcReap, claimVars
  <2>3. ASSUME CleanUpStep
        PROVE  Leaves
    BY <2>3 DEF CleanUpStep, FreeRef, FreeRefNullDevice, FreeRefsDone, MutexFree, claimVars
  <2>4. ASSUME DriverStep
        PROVE  Leaves
    BY <2>4 DEF DriverStep, Insmod, Rmmod, RmmodDone, Manage, ReleaseDevice, claimVars
  <2> QED
    BY <2>1, <2>2, <2>3, <2>4 DEF ManagerNext
<1> QED
  BY <1>1, TypeCorrect, PTL DEF ManagerSpec, ClaimsLeaveByOwnerOnly

-----------------------------------------------------------------------------
(* The promise of CuddlClaims: the manager implements the abstract table of claims while *)
(* its users keep to the documented protocol.                                            *)

ClaimTableStep == [PromisedClaims!ClaimsNext]_(PromisedClaims!claimsVars)

\* A step that changes nothing of what the abstract state is made of.
LEMMA InvisibleStep ==
  ASSUME UNCHANGED <<devices, pstate, refs>>
  PROVE  ClaimTableStep
  BY DEF ClaimTableStep, PromisedClaims!claimsVars, Managed, ProcsIn

LEMMA ClaimGrants ==
  ASSUME WellBehaved, ClaimInv, NEW p \in Procs, NEW s \in Slots, NEW r \in Resources,
         NEW hostile \in BOOLEAN, Claim(p, s, r, hostile)
  PROVE  ClaimTableStep
<1>1. devices[s] \in Devs /\ pstate[p] = "running"
  BY ClaimedOwnerLive DEF Claim, ClaimInv
<1>2. PICK a \in Addrs \ {e.addr : e \in refs} :
        refs' = refs \cup {[addr |-> a, slot |-> s, res |-> r, pid |-> p,
                            dev |-> devices[s], hostile |-> hostile]}
  BY DEF Claim
<1> DEFINE node == [addr |-> a, slot |-> s, res |-> r, pid |-> p,
                    dev |-> devices[s], hostile |-> hostile]
<1>3. /\ node \in Ref /\ node \notin refs
      /\ node.res = r /\ node.pid = p /\ node.hostile = hostile /\ node.dev = devices[s]
  BY <1>1, <1>2 DEF Ref
<1>4. refs' = refs \cup {node}
  BY <1>2
<1> HIDE DEF node
<1>5. UNCHANGED <<Managed, ProcsIn("running"), ProcsIn("exiting")>>
  BY DEF Claim, registryVars, Managed, ProcsIn
<1>6. node.dev \in Managed /\ node.pid \in ProcsIn("running")
  BY <1>1, <1>3 DEF Managed, ProcsIn
<1>7. Shared[node.dev][node.res] \/ node.hostile \/ \A e \in refs : ~PromisedClaims!Alike(node, e)
  \* The count that lets the claim in is the number of claims on the list.
  <2>1. MayClaim(devices[s], r, hostile)
    BY DEF Claim, Claimable
  <2>2. ASSUME ref_count[devices[s]][r] = 0
        PROVE  \A e \in refs : ~PromisedClaims!Alike(node, e)
    <3>1. ClaimsOn(devices[s], r) = {}
      BY <1>1, <2>2, CountsOfList DEF ClaimInv, CountInv, RefCountExact, ManagerTypeOK
    <3> QED
      BY <1>3, <3>1 DEF ClaimsOn, PromisedClaims!Alike
  <2> QED
    BY <1>3, <2>1, <2>2 DEF MayClaim
<1>8. PromisedClaims!Grant(node)
  BY <1>3, <1>4, <1>5, <1>6, <1>7 DEF PromisedClaims!Grant
<1> QED
  BY <1>3, <1>8 DEF ClaimTableStep, PromisedClaims!ClaimsNext

\* A node that leaves the list of an existing process is a claim given up.
LEMMA NodeGivenUp ==
  ASSUME ClaimInv, NEW e \in refs, refs' = refs \ {e},
         pstate[e.pid] \in {"running", "exiting"}, UNCHANGED <<devices, pstate>>
  PROVE  ClaimTableStep
<1>1. e \in Ref /\ e.pid \in Procs
  BY DEF ClaimInv, ManagerTypeOK, Ref
<1>2. UNCHANGED <<Managed, ProcsIn("running"), ProcsIn("exiting")>>
  BY DEF Managed, ProcsIn
<1>3. PromisedClaims!GiveUp(e)
  BY <1>1, <1>2 DEF PromisedClaims!GiveUp, ProcsIn
<1> QED
  BY <1>1, <1>3 DEF ClaimTableStep, PromisedClaims!ClaimsNext

LEMMA ReleaseGivesUp ==
  ASSUME WellBehaved, ClaimInv, NEW p \in Procs, NEW s \in Slots, NEW r \in Resources,
         Release(p, s, r)
  PROVE  ClaimTableStep
<1>1. pstate[p] = "running" /\ UNCHANGED <<devices, pstate>>
  BY ProtocolGuards DEF Release, registryVars
<1>2. refs' = refs \/ \E e \in RefsWith(p, s, r) : refs' = refs \ {e}
  BY DEF Release
<1> QED
  BY <1>1, <1>2, NodeGivenUp, InvisibleStep DEF RefsWith

LEMMA ProcessSteps ==
  ASSUME Disciplined, AccountInv, NEW p \in Procs,
         \/ ProcStart(p) \/ ProcExit(p) \/ JanitorClose(p)
         \/ JanitorRelease(p) \/ ProcReap(p)
  PROVE  ClaimTableStep
<1>1. pstate \in [Procs -> {"none", "running", "exiting"}]
  BY DEF AccountInv, ClaimInv, ManagerTypeOK
<1>2. CASE ProcStart(p)
  <2>1. /\ pstate[p] = "none" /\ pstate' = [pstate EXCEPT ![p] = "running"]
        /\ UNCHANGED <<Managed, refs>>
    BY <1>2 DEF ProcStart, registryVars, claimVars, Managed
  <2>2. PromisedClaims!Start(p)
    BY <1>1, <2>1 DEF PromisedClaims!Start, ProcsIn
  <2> QED
    BY <2>2 DEF ClaimTableStep, PromisedClaims!ClaimsNext
<1>3. CASE ProcExit(p)
  <2>1. /\ pstate[p] = "running" /\ pstate' = [pstate EXCEPT ![p] = "exiting"]
        /\ UNCHANGED <<Managed, refs>>
    BY <1>3 DEF ProcExit, registryVars, claimVars, Managed
  <2>2. PromisedClaims!BeginEnd(p)
    BY <1>1, <2>1 DEF PromisedClaims!BeginEnd, ProcsIn
  <2> QED
    BY <2>2 DEF ClaimTableStep, PromisedClaims!ClaimsNext
<1>4. CASE JanitorClose(p) \/ JanitorRelease(p)
  BY <1>4, InvisibleStep DEF JanitorClose, JanitorRelease, registryVars, claimVars
<1>5. CASE ProcReap(p)
  <2>1. /\ pstate[p] = "exiting" /\ pstate' = [pstate EXCEPT ![p] = "none"]
        /\ \A f \in jfiles : p \notin f.holders
        /\ ~CleaningUp(p)
        /\ UNCHANGED <<Managed, refs>>
    BY <1>5 DEF ProcReap, registryVars, claimVars, Managed
  \* What would have freed a claim of p is closed and done.
  <2>2. \A e \in refs : e.pid # p
    BY <2>1 DEF AccountInv, ClaimInv, ClaimsAccountedFor, ProcessInv, CleanUpOfEnding, CleaningUp, MutexFree
  <2>3. PromisedClaims!End(p)
    BY <1>1, <2>1, <2>2 DEF PromisedClaims!End, ProcsIn
  <2> QED
    BY <2>3 DEF ClaimTableStep, PromisedClaims!ClaimsNext
<1> QED
  BY <1>2, <1>3, <1>4, <1>5

LEMMA CleanUpGivesUp ==
  ASSUME ClaimInv, CleanUpStep
  PROVE  ClaimTableStep
<1>1. ASSUME NEW e \in refs, FreeRef(e)
      PROVE  ClaimTableStep
  <2>1. /\ pstate[e.pid] = "exiting" /\ refs' = refs \ {e}
        /\ UNCHANGED <<devices, pstate>>
    BY <1>1 DEF FreeRef, MutexFree, ClaimInv, ProcessInv, CleanUpOfEnding, registryVars, procVars
  <2> QED
    BY <2>1, NodeGivenUp
<1>2. ASSUME FreeRefsDone \/ \E e \in refs : FreeRefNullDevice(e)
      PROVE  ClaimTableStep
  BY <1>2, InvisibleStep DEF FreeRefsDone, FreeRefNullDevice, registryVars, claimVars
<1> QED
  BY <1>1, <1>2 DEF CleanUpStep

LEMMA DriverOffersAndWithdraws ==
  ASSUME WellBehaved, ClaimInv, DriverStep
  PROVE  ClaimTableStep
<1>1. devices \in [Slots -> Devs \cup {NULL}] /\ NULL \notin Devs
  BY RegistryAssumption DEF ClaimInv, ManagerTypeOK, RegistryTypeOK
<1>2. ASSUME NEW m \in Drivers, Insmod(m) \/ Rmmod(m) \/ RmmodDone(m)
      PROVE  ClaimTableStep
  BY <1>2, InvisibleStep DEF Insmod, Rmmod, RmmodDone, ModuleLoad, ModuleUnloadBegin,
     ModuleUnloadEnd, claimVars, procVars
<1>3. ASSUME NEW d \in Devs, Manage(d)
      PROVE  ClaimTableStep
  <2>1. UNCHANGED <<refs, pstate, ProcsIn("running"), ProcsIn("exiting")>>
    BY <1>3 DEF Manage, claimVars, procVars, ProcsIn
  <2>2. d \notin Managed
    BY <1>3 DEF Manage, DeviceManage, DeviceManageRegisterFails, MayManage
  <2>3. devices' = devices
        \/ \E s \in Slots : devices[s] = NULL /\ devices' = [devices EXCEPT ![s] = d]
    BY <1>3 DEF Manage, DeviceManage, DeviceManageRegisterFails, EmptySlot, DeviceSlot, First
  <2>4. CASE devices' = devices
    BY <2>1, <2>4, InvisibleStep
  <2>5. CASE \E s \in Slots : devices[s] = NULL /\ devices' = [devices EXCEPT ![s] = d]
    <3>1. Managed' = Managed \cup {d}
      BY <1>1, <2>5 DEF Managed
    <3>2. PromisedClaims!Offer(d)
      BY <2>1, <2>2, <3>1 DEF PromisedClaims!Offer
    <3> QED
      BY <3>2 DEF ClaimTableStep, PromisedClaims!ClaimsNext
  <2> QED
    BY <2>3, <2>4, <2>5
<1>4. ASSUME NEW d \in Devs, ReleaseDevice(d)
      PROVE  ClaimTableStep
  <2>1. UNCHANGED <<refs, pstate, ProcsIn("running"), ProcsIn("exiting")>>
    BY <1>4 DEF ReleaseDevice, claimVars, procVars, ProcsIn
  <2>2. modstate[DriverOf[d]] = "going"
    BY <1>4, ProtocolGuards DEF ReleaseDevice, DeviceRelease, MayRelease
  \* The exit function of a driver runs only when nothing of it is claimed.
  <2>3. \A e \in refs : e.dev # d
    BY <2>2 DEF ClaimInv, TableInv, ClaimedDriverLive
  <2>4. devices' = [s \in Slots |-> IF s \in DeviceSlot(d) THEN NULL ELSE devices[s]]
    BY <1>4 DEF ReleaseDevice, DeviceRelease
  <2>5. DeviceSlot(d) \subseteq {s \in Slots : devices[s] = d}
    BY DEF DeviceSlot, First
  <2>6. Managed' = Managed \ {d} \/ Managed' = Managed
    BY <1>1, <2>4, <2>5 DEF Managed
  <2>7. CASE Managed' = Managed \ {d}
    <3>1. PromisedClaims!Withdraw(d)
      BY <2>1, <2>3, <2>7 DEF PromisedClaims!Withdraw
    <3> QED
      BY <3>1 DEF ClaimTableStep, PromisedClaims!ClaimsNext
  <2>8. CASE Managed' = Managed
    BY <2>1, <2>8 DEF ClaimTableStep, PromisedClaims!claimsVars
  <2> QED
    BY <2>6, <2>7, <2>8
<1> QED
  BY <1>2, <1>3, <1>4 DEF DriverStep

LEMMA EveryStepIsClaimTableStep ==
  ASSUME Disciplined
  PROVE  AccountInv /\ [ManagerNext]_managerVars => ClaimTableStep
<1> SUFFICES ASSUME AccountInv, [ManagerNext]_managerVars PROVE ClaimTableStep
  OBVIOUS
<1>a. WellBehaved /\ ClaimInv
  BY DEF Disciplined, AccountInv
<1>1. ASSUME NEW p \in Procs, NEW s \in Slots, NEW r \in Resources,
             NEW hostile \in BOOLEAN,
             Claim(p, s, r, hostile) \/ ClaimUndone(p, s, r, hostile)
      PROVE  ClaimTableStep
  BY <1>a, <1>1, ClaimGrants, InvisibleStep DEF ClaimUndone, registryVars, procVars
<1>2. ASSUME NEW p \in Procs, NEW s \in Slots, NEW r \in Resources,
             Release(p, s, r) \/ ReleaseNoDevice(p, s, r)
      PROVE  ClaimTableStep
  BY <1>a, <1>2, ReleaseGivesUp, InvisibleStep DEF ReleaseNoDevice, registryVars, claimVars
<1>3. CASE UNCHANGED managerVars
  BY <1>3, InvisibleStep DEF managerVars, registryVars, claimVars, procVars
<1> QED
  BY <1>a, <1>1, <1>2, <1>3, StepCases, ProcessSteps, CleanUpGivesUp, DriverOffersAndWithdraws

LEMMA ClaimTableInit == ManagerInit => PromisedClaims!ClaimsInit
<1> SUFFICES ASSUME ManagerInit PROVE PromisedClaims!ClaimsInit
  OBVIOUS
<1>1. Managed = {}
  BY RegistryAssumption DEF ManagerInit, RegistryInit, Managed
<1> QED
  BY <1>1 DEF ManagerInit, ProcsIn, PromisedClaims!ClaimsInit

\* For any devices, drivers, processes and sharing flags: counts, pins, tokens, the list
\* and the janitor's files implement the abstract table of claims, as long as everybody
\* keeps to the documented protocol.
THEOREM ManagerImplementsClaims ==
  ASSUME Disciplined
  PROVE  ManagerSpec => ImplementsClaims
<1>1. ManagerInit => PromisedClaims!ClaimsInit
  BY ClaimTableInit
<1>2. AccountInv /\ [ManagerNext]_managerVars => ClaimTableStep
  BY EveryStepIsClaimTableStep
<1> QED
  BY <1>1, <1>2, AccountInvariant, PTL
     DEF ManagerSpec, ImplementsClaims, PromisedClaims!ClaimsSpec, ClaimTableStep
=============================================================================

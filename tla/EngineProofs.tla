---------------------------- MODULE EngineProofs ----------------------------
(***************************************************************************)
(* Theorems about Engine, for any services whose keys differ (what happens *)
(* when they don't is the run engine_keys), any piers and any number of    *)
(* changes.  Reading order doesn't matter then: LastOf chooses among one.  *)
(***************************************************************************)
EXTENDS Engine, TLAPS

KeysDiffer == \A g, h \in Handles : Key[g] = Key[h] => g = h

Inv == TypeOK /\ RunsAsConfigured /\ WholeBundles /\ EngageResets

-----------------------------------------------------------------------------
(* Bundles.                                                                *)

LEMMA AsleepType == Asleep \in Bundles /\ Asleep # Absent
BY AbsentAssumption DEF Asleep, Bundles

(* A restart that succeeds leaves nothing of what the bundle was. *)
LEMMA RestartedIsWhole ==
  ASSUME NEW b, NEW s
  PROVE  Restarted(b, s) = Whole(s)
BY DEF Restarted, Whole, Restart

(* A whole bundle is one of a service that runs. *)
LEMMA WholeRight ==
  ASSUME NEW s \in Service
  PROVE  /\ Whole(s) \in Bundles
         /\ Whole(s) # Asleep
         /\ \E p \in Piers : Whole(s)[p] # Absent /\ Whole(s) = Whole(Whole(s)[p])
<1>1. Whole(s) = [p \in Piers |-> IF p \in s.piers THEN s ELSE Absent]
  BY DEF Whole, Restarted, Restart, BundleOf, Asleep
<1>2. PICK p \in Piers : p \in s.piers
  BY DEF Service
<1>3. Whole(s)[p] = s /\ s # Absent
  BY <1>1, <1>2, AbsentAssumption
<1>4. Whole(s) \in Bundles
  BY <1>1 DEF Bundles
<1>5. Whole(s) # Asleep
  BY <1>3 DEF Asleep
<1>6. QED
  BY <1>3, <1>4, <1>5

LEMMA HalfType ==
  ASSUME NEW b \in {Absent} \cup Bundles, NEW s \in Service, NEW half \in HalfRestarted(b, s)
  PROVE  half \in Bundles
<1>1. BundleOf(b) \in Bundles
  BY AsleepType DEF BundleOf
<1>2. PICK S \in (SUBSET s.piers) \ {{}} : half = Restart(BundleOf(b), s, S)
  BY DEF HalfRestarted
<1>3. QED
  BY <1>1, <1>2 DEF Restart, Bundles

(* A request leaves a bundle that sleeps, or a whole one. *)
LEMMA AppliedRight ==
  ASSUME NEW action, NEW b, NEW s \in Service
  PROVE  /\ Applied(action, b, s) \in {Asleep, Whole(s)}
         /\ Applied(action, b, s) \in Bundles
<1>1. Applied(action, b, s) \in {Asleep, Whole(s)}
  BY RestartedIsWhole DEF Applied
<1>2. QED
  BY <1>1, AsleepType, WholeRight

LEMMA AppliedToOneRight ==
  ASSUME NEW action \in Actions, NEW b, NEW s \in Service
  PROVE  /\ AppliedToOne(action, b, s) \in {Absent, Asleep, Whole(s)}
         /\ AppliedToOne(action, b, s) \in {Absent} \cup Bundles
<1>1. CASE action = "engage"
  BY <1>1, RestartedIsWhole, WholeRight DEF AppliedToOne
<1>2. CASE action = "adjust"
  BY <1>2, AppliedRight DEF AppliedToOne
<1>3. CASE action = "unplug"
  BY <1>3, AsleepType DEF AppliedToOne
<1>4. QED
  BY <1>1, <1>2, <1>3 DEF Actions

(* What is left of the sleepers by a request that isn't an engage. *)
LEMMA SleepersStay ==
  ASSUME NEW action \in {"adjust", "unplug"}, NEW s
  PROVE  Applied(action, Asleep, s) = Asleep /\ AppliedToOne(action, Asleep, s) = Asleep
<1>1. Applied(action, Asleep, s) = Asleep
  BY DEF Applied
<1>2. CASE action = "adjust"
  BY <1>1, <1>2 DEF AppliedToOne
<1>3. CASE action = "unplug"
  BY <1>1, <1>3, AsleepType DEF AppliedToOne
<1>4. QED
  BY <1>2, <1>3

LEMMA OneOfAKey ==
  ASSUME KeysDiffer, NEW S \in SUBSET Handles, NEW h \in Handles
  PROVE  /\ h \in S => Sharing(Key[h], S) = {h} /\ LastOf(Key[h], S) = h
         /\ h \notin S => Sharing(Key[h], S) = {}
<1>1. h \in S => Sharing(Key[h], S) = {h}
  BY DEF KeysDiffer, Sharing
<1>2. h \notin S => Sharing(Key[h], S) = {}
  BY DEF KeysDiffer, Sharing
<1>3. ASSUME h \in S PROVE LastOf(Key[h], S) = h
  <2>1. \A g \in {h} : Rank[g] <= Rank[h]
    BY RankAssumption
  <2>2. QED
    BY <1>1, <1>3, <2>1 DEF LastOf
<1>4. QED
  BY <1>1, <1>2, <1>3

-----------------------------------------------------------------------------
(* The two invariants about h look at what the pool has of it.             *)

Right(h) ==
  Key[h] \notin mixed =>
    /\ Runs(h) => \E p \in Piers : pool[Key[h]][p] # Absent
                                     /\ pool[Key[h]] = Whole(pool[Key[h]][p])
    /\ Runs(h) /\ h \notin dirty => disk[h] # Absent /\ pool[Key[h]] = Whole(disk[h])

LEMMA RightIs == (\A h \in Handles : Right(h)) <=> RunsAsConfigured /\ WholeBundles
BY DEF Right, RunsAsConfigured, WholeBundles

(* What a request leaves when it comes to the service. *)
LEMMA RightAfter ==
  ASSUME TypeOK, NEW h \in Handles, disk'[h] = disk[h], disk[h] \in Service,
         pool'[Key[h]] \in {Absent, Asleep, Whole(disk[h])}
  PROVE  Right(h)'
<1>1. disk[h] # Absent
  BY AbsentAssumption
<1>2. QED
  BY <1>1, WholeRight DEF Right, Runs

LEMMA RightSame ==
  ASSUME NEW h \in Handles, Right(h), pool'[Key[h]] \in {Absent, pool[Key[h]]},
         Key[h] \in mixed => Key[h] \in mixed' \/ pool'[Key[h]] = Absent,
         h \notin dirty' => h \notin dirty /\ disk'[h] = disk[h]
  PROVE  Right(h)'
BY DEF Right, Runs

-----------------------------------------------------------------------------
(* The loop over all services.                                             *)

LEMMA SwapRight ==
  ASSUME KeysDiffer, TypeOK, NEW action, Swap(action)
  PROVE  /\ pool' \in [Keys -> {Absent} \cup Bundles]
         /\ \A h \in OnDisk : disk[h] \in Service
                                /\ pool'[Key[h]] = Applied(action, pool[Key[h]], disk[h])
         /\ \A h \in Handles \ OnDisk : pool'[Key[h]] = Absent
         /\ \A k \in Keys : Sharing(k, OnDisk) = {} => pool'[k] = Absent
<1> DEFINE New(k) == IF Sharing(k, OnDisk) = {} THEN Absent
                     ELSE Applied(action, pool[k], disk[LastOf(k, OnDisk)])
<1>1. pool' = [k \in Keys |-> New(k)]
  BY DEF Swap
<1>2. ASSUME NEW h \in OnDisk
      PROVE  disk[h] \in Service /\ New(Key[h]) = Applied(action, pool[Key[h]], disk[h])
  <2>1. h \in Handles /\ OnDisk \in SUBSET Handles /\ disk[h] \in Service
    BY <1>2 DEF OnDisk, TypeOK
  <2>2. Sharing(Key[h], OnDisk) = {h} /\ LastOf(Key[h], OnDisk) = h
    BY <1>2, <2>1, OneOfAKey
  <2>3. Sharing(Key[h], OnDisk) # {}
    BY <2>2
  <2>4. QED
    BY <2>1, <2>2, <2>3
<1>3. ASSUME NEW h \in Handles \ OnDisk PROVE New(Key[h]) = Absent
  <2>1. OnDisk \in SUBSET Handles
    BY DEF OnDisk
  <2>2. QED
    BY <1>3, <2>1, OneOfAKey
<1>4. ASSUME NEW k \in Keys PROVE New(k) \in {Absent} \cup Bundles
  <2>1. PICK h \in Handles : Key[h] = k
    BY DEF Keys
  <2>2. CASE h \in OnDisk
    BY <1>2, <2>1, <2>2, AppliedRight
  <2>3. CASE h \notin OnDisk
    BY <1>3, <2>1, <2>3
  <2>4. QED
    BY <2>2, <2>3
<1>5. \A k \in Keys : Sharing(k, OnDisk) = {} => New(k) = Absent
  OBVIOUS
<1> HIDE DEF New
<1>6. \A h \in Handles : Key[h] \in Keys
  BY DEF Keys
<1>7. OnDisk \in SUBSET Handles
  BY DEF OnDisk
<1>8. QED
  BY <1>1, <1>2, <1>3, <1>4, <1>5, <1>6, <1>7

LEMMA AllInv ==
  ASSUME KeysDiffer, Inv, NEW action \in Actions,
         Swap(action), Done(action, "all"), UNCHANGED <<disk, torn, edits>>, up' \in BOOLEAN
  PROVE  Inv'
<1>1. dirty' = {} /\ mixed' = {} /\ last' = [action |-> action, about |-> "all", ok |-> TRUE]
  BY DEF Swap, Done
<1>2. TypeOK'
  BY <1>1, SwapRight DEF Inv, TypeOK, Requests
<1>3. ASSUME NEW h \in Handles PROVE Right(h)'
  <2>1. CASE h \in OnDisk
    <3>1. pool'[Key[h]] \in {Asleep, Whole(disk[h])} /\ disk[h] \in Service
      BY <2>1, SwapRight, AppliedRight DEF Inv
    <3>2. QED
      BY <3>1, RightAfter DEF Inv
  <2>2. CASE h \notin OnDisk
    <3>1. pool'[Key[h]] = Absent
      BY <2>2, SwapRight DEF Inv
    <3>2. QED
      BY <3>1 DEF Right, Runs
  <2>3. QED
    BY <2>1, <2>2
<1>4. EngageResets'
  <2>1. SUFFICES ASSUME action = "engage" PROVE EngageResets'
    BY <1>1 DEF EngageResets
  <2>2. OnDisk' = OnDisk /\ \A k, S : Sharing(k, S)' = Sharing(k, S)
    BY DEF OnDisk, Sharing
  <2>3. \A h \in OnDisk :
          pool'[Key[h]] = IF disk[h].auto THEN Whole(disk[h]) ELSE Asleep
    BY <2>1, SwapRight, RestartedIsWhole DEF Applied, Inv
  <2>4. QED
    BY <2>2, <2>3, SwapRight DEF EngageResets, Inv
<1>5. QED
  BY <1>2, <1>3, <1>4, RightIs DEF Inv, Right, RunsAsConfigured, WholeBundles, Runs

(* A request that fails after it changed what it came to. *)
LEMMA AllThrowsRight ==
  ASSUME KeysDiffer, TypeOK, NEW action \in Actions, NEW h \in Handles, AllThrows(action, h)
  PROVE  /\ pool' \in [Keys -> {Absent} \cup Bundles]
         /\ pool[Key[h]] = Absent => pool'[Key[h]] = Absent
         /\ \A g \in Handles : g # h =>
              \/ pool'[Key[g]] \in {Absent, pool[Key[g]]}
              \/ disk[g] \in Service
                   /\ pool'[Key[g]] = Applied(action, pool[Key[g]], disk[g])
<1> DEFINE before == {g \in OnDisk : Rank[g] < Rank[h]}
           Then(j) == IF Sharing(j, before) = {} THEN pool[j]
                      ELSE Applied(action, pool[j], disk[LastOf(j, before)])
<1>1. PICK half \in HalfRestarted(Then(Key[h]), disk[h]) :
        pool' = [j \in Keys |-> IF pool[j] = Absent THEN Absent
                                ELSE IF j = Key[h] THEN half ELSE Then(j)]
  BY DEF AllThrows
<1>2. before \in SUBSET Handles /\ disk[h] \in Service
  BY DEF OnDisk, AllThrows, TypeOK
<1>3. ASSUME NEW g \in Handles
      PROVE  \/ Then(Key[g]) = pool[Key[g]]
             \/ disk[g] \in Service /\ Then(Key[g]) = Applied(action, pool[Key[g]], disk[g])
  <2>1. CASE g \in before
    <3>1. Sharing(Key[g], before) = {g} /\ LastOf(Key[g], before) = g
      <4> HIDE DEF before
      <4>1. QED
        BY <1>2, <1>3, <2>1, OneOfAKey
    <3>2. Sharing(Key[g], before) # {}
      BY <3>1
    <3>3. disk[g] \in Service
      BY <2>1 DEF OnDisk, TypeOK
    <3>4. QED
      BY <3>1, <3>2, <3>3
  <2>2. CASE g \notin before
    BY <1>2, <1>3, <2>2, OneOfAKey
  <2>3. QED
    BY <2>1, <2>2
<1>4. ASSUME NEW j \in Keys PROVE Then(j) \in {Absent} \cup Bundles
  <2>1. PICK g \in Handles : Key[g] = j
    BY DEF Keys
  <2>2. pool[j] \in {Absent} \cup Bundles
    BY DEF TypeOK
  <2> HIDE DEF Then
  <2>3. QED
    BY <1>3, <2>1, <2>2, AppliedRight
<1>5. \A g \in Handles : Key[g] \in Keys
  BY DEF Keys
<1> HIDE DEF before, Then
<1>6. half \in Bundles
  BY <1>1, <1>2, <1>4, <1>5, HalfType
<1>7. pool' \in [Keys -> {Absent} \cup Bundles]
  BY <1>1, <1>4, <1>6
<1>8. pool[Key[h]] = Absent => pool'[Key[h]] = Absent
  BY <1>1, <1>5
<1>9. ASSUME NEW g \in Handles, g # h
      PROVE  \/ pool'[Key[g]] \in {Absent, pool[Key[g]]}
             \/ disk[g] \in Service
                  /\ pool'[Key[g]] = Applied(action, pool[Key[g]], disk[g])
  <2>1. Key[g] # Key[h]
    BY <1>9 DEF KeysDiffer
  <2>2. pool'[Key[g]] = IF pool[Key[g]] = Absent THEN Absent ELSE Then(Key[g])
    BY <1>1, <1>5, <2>1
  <2>3. QED
    BY <1>3, <2>2
<1>10. QED
  BY <1>7, <1>8, <1>9

LEMMA AllThrowsInv ==
  ASSUME KeysDiffer, Inv, NEW action \in Actions, NEW h \in Handles, AllThrows(action, h)
  PROVE  Inv'
<1>1. /\ disk' = disk /\ torn' = torn /\ edits' = edits /\ up' = up /\ dirty' = dirty
      /\ mixed' = IF pool[Key[h]] = Absent THEN mixed ELSE mixed \cup {Key[h]}
      /\ last' = [action |-> action, about |-> "all", ok |-> FALSE]
  BY DEF AllThrows, Failed
<1>2. TypeOK'
  BY <1>1, AllThrowsRight DEF Inv, TypeOK, Requests, Keys
<1>3. ASSUME NEW g \in Handles PROVE Right(g)'
  <2>1. CASE g = h
    <3>1. CASE pool[Key[h]] = Absent
      BY <2>1, <3>1, AllThrowsRight DEF Inv, Right, Runs
    <3>2. CASE pool[Key[h]] # Absent
      BY <1>1, <2>1, <3>2 DEF Right
    <3>3. QED
      BY <3>1, <3>2
  <2>2. CASE g # h /\ pool'[Key[g]] \in {Absent, pool[Key[g]]}
    BY <1>1, <2>2, RightSame, RightIs DEF Inv
  <2>3. CASE disk[g] \in Service /\ pool'[Key[g]] = Applied(action, pool[Key[g]], disk[g])
    BY <1>1, <2>3, RightAfter, AppliedRight DEF Inv
  <2>4. QED
    BY <2>1, <2>2, <2>3, AllThrowsRight DEF Inv
<1>4. EngageResets'
  BY <1>1 DEF EngageResets
<1>5. QED
  BY <1>2, <1>3, <1>4 DEF Inv, Right, RunsAsConfigured, WholeBundles, Runs

-----------------------------------------------------------------------------
(* The requests for one service, and the rest.                             *)

(* Only the controller of the service is touched. *)
LEMMA OneInv ==
  ASSUME KeysDiffer, Inv, NEW h \in Handles, NEW b \in {Absent} \cup Bundles,
         pool' = [pool EXCEPT ![Key[h]] = b], UNCHANGED <<disk, torn, edits, up>>,
         mixed' \in SUBSET Keys, \A k \in Keys \ {Key[h]} : k \in mixed => k \in mixed',
         dirty' \in SUBSET Handles, dirty \ {h} \subseteq dirty',
         last' \in Requests, last'.about = h,
         Right(h)'
  PROVE  Inv'
<1>1. TypeOK'
  BY DEF Inv, TypeOK
<1>2. ASSUME NEW g \in Handles, g # h PROVE Right(g)'
  <2>1. Key[g] \in Keys \ {Key[h]}
    BY <1>2 DEF KeysDiffer, Keys
  <2>2. pool'[Key[g]] = pool[Key[g]]
    BY <2>1 DEF Inv, TypeOK
  <2>3. QED
    BY <1>2, <2>1, <2>2, RightSame, RightIs DEF Inv
<1>3. EngageResets'
  BY AllAssumption DEF EngageResets
<1>4. QED
  BY <1>1, <1>2, <1>3 DEF Inv, Right, RunsAsConfigured, WholeBundles, Runs

LEMMA OneMissingInv ==
  ASSUME KeysDiffer, Inv, NEW action \in Actions, NEW h \in Handles, OneMissing(action, h)
  PROVE  Inv'
<1>1. last' \in Requests /\ last'.about = h
  <2>1. Done(action, h) \/ Failed(action, h)
    BY Zenon DEF OneMissing
  <2>2. CASE Done(action, h)
    BY <2>2 DEF Done, Requests
  <2>3. CASE Failed(action, h)
    BY <2>3 DEF Failed, Requests
  <2>4. QED
    BY <2>1, <2>2, <2>3
<1>2. Key[h] \in Keys
  BY DEF Keys
<1>3. pool'[Key[h]] = Absent
  BY <1>2 DEF OneMissing, Inv, TypeOK
<1>4. Right(h)'
  BY <1>3 DEF Right, Runs
<1>5. QED
  BY <1>1, <1>4, OneInv DEF OneMissing, Inv, TypeOK

LEMMA OneDoneInv ==
  ASSUME KeysDiffer, Inv, NEW action \in Actions, NEW h \in Handles, One(action, h)
  PROVE  Inv'
<1> DEFINE b == AppliedToOne(action, pool[Key[h]], disk[h])
<1>1. last' \in Requests /\ last'.about = h
  BY DEF One, Done, Requests
<1>2. Key[h] \in Keys /\ disk[h] \in Service
  BY DEF Keys, One, Inv, TypeOK
<1>3. b \in {Absent, Asleep, Whole(disk[h])} /\ b \in {Absent} \cup Bundles
  BY <1>2, AppliedToOneRight
<1>4. pool' = [pool EXCEPT ![Key[h]] = b]
  BY DEF One
<1> HIDE DEF b
<1>5. pool'[Key[h]] = b
  BY <1>2, <1>4 DEF Inv, TypeOK
<1>6. Right(h)'
  BY <1>2, <1>3, <1>5, RightAfter DEF One, Inv
<1>7. QED
  BY <1>1, <1>3, <1>4, <1>6, OneInv DEF One, Inv, TypeOK

LEMMA OneThrowsInv ==
  ASSUME KeysDiffer, Inv, NEW action \in Actions, NEW h \in Handles, OneThrows(action, h)
  PROVE  Inv'
<1>1. last' \in Requests /\ last'.about = h
  BY DEF OneThrows, Failed, Requests
<1>2. Key[h] \in Keys /\ disk[h] \in Service /\ pool[Key[h]] \in {Absent} \cup Bundles
  BY DEF Keys, OneThrows, Inv, TypeOK
<1>3. PICK half \in HalfRestarted(pool[Key[h]], disk[h]) :
        pool' = [pool EXCEPT ![Key[h]] = half]
  BY DEF OneThrows
<1>4. half \in Bundles
  BY <1>2, <1>3, HalfType
<1>5. mixed' = mixed \cup {Key[h]} /\ dirty' = dirty /\ UNCHANGED <<disk, torn, edits, up>>
  BY DEF OneThrows
<1>6. Right(h)'
  BY <1>5 DEF Right
<1>7. QED
  BY <1>1, <1>2, <1>3, <1>4, <1>5, <1>6, OneInv DEF Inv, TypeOK

LEMMA UnreadableInv ==
  ASSUME Inv, NEW action \in Actions, NEW about \in Handles \cup {"all"},
         Unreadable(action, about)
  PROVE  Inv'
<1>1. last' \in Requests /\ last'.ok = FALSE
  BY DEF Unreadable, Failed, Requests
<1>2. TypeOK'
  BY <1>1 DEF Unreadable, Inv, TypeOK
<1>3. RunsAsConfigured' /\ WholeBundles'
  BY DEF Unreadable, Inv, RunsAsConfigured, WholeBundles, Runs
<1>4. EngageResets'
  BY <1>1 DEF EngageResets
<1>5. QED
  BY <1>2, <1>3, <1>4 DEF Inv

LEMMA EditInv ==
  ASSUME Inv, NEW h \in Handles, Edit(h)
  PROVE  Inv'
<1>1. disk' \in [Handles -> {Absent} \cup Service]
  <2>1. CASE disk' = [disk EXCEPT ![h] = Absent]
    BY <2>1 DEF Inv, TypeOK
  <2>2. CASE disk' # [disk EXCEPT ![h] = Absent]
    <3>1. PICK auto \in BOOLEAN, piers \in (SUBSET Piers) \ {{}} :
            disk' = [disk EXCEPT ![h] = [auto |-> auto, piers |-> piers, rev |-> edits + 1]]
      BY <2>2 DEF Edit
    <3>2. edits + 1 \in 1 .. MaxEdits
      BY EditsAssumption DEF Edit, Inv, TypeOK
    <3>3. [auto |-> auto, piers |-> piers, rev |-> edits + 1] \in Service
      BY <3>2 DEF Service
    <3>4. QED
      BY <3>1, <3>3 DEF Inv, TypeOK
  <2>3. QED
    BY <2>1, <2>2
<1>2. TypeOK'
  BY <1>1 DEF Edit, Inv, TypeOK
<1>3. \A g \in Handles : g \notin dirty' => g \notin dirty /\ disk'[g] = disk[g]
  BY DEF Edit, Inv, TypeOK
<1>4. \A g \in Handles : Right(g)'
  BY <1>3, RightSame, RightIs DEF Edit, Inv
<1>5. EngageResets'
  BY DEF Edit, EngageResets
<1>6. QED
  BY <1>2, <1>4, <1>5 DEF Inv, Right, RunsAsConfigured, WholeBundles, Runs

(* A file is torn, or nothing changes. *)
LEMMA TearInv ==
  ASSUME Inv, torn' \in SUBSET Handles, UNCHANGED <<disk, edits, up, pool, last, dirty, mixed>>
  PROVE  Inv'
<1>1. TypeOK'
  BY DEF Inv, TypeOK
<1>2. RunsAsConfigured' /\ WholeBundles' /\ EngageResets'
  BY DEF Inv, RunsAsConfigured, WholeBundles, EngageResets, Runs, OnDisk, Sharing
<1>3. QED
  BY <1>1, <1>2 DEF Inv

LEMMA ExitInv ==
  ASSUME Inv, Exit
  PROVE  Inv'
<1>1. pool' = [k \in Keys |-> Absent] /\ up' = FALSE
  BY DEF Exit
<1>2. TypeOK'
  BY <1>1 DEF Exit, Inv, TypeOK
<1>3. \A h \in Handles : ~Runs(h)'
  BY <1>1 DEF Runs, Keys
<1>4. QED
  BY <1>1, <1>2, <1>3 DEF Inv, RunsAsConfigured, WholeBundles, EngageResets

LEMMA InitInv == Init => Inv
<1> SUFFICES ASSUME Init PROVE Inv
  OBVIOUS
<1>1. TypeOK
  BY DEF Init, TypeOK, Requests, Actions
<1>2. \A h \in Handles : ~Runs(h)
  BY DEF Init, Runs, Keys
<1>3. EngageResets
  BY DEF Init, EngageResets
<1>4. QED
  BY <1>1, <1>2, <1>3 DEF Inv, RunsAsConfigured, WholeBundles

LEMMA NextInv == ASSUME KeysDiffer PROVE Inv /\ [Next]_vars => Inv'
<1> SUFFICES ASSUME Inv, [Next]_vars PROVE Inv'
  OBVIOUS
<1>1. CASE UNCHANGED vars
  BY <1>1, TearInv DEF vars, Inv, TypeOK
<1>2. CASE Exit
  BY <1>2, ExitInv
<1>3. CASE Launch
  BY <1>3, AllInv DEF Launch, Actions
<1>4. ASSUME NEW h \in Handles, Edit(h) PROVE Inv'
  BY <1>4, EditInv
<1>5. ASSUME NEW h \in Handles, Tear(h) PROVE Inv'
  BY <1>5, TearInv DEF Tear, Inv, TypeOK
<1>6. ASSUME NEW action \in Actions, All(action) PROVE Inv'
  BY <1>6, AllInv DEF All, Inv, TypeOK
<1>7. ASSUME NEW action \in Actions, Unreadable(action, "all") PROVE Inv'
  BY <1>7, UnreadableInv
<1>8. ASSUME NEW action \in Actions, NEW h \in Handles,
             \/ AllThrows(action, h) \/ Unreadable(action, h) \/ OneMissing(action, h)
             \/ One(action, h) \/ OneThrows(action, h)
      PROVE  Inv'
  BY <1>8, AllThrowsInv, UnreadableInv, OneMissingInv, OneDoneInv, OneThrowsInv
<1>9. QED
  BY <1>1, <1>2, <1>3, <1>4, <1>5, <1>6, <1>7, <1>8, Zenon DEF Next, Environment, Comply

LEMMA InvHolds == ASSUME KeysDiffer PROVE Spec => []Inv
<1>1. Inv /\ [Next]_vars => Inv'
  BY NextInv
<1>2. QED
  BY <1>1, InitInv, PTL DEF Spec

(* The pool has bundles of services with their piers, whatever fails. *)
THEOREM EngineTypeCorrect == ASSUME KeysDiffer PROVE Spec => []TypeOK
<1>1. Inv => TypeOK
  BY DEF Inv
<1>2. QED
  BY <1>1, InvHolds, PTL

(* What runs is what is configured, until the file changes or a restart    *)
(* throws half way: requests for one and for all go together.              *)
THEOREM PoolRunsAsConfigured == ASSUME KeysDiffer PROVE Spec => []RunsAsConfigured
<1>1. Inv => RunsAsConfigured
  BY DEF Inv
<1>2. QED
  BY <1>1, InvHolds, PTL

(* No bundle is of two configurations, or of fewer piers than its own.     *)
THEOREM BundlesAreWhole == ASSUME KeysDiffer PROVE Spec => []WholeBundles
<1>1. Inv => WholeBundles
  BY DEF Inv
<1>2. QED
  BY <1>1, InvHolds, PTL

(* An engage of everything leaves the pool of a fresh start.               *)
THEOREM EngageIsAFreshStart == ASSUME KeysDiffer PROVE Spec => []EngageResets
<1>1. Inv => EngageResets
  BY DEF Inv
<1>2. QED
  BY <1>1, InvHolds, PTL

-----------------------------------------------------------------------------
(* The steps that change nothing in the pool but what they are about.      *)

(* Only an engage wakes a service that sleeps.                             *)
THEOREM OnlyEngageWakes == ASSUME KeysDiffer PROVE Spec => SleepersSleep
<1> DEFINE Sleeps == \A h \in Handles :
               pool[Key[h]] = Asleep /\ up' /\ NotEngaged(h)
                 => pool'[Key[h]] \in {Asleep, Absent}
<1>1. ASSUME Inv, [Next]_vars PROVE Sleeps
  <2> SUFFICES ASSUME NEW h \in Handles, pool[Key[h]] = Asleep, up', NotEngaged(h)
               PROVE  pool'[Key[h]] \in {Asleep, Absent}
    OBVIOUS
  <2>1. CASE UNCHANGED pool
    BY <2>1
  <2>2. CASE Exit
    BY <2>2 DEF Exit
  <2>3. CASE Launch
    BY <2>3 DEF Launch, Done, NotEngaged
  <2>4. ASSUME NEW action \in Actions, All(action) PROVE pool'[Key[h]] \in {Asleep, Absent}
    <3>1. action \in {"adjust", "unplug"}
      BY <2>4 DEF All, Done, NotEngaged, Actions
    <3>2. QED
      BY <1>1, <2>4, <3>1, SwapRight, SleepersStay DEF All, Inv
  <2>5. ASSUME NEW action \in Actions, NEW g \in Handles, AllThrows(action, g)
        PROVE  pool'[Key[h]] \in {Asleep, Absent}
    <3>1. action \in {"adjust", "unplug"}
      BY <2>5 DEF AllThrows, Failed, NotEngaged, Actions
    <3>2. g # h
      BY <2>5, <3>1, SleepersStay DEF AllThrows, Restarts
    <3>3. QED
      BY <1>1, <2>5, <3>1, <3>2, AllThrowsRight, SleepersStay DEF Inv
  <2>6. ASSUME NEW action \in Actions, NEW g \in Handles,
               OneMissing(action, g) \/ One(action, g) \/ OneThrows(action, g)
        PROVE  pool'[Key[h]] \in {Asleep, Absent}
    <3>1. Key[h] \in Keys /\ (g # h => Key[g] # Key[h])
      BY DEF Keys, KeysDiffer
    <3>2. CASE g # h
      BY <1>1, <2>6, <3>1, <3>2 DEF Inv, TypeOK, OneMissing, One, OneThrows
    <3>3. CASE g = h /\ OneMissing(action, g)
      BY <1>1, <3>1, <3>3 DEF Inv, TypeOK, OneMissing
    <3>4. CASE g = h /\ (One(action, g) \/ OneThrows(action, g))
      <4>1. action \in {"adjust", "unplug"}
        <5>1. Done(action, h) \/ Failed(action, h)
          BY <3>4, Zenon DEF One, OneThrows
        <5>2. QED
          BY <5>1 DEF Done, Failed, NotEngaged, Actions
      <4>2. AppliedToOne(action, pool[Key[h]], disk[h]) = Asleep
        BY <4>1, SleepersStay
      <4>3. One(action, h)
        BY <3>4, <4>2 DEF OneThrows
      <4>4. QED
        BY <1>1, <3>1, <4>2, <4>3 DEF Inv, TypeOK, One
    <3>5. QED
      BY <2>6, <3>2, <3>3, <3>4
  <2>7. ASSUME NEW g \in Handles, Edit(g) \/ Tear(g) PROVE UNCHANGED pool
    BY <2>7 DEF Edit, Tear
  <2>8. ASSUME NEW action, NEW about, Unreadable(action, about) PROVE UNCHANGED pool
    BY <2>8 DEF Unreadable
  <2>9. UNCHANGED vars => UNCHANGED pool
    BY DEF vars
  <2>10. QED
    BY <1>1, <2>1, <2>2, <2>3, <2>4, <2>5, <2>6, <2>7, <2>8, <2>9, Zenon
       DEF Next, Environment, Comply
<1>2. [][Sleeps]_vars => SleepersSleep
  BY PTL DEF SleepersSleep
<1>3. QED
  BY <1>1, <1>2, InvHolds, PTL DEF Spec

(* A request for one service is about that service.                        *)
THEOREM RequestsStayApart == ASSUME KeysDiffer PROVE Spec => OthersUntouched
<1> DEFINE Apart == up /\ up' /\ last'.about \in Handles
               => \A h \in Handles : h # last'.about => pool'[Key[h]] = pool[Key[h]]
<1>1. ASSUME Inv, [Next]_vars PROVE Apart
  <2> SUFFICES ASSUME up, up', last'.about \in Handles,
                      NEW h \in Handles, h # last'.about
               PROVE  pool'[Key[h]] = pool[Key[h]]
    OBVIOUS
  <2>1. CASE UNCHANGED pool
    BY <2>1
  <2>2. ~Exit /\ ~Launch
    BY DEF Exit, Launch
  <2>3. ASSUME NEW action \in Actions PROVE ~All(action)
    BY <2>3, AllAssumption DEF All, Done
  <2>4. ASSUME NEW action \in Actions, NEW g \in Handles PROVE ~AllThrows(action, g)
    BY <2>4, AllAssumption DEF AllThrows, Failed
  <2>5. ASSUME NEW action \in Actions, NEW g \in Handles,
               OneMissing(action, g) \/ One(action, g) \/ OneThrows(action, g)
        PROVE  pool'[Key[h]] = pool[Key[h]]
    <3>1. last'.about = g
      BY <2>5 DEF OneMissing, One, OneThrows, Done, Failed
    <3>2. Key[h] \in Keys /\ Key[g] # Key[h]
      BY <3>1 DEF Keys, KeysDiffer
    <3>3. QED
      BY <1>1, <2>5, <3>2 DEF Inv, TypeOK, OneMissing, One, OneThrows
  <2>6. ASSUME NEW g \in Handles, Edit(g) \/ Tear(g) PROVE UNCHANGED pool
    BY <2>6 DEF Edit, Tear
  <2>7. ASSUME NEW action, NEW about, Unreadable(action, about) PROVE UNCHANGED pool
    BY <2>7 DEF Unreadable
  <2>8. UNCHANGED vars => UNCHANGED pool
    BY DEF vars
  <2>9. QED
    BY <1>1, <2>1, <2>2, <2>3, <2>4, <2>5, <2>6, <2>7, <2>8, Zenon
       DEF Next, Environment, Comply
<1>2. [][Apart]_vars => OthersUntouched
  BY PTL DEF OthersUntouched
<1>3. QED
  BY <1>1, <1>2, InvHolds, PTL DEF Spec

=============================================================================

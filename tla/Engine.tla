------------------------------- MODULE Engine -------------------------------
(***************************************************************************)
(* The pool of controllers of the backend against the configuration on     *)
(* disk (server.cpp: class engine, class controller).                      *)
(*                                                                         *)
(* Requests come one at a time (comply runs on the main io_context and     *)
(* holds webpier.lock), the configuration changes between them as the UI   *)
(* likes.  A request for everything rebuilds the pool from the services on *)
(* disk; a request for one service reads that service only.  Either can    *)
(* fail: a file it reads can't be parsed, or a restart throws with some of *)
(* the services and piers already done.                                    *)
(*                                                                         *)
(* A controller is its bundle: for each pier the service as it was at the  *)
(* last restart.  What a connector makes of it is module Connector.        *)
(***************************************************************************)
EXTENDS Integers, FiniteSets

CONSTANTS
  Handles,  \* services: a pier's directory and a name in its file
  Key,      \* Key[h]: what handle::operator< tells apart
  Rank,     \* Rank[h]: the place of h in the order in which the files are read
  Piers,    \* the piers a service can be for
  MaxEdits, \* bound on the changes of the configuration
  Absent    \* no such service on disk, controller in the pool, connector in the bundle

Keys == {Key[h] : h \in Handles}

ASSUME RankAssumption ==
  /\ Rank \in [Handles -> Nat]
  /\ \A g, h \in Handles : Rank[g] = Rank[h] => g = h
ASSUME EditsAssumption == MaxEdits \in Nat
ASSUME AllAssumption == "all" \notin Handles

VARIABLES
  disk,     \* disk[h]: the service in the files
  torn,     \* services whose file can't be parsed; webpier.json tears them all
  edits,    \* number of changes so far
  up,       \* the backend runs
  pool,     \* m_pool by key
  last,     \* the last request: what it was, for which service, with what result
  dirty,    \* services changed after the last request that did them
  mixed     \* keys of the controllers whose last restart threw half way

vars == <<disk, torn, edits, up, pool, last, dirty, mixed>>

(* dirty and mixed are not in the code: they tell the properties which      *)
(* services the requests answer for.                                        *)

-----------------------------------------------------------------------------
\* rev: number of the change that made the service what it is
Service == [auto : BOOLEAN, piers : (SUBSET Piers) \ {{}}, rev : 1..MaxEdits]

Bundles == [Piers -> {Absent} \cup Service]

ASSUME AbsentAssumption == Absent \notin Service \cup Bundles

Actions == {"engage", "adjust", "unplug"}

\* "all": a request without a handle, as is the engage of the start
Requests == [action : Actions, about : Handles \cup {"all"}, ok : BOOLEAN]

TypeOK ==
  /\ disk \in [Handles -> {Absent} \cup Service]
  /\ torn \in SUBSET Handles
  /\ edits \in Nat
  /\ up \in BOOLEAN
  /\ pool \in [Keys -> {Absent} \cup Bundles]
  /\ last \in Requests
  /\ dirty \in SUBSET Handles
  /\ mixed \in SUBSET Keys

\* m_bundle is empty: health::asleep
Asleep == [p \in Piers |-> Absent]

(* Faulty variant: the connectors of other piers stay in the bundle. *)
RestartKeeps(b, s, S) == [p \in Piers |-> IF p \in S THEN s ELSE b[p]]

(* Faulty variant: all connectors are made before the first is restarted. *)
RestartInserts(b, s, S) ==
  [p \in Piers |-> IF p \in S THEN s
                   ELSE IF p \notin s.piers THEN Absent
                   ELSE IF b[p] = Absent THEN [auto |-> FALSE, piers |-> {}, rev |-> 0]
                   ELSE b[p]]

(* controller::restart of the bundle b that has come to the piers in S: the *)
(* connectors of piers that the service doesn't have are gone already.      *)
Restart(b, s, S) ==
  [p \in Piers |-> IF p \in S THEN s ELSE IF p \in s.piers THEN b[p] ELSE Absent]

\* The bundle of the controller b, or of a new one.
BundleOf(b) == IF b = Absent THEN Asleep ELSE b

Restarted(b, s) == Restart(BundleOf(b), s, s.piers)

\* It throws at the last pier it came to: that one has its configuration.
HalfRestarted(b, s) == {Restart(BundleOf(b), s, S) : S \in (SUBSET s.piers) \ {{}}}

\* What controllers are when all is well.
Whole(s) == Restarted(Absent, s)

OnDisk == {h \in Handles : disk[h] # Absent}

\* The handles in S that share the controller k, and the one read last.
Sharing(k, S) == {h \in S : Key[h] = k}

LastOf(k, S) ==
  CHOOSE h \in Sharing(k, S) : \A g \in Sharing(k, S) : Rank[g] <= Rank[h]

Init ==
  /\ disk = [h \in Handles |-> Absent]
  /\ torn = {}
  /\ edits = 0
  /\ up = FALSE
  /\ pool = [k \in Keys |-> Absent]
  /\ last = [action |-> "unplug", about |-> "all", ok |-> FALSE]
  /\ dirty = {}
  /\ mixed = {}

-----------------------------------------------------------------------------
(* The environment: the UI edits the files, and the process comes and goes. *)

Edit(h) ==
  /\ edits < MaxEdits
  /\ edits' = edits + 1
  /\ \/ \E auto \in BOOLEAN, piers \in (SUBSET Piers) \ {{}} :
          disk' = [disk EXCEPT ![h] = [auto |-> auto, piers |-> piers, rev |-> edits + 1]]
     \/ disk[h] # Absent /\ disk' = [disk EXCEPT ![h] = Absent]
  /\ torn' = torn \ {h}
  /\ dirty' = dirty \cup {h}
  /\ UNCHANGED <<up, pool, last, mixed>>

(* A write of the file of h ends half way; the next edit repairs it. *)
Tear(h) ==
  /\ h \notin torn
  /\ torn' = torn \cup {h}
  /\ UNCHANGED <<disk, edits, up, pool, last, dirty, mixed>>

(* The process ends, by itself or not. *)
Exit ==
  /\ up
  /\ up' = FALSE
  /\ pool' = [k \in Keys |-> Absent]
  /\ mixed' = {}
  /\ UNCHANGED <<disk, torn, edits, last, dirty>>

-----------------------------------------------------------------------------
(* What a request makes of the controller b of one service. *)

Applied(action, b, s) ==
  IF action = "unplug" \/ ((b = Absent \/ action = "engage") /\ ~s.auto) THEN Asleep
  ELSE IF action = "adjust" /\ b = Asleep THEN Asleep
  ELSE Restarted(b, s)

\* The request restarts the service, and this may throw.
Restarts(action, b, s) == Applied(action, b, s) # Asleep

Done(action, about) ==
  last' = [action |-> action, about |-> about, ok |-> TRUE]

Failed(action, about) ==
  last' = [action |-> action, about |-> about, ok |-> FALSE]

(* The loop over all services when it reaches its end: the new pool has the *)
(* controllers of the services on disk, the others go with the old one.     *)
Swap(action) ==
  /\ torn = {}
  /\ pool' = [k \in Keys |->
                IF Sharing(k, OnDisk) = {} THEN Absent
                ELSE Applied(action, pool[k], disk[LastOf(k, OnDisk)])]
  /\ dirty' = {}
  /\ mixed' = {}

(* Faulty variant: the pool is extended in place, nothing is dropped. *)
AllExtends(action) ==
  /\ up
  /\ torn = {}
  /\ pool' = [k \in Keys |->
                IF Sharing(k, OnDisk) = {} THEN pool[k]
                ELSE Applied(action, pool[k], disk[LastOf(k, OnDisk)])]
  /\ dirty' = {}
  /\ mixed' = {}
  /\ Done(action, "all")
  /\ UNCHANGED <<disk, torn, edits, up>>

(* Faulty variant: adjust looks at the autostart of every service. *)
AllWakes(action) ==
  /\ up
  /\ Swap(IF action = "adjust" THEN "engage" ELSE action)
  /\ Done(action, "all")
  /\ UNCHANGED <<disk, torn, edits, up>>

(* engage(), adjust() and unplug() *)
All(action) ==
  /\ up
  /\ Swap(action)
  /\ Done(action, "all")
  /\ UNCHANGED <<disk, torn, edits, up>>

(* The loop throws at the restart of h: controllers that were in the pool   *)
(* already and came before it are changed, new ones are destroyed.          *)
AllThrows(action, h) ==
  LET k      == Key[h]
      before == {g \in OnDisk : Rank[g] < Rank[h]}
      Then(j) == IF Sharing(j, before) = {} THEN pool[j]
                 ELSE Applied(action, pool[j], disk[LastOf(j, before)])
  IN  /\ up
      /\ torn = {}
      /\ h \in OnDisk
      /\ Restarts(action, pool[k], disk[h])
      /\ \E half \in HalfRestarted(Then(k), disk[h]) :
           pool' = [j \in Keys |->
                      IF pool[j] = Absent THEN Absent ELSE IF j = k THEN half ELSE Then(j)]
      /\ mixed' = IF pool[k] = Absent THEN mixed ELSE mixed \cup {k}
      /\ Failed(action, "all")
      /\ UNCHANGED <<disk, torn, edits, up, dirty>>

(* The request throws before it does anything: a file can't be parsed. *)
Unreadable(action, about) ==
  /\ up
  /\ IF about = "all" THEN torn # {} ELSE about \in torn
  /\ Failed(action, about)
  /\ UNCHANGED <<disk, torn, edits, up, pool, dirty, mixed>>

(* employ(): the first engage of a process, which ends it when it throws. *)
Launch ==
  /\ ~up
  /\ up' = TRUE
  /\ Swap("engage")
  /\ Done("engage", "all")
  /\ UNCHANGED <<disk, torn, edits>>

-----------------------------------------------------------------------------
(* engage(id), adjust(id), unplug(id) *)

(* Faulty variant: the missing service is reported and goes on running. *)
OneForgets(action, h) ==
  /\ up
  /\ h \notin torn
  /\ disk[h] = Absent
  /\ dirty' = dirty \ {h}
  /\ Failed(action, h)
  /\ UNCHANGED <<disk, torn, edits, up, pool, mixed>>

(* The service is not on disk: its controller goes.  engage says so.        *)
OneMissing(action, h) ==
  /\ up
  /\ h \notin torn
  /\ disk[h] = Absent
  /\ pool' = [pool EXCEPT ![Key[h]] = Absent]
  /\ mixed' = mixed \ {Key[h]}
  /\ dirty' = dirty \ {h}
  /\ IF action = "engage" THEN Failed(action, h) ELSE Done(action, h)
  /\ UNCHANGED <<disk, torn, edits, up>>

\* The controller of h after the request; unplug makes none.
AppliedToOne(action, b, s) ==
  CASE action = "engage" -> Restarted(b, s)
    [] action = "adjust" -> Applied("adjust", b, s)
    [] action = "unplug" -> IF b = Absent THEN Absent ELSE Asleep

(* Faulty variant: the request for one service rebuilds the pool from it. *)
OneDropsOthers(action, h) ==
  /\ up
  /\ h \notin torn
  /\ disk[h] # Absent
  /\ pool' = [k \in Keys |-> IF k = Key[h] THEN AppliedToOne(action, pool[k], disk[h])
                             ELSE Absent]
  /\ mixed' = {}
  /\ dirty' = dirty \ {h}
  /\ Done(action, h)
  /\ UNCHANGED <<disk, torn, edits, up>>

One(action, h) ==
  /\ up
  /\ h \notin torn
  /\ disk[h] # Absent
  /\ pool' = [pool EXCEPT ![Key[h]] = AppliedToOne(action, @, disk[h])]
  /\ mixed' = mixed \ {Key[h]}
  /\ dirty' = dirty \ {h}
  /\ Done(action, h)
  /\ UNCHANGED <<disk, torn, edits, up>>

(* The restart throws; a controller that was made for it stays in the pool. *)
OneThrows(action, h) ==
  LET k == Key[h]
  IN  /\ up
      /\ h \notin torn
      /\ disk[h] # Absent
      /\ AppliedToOne(action, pool[k], disk[h]) \notin {Absent, Asleep}
      /\ \E half \in HalfRestarted(pool[k], disk[h]) : pool' = [pool EXCEPT ![k] = half]
      /\ mixed' = mixed \cup {k}
      /\ Failed(action, h)
      /\ UNCHANGED <<disk, torn, edits, up, dirty>>

-----------------------------------------------------------------------------
Environment == Exit \/ Launch \/ \E h \in Handles : Edit(h) \/ Tear(h)

Comply(action) ==
  \/ All(action)
  \/ Unreadable(action, "all")
  \/ \E h \in Handles :
       \/ AllThrows(action, h)
       \/ Unreadable(action, h)
       \/ OneMissing(action, h)
       \/ One(action, h)
       \/ OneThrows(action, h)

Next == Environment \/ \E action \in Actions : Comply(action)

Spec == Init /\ [][Next]_vars

-----------------------------------------------------------------------------
(* Properties. *)

\* The controller of h has connectors.
Runs(h) == pool[Key[h]] \notin {Absent, Asleep}

(* A service that runs does so with the configuration on disk, and for      *)
(* exactly its piers, unless it was changed since the last request that     *)
(* covered it, or its restart threw half way: requests for one and for all, *)
(* failures and restarts of the backend may alternate in any way.           *)
RunsAsConfigured ==
  \A h \in Handles :
    Runs(h) /\ h \notin dirty /\ Key[h] \notin mixed
      => disk[h] # Absent /\ pool[Key[h]] = Whole(disk[h])

(* Whatever was changed since: the connectors of a service are all of one   *)
(* configuration, which is the one that names them.                         *)
WholeBundles ==
  \A h \in Handles :
    Runs(h) /\ Key[h] \notin mixed
      => \E p \in Piers : pool[Key[h]][p] # Absent
                            /\ pool[Key[h]] = Whole(pool[Key[h]][p])

\* The last request is not an engage, of h or of all.
NotEngaged(h) == ~(last'.action = "engage" /\ last'.about \in {h, "all"})

(* client.h:17-18,27-28: adjust restarts what is active and boots what is   *)
(* new.  A service that was put to sleep is not woken by an adjust, though  *)
(* it is configured to start by itself, nor by any request for another.     *)
SleepersSleep ==
  [][\A h \in Handles :
       pool[Key[h]] = Asleep /\ up' /\ NotEngaged(h)
         => pool'[Key[h]] \in {Asleep, Absent}]_vars

(* A request for one service leaves the others as they are. *)
OthersUntouched ==
  [][up /\ up' /\ last'.about \in Handles
       => \A h \in Handles : h # last'.about => pool'[Key[h]] = pool[Key[h]]]_vars

(* client.h:15: engage resets all services according to their configuration *)
(* and drops removed ones, whatever the requests before it left behind.     *)
EngageResets ==
  up /\ last.action = "engage" /\ last.about \in {"all"} /\ last.ok /\ dirty = {}
    => /\ \A h \in OnDisk : pool[Key[h]] = IF disk[h].auto THEN Whole(disk[h]) ELSE Asleep
       /\ \A k \in Keys : Sharing(k, OnDisk) = {} => pool[k] = Absent
=============================================================================

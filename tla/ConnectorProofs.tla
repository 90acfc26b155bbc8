-------------------------- MODULE ConnectorProofs --------------------------
(***************************************************************************)
(* Theorems about Connector, for every Local, Pids and bound.              *)
(*                                                                         *)
(* The inductive invariant is Inv.  NoSilentOutage is not inductive: an    *)
(* export whose accept ended could lose its last queued handler to Connect *)
(* were that handler a contract.  Inv says that an export that stopped     *)
(* accepting has a fallback on its way, or a retry came before io.run      *)
(* returned (AcceptEnded, Endings), and that a connector that was released *)
(* has nothing left (Released), which is what the timer and the callbacks  *)
(* need to know that whoever armed or posted is alive.                     *)
(*                                                                         *)
(* The last part bounds the carriers of an import (BatonsBounded).  Batons *)
(* is a sum of what the spawner, the timer, the queue and m_tunnels hold:  *)
(* the lemmas say how the queue's share changes, and that an exit takes    *)
(* away the tunnel it is about, which is what pays for the attempt it      *)
(* starts.                                                                 *)
(***************************************************************************)
EXTENDS Connector, FiniteSetTheorems, TLAPS

Released == ~held => spawner = "off" /\ ~armed /\ ~error /\ tunnels = {} /\ ~missed

AcceptEnded == Local /\ held /\ ~error /\ ~Working => Queued({"fallback"}) \/ missed

Endings ==
  /\ spawner = "ending" => Local
  /\ missed => Local /\ ~error /\ ~Working

InviteEnded ==
  ~Local /\ held /\ ~error /\ tunnels = {} /\ spawner = "off"
    => Queued({"connect", "fallback"})

Inv == TypeOK /\ Released /\ AcceptEnded /\ InviteEnded /\ Endings /\ EveryFailureRetried

-----------------------------------------------------------------------------
(* Queued under the two things that happen to the queue. *)

LEMMA QueuedAppend ==
  ASSUME inbox \in Seq(Entry), NEW K, NEW e \in Entry,
         inbox' = Append(inbox, e), held' = held, inst' = inst,
         Queued(K) \/ (e.kind \in K /\ Alive(e.inst))
  PROVE  Queued(K)'
<1>1. /\ Len(inbox) \in Nat
      /\ DOMAIN inbox = 1 .. Len(inbox)
      /\ DOMAIN inbox' = 1 .. Len(inbox) + 1
      /\ inbox'[Len(inbox) + 1] = e
      /\ \A i \in DOMAIN inbox : inbox'[i] = inbox[i]
  OBVIOUS
<1>2. CASE Queued(K)
  <2>1. PICK i \in DOMAIN inbox : inbox[i].kind \in K /\ Alive(inbox[i].inst)
    BY <1>2 DEF Queued
  <2>2. i \in DOMAIN inbox' /\ inbox'[i] = inbox[i]
    BY <1>1, <2>1
  <2>3. QED
    BY <2>1, <2>2 DEF Queued, Alive
<1>3. CASE e.kind \in K /\ Alive(e.inst)
  <2>1. Len(inbox) + 1 \in DOMAIN inbox'
    BY <1>1
  <2>2. QED
    BY <1>1, <1>3, <2>1 DEF Queued, Alive
<1>4. QED
  BY <1>2, <1>3

LEMMA QueuedTail ==
  ASSUME inbox \in Seq(Entry), NEW K, inbox # <<>>,
         inbox' = Tail(inbox), held' = held, inst' = inst,
         Queued(K),
         Head(inbox).kind \notin K \/ ~Alive(Head(inbox).inst)
  PROVE  Queued(K)'
<1>1. PICK i \in DOMAIN inbox : inbox[i].kind \in K /\ Alive(inbox[i].inst)
  BY DEF Queued
<1>2. /\ Len(inbox) \in Nat
      /\ DOMAIN inbox = 1 .. Len(inbox)
      /\ DOMAIN inbox' = 1 .. Len(inbox) - 1
      /\ \A j \in 1 .. Len(inbox) - 1 : inbox'[j] = inbox[j + 1]
      /\ Head(inbox) = inbox[1]
  OBVIOUS
<1>3. i # 1
  BY <1>1, <1>2
<1>4. i - 1 \in DOMAIN inbox' /\ inbox'[i - 1] = inbox[i]
  BY <1>1, <1>2, <1>3
<1>5. QED
  BY <1>1, <1>4 DEF Queued, Alive

LEMMA QueuedSame ==
  ASSUME NEW K, inbox' = inbox, held' = held, inst' = inst
  PROVE  Queued(K)' = Queued(K)
BY DEF Queued, Alive

-----------------------------------------------------------------------------
(* The end of the process leaves nothing, of the right types. *)
LEMMA TypeEnds ==
  ASSUME epoch \in Nat, inst \in Nat, backend' \in {"failed", "aborted"}, ProcessEnds
  PROVE  TypeOK'
<1>1. inbox' \in Seq(Entry)
  BY DEF ProcessEnds
<1>2. /\ held' \in BOOLEAN /\ orphan' \in BOOLEAN /\ armed' \in BOOLEAN /\ error' \in BOOLEAN
      /\ missed' \in BOOLEAN
  BY DEF ProcessEnds
<1>3. spawner' \in SpawnerStates
  BY DEF ProcessEnds, SpawnerStates
<1>4. epoch' \in Nat /\ inst' \in Nat
  BY DEF ProcessEnds
<1>5. tunnels' \in SUBSET Tunnel /\ exits' \in SUBSET [pid : Pids, inst : Nat]
  BY DEF ProcessEnds
<1>6. QED
  BY <1>1, <1>2, <1>3, <1>4, <1>5 DEF TypeOK

(* The variables have their types, whatever the queue holds. *)
LEMMA TypeStep == TypeOK /\ [Next]_vars => TypeOK'
<1> SUFFICES ASSUME TypeOK, [Next]_vars PROVE TypeOK'
  OBVIOUS
<1>1. CASE Restart
  <2>1. epoch' \in Nat /\ inst' \in Nat
    BY <1>1 DEF Restart, TypeOK
  <2>2. error' \in BOOLEAN /\ spawner' \in SpawnerStates
    BY <1>1 DEF Restart, TypeOK, SpawnerStates
  <2>3. held' \in BOOLEAN /\ armed' \in BOOLEAN /\ missed' \in BOOLEAN
    BY <1>1 DEF Restart
  <2>4. QED
    BY <1>1, <2>1, <2>2, <2>3 DEF Restart, TypeOK
<1>2. CASE Suspend
  BY <1>2 DEF Suspend, SpawnerStates, TypeOK
<1>3. CASE OrphanDestroyed
  BY <1>3, TypeEnds DEF OrphanDestroyed, TypeOK
<1>4. CASE Relaunch
  BY <1>4 DEF Relaunch, TypeOK
<1>5. CASE \E callback \in {"connect", "fallback", "failing"} : PlexusCalls(callback)
  BY <1>5 DEF PlexusCalls, SpawnerStates, TypeOK
<1>6. CASE Post
  BY <1>6 DEF Post, SpawnerStates, Entry, Kinds, TypeOK
<1>7. CASE Connect
  <2>1. Head(inbox) \in Entry /\ Tail(inbox) \in Seq(Entry)
    BY <1>7 DEF Connect, Due, TypeOK
  <2>2. tunnels' \in SUBSET Tunnel
    BY <1>7, <2>1 DEF Connect, Tunnel, Entry, TypeOK
  <2>3. QED
    BY <1>7, <2>1, <2>2 DEF Connect, TypeOK
<1>8. CASE ConnectThrows
  <2>1. backend' \in {"failed", "aborted"} /\ ProcessEnds
    BY <1>8 DEF ConnectThrows
  <2>2. QED
    BY <2>1, TypeEnds DEF TypeOK
<1>9. CASE Fallback
  <2>1. error' \in BOOLEAN /\ armed' \in BOOLEAN /\ missed' \in BOOLEAN
    BY <1>9 DEF Fallback
  <2>2. Tail(inbox) \in Seq(Entry)
    BY <1>9 DEF Fallback, Due, TypeOK
  <2>3. QED
    BY <1>9, <2>1, <2>2 DEF Fallback, TypeOK
<1>10. CASE Retry
  <2>1. Tail(inbox) \in Seq(Entry)
    BY <1>10 DEF Retry, Due, TypeOK
  <2>2. spawner' \in SpawnerStates
    BY <1>10 DEF Retry, SpawnerStates, TypeOK
  <2>3. error' \in BOOLEAN /\ missed' \in BOOLEAN
    BY <1>10 DEF Retry
  <2>4. QED
    BY <1>10, <2>1, <2>2, <2>3 DEF Retry, TypeOK
<1>11. CASE Expired
  BY <1>11 DEF Expired, TypeOK
<1>12. CASE TimerExpires
  <2>1. [kind |-> "retry", inst |-> inst, made |-> epoch] \in Entry
    BY DEF Entry, Kinds, TypeOK
  <2>2. inbox' \in Seq(Entry)
    BY <1>12, <2>1 DEF TimerExpires, TypeOK
  <2>3. armed' \in BOOLEAN
    BY <1>12 DEF TimerExpires
  <2>4. QED
    BY <1>12, <2>2, <2>3 DEF TimerExpires, TypeOK
<1>13. ASSUME NEW t \in tunnels, CarrierEnds(t) PROVE TypeOK'
  BY <1>13 DEF CarrierEnds, Tunnel, TypeOK
<1>14. ASSUME NEW x \in exits, OnExit(x) PROVE TypeOK'
  <2>1. tunnels' \in SUBSET Tunnel /\ exits' \in SUBSET [pid : Pids, inst : Nat]
    BY <1>14 DEF OnExit, TypeOK
  <2>2. spawner' \in SpawnerStates
    BY <1>14 DEF OnExit, SpawnerStates, TypeOK
  <2>3. error' \in BOOLEAN
    BY <1>14 DEF OnExit, TypeOK
  <2>4. QED
    BY <1>14, <2>1, <2>2, <2>3 DEF OnExit, TypeOK
<1>15. CASE UNCHANGED vars
  BY <1>15 DEF vars, TypeOK
<1>19. CASE ThreadEnds
  BY <1>19 DEF ThreadEnds, SpawnerStates, TypeOK
<1>16. CASE Handler
  BY <1>16, <1>7, <1>8, <1>9, <1>10, <1>11 DEF Handler
<1>17. CASE Next
  BY <1>17, <1>1, <1>2, <1>3, <1>4, <1>5, <1>6, <1>19, <1>16, <1>12, <1>13, <1>14, ZenonT(60) DEF Next
<1>18. QED
  BY <1>15, <1>17

LEMMA TypeInit == Init => TypeOK
<1> SUFFICES ASSUME Init PROVE TypeOK
  OBVIOUS
<1>1. inbox \in Seq(Entry)
  BY DEF Init
<1>2. /\ held \in BOOLEAN /\ orphan \in BOOLEAN /\ armed \in BOOLEAN /\ error \in BOOLEAN
      /\ missed \in BOOLEAN
  BY DEF Init
<1>3. spawner \in SpawnerStates
  BY DEF Init, SpawnerStates
<1>4. tunnels \in SUBSET Tunnel /\ exits \in SUBSET [pid : Pids, inst : Nat]
  BY DEF Init
<1>5. QED
  BY <1>1, <1>2, <1>3, <1>4 DEF Init, TypeOK

(* The connector's variables keep their types: whatever threads do, the     *)
(* queue holds handlers and m_tunnels holds tunnels of known processes.     *)
THEOREM TypeCorrect == Spec => []TypeOK
BY TypeInit, TypeStep, PTL DEF Spec

-----------------------------------------------------------------------------
(* The parts of Inv, one action at a time. *)

LEMMA InvInit == Init => Inv
<1> SUFFICES ASSUME Init PROVE Inv
  OBVIOUS
<1>1. TypeOK
  BY TypeInit
<1>2. ~held /\ spawner = "off" /\ ~armed /\ ~error /\ tunnels = {} /\ ~missed
  BY DEF Init
<1>3. QED
  BY <1>1, <1>2
     DEF Inv, Released, AcceptEnded, InviteEnded, Endings, Working, EveryFailureRetried

(* What a released connector no longer has makes every part hold. *)
LEMMA InvReleased ==
  ASSUME TypeOK', ~held', spawner' = "off", ~armed', ~error', tunnels' = {}, ~missed'
  PROVE  Inv'
BY DEF Inv, Released, AcceptEnded, InviteEnded, Endings, Working, EveryFailureRetried

(* A running spawner and no error make every part hold. *)
LEMMA InvStarted ==
  ASSUME TypeOK', held', spawner' = "run", ~error', ~missed'
  PROVE  Inv'
BY DEF Inv, Released, AcceptEnded, InviteEnded, Endings, Working, EveryFailureRetried

LEMMA InvRestart == Inv /\ TypeOK' /\ Restart => Inv'
<1> SUFFICES ASSUME Inv, TypeOK', Restart PROVE Inv'
  OBVIOUS
<1>1. CASE Local \/ tunnels = {}
  <2>1. held' /\ spawner' = "run" /\ ~error' /\ ~missed'
    BY <1>1 DEF Restart
  <2>2. QED
    BY <2>1, InvStarted
<1>2. CASE ~(Local \/ tunnels = {})
  <2>1. held' /\ ~Local /\ tunnels' # {} /\ ~missed' /\ spawner' = "off"
    BY <1>2 DEF Restart
  <2>2. QED
    BY <2>1
       DEF Inv, Released, AcceptEnded, InviteEnded, Endings, Working, EveryFailureRetried
<1>3. QED
  BY <1>1, <1>2

LEMMA InvCalls ==
  ASSUME Inv, TypeOK', NEW callback \in {"connect", "fallback", "failing"}, PlexusCalls(callback)
  PROVE  Inv'
<1>1. /\ held /\ held' = held /\ inst' = inst /\ inbox' = inbox
      /\ spawner = "run" /\ spawner' \notin {"off", "ending"}
      /\ error' = error /\ armed' = armed /\ tunnels' = tunnels /\ missed' = missed
  BY DEF PlexusCalls, Inv, Released
<1>2. Queued({"retry"})' = Queued({"retry"})
  BY <1>1, QueuedSame
<1>3. QED
  BY <1>1, <1>2
     DEF Inv, Released, AcceptEnded, InviteEnded, Endings, Working, EveryFailureRetried

LEMMA InvPost == Inv /\ TypeOK' /\ Post => Inv'
<1> SUFFICES ASSUME Inv, TypeOK', Post PROVE Inv'
  OBVIOUS
<1> DEFINE e == [kind |-> IF spawner = "connect" THEN "connect" ELSE "fallback",
                 inst |-> inst, made |-> epoch]
<1>1. /\ held /\ held' = held /\ inst' = inst /\ inbox' = Append(inbox, e)
      /\ error' = error /\ armed' = armed /\ tunnels' = tunnels /\ missed' = missed
      /\ Working /\ (spawner' = "ending" => Local)
  BY DEF Post, Calling, Working, Inv, Released
<1>2. e \in Entry /\ inbox \in Seq(Entry) /\ Alive(e.inst)
  BY <1>1 DEF Entry, Kinds, Inv, TypeOK, Alive
<1>3. Queued({"connect", "fallback"})'
  <2>1. e.kind \in {"connect", "fallback"}
    OBVIOUS
  <2> HIDE DEF e
  <2>2. QED
    BY <1>1, <1>2, <2>1, QueuedAppend
<1>4. Local /\ ~Working' => Queued({"fallback"})'
  <2> SUFFICES ASSUME Local, ~Working' PROVE Queued({"fallback"})'
    OBVIOUS
  <2>1. e.kind \in {"fallback"}
    BY DEF Post, Calling, Working
  <2> HIDE DEF e
  <2>2. QED
    BY <1>1, <1>2, <2>1, QueuedAppend
<1>5. Queued({"retry"}) => Queued({"retry"})'
  <2> HIDE DEF e
  <2>1. QED
    BY <1>1, <1>2, QueuedAppend
<1>6. QED
  BY <1>1, <1>3, <1>4, <1>5
     DEF Inv, Released, AcceptEnded, InviteEnded, Endings, Working, EveryFailureRetried

(* Taking an entry of another kind, or of a connector that is gone, leaves  *)
(* the entries a part of Inv speaks of.                                     *)
LEMMA QueuedTaken ==
  ASSUME TypeOK, inbox # <<>>, inbox' = Tail(inbox), held' = held, inst' = inst,
         NEW K, Head(inbox).kind \notin K \/ ~Alive(Head(inbox).inst)
  PROVE  Queued(K) => Queued(K)'
BY QueuedTail DEF TypeOK

LEMMA InvConnect == Inv /\ TypeOK' /\ Connect => Inv'
<1> SUFFICES ASSUME Inv, TypeOK', Connect PROVE Inv'
  OBVIOUS
<1>1. /\ inbox # <<>> /\ Head(inbox).kind = "connect" /\ inbox' = Tail(inbox)
      /\ held /\ held' = held /\ inst' = inst /\ spawner' = spawner
      /\ error' = error /\ armed' = armed /\ missed' = missed /\ tunnels' # {}
      /\ tunnels # {} => tunnels' # {}
  BY DEF Connect, Due, Alive
<1>2. TypeOK
  BY DEF Inv
<1>3. Queued({"fallback"}) => Queued({"fallback"})'
  BY <1>1, <1>2, QueuedTaken
<1>4. Queued({"retry"}) => Queued({"retry"})'
  BY <1>1, <1>2, QueuedTaken
<1>5. QED
  BY <1>1, <1>3, <1>4
     DEF Inv, Released, AcceptEnded, InviteEnded, Endings, Working, EveryFailureRetried

LEMMA InvFallback == Inv /\ TypeOK' /\ Fallback => Inv'
<1> SUFFICES ASSUME Inv, TypeOK', Fallback PROVE Inv'
  OBVIOUS
<1>1. held' /\ error' /\ armed' /\ ~missed' /\ spawner' = spawner
  BY DEF Fallback, Alive
<1>2. QED
  BY <1>1
     DEF Inv, Released, AcceptEnded, InviteEnded, Endings, Working, EveryFailureRetried

LEMMA InvRetry == Inv /\ TypeOK' /\ Retry => Inv'
<1> SUFFICES ASSUME Inv, TypeOK', Retry PROVE Inv'
  OBVIOUS
<1>1. held' /\ ~error' /\ spawner' # "off"
  BY DEF Retry, Alive, Active
<1>3. missed' <=> spawner = "ending"
  BY DEF Retry
<1>4. CASE spawner = "ending"
  <2>1. Local /\ spawner' = "ending"
    BY <1>4 DEF Retry, Active, Inv, Endings
  <2>2. QED
    BY <1>1, <1>3, <1>4, <2>1
       DEF Inv, Released, AcceptEnded, InviteEnded, Endings, Working, EveryFailureRetried
<1>5. CASE spawner # "ending"
  <2>1. spawner' # "ending"
    BY <1>5 DEF Retry
  <2>2. QED
    BY <1>1, <1>3, <1>5, <2>1
       DEF Inv, Released, AcceptEnded, InviteEnded, Endings, Working, EveryFailureRetried
<1>6. QED
  BY <1>4, <1>5

LEMMA InvExpired == Inv /\ TypeOK' /\ Expired => Inv'
<1> SUFFICES ASSUME Inv, TypeOK', Expired PROVE Inv'
  OBVIOUS
<1>1. /\ inbox # <<>> /\ ~Alive(Head(inbox).inst) /\ inbox' = Tail(inbox)
      /\ held' = held /\ inst' = inst /\ spawner' = spawner /\ missed' = missed
      /\ error' = error /\ armed' = armed /\ tunnels' = tunnels
  BY DEF Expired
<1>2. TypeOK
  BY DEF Inv
<1>3. \A K \in {{"fallback"}, {"connect", "fallback"}, {"retry"}} : Queued(K) => Queued(K)'
  BY <1>1, <1>2, QueuedTaken
<1>4. QED
  BY <1>1, <1>3
     DEF Inv, Released, AcceptEnded, InviteEnded, Endings, Working, EveryFailureRetried

LEMMA InvTimer == Inv /\ TypeOK' /\ TimerExpires => Inv'
<1> SUFFICES ASSUME Inv, TypeOK', TimerExpires PROVE Inv'
  OBVIOUS
<1> DEFINE e == [kind |-> "retry", inst |-> inst, made |-> epoch]
<1>1. /\ held /\ held' = held /\ inst' = inst /\ inbox' = Append(inbox, e)
      /\ spawner' = spawner /\ error' = error /\ ~armed' /\ tunnels' = tunnels
      /\ missed' = missed
  BY DEF TimerExpires, Inv, Released
<1>2. e \in Entry /\ inbox \in Seq(Entry) /\ Alive(e.inst) /\ e.kind \in {"retry"}
  BY <1>1 DEF Entry, Kinds, Inv, TypeOK, Alive
<1> HIDE DEF e
<1>3. Queued({"retry"})'
  BY <1>1, <1>2, QueuedAppend
<1>4. Queued({"fallback"}) => Queued({"fallback"})'
  BY <1>1, <1>2, QueuedAppend
<1>5. Queued({"connect", "fallback"}) => Queued({"connect", "fallback"})'
  BY <1>1, <1>2, QueuedAppend
<1>6. QED
  BY <1>1, <1>3, <1>4, <1>5
     DEF Inv, Released, AcceptEnded, InviteEnded, Endings, Working, EveryFailureRetried

LEMMA InvOnExit ==
  ASSUME Inv, TypeOK', NEW x \in exits, OnExit(x)
  PROVE  Inv'
<1>1. CASE Alive(x.inst) /\ ~Local
  <2>1. held' /\ spawner' = "run" /\ ~error' /\ ~missed'
    BY <1>1 DEF OnExit, Alive, Inv, Endings
  <2>2. QED
    BY <2>1, InvStarted
<1>2. CASE ~(Alive(x.inst) /\ ~Local)
  <2>1. /\ inbox' = inbox /\ held' = held /\ inst' = inst /\ armed' = armed
        /\ error' = error /\ spawner' = spawner /\ missed' = missed
        /\ tunnels' \subseteq tunnels /\ (~Local => tunnels' = tunnels)
    BY <1>2 DEF OnExit
  <2>2. \A K \in {{"fallback"}, {"connect", "fallback"}, {"retry"}} : Queued(K)' = Queued(K)
    BY <2>1, QueuedSame
  <2>3. QED
    BY <2>1, <2>2
       DEF Inv, Released, AcceptEnded, InviteEnded, Endings, Working, EveryFailureRetried
<1>3. QED
  BY <1>1, <1>2

(* Steps that leave the connector as it is. *)
LEMMA InvSame ==
  ASSUME Inv, TypeOK',
         UNCHANGED <<inst, held, spawner, inbox, armed, error, tunnels, missed>>
  PROVE  Inv'
<1>1. \A K \in {{"fallback"}, {"connect", "fallback"}, {"retry"}} : Queued(K)' = Queued(K)
  BY QueuedSame
<1>2. QED
  BY <1>1
     DEF Inv, Released, AcceptEnded, InviteEnded, Endings, Working, EveryFailureRetried

LEMMA InvEnds == Inv /\ TypeOK' /\ ThreadEnds => Inv'
<1> SUFFICES ASSUME Inv, TypeOK', ThreadEnds PROVE Inv'
  OBVIOUS
<1>1. /\ spawner = "ending" /\ spawner' = "off" /\ Local
      /\ UNCHANGED <<inst, held, inbox, armed, error, tunnels, missed>>
  BY DEF ThreadEnds, Inv, Endings
<1>2. \A K \in {{"fallback"}, {"connect", "fallback"}, {"retry"}} : Queued(K)' = Queued(K)
  BY <1>1, QueuedSame
<1>3. QED
  BY <1>1, <1>2
     DEF Inv, Released, AcceptEnded, InviteEnded, Endings, Working, EveryFailureRetried

LEMMA InvStep == Inv /\ [Next]_vars => Inv'
<1> SUFFICES ASSUME Inv, [Next]_vars PROVE Inv'
  OBVIOUS
<1>1. TypeOK'
  BY TypeStep DEF Inv
<1>2. CASE Restart
  BY <1>1, <1>2, InvRestart
<1>3. CASE Suspend
  BY <1>1, <1>3, InvReleased DEF Suspend
<1>4. CASE OrphanDestroyed
  BY <1>1, <1>4, InvReleased, InvSame DEF OrphanDestroyed, ProcessEnds
<1>5. CASE Relaunch
  BY <1>1, <1>5, InvSame DEF Relaunch
<1>6. CASE \E callback \in {"connect", "fallback", "failing"} : PlexusCalls(callback)
  BY <1>1, <1>6, InvCalls
<1>7. CASE Post
  BY <1>1, <1>7, InvPost
<1>8. CASE Handler
  <2>1. ConnectThrows => Inv'
    BY <1>1, InvReleased DEF ConnectThrows, ProcessEnds
  <2>2. QED
    BY <1>1, <1>8, <2>1, InvConnect, InvFallback, InvRetry, InvExpired DEF Handler
<1>9. CASE TimerExpires
  BY <1>1, <1>9, InvTimer
<1>10. CASE \E t \in tunnels : CarrierEnds(t)
  BY <1>1, <1>10, InvSame DEF CarrierEnds
<1>11. CASE \E x \in exits : OnExit(x)
  BY <1>1, <1>11, InvOnExit
<1>12. CASE UNCHANGED vars
  BY <1>1, <1>12, InvSame DEF vars
<1>15. CASE ThreadEnds
  BY <1>1, <1>15, InvEnds
<1>13. CASE Next
  BY <1>13, <1>15, <1>2, <1>3, <1>4, <1>5, <1>6, <1>7, <1>8, <1>9, <1>10, <1>11, Zenon DEF Next
<1>14. QED
  BY <1>12, <1>13

LEMMA Invariance == Spec => []Inv
BY InvInit, InvStep, PTL DEF Spec

-----------------------------------------------------------------------------
LEMMA OutageCovered == Inv => NoSilentOutage
<1> SUFFICES ASSUME Inv, held, ~error, Local \/ tunnels = {}, ~Working, ~missed
             PROVE  Queued({"connect", "fallback"})
  BY DEF NoSilentOutage
<1>1. Queued({"fallback"}) => Queued({"connect", "fallback"})
  BY DEF Queued
<1>2. CASE Local
  BY <1>1, <1>2 DEF Inv, AcceptEnded
<1>3. CASE ~Local
  BY <1>3 DEF Inv, InviteEnded, Endings, Working
<1>4. QED
  BY <1>2, <1>3

(* A connector that shows neither an error nor a tunnel is at work, unless  *)
(* its retry came upon an acceptor on its way out (spawner::active in the   *)
(* handler of the timer).                                                   *)
THEOREM NeverSilent == Spec => []NoSilentOutage
BY Invariance, OutageCovered, PTL

(* A connector that shows an error has its retry ahead. *)
THEOREM AlwaysRetries == Spec => []EveryFailureRetried
<1>1. Inv => EveryFailureRetried
  BY DEF Inv
<1>2. QED
  BY <1>1, Invariance, PTL

-----------------------------------------------------------------------------
(* Where contracts come from.  The versions on an entry are ordered, and a  *)
(* new connector is named by an epoch above all of them.                    *)
EntryOrdered(e) == e.inst <= e.made /\ e.made <= epoch

Versions ==
  /\ inst <= epoch
  /\ \A i \in DOMAIN inbox : EntryOrdered(inbox[i])
  /\ \A t \in tunnels : inst <= t.made /\ t.made <= t.conf /\ t.conf <= epoch

LEMMA OrderedAppend ==
  ASSUME inbox \in Seq(Entry), NEW e \in Entry, EntryOrdered(e),
         \A i \in DOMAIN inbox : EntryOrdered(inbox[i]),
         inbox' = Append(inbox, e), epoch' = epoch
  PROVE  \A i \in DOMAIN inbox' : EntryOrdered(inbox'[i])
<1>1. SUFFICES ASSUME NEW i \in DOMAIN inbox' PROVE EntryOrdered(inbox'[i])
  OBVIOUS
<1>2. /\ DOMAIN inbox' = 1 .. Len(inbox) + 1 /\ DOMAIN inbox = 1 .. Len(inbox)
      /\ Len(inbox) \in Nat
      /\ inbox'[Len(inbox) + 1] = e
      /\ \A j \in DOMAIN inbox : inbox'[j] = inbox[j]
  OBVIOUS
<1>3. CASE i = Len(inbox) + 1
  BY <1>2, <1>3
<1>4. CASE i \in DOMAIN inbox
  BY <1>2, <1>4
<1>5. QED
  BY <1>1, <1>2, <1>3, <1>4

LEMMA OrderedTail ==
  ASSUME inbox \in Seq(Entry), inbox # <<>>,
         \A i \in DOMAIN inbox : EntryOrdered(inbox[i]),
         inbox' = Tail(inbox)
  PROVE  /\ \A i \in DOMAIN inbox' : EntryOrdered(inbox'[i])
         /\ Head(inbox) \in Entry /\ EntryOrdered(Head(inbox))
<1>1. /\ DOMAIN inbox = 1 .. Len(inbox) /\ Len(inbox) \in Nat /\ Len(inbox) >= 1
      /\ DOMAIN inbox' = 1 .. Len(inbox) - 1
      /\ \A j \in 1 .. Len(inbox) - 1 : inbox'[j] = inbox[j + 1]
      /\ Head(inbox) = inbox[1] /\ inbox[1] \in Entry
  OBVIOUS
<1>2. \A i \in DOMAIN inbox' : i + 1 \in DOMAIN inbox /\ inbox'[i] = inbox[i + 1]
  BY <1>1
<1>3. QED
  BY <1>1, <1>2

LEMMA VersionsStep == Inv /\ Versions /\ [Next]_vars => Versions'
<1> SUFFICES ASSUME Inv, Versions, [Next]_vars PROVE Versions'
  OBVIOUS
<1>0. /\ TypeOK /\ inbox \in Seq(Entry) /\ epoch \in Nat /\ inst \in Nat
      /\ tunnels \in SUBSET Tunnel
  BY DEF Inv, TypeOK
<1>1. CASE Restart
  <2>1. /\ epoch' = epoch + 1 /\ inbox' = inbox /\ tunnels' = tunnels
        /\ inst' <= epoch' /\ (inst' = inst \/ tunnels = {})
    BY <1>0, <1>1 DEF Restart, Inv, Released, Versions
  <2>2. \A i \in DOMAIN inbox : inbox[i] \in Entry
    BY <1>0
  <2>3. \A i \in DOMAIN inbox' : inbox'[i].inst <= inbox'[i].made /\ inbox'[i].made <= epoch'
    <3>1. \A i \in DOMAIN inbox : inbox[i].inst <= inbox[i].made /\ inbox[i].made <= epoch
      BY DEF Versions, EntryOrdered
    <3>2. \A i \in DOMAIN inbox : inbox[i].made \in Nat
      BY <2>2 DEF Entry
    <3>3. QED
      BY <1>0, <2>1, <3>1, <3>2
  <2>4. \A t \in tunnels' : inst' <= t.made /\ t.made <= t.conf /\ t.conf <= epoch'
    BY <1>0, <2>1 DEF Versions, Tunnel
  <2>5. QED
    BY <2>1, <2>3, <2>4 DEF Versions, EntryOrdered
<1>2. CASE \/ Suspend \/ Relaunch \/ ThreadEnds \/ Fallback \/ Retry \/ Expired \/ UNCHANGED vars
           \/ OrphanDestroyed \/ ConnectThrows
           \/ \E callback \in {"connect", "fallback", "failing"} : PlexusCalls(callback)
           \/ (\E t \in tunnels : CarrierEnds(t)) \/ (\E x \in exits : OnExit(x))
  <2>1. epoch' = epoch /\ inst' = inst /\ tunnels' \subseteq tunnels
    BY <1>2 DEF Suspend, Relaunch, ThreadEnds, Fallback, Retry, Expired, vars, OrphanDestroyed,
                ConnectThrows, ProcessEnds, PlexusCalls, CarrierEnds, OnExit
  <2>2. inbox' = inbox \/ inbox' = <<>> \/ (inbox # <<>> /\ inbox' = Tail(inbox))
    BY <1>2 DEF Suspend, Relaunch, ThreadEnds, Fallback, Retry, Expired, vars, OrphanDestroyed,
                ConnectThrows, ProcessEnds, PlexusCalls, CarrierEnds, OnExit, Due
  <2>3. \A i \in DOMAIN inbox' : EntryOrdered(inbox'[i])
    <3>1. CASE inbox' = <<>>
      BY <3>1
    <3>2. CASE inbox' = inbox
      BY <3>2 DEF Versions
    <3>3. CASE inbox # <<>> /\ inbox' = Tail(inbox)
      BY <1>0, <3>3, OrderedTail DEF Versions
    <3>4. QED
      BY <2>2, <3>1, <3>2, <3>3
  <2>4. QED
    BY <2>1, <2>3 DEF Versions, EntryOrdered
<1>3. CASE Connect
  <2>1. /\ inbox # <<>> /\ inbox' = Tail(inbox) /\ epoch' = epoch /\ inst' = inst
        /\ Head(inbox).inst = inst
    BY <1>3 DEF Connect, Due, Alive
  <2>2. /\ \A i \in DOMAIN inbox' : EntryOrdered(inbox'[i])
        /\ EntryOrdered(Head(inbox))
    BY <1>0, <2>1, OrderedTail DEF Versions
  <2>3. PICK pid \in Pids :
          tunnels' = tunnels \cup {[pid |-> pid, made |-> Head(inbox).made, conf |-> epoch]}
    BY <1>3 DEF Connect
  <2>4. inst <= Head(inbox).made /\ Head(inbox).made <= epoch /\ epoch <= epoch
    BY <1>0, <2>1, <2>2 DEF EntryOrdered
  <2>5. QED
    BY <2>1, <2>2, <2>3, <2>4 DEF Versions, EntryOrdered
<1>4. CASE Post \/ TimerExpires
  <2> DEFINE entry(kind) == [kind |-> kind, inst |-> inst, made |-> epoch]
  <2>0. \E kind \in Kinds : inbox' = Append(inbox, entry(kind))
    BY <1>4 DEF Post, TimerExpires, Kinds
  <2>1. PICK e \in Entry : inbox' = Append(inbox, e) /\ e.inst = inst /\ e.made = epoch
    <3>1. PICK kind \in Kinds : inbox' = Append(inbox, entry(kind))
      BY <2>0
    <3>2. entry(kind) \in Entry
      BY <1>0 DEF Entry
    <3>3. entry(kind).inst = inst /\ entry(kind).made = epoch
      OBVIOUS
    <3>4. QED
      BY <3>1, <3>2, <3>3
  <2>2. epoch' = epoch /\ inst' = inst /\ tunnels' = tunnels
    BY <1>4 DEF Post, TimerExpires
  <2>3. EntryOrdered(e)
    BY <1>0, <2>1 DEF EntryOrdered, Versions
  <2>4. \A i \in DOMAIN inbox' : EntryOrdered(inbox'[i])
    BY <1>0, <2>1, <2>2, <2>3, OrderedAppend DEF Versions
  <2>5. QED
    BY <2>2, <2>4 DEF Versions, EntryOrdered
<1>5. CASE Next
  BY <1>5, <1>1, <1>2, <1>3, <1>4, Zenon DEF Next, Handler
<1>6. QED
  BY <1>2, <1>5

LEMMA VersionsInit == Init => Versions
<1> SUFFICES ASSUME Init PROVE Versions
  OBVIOUS
<1>1. inst = 0 /\ epoch = 0 /\ DOMAIN inbox = {} /\ tunnels = {}
  BY DEF Init
<1>2. QED
  BY <1>1 DEF Versions

(* No tunnel stems from a contract made before the connector was suspended  *)
(* and created again.                                                       *)
THEOREM ContractsAreOwn == Spec => []OwnContracts
<1>1. Versions => OwnContracts
  BY DEF Versions, OwnContracts
<1>2. QED
  BY <1>1, VersionsInit, VersionsStep, Invariance, PTL DEF Spec

(* No step but the end of its carrier, a suspension or the end of the       *)
(* backend removes a tunnel.                                                *)
THEOREM WorkingTunnelsStay == Spec => TunnelsSurvive
<1> DEFINE Stays(t) == t \in tunnels' \/ ~held' \/ [pid |-> t.pid, inst |-> inst] \in exits
<1>1. Inv /\ Next => \A t \in tunnels : Stays(t)
  <2> SUFFICES ASSUME Inv, Next, NEW t \in tunnels PROVE Stays(t)
    OBVIOUS
  <2>1. CASE \E x \in exits : OnExit(x)
    <3>1. PICK x \in exits : OnExit(x)
      BY <2>1
    <3>2. x = [pid |-> x.pid, inst |-> x.inst]
      BY <3>1 DEF Inv, TypeOK
    <3>3. CASE Alive(x.inst) /\ t.pid = x.pid
      BY <3>1, <3>2, <3>3 DEF Alive
    <3>4. CASE ~(Alive(x.inst) /\ t.pid = x.pid)
      BY <3>1, <3>4 DEF OnExit
    <3>5. QED
      BY <3>3, <3>4
  <2>2. CASE Suspend \/ OrphanDestroyed \/ ConnectThrows
    BY <2>2 DEF Suspend, OrphanDestroyed, ConnectThrows, ProcessEnds
  <2>3. CASE \/ Restart \/ Relaunch \/ Post \/ ThreadEnds \/ TimerExpires
             \/ Connect \/ Fallback \/ Retry \/ Expired
             \/ \E callback \in {"connect", "fallback", "failing"} : PlexusCalls(callback)
             \/ \E u \in tunnels : CarrierEnds(u)
    BY <2>3 DEF Restart, Relaunch, Post, ThreadEnds, TimerExpires, Connect, Fallback, Retry, Expired,
                PlexusCalls, CarrierEnds
  <2>4. QED
    BY <2>1, <2>2, <2>3, Zenon DEF Next, Handler
<1>2. Inv /\ [Next]_vars => [\A t \in tunnels : Stays(t)]_vars
  BY <1>1
<1>3. QED
  BY <1>2, Invariance, PTL DEF Spec, TunnelsSurvive

-----------------------------------------------------------------------------
(* The connector implements Link.  Of the steps between two phases Link     *)
(* forbids four: waking up elsewhere than in an attempt, from waiting to    *)
(* linked, from linked to waiting, and leaving stranded but by a request.   *)

Waiting == held /\ ~Linked /\ ~Trying /\ ~Lost

LEMMA PhaseIs ==
  /\ ~held => Phase = "asleep"
  /\ Linked => Phase = "linked"
  /\ Trying => Phase = "trying"
  /\ Lost => Phase = "stranded"
  /\ Waiting => Phase = "waiting"
BY DEF Linked, Trying, Lost, Waiting, Phase

LEMMA PhaseWillBe ==
  /\ ~held' => Phase' = "asleep"
  /\ Linked' => Phase' = "linked"
  /\ Trying' => Phase' = "trying"
  /\ Lost' => Phase' = "stranded"
  /\ Waiting' => Phase' = "waiting"
BY DEF Linked, Trying, Lost, Waiting, Phase

(* Only an export loses its way, and nothing but a request finds it. *)
LEMMA LostExports == Inv /\ Lost => Local
BY DEF Inv, Endings, Lost, Stranded

LEMMA LostStays ==
  ASSUME Inv, [Next]_vars, Lost, held'
  PROVE  Lost' \/ Trying'
<1>1. /\ held /\ Local /\ missed /\ ~armed /\ ~Working
      /\ ~Queued({"connect", "fallback", "retry"}) /\ inbox \in Seq(Entry)
  BY LostExports DEF Lost, Stranded, Inv, Endings, TypeOK
<1>2. CASE Restart
  BY <1>1, <1>2 DEF Restart, Trying, Linked, Working
<1>3. ASSUME Due("connect") \/ Due("fallback") \/ Due("retry") PROVE ~Alive(Head(inbox).inst)
  <2>1. inbox # <<>> /\ Head(inbox).kind \in {"connect", "fallback", "retry"}
    BY <1>3 DEF Due
  <2>2. 1 \in DOMAIN inbox /\ Head(inbox) = inbox[1]
    BY <1>1, <2>1
  <2>3. QED
    BY <1>1, <2>1, <2>2 DEF Queued
<1>4. ~Connect /\ ~ConnectThrows /\ ~Fallback /\ ~Retry
  BY <1>3 DEF Connect, ConnectThrows, Fallback, Retry
<1>5. ~Post /\ ~TimerExpires /\ ~(\E callback \in {"connect", "fallback", "failing"} : PlexusCalls(callback))
  BY <1>1 DEF Post, Calling, Working, TimerExpires, PlexusCalls
<1>6. CASE \/ OrphanDestroyed \/ Relaunch \/ ThreadEnds \/ Expired \/ UNCHANGED vars
           \/ (\E t \in tunnels : CarrierEnds(t)) \/ (\E x \in exits : OnExit(x))
  <2>0. /\ missed' = missed /\ armed' = armed /\ held' = held /\ inst' = inst
        /\ spawner' = spawner \/ spawner' = "off"
        /\ inbox' = inbox \/ (inbox # <<>> /\ inbox' = Tail(inbox))
    <3>1. CASE OrphanDestroyed \/ Relaunch \/ ThreadEnds \/ Expired \/ UNCHANGED vars
      BY <3>1 DEF OrphanDestroyed, ProcessEnds, Relaunch, ThreadEnds, Expired, vars
    <3>2. CASE (\E t \in tunnels : CarrierEnds(t)) \/ (\E x \in exits : OnExit(x))
      BY <1>1, <3>2 DEF CarrierEnds, OnExit
    <3>3. QED
      BY <1>6, <3>1, <3>2
  <2>1. /\ missed' /\ ~armed' /\ ~Working' /\ held' = held /\ inst' = inst
        /\ inbox' = inbox \/ (inbox # <<>> /\ inbox' = Tail(inbox))
    BY <1>1, <2>0 DEF Working
  <2>2. \A i \in DOMAIN inbox' : \E j \in DOMAIN inbox : inbox'[i] = inbox[j]
    <3>1. CASE inbox' = inbox
      BY <3>1
    <3>2. CASE inbox # <<>> /\ inbox' = Tail(inbox)
      <4>1. /\ DOMAIN inbox = 1 .. Len(inbox) /\ Len(inbox) \in Nat
            /\ DOMAIN inbox' = 1 .. Len(inbox) - 1
            /\ \A i \in 1 .. Len(inbox) - 1 : inbox'[i] = inbox[i + 1]
        BY <1>1, <3>2
      <4>2. \A i \in DOMAIN inbox' : i + 1 \in DOMAIN inbox /\ inbox'[i] = inbox[i + 1]
        BY <4>1
      <4>3. QED
        BY <4>2
    <3>3. QED
      BY <2>1, <3>1, <3>2
  <2>3. ~Queued({"connect", "fallback", "retry"})'
    BY <1>1, <2>1, <2>2 DEF Queued, Alive
  <2>4. QED
    BY <1>1, <2>1, <2>3 DEF Lost, Stranded, Linked, Trying, Queued
<1>7. ~Suspend
  BY DEF Suspend
<1>8. QED
  BY <1>2, <1>4, <1>5, <1>6, <1>7, Zenon DEF Next, Handler

(* A service that is asked for is tried. *)
LEMMA WakesTrying ==
  ASSUME Inv, [Next]_vars, ~held, held'
  PROVE  Trying'
<1>1. Restart
  BY Zenon DEF Next, Handler, Suspend, OrphanDestroyed, ProcessEnds, Relaunch, PlexusCalls, Post,
     ThreadEnds, Connect, ConnectThrows, Fallback, Retry, Expired, TimerExpires, CarrierEnds, OnExit, Alive, vars
<1>2. tunnels = {}
  BY DEF Inv, Released
<1>3. QED
  BY <1>1, <1>2 DEF Restart, Trying, Linked, Working

(* A tunnel comes out of a queued contract only. *)
LEMMA LinksTrying ==
  ASSUME Inv, [Next]_vars, held, ~Linked, Linked'
  PROVE  Trying
<1>1. tunnels = {} /\ tunnels' # {} /\ ~Local
  BY DEF Linked
<1>2. CASE Connect
  <2>1. inbox # <<>> /\ Head(inbox).kind = "connect" /\ Alive(Head(inbox).inst)
        /\ inbox \in Seq(Entry)
    BY <1>2 DEF Connect, Due, Inv, TypeOK
  <2>2. 1 \in DOMAIN inbox /\ Head(inbox) = inbox[1]
    BY <2>1
  <2>3. QED
    BY <2>1, <2>2 DEF Trying, Queued
<1>3. CASE \E x \in exits : OnExit(x)
  BY <1>1, <1>3 DEF OnExit
<1>4. CASE ~Connect /\ ~(\E x \in exits : OnExit(x))
  <2>1. tunnels' = tunnels \/ tunnels' = {}
    BY <1>4, Zenon DEF Next, Handler, Restart, Suspend, OrphanDestroyed, ProcessEnds, Relaunch,
       PlexusCalls, Post, ThreadEnds, ConnectThrows, Fallback, Retry, Expired, TimerExpires, CarrierEnds, vars
  <2>2. QED
    BY <1>1, <2>1
<1>5. QED
  BY <1>2, <1>3, <1>4

(* The end of the last tunnel is followed by an attempt. *)
LEMMA LosesTrying ==
  ASSUME Inv, [Next]_vars, Linked, held', ~Linked'
  PROVE  Trying'
<1>1. tunnels # {} /\ tunnels' = {} /\ ~Local
  BY DEF Linked
<1>2. CASE \E x \in exits : OnExit(x)
  <2>1. PICK x \in exits : OnExit(x)
    BY <1>2
  <2>2. spawner' = "run"
    BY <1>1, <2>1 DEF OnExit
  <2>3. QED
    BY <2>2 DEF Trying, Working
<1>3. CASE Connect
  BY <1>1, <1>3 DEF Connect
<1>4. CASE ~Connect /\ ~(\E x \in exits : OnExit(x))
  <2>1. tunnels' = tunnels \/ ~held'
    BY <1>4, Zenon DEF Next, Handler, Restart, Suspend, OrphanDestroyed, ProcessEnds, Relaunch,
       PlexusCalls, Post, ThreadEnds, ConnectThrows, Fallback, Retry, Expired, TimerExpires, CarrierEnds, vars
  <2>2. QED
    BY <1>1, <2>1
<1>5. QED
  BY <1>2, <1>3, <1>4

LEMMA LinkStep == Inv /\ [Next]_vars => [Lnk!Next]_Phase
<1> SUFFICES ASSUME Inv, [Next]_vars PROVE [Lnk!Next]_Phase
  OBVIOUS
<1>0. Lost' => Local
  <2>1. Inv'
    BY InvStep
  <2>2. QED
    BY <2>1 DEF Inv, Endings, Lost, Stranded
<1>a. held => Linked \/ Trying \/ Lost \/ Waiting
  BY DEF Waiting
<1>b. held' => Linked' \/ Trying' \/ Lost' \/ Waiting'
  BY DEF Waiting
<1>1. CASE ~held
  BY <1>1, WakesTrying, PhaseIs, PhaseWillBe DEF Lnk!Next, Lnk!Ask
<1>2. CASE held /\ ~held'
  BY <1>2, <1>a, PhaseIs, PhaseWillBe DEF Lnk!Next, Lnk!Drop
<1>3. CASE held /\ held' /\ Linked
  BY <1>3, LosesTrying, PhaseIs, PhaseWillBe DEF Lnk!Next, Lnk!Lose
<1>4. CASE held /\ held' /\ ~Linked /\ Linked'
  BY <1>4, LinksTrying, PhaseIs, PhaseWillBe DEF Lnk!Next, Lnk!Succeed
<1>5. CASE held' /\ Lost
  BY <1>5, LostStays, PhaseIs, PhaseWillBe DEF Lnk!Next, Lnk!Ask
<1>6. CASE held /\ (Trying \/ Waiting) /\ Lost'
  BY <1>0, <1>6, PhaseIs, PhaseWillBe DEF Lnk!Next, Lnk!Strand
<1>7. CASE held /\ (Trying \/ Waiting) /\ (Trying' \/ Waiting')
  BY <1>7, PhaseIs, PhaseWillBe DEF Lnk!Next, Lnk!Fail, Lnk!Again
<1>8. QED
  BY <1>a, <1>b, <1>1, <1>2, <1>3, <1>4, <1>5, <1>6, <1>7

(* What the connector does is what Link allows: every step is one of Link's *)
(* or none.  (That it doesn't stay waiting is checked by the runs.)         *)
THEOREM ImplementsLink == Spec => Lnk!Safe
<1>1. Init => Lnk!Init
  BY PhaseIs DEF Init, Lnk!Init
<1>2. QED
  BY <1>1, LinkStep, Invariance, PTL DEF Spec, Lnk!Safe

-----------------------------------------------------------------------------
(* The carriers of an import. *)

\* The queued handlers whose weak pointer can be locked.
Live == {i \in DOMAIN inbox : Alive(inbox[i].inst)}

LEMMA LiveFinite ==
  ASSUME inbox \in Seq(Entry)
  PROVE  IsFiniteSet(Live) /\ Cardinality(Live) \in Nat
<1>1. DOMAIN inbox = 1 .. Len(inbox) /\ Len(inbox) \in Nat
  OBVIOUS
<1>2. IsFiniteSet(1 .. Len(inbox))
  BY <1>1, FS_Interval
<1>3. Live \subseteq 1 .. Len(inbox)
  BY <1>1 DEF Live
<1>4. QED
  BY <1>2, <1>3, FS_Subset, FS_CardinalityType

LEMMA LiveAppend ==
  ASSUME inbox \in Seq(Entry), NEW e \in Entry, Alive(e.inst),
         inbox' = Append(inbox, e), held' = held, inst' = inst
  PROVE  Cardinality(Live') = Cardinality(Live) + 1
<1>1. /\ DOMAIN inbox = 1 .. Len(inbox) /\ Len(inbox) \in Nat
      /\ DOMAIN inbox' = 1 .. Len(inbox) + 1
      /\ inbox'[Len(inbox) + 1] = e
      /\ \A i \in DOMAIN inbox : inbox'[i] = inbox[i]
  OBVIOUS
<1>2. Live' = Live \cup {Len(inbox) + 1}
  BY <1>1 DEF Live, Alive
<1>3. Len(inbox) + 1 \notin Live
  BY <1>1 DEF Live
<1>4. QED
  BY <1>2, <1>3, LiveFinite, FS_AddElement

LEMMA LiveTail ==
  ASSUME inbox \in Seq(Entry), inbox # <<>>, inbox' = Tail(inbox),
         held' = held, inst' = inst
  PROVE  Cardinality(Live') =
           IF Alive(Head(inbox).inst) THEN Cardinality(Live) - 1 ELSE Cardinality(Live)
<1> DEFINE Later == Live \ {1}
           Shift == [i \in Later |-> i - 1]
<1>1. /\ DOMAIN inbox = 1 .. Len(inbox) /\ Len(inbox) \in Nat /\ Len(inbox) >= 1
      /\ DOMAIN inbox' = 1 .. Len(inbox) - 1
      /\ \A i \in 1 .. Len(inbox) - 1 : inbox'[i] = inbox[i + 1]
      /\ Head(inbox) = inbox[1]
  OBVIOUS
<1>2. IsFiniteSet(Later)
      /\ Cardinality(Later) = IF 1 \in Live THEN Cardinality(Live) - 1 ELSE Cardinality(Live)
  BY LiveFinite, FS_RemoveElement
<1>3. 1 \in Live <=> Alive(Head(inbox).inst)
  BY <1>1 DEF Live
<1>4. \A i \in Later : i \in 2 .. Len(inbox) /\ Alive(inbox[i].inst)
  BY <1>1 DEF Live
<1>5. \A i \in Later : i - 1 \in Live'
  BY <1>1, <1>4 DEF Live, Alive
<1>6. \A j \in Live' : j \in Nat /\ j + 1 \in Later
  BY <1>1 DEF Live, Alive
<1>7. ExistsBijection(Later, Live')
  <2>1. \A i \in Later : i \in Nat
    BY <1>4
  <2>2. Shift \in [Later -> Live']
    BY <1>5
  <2>3. \A i, j \in Later : Shift[i] = Shift[j] => i = j
    BY <2>1
  <2>4. \A j \in Live' : \E i \in Later : Shift[i] = j
    BY <1>6
  <2>5. QED
    BY <2>2, <2>3, <2>4 DEF ExistsBijection, Bijection, Injection, Surjection, IsInjective
<1>8. QED
  BY <1>2, <1>3, <1>7, FS_Bijection

-----------------------------------------------------------------------------
(* An exit that is due for the living connector is about one of its tunnels. *)
ExitsOwn ==
  /\ IsFiniteSet(tunnels)
  /\ \A x \in exits : x.inst <= inst
  /\ \A x \in exits : Alive(x.inst) => \E t \in tunnels : t.pid = x.pid

LEMMA ExitsStep == Inv /\ Versions /\ ExitsOwn /\ [Next]_vars => ExitsOwn'
<1> SUFFICES ASSUME Inv, Versions, ExitsOwn, [Next]_vars PROVE ExitsOwn'
  OBVIOUS
<1>0. /\ epoch \in Nat /\ inst \in Nat /\ inst <= epoch
      /\ exits \in SUBSET [pid : Pids, inst : Nat]
  BY DEF Inv, TypeOK, Versions
<1>1. CASE Restart
  <2>1. /\ tunnels' = tunnels /\ exits' = exits
        /\ held => inst' = inst
        /\ ~held => inst' = epoch + 1
    BY <1>1 DEF Restart
  <2>2. \A x \in exits : x.inst \in Nat /\ x.inst <= inst
    BY <1>0 DEF ExitsOwn
  <2>3. CASE held
    BY <2>1, <2>3 DEF ExitsOwn, Alive
  <2>4. CASE ~held
    <3>1. \A x \in exits' : x.inst <= inst' /\ x.inst # inst'
      BY <1>0, <2>1, <2>2, <2>4
    <3>2. QED
      BY <2>1, <3>1 DEF ExitsOwn, Alive
  <2>5. QED
    BY <2>3, <2>4
<1>2. CASE Suspend \/ OrphanDestroyed \/ ConnectThrows
  <2>1. \/ UNCHANGED <<tunnels, exits, held, inst>>
        \/ ~held' /\ tunnels' = {} /\ inst' = inst /\ exits' \subseteq exits
    BY <1>2 DEF Suspend, OrphanDestroyed, ConnectThrows, ProcessEnds
  <2>2. CASE UNCHANGED <<tunnels, exits, held, inst>>
    BY <2>2 DEF ExitsOwn, Alive
  <2>3. CASE ~held' /\ tunnels' = {} /\ inst' = inst /\ exits' \subseteq exits
    BY <2>3, FS_EmptySet DEF ExitsOwn, Alive
  <2>4. QED
    BY <2>1, <2>2, <2>3
<1>3. CASE Connect
  <2>1. PICK pid \in Pids :
          tunnels' = tunnels \cup {[pid |-> pid, made |-> Head(inbox).made, conf |-> epoch]}
    BY <1>3 DEF Connect
  <2>2. IsFiniteSet(tunnels')
    BY <2>1, FS_AddElement DEF ExitsOwn
  <2>3. exits' = exits /\ held' = held /\ inst' = inst /\ tunnels \subseteq tunnels'
    BY <1>3, <2>1 DEF Connect
  <2>4. QED
    BY <2>2, <2>3 DEF ExitsOwn, Alive
<1>4. CASE \/ Relaunch \/ Post \/ ThreadEnds \/ Fallback \/ Retry \/ Expired \/ TimerExpires
           \/ UNCHANGED vars
           \/ \E callback \in {"connect", "fallback", "failing"} : PlexusCalls(callback)
  <2>1. UNCHANGED <<tunnels, exits, held, inst>>
    BY <1>4 DEF Relaunch, Post, ThreadEnds, Fallback, Retry, Expired, TimerExpires, vars, PlexusCalls
  <2>2. QED
    BY <2>1 DEF ExitsOwn, Alive
<1>5. CASE \E t \in tunnels : CarrierEnds(t)
  <2>1. PICK t \in tunnels : CarrierEnds(t)
    BY <1>5
  <2>2. /\ exits' = exits \cup {[pid |-> t.pid, inst |-> inst]}
        /\ tunnels' = tunnels /\ held' = held /\ inst' = inst
    BY <2>1 DEF CarrierEnds
  <2>3. \A x \in exits' \ exits : x.pid = t.pid /\ x.inst = inst
    BY <2>2
  <2>4. QED
    BY <1>0, <2>2, <2>3 DEF ExitsOwn, Alive
<1>6. CASE \E x \in exits : OnExit(x)
  <2>1. PICK x \in exits : OnExit(x)
    BY <1>6
  <2>2. exits' = exits \ {x} /\ held' = held /\ inst' = inst
    BY <2>1 DEF OnExit
  <2>3. CASE Alive(x.inst)
    <3>1. tunnels' = {t \in tunnels : t.pid # x.pid}
      BY <2>1, <2>3 DEF OnExit
    <3>2. IsFiniteSet(tunnels')
      BY <3>1, FS_Subset DEF ExitsOwn
    <3>3. ASSUME NEW y \in exits', Alive(y.inst) PROVE y.pid # x.pid
      <4>1. y = [pid |-> y.pid, inst |-> y.inst] /\ x = [pid |-> x.pid, inst |-> x.inst]
        BY <1>0, <2>2
      <4>2. QED
        BY <2>2, <2>3, <3>3, <4>1 DEF Alive
    <3>4. QED
      BY <2>2, <3>1, <3>2, <3>3 DEF ExitsOwn, Alive
  <2>4. CASE ~Alive(x.inst)
    BY <2>1, <2>2, <2>4 DEF OnExit, ExitsOwn, Alive
  <2>5. QED
    BY <2>3, <2>4
<1>7. CASE Next
  BY <1>7, <1>1, <1>2, <1>3, <1>4, <1>5, <1>6, Zenon DEF Next, Handler
<1>8. QED
  BY <1>4, <1>7

LEMMA ExitsInit == Init => ExitsOwn
BY FS_EmptySet DEF Init, ExitsOwn

(* What the exit of a carrier takes away. *)
LEMMA ExitPays ==
  ASSUME Inv, ExitsOwn, NEW x \in exits, Alive(x.inst), OnExit(x)
  PROVE  Cardinality(tunnels') <= Cardinality(tunnels) - 1
<1>1. PICK t \in tunnels : t.pid = x.pid
  BY DEF ExitsOwn
<1>2. tunnels' \subseteq tunnels \ {t}
  BY <1>1 DEF OnExit
<1>3. /\ IsFiniteSet(tunnels \ {t})
      /\ Cardinality(tunnels \ {t}) = Cardinality(tunnels) - 1
  BY FS_RemoveElement DEF ExitsOwn
<1>4. QED
  BY <1>2, <1>3, FS_Subset

-----------------------------------------------------------------------------
LEMMA BatonsAre ==
  Batons = (IF spawner = "off" THEN 0 ELSE 1) + (IF armed THEN 1 ELSE 0)
             + Cardinality(Live) + Cardinality(tunnels)
BY DEF Batons, Live

LEMMA BatonsWillBe ==
  Batons' = (IF spawner' = "off" THEN 0 ELSE 1) + (IF armed' THEN 1 ELSE 0)
             + Cardinality(Live') + Cardinality(tunnels')
BY DEF Batons, Live

LEMMA BatonsStep == Inv /\ Versions /\ ExitsOwn /\ BatonsBounded /\ [Next]_vars
                      => BatonsBounded'
<1> SUFFICES ASSUME Inv, Versions, ExitsOwn, BatonsBounded, [Next]_vars, ~Local, held'
             PROVE  Batons' <= epoch' - inst' + 1
  BY DEF BatonsBounded
<1> DEFINE Queue == Cardinality(Live)
           Carriers == Cardinality(tunnels)
<1>0. /\ inbox \in Seq(Entry) /\ epoch \in Nat /\ inst \in Nat /\ inst <= epoch
      /\ armed \in BOOLEAN /\ Queue \in Nat /\ Carriers \in Nat
  BY LiveFinite, FS_CardinalityType DEF Inv, TypeOK, Versions, ExitsOwn
<1>a. held => Batons <= epoch - inst + 1
  BY DEF BatonsBounded
<1>b. UNCHANGED <<inbox, held, inst>> => Cardinality(Live') = Queue
  BY DEF Live, Alive
<1>1. CASE Restart
  <2>1. CASE held
    <3>1. epoch' = epoch + 1 /\ inst' = inst /\ ~armed' /\ tunnels' = tunnels
          /\ UNCHANGED <<inbox, held>>
      BY <1>1, <2>1 DEF Restart
    <3>2. QED
      BY <1>0, <1>a, <1>b, <2>1, <3>1, BatonsAre, BatonsWillBe
  <2>2. CASE ~held
    <3>1. epoch' = epoch + 1 /\ inst' = epoch + 1 /\ ~armed' /\ tunnels' = {} /\ inbox' = inbox
      BY <1>1, <2>2 DEF Restart, Inv, Released
    <3>2. \A i \in DOMAIN inbox : inbox[i].inst <= epoch /\ inbox[i].inst \in Nat
      <4>1. \A i \in DOMAIN inbox : inbox[i] \in Entry
        BY <1>0
      <4>2. \A i \in DOMAIN inbox : inbox[i].inst \in Nat /\ inbox[i].made \in Nat
        BY <4>1 DEF Entry
      <4>3. QED
        BY <1>0, <4>2 DEF Versions, EntryOrdered
    <3>3. Live' = {}
      <4>1. \A i \in DOMAIN inbox : inbox[i].inst # epoch + 1
        BY <1>0, <3>2
      <4>2. QED
        BY <3>1, <4>1 DEF Live, Alive
    <3>4. QED
      BY <1>0, <3>1, <3>3, FS_EmptySet, BatonsWillBe
  <2>3. QED
    BY <2>1, <2>2
<1>2. CASE Relaunch \/ UNCHANGED vars \/ (\E t \in tunnels : CarrierEnds(t)) \/ OrphanDestroyed
  <2>1. UNCHANGED <<epoch, inst, held, spawner, inbox, armed, tunnels>>
    BY <1>2 DEF Relaunch, vars, CarrierEnds, OrphanDestroyed, ProcessEnds
  <2>2. QED
    BY <1>0, <1>a, <1>b, <2>1, BatonsAre, BatonsWillBe
<1>3. CASE \E callback \in {"connect", "fallback", "failing"} : PlexusCalls(callback)
  <2>1. /\ UNCHANGED <<epoch, inst, held, inbox, armed, tunnels>>
        /\ spawner # "off" /\ spawner' # "off"
    BY <1>3 DEF PlexusCalls
  <2>2. QED
    BY <1>0, <1>a, <1>b, <2>1, BatonsAre, BatonsWillBe
<1>13. CASE ThreadEnds
  BY <1>13 DEF ThreadEnds, Inv, Endings
<1>4. CASE Post
  <2>1. /\ UNCHANGED <<epoch, inst, held, armed, tunnels>>
        /\ spawner # "off" /\ spawner' = "off"
    BY <1>4 DEF Post, Calling
  <2>2. PICK e \in Entry : inbox' = Append(inbox, e) /\ e.inst = inst
    BY <1>0, <1>4 DEF Post, Entry, Kinds
  <2>3. Cardinality(Live') = Queue + 1
    BY <1>0, <2>1, <2>2, LiveAppend DEF Alive
  <2>4. QED
    BY <1>0, <1>a, <2>1, <2>3, BatonsAre, BatonsWillBe
<1>5. CASE TimerExpires
  <2>1. UNCHANGED <<epoch, inst, held, spawner, tunnels>> /\ armed /\ ~armed'
    BY <1>5 DEF TimerExpires
  <2>2. PICK e \in Entry : inbox' = Append(inbox, e) /\ e.inst = inst
    BY <1>0, <1>5 DEF TimerExpires, Entry, Kinds
  <2>3. Cardinality(Live') = Queue + 1
    BY <1>0, <2>1, <2>2, LiveAppend DEF Alive
  <2>4. QED
    BY <1>0, <1>a, <2>1, <2>3, BatonsAre, BatonsWillBe
<1>6. CASE Connect
  <2>1. /\ UNCHANGED <<epoch, inst, held, spawner, armed>> /\ inbox' = Tail(inbox)
        /\ inbox # <<>> /\ Alive(Head(inbox).inst)
    BY <1>6 DEF Connect, Due
  <2>2. Cardinality(Live') = Queue - 1
    BY <1>0, <2>1, LiveTail
  <2>3. PICK pid \in Pids :
          tunnels' = tunnels \cup {[pid |-> pid, made |-> Head(inbox).made, conf |-> epoch]}
    BY <1>6 DEF Connect
  <2>4. Cardinality(tunnels') = Carriers \/ Cardinality(tunnels') = Carriers + 1
    BY <2>3, FS_AddElement DEF ExitsOwn
  <2>5. QED
    BY <1>0, <1>a, <2>1, <2>2, <2>4, BatonsAre, BatonsWillBe
<1>7. CASE Fallback \/ Retry
  <2>1. /\ UNCHANGED <<epoch, inst, held, tunnels>> /\ inbox' = Tail(inbox)
        /\ inbox # <<>> /\ Alive(Head(inbox).inst)
    BY <1>7 DEF Fallback, Retry, Due
  <2>2. Cardinality(Live') = Queue - 1
    BY <1>0, <2>1, LiveTail
  <2>3. CASE Fallback
    BY <1>0, <1>a, <2>1, <2>2, <2>3, BatonsAre, BatonsWillBe DEF Fallback
  <2>4. CASE Retry
    <3>1. armed' = armed
      BY <2>4 DEF Retry
    <3>2. QED
      BY <1>0, <1>a, <2>1, <2>2, <3>1, BatonsAre, BatonsWillBe
  <2>5. QED
    BY <1>7, <2>3, <2>4
<1>8. CASE Expired
  <2>1. /\ UNCHANGED <<epoch, inst, held, spawner, armed, tunnels>> /\ inbox' = Tail(inbox)
        /\ inbox # <<>> /\ ~Alive(Head(inbox).inst)
    BY <1>8 DEF Expired
  <2>2. Cardinality(Live') = Queue
    BY <1>0, <2>1, LiveTail
  <2>3. QED
    BY <1>0, <1>a, <2>1, <2>2, BatonsAre, BatonsWillBe
<1>9. CASE \E x \in exits : OnExit(x)
  <2>1. PICK x \in exits : OnExit(x)
    BY <1>9
  <2>2. UNCHANGED <<epoch, inst, held, inbox, armed>>
    BY <2>1 DEF OnExit
  <2>3. CASE Alive(x.inst)
    <3>1. Cardinality(tunnels') <= Carriers - 1
      BY <2>1, <2>3, ExitPays
    <3>2. Cardinality(tunnels') \in Nat
      <4>1. IsFiniteSet(tunnels')
        BY ExitsStep DEF ExitsOwn
      <4>2. QED
        BY <4>1, FS_CardinalityType
    <3>3. /\ Cardinality(Live') = Queue
          /\ (IF armed' THEN 1 ELSE 0) = (IF armed THEN 1 ELSE 0)
          /\ epoch' = epoch /\ inst' = inst
          /\ Batons <= epoch - inst + 1
      BY <1>a, <1>b, <2>2
    <3>4. QED
      BY <1>0, <3>1, <3>2, <3>3, BatonsAre, BatonsWillBe
  <2>4. CASE ~Alive(x.inst)
    <3>1. UNCHANGED <<spawner, tunnels>>
      BY <2>1, <2>4 DEF OnExit
    <3>2. QED
      BY <1>0, <1>a, <1>b, <2>2, <3>1, BatonsAre, BatonsWillBe
  <2>5. QED
    BY <2>3, <2>4
<1>10. CASE Suspend \/ ConnectThrows
  BY <1>10 DEF Suspend, ConnectThrows, ProcessEnds
<1>11. CASE Next
  BY <1>11, <1>1, <1>2, <1>3, <1>13, <1>4, <1>5, <1>6, <1>7, <1>8, <1>9, <1>10, Zenon DEF Next, Handler
<1>12. QED
  BY <1>2, <1>11

(* Handlers that a restart could not recall may each start an attempt of    *)
(* their own, yet an import never has more tunnels, attempts and timers     *)
(* than one and one for each restart of its connector.                      *)
THEOREM OneBatonPerRestart == Spec => []BatonsBounded
<1>1. Init => BatonsBounded
  BY DEF Init, BatonsBounded
<1>2. QED
  BY <1>1, BatonsStep, ExitsInit, ExitsStep, VersionsInit, VersionsStep, Invariance, PTL DEF Spec
=============================================================================

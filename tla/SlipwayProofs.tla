--------------------------- MODULE SlipwayProofs ---------------------------
(***************************************************************************)
(* Theorems about Slipway, for any processes, clients and bounds.          *)
(*                                                                         *)
(* None of the properties is inductive by itself.  Everything rests on the *)
(* file lock: a process past try_to_lock is the one that has it (Locked),  *)
(* so the socket file and the count of sessions have one writer; whoever   *)
(* is connected is connected to that process (Attached), so its count is   *)
(* the number of all sessions (Counted).  Replies match because a client   *)
(* has at most one request on its way, in the socket or in the process,    *)
(* and none at all while it is idle (Paired).                              *)
(***************************************************************************)
EXTENDS Slipway, FiniteSetTheorems, TLAPS

Bound == {"bound", "serving", "stopped", "failed", "unlinked"}

Locked == \A p \in Procs : pc[p] \in {"locked"} \cup Bound <=> lock = p

Owned == \A p \in Procs : Listening(p) => file = p

Attached == \A c \in Clients : peer[c] # Nobody => pc[peer[c]] \in Bound

Seated == \A c \in sessions : peer[c] # Nobody

Counted ==
  /\ IsFiniteSet(sessions)
  /\ \A p \in Procs : pc[p] \in {"bound", "serving"} => score = Cardinality(sessions)

Paired ==
  \A c \in Clients :
    /\ peer[c] = Nobody => requests[c] = <<>>
    /\ phase[c] = "trying" => peer[c] = Nobody
    /\ ~Open(c) \/ phase[c] = "idle" => replies[c] = <<>>
    /\ phase[c] = "idle" => requests[c] = <<>>
    /\ phase[c] = "waiting" =>
         \/ requests[c] = <<>> /\ replies[c] = <<>>
         \/ requests[c] = <<asked[c]>> /\ replies[c] = <<>>
         \/ requests[c] = <<>> /\ replies[c] = <<asked[c]>>

Alone == Locked /\ Owned /\ Attached /\ Seated

Inv == TypeOK /\ Alone /\ Counted /\ Paired

-----------------------------------------------------------------------------
(* Frames.                                                                 *)

LEMMA AloneFrame ==
  ASSUME Alone, UNCHANGED <<pc, lock, file, peer, sessions>>
  PROVE  Alone'
BY DEF Alone, Locked, Owned, Attached, Seated, Listening

LEMMA CountedFrame ==
  ASSUME Counted, UNCHANGED <<score, sessions>>,
         \A p \in Procs : pc'[p] \in {"bound", "serving"} => pc[p] \in {"bound", "serving"}
  PROVE  Counted'
BY DEF Counted

LEMMA PairedFrame ==
  ASSUME Paired, UNCHANGED <<phase, peer, asked, requests, replies>>
  PROVE  Paired'
BY DEF Paired, Open

(* What Disconnect does to the parts it touches.                           *)
LEMMA DisconnectRight ==
  ASSUME TypeOK, Seated, IsFiniteSet(sessions), NEW C, Disconnect(C)
  PROVE  /\ peer' \in [Clients -> Procs \cup {Nobody}]
         /\ sessions' \in SUBSET Clients
         /\ requests' \in [Clients -> Seq(Nat)]
         /\ Seated' /\ IsFiniteSet(sessions')
         /\ \A c \in Clients : peer'[c] # Nobody => peer'[c] = peer[c] /\ c \notin C
<1>1. <<>> \in Seq(Nat)
  OBVIOUS
<1>2. /\ peer' \in [Clients -> Procs \cup {Nobody}]
      /\ sessions' \in SUBSET Clients
      /\ \A c \in Clients : peer'[c] # Nobody => peer'[c] = peer[c] /\ c \notin C
  BY DEF Disconnect, TypeOK
<1>3. requests' \in [Clients -> Seq(Nat)]
  BY <1>1 DEF Disconnect, TypeOK
<1>4. Seated'
  BY DEF Disconnect, TypeOK, Seated
<1>5. IsFiniteSet(sessions')
  BY FS_Difference DEF Disconnect
<1>6. QED
  BY <1>2, <1>3, <1>4, <1>5

LEMMA DisconnectPaired ==
  ASSUME TypeOK, Paired, NEW C, Disconnect(C), UNCHANGED <<phase, asked, replies>>
  PROVE  Paired'
BY DEF Disconnect, TypeOK, Paired, Open

-----------------------------------------------------------------------------
(* The steps of a process on its way through main().                       *)

(* A process that moves while it has the lock, or takes or leaves it.      *)
LEMMA MovesRight ==
  ASSUME TypeOK, NEW p \in Procs, NEW from, NEW to \in ProcStates, Moves(p, from, to)
  PROVE  /\ pc' \in [Procs -> ProcStates]
         /\ pc[p] \in from /\ pc'[p] = to
         /\ \A q \in Procs : q # p => pc'[q] = pc[q]
BY DEF Moves, TypeOK

LEMMA BootInv ==
  ASSUME Inv, NEW p \in Procs, Boot(p)
  PROVE  Inv'
<1>1. /\ pc' \in [Procs -> ProcStates] /\ pc[p] = "none" /\ pc'[p] = "starting"
      /\ \A q \in Procs : q # p => pc'[q] = pc[q]
  BY MovesRight DEF Boot, Inv, ProcStates
<1>2. TypeOK'
  BY <1>1 DEF Boot, Inv, TypeOK
<1>3. Alone'
  BY <1>1 DEF Boot, Inv, TypeOK, Alone, Locked, Owned, Attached, Seated, Listening, Bound
<1>4. Counted'
  BY <1>1, CountedFrame DEF Boot, Inv
<1>5. Paired'
  BY PairedFrame DEF Boot, Inv
<1>6. QED
  BY <1>2, <1>3, <1>4, <1>5 DEF Inv

LEMMA TryLockInv ==
  ASSUME Inv, NEW p \in Procs, TryLock(p)
  PROVE  Inv'
<1>1. PICK to \in {"locked", "none"} :
        /\ Moves(p, {"starting"}, to)
        /\ to = "locked" => lock = Nobody /\ lock' = p
        /\ to = "none" => lock' = lock
  BY DEF TryLock
<1>2. /\ pc' \in [Procs -> ProcStates] /\ pc[p] = "starting" /\ pc'[p] = to
      /\ \A q \in Procs : q # p => pc'[q] = pc[q]
  BY <1>1, MovesRight DEF Inv, ProcStates
<1>3. TypeOK'
  BY <1>1, <1>2 DEF TryLock, Inv, TypeOK
<1>4. Alone'
  <2>1. Locked'
    BY <1>1, <1>2, NamesAssumption DEF Inv, TypeOK, Alone, Locked, Bound
  <2>2. Owned' /\ Attached' /\ Seated'
    BY <1>2 DEF TryLock, Inv, TypeOK, Alone, Owned, Attached, Seated, Listening, Bound
  <2>3. QED
    BY <2>1, <2>2 DEF Alone
<1>5. Counted'
  BY <1>1, <1>2, CountedFrame DEF TryLock, Inv
<1>6. Paired'
  BY PairedFrame DEF TryLock, Inv
<1>7. QED
  BY <1>3, <1>4, <1>5, <1>6 DEF Inv

LEMMA BindInv ==
  ASSUME Inv, NEW p \in Procs, Bind(p)
  PROVE  Inv'
<1>1. /\ pc' \in [Procs -> ProcStates] /\ pc[p] = "locked" /\ pc'[p] = "bound"
      /\ \A q \in Procs : q # p => pc'[q] = pc[q]
  BY MovesRight DEF Bind, Inv, ProcStates
<1>2. \A q \in Procs : q # p => pc[q] \notin {"locked"} \cup Bound
  BY <1>1 DEF Inv, Alone, Locked, Bound
<1>3. TypeOK'
  BY <1>1 DEF Bind, Inv, TypeOK
<1>4. Alone'
  BY <1>1, <1>2 DEF Bind, Inv, TypeOK, Alone, Locked, Owned, Attached, Seated, Listening, Bound
<1>5. Counted'
  <2>1. sessions = {}
    BY <1>1, <1>2 DEF Inv, TypeOK, Alone, Attached, Seated, Bound
  <2>2. QED
    BY <1>1, <1>2, <2>1, FS_EmptySet DEF Bind, Inv, Counted, Bound
<1>6. Paired'
  BY PairedFrame DEF Bind, Inv
<1>7. QED
  BY <1>3, <1>4, <1>5, <1>6 DEF Inv

LEMMA EmployInv ==
  ASSUME Inv, NEW p \in Procs, Employ(p)
  PROVE  Inv'
<1>1. PICK to \in {"serving", "failed"} : Moves(p, {"bound"}, to)
  BY DEF Employ
<1>2. /\ pc' \in [Procs -> ProcStates] /\ pc[p] = "bound" /\ pc'[p] = to
      /\ \A q \in Procs : q # p => pc'[q] = pc[q]
  BY <1>1, MovesRight DEF Inv, ProcStates
<1>3. TypeOK'
  BY <1>2 DEF Employ, Inv, TypeOK
<1>4. Alone'
  <2>1. Locked' /\ Owned'
    BY <1>2 DEF Employ, Inv, TypeOK, Alone, Locked, Owned, Listening, Bound
  <2>2. Attached' /\ Seated'
    BY <1>2 DEF Employ, Inv, TypeOK, Alone, Attached, Seated, Bound
  <2>3. QED
    BY <2>1, <2>2 DEF Alone
<1>5. Counted'
  BY <1>2, CountedFrame DEF Employ, Inv
<1>6. Paired'
  BY PairedFrame DEF Employ, Inv
<1>7. QED
  BY <1>3, <1>4, <1>5, <1>6 DEF Inv

LEMMA FailInv ==
  ASSUME Inv, NEW p \in Procs, Fail(p)
  PROVE  Inv'
<1>1. /\ pc' \in [Procs -> ProcStates] /\ pc[p] = "serving" /\ pc'[p] = "failed"
      /\ \A q \in Procs : q # p => pc'[q] = pc[q]
  BY MovesRight DEF Fail, Inv, ProcStates
<1>2. TypeOK'
  BY <1>1 DEF Fail, Inv, TypeOK
<1>3. Alone'
  <2>1. Locked' /\ Owned'
    BY <1>1 DEF Fail, Inv, TypeOK, Alone, Locked, Owned, Listening, Bound
  <2>2. Attached' /\ Seated'
    BY <1>1 DEF Fail, Inv, TypeOK, Alone, Attached, Seated, Bound
  <2>3. QED
    BY <2>1, <2>2 DEF Alone
<1>4. Counted'
  BY <1>1, CountedFrame DEF Fail, Inv
<1>5. Paired'
  BY PairedFrame DEF Fail, Inv
<1>6. QED
  BY <1>2, <1>3, <1>4, <1>5 DEF Inv

(* The ways out: the destructor of the server, the end, or the kill.  What *)
(* they have in common is that the process had the lock, so that no other  *)
(* one serves, and whoever is cut off has no request on its way any more.  *)
LEMMA WayOut ==
  ASSUME Inv, NEW p \in Procs, NEW C, NEW to \in {"unlinked", "none"},
         Moves(p, {"locked"} \cup Bound, to), Disconnect(C),
         to = "none" => C = ConnectedTo(p) /\ lock' = Nobody,
         to = "unlinked" => pc[p] # "locked" /\ lock' = lock,
         file' \in {file, Nobody, Stale},
         UNCHANGED <<score, autostart, phase, tries, asked, replies>>
  PROVE  Inv'
<1>1. /\ pc' \in [Procs -> ProcStates] /\ pc[p] \in {"locked"} \cup Bound /\ pc'[p] = to
      /\ \A q \in Procs : q # p => pc'[q] = pc[q]
  BY MovesRight DEF Inv, ProcStates
<1>2. lock = p /\ \A q \in Procs : q # p => pc[q] \notin {"locked"} \cup Bound
  BY <1>1 DEF Inv, Alone, Locked
<1>3. /\ peer' \in [Clients -> Procs \cup {Nobody}]
      /\ sessions' \in SUBSET Clients
      /\ requests' \in [Clients -> Seq(Nat)]
      /\ Seated' /\ IsFiniteSet(sessions')
      /\ \A c \in Clients : peer'[c] # Nobody => peer'[c] = peer[c] /\ c \notin C
  BY DisconnectRight DEF Inv, Alone, Counted
<1>4. TypeOK'
  BY <1>1, <1>2, <1>3 DEF Inv, TypeOK
<1>5. Locked'
  BY <1>1, <1>2, NamesAssumption DEF Locked, Bound
<1>6. Owned'
  BY <1>1, <1>2 DEF Owned, Listening, Bound
<1>7. Attached'
  BY <1>1, <1>2, <1>3, NamesAssumption DEF Inv, TypeOK, Alone, Attached, ConnectedTo, Bound
<1>8. Counted'
  BY <1>1, <1>2, <1>3 DEF Counted, Bound
<1>9. Paired'
  BY DisconnectPaired DEF Inv
<1>10. QED
  BY <1>3, <1>4, <1>5, <1>6, <1>7, <1>8, <1>9 DEF Inv, Alone

LEMMA DestroyServerInv ==
  ASSUME Inv, NEW p \in Procs, DestroyServer(p)
  PROVE  Inv'
<1>1. Moves(p, {"locked"} \cup Bound, "unlinked") /\ pc[p] # "locked"
  BY DEF DestroyServer, Moves, Bound
<1>2. QED
  BY <1>1, WayOut DEF DestroyServer

LEMMA ExitInv ==
  ASSUME Inv, NEW p \in Procs, Exit(p)
  PROVE  Inv'
<1>1. Moves(p, {"locked"} \cup Bound, "none")
  BY DEF Exit, Moves, Bound
<1>2. QED
  BY <1>1, WayOut DEF Exit

LEMMA CrashInv ==
  ASSUME Inv, NEW p \in Procs, Crash(p)
  PROVE  Inv'
<1>1. Moves(p, {"locked"} \cup Bound, "none")
  BY DEF Crash, Moves, Bound, ProcStates
<1>2. file' \in {file, Nobody, Stale}
  BY DEF Crash
<1>3. QED
  BY <1>1, <1>2, WayOut DEF Crash

-----------------------------------------------------------------------------
(* The sessions.  Only the process with the lock has any, so one that      *)
(* begins or ends changes the count of the only process that counts.       *)

LEMMA OnlyServer ==
  ASSUME Inv, NEW p \in Procs, pc[p] = "serving"
  PROVE  lock = p /\ \A q \in Procs : q # p => pc[q] \notin {"locked"} \cup Bound
BY DEF Inv, Alone, Locked, Bound

LEMMA AcceptInv ==
  ASSUME Inv, NEW p \in Procs, NEW c \in Clients, Accept(p, c)
  PROVE  Inv'
<1>1. TypeOK'
  BY DEF Accept, Inv, TypeOK
<1>2. Alone'
  <2>1. Locked' /\ Owned' /\ Attached'
    BY DEF Accept, Inv, Alone, Locked, Owned, Attached, Listening
  <2>2. Seated'
    BY NamesAssumption DEF Accept, Inv, Alone, Seated
  <2>3. QED
    BY <2>1, <2>2 DEF Alone
<1>3. Counted'
  <2>1. IsFiniteSet(sessions) /\ score = Cardinality(sessions)
    BY DEF Accept, Inv, Counted
  <2>2. IsFiniteSet(sessions') /\ Cardinality(sessions') = Cardinality(sessions) + 1
    BY <2>1, FS_AddElement DEF Accept
  <2>3. score' = Cardinality(sessions')
    BY <2>1, <2>2 DEF Accept
  <2>4. QED
    BY <2>2, <2>3 DEF Counted
<1>4. Paired'
  BY PairedFrame DEF Accept, Inv
<1>5. QED
  BY <1>1, <1>2, <1>3, <1>4 DEF Inv

(* The end of a session, whatever ended it.                                *)
LEMMA CleanupRight ==
  ASSUME Inv, NEW p \in Procs, NEW c \in Clients,
         pc[p] = "serving", peer[c] = p, c \in sessions, Cleanup(p, c),
         UNCHANGED <<lock, file, autostart, phase, tries, asked, replies>>
  PROVE  /\ Inv'
         /\ \A q \in Procs : pc[q] = "serving" /\ pc'[q] = "stopped" => sessions' = {}
<1>1. /\ peer' \in [Clients -> Procs \cup {Nobody}]
      /\ sessions' \in SUBSET Clients
      /\ requests' \in [Clients -> Seq(Nat)]
      /\ Seated' /\ IsFiniteSet(sessions')
      /\ \A d \in Clients : peer'[d] # Nobody => peer'[d] = peer[d] /\ d \notin {c}
  BY DisconnectRight DEF Cleanup, Inv, Alone, Counted
<1>2. /\ IsFiniteSet(sessions) /\ score = Cardinality(sessions)
      /\ sessions' = sessions \ {c}
  BY DEF Inv, Counted, Cleanup, Disconnect
<1>3. Cardinality(sessions') = score - 1 /\ score' = Cardinality(sessions')
  BY <1>2, FS_RemoveElement DEF Cleanup
<1>4. score' \in Nat
  BY <1>1, <1>3, FS_CardinalityType
<1>5. /\ pc' \in [Procs -> ProcStates]
      /\ pc'[p] \in {"serving", "stopped"}
      /\ \A q \in Procs : q # p => pc'[q] = pc[q]
      /\ pc'[p] = "stopped" => score = 1
  BY DEF Cleanup, Inv, TypeOK, ProcStates
<1>6. TypeOK'
  BY <1>1, <1>4, <1>5 DEF Inv, TypeOK
<1>7. Alone'
  <2>1. Locked' /\ Owned'
    BY <1>5 DEF Inv, Alone, Locked, Owned, Listening, Bound
  <2>2. Attached'
    BY <1>1, <1>5, NamesAssumption DEF Inv, TypeOK, Alone, Attached, Bound
  <2>3. QED
    BY <1>1, <2>1, <2>2 DEF Alone
<1>8. Counted'
  BY <1>1, <1>3 DEF Counted
<1>9. Paired'
  BY DisconnectPaired DEF Cleanup, Inv
<1>10. ASSUME NEW q \in Procs, pc[q] = "serving", pc'[q] = "stopped"
       PROVE  sessions' = {}
  <2>1. q = p
    BY <1>5, <1>10
  <2>2. Cardinality(sessions') = 0
    BY <1>3, <1>5, <1>10, <2>1
  <2>3. QED
    BY <1>1, <2>2, FS_EmptySet
<1>11. QED
  BY <1>6, <1>7, <1>8, <1>9, <1>10 DEF Inv

(* A request that is read and answered is the one the client waits for.    *)
LEMMA ServeInv ==
  ASSUME Inv, NEW p \in Procs, NEW c \in Clients, Serve(p, c)
  PROVE  Inv'
<1>1. CASE ~Open(c)
  BY <1>1, CleanupRight DEF Serve
<1>2. CASE Open(c)
  <2>1. /\ requests' = [requests EXCEPT ![c] = Tail(@)]
        /\ replies' = [replies EXCEPT ![c] = Append(@, Head(requests[c]))]
        /\ UNCHANGED <<pc, peer, sessions, score, lock, file, autostart, phase, tries, asked>>
    BY <1>2 DEF Serve
  <2>2. requests[c] \in Seq(Nat) /\ replies[c] \in Seq(Nat) /\ asked[c] \in Nat
    BY DEF Inv, TypeOK
  <2>3. phase[c] = "waiting" /\ requests[c] = <<asked[c]>> /\ replies[c] = <<>>
    BY <1>2 DEF Serve, Inv, Paired, Open
  <2>4. Tail(requests[c]) = <<>> /\ Append(replies[c], Head(requests[c])) = <<asked[c]>>
    BY <2>2, <2>3
  <2>5. /\ requests' = [requests EXCEPT ![c] = <<>>]
        /\ replies' = [replies EXCEPT ![c] = <<asked[c]>>]
    BY <2>1, <2>4
  <2>6. <<>> \in Seq(Nat) /\ <<asked[c]>> \in Seq(Nat)
    BY <2>2
  <2>7. TypeOK'
    BY <2>1, <2>5, <2>6 DEF Inv, TypeOK
  <2>8. Alone'
    BY <2>1, AloneFrame DEF Inv
  <2>9. Counted'
    BY <2>1, CountedFrame DEF Inv
  <2>10. Paired'
    BY <1>2, <2>1, <2>3, <2>5 DEF Inv, TypeOK, Paired, Open
  <2>11. QED
    BY <2>7, <2>8, <2>9, <2>10 DEF Inv
<1>3. QED
  BY <1>1, <1>2

LEMMA SessionEndsInv ==
  ASSUME Inv, NEW p \in Procs, NEW c \in Clients, SessionEnds(p, c)
  PROVE  Inv'
BY CleanupRight DEF SessionEnds

-----------------------------------------------------------------------------
(* The clients.                                                            *)

LEMMA InitContextInv ==
  ASSUME Inv, NEW c \in Clients, InitContext(c)
  PROVE  Inv'
<1>1. PICK p \in Procs : Moves(p, {"none"}, "starting")
  BY DEF InitContext
<1>2. /\ pc' \in [Procs -> ProcStates] /\ pc[p] = "none" /\ pc'[p] = "starting"
      /\ \A q \in Procs : q # p => pc'[q] = pc[q]
  BY <1>1, MovesRight DEF Inv, ProcStates
<1>3. TypeOK'
  BY <1>2 DEF InitContext, Inv, TypeOK, ClientStates
<1>4. Alone'
  BY <1>2 DEF InitContext, Inv, TypeOK, Alone, Locked, Owned, Attached, Seated, Listening, Bound
<1>5. Counted'
  BY <1>2, CountedFrame DEF InitContext, Inv
<1>6. Paired'
  BY DEF InitContext, Inv, TypeOK, Paired, Open
<1>7. QED
  BY <1>3, <1>4, <1>5, <1>6 DEF Inv

(* What the steps of a client share that change nothing of the processes.  *)
LEMMA ClientStep ==
  ASSUME Inv, TypeOK', Paired', UNCHANGED <<pc, lock, file, score, peer, sessions>>
  PROVE  Inv'
BY AloneFrame, CountedFrame DEF Inv

LEMMA LeaveInv ==
  ASSUME Inv, NEW c \in Clients, Leave(c)
  PROVE  Inv'
<1>1. <<>> \in Seq(Nat)
  OBVIOUS
<1>2. TypeOK'
  BY <1>1 DEF Leave, Close, Inv, TypeOK, ClientStates
<1>3. Paired'
  BY DEF Leave, Close, Inv, TypeOK, Paired, Open
<1>4. QED
  BY <1>2, <1>3, ClientStep DEF Leave

LEMMA ConnectInv ==
  ASSUME Inv, NEW c \in Clients, Connect(c)
  PROVE  Inv'
<1>1. TypeOK'
  BY DEF Connect, CanConnect, Inv, TypeOK, ClientStates
<1>2. Alone'
  <2>1. Locked' /\ Owned'
    BY DEF Connect, Inv, Alone, Locked, Owned, Listening
  <2>2. Attached'
    BY DEF Connect, CanConnect, Inv, TypeOK, Alone, Attached, Listening, Bound
  <2>3. Seated'
    BY NamesAssumption DEF Connect, CanConnect, Inv, TypeOK, Alone, Seated
  <2>4. QED
    BY <2>1, <2>2, <2>3 DEF Alone
<1>3. Counted'
  BY CountedFrame DEF Connect, Inv
<1>4. Paired'
  BY NamesAssumption DEF Connect, CanConnect, Inv, TypeOK, Paired, Open
<1>5. QED
  BY <1>1, <1>2, <1>3, <1>4 DEF Inv

LEMMA RefusedInv ==
  ASSUME Inv, NEW c \in Clients, Refused(c)
  PROVE  Inv'
<1>1. TypeOK'
  <2>1. tries' = [tries EXCEPT ![c] = tries[c] + 1] \/ tries' = [tries EXCEPT ![c] = 0]
    BY Zenon DEF Refused
  <2>2. phase' = phase \/ phase' = [phase EXCEPT ![c] = "out"]
    BY Zenon DEF Refused
  <2>3. UNCHANGED <<pc, lock, file, score, autostart, peer, sessions, asked, requests, replies>>
    BY DEF Refused
  <2>4. TypeOK
    BY DEF Inv
  <2>5. tries' \in [Clients -> Nat]
    <3>1. tries \in [Clients -> Nat] /\ tries[c] + 1 \in Nat
      BY <2>4 DEF TypeOK
    <3>2. CASE tries' = [tries EXCEPT ![c] = tries[c] + 1]
      BY <3>1, <3>2
    <3>3. CASE tries' = [tries EXCEPT ![c] = 0]
      BY <3>1, <3>3
    <3>4. QED
      BY <2>1, <3>2, <3>3
  <2>6. phase' \in [Clients -> ClientStates]
    BY <2>2, <2>4 DEF TypeOK, ClientStates
  <2>7. QED
    BY <2>3, <2>4, <2>5, <2>6 DEF TypeOK
<1>2. Paired'
  BY DEF Refused, Inv, TypeOK, Paired, Open
<1>3. QED
  BY <1>1, <1>2, ClientStep DEF Refused

LEMMA PerformInv ==
  ASSUME Inv, NEW c \in Clients, Perform(c)
  PROVE  Inv'
<1>1. requests[c] = <<>> /\ replies[c] = <<>> /\ asked[c] \in Nat
  BY DEF Perform, Inv, TypeOK, Paired
<1>2. Append(requests[c], asked[c] + 1) = <<asked[c] + 1>>
  BY <1>1
<1>3. requests' = IF peer[c] = Nobody THEN requests
                  ELSE [requests EXCEPT ![c] = <<asked[c] + 1>>]
  BY <1>2 DEF Perform
<1>4. asked' \in [Clients -> Nat] /\ asked'[c] = asked[c] + 1
  BY <1>1 DEF Perform, Inv, TypeOK
<1>5. <<asked[c] + 1>> \in Seq(Nat)
  BY <1>1
<1>6. requests' \in [Clients -> Seq(Nat)]
  BY <1>3, <1>5 DEF Inv, TypeOK
<1>7. TypeOK'
  BY <1>4, <1>6 DEF Perform, Inv, TypeOK, ClientStates
<1>8. Paired'
  BY <1>1, <1>3, <1>4 DEF Perform, Inv, TypeOK, Paired, Open
<1>9. QED
  BY <1>7, <1>8, ClientStep DEF Perform

LEMMA ReceiveInv ==
  ASSUME Inv, NEW c \in Clients, Receive(c)
  PROVE  Inv'
<1>1. requests[c] = <<>> /\ replies[c] = <<asked[c]>> /\ asked[c] \in Nat
  BY DEF Receive, Inv, TypeOK, Paired
<1>2. Tail(replies[c]) = <<>>
  BY <1>1
<1>3. replies' = [replies EXCEPT ![c] = <<>>]
  BY <1>2 DEF Receive
<1>4. <<>> \in Seq(Nat)
  OBVIOUS
<1>5. TypeOK'
  BY <1>3, <1>4 DEF Receive, Inv, TypeOK, ClientStates
<1>6. Paired'
  BY <1>1, <1>3 DEF Receive, Inv, TypeOK, Paired, Open
<1>7. QED
  BY <1>5, <1>6, ClientStep DEF Receive

LEMMA TimeoutInv ==
  ASSUME Inv, NEW c \in Clients, Timeout(c)
  PROVE  Inv'
<1>1. <<>> \in Seq(Nat)
  OBVIOUS
<1>2. TypeOK'
  BY <1>1 DEF Timeout, Close, Inv, TypeOK, ClientStates
<1>3. Paired'
  BY DEF Timeout, Close, Inv, TypeOK, Paired, Open
<1>4. QED
  BY <1>2, <1>3, ClientStep DEF Timeout

LEMMA BrokenInv ==
  ASSUME Inv, NEW c \in Clients, Broken(c)
  PROVE  Inv'
<1>1. TypeOK'
  BY DEF Broken, Inv, TypeOK, ClientStates
<1>2. Paired'
  BY DEF Broken, Inv, TypeOK, Paired, Open
<1>3. QED
  BY <1>1, <1>2, ClientStep DEF Broken

LEMMA SetAutostartInv ==
  ASSUME Inv, NEW c \in Clients, SetAutostart(c)
  PROVE  Inv'
<1>1. TypeOK'
  BY DEF SetAutostart, Inv, TypeOK
<1>2. Paired'
  BY PairedFrame DEF SetAutostart, Inv
<1>3. QED
  BY <1>1, <1>2, ClientStep DEF SetAutostart

-----------------------------------------------------------------------------
LEMMA InitInv == Init => Inv
<1> SUFFICES ASSUME Init PROVE Inv
  OBVIOUS
<1>1. <<>> \in Seq(Nat)
  OBVIOUS
<1>2. TypeOK
  BY <1>1 DEF Init, TypeOK, ProcStates, ClientStates
<1>3. Alone
  BY NamesAssumption DEF Init, Alone, Locked, Owned, Attached, Seated, Listening, Bound
<1>4. Counted
  BY FS_EmptySet DEF Init, Counted
<1>5. Paired
  BY DEF Init, Paired, Open
<1>6. QED
  BY <1>2, <1>3, <1>4, <1>5 DEF Inv

LEMMA NextInv == Inv /\ [Next]_vars => Inv'
<1> SUFFICES ASSUME Inv, [Next]_vars PROVE Inv'
  OBVIOUS
<1>1. CASE UNCHANGED vars
  <2>1. TypeOK'
    BY <1>1 DEF vars, Inv, TypeOK
  <2>2. Paired'
    BY <1>1, PairedFrame DEF vars, Inv
  <2>3. QED
    BY <1>1, <2>1, <2>2, ClientStep DEF vars
<1>2. ASSUME NEW p \in Procs, Boot(p) \/ Main(p) \/ Fail(p) \/ Crash(p) PROVE Inv'
  BY <1>2, BootInv, TryLockInv, BindInv, EmployInv, DestroyServerInv, ExitInv, FailInv,
     CrashInv DEF Main
<1>3. ASSUME NEW p \in Procs, NEW c \in Clients, Session(p, c) PROVE Inv'
  BY <1>3, AcceptInv, ServeInv, SessionEndsInv DEF Session
<1>4. ASSUME NEW c \in Clients, Client(c) PROVE Inv'
  BY <1>4, InitContextInv, ConnectInv, RefusedInv, PerformInv, ReceiveInv, TimeoutInv,
     BrokenInv, SetAutostartInv, LeaveInv DEF Client
<1>5. QED
  BY <1>1, <1>2, <1>3, <1>4, Zenon DEF Next

LEMMA InvHolds == Spec => []Inv
BY InitInv, NextInv, PTL DEF Spec

(* The variables have their types: in particular m_score, which every end  *)
(* of a session decrements, never gets below zero.                         *)
THEOREM SlipwayTypeCorrect == Spec => []TypeOK
<1>1. Inv => TypeOK
  BY DEF Inv
<1>2. QED
  BY <1>1, InvHolds, PTL

(* However many backends are started, killed or on their way out, the      *)
(* socket file is the one of the process that serves.                      *)
THEOREM SocketIsItsOwn == Spec => []SocketIsOwn
<1>1. Inv => SocketIsOwn
  BY DEF Inv, Alone, Owned, Listening, SocketIsOwn
<1>2. QED
  BY <1>1, InvHolds, PTL

(* Without a number in the messages, a reply is never taken for the answer *)
(* to another request, whenever timers expire and processes die.           *)
THEOREM RepliesMatch == Spec => []ReplyMatches
<1>1. ASSUME Inv PROVE ReplyMatches
  <2>1. SUFFICES ASSUME NEW c \in Clients, phase[c] = "waiting", replies[c] # <<>>
                 PROVE  Head(replies[c]) = asked[c]
    BY DEF ReplyMatches
  <2>2. replies[c] = <<asked[c]>>
    BY <1>1, <2>1 DEF Inv, Paired
  <2>3. QED
    BY <2>2
<1>2. QED
  BY <1>1, InvHolds, PTL

(* The count of sessions brings the backend down with the last of them and *)
(* never before, for any number of clients.                                *)
THEOREM LastSessionStops == Spec => StopsWithLastSession
<1> DEFINE Stop == \A p \in Procs : pc[p] = "serving" /\ pc'[p] = "stopped" => sessions' = {}
<1>1. ASSUME Inv, [Next]_vars PROVE [Stop]_vars
  <2>1. CASE UNCHANGED vars
    BY <2>1
  <2>2. ASSUME NEW q \in Procs, Boot(q) \/ Main(q) \/ Fail(q) \/ Crash(q) PROVE Stop
    <3>1. \A p \in Procs : pc'[p] = "stopped" => pc[p] = "stopped"
      BY <1>1, <2>2 DEF Inv, TypeOK, Main, Boot, TryLock, Bind, Employ, DestroyServer, Exit,
         Fail, Crash, Moves
    <3>2. QED
      BY <3>1
  <2>3. ASSUME NEW q \in Procs, NEW c \in Clients, Session(q, c) PROVE Stop
    <3>1. CASE Accept(q, c)
      BY <3>1 DEF Accept
    <3>2. CASE Serve(q, c)
      BY <1>1, <3>2, CleanupRight DEF Serve
    <3>3. CASE SessionEnds(q, c)
      BY <1>1, <3>3, CleanupRight DEF SessionEnds
    <3>4. QED
      BY <2>3, <3>1, <3>2, <3>3 DEF Session
  <2>4. ASSUME NEW c \in Clients, Client(c) PROVE Stop
    <3>1. \A p \in Procs : pc'[p] = "stopped" => pc[p] = "stopped"
      BY <1>1, <2>4 DEF Inv, TypeOK, Client, InitContext, Connect, Refused, Perform, Receive,
         Timeout, Broken, SetAutostart, Leave, Moves
    <3>2. QED
      BY <3>1
  <2>5. QED
    BY <1>1, <2>1, <2>2, <2>3, <2>4, Zenon DEF Next
<1>2. [][Stop]_vars => StopsWithLastSession
  BY PTL DEF StopsWithLastSession
<1>3. QED
  BY <1>1, <1>2, InvHolds, PTL DEF Spec

=============================================================================

------------------------------ MODULE Slipway ------------------------------
(***************************************************************************)
(* The life of the backend process and of the clients that talk to it      *)
(* (backend/main.cpp, class server_impl of server.cpp, client.cpp, and     *)
(* InitContext of ui/context.cpp, which starts both ends).                 *)
(*                                                                         *)
(* A process takes the file lock, binds the socket file, engages the       *)
(* services and accepts clients; the last session to end stops it unless   *)
(* it is in the autostart table.  On its way out it unlinks the socket     *)
(* file, closes what it has and only then releases the lock.  A client     *)
(* retries the connection, sends one request at a time and closes its      *)
(* socket for good when a reply doesn't come in time.                      *)
(*                                                                         *)
(* What a request does to the services is not here (see Connector for one  *)
(* of them): a request is a number, and its reply is the same number.      *)
(***************************************************************************)
EXTENDS Integers, Sequences, FiniteSets

CONSTANTS
  Procs,        \* process slots; bounds the backends alive at a time
  Clients,      \* client objects, one for each process of the UI
  MAX_ATTEMPTS, \* connection attempts of one client object (5 in the code)
  MaxRequests,  \* bound on the requests of one client object
  Nobody,       \* the lock is free; the socket file is absent; no connection
  Stale         \* the socket file is left over from a process that was killed

ASSUME NamesAssumption ==
  Nobody \notin Procs /\ Stale \notin Procs /\ Nobody # Stale
ASSUME BoundsAssumption == MAX_ATTEMPTS \in Nat \ {0} /\ MaxRequests \in Nat

VARIABLES
  pc,        \* pc[p]: how far main() of p is
  lock,      \* who holds slipway.lock
  file,      \* whose socket the socket file is
  score,     \* m_score of the process that serves
  autostart, \* the backend is in the autostart table
  phase,     \* phase[c]: what the client is doing
  tries,     \* tries[c]: failed attempts of the constructor
  peer,      \* peer[c]: the process that has the other end of the connection
  sessions,  \* connections that were accepted and have a session
  asked,     \* asked[c]: number of the last request
  requests,  \* requests[c]: what the process hasn't read
  replies    \* replies[c]: what the client hasn't read

vars == <<pc, lock, file, score, autostart, phase, tries, peer, sessions, asked,
          requests, replies>>

-----------------------------------------------------------------------------
(* "starting" before the lock, "locked" with it, "bound" after the          *)
(* constructor of the server, "serving" inside io.run; "stopped" after      *)
(* io.stop and "failed" after an exception lead to "unlinked", with the     *)
(* server destroyed; "none" is no process at all.                           *)
ProcStates ==
  {"none", "starting", "locked", "bound", "serving", "stopped", "failed", "unlinked"}

(* "trying": in the constructor; "waiting": in perform; "closed": the       *)
(* socket is closed or useless, and remains so.                             *)
ClientStates == {"out", "trying", "idle", "waiting", "closed"}

TypeOK ==
  /\ pc \in [Procs -> ProcStates]
  /\ lock \in Procs \cup {Nobody}
  /\ file \in Procs \cup {Nobody, Stale}
  /\ score \in Nat
  /\ autostart \in BOOLEAN
  /\ phase \in [Clients -> ClientStates]
  /\ tries \in [Clients -> Nat]
  /\ peer \in [Clients -> Procs \cup {Nobody}]
  /\ sessions \in SUBSET Clients
  /\ asked \in [Clients -> Nat]
  /\ requests \in [Clients -> Seq(Nat)]
  /\ replies \in [Clients -> Seq(Nat)]

\* The client's end of the connection is open.
Open(c) == phase[c] \in {"idle", "waiting"}

\* The process has its listening socket.
Listening(p) == pc[p] \in {"bound", "serving", "stopped", "failed"}

Init ==
  /\ pc = [p \in Procs |-> "none"]
  /\ lock = Nobody
  /\ file = Nobody
  /\ score = 0
  /\ autostart \in BOOLEAN
  /\ phase = [c \in Clients |-> "out"]
  /\ tries = [c \in Clients |-> 0]
  /\ peer = [c \in Clients |-> Nobody]
  /\ sessions = {}
  /\ asked = [c \in Clients |-> 0]
  /\ requests = [c \in Clients |-> <<>>]
  /\ replies = [c \in Clients |-> <<>>]

-----------------------------------------------------------------------------
(* backend/main.cpp *)

Moves(p, from, to) == pc[p] \in from /\ pc' = [pc EXCEPT ![p] = to]

(* The process closes its ends of the connections in C: the clients will    *)
(* read what was written, and then an end of file.                          *)
Disconnect(C) ==
  /\ peer' = [c \in Clients |-> IF c \in C THEN Nobody ELSE peer[c]]
  /\ sessions' = sessions \ C
  /\ requests' = [c \in Clients |-> IF c \in C THEN <<>> ELSE requests[c]]

ConnectedTo(p) == {c \in Clients : peer[c] = p}

(* The autostart entry starts the program. *)
Boot(p) ==
  /\ autostart
  /\ Moves(p, {"none"}, "starting")
  /\ UNCHANGED <<lock, file, score, autostart, phase, tries, peer, sessions, asked,
                 requests, replies>>

(* Faulty variant: a process releases the lock when it leaves io.run. *)
TryLockEarly(p) ==
  /\ \/ /\ lock \in {Nobody} \cup {q \in Procs : pc[q] = "stopped"}
        /\ lock' = p
        /\ Moves(p, {"starting"}, "locked")
     \/ lock # Nobody /\ UNCHANGED lock /\ Moves(p, {"starting"}, "none")
  /\ UNCHANGED <<file, score, autostart, phase, tries, peer, sessions, asked,
                 requests, replies>>

(* try_to_lock; exit code 4 when another process holds the lock. *)
TryLock(p) ==
  /\ \/ lock = Nobody /\ lock' = p /\ Moves(p, {"starting"}, "locked")
     \/ lock # Nobody /\ UNCHANGED lock /\ Moves(p, {"starting"}, "none")
  /\ UNCHANGED <<file, score, autostart, phase, tries, peer, sessions, asked,
                 requests, replies>>

(* The constructor of server_impl: unlink, bind, listen. *)
Bind(p) ==
  /\ Moves(p, {"locked"}, "bound")
  /\ file' = p
  /\ score' = 0
  /\ UNCHANGED <<lock, autostart, phase, tries, peer, sessions, asked, requests, replies>>

(* employ() engages the services, and throws when that is impossible. *)
Employ(p) ==
  /\ Moves(p, {"bound"}, "serving") \/ Moves(p, {"bound"}, "failed")
  /\ UNCHANGED <<lock, file, score, autostart, phase, tries, peer, sessions, asked,
                 requests, replies>>

(* An exception leaves io.run: of accept, or of a carrier that can't start. *)
Fail(p) ==
  /\ Moves(p, {"serving"}, "failed")
  /\ UNCHANGED <<lock, file, score, autostart, phase, tries, peer, sessions, asked,
                 requests, replies>>

(* ~server_impl: unlink, and the acceptor closes with its backlog. *)
DestroyServer(p) ==
  /\ Moves(p, {"stopped", "failed"}, "unlinked")
  /\ file' = Nobody
  /\ Disconnect(ConnectedTo(p) \ sessions)
  /\ UNCHANGED <<lock, score, autostart, phase, tries, asked, replies>>

(* The io_context goes with the sockets of the sessions, then the lock. *)
Exit(p) ==
  /\ Moves(p, {"unlinked"}, "none")
  /\ lock' = Nobody
  /\ Disconnect(ConnectedTo(p))
  /\ UNCHANGED <<file, score, autostart, phase, tries, asked, replies>>

(* The process is killed: the system releases the lock, the file stays. *)
Crash(p) ==
  /\ Moves(p, ProcStates \ {"none", "starting"}, "none")
  /\ lock' = Nobody
  /\ file' = IF file = p THEN Stale ELSE file
  /\ Disconnect(ConnectedTo(p))
  /\ UNCHANGED <<score, autostart, phase, tries, asked, replies>>

-----------------------------------------------------------------------------
(* server_impl: accept, handle and its cleanup *)

(* Faulty variant: accept and handle both count the session. *)
AcceptTwice(p, c) ==
  /\ pc[p] = "serving"
  /\ peer[c] = p /\ c \notin sessions
  /\ sessions' = sessions \cup {c}
  /\ score' = score + 2
  /\ UNCHANGED <<pc, lock, file, autostart, phase, tries, peer, asked, requests, replies>>

(* Faulty variant: only the first session is counted. *)
AcceptOnce(p, c) ==
  /\ pc[p] = "serving"
  /\ peer[c] = p /\ c \notin sessions
  /\ sessions' = sessions \cup {c}
  /\ score' = 1
  /\ UNCHANGED <<pc, lock, file, autostart, phase, tries, peer, asked, requests, replies>>

Accept(p, c) ==
  /\ pc[p] = "serving"
  /\ peer[c] = p /\ c \notin sessions
  /\ sessions' = sessions \cup {c}
  /\ score' = score + 1
  /\ UNCHANGED <<pc, lock, file, autostart, phase, tries, peer, asked, requests, replies>>

(* cleanup: the last session stops the io_context. *)
Cleanup(p, c) ==
  /\ score' = score - 1
  /\ pc' = IF score = 1 /\ ~autostart THEN [pc EXCEPT ![p] = "stopped"] ELSE pc
  /\ Disconnect({c})

(* A request is read, complied with and answered.  It is complied with even *)
(* if the client closed its end meanwhile; then the write fails.            *)
Serve(p, c) ==
  /\ pc[p] = "serving"
  /\ peer[c] = p /\ c \in sessions
  /\ requests[c] # <<>>
  /\ IF Open(c)
       THEN /\ requests' = [requests EXCEPT ![c] = Tail(@)]
            /\ replies' = [replies EXCEPT ![c] = Append(@, Head(requests[c]))]
            /\ UNCHANGED <<pc, peer, sessions, score>>
       ELSE /\ Cleanup(p, c)
            /\ UNCHANGED replies
  /\ UNCHANGED <<lock, file, autostart, phase, tries, asked>>

(* Faulty variant: the session waits for the next request after any error. *)
SessionLoops(p, c) ==
  /\ pc[p] = "serving"
  /\ peer[c] = p /\ c \in sessions
  /\ ~Open(c)
  /\ requests[c] = <<>>
  /\ UNCHANGED vars

(* The session reads the end of file of a client that is gone. *)
SessionEnds(p, c) ==
  /\ pc[p] = "serving"
  /\ peer[c] = p /\ c \in sessions
  /\ ~Open(c)
  /\ requests[c] = <<>>
  /\ Cleanup(p, c)
  /\ UNCHANGED <<lock, file, autostart, phase, tries, asked, replies>>

-----------------------------------------------------------------------------
(* client_impl, and InitContext that starts a backend before it connects *)

(* The slots of Clients stand for different objects in time: a slot is free *)
(* when the connection of the last one is gone from the process too.        *)
InitContext(c) ==
  /\ phase[c] = "out"
  /\ peer[c] = Nobody
  /\ phase' = [phase EXCEPT ![c] = "trying"]
  /\ \E p \in Procs : Moves(p, {"none"}, "starting")
  /\ UNCHANGED <<lock, file, score, autostart, tries, peer, sessions, asked, requests,
                 replies>>

(* The client's end is closed, with what came and wasn't read. *)
Close(c, next) ==
  /\ phase' = [phase EXCEPT ![c] = next]
  /\ replies' = [replies EXCEPT ![c] = <<>>]

(* The client object is destroyed (its process ends), at any time. *)
Leave(c) ==
  /\ phase[c] # "out"
  /\ Close(c, "out")
  /\ tries' = [tries EXCEPT ![c] = 0]
  /\ asked' = [asked EXCEPT ![c] = 0]
  /\ UNCHANGED <<pc, lock, file, score, autostart, peer, sessions, requests>>

CanConnect == file \in Procs /\ Listening(file)

Connect(c) ==
  /\ phase[c] = "trying"
  /\ CanConnect
  /\ phase' = [phase EXCEPT ![c] = "idle"]
  /\ tries' = [tries EXCEPT ![c] = 0]
  /\ peer' = [peer EXCEPT ![c] = file]
  /\ UNCHANGED <<pc, lock, file, score, autostart, sessions, asked, requests, replies>>

(* No file or nobody behind it: after a pause the constructor tries again,  *)
(* and the last failure leaves it by exception.                             *)
Refused(c) ==
  /\ phase[c] = "trying"
  /\ ~CanConnect
  /\ IF tries[c] + 1 < MAX_ATTEMPTS
       THEN /\ tries' = [tries EXCEPT ![c] = @ + 1]
            /\ UNCHANGED phase
       ELSE /\ tries' = [tries EXCEPT ![c] = 0]
            /\ phase' = [phase EXCEPT ![c] = "out"]
  /\ UNCHANGED <<pc, lock, file, score, autostart, peer, sessions, asked, requests, replies>>

(* perform() writes the request.  If the process is gone, this or the read  *)
(* that follows fails: see Broken.                                          *)
Perform(c) ==
  /\ phase[c] = "idle"
  /\ asked[c] < MaxRequests
  /\ phase' = [phase EXCEPT ![c] = "waiting"]
  /\ asked' = [asked EXCEPT ![c] = @ + 1]
  /\ requests' = IF peer[c] = Nobody THEN requests
                 ELSE [requests EXCEPT ![c] = Append(@, asked[c] + 1)]
  /\ UNCHANGED <<pc, lock, file, score, autostart, tries, peer, sessions, replies>>

(* The reply is read.  If the timer expired at the same time its handler is *)
(* queued already, cancel() doesn't reach it, and the socket is closed      *)
(* after a success.                                                         *)
Receive(c) ==
  /\ phase[c] = "waiting"
  /\ replies[c] # <<>>
  /\ replies' = [replies EXCEPT ![c] = Tail(@)]
  /\ \E next \in {"idle", "closed"} : phase' = [phase EXCEPT ![c] = next]
  /\ UNCHANGED <<pc, lock, file, score, autostart, tries, peer, sessions, asked, requests>>

(* Faulty variant: perform() gives up and the socket stays in use. *)
TimeoutKeeps(c) ==
  /\ phase[c] = "waiting"
  /\ phase' = [phase EXCEPT ![c] = "idle"]
  /\ UNCHANGED <<pc, lock, file, score, autostart, tries, peer, sessions, asked, requests,
                 replies>>

(* The timer of perform() expires: the socket is closed, pipe_error. *)
Timeout(c) ==
  /\ phase[c] = "waiting"
  /\ Close(c, "closed")
  /\ UNCHANGED <<pc, lock, file, score, autostart, tries, peer, sessions, asked, requests>>

(* The process is gone and there is nothing left to read: pipe_error. *)
Broken(c) ==
  /\ phase[c] = "waiting"
  /\ peer[c] = Nobody
  /\ replies[c] = <<>>
  /\ phase' = [phase EXCEPT ![c] = "closed"]
  /\ UNCHANGED <<pc, lock, file, score, autostart, tries, peer, sessions, asked, requests,
                 replies>>

(* The UI that has the client changes the autostart table. *)
SetAutostart(c) ==
  /\ phase[c] \in {"idle", "closed"}
  /\ autostart' = ~autostart
  /\ UNCHANGED <<pc, lock, file, score, phase, tries, peer, sessions, asked, requests,
                 replies>>

-----------------------------------------------------------------------------
Main(p) == TryLock(p) \/ Bind(p) \/ Employ(p) \/ DestroyServer(p) \/ Exit(p)

Session(p, c) == Accept(p, c) \/ Serve(p, c) \/ SessionEnds(p, c)

Client(c) ==
  \/ InitContext(c) \/ Connect(c) \/ Refused(c) \/ Perform(c) \/ Receive(c)
  \/ Timeout(c) \/ Broken(c) \/ SetAutostart(c) \/ Leave(c)

Next ==
  \/ \E p \in Procs : Boot(p) \/ Main(p) \/ Fail(p) \/ Crash(p)
  \/ \E p \in Procs, c \in Clients : Session(p, c)
  \/ \E c \in Clients : Client(c)

Spec == Init /\ [][Next]_vars

(* A process that runs gets on with main() and with its sessions.  Nobody   *)
(* has to start a program, to ask or to leave.                              *)
Fairness ==
  /\ \A p \in Procs : WF_vars(Main(p))
  /\ \A p \in Procs, c \in Clients : WF_vars(Session(p, c))

FairSpec == Spec /\ Fairness

-----------------------------------------------------------------------------
(* Properties. *)

(* The socket file is the one of the process that serves: what a process    *)
(* unlinks, at its start for the sake of a killed one and at its end, is    *)
(* never the socket of another.                                             *)
SocketIsOwn == \A p \in Procs : pc[p] \in {"bound", "serving"} => file = p

(* server.h:20-22: the backend runs until the last session is destroyed, so *)
(* it does not stop while another session is being served.                  *)
StopsWithLastSession ==
  [][\A p \in Procs : pc[p] = "serving" /\ pc'[p] = "stopped" => sessions' = {}]_vars

(* The reply a client is about to read answers the request it waits for,    *)
(* though replies carry no number: one that comes after its timeout must    *)
(* find the socket closed.                                                  *)
ReplyMatches ==
  \A c \in Clients :
    phase[c] = "waiting" /\ replies[c] # <<>> => Head(replies[c]) = asked[c]

(* A backend outside the autostart table goes when its clients have left,   *)
(* unless another comes: the count of sessions really gets to zero, with    *)
(* clients that close in any state and connections nobody accepted yet.     *)
Abandoned(p) ==
  /\ pc[p] = "serving"
  /\ ~autostart
  /\ ConnectedTo(p) # {}
  /\ \A c \in Clients : phase[c] = "out"

LeavesAfterClients ==
  \A p \in Procs :
    Abandoned(p) ~> (pc[p] # "serving" \/ \E c \in Clients : phase[c] # "out")

(* A connection whose client is gone does not stay in the process. *)
SessionsEnd ==
  \A c \in Clients : (peer[c] # Nobody /\ ~Open(c)) ~> (peer[c] = Nobody)
============================================================================

----------------------------- MODULE Connector -----------------------------
(***************************************************************************)
(* One connector of the backend (server.cpp, classes spawner, connector):  *)
(* what keeps the service of ONE pier alive.                               *)
(*                                                                         *)
(* Two threads meet here.  The main io_context runs the handlers of the    *)
(* connector: the requests (restart, suspend), the handlers the spawner    *)
(* posted, the retry timer and the exits of the carriers.  The spawner     *)
(* thread runs plexus, which calls connect or fallback; those callbacks    *)
(* lock the weak pointer to the connector and post a handler to the main   *)
(* io_context.  complete() stops the spawner's io_context and joins the    *)
(* thread: a main handler that calls it waits for a callback under way,    *)
(* which is why those actions require ~Calling.                            *)
(*                                                                         *)
(* inbox is the queue of the main io_context.  A timer that expired has    *)
(* its handler in the queue and cancel() no longer reaches it, so it is an *)
(* entry like any other.  Exits of carriers come from SIGCHLD and are kept *)
(* apart, in exits, since their order relative to the posts is free.       *)
(***************************************************************************)
EXTENDS Integers, Sequences, FiniteSets

CONSTANTS
  Local,        \* service.local: TRUE is an export (accept), FALSE an import (invite)
  Pids,         \* process ids; bounds the tunnels of the connector
  MaxRestarts,  \* bound on the restarts of the connector
  MaxInbox      \* bound on the entries of inbox the spawner and the timer may create

ASSUME LocalAssumption  == Local \in BOOLEAN
ASSUME BoundsAssumption == MaxRestarts \in Nat /\ MaxInbox \in Nat

VARIABLES
  backend,  \* "up", "failed" (an exception left io.run) or "aborted" (std::terminate)
  epoch,    \* number of restarts so far, which is the version of m_config and m_service
  inst,     \* the connector object, named by the epoch it was created in
  held,     \* m_bundle holds the connector
  orphan,   \* a released connector lives on in a callback of its own spawner thread
  spawner,  \* where the thread of m_spawner is
  inbox,    \* handlers queued in the main io_context
  armed,    \* m_timer has a pending wait
  error,    \* m_error is not empty
  tunnels,  \* m_tunnels
  exits,    \* on_exit handlers that are due
  missed    \* history: the last retry left an acceptor alone that was on its way out

vars == <<backend, epoch, inst, held, orphan, spawner, inbox, armed, error, tunnels, exits,
          missed>>

-----------------------------------------------------------------------------
(* "run": inside plexus; "connect", "fallback": inside that callback, with  *)
(* a strong reference to the connector; "failing": the same in the catch    *)
(* of the thread, after m_io->stop(); "ending": plexus gave up accepting,   *)
(* but io.run has not returned; "off": no thread, or a finished one.        *)
SpawnerStates == {"off", "run", "connect", "fallback", "failing", "ending"}

Kinds == {"connect", "fallback", "retry"}

\* made: the epoch of the configuration the entry comes from
Entry == [kind : Kinds, inst : Nat, made : Nat]

\* conf: the epoch of the configuration the carrier was launched with
Tunnel == [pid : Pids, made : Nat, conf : Nat]

TypeOK ==
  /\ backend \in {"up", "failed", "aborted"}
  /\ epoch \in Nat
  /\ inst \in Nat
  /\ held \in BOOLEAN
  /\ orphan \in BOOLEAN
  /\ spawner \in SpawnerStates
  /\ inbox \in Seq(Entry)
  /\ armed \in BOOLEAN
  /\ error \in BOOLEAN
  /\ tunnels \in SUBSET Tunnel
  /\ exits \in SUBSET [pid : Pids, inst : Nat]
  /\ missed \in BOOLEAN

\* spawner::active: there is an io_context and it isn't stopped
Active == spawner \in {"run", "connect", "fallback", "ending"}

\* The thread is in a callback: complete() has to wait for it.
Calling == spawner \in {"connect", "fallback", "failing"}

\* weak.lock() succeeds in a handler of connector i
Alive(i) == held /\ i = inst

PidsInUse == {t.pid : t \in tunnels}

\* Tunnels there are, or will be when the queued contracts are launched.
Expected == Cardinality(tunnels)
              + Cardinality({i \in DOMAIN inbox : inbox[i].kind = "connect"})

-----------------------------------------------------------------------------
(* The process starts with an empty pool. *)
Init ==
  /\ backend = "up"
  /\ epoch = 0
  /\ inst = 0
  /\ held = FALSE
  /\ orphan = FALSE
  /\ spawner = "off"
  /\ inbox = <<>>
  /\ armed = FALSE
  /\ error = FALSE
  /\ tunnels = {}
  /\ exits = {}
  /\ missed = FALSE

(* The process ends: nothing is left of what it had in memory. *)
ProcessEnds ==
  /\ held' = FALSE
  /\ orphan' = FALSE
  /\ spawner' = "off"
  /\ inbox' = <<>>
  /\ armed' = FALSE
  /\ error' = FALSE
  /\ tunnels' = {}
  /\ exits' = {}
  /\ missed' = FALSE
  /\ UNCHANGED <<epoch, inst>>

(* Faulty variant: the restart gives up the tunnels there are. *)
RestartDropsTunnels ==
  /\ backend = "up"
  /\ epoch < MaxRestarts
  /\ ~Calling
  /\ epoch' = epoch + 1
  /\ inst' = IF held THEN inst ELSE epoch + 1
  /\ held' = TRUE
  /\ armed' = FALSE
  /\ error' = FALSE
  /\ spawner' = "run"
  /\ tunnels' = {}
  /\ missed' = FALSE
  /\ UNCHANGED <<backend, orphan, inbox, exits>>

(* controller::restart for this pier: the connector is created when the     *)
(* bundle has none.  An import with a live tunnel gets its new spawner but  *)
(* does not start it, and keeps its error.                                  *)
Restart ==
  /\ backend = "up"
  /\ epoch < MaxRestarts
  /\ ~Calling
  /\ epoch' = epoch + 1
  /\ inst' = IF held THEN inst ELSE epoch + 1
  /\ held' = TRUE
  /\ armed' = FALSE
  /\ IF Local \/ tunnels = {}
       THEN error' = FALSE /\ spawner' = "run"
       ELSE UNCHANGED error /\ spawner' = "off"
  /\ missed' = FALSE
  /\ UNCHANGED <<backend, orphan, inbox, tunnels, exits>>

(* controller::suspend, or the erasure of the connector: the last reference *)
(* of the main thread goes.  ~connector cancels the timer, completes the    *)
(* spawner and terminates the carriers.  If the spawner thread is in a      *)
(* callback it holds a reference too, and the destructor will run there.    *)
Suspend ==
  /\ backend = "up"
  /\ held
  /\ held' = FALSE
  /\ orphan' = (orphan \/ Calling)
  /\ spawner' = "off"
  /\ armed' = FALSE
  /\ error' = FALSE
  /\ tunnels' = {}
  /\ missed' = FALSE
  /\ UNCHANGED <<backend, epoch, inst, inbox, exits>>

(* The callback returns.  Its reference is the last one, ~connector runs on  *)
(* the spawner thread, complete() joins the thread it runs on, join throws  *)
(* and the exception leaves a destructor; unless the main thread is running *)
(* a handler of the connector just then (the callback posted one), whose    *)
(* reference outlives the callback's: then the destructor runs there.       *)
OrphanDestroyed ==
  /\ backend = "up"
  /\ orphan
  /\ \/ backend' = "aborted" /\ ProcessEnds
     \/ /\ orphan' = FALSE
        /\ UNCHANGED <<backend, epoch, inst, held, spawner, inbox, armed, error,
                       tunnels, exits, missed>>

(* The backend is started again (by the UI or by the autostart entry). *)
Relaunch ==
  /\ backend # "up"
  /\ backend' = "up"
  /\ UNCHANGED <<epoch, inst, held, orphan, missed, spawner, inbox, armed, error, tunnels, exits>>
-----------------------------------------------------------------------------
(* The spawner thread. *)

(* plexus ends an attempt by calling connect or fallback, and the callback  *)
(* locks the connector.  MaxInbox and Pids bound what may be in flight.     *)
PlexusCalls(callback) ==
  /\ spawner = "run"
  /\ Len(inbox) < MaxInbox
  /\ callback = "connect" => Expected < Cardinality(Pids)
  /\ spawner' = callback
  /\ UNCHANGED <<backend, epoch, inst, held, orphan, missed, inbox, armed, error, tunnels, exits>>

(* Faulty variant: the catch of the thread posts an entry of its own kind. *)
PostUnknown ==
  /\ Calling
  /\ inbox' = Append(inbox, [kind |-> spawner, inst |-> inst, made |-> epoch])
  /\ spawner' = "off"
  /\ UNCHANGED <<backend, epoch, inst, held, orphan, missed, armed, error, tunnels, exits>>

(* The callback posts the handler to the main io_context.  An invite is     *)
(* over then, and nobody asks whether it is active.  An accept goes on, or  *)
(* plexus gives up after a fallback: the handlers of its io_context run out *)
(* and io.run returns, some time after the post.  In the catch of the       *)
(* thread the io_context is stopped, and the thread is over.                *)
Post ==
  /\ Calling
  /\ inbox' = Append(inbox,
                     [kind |-> IF spawner = "connect" THEN "connect" ELSE "fallback",
                      inst |-> inst, made |-> epoch])
  /\ \/ Local /\ spawner # "failing" /\ spawner' = "run"
     \/ Local /\ spawner = "fallback" /\ spawner' = "ending"
     \/ (~Local \/ spawner = "failing") /\ spawner' = "off"
  /\ UNCHANGED <<backend, epoch, inst, held, orphan, missed, armed, error, tunnels, exits>>

(* io.run returns: only now active() says no. *)
ThreadEnds ==
  /\ spawner = "ending"
  /\ spawner' = "off"
  /\ UNCHANGED <<backend, epoch, inst, held, orphan, missed, inbox, armed, error, tunnels, exits>>

-----------------------------------------------------------------------------
(* The handlers of the main io_context. *)

Due(kind) == backend = "up" /\ inbox # <<>> /\ Head(inbox).kind = kind

(* Faulty variant: the handler trusts this instead of the weak pointer. *)
ConnectUnguarded ==
  /\ Due("connect")
  /\ held
  /\ \E pid \in Pids \ PidsInUse :
       tunnels' = tunnels \cup {[pid |-> pid, made |-> Head(inbox).made, conf |-> epoch]}
  /\ inbox' = Tail(inbox)
  /\ UNCHANGED <<backend, epoch, inst, held, orphan, missed, spawner, armed, error, exits>>

(* connector::connect: a carrier is started, with the configuration of now  *)
(* and the contract of the spawner that posted the entry.                   *)
Connect ==
  /\ Due("connect")
  /\ Alive(Head(inbox).inst)
  /\ \E pid \in Pids \ PidsInUse :
       tunnels' = tunnels \cup {[pid |-> pid, made |-> Head(inbox).made, conf |-> epoch]}
  /\ inbox' = Tail(inbox)
  /\ UNCHANGED <<backend, epoch, inst, held, orphan, missed, spawner, armed, error, exits>>

(* The constructor of bp::child throws (the carrier can't be started): the  *)
(* exception leaves io.run and main returns 5.  The pool is destroyed on    *)
(* the way, which a callback under way may turn into an abort.              *)
ConnectThrows ==
  /\ Due("connect")
  /\ Alive(Head(inbox).inst)
  /\ backend' \in (IF Calling THEN {"failed", "aborted"} ELSE {"failed"})
  /\ ProcessEnds

(* Faulty variant: the error is recorded and no retry is scheduled. *)
FallbackForgets ==
  /\ Due("fallback")
  /\ Alive(Head(inbox).inst)
  /\ error' = TRUE
  /\ inbox' = Tail(inbox)
  /\ UNCHANGED <<backend, epoch, inst, held, orphan, missed, spawner, armed, tunnels, exits>>

(* Faulty variant: the next attempt starts at once, and the timer as well. *)
FallbackHurries ==
  /\ Due("fallback")
  /\ Alive(Head(inbox).inst)
  /\ ~Calling
  /\ error' = TRUE
  /\ armed' = TRUE
  /\ spawner' = "run"
  /\ inbox' = Tail(inbox)
  /\ missed' = FALSE
  /\ UNCHANGED <<backend, epoch, inst, held, orphan, tunnels, exits>>

(* connector::fallback: expires_from_now cancels a wait that is pending. *)
Fallback ==
  /\ Due("fallback")
  /\ Alive(Head(inbox).inst)
  /\ error' = TRUE
  /\ armed' = TRUE
  /\ inbox' = Tail(inbox)
  /\ missed' = FALSE
  /\ UNCHANGED <<backend, epoch, inst, held, orphan, spawner, tunnels, exits>>

(* The retry timer expires: its handler is queued, out of cancel's reach. *)
TimerExpires ==
  /\ armed
  /\ Len(inbox) < MaxInbox
  /\ armed' = FALSE
  /\ inbox' = Append(inbox, [kind |-> "retry", inst |-> inst, made |-> epoch])
  /\ UNCHANGED <<backend, epoch, inst, held, orphan, missed, spawner, error, tunnels, exits>>

(* Faulty variant: the retry clears the error of a service that is down. *)
RetryGivesUp ==
  /\ Due("retry")
  /\ Alive(Head(inbox).inst)
  /\ error' = FALSE
  /\ inbox' = Tail(inbox)
  /\ UNCHANGED <<backend, epoch, inst, held, orphan, missed, spawner, armed, tunnels, exits>>

(* The handler of the retry timer: an export that still accepts is left     *)
(* alone, anything else is started anew.  active() can't tell an acceptor   *)
(* that goes on from one whose thread has yet to leave io.run.              *)
Retry ==
  /\ Due("retry")
  /\ Alive(Head(inbox).inst)
  /\ error' = FALSE
  /\ IF Local /\ Active
       THEN UNCHANGED spawner
       ELSE ~Calling /\ spawner' = "run"
  /\ missed' = (spawner = "ending")
  /\ inbox' = Tail(inbox)
  /\ UNCHANGED <<backend, epoch, inst, held, orphan, armed, tunnels, exits>>

(* weak.lock() fails: the connector of the handler is gone. *)
Expired ==
  /\ backend = "up"
  /\ inbox # <<>>
  /\ ~Alive(Head(inbox).inst)
  /\ inbox' = Tail(inbox)
  /\ UNCHANGED <<backend, epoch, inst, held, orphan, missed, spawner, armed, error, tunnels, exits>>

(* A carrier ends by itself: its on_exit handler becomes due. *)
CarrierEnds(t) ==
  /\ [pid |-> t.pid, inst |-> inst] \notin exits
  /\ exits' = exits \cup {[pid |-> t.pid, inst |-> inst]}
  /\ UNCHANGED <<backend, epoch, inst, held, orphan, missed, spawner, inbox, armed, error, tunnels>>

(* Faulty variant: the exit of one carrier clears m_tunnels. *)
OnExitClears(x) ==
  /\ backend = "up"
  /\ ~Calling
  /\ exits' = exits \ {x}
  /\ IF Alive(x.inst)
       THEN tunnels' = {} /\ error' = FALSE /\ spawner' = "run"
       ELSE UNCHANGED <<tunnels, error, spawner>>
  /\ UNCHANGED <<backend, epoch, inst, held, orphan, missed, inbox, armed>>

(* Faulty variant: the end of a tunnel is treated like a failed attempt. *)
OnExitWaits(x) ==
  /\ backend = "up"
  /\ exits' = exits \ {x}
  /\ IF Alive(x.inst)
       THEN tunnels' = {t \in tunnels : t.pid # x.pid} /\ error' = TRUE /\ armed' = TRUE
       ELSE UNCHANGED <<tunnels, error, armed>>
  /\ UNCHANGED <<backend, epoch, inst, held, orphan, missed, inbox, spawner>>

(* on_exit: an import starts the negotiation of its next tunnel. *)
OnExit(x) ==
  /\ backend = "up"
  /\ exits' = exits \ {x}
  /\ IF Alive(x.inst)
       THEN /\ tunnels' = {t \in tunnels : t.pid # x.pid}
            /\ IF Local
                 THEN UNCHANGED <<error, spawner>>
                 ELSE ~Calling /\ error' = FALSE /\ spawner' = "run"
       ELSE UNCHANGED <<tunnels, error, spawner>>
  /\ UNCHANGED <<backend, epoch, inst, held, orphan, missed, inbox, armed>>

-----------------------------------------------------------------------------
Handler == Connect \/ ConnectThrows \/ Fallback \/ Retry \/ Expired

Next ==
  \/ Restart
  \/ Suspend
  \/ OrphanDestroyed
  \/ Relaunch
  \/ \E callback \in {"connect", "fallback", "failing"} : PlexusCalls(callback)
  \/ Post
  \/ ThreadEnds
  \/ Handler
  \/ TimerExpires
  \/ \E t \in tunnels : CarrierEnds(t)
  \/ \E x \in exits : OnExit(x)

Spec == Init /\ [][Next]_vars

(* The main loop runs what is queued, a callback returns, a thread that has *)
(* nothing left to run ends, a timer expires.                               *)
(* Nothing makes plexus answer, a carrier end or a user ask.                *)
Fairness ==
  /\ WF_vars(Handler)
  /\ WF_vars(\E x \in exits : OnExit(x))
  /\ WF_vars(Post)
  /\ WF_vars(ThreadEnds)
  /\ WF_vars(TimerExpires)
  /\ WF_vars(OrphanDestroyed)

FairSpec == Spec /\ Fairness

-----------------------------------------------------------------------------
(* Properties. *)

\* A handler of this kind for the living connector is in the queue.
Queued(kinds) == \E i \in DOMAIN inbox : inbox[i].kind \in kinds /\ Alive(inbox[i].inst)

\* plexus is negotiating or accepting.
Working == spawner \notin {"off", "ending"}

(* A connector that shows no error and (an import) has no tunnel, which the *)
(* status calls lonely, is really working on a tunnel: its spawner is       *)
(* negotiating or accepting, or what it found is queued.  restart, retry,   *)
(* on_exit and the callbacks each hand this duty on, and handlers that a    *)
(* restart outdated clear errors and change spawners between them.  One     *)
(* thing breaks it, for an export: a retry that took an acceptor on its way *)
(* out for one that goes on.                                                *)
NoSilentOutage ==
  held /\ ~error /\ (Local \/ tunnels = {})
    => Working \/ Queued({"connect", "fallback"}) \/ missed

(* An error that is shown is not the end: the retry timer is armed, or its  *)
(* handler is queued, or (an import whose restart found a tunnel and        *)
(* cancelled the timer) the exit of the tunnel will start over.             *)
EveryFailureRetried ==
  error => armed \/ Queued({"retry"}) \/ (~Local /\ tunnels # {})

(* What keeps an import going is a baton: the spawner hands it to a queued  *)
(* handler, that one to the timer or to a tunnel, and those to the spawner. *)
(* Handlers a restart could not recall add a second baton, and with it a    *)
(* second tunnel, but never more than one for each restart.                 *)
Batons == (IF spawner = "off" THEN 0 ELSE 1)
            + (IF armed THEN 1 ELSE 0)
            + Cardinality({i \in DOMAIN inbox : Alive(inbox[i].inst)})
            + Cardinality(tunnels)

BatonsBounded == ~Local /\ held => Batons <= epoch - inst + 1

(* A tunnel only goes with the end of its carrier, by the request to        *)
(* suspend the service or with the backend: neither a restart nor a stale   *)
(* handler takes away a tunnel that works.                                  *)
TunnelsSurvive ==
  [][\A t \in tunnels : t \in tunnels'
        \/ ~held' \/ [pid |-> t.pid, inst |-> inst] \in exits]_vars

(* server.h:20-22 promises a server that runs until the last session is     *)
(* destroyed.  Then no sequence of requests and callbacks makes it abort.   *)
NoAbort == backend # "aborted"

(* The service is being served: an export accepts, an import negotiates or  *)
(* has its tunnel.                                                          *)
Serving == Working \/ (~Local /\ tunnels # {})

(* An export whose retry came between the last fallback of its acceptor and *)
(* the return of io.run, with nothing left that starts it: no error, no     *)
(* timer, no handler.  Only a request brings it back.                       *)
Stranded == missed /\ ~armed /\ ~Queued({"connect", "fallback", "retry"})

(* A connector never stays idle: it comes back to serving until dropped,    *)
(* unless its retry met an acceptor that was on its way out.                *)
ServesAgain == held ~> (~held \/ Serving \/ Stranded)

(* A contract that was negotiated before the connector was suspended does   *)
(* not become a tunnel of the connector that replaced it: the handlers hold *)
(* weak pointers.  (It may come from an earlier restart of the same one.)   *)
OwnContracts == \A t \in tunnels : inst <= t.made /\ t.made <= t.conf

(* client.h:25 says of engage(handle): start or restart the specified       *)
(* service.  Then nothing runs with an earlier configuration afterwards.    *)
EngageRestarts ==
  [][epoch' > epoch => \A t \in tunnels' : t.conf = epoch']_vars

(* The state of the connector in the terms of Link. *)
Linked == held /\ ~Local /\ tunnels # {}
Trying == held /\ ~Linked /\ (Working \/ Queued({"connect", "fallback"}))
Lost   == held /\ ~Linked /\ ~Trying /\ Stranded

Phase ==
  CASE ~held  -> "asleep"
    [] Linked -> "linked"
    [] Trying -> "trying"
    [] Lost   -> "stranded"
    [] OTHER  -> "waiting"

(* The connector implements Link: see there what that forbids. *)
Lnk == INSTANCE Link WITH phase <- Phase, Strands <- Local
Implements == Lnk!Spec
============================================================================

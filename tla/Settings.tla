------------------------------ MODULE Settings ------------------------------
(***************************************************************************)
(* The settings dialog (ui/settingsdialog.cpp) with what it sets going:    *)
(* tests of the network, each on a thread of its own (the Utils functions  *)
(* of ui/context.cpp), and the entry of the backend in the user's crontab  *)
(* (assign, revoke and verify_autostart of store/utils.cpp).               *)
(*                                                                         *)
(* A test reports by a callback on its thread, which has the dialog handle *)
(* it later on the main thread, if there still is a dialog.  The crontab   *)
(* is read and written by child processes the main thread waits for, and   *)
(* belongs to other programs as well, another pier's UI among them.  What  *)
(* becomes of the other fields is in Desk (Settings).                      *)
(***************************************************************************)
EXTENDS Naturals, Sequences, FiniteSets, SequencesExt

CONSTANTS
  Stuns,      \* the buttons that explore the NAT
  Mediators,  \* those that try a rendezvous: DHT, e-mail
  Relays,     \* that of the ricochet relay
  Entry,      \* the line assign_autostart writes
  Matched,    \* the lines its pattern matches
  Lines,      \* all lines of a crontab
  Pipe,       \* the lines a pipe takes
  MaxLines,   \* bound on the crontab
  MaxTests,   \* bound on the tests of a dialog that haven't been reported
  MaxOthers   \* bound on what other programs do to the crontab

ASSUME SettingsAssumption ==
  /\ Stuns \cap Mediators = {} /\ Relays \cap (Stuns \cup Mediators) = {}
  /\ Entry \in Matched /\ Matched \subseteq Lines
  /\ {Pipe, MaxLines, MaxTests, MaxOthers} \subseteq Nat

VARIABLES
  open,     \* the dialog is on the screen
  nat,      \* its check box "behind NAT"
  enabled,  \* enabled[b]: the button can be clicked
  gauge,    \* gauge[b]: the progress bar beside it is shown
  probes,   \* the threads of its tests
  posted,   \* the callbacks' results that the main thread has to handle
  table,    \* the crontab
  daemon,   \* m_daemon: what it said when the dialog came up
  edit,     \* the main thread is at the crontab
  others    \* the changes of other programs so far

vars == <<open, nat, enabled, gauge, probes, posted, table, daemon, edit, others>>
tests == <<nat, enabled, gauge, probes, posted>>

-----------------------------------------------------------------------------
Buttons == Stuns \cup Mediators \cup Relays
Halves == {"receive", "forward"}
Probe == [id : 1..MaxTests, button : Buttons, heard : SUBSET Halves]
Tables == BoundedSeq(Lines, MaxLines)

(* verify_autostart on what was read.                                      *)
Enters(t) == \E i \in DOMAIN t : t[i] \in Matched

(* The other lines, in their order: the k-th is the one of rank k.         *)
Foreign(t) ==
  LET kept == {i \in DOMAIN t : t[i] \notin Matched}
  IN  [k \in 1..Cardinality(kept) |->
         t[CHOOSE i \in kept : Cardinality({j \in kept : j <= i}) = k]]

(* The child is waited for before its output is read, and the input of the *)
(* next is written before that is started: what doesn't fit blocks.        *)
Fits(t) == Len(t) <= Pipe

Rest == [phase |-> "rest"]
Edits ==
  {Rest, [phase |-> "stuck"]}
    \cup [phase : {"read"}, on : BOOLEAN]
    \cup [phase : {"write"}, on : BOOLEAN, got : Tables, new : Seq(Lines)]
Free == edit.phase = "rest"
Stuck == edit.phase = "stuck"

(* The tests of a button that the user has seen no result of.              *)
Pending(b) ==
  Cardinality({p \in probes : p.button = b}) + Cardinality({i \in DOMAIN posted : posted[i] = b})

TypeOK ==
  /\ open \in BOOLEAN /\ nat \in BOOLEAN
  /\ enabled \in [Buttons -> BOOLEAN] /\ gauge \in [Buttons -> BOOLEAN]
  /\ probes \subseteq Probe
  /\ \A p, q \in probes : p.id = q.id => p = q
  /\ \A p \in probes : p.heard # Halves
  /\ posted \in Seq(Buttons)
  /\ table \in Tables /\ daemon \in BOOLEAN
  /\ edit \in Edits
  /\ others \in 0..MaxOthers

Init ==
  /\ open = FALSE /\ nat = FALSE
  /\ enabled = [b \in Buttons |-> TRUE] /\ gauge = [b \in Buttons |-> FALSE]
  /\ probes = {} /\ posted = <<>>
  /\ table \in Tables /\ daemon = FALSE
  /\ edit = Rest /\ others = 0

-----------------------------------------------------------------------------
(* The dialog comes and goes.                                              *)

(* The constructor, with CouldAutostart and VerifyAutostart.  Without the  *)
(* crontab tool the option is off and can't be changed.                    *)
Open(behind, tool) ==
  /\ ~open /\ Free
  /\ IF tool /\ ~Fits(table)
     THEN edit' = [phase |-> "stuck"] /\ UNCHANGED <<open, daemon, tests>>
     ELSE /\ open' = TRUE /\ nat' = behind
          /\ enabled' = [b \in Buttons |-> b \in Stuns => behind]
          /\ gauge' = [b \in Buttons |-> FALSE]
          /\ probes' = {} /\ posted' = <<>>
          /\ daemon' = (tool /\ Enters(table))
          /\ UNCHANGED edit
  /\ UNCHANGED <<table, others>>

(* Tests of a dialog that is gone find no one to report to (the weak       *)
(* pointer), or a hidden dialog: nothing of them is seen any more.         *)
Closed ==
  /\ open' = FALSE /\ nat' = FALSE
  /\ enabled' = [b \in Buttons |-> TRUE] /\ gauge' = [b \in Buttons |-> FALSE]
  /\ probes' = {} /\ posted' = <<>>

Cancel ==
  /\ open /\ Free
  /\ Closed
  /\ UNCHANGED <<table, daemon, edit, others>>

(* onOkButtonClick with valid fields: the check box against m_daemon.      *)
Ok(toggled) ==
  /\ open /\ Free
  /\ IF toggled
     THEN edit' = [phase |-> "read", on |-> ~daemon] /\ UNCHANGED <<open, tests>>
     ELSE Closed /\ UNCHANGED edit
  /\ UNCHANGED <<table, daemon, others>>

-----------------------------------------------------------------------------
(* The crontab.                                                            *)

(* Faulty variant: a revocation stops copying at the match, as an          *)
(* assignment does.                                                        *)
CopyStops(got, on) ==
  IF on THEN Append(got, Entry)
  ELSE LET hits == {i \in DOMAIN got : got[i] \in Matched}
       IN  SubSeq(got, 1, (CHOOSE i \in hits : \A j \in hits : i <= j) - 1)

(* What goes into the pipe of the process that installs it.                *)
Copy(got, on) == IF on THEN Append(got, Entry) ELSE Foreign(got)

(* assign_autostart and revoke_autostart up to the second process: the     *)
(* exit code of "crontab -l" isn't looked at, a failure reads as an empty  *)
(* table.  There is nothing to do if the entry is there, or isn't.  The    *)
(* tool may be gone: the message of the exception, and the dialog closes.  *)
Read(got) ==
  /\ edit.phase = "read" /\ got \in {table, <<>>}
  /\ IF ~Fits(got) \/ (Enters(got) # edit.on /\ ~Fits(Copy(got, edit.on)))
     THEN edit' = [phase |-> "stuck"] /\ UNCHANGED <<open, tests>>
     ELSE IF Enters(got) = edit.on
     THEN edit' = Rest /\ Closed
     ELSE /\ edit' = [phase |-> "write", on |-> edit.on, got |-> got, new |-> Copy(got, edit.on)]
          /\ UNCHANGED <<open, tests>>
  /\ UNCHANGED <<table, daemon, others>>

ReadThrows ==
  /\ edit.phase = "read"
  /\ edit' = Rest /\ Closed
  /\ UNCHANGED <<table, daemon, others>>

(* The second process, whose exit code isn't looked at either.             *)
Install(done) ==
  /\ edit.phase = "write" /\ Len(edit.new) <= MaxLines
  /\ table' = IF done THEN edit.new ELSE table
  /\ edit' = Rest /\ Closed
  /\ UNCHANGED <<daemon, others>>

(* The user, or another UI, at any time.                                   *)
OthersEdit ==
  /\ others < MaxOthers /\ others' = others + 1
  /\ \/ \E l \in Lines : Len(table) < MaxLines /\ table' = Append(table, l)
     \/ \E i \in DOMAIN table : table' = RemoveAt(table, i)
  /\ UNCHANGED <<open, tests, daemon, edit>>

-----------------------------------------------------------------------------
(* The tests.                                                              *)

Started(b) == enabled' = [enabled EXCEPT ![b] = FALSE] /\ gauge' = [gauge EXCEPT ![b] = TRUE]

Room == Cardinality(probes) + Len(posted) < MaxTests

(* on...TestClick: the thread first, then the looks of the dialog.         *)
Click(b) ==
  /\ open /\ Free /\ enabled[b] /\ Room
  /\ LET id == CHOOSE i \in 1..MaxTests : \A p \in probes : p.id # i
     IN  probes' = probes \cup {[id |-> id, button |-> b, heard |-> {}]}
  /\ Started(b)
  /\ UNCHANGED <<open, nat, posted, table, daemon, edit, others>>

(* The servers of a rendezvous are resolved before there is a thread: a    *)
(* failure calls back at once, before the button is disabled.              *)
ClickFails(b) ==
  /\ open /\ Free /\ enabled[b] /\ Room /\ b \in Mediators
  /\ posted' = Append(posted, b)
  /\ Started(b)
  /\ UNCHANGED <<open, nat, probes, table, daemon, edit, others>>

(* onNatCheckBoxClick: the buttons follow the box, tests or not.           *)
NatCheck ==
  /\ open /\ Free
  /\ nat' = ~nat
  /\ enabled' = [b \in Buttons |-> IF b \in Stuns THEN nat' ELSE enabled[b]]
  /\ UNCHANGED <<open, gauge, probes, posted, table, daemon, edit, others>>

(* The callback: the dialog is asked to handle the result, and the thread  *)
(* is done (the io_context is stopped, or has nothing left).               *)
Calls(p) == posted' = Append(posted, p.button) /\ probes' = probes \ {p}

(* Faulty variant: the first half that is heard counts as a success, and   *)
(* the other goes on.                                                      *)
HearsEither(p, half) ==
  /\ p.button \in Mediators /\ half \notin p.heard
  /\ IF p.heard = {}
     THEN /\ posted' = Append(posted, p.button)
          /\ probes' = (probes \ {p}) \cup {[p EXCEPT !.heard = {half}]}
     ELSE Calls(p)
  /\ UNCHANGED <<open, nat, enabled, gauge, table, daemon, edit, others>>

(* Faulty variant: the io_context isn't stopped when both are heard. *)
HearsOn(p, half) ==
  /\ p.button \in Mediators /\ half \notin p.heard
  /\ posted' = IF p.heard \cup {half} = Halves THEN Append(posted, p.button) ELSE posted
  /\ probes' = (probes \ {p}) \cup {[p EXCEPT !.heard = @ \cup {half}]}
  /\ UNCHANGED <<open, nat, enabled, gauge, table, daemon, edit, others>>

(* CheckRendezvous: a message to oneself was received, or could be sent.   *)
Hears(p, half) ==
  /\ p.button \in Mediators /\ half \notin p.heard
  /\ IF p.heard \cup {half} = Halves
     THEN Calls(p)
     ELSE probes' = (probes \ {p}) \cup {[p EXCEPT !.heard = @ \cup {half}]} /\ UNCHANGED posted
  /\ UNCHANGED <<open, nat, enabled, gauge, table, daemon, edit, others>>

(* Faulty variant: the timer counts only until one half is heard. *)
TimesOutUnheard(p) ==
  /\ p.button \in Mediators /\ p.heard = {}
  /\ Calls(p)
  /\ UNCHANGED <<open, nat, enabled, gauge, table, daemon, edit, others>>

(* The 60 seconds of a rendezvous.                                         *)
TimesOut(p) ==
  /\ p.button \in Mediators
  /\ Calls(p)
  /\ UNCHANGED <<open, nat, enabled, gauge, table, daemon, edit, others>>

(* An error or exception of any test, and the success of the others.       *)
Reports(p) ==
  /\ Calls(p)
  /\ UNCHANGED <<open, nat, enabled, gauge, table, daemon, edit, others>>

(* What was passed to CallAfter, in its order.                             *)
Handle ==
  /\ open /\ Free /\ posted # <<>>
  /\ enabled' = [enabled EXCEPT ![Head(posted)] = TRUE]
  /\ gauge' = [gauge EXCEPT ![Head(posted)] = FALSE]
  /\ posted' = Tail(posted)
  /\ UNCHANGED <<open, nat, probes, table, daemon, edit, others>>

-----------------------------------------------------------------------------
Crontab ==
  \/ \E got \in {table, <<>>} : Read(got)
  \/ ReadThrows
  \/ \E done \in BOOLEAN : Install(done)

Next ==
  \/ \E behind, tool \in BOOLEAN : Open(behind, tool)
  \/ Cancel \/ \E toggled \in BOOLEAN : Ok(toggled)
  \/ Crontab \/ OthersEdit
  \/ \E b \in Buttons : Click(b) \/ ClickFails(b)
  \/ NatCheck \/ Handle
  \/ \E p \in probes : \/ \E half \in Halves : Hears(p, half)
                       \/ TimesOut(p) \/ Reports(p)

(* The main thread handles its events and the children of the crontab end; *)
(* of the tests, only a rendezvous has a timer.                            *)
Spec ==
  /\ Init /\ [][Next]_vars
  /\ WF_vars(Handle) /\ WF_vars(Crontab)
  /\ WF_vars(\E p \in probes : TimesOut(p))

-----------------------------------------------------------------------------
(* Properties.                                                             *)

(* A bar moves only for a test whose result is still to come, and those    *)
(* buttons that the NAT box doesn't enable can be clicked exactly when     *)
(* they have no test: no callback comes twice (CheckRendezvous has five    *)
(* places that call back, on timer, errors and both halves).               *)
ButtonsTell ==
  open => /\ \A b \in Buttons : gauge[b] => Pending(b) > 0
          /\ \A b \in Mediators \cup Relays : Pending(b) = IF enabled[b] THEN 0 ELSE 1

(* The result of a rendezvous test comes, and its button with it, unless   *)
(* the dialog is closed or the main thread hangs in the crontab.           *)
TestsEnd ==
  \A b \in Mediators : (open /\ ~enabled[b]) ~> (enabled[b] \/ ~open \/ Stuck)

(* The check box takes effect: when the crontab is installed, and nobody   *)
(* changed it since it was read, the backend is entered or not as the user *)
(* asked, once at most more than before, and the lines of others are all   *)
(* there in their order.                                                   *)
Times(t) == Len(t) - Len(Foreign(t))
ToggleTurns ==
  [][Install(TRUE) /\ edit.got = table =>
       /\ Enters(table') = edit.on
       /\ Times(table') <= 1
       /\ Foreign(table') = Foreign(table)]_vars
=============================================================================

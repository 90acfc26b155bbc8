------------------------------- MODULE Link -------------------------------
(***************************************************************************)
(* What a connector promises about the service of one pier, with neither   *)
(* the threads nor the queue that keep the promise (server.cpp, class      *)
(* connector):                                                             *)
(*                                                                         *)
(*   asleep   nobody asked for the service                                 *)
(*   trying   plexus is negotiating, or its outcome is on its way          *)
(*   waiting  the last attempt failed and the retry timer decides          *)
(*   linked   a carrier is running (imports only: an export goes on        *)
(*            trying whatever its carriers do)                             *)
(*   stranded nothing will try again until somebody asks (exports only:    *)
(*            the retry found an acceptor that was ending active)          *)
(*                                                                         *)
(* Three promises are not obvious from the code.  Nothing ever goes from   *)
(* linked to waiting: the end of a tunnel is followed by an attempt, not   *)
(* by a delay.  Nothing ever goes from waiting to linked: a tunnel is      *)
(* only ever the outcome of an attempt.  An import is never stranded.      *)
(***************************************************************************)

CONSTANT Strands  \* the service is one that can be stranded: an export

VARIABLE phase

Phases == {"asleep", "trying", "waiting", "linked", "stranded"}

Init == phase = "asleep"

Ask     == phase \in {"asleep", "stranded"} /\ phase' = "trying"
Succeed == phase = "trying"  /\ phase' = "linked"
Fail    == phase = "trying"  /\ phase' = "waiting"
Again   == phase = "waiting" /\ phase' = "trying"
Lose    == phase = "linked"  /\ phase' = "trying"
Strand  == Strands /\ phase \in {"trying", "waiting"} /\ phase' = "stranded"
Drop    == phase # "asleep"  /\ phase' = "asleep"

Next == Ask \/ Succeed \/ Fail \/ Again \/ Lose \/ Strand \/ Drop

Safe == Init /\ [][Next]_phase

(* A failed attempt is retried: the service does not stay waiting. *)
Spec == Safe /\ WF_phase(Again)
===========================================================================

------------------------------- MODULE Ledger -------------------------------
(***************************************************************************)
(* What the store promises to the contexts that share it, with neither the *)
(* files nor the lock that keep the promise (store/context.cpp): the       *)
(* configuration is one value with a version, and is replaced by a         *)
(* compare-and-swap.                                                       *)
(*                                                                         *)
(* Who has opened it and lost to nobody since changes one thing at a time: *)
(* a service comes or goes, a pier comes or goes, the identity changes.    *)
(* Who was overtaken can't write again, but for one case: who never wrote  *)
(* may, and then what it writes replaces what others did to one pier.      *)
(* All of it ends with the first write that fails half way.                *)
(***************************************************************************)
EXTENDS Naturals

CONSTANTS Contexts, Piers, Names, Nobody, Absent

VARIABLES
  owner,   \* the identity
  shelf,   \* shelf[p]: the services of pier p, Absent if there is no such pier
  version,
  known,   \* known[c]: the version c has opened or written last
  wrote,   \* wrote[c]: c has written
  trusted, \* trusted[c]: what c has in memory is what it opened and its edits
  intact   \* no write was interrupted

vars == <<owner, shelf, version, known, wrote, trusted, intact>>

Init ==
  /\ owner = Nobody /\ shelf = [p \in Piers |-> Absent]
  /\ version = 1 /\ known = [c \in Contexts |-> 0]
  /\ wrote = [c \in Contexts |-> FALSE] /\ trusted = [c \in Contexts |-> FALSE]
  /\ intact = TRUE

Open(c) ==
  /\ known' = [known EXCEPT ![c] = version]
  /\ wrote' = [wrote EXCEPT ![c] = FALSE]
  /\ trusted' = [trusted EXCEPT ![c] = TRUE]
  /\ UNCHANGED <<owner, shelf, version, intact>>

Leave(c) ==
  /\ known' = [known EXCEPT ![c] = 0]
  /\ wrote' = [wrote EXCEPT ![c] = FALSE]
  /\ trusted' = [trusted EXCEPT ![c] = FALSE]
  /\ UNCHANGED <<owner, shelf, version, intact>>

(* Only who was overtaken loses its trust.                                 *)
Overtaken(c) ==
  /\ known[c] # version
  /\ trusted' = [trusted EXCEPT ![c] = FALSE]
  /\ UNCHANGED <<owner, shelf, version, known, wrote, intact>>

Puts(p, S) == shelf' = [shelf EXCEPT ![p] = S]

(* One thing at a time.  A new identity may find what is left of a pier.   *)
Edit(p) ==
  \/ UNCHANGED <<owner, shelf>>
  \/ /\ shelf[p] # Absent /\ UNCHANGED owner
     /\ \E n \in Names : Puts(p, shelf[p] \cup {n}) \/ Puts(p, shelf[p] \ {n})
  \/ shelf[p] = Absent /\ Puts(p, {}) /\ UNCHANGED owner
  \/ p # owner /\ Puts(p, Absent) /\ UNCHANGED owner
  \/ /\ owner' = p
     /\ IF shelf[p] = Absent THEN \E S \in SUBSET Names : Puts(p, S) ELSE UNCHANGED shelf

Replace(p) ==
  /\ \E S \in {Absent} \cup SUBSET Names : Puts(p, S)
  /\ owner' \in {owner, p}

Write(c) ==
  /\ wrote[c] \/ trusted[c] => known[c] = version
  /\ \E p \in Piers : IF trusted[c] THEN Edit(p) ELSE Replace(p)
  /\ version' = version + 1
  /\ known' = [known EXCEPT ![c] = version + 1]
  /\ wrote' = [wrote EXCEPT ![c] = TRUE]
  /\ UNCHANGED <<trusted, intact>>

Fault == intact' = FALSE

Next == Fault \/ \E c \in Contexts : Open(c) \/ Leave(c) \/ Overtaken(c) \/ Write(c)

Spec == Init /\ [][Next]_vars
=============================================================================

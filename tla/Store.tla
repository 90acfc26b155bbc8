------------------------------- MODULE Store -------------------------------
(***************************************************************************)
(* The configuration on disk and the contexts that edit it                 *)
(* (store/context.cpp: locker, soft_lock, hard_lock, context_impl).        *)
(*                                                                         *)
(* Every context is in a process of its own, keeps everything in memory    *)
(* and writes one file at a time under the file lock.  An operation edits  *)
(* the memory first, then takes the lock, compares the time of the lock    *)
(* file with the time of its own last write, writes, and sets the time     *)
(* whatever happened.  A context that never wrote has nothing to compare.  *)
(*                                                                         *)
(* There is one repository, whatever the identity, and nobody adds piers   *)
(* before there is an identity.  A pier's file is the set of the names of  *)
(* its services.  The exports are those in the file of the own pier, the   *)
(* imports those in the others, so the two kinds of add and del differ in  *)
(* their pier only.                                                        *)
(***************************************************************************)
EXTENDS Integers, FiniteSets

CONSTANTS
  Contexts,  \* context objects
  Piers,     \* identities, own and remote
  Names,     \* names of services
  MaxWrites, \* bound on the writes to the store
  MaxAccidents, \* bound on the failures and crashes inside a write
  Nobody,    \* no context holds the lock, no identity is configured, no name
  Absent,    \* no such file; no such pier in the memory
  Torn,      \* a file that was not written to its end
  Blank      \* a configuration that was truncated, and nothing written to it

ASSUME NamesAssumption ==
  /\ Nobody \notin Contexts \cup Piers \cup Names
  /\ {Absent, Torn, Blank} \cap Piers = {}
  /\ \A s \in SUBSET Names : s # Absent /\ s # Torn
  /\ Absent # Torn /\ Absent # Blank /\ Torn # Blank
ASSUME BoundsAssumption == MaxWrites \in Nat /\ MaxAccidents \in Nat

VARIABLES
  conf,    \* webpier.json: the own identity, Absent, Torn or Blank
  dir,     \* dir[p]: what is in the directory of pier p, services apart
  file,    \* file[p]: the file of its services
  mtime,   \* time of the lock file, in numbers of writes
  lock,    \* who holds the file lock
  pc,      \* pc[c]: where the context is
  op,      \* op[c]: the operation under way
  pier,    \* pier[c]: m_config.pier
  bundle,  \* bundle[c][p]: m_bundle
  stamp,   \* stamp[c]: m_time, 0 if it was never set
  opened,  \* opened[c]: time of the lock file when the context was loaded
  sound,   \* sound[c]: the memory of c can be trusted: see below
  accidents \* writes that failed, or inside which a process ended

disk == <<conf, dir, file>>
memory == <<pier, bundle>>
vars == <<conf, dir, file, mtime, lock, pc, op, pier, bundle, stamp, opened, sound, accidents>>

(* sound, accidents and opened are not in the code: they tell the           *)
(* properties which contexts the check of the time protects.  One isn't     *)
(* sound after an operation of its own failed (the memory keeps the edit),  *)
(* after a first write that came too late for it, or after any crash        *)
(* between a write and the time that announces it.                          *)

-----------------------------------------------------------------------------
Kinds == {"add", "del", "config", "identity", "addpier", "delpier"}
Operation == [kind : Kinds, pier : Piers, name : Names \cup {Nobody}]

(* "lock": waiting for it; "save": with the lock, nothing written; "saving":*)
(* a file is torn; "saved": about to set the time and unlock.               *)
Places == {"closed", "idle", "lock", "save", "saving", "saved"}

\* "empty": a directory only; "cert": a remote pier; "pair": has the key too
Directories == {"none", "empty", "cert", "pair"}

(* What write_json leaves of the configuration until it is done, and what   *)
(* load_config passes over: a file of length zero is no configuration.  The *)
(* files of the piers have no such exception: an empty one can't be parsed, *)
(* and is Torn.                                                             *)
Partial == {Torn, Blank}
Unset == {Absent, Blank}

Bundles == [Piers -> {Absent} \cup SUBSET Names]

TypeOK ==
  /\ conf \in Piers \cup {Absent, Torn, Blank}
  /\ dir \in [Piers -> Directories]
  /\ file \in [Piers -> {Absent, Torn} \cup SUBSET Names]
  /\ mtime \in Nat \ {0}
  /\ lock \in Contexts \cup {Nobody}
  /\ pc \in [Contexts -> Places]
  /\ op \in [Contexts -> {Nobody} \cup Operation]
  /\ \A c \in Contexts : pc[c] \in {"lock", "save", "saving", "saved"} => op[c] \in Operation
  /\ pier \in [Contexts -> Piers \cup {Nobody}]
  /\ bundle \in [Contexts -> Bundles]
  /\ stamp \in [Contexts -> Nat]
  /\ opened \in [Contexts -> Nat]
  /\ sound \in [Contexts -> BOOLEAN]
  /\ accidents \in Nat

NoBundle == [p \in Piers |-> Absent]

\* What loading the piers of the repository gives.
Loaded == [p \in Piers |->
             IF dir[p] \in {"cert", "pair"} THEN (IF file[p] = Absent THEN {} ELSE file[p])
             ELSE Absent]

\* The files that loading reads can be parsed.
Readable == \A p \in Piers : dir[p] \in {"cert", "pair"} => file[p] # Torn

Init ==
  /\ conf = Absent
  /\ dir = [p \in Piers |-> "none"]
  /\ file = [p \in Piers |-> Absent]
  /\ mtime = 1
  /\ lock = Nobody
  /\ pc = [c \in Contexts |-> "closed"]
  /\ op = [c \in Contexts |-> Nobody]
  /\ pier = [c \in Contexts |-> Nobody]
  /\ bundle = [c \in Contexts |-> NoBundle]
  /\ stamp = [c \in Contexts |-> 0]
  /\ opened = [c \in Contexts |-> 0]
  /\ sound = [c \in Contexts |-> FALSE]
  /\ accidents = 0

-----------------------------------------------------------------------------
(* open_context, and the end of a context *)

Closed(c) ==
  /\ pc' = [pc EXCEPT ![c] = "closed"]
  /\ op' = [op EXCEPT ![c] = Nobody]
  /\ pier' = [pier EXCEPT ![c] = Nobody]
  /\ bundle' = [bundle EXCEPT ![c] = NoBundle]
  /\ stamp' = [stamp EXCEPT ![c] = 0]
  /\ opened' = [opened EXCEPT ![c] = 0]

(* Faulty variant: a torn configuration is loaded as far as it goes. *)
OpenLenient(c) ==
  /\ pc[c] = "closed"
  /\ lock = Nobody
  /\ conf \notin Unset => Readable
  /\ pc' = [pc EXCEPT ![c] = "idle"]
  /\ pier' = [pier EXCEPT ![c] = IF conf \in Unset THEN Nobody ELSE conf]
  /\ bundle' = [bundle EXCEPT ![c] = IF conf \in Unset THEN NoBundle ELSE Loaded]
  /\ stamp' = [stamp EXCEPT ![c] = 0]
  /\ opened' = [opened EXCEPT ![c] = mtime]
  /\ sound' = [sound EXCEPT ![c] = TRUE]
  /\ UNCHANGED <<disk, mtime, lock, op, accidents>>

(* The constructor of context_impl, under a soft lock.  A torn file makes   *)
(* it throw: there is no context then.  A blank configuration is like none: *)
(* without its repository no pier is loaded, whatever is stored.            *)
Open(c) ==
  /\ pc[c] = "closed"
  /\ lock = Nobody
  /\ conf # Torn
  /\ conf \notin Unset => Readable
  /\ pc' = [pc EXCEPT ![c] = "idle"]
  /\ pier' = [pier EXCEPT ![c] = IF conf \in Unset THEN Nobody ELSE conf]
  /\ bundle' = [bundle EXCEPT ![c] = IF conf \in Unset THEN NoBundle ELSE Loaded]
  /\ stamp' = [stamp EXCEPT ![c] = 0]
  /\ opened' = [opened EXCEPT ![c] = mtime]
  /\ sound' = [sound EXCEPT ![c] = TRUE]
  /\ UNCHANGED <<disk, mtime, lock, op, accidents>>

Close(c) ==
  /\ pc[c] = "idle"
  /\ Closed(c)
  /\ sound' = [sound EXCEPT ![c] = FALSE]
  /\ UNCHANGED <<disk, mtime, lock, accidents>>

(* The process ends in the middle of an operation.  The system releases the *)
(* lock.                                                                    *)
Crash(c) ==
  /\ pc[c] \in {"lock", "save", "saving", "saved"}
  /\ Closed(c)
  /\ lock' = IF lock = c THEN Nobody ELSE lock
  /\ IF pc[c] \in {"saving", "saved"}
       THEN /\ accidents < MaxAccidents /\ accidents' = accidents + 1
            /\ sound' = [d \in Contexts |-> FALSE]
       ELSE sound' = [sound EXCEPT ![c] = FALSE] /\ UNCHANGED accidents
  /\ UNCHANGED <<disk, mtime>>

-----------------------------------------------------------------------------
(* The operations, up to the lock: checks and edits of the memory. *)

Begin(c, operation) ==
  /\ pc[c] = "idle"
  /\ mtime <= MaxWrites
  /\ pc' = [pc EXCEPT ![c] = "lock"]
  /\ op' = [op EXCEPT ![c] = operation]
  /\ UNCHANGED <<disk, mtime, lock, stamp, opened, sound, accidents>>

(* add_export_service, add_import_service *)
AddService(c, p, n) ==
  /\ bundle[c][p] # Absent
  /\ n \notin bundle[c][p]
  /\ Begin(c, [kind |-> "add", pier |-> p, name |-> n])
  /\ bundle' = [bundle EXCEPT ![c][p] = @ \cup {n}]
  /\ UNCHANGED pier

(* del_export_service, del_import_service; a name that isn't in the memory  *)
(* is no work at all, whatever is on the disk.                              *)
DelService(c, p, n) ==
  /\ bundle[c][p] # Absent
  /\ n \in bundle[c][p]
  /\ Begin(c, [kind |-> "del", pier |-> p, name |-> n])
  /\ bundle' = [bundle EXCEPT ![c][p] = @ \ {n}]
  /\ UNCHANGED pier

(* set_config.  Another identity starts with an empty bundle, and is        *)
(* refused when the repository has its certificate and no key.              *)
SetConfig(c, p) ==
  IF p = pier[c]
    THEN /\ Begin(c, [kind |-> "config", pier |-> p, name |-> Nobody])
         /\ UNCHANGED memory
    ELSE /\ dir[p] # "cert"
         /\ Begin(c, [kind |-> "identity", pier |-> p, name |-> Nobody])
         /\ pier' = [pier EXCEPT ![c] = p]
         /\ bundle' = [bundle EXCEPT ![c] = [NoBundle EXCEPT ![p] = {}]]

(* add_pier and del_pier take the lock first. *)
AddPier(c, p) ==
  /\ pier[c] # Nobody
  /\ Begin(c, [kind |-> "addpier", pier |-> p, name |-> Nobody])
  /\ UNCHANGED memory

DelPier(c, p) ==
  /\ pier[c] \notin {Nobody, p}
  /\ Begin(c, [kind |-> "delpier", pier |-> p, name |-> Nobody])
  /\ UNCHANGED memory

-----------------------------------------------------------------------------
(* The write: hard_lock, what is done under it, and its destructor. *)

Holds(c, place) == pc[c] = place /\ lock = c

Stale(c) == stamp[c] # 0 /\ stamp[c] # mtime

(* Faulty variant: the write goes by without the check of the time. *)
LockUnchecked(c) ==
  /\ pc[c] = "lock"
  /\ lock = Nobody
  /\ lock' = c
  /\ pc' = [pc EXCEPT ![c] = "save"]
  /\ UNCHANGED <<disk, mtime, op, memory, stamp, opened, sound, accidents>>

(* The lock is acquired and the time compared.  An outdated context throws  *)
(* stale_error and leaves the lock; what it edited stays in its memory.     *)
Lock(c) ==
  /\ pc[c] = "lock"
  /\ lock = Nobody
  /\ IF Stale(c)
       THEN /\ pc' = [pc EXCEPT ![c] = "idle"]
            /\ sound' = [sound EXCEPT ![c] = FALSE]
            /\ UNCHANGED lock
       ELSE /\ lock' = c
            /\ pc' = [pc EXCEPT ![c] = "save"]
            /\ sound' = [sound EXCEPT ![c] = @ /\ (stamp[c] = 0 => opened[c] = mtime)]
  /\ UNCHANGED <<disk, mtime, op, memory, stamp, opened, accidents>>

(* Faulty variant: the lock is left before the file is written. *)
SaveServicesLate(c) ==
  /\ Holds(c, "save")
  /\ op[c].kind \in {"add", "del"}
  /\ dir[op[c].pier] # "none"
  /\ file' = [file EXCEPT ![op[c].pier] = Torn]
  /\ lock' = Nobody
  /\ pc' = [pc EXCEPT ![c] = "saving"]
  /\ UNCHANGED <<conf, dir, mtime, op, memory, stamp, opened, sound, accidents>>

(* save_pier_config: write_json truncates the file of the pier.  Without    *)
(* the directory (another context deleted the pier) it can only fail.       *)
SaveServices(c) ==
  /\ Holds(c, "save")
  /\ op[c].kind \in {"add", "del"}
  /\ dir[op[c].pier] # "none"
  /\ file' = [file EXCEPT ![op[c].pier] = Torn]
  /\ pc' = [pc EXCEPT ![c] = "saving"]
  /\ UNCHANGED <<conf, dir, mtime, lock, op, memory, stamp, opened, sound, accidents>>

(* save_config, for a new identity after its key was generated. *)
SaveConfig(c) ==
  /\ Holds(c, "save")
  /\ op[c].kind \in {"config", "identity"}
  /\ IF op[c].kind = "identity"
       THEN dir' = [dir EXCEPT ![op[c].pier] = IF @ \in {"none", "empty"} THEN "pair" ELSE @]
       ELSE UNCHANGED dir
  /\ conf' \in Partial
  /\ pc' = [pc EXCEPT ![c] = "saving"]
  /\ UNCHANGED <<file, mtime, lock, op, memory, stamp, opened, sound, accidents>>

(* add_pier: a directory that exists is a usage_error, a certificate that   *)
(* can't be parsed leaves the directory without it.                         *)
SavePier(c) ==
  /\ Holds(c, "save")
  /\ op[c].kind = "addpier"
  /\ LET p == op[c].pier
     IN  IF dir[p] # "none"
           THEN UNCHANGED <<dir, bundle>>
           ELSE \/ /\ dir' = [dir EXCEPT ![p] = "cert"]
                   /\ bundle' = [bundle EXCEPT ![c][p] = IF @ = Absent THEN {} ELSE @]
                \/ dir' = [dir EXCEPT ![p] = "empty"] /\ UNCHANGED bundle
  /\ pc' = [pc EXCEPT ![c] = "saved"]
  /\ UNCHANGED <<conf, file, mtime, lock, op, pier, stamp, opened, sound, accidents>>

(* del_pier: the directory goes with its file, unless it can't be removed. *)
RemovePier(c) ==
  /\ Holds(c, "save")
  /\ op[c].kind = "delpier"
  /\ bundle' = [bundle EXCEPT ![c][op[c].pier] = Absent]
  /\ \/ /\ dir' = [dir EXCEPT ![op[c].pier] = "none"]
        /\ file' = [file EXCEPT ![op[c].pier] = Absent]
        /\ UNCHANGED <<sound, accidents>>
     \/ /\ accidents < MaxAccidents /\ accidents' = accidents + 1
        /\ sound' = [sound EXCEPT ![c] = FALSE]
        /\ UNCHANGED <<dir, file>>
  /\ pc' = [pc EXCEPT ![c] = "saved"]
  /\ UNCHANGED <<conf, mtime, lock, op, pier, stamp, opened>>

(* The file is written to its end.  After that a new identity loads the     *)
(* piers of the repository, which throws at a torn one.                     *)
Written(c) ==
  /\ Holds(c, "saving")
  /\ IF op[c].kind \in {"add", "del"}
       THEN /\ file' = [file EXCEPT ![op[c].pier] = bundle[c][op[c].pier]]
            /\ UNCHANGED <<conf, bundle, sound>>
       ELSE /\ conf' = op[c].pier
            /\ IF op[c].kind = "identity" /\ Readable
                 THEN bundle' = [bundle EXCEPT ![c] = Loaded] /\ UNCHANGED sound
                 ELSE /\ UNCHANGED bundle
                      /\ sound' = [sound EXCEPT ![c] = @ /\ op[c].kind = "config"]
            /\ UNCHANGED file
  /\ pc' = [pc EXCEPT ![c] = "saved"]
  /\ UNCHANGED <<dir, mtime, lock, op, pier, stamp, opened, accidents>>

(* The write fails, before or after the file was truncated: file_error. *)
WriteFails(c) ==
  /\ \/ Holds(c, "saving")
     \/ Holds(c, "save") /\ op[c].kind \notin {"addpier", "delpier"}
  /\ pc' = [pc EXCEPT ![c] = "saved"]
  /\ sound' = [sound EXCEPT ![c] = FALSE]
  /\ accidents < MaxAccidents /\ accidents' = accidents + 1
  /\ UNCHANGED <<disk, mtime, lock, op, memory, stamp, opened>>

(* Faulty variant: only its own time is set, and not the one of the file. *)
UnlockQuietly(c) ==
  /\ Holds(c, "saved")
  /\ stamp' = [stamp EXCEPT ![c] = mtime]
  /\ lock' = Nobody
  /\ pc' = [pc EXCEPT ![c] = "idle"]
  /\ op' = [op EXCEPT ![c] = Nobody]
  /\ UNCHANGED <<disk, mtime, memory, opened, sound, accidents>>

(* ~hard_lock: the time is set under the lock, whatever happened. *)
Unlock(c) ==
  /\ Holds(c, "saved")
  /\ mtime' = mtime + 1
  /\ stamp' = [stamp EXCEPT ![c] = mtime + 1]
  /\ lock' = Nobody
  /\ pc' = [pc EXCEPT ![c] = "idle"]
  /\ op' = [op EXCEPT ![c] = Nobody]
  /\ UNCHANGED <<disk, memory, opened, sound, accidents>>

-----------------------------------------------------------------------------
Edit(c) ==
  \/ \E p \in Piers, n \in Names : AddService(c, p, n) \/ DelService(c, p, n)
  \/ \E p \in Piers : SetConfig(c, p) \/ AddPier(c, p) \/ DelPier(c, p)

Write(c) ==
  \/ Lock(c) \/ SaveServices(c) \/ SaveConfig(c) \/ SavePier(c) \/ RemovePier(c)
  \/ Written(c) \/ WriteFails(c) \/ Unlock(c)

Next == \E c \in Contexts : Open(c) \/ Close(c) \/ Crash(c) \/ Edit(c) \/ Write(c)

Spec == Init /\ [][Next]_vars

-----------------------------------------------------------------------------
(* Properties. *)

(* The time the next write of c will compare with, were it not the first. *)
Knows(c) == IF stamp[c] = 0 THEN opened[c] ELSE stamp[c]

(* A context that nobody overtook has in its memory what opening the store  *)
(* anew would give, the edits of its own operations included: the files, or *)
(* nothing as long as there is no configuration or a crash left a blank     *)
(* one.  That is the whole worth of the staleness check: a write that       *)
(* passes it replaces what the context knows, in all files and not only in  *)
(* the one it writes.                                                       *)
AgreesWithDisk ==
  lock = Nobody =>
    \A c \in Contexts :
      pc[c] = "idle" /\ sound[c] /\ Knows(c) = mtime
        => IF conf \in Unset
             THEN pier[c] = Nobody /\ bundle[c] = NoBundle
             ELSE pier[c] = conf /\ bundle[c] = Loaded

(* No service is lost to a write of a context that was up to date when it   *)
(* first wrote and whose operations succeeded: what a write takes away from *)
(* a file is the service it was asked to delete.                            *)
LostBy(c) ==
  IF /\ Holds(c, "save") /\ op[c].kind \in {"add", "del"}
     /\ file[op[c].pier] \notin {Absent, Torn}
    THEN file[op[c].pier] \ (bundle[c][op[c].pier] \cup {op[c].name})
    ELSE {}

SoundWritesLoseNothing == \A c \in Contexts : sound[c] => LostBy(c) = {}

(* Under the lock a file is found torn only after a write failed or a       *)
(* process ended inside one: no reader meets a write that is going on.      *)
TornByAccidentOnly ==
  lock = Nobody /\ accidents = 0 => conf \notin Partial /\ \A p \in Piers : file[p] # Torn

(* The store in the terms of Ledger.  A write counts from its first step:   *)
(* the next to have the lock finds all of it or an accident.                *)
InWrite(c) == lock = c /\ pc[c] \in {"saving", "saved"}
Owner ==
  IF conf = Absent THEN Nobody
  ELSE IF conf \in Partial /\ lock # Nobody THEN op[lock].pier ELSE conf
Shelf(p) ==
  IF dir[p] \in {"none", "empty"} THEN Absent
  ELSE IF file[p] = Absent THEN {}
  ELSE IF file[p] = Torn /\ lock # Nobody THEN bundle[lock][p] ELSE file[p]
Shelves == [p \in Piers |-> Shelf(p)]
Version == IF \E c \in Contexts : InWrite(c) THEN mtime + 1 ELSE mtime
Known == [c \in Contexts |-> IF InWrite(c) THEN mtime + 1 ELSE Knows(c)]
Wrote == [c \in Contexts |-> InWrite(c) \/ stamp[c] # 0]

(* Files, lock and times make a value that is replaced by compare-and-swap, *)
(* until the first accident: see Ledger for what that forbids.              *)
Ldg == INSTANCE Ledger WITH
  owner <- Owner, shelf <- Shelves, version <- Version, known <- Known,
  wrote <- Wrote, trusted <- sound, intact <- accidents = 0
Implements == Ldg!Spec

(* context.cpp:55-56: "The context is outdated" is an error.  Then no write *)
(* of an outdated context takes services away that others have added.       *)
NoLostUpdate == accidents = 0 => \A c \in Contexts : LostBy(c) = {}
=============================================================================

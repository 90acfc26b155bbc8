---------------------------- MODULE StoreProofs ----------------------------
(***************************************************************************)
(* Theorems about Store, for any contexts, piers, names and bounds.        *)
(*                                                                         *)
(* AgreesWithDisk is about contexts that rest.  The invariant follows one  *)
(* that can be trusted through its whole operation (Trust): what it waits  *)
(* for the lock with is the disk and one edit, what it writes completes    *)
(* the file it tore, what it leaves is the disk again.  For the others the *)
(* disk may change meanwhile, but then the lock is held (Locked) until     *)
(* the time outruns whatever they know (Clocked).                          *)
(*                                                                         *)
(* The same invariant carries the refinement of Ledger.  A write takes     *)
(* place there with its first step: from then on the file that is torn is  *)
(* seen as what its writer will make of it (Midway), and when nobody       *)
(* writes as what loading gives (Still).                                   *)
(***************************************************************************)
EXTENDS Store, TLAPS

Holding == {"save", "saving", "saved"}

Locked == \A c \in Contexts : pc[c] \in Holding <=> lock = c

Clocked == \A c \in Contexts : stamp[c] <= mtime /\ opened[c] <= mtime

Services == {"add", "del"}

(* A file of services is in a directory. *)
Filed ==
  /\ \A p \in Piers : dir[p] = "none" => file[p] = Absent
  /\ \A c \in Contexts :
       pc[c] = "saving" /\ op[c].kind \in Services => dir[op[c].pier] # "none"

(* Without accidents, who tore a file is still writing it. *)
TornInside ==
  accidents = 0 =>
    /\ conf \in Partial =>
         \E c \in Contexts : pc[c] = "saving" /\ op[c].kind \notin Services
    /\ \A p \in Piers : file[p] = Torn =>
         \E c \in Contexts : pc[c] = "saving" /\ op[c].kind \in Services /\ op[c].pier = p

\* No file is being changed.
Quiet == \A c \in Contexts : pc[c] \notin {"saving", "saved"}

Agrees(c) ==
  IF conf \in Unset
    THEN pier[c] = Nobody /\ bundle[c] = NoBundle
    ELSE pier[c] = conf /\ bundle[c] = Loaded

(* The bundle is what loading gives, but for the pier of the operation. *)
But(c) ==
  /\ conf \notin Unset /\ pier[c] = conf
  /\ \A p \in Piers : p # op[c].pier => bundle[c][p] = Loaded[p]

(* The memory is the disk with the edit of the operation. *)
Edited(c) ==
  LET p == op[c].pier
  IN  /\ op[c].kind \in Services =>
           /\ But(c)
           /\ Loaded[p] # Absent
           /\ bundle[c][p] # Absent
           /\ op[c].name \in Names
           /\ bundle[c][p] = IF op[c].kind = "add" THEN Loaded[p] \cup {op[c].name}
                             ELSE Loaded[p] \ {op[c].name}
      /\ op[c].kind \in {"config", "addpier", "delpier"} => conf \notin Unset /\ Agrees(c)
      /\ op[c].kind \in {"config", "identity"} => pier[c] = p
      /\ op[c].kind = "delpier" => pier[c] # p

(* The memory is what the disk will be when the file is written. *)
Writing(c) ==
  LET p == op[c].pier
  IN  /\ op[c].kind \in Services \cup {"config", "identity"}
      /\ op[c].kind \in Services =>
           But(c) /\ dir[p] \in {"cert", "pair"} /\ bundle[c][p] # Absent
      /\ op[c].kind \in {"config", "identity"} => pier[c] = p
      /\ op[c].kind = "config" => bundle[c] = Loaded

Trust(c) ==
  sound[c] =>
    /\ pc[c] = "idle" /\ Quiet /\ Knows(c) = mtime => Agrees(c)
    /\ pc[c] = "lock" /\ Quiet /\ Knows(c) = mtime => Edited(c)
    /\ pc[c] = "save" => Edited(c)
    /\ pc[c] = "saving" => Writing(c)
    /\ pc[c] = "saved" => Agrees(c)

Inv ==
  /\ TypeOK /\ Locked /\ Clocked /\ Filed /\ TornInside
  /\ \A c \in Contexts : Trust(c)

-----------------------------------------------------------------------------
(* What loading gives, and frames.                                         *)

LEMMA LoadedType ==
  ASSUME TypeOK, Readable
  PROVE  Loaded \in Bundles
BY DEF TypeOK, Readable, Loaded, Bundles

LEMMA NoBundleType == NoBundle \in Bundles
BY DEF NoBundle, Bundles

(* A context that does nothing, while another changes nothing on the disk. *)
LEMMA OthersKeep ==
  ASSUME NEW d \in Contexts, Trust(d), Quiet' => Quiet,
         conf' = conf, dir' = dir, file' = file, mtime' = mtime,
         pc'[d] = pc[d], op'[d] = op[d], pier'[d] = pier[d], bundle'[d] = bundle[d],
         stamp'[d] = stamp[d], opened'[d] = opened[d], sound'[d] => sound[d]
  PROVE  Trust(d)'
<1>1. Loaded' = Loaded /\ NoBundle' = NoBundle
  BY DEF Loaded, NoBundle
<1>2. Agrees(d) => Agrees(d)'
  BY <1>1 DEF Agrees
<1>3. Edited(d) => Edited(d)'
  BY <1>1, <1>2 DEF Edited, But
<1>4. Writing(d) => Writing(d)'
  BY <1>1 DEF Writing, But
<1>5. Knows(d)' = Knows(d)
  BY DEF Knows
<1>6. QED
  BY <1>2, <1>3, <1>4, <1>5 DEF Trust

(* A context that doesn't hold the lock, while another changes the disk.   *)
LEMMA OthersWait ==
  ASSUME Locked, NEW c \in Contexts, lock = c, pc'[c] \in {"saving", "saved"},
         NEW d \in Contexts, d # c, pc'[d] = pc[d]
  PROVE  Trust(d)'
BY DEF Locked, Holding, Trust, Quiet

-----------------------------------------------------------------------------
(* open_context and the ends of a context.                                 *)

LEMMA OpenInv ==
  ASSUME Inv, NEW c \in Contexts, Open(c)
  PROVE  Inv'
<1>1. /\ pc[c] = "closed" /\ lock = Nobody /\ conf # Torn /\ (conf \notin Unset => Readable)
      /\ pc' = [pc EXCEPT ![c] = "idle"]
      /\ pier' = [pier EXCEPT ![c] = IF conf \in Unset THEN Nobody ELSE conf]
      /\ bundle' = [bundle EXCEPT ![c] = IF conf \in Unset THEN NoBundle ELSE Loaded]
      /\ stamp' = [stamp EXCEPT ![c] = 0]
      /\ opened' = [opened EXCEPT ![c] = mtime]
      /\ sound' = [sound EXCEPT ![c] = TRUE]
      /\ conf' = conf /\ dir' = dir /\ file' = file /\ mtime' = mtime /\ lock' = lock
      /\ op' = op /\ accidents' = accidents
  BY DEF Open, disk
<1>2. TypeOK'
  <2>1. (IF conf \in Unset THEN Nobody ELSE conf) \in Piers \cup {Nobody}
    BY <1>1 DEF Inv, TypeOK, Unset
  <2>2. (IF conf \in Unset THEN NoBundle ELSE Loaded) \in Bundles
    BY <1>1, LoadedType, NoBundleType DEF Inv
  <2>3. bundle' \in [Contexts -> Bundles] /\ pier' \in [Contexts -> Piers \cup {Nobody}]
    BY <1>1, <2>1, <2>2 DEF Inv, TypeOK
  <2>4. sound' \in [Contexts -> BOOLEAN]
    BY <1>1 DEF Inv, TypeOK
  <2>5. QED
    BY <1>1, <2>3, <2>4 DEF Inv, TypeOK, Places
<1>3. Locked' /\ Clocked' /\ Filed' /\ TornInside'
  BY <1>1 DEF Inv, TypeOK, Locked, Holding, Clocked, Filed, TornInside
<1>4. ASSUME NEW d \in Contexts PROVE Trust(d)'
  <2>1. Loaded' = Loaded /\ NoBundle' = NoBundle
    BY <1>1 DEF Loaded, NoBundle
  <2>2. CASE d = c
    BY <1>1, <2>1, <2>2 DEF Inv, TypeOK, Trust, Agrees
  <2>3. CASE d # c
    <3>1. /\ pc'[d] = pc[d] /\ op'[d] = op[d] /\ pier'[d] = pier[d]
          /\ bundle'[d] = bundle[d] /\ stamp'[d] = stamp[d] /\ opened'[d] = opened[d]
          /\ sound'[d] = sound[d]
      BY <1>1, <2>3 DEF Inv, TypeOK
    <3>2. Quiet' => Quiet
      BY <1>1 DEF Inv, TypeOK, Quiet
    <3>3. QED
      BY <1>1, <3>1, <3>2, OthersKeep DEF Inv
  <2>4. QED
    BY <2>2, <2>3
<1>5. QED
  BY <1>2, <1>3, <1>4 DEF Inv

(* A context that is closed, whatever it was doing. *)
LEMMA ClosedRight ==
  ASSUME Inv, NEW c \in Contexts, Closed(c), UNCHANGED <<disk, mtime>>,
         sound' \in [Contexts -> BOOLEAN], sound'[c] = FALSE, accidents' \in Nat,
         lock' = IF lock = c THEN Nobody ELSE lock,
         accidents' = 0 => accidents = 0 /\ pc[c] # "saving",
         \A d \in Contexts : d # c => (sound'[d] => sound[d] /\ pc[c] \notin {"saving", "saved"})
  PROVE  Inv'
<1>1. /\ pc' = [pc EXCEPT ![c] = "closed"]
      /\ op' = [op EXCEPT ![c] = Nobody]
      /\ pier' = [pier EXCEPT ![c] = Nobody]
      /\ bundle' = [bundle EXCEPT ![c] = NoBundle]
      /\ stamp' = [stamp EXCEPT ![c] = 0]
      /\ opened' = [opened EXCEPT ![c] = 0]
      /\ conf' = conf /\ dir' = dir /\ file' = file /\ mtime' = mtime
  BY DEF Closed, disk
<1>2. TypeOK'
  <2>1. bundle' \in [Contexts -> Bundles] /\ pier' \in [Contexts -> Piers \cup {Nobody}]
    BY <1>1, NoBundleType DEF Inv, TypeOK
  <2>2. QED
    BY <1>1, <2>1 DEF Inv, TypeOK, Places
<1>3. Locked'
  BY <1>1, NamesAssumption DEF Inv, TypeOK, Locked, Holding
<1>4. Clocked'
  BY <1>1 DEF Inv, TypeOK, Clocked
<1>5. Filed'
  BY <1>1 DEF Inv, TypeOK, Filed
<1>6. TornInside'
  BY <1>1 DEF Inv, TypeOK, TornInside
<1>7. ASSUME NEW d \in Contexts PROVE Trust(d)'
  <2>1. CASE d = c
    BY <2>1 DEF Trust
  <2>2. CASE d # c
    <3>1. /\ pc'[d] = pc[d] /\ op'[d] = op[d] /\ pier'[d] = pier[d]
          /\ bundle'[d] = bundle[d] /\ stamp'[d] = stamp[d] /\ opened'[d] = opened[d]
      BY <1>1, <2>2 DEF Inv, TypeOK
    <3>2. CASE sound'[d]
      <4>1. Quiet' => Quiet
        BY <1>1, <2>2, <3>2 DEF Inv, TypeOK, Quiet
      <4>2. QED
        BY <1>1, <2>2, <3>1, <4>1, OthersKeep DEF Inv
    <3>3. CASE ~sound'[d]
      BY <3>3 DEF Trust
    <3>4. QED
      BY <3>2, <3>3
  <2>3. QED
    BY <2>1, <2>2
<1>8. QED
  BY <1>2, <1>3, <1>4, <1>5, <1>6, <1>7 DEF Inv

LEMMA CloseInv ==
  ASSUME Inv, NEW c \in Contexts, Close(c)
  PROVE  Inv'
<1>1. sound' = [sound EXCEPT ![c] = FALSE] /\ pc[c] = "idle"
  BY DEF Close
<1>2. sound' \in [Contexts -> BOOLEAN] /\ sound'[c] = FALSE
  BY <1>1 DEF Inv, TypeOK
<1>3. \A d \in Contexts : d # c => (sound'[d] => sound[d])
  BY <1>1 DEF Inv, TypeOK
<1>4. lock # c
  BY <1>1 DEF Inv, Locked, Holding
<1>5. accidents' \in Nat
  BY DEF Close, Inv, TypeOK
<1>6. QED
  BY <1>1, <1>2, <1>3, <1>4, <1>5, ClosedRight DEF Close

LEMMA CrashInv ==
  ASSUME Inv, NEW c \in Contexts, Crash(c)
  PROVE  Inv'
<1>1. CASE pc[c] \in {"saving", "saved"}
  <2>1. sound' = [d \in Contexts |-> FALSE] /\ accidents' = accidents + 1
    BY <1>1 DEF Crash
  <2>2. sound' \in [Contexts -> BOOLEAN] /\ \A d \in Contexts : sound'[d] = FALSE
    BY <2>1
  <2>3. accidents' \in Nat /\ accidents' # 0
    BY <2>1 DEF Inv, TypeOK
  <2>4. QED
    BY <2>2, <2>3, ClosedRight DEF Crash
<1>2. CASE pc[c] \notin {"saving", "saved"}
  <2>1. sound' = [sound EXCEPT ![c] = FALSE] /\ accidents' = accidents
    BY <1>2 DEF Crash
  <2>2. sound' \in [Contexts -> BOOLEAN] /\ sound'[c] = FALSE
    BY <2>1 DEF Inv, TypeOK
  <2>3. \A d \in Contexts : d # c => (sound'[d] => sound[d])
    BY <2>1 DEF Inv, TypeOK
  <2>4. accidents' \in Nat
    BY <2>1 DEF Inv, TypeOK
  <2>5. QED
    BY <1>2, <2>1, <2>2, <2>3, <2>4, ClosedRight DEF Crash
<1>3. QED
  BY <1>1, <1>2

-----------------------------------------------------------------------------
(* The edits.                                                              *)

LEMMA BeginInv ==
  ASSUME Inv, NEW c \in Contexts, NEW o \in Operation, Begin(c, o),
         pier' \in [Contexts -> Piers \cup {Nobody}], bundle' \in [Contexts -> Bundles],
         \A d \in Contexts : d # c => pier'[d] = pier[d] /\ bundle'[d] = bundle[d],
         Agrees(c) => Edited(c)'
  PROVE  Inv'
<1>1. /\ pc[c] = "idle"
      /\ pc' = [pc EXCEPT ![c] = "lock"]
      /\ op' = [op EXCEPT ![c] = o]
      /\ conf' = conf /\ dir' = dir /\ file' = file /\ mtime' = mtime /\ lock' = lock
      /\ stamp' = stamp /\ opened' = opened /\ sound' = sound /\ accidents' = accidents
  BY DEF Begin, disk
<1>2. TypeOK'
  BY <1>1 DEF Inv, TypeOK, Places
<1>3. Locked' /\ Clocked' /\ Filed' /\ TornInside'
  BY <1>1 DEF Inv, TypeOK, Locked, Holding, Clocked, Filed, TornInside
<1>4. Quiet' => Quiet
  BY <1>1 DEF Inv, TypeOK, Quiet
<1>5. ASSUME NEW d \in Contexts PROVE Trust(d)'
  <2>1. CASE d = c
    <3>1. pc'[c] = "lock" /\ Knows(c)' = Knows(c) /\ sound'[c] = sound[c]
      BY <1>1 DEF Inv, TypeOK, Knows
    <3>2. sound[c] /\ Quiet /\ Knows(c) = mtime => Agrees(c)
      BY <1>1 DEF Inv, Trust
    <3>3. QED
      BY <1>1, <1>4, <2>1, <3>1, <3>2 DEF Trust
  <2>2. CASE d # c
    <3>1. pc'[d] = pc[d] /\ op'[d] = op[d]
      BY <1>1, <2>2 DEF Inv, TypeOK
    <3>2. QED
      BY <1>1, <1>4, <2>2, <3>1, OthersKeep DEF Inv
  <2>3. QED
    BY <2>1, <2>2
<1>6. QED
  BY <1>2, <1>3, <1>5 DEF Inv

(* What an edit of the memory leaves as it was. *)
LEMMA BeginFrame ==
  ASSUME Inv, NEW c \in Contexts, NEW o \in Operation, Begin(c, o)
  PROVE  /\ op'[c] = o /\ conf' = conf /\ Loaded' = Loaded /\ NoBundle' = NoBundle
         /\ bundle[c] \in Bundles
BY DEF Inv, TypeOK, Begin, disk, Loaded, NoBundle

LEMMA AddServiceInv ==
  ASSUME Inv, NEW c \in Contexts, NEW p \in Piers, NEW n \in Names, AddService(c, p, n)
  PROVE  Inv'
<1> DEFINE o == [kind |-> "add", pier |-> p, name |-> n]
<1>1. /\ bundle[c][p] # Absent /\ Begin(c, o) /\ pier' = pier
      /\ bundle' = [bundle EXCEPT ![c] = [bundle[c] EXCEPT ![p] = bundle[c][p] \cup {n}]]
  BY DEF AddService
<1>2. o \in Operation /\ o.kind = "add" /\ o.pier = p /\ o.name = n
  BY DEF Operation, Kinds
<1> HIDE DEF o
<1>3. bundle[c] \in Bundles /\ bundle[c][p] \in SUBSET Names
  BY <1>1 DEF Inv, TypeOK, Bundles
<1>4. [bundle[c] EXCEPT ![p] = bundle[c][p] \cup {n}] \in Bundles
  BY <1>3 DEF Bundles
<1>5. bundle' \in [Contexts -> Bundles]
  BY <1>1, <1>4 DEF Inv, TypeOK
<1>6. bundle'[c] = [bundle[c] EXCEPT ![p] = bundle[c][p] \cup {n}]
  BY <1>1 DEF Inv, TypeOK
<1>7. bundle'[c][p] = bundle[c][p] \cup {n} /\ \A q \in Piers : q # p => bundle'[c][q] = bundle[c][q]
  BY <1>3, <1>6 DEF Bundles
<1>8. ASSUME Agrees(c) PROVE Edited(c)'
  <2>1. op'[c] = o /\ conf' = conf /\ Loaded' = Loaded
    BY <1>1, <1>2, BeginFrame
  <2>2. conf \notin Unset /\ pier[c] = conf /\ bundle[c] = Loaded
    BY <1>1, <1>8 DEF Agrees, NoBundle
  <2>3. But(c)'
    BY <1>1, <1>2, <1>7, <2>1, <2>2 DEF But
  <2>4. bundle'[c][p] # Absent
    BY <1>3, <1>7, NamesAssumption
  <2>5. QED
    BY <1>1, <1>2, <1>7, <2>1, <2>2, <2>3, <2>4 DEF Edited
<1>9. pier' \in [Contexts -> Piers \cup {Nobody}]
  BY <1>1 DEF Inv, TypeOK
<1>10. \A d \in Contexts : d # c => pier'[d] = pier[d] /\ bundle'[d] = bundle[d]
  BY <1>1 DEF Inv, TypeOK
<1>11. QED
  BY <1>1, <1>2, <1>5, <1>8, <1>9, <1>10, BeginInv

LEMMA DelServiceInv ==
  ASSUME Inv, NEW c \in Contexts, NEW p \in Piers, NEW n \in Names, DelService(c, p, n)
  PROVE  Inv'
<1> DEFINE o == [kind |-> "del", pier |-> p, name |-> n]
<1>1. /\ bundle[c][p] # Absent /\ Begin(c, o) /\ pier' = pier
      /\ bundle' = [bundle EXCEPT ![c] = [bundle[c] EXCEPT ![p] = bundle[c][p] \ {n}]]
  BY DEF DelService
<1>2. o \in Operation /\ o.kind = "del" /\ o.pier = p /\ o.name = n
  BY DEF Operation, Kinds
<1> HIDE DEF o
<1>3. bundle[c] \in Bundles /\ bundle[c][p] \in SUBSET Names
  BY <1>1 DEF Inv, TypeOK, Bundles
<1>4. [bundle[c] EXCEPT ![p] = bundle[c][p] \ {n}] \in Bundles
  BY <1>3 DEF Bundles
<1>5. bundle' \in [Contexts -> Bundles]
  BY <1>1, <1>4 DEF Inv, TypeOK
<1>6. bundle'[c] = [bundle[c] EXCEPT ![p] = bundle[c][p] \ {n}]
  BY <1>1 DEF Inv, TypeOK
<1>7. bundle'[c][p] = bundle[c][p] \ {n} /\ \A q \in Piers : q # p => bundle'[c][q] = bundle[c][q]
  BY <1>3, <1>6 DEF Bundles
<1>8. ASSUME Agrees(c) PROVE Edited(c)'
  <2>1. op'[c] = o /\ conf' = conf /\ Loaded' = Loaded
    BY <1>1, <1>2, BeginFrame
  <2>2. conf \notin Unset /\ pier[c] = conf /\ bundle[c] = Loaded
    BY <1>1, <1>8 DEF Agrees, NoBundle
  <2>3. But(c)'
    BY <1>1, <1>2, <1>7, <2>1, <2>2 DEF But
  <2>4. bundle'[c][p] # Absent
    BY <1>3, <1>7, NamesAssumption
  <2>5. QED
    BY <1>1, <1>2, <1>7, <2>1, <2>2, <2>3, <2>4 DEF Edited
<1>9. pier' \in [Contexts -> Piers \cup {Nobody}]
  BY <1>1 DEF Inv, TypeOK
<1>10. \A d \in Contexts : d # c => pier'[d] = pier[d] /\ bundle'[d] = bundle[d]
  BY <1>1 DEF Inv, TypeOK
<1>11. QED
  BY <1>1, <1>2, <1>5, <1>8, <1>9, <1>10, BeginInv

LEMMA SetConfigInv ==
  ASSUME Inv, NEW c \in Contexts, NEW p \in Piers, SetConfig(c, p)
  PROVE  Inv'
<1>1. CASE p = pier[c]
  <2> DEFINE o == [kind |-> "config", pier |-> p, name |-> Nobody]
  <2>1. Begin(c, o) /\ pier' = pier /\ bundle' = bundle
    BY <1>1 DEF SetConfig, memory
  <2>2. o \in Operation /\ o.kind = "config" /\ o.pier = p
    BY DEF Operation, Kinds
  <2> HIDE DEF o
  <2>3. ASSUME Agrees(c) PROVE Edited(c)'
    <3>1. op'[c] = o /\ conf' = conf /\ Loaded' = Loaded
      BY <2>1, <2>2, BeginFrame
    <3>2. conf \notin Unset
      BY <1>1, <2>3, NamesAssumption DEF Agrees
    <3>3. QED
      BY <1>1, <2>1, <2>2, <2>3, <3>1, <3>2 DEF Edited, Agrees, Services
  <2>4. pier' \in [Contexts -> Piers \cup {Nobody}] /\ bundle' \in [Contexts -> Bundles]
    BY <2>1 DEF Inv, TypeOK
  <2>5. QED
    BY <2>1, <2>2, <2>3, <2>4, BeginInv
<1>2. CASE p # pier[c]
  <2> DEFINE o == [kind |-> "identity", pier |-> p, name |-> Nobody]
  <2>1. /\ Begin(c, o)
        /\ pier' = [pier EXCEPT ![c] = p]
        /\ bundle' = [bundle EXCEPT ![c] = [NoBundle EXCEPT ![p] = {}]]
    BY <1>2 DEF SetConfig
  <2>2. o \in Operation /\ o.kind = "identity" /\ o.pier = p
    BY DEF Operation, Kinds
  <2> HIDE DEF o
  <2>3. [NoBundle EXCEPT ![p] = {}] \in Bundles
    BY DEF NoBundle, Bundles
  <2>4. bundle' \in [Contexts -> Bundles]
    BY <2>1, <2>3 DEF Inv, TypeOK
  <2>5. pier' \in [Contexts -> Piers \cup {Nobody}] /\ pier'[c] = p
    BY <2>1 DEF Inv, TypeOK
  <2>6. \A d \in Contexts : d # c => pier'[d] = pier[d] /\ bundle'[d] = bundle[d]
    BY <2>1 DEF Inv, TypeOK
  <2>7. op'[c] = o
    BY <2>1, <2>2, BeginFrame
  <2>8. Edited(c)'
    BY <2>2, <2>5, <2>7 DEF Edited, Services
  <2>9. QED
    BY <2>1, <2>2, <2>4, <2>5, <2>6, <2>8, BeginInv
<1>3. QED
  BY <1>1, <1>2

(* add_pier and del_pier edit nothing before they have the lock. *)
LEMMA PierInv ==
  ASSUME Inv, NEW c \in Contexts, NEW p \in Piers, AddPier(c, p) \/ DelPier(c, p)
  PROVE  Inv'
<1>1. PICK k \in {"addpier", "delpier"} :
        /\ pier[c] # Nobody /\ (k = "delpier" => pier[c] # p)
        /\ Begin(c, [kind |-> k, pier |-> p, name |-> Nobody])
        /\ pier' = pier /\ bundle' = bundle
  BY DEF AddPier, DelPier, memory
<1> DEFINE o == [kind |-> k, pier |-> p, name |-> Nobody]
<1>2. o \in Operation /\ o.kind = k /\ o.pier = p
  BY DEF Operation, Kinds
<1>3. Begin(c, o)
  BY <1>1
<1> HIDE DEF o
<1>4. ASSUME Agrees(c) PROVE Edited(c)'
  <2>1. op'[c] = o /\ conf' = conf /\ Loaded' = Loaded
    BY <1>2, <1>3, BeginFrame
  <2>2. QED
    BY <1>1, <1>2, <1>4, <2>1 DEF Edited, Agrees, Services
<1>5. pier' \in [Contexts -> Piers \cup {Nobody}] /\ bundle' \in [Contexts -> Bundles]
  BY <1>1 DEF Inv, TypeOK
<1>6. QED
  BY <1>1, <1>2, <1>3, <1>4, <1>5, BeginInv

-----------------------------------------------------------------------------
(* The write.                                                              *)

LEMMA LockInv ==
  ASSUME Inv, NEW c \in Contexts, Lock(c)
  PROVE  Inv'
<1>1. /\ pc[c] = "lock" /\ lock = Nobody
      /\ conf' = conf /\ dir' = dir /\ file' = file /\ mtime' = mtime /\ op' = op
      /\ pier' = pier /\ bundle' = bundle /\ stamp' = stamp /\ opened' = opened
      /\ accidents' = accidents
  BY DEF Lock, disk, memory
<1>2. Quiet
  BY <1>1, NamesAssumption DEF Inv, Locked, Holding, Quiet
<1>3. ASSUME NEW to \in {"idle", "save"}, pc' = [pc EXCEPT ![c] = to],
             lock' = IF to = "save" THEN c ELSE Nobody,
             sound' \in [Contexts -> BOOLEAN],
             \A d \in Contexts : sound'[d] => sound[d],
             sound'[c] => to = "save" /\ Knows(c) = mtime
      PROVE  Inv'
  <2>1. TypeOK'
    BY <1>1, <1>3 DEF Inv, TypeOK, Places
  <2>2. Locked' /\ Clocked' /\ Filed' /\ TornInside'
    BY <1>1, <1>3, NamesAssumption DEF Inv, TypeOK, Locked, Holding, Clocked, Filed, TornInside
  <2>3. ASSUME NEW d \in Contexts PROVE Trust(d)'
    <3>1. CASE d = c
      <4>1. sound'[c] => Edited(c)
        BY <1>1, <1>2, <1>3 DEF Inv, Trust
      <4>2. Edited(c) => Edited(c)'
        BY <1>1 DEF Edited, But, Agrees, Loaded, NoBundle
      <4>3. sound'[c] => pc'[c] = "save"
        BY <1>3 DEF Inv, TypeOK
      <4>4. QED
        BY <3>1, <4>1, <4>2, <4>3 DEF Trust
    <3>2. CASE d # c
      <4>1. pc'[d] = pc[d]
        BY <1>3, <3>2 DEF Inv, TypeOK
      <4>2. QED
        BY <1>1, <1>2, <1>3, <4>1, OthersKeep DEF Inv
    <3>3. QED
      BY <3>1, <3>2
  <2>4. QED
    BY <2>1, <2>2, <2>3 DEF Inv
<1>4. CASE Stale(c)
  <2>1. /\ pc' = [pc EXCEPT ![c] = "idle"] /\ sound' = [sound EXCEPT ![c] = FALSE]
        /\ lock' = Nobody
    BY <1>1, <1>4 DEF Lock
  <2>2. sound' \in [Contexts -> BOOLEAN] /\ sound'[c] = FALSE
    BY <2>1 DEF Inv, TypeOK
  <2>3. \A d \in Contexts : sound'[d] => sound[d]
    BY <2>1 DEF Inv, TypeOK
  <2>4. QED
    BY <1>3, <2>1, <2>2, <2>3
<1>5. CASE ~Stale(c)
  <2> DEFINE still == sound[c] /\ (stamp[c] = 0 => opened[c] = mtime)
  <2>1. /\ pc' = [pc EXCEPT ![c] = "save"] /\ sound' = [sound EXCEPT ![c] = still]
        /\ lock' = c
    BY <1>5 DEF Lock
  <2>2. still => sound[c] /\ Knows(c) = mtime
    BY <1>5 DEF Stale, Knows
  <2>3. still \in BOOLEAN
    BY DEF Inv, TypeOK
  <2> HIDE DEF still
  <2>4. sound' \in [Contexts -> BOOLEAN] /\ sound'[c] = still
    BY <2>1, <2>3 DEF Inv, TypeOK
  <2>5. \A d \in Contexts : sound'[d] => sound[d]
    BY <2>1, <2>2, <2>4 DEF Inv, TypeOK
  <2>6. QED
    BY <1>3, <2>1, <2>2, <2>4, <2>5
<1>6. QED
  BY <1>4, <1>5

(* The context with the lock goes on to write, or is done with it. *)
LEMMA WriterInv ==
  ASSUME Inv, NEW c \in Contexts, lock = c, NEW to \in {"saving", "saved"},
         pc' = [pc EXCEPT ![c] = to], mtime' = mtime, lock' = lock, stamp' = stamp,
         opened' = opened, op' = op, pier' = pier,
         TypeOK', Filed', TornInside', Trust(c)'
  PROVE  Inv'
<1>1. Locked'
  BY DEF Inv, TypeOK, Locked, Holding
<1>2. Clocked'
  BY DEF Inv, Clocked
<1>3. ASSUME NEW d \in Contexts, d # c PROVE Trust(d)'
  <2>1. pc'[c] \in {"saving", "saved"} /\ pc'[d] = pc[d]
    BY <1>3 DEF Inv, TypeOK
  <2>2. QED
    BY <1>3, <2>1, OthersWait DEF Inv
<1>4. QED
  BY <1>1, <1>2, <1>3 DEF Inv

(* Nobody else writes, so nothing is torn by now. *)
LEMMA WriterAlone ==
  ASSUME Inv, NEW c \in Contexts, lock = c
  PROVE  /\ \A d \in Contexts : d # c => pc[d] \notin Holding
         /\ pc[c] \in Holding
         /\ op[c] \in Operation
         /\ pc[c] # "saving" /\ accidents = 0 => conf \notin Partial /\ \A p \in Piers : file[p] # Torn
<1>1. /\ \A d \in Contexts : d # c => pc[d] \notin Holding
      /\ pc[c] \in Holding
  BY DEF Inv, Locked
<1>2. op[c] \in Operation
  BY <1>1 DEF Inv, TypeOK, Holding
<1>3. pc[c] # "saving" /\ accidents = 0 => conf \notin Partial /\ \A p \in Piers : file[p] # Torn
  BY <1>1 DEF Inv, TornInside, Holding
<1>4. QED
  BY <1>1, <1>2, <1>3

LEMMA SaveServicesInv ==
  ASSUME Inv, NEW c \in Contexts, SaveServices(c)
  PROVE  Inv'
<1> DEFINE p == op[c].pier
<1>1. /\ pc[c] = "save" /\ lock = c /\ op[c].kind \in Services /\ dir[p] # "none"
      /\ file' = [file EXCEPT ![p] = Torn]
      /\ pc' = [pc EXCEPT ![c] = "saving"]
      /\ conf' = conf /\ dir' = dir /\ mtime' = mtime /\ lock' = lock /\ op' = op
      /\ pier' = pier /\ bundle' = bundle /\ stamp' = stamp /\ opened' = opened
      /\ sound' = sound /\ accidents' = accidents
  BY DEF SaveServices, Holds, memory, Services
<1>2. p \in Piers /\ op[c].kind \in Kinds
  BY <1>1, WriterAlone DEF Operation
<1> HIDE DEF p
<1>3. pc'[c] = "saving" /\ \A d \in Contexts : d # c => pc'[d] = pc[d] /\ pc[d] \notin Holding
  BY <1>1, WriterAlone DEF Inv, TypeOK
<1>4. file'[p] = Torn /\ \A q \in Piers : q # p => file'[q] = file[q]
  BY <1>1, <1>2 DEF Inv, TypeOK
<1>5. TypeOK'
  BY <1>1, <1>2 DEF Inv, TypeOK, Places
<1>6. Filed'
  BY <1>1, <1>2, <1>3, <1>4 DEF Inv, Filed, Holding, p
<1>7. TornInside'
  BY <1>1, <1>2, <1>3, <1>4, WriterAlone DEF TornInside, Holding, p
<1>8. Trust(c)'
  <2>1. ASSUME sound[c] PROVE Writing(c)'
    <3>1. Edited(c)
      BY <1>1, <2>1 DEF Inv, Trust
    <3>2. \A q \in Piers : q # p => Loaded'[q] = Loaded[q]
      BY <1>1, <1>4 DEF Loaded
    <3>3. But(c)'
      BY <1>1, <3>1, <3>2 DEF Edited, But, p
    <3>4. dir[p] \in {"cert", "pair"}
      BY <1>1, <1>2, <3>1 DEF Edited, Loaded, p
    <3>5. QED
      BY <1>1, <3>1, <3>3, <3>4 DEF Writing, Edited, Services, p
  <2>2. QED
    BY <1>1, <1>3, <2>1 DEF Trust
<1>9. QED
  BY <1>1, <1>5, <1>6, <1>7, <1>8, WriterInv

LEMMA SaveConfigInv ==
  ASSUME Inv, NEW c \in Contexts, SaveConfig(c)
  PROVE  Inv'
<1> DEFINE p == op[c].pier
<1>1. /\ pc[c] = "save" /\ lock = c /\ op[c].kind \in {"config", "identity"}
      /\ conf' \in Partial
      /\ pc' = [pc EXCEPT ![c] = "saving"]
      /\ file' = file /\ mtime' = mtime /\ lock' = lock /\ op' = op
      /\ pier' = pier /\ bundle' = bundle /\ stamp' = stamp /\ opened' = opened
      /\ sound' = sound /\ accidents' = accidents
  BY DEF SaveConfig, Holds, memory
<1>2. p \in Piers
  BY <1>1, WriterAlone DEF Operation
<1>3. \/ op[c].kind = "identity"
         /\ dir' = [dir EXCEPT ![p] = IF dir[p] \in {"none", "empty"} THEN "pair" ELSE dir[p]]
      \/ op[c].kind = "config" /\ dir' = dir
  BY <1>1 DEF SaveConfig
<1> HIDE DEF p
<1>4. pc'[c] = "saving" /\ \A d \in Contexts : d # c => pc'[d] = pc[d] /\ pc[d] \notin Holding
  BY <1>1, WriterAlone DEF Inv, TypeOK
<1>5. dir' \in [Piers -> Directories] /\ \A q \in Piers : dir'[q] = "none" => dir[q] = "none"
  BY <1>2, <1>3 DEF Inv, TypeOK, Directories
<1>6. TypeOK'
  BY <1>1, <1>5 DEF Inv, TypeOK, Places, Partial
<1>7. Filed'
  BY <1>1, <1>4, <1>5 DEF Inv, Filed, Holding, Services
<1>8. TornInside'
  BY <1>1, <1>4, WriterAlone DEF TornInside, Holding, Services
<1>9. Trust(c)'
  <2>1. ASSUME sound[c] PROVE Writing(c)'
    <3>1. Edited(c)
      BY <1>1, <2>1 DEF Inv, Trust
    <3>2. op[c].kind = "config" => bundle[c] = Loaded
      BY <3>1 DEF Edited, Agrees
    <3>3. op[c].kind = "config" => Loaded' = Loaded
      BY <1>1, <1>3 DEF Loaded
    <3>4. QED
      BY <1>1, <3>1, <3>2, <3>3 DEF Writing, Edited, Services
  <2>2. QED
    BY <1>1, <1>4, <2>1 DEF Trust
<1>10. QED
  BY <1>1, <1>6, <1>7, <1>8, <1>9, WriterInv

LEMMA SavePierInv ==
  ASSUME Inv, NEW c \in Contexts, SavePier(c)
  PROVE  Inv'
<1> DEFINE p == op[c].pier
<1>1. /\ pc[c] = "save" /\ lock = c /\ op[c].kind = "addpier"
      /\ pc' = [pc EXCEPT ![c] = "saved"]
      /\ conf' = conf /\ file' = file /\ mtime' = mtime /\ lock' = lock /\ op' = op
      /\ pier' = pier /\ stamp' = stamp /\ opened' = opened
      /\ sound' = sound /\ accidents' = accidents
  BY DEF SavePier, Holds
<1>2. p \in Piers
  BY <1>1, WriterAlone DEF Operation
<1>3. \/ dir' = dir /\ bundle' = bundle
      \/ /\ dir[p] = "none"
         /\ dir' = [dir EXCEPT ![p] = "cert"]
         /\ bundle' = [bundle EXCEPT ![c] =
                         [bundle[c] EXCEPT ![p] = IF bundle[c][p] = Absent THEN {} ELSE bundle[c][p]]]
      \/ dir[p] = "none" /\ dir' = [dir EXCEPT ![p] = "empty"] /\ bundle' = bundle
  BY DEF SavePier
<1> HIDE DEF p
<1>4. pc'[c] = "saved" /\ \A d \in Contexts : d # c => pc'[d] = pc[d] /\ pc[d] \notin Holding
  BY <1>1, WriterAlone DEF Inv, TypeOK
<1>5. dir' \in [Piers -> Directories] /\ \A q \in Piers : dir'[q] = "none" => dir[q] = "none"
  BY <1>2, <1>3 DEF Inv, TypeOK, Directories
<1>6. bundle' \in [Contexts -> Bundles]
  <2>1. bundle[c] \in Bundles
    BY DEF Inv, TypeOK
  <2>2. [bundle[c] EXCEPT ![p] = IF bundle[c][p] = Absent THEN {} ELSE bundle[c][p]] \in Bundles
    BY <1>2, <2>1 DEF Bundles
  <2>3. QED
    BY <1>3, <2>2 DEF Inv, TypeOK
<1>7. TypeOK'
  BY <1>1, <1>5, <1>6 DEF Inv, TypeOK, Places
<1>8. Filed'
  BY <1>1, <1>4, <1>5 DEF Inv, Filed, Holding
<1>9. TornInside'
  BY <1>1, <1>4, WriterAlone DEF TornInside, Holding
<1>10. Trust(c)'
  <2>1. ASSUME sound[c] PROVE Agrees(c)'
    <3>1. conf \notin Unset /\ pier[c] = conf /\ bundle[c] = Loaded
      BY <1>1, <2>1 DEF Inv, Trust, Edited, Agrees
    <3>2. bundle'[c] = Loaded'
      <4>1. CASE dir' = dir /\ bundle' = bundle
        BY <1>1, <3>1, <4>1 DEF Loaded
      <4>2. CASE dir[p] = "none" /\ dir' = [dir EXCEPT ![p] = "empty"] /\ bundle' = bundle
        BY <1>1, <1>2, <3>1, <4>2 DEF Loaded, Inv, TypeOK
      <4>3. CASE /\ dir[p] = "none" /\ dir' = [dir EXCEPT ![p] = "cert"]
                 /\ bundle' = [bundle EXCEPT ![c] =
                       [bundle[c] EXCEPT ![p] = IF bundle[c][p] = Absent THEN {} ELSE bundle[c][p]]]
        <5>1. file[p] = Absent /\ bundle[c][p] = Absent
          BY <1>2, <3>1, <4>3 DEF Inv, Filed, Loaded
        <5>2. bundle'[c] = [bundle[c] EXCEPT ![p] = {}]
          BY <4>3, <5>1 DEF Inv, TypeOK
        <5>3. Loaded' = [Loaded EXCEPT ![p] = {}]
          BY <1>1, <1>2, <4>3, <5>1 DEF Loaded, Inv, TypeOK
        <5>4. QED
          BY <3>1, <5>2, <5>3
      <4>4. QED
        BY <1>3, <4>1, <4>2, <4>3
    <3>3. QED
      BY <1>1, <3>1, <3>2 DEF Agrees
  <2>2. QED
    BY <1>1, <1>4, <2>1 DEF Trust
<1>11. QED
  BY <1>1, <1>7, <1>8, <1>9, <1>10, WriterInv

LEMMA RemovePierInv ==
  ASSUME Inv, NEW c \in Contexts, RemovePier(c)
  PROVE  Inv'
<1> DEFINE p == op[c].pier
<1>1. /\ pc[c] = "save" /\ lock = c /\ op[c].kind = "delpier"
      /\ pc' = [pc EXCEPT ![c] = "saved"]
      /\ bundle' = [bundle EXCEPT ![c] = [bundle[c] EXCEPT ![p] = Absent]]
      /\ conf' = conf /\ mtime' = mtime /\ lock' = lock /\ op' = op
      /\ pier' = pier /\ stamp' = stamp /\ opened' = opened
  BY DEF RemovePier, Holds
<1>2. p \in Piers
  BY <1>1, WriterAlone DEF Operation
<1>3. \/ /\ dir' = [dir EXCEPT ![p] = "none"] /\ file' = [file EXCEPT ![p] = Absent]
         /\ sound' = sound /\ accidents' = accidents
      \/ /\ dir' = dir /\ file' = file
         /\ sound' = [sound EXCEPT ![c] = FALSE] /\ accidents' = accidents + 1
  BY DEF RemovePier
<1> HIDE DEF p
<1>4. pc'[c] = "saved" /\ \A d \in Contexts : d # c => pc'[d] = pc[d] /\ pc[d] \notin Holding
  BY <1>1, WriterAlone DEF Inv, TypeOK
<1>5. bundle[c] \in Bundles /\ [bundle[c] EXCEPT ![p] = Absent] \in Bundles
  BY <1>2 DEF Inv, TypeOK, Bundles
<1>6. TypeOK'
  <2>1. bundle' \in [Contexts -> Bundles]
    BY <1>1, <1>5 DEF Inv, TypeOK
  <2>2. dir' \in [Piers -> Directories]
    BY <1>3 DEF Inv, TypeOK, Directories
  <2>3. file' \in [Piers -> {Absent, Torn} \cup SUBSET Names]
    BY <1>3 DEF Inv, TypeOK
  <2>4. accidents' \in Nat
    BY <1>3 DEF Inv, TypeOK
  <2>5. sound' \in [Contexts -> BOOLEAN]
    BY <1>3 DEF Inv, TypeOK
  <2>6. QED
    BY <1>1, <2>1, <2>2, <2>3, <2>4, <2>5 DEF Inv, TypeOK, Places
<1>7. Filed'
  BY <1>1, <1>2, <1>3, <1>4 DEF Inv, TypeOK, Filed, Holding
<1>8. TornInside'
  <2>1. accidents' = 0 => accidents = 0
    BY <1>3 DEF Inv, TypeOK
  <2>2. \A q \in Piers : file'[q] = file[q] \/ file'[q] = Absent
    BY <1>3 DEF Inv, TypeOK
  <2>3. QED
    BY <1>1, <2>1, <2>2, WriterAlone, NamesAssumption DEF TornInside
<1>9. Trust(c)'
  <2>1. ASSUME sound'[c] PROVE Agrees(c)'
    <3>1. /\ dir' = [dir EXCEPT ![p] = "none"] /\ file' = [file EXCEPT ![p] = Absent]
          /\ sound[c]
      BY <1>3, <2>1 DEF Inv, TypeOK
    <3>2. conf \notin Unset /\ pier[c] = conf /\ bundle[c] = Loaded
      BY <1>1, <3>1 DEF Inv, Trust, Edited, Agrees
    <3>3. bundle'[c] = [bundle[c] EXCEPT ![p] = Absent]
      BY <1>1 DEF Inv, TypeOK
    <3>4. Loaded' = [Loaded EXCEPT ![p] = Absent]
      BY <1>2, <3>1 DEF Loaded, Inv, TypeOK
    <3>5. QED
      BY <1>1, <3>2, <3>3, <3>4 DEF Agrees
  <2>2. QED
    BY <1>4, <2>1 DEF Trust
<1>10. QED
  BY <1>1, <1>6, <1>7, <1>8, <1>9, WriterInv

LEMMA WrittenInv ==
  ASSUME Inv, NEW c \in Contexts, Written(c)
  PROVE  Inv'
<1> DEFINE p == op[c].pier
<1>1. /\ pc[c] = "saving" /\ lock = c
      /\ pc' = [pc EXCEPT ![c] = "saved"]
      /\ dir' = dir /\ mtime' = mtime /\ lock' = lock /\ op' = op
      /\ pier' = pier /\ stamp' = stamp /\ opened' = opened /\ accidents' = accidents
  BY DEF Written, Holds
<1>2. p \in Piers /\ op[c].kind \in Kinds
  BY <1>1, WriterAlone DEF Operation
<1>3. pc'[c] = "saved" /\ \A d \in Contexts : d # c => pc'[d] = pc[d] /\ pc[d] \notin Holding
  BY <1>1, WriterAlone DEF Inv, TypeOK
<1>4. CASE op[c].kind \in Services
  <2>1. /\ file' = [file EXCEPT ![p] = bundle[c][p]]
        /\ conf' = conf /\ bundle' = bundle /\ sound' = sound
    BY <1>4 DEF Written, Services
  <2> HIDE DEF p
  <2>2. bundle[c] \in Bundles /\ bundle[c][p] \in {Absent} \cup SUBSET Names
    BY <1>2 DEF Inv, TypeOK, Bundles
  <2>3. file' \in [Piers -> {Absent, Torn} \cup SUBSET Names]
    BY <2>1, <2>2 DEF Inv, TypeOK
  <2>4. file'[p] = bundle[c][p] /\ \A q \in Piers : q # p => file'[q] = file[q]
    BY <1>2, <2>1 DEF Inv, TypeOK
  <2>5. TypeOK'
    BY <1>1, <2>1, <2>3 DEF Inv, TypeOK, Places
  <2>6. Filed'
    BY <1>1, <1>2, <1>3, <1>4, <2>4 DEF Inv, Filed, Holding, p
  <2>7. TornInside'
    BY <1>1, <1>2, <1>3, <1>4, <2>1, <2>2, <2>4, NamesAssumption
       DEF Inv, TornInside, Holding, Services, p
  <2>8. Trust(c)'
    <3>1. ASSUME sound[c] PROVE Agrees(c)'
      <4>1. But(c) /\ dir[p] \in {"cert", "pair"} /\ bundle[c][p] # Absent
        BY <1>1, <1>4, <3>1 DEF Inv, Trust, Writing, p
      <4>2. \A q \in Piers : q # p => Loaded'[q] = Loaded[q]
        BY <1>1, <2>4 DEF Loaded
      <4>3. Loaded'[p] = bundle[c][p]
        BY <1>1, <1>2, <2>4, <4>1 DEF Loaded
      <4>4. \A q \in Piers : bundle[c][q] = Loaded'[q]
        BY <4>1, <4>2, <4>3 DEF But, p
      <4>5. bundle[c] = Loaded'
        BY <2>2, <4>4 DEF Bundles, Loaded
      <4>6. QED
        BY <1>1, <2>1, <4>1, <4>5 DEF Agrees, But
    <3>2. QED
      BY <1>3, <2>1, <3>1 DEF Trust
  <2>9. QED
    BY <1>1, <2>5, <2>6, <2>7, <2>8, WriterInv
<1>5. CASE op[c].kind \notin Services
  <2>1. conf' = p /\ file' = file
    BY <1>5 DEF Written, Services
  <2>2. \/ /\ op[c].kind = "identity" /\ Readable
           /\ bundle' = [bundle EXCEPT ![c] = Loaded] /\ sound' = sound
        \/ /\ bundle' = bundle
           /\ sound' = [sound EXCEPT ![c] = sound[c] /\ op[c].kind = "config"]
    BY <1>5 DEF Written, Services
  <2> HIDE DEF p
  <2>3. bundle' \in [Contexts -> Bundles]
    BY <2>2, LoadedType DEF Inv, TypeOK
  <2>4. sound' \in [Contexts -> BOOLEAN]
    <3>1. (sound[c] /\ op[c].kind = "config") \in BOOLEAN
      OBVIOUS
    <3>2. QED
      BY <2>2, <3>1 DEF Inv, TypeOK
  <2>5. TypeOK'
    BY <1>1, <1>2, <2>1, <2>3, <2>4 DEF Inv, TypeOK, Places
  <2>6. Filed'
    BY <1>1, <1>3, <2>1 DEF Inv, Filed, Holding
  <2>7. TornInside'
    BY <1>1, <1>2, <1>3, <1>5, <2>1, NamesAssumption DEF Inv, TornInside, Holding, Partial
  <2>8. Trust(c)'
    <3>1. Loaded' = Loaded
      BY <1>1, <2>1 DEF Loaded
    <3>2. ASSUME sound'[c] PROVE Agrees(c)'
      <4>1. sound[c] /\ (op[c].kind = "config" \/ op[c].kind = "identity")
        BY <2>2, <3>2 DEF Inv, TypeOK
      <4>2. pier[c] = p /\ (op[c].kind = "config" => bundle[c] = Loaded)
        BY <1>1, <4>1 DEF Inv, Trust, Writing, p
      <4>3. bundle'[c] = Loaded
        BY <2>2, <3>2, <4>2 DEF Inv, TypeOK
      <4>4. p \notin Unset
        BY <1>2, NamesAssumption DEF Unset
      <4>5. QED
        BY <1>1, <2>1, <3>1, <4>2, <4>3, <4>4 DEF Agrees
    <3>3. QED
      BY <1>3, <3>2 DEF Trust
  <2>9. QED
    BY <1>1, <2>5, <2>6, <2>7, <2>8, WriterInv
<1>6. QED
  BY <1>4, <1>5

LEMMA WriteFailsInv ==
  ASSUME Inv, NEW c \in Contexts, WriteFails(c)
  PROVE  Inv'
<1>1. /\ lock = c
      /\ pc' = [pc EXCEPT ![c] = "saved"] /\ sound' = [sound EXCEPT ![c] = FALSE]
      /\ accidents' = accidents + 1
      /\ conf' = conf /\ dir' = dir /\ file' = file /\ mtime' = mtime /\ lock' = lock
      /\ op' = op /\ pier' = pier /\ bundle' = bundle /\ stamp' = stamp /\ opened' = opened
  BY DEF WriteFails, Holds, disk, memory
<1>2. op[c] \in Operation /\ pc'[c] = "saved" /\ \A d \in Contexts : d # c => pc'[d] = pc[d]
  BY <1>1, WriterAlone DEF Inv, TypeOK
<1>3. TypeOK'
  BY <1>1, <1>2 DEF Inv, TypeOK, Places
<1>4. Filed'
  BY <1>1, <1>2 DEF Inv, Filed
<1>5. TornInside'
  BY <1>1 DEF Inv, TypeOK, TornInside
<1>6. Trust(c)'
  BY <1>1 DEF Inv, TypeOK, Trust
<1>7. QED
  BY <1>1, <1>3, <1>4, <1>5, <1>6, WriterInv

LEMMA UnlockInv ==
  ASSUME Inv, NEW c \in Contexts, Unlock(c)
  PROVE  Inv'
<1>1. /\ pc[c] = "saved" /\ lock = c
      /\ mtime' = mtime + 1
      /\ stamp' = [stamp EXCEPT ![c] = mtime + 1]
      /\ lock' = Nobody
      /\ pc' = [pc EXCEPT ![c] = "idle"]
      /\ op' = [op EXCEPT ![c] = Nobody]
      /\ conf' = conf /\ dir' = dir /\ file' = file /\ pier' = pier /\ bundle' = bundle
      /\ opened' = opened /\ sound' = sound /\ accidents' = accidents
  BY DEF Unlock, Holds, disk, memory
<1>2. /\ pc'[c] = "idle" /\ stamp'[c] = mtime + 1
      /\ \A d \in Contexts : d # c =>
           pc'[d] = pc[d] /\ pc[d] \notin Holding /\ stamp'[d] = stamp[d]
  BY <1>1, WriterAlone DEF Inv, TypeOK
<1>3. mtime \in Nat \ {0}
  BY DEF Inv, TypeOK
<1>4. TypeOK'
  BY <1>1, <1>3 DEF Inv, TypeOK, Places
<1>5. Locked'
  BY <1>1, <1>2, NamesAssumption DEF Locked, Holding
<1>6. Clocked'
  BY <1>1, <1>2, <1>3 DEF Inv, TypeOK, Clocked
<1>7. Filed' /\ TornInside'
  BY <1>1, <1>2, WriterAlone DEF Inv, Filed, TornInside, Holding
<1>8. Trust(c)'
  <2>1. Agrees(c) => Agrees(c)'
    BY <1>1 DEF Agrees, Loaded, NoBundle
  <2>2. sound[c] => Agrees(c)
    BY <1>1 DEF Inv, Trust
  <2>3. QED
    BY <1>1, <1>2, <2>1, <2>2 DEF Trust
<1>9. ASSUME NEW d \in Contexts, d # c PROVE Trust(d)'
  <2>1. stamp'[d] \in Nat /\ opened'[d] \in Nat /\ stamp'[d] <= mtime /\ opened'[d] <= mtime
    BY <1>1, <1>2, <1>9 DEF Inv, TypeOK, Clocked
  <2>2. Knows(d)' # mtime'
    BY <1>1, <1>3, <2>1 DEF Knows
  <2>3. pc'[d] \notin Holding
    BY <1>2, <1>9
  <2>4. QED
    BY <2>2, <2>3 DEF Trust, Holding
<1>10. QED
  BY <1>4, <1>5, <1>6, <1>7, <1>8, <1>9 DEF Inv

-----------------------------------------------------------------------------
LEMMA InitInv == Init => Inv
<1> SUFFICES ASSUME Init PROVE Inv
  OBVIOUS
<1>1. TypeOK
  BY NoBundleType DEF Init, TypeOK, Places, Directories
<1>2. Locked /\ Clocked /\ Filed
  BY NamesAssumption DEF Init, Locked, Holding, Clocked, Filed
<1>3. TornInside
  BY NamesAssumption DEF Init, TornInside, Partial
<1>4. \A c \in Contexts : Trust(c)
  BY DEF Init, Trust
<1>5. QED
  BY <1>1, <1>2, <1>3, <1>4 DEF Inv

LEMMA NextInv == Inv /\ [Next]_vars => Inv'
<1> SUFFICES ASSUME Inv, [Next]_vars PROVE Inv'
  OBVIOUS
<1>1. CASE UNCHANGED vars
  <2>1. TypeOK'
    BY <1>1 DEF vars, Inv, TypeOK
  <2>2. Locked' /\ Clocked' /\ Filed' /\ TornInside'
    BY <1>1 DEF vars, Inv, Locked, Clocked, Filed, TornInside
  <2>3. Quiet' => Quiet
    BY <1>1 DEF vars, Quiet
  <2>4. \A c \in Contexts : Trust(c)'
    BY <1>1, <2>3, OthersKeep DEF vars, Inv
  <2>5. QED
    BY <2>1, <2>2, <2>4 DEF Inv
<1>2. ASSUME NEW c \in Contexts, Open(c) \/ Close(c) \/ Crash(c) PROVE Inv'
  BY <1>2, OpenInv, CloseInv, CrashInv
<1>3. ASSUME NEW c \in Contexts, Edit(c) PROVE Inv'
  BY <1>3, AddServiceInv, DelServiceInv, SetConfigInv, PierInv DEF Edit
<1>4. ASSUME NEW c \in Contexts, Write(c) PROVE Inv'
  BY <1>4, LockInv, SaveServicesInv, SaveConfigInv, SavePierInv, RemovePierInv, WrittenInv,
     WriteFailsInv, UnlockInv DEF Write
<1>5. QED
  BY <1>1, <1>2, <1>3, <1>4, Zenon DEF Next

LEMMA InvHolds == Spec => []Inv
BY InitInv, NextInv, PTL DEF Spec

(* Memory, files and times have their types, whatever fails. *)
THEOREM StoreTypeCorrect == Spec => []TypeOK
<1>1. Inv => TypeOK
  BY DEF Inv
<1>2. QED
  BY <1>1, InvHolds, PTL

(* A context nobody overtook, and whose operations succeeded, knows the    *)
(* whole disk, for any number of contexts, piers and services.             *)
THEOREM ContextsAgreeWithDisk == Spec => []AgreesWithDisk
<1>1. ASSUME Inv PROVE AgreesWithDisk
  <2>1. SUFFICES ASSUME lock = Nobody, NEW c \in Contexts, pc[c] = "idle", sound[c],
                        Knows(c) = mtime
                 PROVE  Agrees(c)
    BY DEF AgreesWithDisk, Agrees
  <2>2. Quiet
    BY <1>1, <2>1, NamesAssumption DEF Inv, Locked, Holding, Quiet
  <2>3. QED
    BY <1>1, <2>1, <2>2 DEF Inv, Trust
<1>2. QED
  BY <1>1, InvHolds, PTL

(* What the check of the time is there for: a write that passes it takes   *)
(* no service away that another context has stored.                        *)
THEOREM SoundWritesKeepAll == Spec => []SoundWritesLoseNothing
<1>1. ASSUME Inv PROVE SoundWritesLoseNothing
  <2>1. SUFFICES ASSUME NEW c \in Contexts, sound[c] PROVE LostBy(c) = {}
    BY DEF SoundWritesLoseNothing
  <2>2. CASE /\ Holds(c, "save") /\ op[c].kind \in {"add", "del"}
             /\ file[op[c].pier] \notin {Absent, Torn}
    <3>1. Edited(c) /\ op[c] \in Operation
      BY <1>1, <2>1, <2>2, WriterAlone DEF Inv, Trust, Holds
    <3>2. op[c].pier \in Piers
      BY <3>1 DEF Operation
    <3>3. Loaded[op[c].pier] = file[op[c].pier]
      BY <2>2, <3>1, <3>2 DEF Edited, Services, Loaded
    <3>4. file[op[c].pier] \subseteq bundle[c][op[c].pier] \cup {op[c].name}
      BY <2>2, <3>1, <3>3 DEF Edited, Services
    <3>5. QED
      BY <2>2, <3>4 DEF LostBy
  <2>3. CASE ~(/\ Holds(c, "save") /\ op[c].kind \in {"add", "del"}
               /\ file[op[c].pier] \notin {Absent, Torn})
    BY <2>3, Zenon DEF LostBy
  <2>4. QED
    BY <2>2, <2>3
<1>2. QED
  BY <1>1, InvHolds, PTL

(* Readers never meet a write that is going on. *)
THEOREM OnlyAccidentsTear == Spec => []TornByAccidentOnly
<1>1. ASSUME Inv PROVE TornByAccidentOnly
  <2>1. lock = Nobody => \A c \in Contexts : pc[c] # "saving"
    BY <1>1, NamesAssumption DEF Inv, Locked, Holding
  <2>2. QED
    BY <1>1, <2>1 DEF Inv, TornInside, TornByAccidentOnly
<1>2. QED
  BY <1>1, InvHolds, PTL

-----------------------------------------------------------------------------
(* The store implements Ledger.  Whoever has the lock passed the check of  *)
(* the time, and nobody else changes the time meanwhile.                   *)

Fresh ==
  \A c \in Contexts : pc[c] = "save" /\ (stamp[c] # 0 \/ sound[c]) => Knows(c) = mtime

LEMMA FreshInv ==
  ASSUME Inv, Fresh, [Next]_vars
  PROVE  Fresh'
<1> SUFFICES ASSUME NEW d \in Contexts, pc'[d] = "save", stamp'[d] # 0 \/ sound'[d]
             PROVE  Knows(d)' = mtime'
  BY DEF Fresh
<1>1. /\ pc \in [Contexts -> Places] /\ stamp \in [Contexts -> Nat]
      /\ opened \in [Contexts -> Nat] /\ sound \in [Contexts -> BOOLEAN] /\ mtime \in Nat \ {0}
  BY DEF Inv, TypeOK
<1>2. \A c \in Contexts : pc[c] \in Holding => lock = c
  BY DEF Inv, Locked
<1>3. CASE UNCHANGED vars
  BY <1>3 DEF vars, Fresh, Knows
<1>4. ASSUME NEW c \in Contexts, Open(c) \/ Close(c) \/ Crash(c) PROVE Knows(d)' = mtime'
  <2>1. d # c /\ pc'[d] = pc[d] /\ stamp'[d] = stamp[d] /\ opened'[d] = opened[d] /\ mtime' = mtime
    BY <1>1, <1>4 DEF Open, Close, Crash, Closed, disk
  <2>2. sound'[d] => sound[d]
    BY <1>1, <1>4, <2>1 DEF Open, Close, Crash
  <2>3. QED
    BY <2>1, <2>2 DEF Fresh, Knows
<1>5. ASSUME NEW c \in Contexts, Edit(c) PROVE Knows(d)' = mtime'
  <2>1. PICK o : Begin(c, o)
    BY <1>5 DEF Edit, AddService, DelService, SetConfig, AddPier, DelPier
  <2>2. d # c /\ pc'[d] = pc[d] /\ stamp' = stamp /\ opened' = opened /\ sound' = sound /\ mtime' = mtime
    BY <1>1, <2>1 DEF Begin
  <2>3. QED
    BY <2>2 DEF Fresh, Knows
<1>6. ASSUME NEW c \in Contexts, Lock(c) PROVE Knows(d)' = mtime'
  <2>1. lock = Nobody /\ stamp' = stamp /\ opened' = opened /\ mtime' = mtime
    BY <1>6 DEF Lock
  <2>2. d = c
    BY <1>1, <1>2, <1>6, <2>1, NamesAssumption DEF Lock, Holding
  <2>3. ~Stale(c) /\ sound' = [sound EXCEPT ![c] = sound[c] /\ (stamp[c] = 0 => opened[c] = mtime)]
    BY <1>1, <1>6, <2>2 DEF Lock
  <2>4. sound'[c] => (stamp[c] = 0 => opened[c] = mtime)
    BY <1>1, <2>3
  <2>5. QED
    BY <2>1, <2>2, <2>3, <2>4 DEF Stale, Knows
<1>7. ASSUME NEW c \in Contexts,
             \/ SaveServices(c) \/ SaveConfig(c) \/ SavePier(c) \/ RemovePier(c)
             \/ Written(c) \/ WriteFails(c) \/ Unlock(c)
      PROVE  Knows(d)' = mtime'
  <2>1. lock = c /\ pc'[c] # "save" /\ pc'[d] = (IF d = c THEN pc'[c] ELSE pc[d])
    BY <1>1, <1>7
       DEF SaveServices, SaveConfig, SavePier, RemovePier, Written, WriteFails, Unlock, Holds
  <2>2. d # c /\ pc[d] = "save"
    BY <2>1
  <2>3. QED
    BY <1>2, <2>1, <2>2 DEF Holding
<1>8. QED
  BY <1>3, <1>4, <1>5, <1>6, <1>7 DEF Next, Write

-----------------------------------------------------------------------------
(* What Ledger sees while nobody writes, and while c does.                 *)

LEMMA NothingTorn ==
  ASSUME Inv, accidents = 0
  PROVE  /\ (\A c \in Contexts : pc[c] # "saving" \/ op[c].kind \in Services) => conf \notin Partial
         /\ \A p \in Piers :
              (\A c \in Contexts :
                 ~ (pc[c] = "saving" /\ op[c].kind \in Services /\ op[c].pier = p))
                => file[p] # Torn
BY DEF Inv, TornInside

Still ==
  /\ Owner = IF conf = Absent THEN Nobody ELSE conf
  /\ Shelves = Loaded
  /\ Version = mtime
  /\ Known = [c \in Contexts |-> Knows(c)]
  /\ Wrote = [c \in Contexts |-> stamp[c] # 0]

LEMMA StillView ==
  ASSUME Inv, accidents = 0, Quiet
  PROVE  Still
<1>1. conf \notin Partial /\ \A p \in Piers : file[p] # Torn
  BY NothingTorn DEF Quiet
<1>2. \A c \in Contexts : ~InWrite(c)
  BY DEF Quiet, InWrite
<1>3. dir \in [Piers -> Directories]
  BY DEF Inv, TypeOK
<1>4. \A p \in Piers : Shelf(p) = Loaded[p]
  BY <1>1, <1>3 DEF Shelf, Loaded, Directories
<1>5. Shelves = Loaded
  BY <1>4 DEF Shelves, Loaded
<1>6. Owner = IF conf = Absent THEN Nobody ELSE conf
  BY <1>1 DEF Owner
<1>7. QED
  BY <1>2, <1>5, <1>6 DEF Still, Version, Known, Wrote

Resting == Inv /\ accidents = 0 /\ Quiet

LEMMA RestingStill == Resting => Still
BY StillView DEF Resting

LEMMA RestingStillNext == Resting' => Still'
BY RestingStill, PTL

Midway(c) ==
  /\ Owner = IF conf = Absent THEN Nobody ELSE IF conf \in Partial THEN op[c].pier ELSE conf
  /\ Shelves = [p \in Piers |->
                  IF dir[p] \in {"none", "empty"} THEN Absent
                  ELSE IF file[p] = Absent THEN {}
                  ELSE IF file[p] = Torn THEN bundle[c][p] ELSE file[p]]
  /\ Version = mtime + 1
  /\ Known = [d \in Contexts |-> IF d = c THEN mtime + 1 ELSE Knows(d)]
  /\ Wrote = [d \in Contexts |-> d = c \/ stamp[d] # 0]

WritersMidway == \A c \in Contexts : InWrite(c) => Midway(c)

LEMMA WriterView == Inv => WritersMidway
<1> SUFFICES ASSUME NEW c \in Contexts, InWrite(c) PROVE Midway(c)
  BY DEF WritersMidway
<1>1. lock = c /\ c # Nobody
  BY NamesAssumption DEF InWrite
<1>2. \A d \in Contexts : InWrite(d) <=> d = c
  BY <1>1 DEF InWrite
<1>3. Version = mtime + 1
  BY <1>2 DEF Version
<1>4. /\ Known = [d \in Contexts |-> IF d = c THEN mtime + 1 ELSE Knows(d)]
      /\ Wrote = [d \in Contexts |-> d = c \/ stamp[d] # 0]
  BY <1>2 DEF Known, Wrote
<1>5. Owner = IF conf = Absent THEN Nobody ELSE IF conf \in Partial THEN op[c].pier ELSE conf
  BY <1>1 DEF Owner
<1>6. QED
  BY <1>1, <1>3, <1>4, <1>5 DEF Midway, Shelves, Shelf

LEMMA WriterViewNext == Inv' => WritersMidway'
BY WriterView, PTL

(* A context that has the lock is the only one that may write.             *)
LEMMA HolderRests ==
  ASSUME Inv, NEW c \in Contexts, Holds(c, "save"), accidents = 0
  PROVE  /\ Resting /\ Still /\ c # Nobody
         /\ conf \notin Partial /\ \A p \in Piers : file[p] # Torn
         /\ op[c] \in Operation /\ op[c].pier \in Piers
         /\ sound[c] => Edited(c)
<1>1. Quiet
  BY DEF Inv, Locked, Holding, Quiet, Holds
<1>2. Resting
  BY <1>1 DEF Resting
<1>3. op[c] \in Operation
  BY DEF Inv, TypeOK, Holds
<1>4. sound[c] => Edited(c)
  BY DEF Inv, Trust, Holds
<1>5. conf \notin Partial /\ \A p \in Piers : file[p] # Torn
  BY <1>1, NothingTorn DEF Quiet
<1>6. QED
  BY <1>2, <1>3, <1>4, <1>5, RestingStill, NamesAssumption DEF Operation

(* The versions of a write.                                                *)
LEMMA WriteBegins ==
  ASSUME Inv, Inv', Fresh, accidents = 0, accidents' = 0,
         NEW c \in Contexts, Holds(c, "save"), InWrite(c)',
         mtime' = mtime, stamp' = stamp, opened' = opened, sound' = sound,
         NEW p \in Piers, IF sound[c] THEN Ldg!Edit(p) ELSE Ldg!Replace(p)
  PROVE  Ldg!Write(c)
<1>1. Still
  BY HolderRests
<1>2. Midway(c)'
  BY WriterViewNext DEF WritersMidway
<1>3. \A d \in Contexts : Knows(d)' = Knows(d)
  BY DEF Knows
<1>4. Version' = Version + 1
  BY <1>1, <1>2 DEF Still, Midway
<1>5. Known' = [Known EXCEPT ![c] = Version + 1]
  BY <1>1, <1>2, <1>3 DEF Still, Midway
<1>6. Wrote' = [Wrote EXCEPT ![c] = TRUE]
  BY <1>1, <1>2 DEF Still, Midway
<1>7. Wrote[c] \/ sound[c] => Known[c] = Version
  BY <1>1 DEF Still, Fresh, Holds
<1>8. UNCHANGED <<sound, accidents = 0>>
  OBVIOUS
<1>9. QED
  BY <1>4, <1>5, <1>6, <1>7, <1>8 DEF Ldg!Write

LEMMA SaveServicesWrites ==
  ASSUME Inv, Inv', Fresh, accidents = 0, NEW c \in Contexts, SaveServices(c)
  PROVE  Ldg!Write(c)
<1> DEFINE p == op[c].pier
<1>1. /\ Holds(c, "save") /\ op[c].kind \in Services /\ dir[p] # "none"
      /\ file' = [file EXCEPT ![p] = Torn] /\ pc' = [pc EXCEPT ![c] = "saving"]
      /\ conf' = conf /\ dir' = dir /\ mtime' = mtime /\ lock' = lock /\ op' = op
      /\ bundle' = bundle /\ stamp' = stamp /\ opened' = opened /\ sound' = sound
      /\ accidents' = accidents
  BY DEF SaveServices, Services, memory
<1>2. /\ Still /\ conf \notin Partial /\ (\A q \in Piers : file[q] # Torn)
      /\ p \in Piers /\ (sound[c] => Edited(c))
  BY <1>1, HolderRests
<1>3. InWrite(c)'
  BY <1>1 DEF InWrite, Holds, Inv, TypeOK
<1>4. Midway(c)'
  BY <1>3, WriterViewNext DEF WritersMidway
<1>5. Owner' = Owner
  BY <1>1, <1>2, <1>4 DEF Still, Midway
<1>6. file \in [Piers -> {Absent, Torn} \cup SUBSET Names] /\ dir \in [Piers -> Directories]
      /\ bundle[c][p] \in {Absent} \cup SUBSET Names
  BY <1>2 DEF Inv, TypeOK, Bundles
<1> HIDE DEF p
<1> DEFINE S == IF dir[p] = "empty" THEN Absent ELSE bundle[c][p]
<1>7. Shelves' = [Shelves EXCEPT ![p] = S]
  <2>1. Shelves' = [q \in Piers |->
                  IF dir[q] \in {"none", "empty"} THEN Absent
                  ELSE IF file'[q] = Absent THEN {}
                  ELSE IF file'[q] = Torn THEN bundle[c][q] ELSE file'[q]]
    BY <1>1, <1>4 DEF Midway
  <2>2. file'[p] = Torn /\ \A q \in Piers : q # p => file'[q] = file[q]
    BY <1>1, <1>2, <1>6
  <2>3. ASSUME NEW q \in Piers PROVE Shelves'[q] = [Shelves EXCEPT ![p] = S][q]
    <3>1. Shelves[q] = Loaded[q]
      BY <1>2 DEF Still
    <3>2. Shelves = [r \in Piers |-> Shelf(r)]
      BY DEF Shelves
    <3>3. CASE q = p
      BY <1>1, <2>1, <2>2, <3>2, <3>3, NamesAssumption DEF p
    <3>4. CASE q # p
      BY <1>2, <1>6, <2>1, <2>2, <3>1, <3>2, <3>4 DEF Loaded, Directories
    <3>5. QED
      BY <3>3, <3>4
  <2>4. QED
    BY <2>1, <2>3 DEF Shelves
<1>8. CASE ~sound[c]
  <2>1. S \in {Absent} \cup SUBSET Names
    BY <1>6
  <2>2. Ldg!Replace(p)
    BY <1>5, <1>7, <2>1 DEF Ldg!Replace, Ldg!Puts
  <2>3. QED
    BY <1>1, <1>2, <1>3, <1>8, <2>2, WriteBegins
<1>9. CASE sound[c]
  <2>1. /\ Loaded[p] # Absent /\ op[c].name \in Names
        /\ bundle[c][p] = IF op[c].kind = "add" THEN Loaded[p] \cup {op[c].name}
                          ELSE Loaded[p] \ {op[c].name}
    BY <1>1, <1>2, <1>9 DEF Edited, p
  <2>2. Shelves[p] = Loaded[p] /\ dir[p] # "empty"
    BY <1>2, <2>1 DEF Still, Loaded
  <2>3. Ldg!Edit(p)
    BY <1>5, <1>7, <2>1, <2>2 DEF Ldg!Edit, Ldg!Puts
  <2>4. QED
    BY <1>1, <1>2, <1>3, <1>9, <2>3, WriteBegins
<1>10. QED
  BY <1>8, <1>9

-----------------------------------------------------------------------------
(* Who writes has torn its file, and has the services it writes.           *)

Pending ==
  \A c \in Contexts :
    /\ pc[c] = "saving" => IF op[c].kind \in Services THEN file[op[c].pier] = Torn ELSE conf \in Partial
    /\ pc[c] \in {"lock", "save", "saving"} /\ op[c].kind \in Services
         => bundle[c][op[c].pier] # Absent

LEMMA PendingFrame ==
  ASSUME Inv, Pending, NEW d \in Contexts, conf' = conf, file' = file,
         pc'[d] = pc[d], op'[d] = op[d], bundle'[d] = bundle[d]
  PROVE  /\ pc'[d] = "saving" =>
              IF op'[d].kind \in Services THEN file'[op'[d].pier] = Torn ELSE conf' \in Partial
         /\ pc'[d] \in {"lock", "save", "saving"} /\ op'[d].kind \in Services
              => bundle'[d][op'[d].pier] # Absent
BY DEF Pending

LEMMA PendingEdit ==
  ASSUME Inv, Pending, NEW c \in Contexts, Edit(c)
  PROVE  Pending'
<1>1. PICK o : Begin(c, o)
  BY DEF Edit, AddService, DelService, SetConfig, AddPier, DelPier
<1>2. /\ conf' = conf /\ file' = file
      /\ pc'[c] = "lock" /\ op'[c] = o
      /\ \A d \in Contexts : d # c => pc'[d] = pc[d] /\ op'[d] = op[d]
  BY <1>1 DEF Begin, disk, Inv, TypeOK
<1>3. bundle \in [Contexts -> Bundles]
  BY DEF Inv, TypeOK
<1>4. \A d \in Contexts : d # c => bundle'[d] = bundle[d]
  BY <1>3 DEF Edit, AddService, DelService, SetConfig, AddPier, DelPier, memory
<1>5. ASSUME o.kind \in Services PROVE bundle'[c][o.pier] # Absent
  <2>1. ASSUME NEW p \in Piers, NEW n \in Names, AddService(c, p, n) \/ DelService(c, p, n)
        PROVE  bundle'[c][o.pier] # Absent
    <3>1. o.pier = p
      BY <1>2, <2>1 DEF AddService, DelService, Begin, Inv, TypeOK
    <3>2. bundle[c] \in Bundles /\ bundle[c][p] \in SUBSET Names
      BY <1>3, <2>1 DEF Bundles, AddService, DelService
    <3>3. \/ bundle' = [bundle EXCEPT ![c] = [bundle[c] EXCEPT ![p] = bundle[c][p] \cup {n}]]
          \/ bundle' = [bundle EXCEPT ![c] = [bundle[c] EXCEPT ![p] = bundle[c][p] \ {n}]]
      BY <2>1 DEF AddService, DelService
    <3>4. bundle'[c][p] \in SUBSET Names
      BY <1>3, <3>2, <3>3 DEF Bundles
    <3>5. QED
      BY <3>1, <3>4, NamesAssumption
  <2>2. ASSUME NEW p \in Piers, SetConfig(c, p) \/ AddPier(c, p) \/ DelPier(c, p) PROVE FALSE
    BY <1>2, <1>5, <2>2 DEF SetConfig, AddPier, DelPier, Begin, Services, Inv, TypeOK
  <2>3. QED
    BY <2>1, <2>2 DEF Edit
<1>6. QED
  BY <1>2, <1>4, <1>5, PendingFrame DEF Pending

LEMMA PendingInv ==
  ASSUME Inv, Pending, [Next]_vars
  PROVE  Pending'
<1>1. /\ pc \in [Contexts -> Places] /\ op \in [Contexts -> {Nobody} \cup Operation]
      /\ bundle \in [Contexts -> Bundles]
      /\ \A c \in Contexts : pc[c] \in Holding => lock = c
  BY DEF Inv, TypeOK, Locked
<1>2. CASE UNCHANGED vars
  BY <1>2 DEF vars, Pending
<1>3. ASSUME NEW c \in Contexts, Open(c) \/ Close(c) \/ Crash(c) \/ Lock(c) \/ Unlock(c)
      PROVE  Pending'
  <2>1. conf' = conf /\ file' = file
    BY <1>3 DEF Open, Close, Crash, Lock, Unlock, disk
  <2>2. \A d \in Contexts : d # c => pc'[d] = pc[d] /\ op'[d] = op[d] /\ bundle'[d] = bundle[d]
    BY <1>1, <1>3 DEF Open, Close, Crash, Closed, Lock, Unlock, memory
  <2>3. \/ pc'[c] \in {"idle", "closed"}
        \/ pc'[c] = "save" /\ pc[c] = "lock" /\ op'[c] = op[c] /\ bundle'[c] = bundle[c]
    BY <1>1, <1>3 DEF Open, Close, Crash, Closed, Lock, Unlock, memory
  <2>4. QED
    BY <2>1, <2>2, <2>3, PendingFrame DEF Pending
<1>4. ASSUME NEW c \in Contexts, SavePier(c) \/ RemovePier(c) \/ Written(c) \/ WriteFails(c)
      PROVE  Pending'
  <2>1. /\ lock = c /\ pc'[c] = "saved" /\ op' = op
        /\ \A d \in Contexts : d # c => pc'[d] = pc[d] /\ bundle'[d] = bundle[d]
    BY <1>1, <1>4 DEF SavePier, RemovePier, Written, WriteFails, Holds, memory
  <2>2. \A d \in Contexts : d # c => pc[d] \notin Holding
    BY <1>1, <2>1
  <2>3. QED
    BY <2>1, <2>2 DEF Pending, Holding
<1>5. ASSUME NEW c \in Contexts, SaveServices(c) \/ SaveConfig(c)
      PROVE  Pending'
  <2>1. /\ lock = c /\ pc[c] = "save" /\ pc'[c] = "saving" /\ op' = op /\ bundle' = bundle
        /\ \A d \in Contexts : d # c => pc'[d] = pc[d]
    BY <1>1, <1>5 DEF SaveServices, SaveConfig, Holds, memory
  <2>2. \A d \in Contexts : d # c => pc[d] \notin Holding
    BY <1>1, <2>1
  <2>3. op[c].pier \in Piers
    BY <2>1, WriterAlone DEF Operation
  <2>4. \/ op[c].kind \in Services /\ file'[op[c].pier] = Torn
        \/ op[c].kind \notin Services /\ conf' \in Partial
    BY <1>5, <2>3 DEF SaveServices, SaveConfig, Services, Inv, TypeOK
  <2>5. QED
    BY <2>1, <2>2, <2>4 DEF Pending, Holding
<1>6. ASSUME NEW c \in Contexts, Edit(c) PROVE Pending'
  BY <1>6, PendingEdit
<1>7. QED
  BY <1>2, <1>3, <1>4, <1>5, <1>6 DEF Next, Write

-----------------------------------------------------------------------------
(* The first steps of the other writes.                                    *)

WholeShelves == (\A p \in Piers : file[p] # Torn) => Shelves = Loaded
WholeOwner == conf \notin Partial => Owner = IF conf = Absent THEN Nobody ELSE conf

LEMMA ViewOfWhole == Inv => WholeShelves /\ WholeOwner
BY DEF Inv, TypeOK, Directories, WholeShelves, Shelves, Shelf, Loaded, WholeOwner, Owner

LEMMA ViewOfWholeNext == Inv' => WholeShelves' /\ WholeOwner'
BY ViewOfWhole, PTL

LEMMA SaveConfigWrites ==
  ASSUME Inv, Inv', Fresh, accidents = 0, NEW c \in Contexts, SaveConfig(c)
  PROVE  Ldg!Write(c)
<1> DEFINE p == op[c].pier
<1>1. /\ Holds(c, "save") /\ op[c].kind \in {"config", "identity"}
      /\ conf' \in Partial /\ pc' = [pc EXCEPT ![c] = "saving"]
      /\ file' = file /\ mtime' = mtime /\ lock' = lock /\ op' = op
      /\ bundle' = bundle /\ stamp' = stamp /\ opened' = opened /\ sound' = sound
      /\ accidents' = accidents
  BY DEF SaveConfig, memory
<1>2. /\ Still /\ conf \notin Partial /\ (\A q \in Piers : file[q] # Torn)
      /\ p \in Piers /\ (sound[c] => Edited(c))
  BY <1>1, HolderRests
<1>3. InWrite(c)'
  BY <1>1 DEF InWrite, Holds, Inv, TypeOK
<1>4. \/ op[c].kind = "identity"
         /\ dir' = [dir EXCEPT ![p] = IF dir[p] \in {"none", "empty"} THEN "pair" ELSE dir[p]]
      \/ op[c].kind = "config" /\ dir' = dir
  BY <1>1 DEF SaveConfig
<1>5. Owner' = p
  BY <1>1, <1>3, WriterViewNext, NamesAssumption DEF WritersMidway, Midway, Partial
<1>6. Shelves = Loaded /\ Shelves' = Loaded'
  BY <1>1, <1>2, ViewOfWholeNext DEF Still, WholeShelves
<1> HIDE DEF p
<1>7. dir \in [Piers -> Directories] /\ file \in [Piers -> {Absent, Torn} \cup SUBSET Names]
  BY DEF Inv, TypeOK
<1>8. \A q \in Piers : Loaded[q] # Absent \/ q # p => Loaded'[q] = Loaded[q]
  BY <1>1, <1>2, <1>4, <1>7 DEF Loaded
<1>9. op[c].kind = "config" => Loaded' = Loaded
  BY <1>1, <1>4 DEF Loaded
<1>10. Loaded'[p] \in {Absent} \cup SUBSET Names
  BY <1>1, <1>2, <1>7 DEF Loaded
<1>11. Loaded' = [Loaded EXCEPT ![p] = Loaded'[p]]
  BY <1>8 DEF Loaded
<1>12. CASE ~sound[c]
  <2>1. Ldg!Replace(p)
    BY <1>5, <1>6, <1>10, <1>11 DEF Ldg!Replace, Ldg!Puts
  <2>2. QED
    BY <1>1, <1>2, <1>3, <1>12, <2>1, WriteBegins
<1>13. CASE sound[c] /\ op[c].kind = "config"
  <2>1. conf = p /\ conf # Absent
    BY <1>2, <1>13 DEF Edited, Agrees, Unset, p
  <2>2. Owner' = Owner /\ Shelves' = Shelves
    BY <1>2, <1>5, <1>6, <1>9, <1>13, <2>1 DEF Still
  <2>3. Ldg!Edit(p)
    BY <2>2 DEF Ldg!Edit
  <2>4. QED
    BY <1>1, <1>2, <1>3, <1>13, <2>3, WriteBegins
<1>14. CASE sound[c] /\ op[c].kind = "identity"
  <2>1. CASE Loaded[p] = Absent
    <3>1. Loaded'[p] \in SUBSET Names
      <4>1. dir'[p] \in {"cert", "pair"}
        BY <1>2, <1>4, <1>7, <1>14 DEF Directories
      <4>2. Loaded'[p] = IF file[p] = Absent THEN {} ELSE file[p]
        BY <1>1, <1>2, <4>1 DEF Loaded
      <4>3. QED
        BY <1>2, <1>7, <4>2
    <3>2. Ldg!Edit(p)
      BY <1>5, <1>6, <1>11, <2>1, <3>1 DEF Ldg!Edit, Ldg!Puts
    <3>3. QED
      BY <1>1, <1>2, <1>3, <1>14, <3>2, WriteBegins
  <2>2. CASE Loaded[p] # Absent
    <3>1. Loaded' = Loaded
      BY <1>8, <2>2 DEF Loaded
    <3>2. Ldg!Edit(p)
      BY <1>5, <1>6, <2>2, <3>1 DEF Ldg!Edit
    <3>3. QED
      BY <1>1, <1>2, <1>3, <1>14, <3>2, WriteBegins
  <2>3. QED
    BY <2>1, <2>2
<1>15. QED
  BY <1>1, <1>12, <1>13, <1>14

LEMMA SavePierWrites ==
  ASSUME Inv, Inv', Fresh, accidents = 0, NEW c \in Contexts, SavePier(c)
  PROVE  Ldg!Write(c)
<1> DEFINE p == op[c].pier
<1>1. /\ Holds(c, "save")
      /\ conf' = conf /\ pc' = [pc EXCEPT ![c] = "saved"]
      /\ file' = file /\ mtime' = mtime /\ lock' = lock /\ op' = op
      /\ stamp' = stamp /\ opened' = opened /\ sound' = sound
      /\ accidents' = accidents
  BY DEF SavePier
<1>2. /\ Still /\ conf \notin Partial /\ (\A q \in Piers : file[q] # Torn) /\ p \in Piers
  BY <1>1, HolderRests
<1>3. InWrite(c)'
  BY <1>1 DEF InWrite, Holds, Inv, TypeOK
<1>4. \/ dir' = dir
      \/ dir[p] = "none" /\ dir' = [dir EXCEPT ![p] = "cert"]
      \/ dir[p] = "none" /\ dir' = [dir EXCEPT ![p] = "empty"]
  BY DEF SavePier
<1>5. Owner' = Owner
  BY <1>1, <1>2, ViewOfWholeNext DEF Still, WholeOwner
<1>6. Shelves = Loaded /\ Shelves' = Loaded'
  BY <1>1, <1>2, ViewOfWholeNext DEF Still, WholeShelves
<1> HIDE DEF p
<1>7. dir \in [Piers -> Directories] /\ (dir[p] = "none" => file[p] = Absent)
  BY <1>2 DEF Inv, TypeOK, Filed
<1>8. Loaded' = Loaded \/ (Loaded[p] = Absent /\ Loaded' = [Loaded EXCEPT ![p] = {}])
  BY <1>1, <1>2, <1>4, <1>7 DEF Loaded
<1>9. Shelves[p] \in {Absent} \cup SUBSET Names /\ Shelves = [Shelves EXCEPT ![p] = Shelves[p]]
  BY <1>2, <1>6 DEF Loaded, Inv, TypeOK
<1>10. Ldg!Edit(p)
  BY <1>5, <1>6, <1>8 DEF Ldg!Edit, Ldg!Puts
<1>11. Ldg!Replace(p)
  BY <1>5, <1>6, <1>8, <1>9 DEF Ldg!Replace, Ldg!Puts
<1>12. QED
  BY <1>1, <1>2, <1>3, <1>10, <1>11, WriteBegins

LEMMA RemovePierWrites ==
  ASSUME Inv, Inv', Fresh, accidents = 0, accidents' = 0, NEW c \in Contexts, RemovePier(c)
  PROVE  Ldg!Write(c)
<1> DEFINE p == op[c].pier
<1>1. /\ Holds(c, "save") /\ op[c].kind = "delpier"
      /\ conf' = conf /\ pc' = [pc EXCEPT ![c] = "saved"]
      /\ mtime' = mtime /\ lock' = lock /\ op' = op
      /\ stamp' = stamp /\ opened' = opened
  BY DEF RemovePier
<1>2. /\ dir' = [dir EXCEPT ![p] = "none"] /\ file' = [file EXCEPT ![p] = Absent]
      /\ sound' = sound
  BY DEF RemovePier
<1>3. /\ Still /\ conf \notin Partial /\ (\A q \in Piers : file[q] # Torn)
      /\ p \in Piers /\ (sound[c] => Edited(c))
  BY <1>1, HolderRests
<1>4. InWrite(c)'
  BY <1>1 DEF InWrite, Holds, Inv, TypeOK
<1>5. Owner' = Owner
  BY <1>1, <1>3, ViewOfWholeNext DEF Still, WholeOwner
<1>6. sound[c] => p # Owner
  BY <1>1, <1>3 DEF Still, Edited, Agrees, Unset, p
<1> HIDE DEF p
<1>7. dir \in [Piers -> Directories] /\ file \in [Piers -> {Absent, Torn} \cup SUBSET Names]
  BY DEF Inv, TypeOK
<1>8. \A q \in Piers : file'[q] # Torn
  BY <1>2, <1>3, <1>7, NamesAssumption
<1>9. Shelves = Loaded /\ Shelves' = Loaded'
  BY <1>3, <1>8, ViewOfWholeNext DEF Still, WholeShelves
<1>10. Loaded' = [Loaded EXCEPT ![p] = Absent]
  BY <1>2, <1>3, <1>7 DEF Loaded
<1>11. sound[c] => Ldg!Edit(p)
  BY <1>5, <1>6, <1>9, <1>10 DEF Ldg!Edit, Ldg!Puts
<1>12. Ldg!Replace(p)
  BY <1>5, <1>9, <1>10 DEF Ldg!Replace, Ldg!Puts
<1>13. QED
  BY <1>1, <1>2, <1>3, <1>4, <1>11, <1>12, WriteBegins

-----------------------------------------------------------------------------
(* The steps that Ledger doesn't see, or that only change what c knows.    *)

LEMMA WrittenStutters ==
  ASSUME Inv, Inv', Pending, accidents = 0, NEW c \in Contexts, Written(c)
  PROVE  UNCHANGED Ldg!vars
<1> DEFINE p == op[c].pier
<1>1. /\ pc[c] = "saving" /\ lock = c
      /\ pc' = [pc EXCEPT ![c] = "saved"]
      /\ dir' = dir /\ mtime' = mtime /\ lock' = lock /\ op' = op
      /\ stamp' = stamp /\ opened' = opened /\ accidents' = accidents
  BY DEF Written, Holds
<1>2. p \in Piers /\ op[c].kind \in Kinds /\ \A d \in Contexts : d # c => pc[d] \notin Holding
  BY <1>1, WriterAlone DEF Operation
<1>3. InWrite(c) /\ InWrite(c)'
  BY <1>1 DEF InWrite, Inv, TypeOK
<1>4. Midway(c) /\ Midway(c)'
  BY <1>3, WriterView, WriterViewNext DEF WritersMidway
<1>5. \A d \in Contexts : Knows(d)' = Knows(d)
  BY <1>1 DEF Knows
<1>6. Version' = Version /\ Known' = Known /\ Wrote' = Wrote
  BY <1>1, <1>4, <1>5 DEF Midway
<1>7. /\ file \in [Piers -> {Absent, Torn} \cup SUBSET Names] /\ bundle[c] \in Bundles
      /\ sound \in [Contexts -> BOOLEAN] /\ conf \in Piers \cup {Absent, Torn, Blank}
  BY DEF Inv, TypeOK
<1>8. CASE op[c].kind \in Services
  <2>1. /\ file' = [file EXCEPT ![p] = bundle[c][p]]
        /\ conf' = conf /\ bundle' = bundle /\ sound' = sound
    BY <1>8 DEF Written, Services
  <2>2. file[p] = Torn /\ bundle[c][p] # Absent
    BY <1>1, <1>8 DEF Pending
  <2>3. \A q \in Piers : q # p => file[q] # Torn
    BY <1>1, <1>2, NothingTorn DEF Holding
  <2> HIDE DEF p
  <2>4. bundle[c][p] # Torn
    BY <1>2, <1>7, NamesAssumption DEF Bundles
  <2>5. \A q \in Piers :
          (IF file'[q] = Absent THEN {} ELSE IF file'[q] = Torn THEN bundle[c][q] ELSE file'[q])
        = (IF file[q] = Absent THEN {} ELSE IF file[q] = Torn THEN bundle[c][q] ELSE file[q])
    BY <1>2, <1>7, <2>1, <2>2, <2>3, <2>4, NamesAssumption
  <2>6. Shelves' = Shelves
    BY <1>1, <1>4, <2>1, <2>5 DEF Midway
  <2>7. Owner' = Owner
    BY <1>1, <1>4, <2>1 DEF Midway
  <2>8. QED
    BY <1>1, <1>6, <2>1, <2>6, <2>7 DEF Ldg!vars
<1>9. CASE op[c].kind \notin Services
  <2>1. conf' = p /\ file' = file
    BY <1>9 DEF Written, Services
  <2>2. conf \in Partial
    BY <1>1, <1>9 DEF Pending
  <2>3. \A q \in Piers : file[q] # Torn
    BY <1>1, <1>2, <1>9, NothingTorn DEF Holding
  <2>4. Readable
    BY <2>3 DEF Readable
  <2>5. sound' = sound
    <3>1. \/ op[c].kind = "identity" /\ sound' = sound
          \/ op[c].kind # "identity"
             /\ sound' = [sound EXCEPT ![c] = sound[c] /\ op[c].kind = "config"]
      BY <1>9, <2>4 DEF Written, Services
    <3>2. CASE op[c].kind = "config"
      BY <1>7, <3>1, <3>2
    <3>3. CASE op[c].kind = "identity"
      BY <3>1, <3>3
    <3>4. CASE op[c].kind \in {"addpier", "delpier"}
      <4>1. ~sound[c]
        BY <1>1, <3>4 DEF Inv, Trust, Writing, Services
      <4>2. QED
        BY <1>7, <3>1, <3>4, <4>1
    <3>5. QED
      BY <1>2, <1>9, <3>2, <3>3, <3>4 DEF Kinds, Services
  <2>6. Shelves' = Shelves
    BY <1>1, <2>1, <2>3, ViewOfWhole, ViewOfWholeNext DEF WholeShelves, Loaded
  <2>7. Owner' = Owner
    BY <1>1, <1>2, <1>4, <2>1, <2>2, NamesAssumption DEF Midway, Partial
  <2>8. QED
    BY <1>1, <1>6, <2>5, <2>6, <2>7 DEF Ldg!vars
<1>10. QED
  BY <1>8, <1>9

LEMMA UnlockStutters ==
  ASSUME Inv, Inv', accidents = 0, NEW c \in Contexts, Unlock(c)
  PROVE  UNCHANGED Ldg!vars
<1>1. /\ pc[c] = "saved" /\ lock = c
      /\ mtime' = mtime + 1 /\ stamp' = [stamp EXCEPT ![c] = mtime + 1]
      /\ pc' = [pc EXCEPT ![c] = "idle"]
      /\ conf' = conf /\ dir' = dir /\ file' = file
      /\ opened' = opened /\ sound' = sound /\ accidents' = accidents
  BY DEF Unlock, Holds, disk, memory
<1>2. \A d \in Contexts : d # c => pc[d] \notin Holding
  BY <1>1, WriterAlone
<1>3. conf \notin Partial /\ \A p \in Piers : file[p] # Torn
  BY <1>1, <1>2, NothingTorn DEF Holding
<1>4. Midway(c)
  BY <1>1, WriterView DEF WritersMidway, InWrite
<1>5. Resting'
  <2>1. Quiet'
    BY <1>1, <1>2 DEF Quiet, Holding, Inv, TypeOK
  <2>2. (accidents = 0)'
    BY <1>1
  <2>3. QED
    BY <2>1, <2>2 DEF Resting
<1>6. Still'
  BY <1>5, RestingStillNext
<1>7. Shelves' = Shelves /\ Owner' = Owner
  BY <1>1, <1>3, ViewOfWhole, ViewOfWholeNext DEF WholeShelves, WholeOwner, Loaded
<1>8. mtime \in Nat /\ stamp \in [Contexts -> Nat]
  BY DEF Inv, TypeOK
<1>9. \A d \in Contexts : Knows(d)' = IF d = c THEN mtime + 1 ELSE Knows(d)
  BY <1>1, <1>8 DEF Knows
<1>10. Known' = Known
  BY <1>4, <1>6, <1>9 DEF Midway, Still
<1>11. Wrote' = Wrote
  <2>1. \A d \in Contexts : (stamp'[d] # 0) = (d = c \/ stamp[d] # 0)
    BY <1>1, <1>8
  <2>2. QED
    BY <1>4, <1>6, <2>1 DEF Midway, Still
<1>12. Version' = Version
  BY <1>1, <1>4, <1>6 DEF Midway, Still
<1>13. QED
  BY <1>1, <1>7, <1>10, <1>11, <1>12 DEF Ldg!vars

(* A step of a context that doesn't have the lock, and leaves the disk.    *)
LEMMA Bystander ==
  ASSUME Inv, Inv', NEW c \in Contexts, lock # c,
         UNCHANGED <<conf, dir, file, mtime, lock>>,
         \A d \in Contexts : d # c =>
           /\ pc'[d] = pc[d] /\ op'[d] = op[d] /\ bundle'[d] = bundle[d]
           /\ stamp'[d] = stamp[d] /\ opened'[d] = opened[d]
  PROVE  /\ Owner' = Owner /\ Shelves' = Shelves /\ Version' = Version
         /\ Known[c] = Knows(c)
         /\ Known' = [Known EXCEPT ![c] = Knows(c)'] /\ Wrote' = [Wrote EXCEPT ![c] = stamp'[c] # 0]
<1>1. lock # Nobody => lock \in Contexts /\ lock # c
  BY DEF Inv, TypeOK
<1>2. Owner' = Owner
  BY <1>1 DEF Owner
<1>3. Shelves' = Shelves
  BY <1>1 DEF Shelves, Shelf
<1>4. \A d \in Contexts : InWrite(d)' = InWrite(d)
  BY DEF InWrite
<1>5. Version' = Version
  BY <1>4 DEF Version
<1>6. ~InWrite(c) /\ ~InWrite(c)'
  BY DEF InWrite
<1>7. Known' = [Known EXCEPT ![c] = Knows(c)'] /\ Known[c] = Knows(c)
  <2>1. \A d \in Contexts : d # c => Knows(d)' = Knows(d)
    BY DEF Knows
  <2>2. QED
    BY <1>4, <1>6, <2>1 DEF Known
<1>8. Wrote' = [Wrote EXCEPT ![c] = stamp'[c] # 0]
  BY <1>4, <1>6 DEF Wrote
<1>9. QED
  BY <1>2, <1>3, <1>5, <1>7, <1>8

(* Steps under the lock, or to it, with nothing written yet.               *)
LEMMA RestingStep ==
  ASSUME Resting, Resting', UNCHANGED <<conf, dir, file, mtime>>
  PROVE  /\ Owner' = Owner /\ Shelves' = Shelves /\ Version' = Version
         /\ Known = [d \in Contexts |-> Knows(d)] /\ Known' = [d \in Contexts |-> Knows(d)']
         /\ Wrote = [d \in Contexts |-> stamp[d] # 0] /\ Wrote' = [d \in Contexts |-> stamp'[d] # 0]
BY RestingStill, RestingStillNext DEF Still, Loaded

LEMMA OpenOpens ==
  ASSUME Inv, Inv', NEW c \in Contexts, Open(c)
  PROVE  Ldg!Open(c)
<1>1. /\ pc[c] = "closed" /\ lock = Nobody
      /\ pc' = [pc EXCEPT ![c] = "idle"]
      /\ bundle' = [bundle EXCEPT ![c] = IF conf \in Unset THEN NoBundle ELSE Loaded]
      /\ stamp' = [stamp EXCEPT ![c] = 0] /\ opened' = [opened EXCEPT ![c] = mtime]
      /\ sound' = [sound EXCEPT ![c] = TRUE]
      /\ conf' = conf /\ dir' = dir /\ file' = file /\ mtime' = mtime /\ lock' = lock
      /\ op' = op /\ accidents' = accidents
  BY DEF Open, disk
<1>2. lock # c /\ \A d \in Contexts : lock # d
  BY <1>1, NamesAssumption
<1>3. \A d \in Contexts : d # c =>
        /\ pc'[d] = pc[d] /\ op'[d] = op[d] /\ bundle'[d] = bundle[d]
        /\ stamp'[d] = stamp[d] /\ opened'[d] = opened[d]
  BY <1>1 DEF Inv, TypeOK
<1>4. /\ Owner' = Owner /\ Shelves' = Shelves /\ Version' = Version
      /\ Known' = [Known EXCEPT ![c] = Knows(c)'] /\ Wrote' = [Wrote EXCEPT ![c] = stamp'[c] # 0]
  BY <1>1, <1>2, <1>3, Bystander
<1>5. stamp'[c] = 0 /\ opened'[c] = mtime
  BY <1>1 DEF Inv, TypeOK
<1>6. Knows(c)' = mtime
  BY <1>5 DEF Knows
<1>7. Version = mtime
  BY <1>2 DEF Version, InWrite
<1>8. Known' = [Known EXCEPT ![c] = Version] /\ Wrote' = [Wrote EXCEPT ![c] = FALSE]
  BY <1>4, <1>5, <1>6, <1>7
<1>9. QED
  BY <1>1, <1>4, <1>8 DEF Ldg!Open

(* The end of a context inside no write. *)
LEMMA ClosedLeaves ==
  ASSUME Inv, Inv', accidents = 0, accidents' = 0, NEW c \in Contexts, Closed(c), ~InWrite(c),
         UNCHANGED <<disk, mtime>>, lock' = IF lock = c THEN Nobody ELSE lock,
         sound' = [sound EXCEPT ![c] = FALSE]
  PROVE  Ldg!Leave(c)
<1>1. /\ pc' = [pc EXCEPT ![c] = "closed"] /\ op' = [op EXCEPT ![c] = Nobody]
      /\ bundle' = [bundle EXCEPT ![c] = NoBundle]
      /\ stamp' = [stamp EXCEPT ![c] = 0] /\ opened' = [opened EXCEPT ![c] = 0]
      /\ conf' = conf /\ dir' = dir /\ file' = file /\ mtime' = mtime
  BY DEF Closed, disk
<1>2. stamp'[c] = 0 /\ opened'[c] = 0
  BY <1>1 DEF Inv, TypeOK
<1>3. Knows(c)' = 0
  BY <1>2 DEF Knows
<1>4. \A d \in Contexts : d # c =>
        /\ pc'[d] = pc[d] /\ op'[d] = op[d] /\ bundle'[d] = bundle[d]
        /\ stamp'[d] = stamp[d] /\ opened'[d] = opened[d]
  BY <1>1 DEF Inv, TypeOK
<1>5. /\ Owner' = Owner /\ Shelves' = Shelves /\ Version' = Version
      /\ Known' = [Known EXCEPT ![c] = 0] /\ Wrote' = [Wrote EXCEPT ![c] = FALSE]
  <2>1. CASE lock # c
    <3>1. /\ Owner' = Owner /\ Shelves' = Shelves /\ Version' = Version
          /\ Known' = [Known EXCEPT ![c] = Knows(c)']
          /\ Wrote' = [Wrote EXCEPT ![c] = stamp'[c] # 0]
      BY <1>1, <1>4, <2>1, Bystander
    <3>2. QED
      BY <1>2, <1>3, <3>1
  <2>2. CASE lock = c
    <3>1. pc[c] = "save" /\ \A d \in Contexts : d # c => pc[d] \notin Holding
      BY <2>2, WriterAlone DEF InWrite, Holding
    <3>2. Resting
      BY <3>1 DEF Resting, Quiet, Holding
    <3>3. Quiet'
      BY <1>1, <1>4, <3>1 DEF Quiet, Holding, Inv, TypeOK
    <3>4. (accidents = 0)'
      OBVIOUS
    <3>5. Resting'
      BY <3>3, <3>4 DEF Resting
    <3>6. /\ Owner' = Owner /\ Shelves' = Shelves /\ Version' = Version
          /\ Known = [d \in Contexts |-> Knows(d)] /\ Known' = [d \in Contexts |-> Knows(d)']
          /\ Wrote = [d \in Contexts |-> stamp[d] # 0]
          /\ Wrote' = [d \in Contexts |-> stamp'[d] # 0]
      BY <1>1, <3>2, <3>5, RestingStep
    <3>7. \A d \in Contexts : d # c => Knows(d)' = Knows(d)
      BY <1>4 DEF Knows
    <3>8. Known' = [Known EXCEPT ![c] = 0]
      BY <1>3, <3>6, <3>7
    <3>9. Wrote' = [Wrote EXCEPT ![c] = FALSE]
      BY <1>2, <1>4, <3>6
    <3>10. QED
      BY <3>6, <3>8, <3>9
  <2>3. QED
    BY <2>1, <2>2
<1>6. QED
  BY <1>5 DEF Ldg!Leave

LEMMA CloseLeaves ==
  ASSUME Inv, Inv', accidents = 0, NEW c \in Contexts, Close(c)
  PROVE  Ldg!Leave(c)
<1>1. /\ pc[c] = "idle" /\ Closed(c) /\ sound' = [sound EXCEPT ![c] = FALSE]
      /\ UNCHANGED <<disk, mtime, lock, accidents>>
  BY DEF Close
<1>2. ~InWrite(c) /\ lock # c
  BY <1>1 DEF InWrite, Inv, Locked, Holding
<1>3. QED
  BY <1>1, <1>2, ClosedLeaves

LEMMA CrashLeaves ==
  ASSUME Inv, Inv', accidents = 0, accidents' = 0, NEW c \in Contexts, Crash(c)
  PROVE  Ldg!Leave(c)
<1>1. pc[c] \notin {"saving", "saved"}
  BY DEF Crash
<1>2. /\ Closed(c) /\ sound' = [sound EXCEPT ![c] = FALSE]
      /\ lock' = IF lock = c THEN Nobody ELSE lock
      /\ UNCHANGED <<disk, mtime>>
  BY <1>1 DEF Crash
<1>3. ~InWrite(c)
  BY <1>1 DEF InWrite
<1>4. QED
  BY <1>2, <1>3, ClosedLeaves

LEMMA EditStutters ==
  ASSUME Inv, Inv', NEW c \in Contexts, Edit(c)
  PROVE  UNCHANGED Ldg!vars
<1>1. PICK o : Begin(c, o)
  BY DEF Edit, AddService, DelService, SetConfig, AddPier, DelPier
<1>2. /\ pc[c] = "idle" /\ pc' = [pc EXCEPT ![c] = "lock"] /\ op' = [op EXCEPT ![c] = o]
      /\ conf' = conf /\ dir' = dir /\ file' = file /\ mtime' = mtime /\ lock' = lock
      /\ stamp' = stamp /\ opened' = opened /\ sound' = sound /\ accidents' = accidents
  BY <1>1 DEF Begin, disk
<1>3. bundle \in [Contexts -> Bundles]
  BY DEF Inv, TypeOK
<1>4. \A d \in Contexts : d # c => bundle'[d] = bundle[d]
  BY <1>3 DEF Edit, AddService, DelService, SetConfig, AddPier, DelPier, memory
<1>5. \A d \in Contexts : d # c => pc'[d] = pc[d] /\ op'[d] = op[d]
  BY <1>2 DEF Inv, TypeOK
<1>6. lock # c
  BY <1>2 DEF Inv, Locked, Holding
<1>7. /\ Owner' = Owner /\ Shelves' = Shelves /\ Version' = Version
      /\ Known[c] = Knows(c) /\ Known' = [Known EXCEPT ![c] = Knows(c)']
      /\ Wrote' = [Wrote EXCEPT ![c] = stamp'[c] # 0]
  BY <1>2, <1>4, <1>5, <1>6, Bystander
<1>8. Knows(c)' = Knows(c)
  BY <1>2 DEF Knows
<1>9. Known' = Known
  BY <1>7, <1>8 DEF Known
<1>10. Wrote[c] = (stamp'[c] # 0)
  BY <1>2, <1>6 DEF Wrote, InWrite
<1>11. Wrote' = Wrote
  BY <1>7, <1>10 DEF Wrote
<1>12. QED
  BY <1>2, <1>7, <1>9, <1>11 DEF Ldg!vars

(* The check of the time: who is told, or was late, loses its trust.       *)
LEMMA LockOvertakes ==
  ASSUME Inv, Inv', accidents = 0, NEW c \in Contexts, Lock(c)
  PROVE  UNCHANGED Ldg!vars \/ Ldg!Overtaken(c)
<1>1. /\ pc[c] = "lock" /\ lock = Nobody
      /\ conf' = conf /\ dir' = dir /\ file' = file /\ mtime' = mtime
      /\ op' = op /\ bundle' = bundle /\ stamp' = stamp /\ opened' = opened
      /\ accidents' = accidents
  BY DEF Lock, disk, memory
<1>2. \/ /\ Stale(c) /\ pc' = [pc EXCEPT ![c] = "idle"]
         /\ sound' = [sound EXCEPT ![c] = FALSE]
      \/ /\ pc' = [pc EXCEPT ![c] = "save"]
         /\ sound' = [sound EXCEPT ![c] = sound[c] /\ (stamp[c] = 0 => opened[c] = mtime)]
  BY DEF Lock
<1>3. \A d \in Contexts : pc[d] \notin Holding
  BY <1>1, NamesAssumption DEF Inv, Locked
<1>4. Resting
  BY <1>3 DEF Resting, Quiet, Holding
<1>5. Quiet'
  BY <1>2, <1>3 DEF Quiet, Holding, Inv, TypeOK
<1>6. (accidents = 0)'
  BY <1>1
<1>7. Resting'
  BY <1>5, <1>6 DEF Resting
<1>8. /\ Owner' = Owner /\ Shelves' = Shelves /\ Version' = Version
      /\ Known = [d \in Contexts |-> Knows(d)] /\ Known' = [d \in Contexts |-> Knows(d)']
      /\ Wrote = [d \in Contexts |-> stamp[d] # 0] /\ Wrote' = [d \in Contexts |-> stamp'[d] # 0]
  BY <1>1, <1>4, <1>7, RestingStep
<1>9. \A d \in Contexts : Knows(d)' = Knows(d)
  BY <1>1 DEF Knows
<1>10. Known' = Known /\ Wrote' = Wrote
  BY <1>1, <1>8, <1>9
<1>11. Version = mtime /\ Known[c] = Knows(c)
  BY <1>4, RestingStill DEF Still
<1>12. sound \in [Contexts -> BOOLEAN]
  BY DEF Inv, TypeOK
<1>13. CASE Knows(c) # mtime /\ sound' = [sound EXCEPT ![c] = FALSE]
  BY <1>1, <1>8, <1>10, <1>11, <1>13 DEF Ldg!Overtaken
<1>14. CASE sound' = sound
  BY <1>1, <1>8, <1>10, <1>14 DEF Ldg!vars
<1>15. CASE Stale(c) /\ sound' = [sound EXCEPT ![c] = FALSE]
  BY <1>13, <1>15 DEF Stale, Knows
<1>16. CASE sound' = [sound EXCEPT ![c] = sound[c] /\ (stamp[c] = 0 => opened[c] = mtime)]
  <2>1. CASE stamp[c] = 0 => opened[c] = mtime
    <3>1. sound' = sound
      BY <1>12, <1>16, <2>1
    <3>2. QED
      BY <1>14, <3>1
  <2>2. CASE stamp[c] = 0 /\ opened[c] # mtime
    <3>1. sound' = [sound EXCEPT ![c] = FALSE]
      BY <1>12, <1>16, <2>2
    <3>2. QED
      BY <1>13, <2>2, <3>1 DEF Knows
  <2>3. QED
    BY <2>1, <2>2
<1>17. QED
  BY <1>2, <1>15, <1>16

-----------------------------------------------------------------------------
LEMMA AccidentsStay ==
  ASSUME Inv, NEW c \in Contexts,
         Open(c) \/ Close(c) \/ Crash(c) \/ Edit(c) \/ Write(c), accidents' = 0
  PROVE  accidents = 0
<1>1. accidents \in Nat
  BY DEF Inv, TypeOK
<1>2. ASSUME Open(c) \/ Close(c) \/ Crash(c) PROVE accidents = 0
  BY <1>1, <1>2 DEF Open, Close, Crash
<1>3. ASSUME Edit(c) PROVE accidents = 0
  <2>1. PICK o : Begin(c, o)
    BY <1>3 DEF Edit, AddService, DelService, SetConfig, AddPier, DelPier
  <2>2. QED
    BY <2>1 DEF Begin
<1>4. ASSUME Write(c) PROVE accidents = 0
  BY <1>1, <1>4
     DEF Write, Lock, SaveServices, SaveConfig, SavePier, RemovePier, Written, WriteFails, Unlock
<1>5. QED
  BY <1>2, <1>3, <1>4

LEMMA LedgerStep ==
  ASSUME Inv, Inv', Fresh, Pending, [Next]_vars
  PROVE  [Ldg!Next]_Ldg!vars
<1>1. CASE UNCHANGED vars
  <2>1. /\ conf' = conf /\ dir' = dir /\ file' = file /\ mtime' = mtime /\ lock' = lock
        /\ pc' = pc /\ op' = op /\ bundle' = bundle /\ stamp' = stamp /\ opened' = opened
        /\ sound' = sound /\ accidents' = accidents
    BY <1>1 DEF vars
  <2>2. Owner' = Owner /\ Shelves' = Shelves
    BY <2>1 DEF Owner, Shelves, Shelf
  <2>3. Version' = Version /\ Known' = Known /\ Wrote' = Wrote
    BY <2>1 DEF Version, Known, Wrote, InWrite, Knows
  <2>4. QED
    BY <2>1, <2>2, <2>3 DEF Ldg!vars
<1>2. CASE accidents' # 0
  <2>1. Ldg!Fault
    BY <1>2 DEF Ldg!Fault
  <2>2. QED
    BY <2>1 DEF Ldg!Next
<1>3. ASSUME accidents' = 0, NEW c \in Contexts,
             Open(c) \/ Close(c) \/ Crash(c) \/ Edit(c) \/ Write(c)
      PROVE  [Ldg!Next]_Ldg!vars
  <2>1. accidents = 0
    BY <1>3, AccidentsStay
  <2>2. CASE Open(c) \/ Close(c) \/ Crash(c)
    <3>1. Ldg!Open(c) \/ Ldg!Leave(c)
      BY <1>3, <2>1, <2>2, OpenOpens, CloseLeaves, CrashLeaves
    <3>2. QED
      BY <3>1 DEF Ldg!Next
  <2>3. CASE Edit(c)
    BY <2>3, EditStutters
  <2>4. CASE SaveServices(c) \/ SaveConfig(c) \/ SavePier(c) \/ RemovePier(c)
    <3>1. Ldg!Write(c)
      BY <1>3, <2>1, <2>4, SaveServicesWrites, SaveConfigWrites, SavePierWrites, RemovePierWrites
    <3>2. QED
      BY <3>1 DEF Ldg!Next
  <2>5. CASE Written(c) \/ Unlock(c)
    BY <2>1, <2>5, WrittenStutters, UnlockStutters
  <2>6. CASE Lock(c)
    <3>1. UNCHANGED Ldg!vars \/ Ldg!Overtaken(c)
      BY <2>1, <2>6, LockOvertakes
    <3>2. QED
      BY <3>1 DEF Ldg!Next
  <2>7. CASE WriteFails(c)
    <3>1. accidents' = accidents + 1
      BY <2>7 DEF WriteFails
    <3>2. QED
      BY <1>3, <2>1, <3>1
  <2>8. QED
    BY <1>3, <2>2, <2>3, <2>4, <2>5, <2>6, <2>7 DEF Write
<1>4. QED
  BY <1>1, <1>2, <1>3 DEF Next

LEMMA LedgerInit ==
  ASSUME Init
  PROVE  Ldg!Init /\ Fresh /\ Pending
<1>1. /\ conf = Absent /\ dir = [p \in Piers |-> "none"] /\ mtime = 1 /\ lock = Nobody
      /\ pc = [c \in Contexts |-> "closed"] /\ stamp = [c \in Contexts |-> 0]
      /\ opened = [c \in Contexts |-> 0] /\ sound = [c \in Contexts |-> FALSE] /\ accidents = 0
  BY DEF Init
<1>2. \A c \in Contexts : ~InWrite(c) /\ Knows(c) = 0 /\ stamp[c] = 0
  BY <1>1 DEF InWrite, Knows
<1>3. Owner = Nobody /\ Version = 1
  BY <1>1, <1>2 DEF Owner, Version
<1>4. Shelves = [p \in Piers |-> Absent]
  BY <1>1 DEF Shelves, Shelf
<1>5. Known = [c \in Contexts |-> 0] /\ Wrote = [c \in Contexts |-> FALSE]
  BY <1>2 DEF Known, Wrote
<1>6. (accidents = 0) = TRUE
  BY <1>1
<1>7. QED
  BY <1>1, <1>3, <1>4, <1>5, <1>6 DEF Ldg!Init, Fresh, Pending

(* The files, the lock and the times are the compare-and-swap register of  *)
(* Ledger, for any contexts, piers and services, until the first accident. *)
THEOREM StoreImplementsLedger == Spec => Implements
<1>1. Init => Inv /\ Ldg!Init /\ Fresh /\ Pending
  BY InitInv, LedgerInit
<1>2. Inv /\ Fresh /\ Pending /\ [Next]_vars =>
        Inv' /\ Fresh' /\ Pending' /\ [Ldg!Next]_Ldg!vars
  BY NextInv, FreshInv, PendingInv, LedgerStep
<1>3. QED
  BY <1>1, <1>2, PTL DEF Spec, Implements, Ldg!Spec

=============================================================================

-------------------------------- MODULE Desk --------------------------------
(***************************************************************************)
(* The services as the user edits them (ui/context.cpp: ServiceImpl and    *)
(* the functions of Context; ui/mainframe.cpp: the buttons and menus that  *)
(* add, edit, delete, import and offer services; the data the service and  *)
(* exchange dialogs hand over).                                            *)
(*                                                                         *)
(* One service lives in four places: the file of its pier, the memory of   *)
(* the context, the item on the screen (which keeps the service it came    *)
(* from, m_origin), and the controller of the backend.  An operation of    *)
(* the user changes them one after another, and may fail in between.       *)
(*                                                                         *)
(* There is one UI (several are in Store) and its identity stays.  A       *)
(* failed write leaves the file as it was (torn files are in Store).       *)
(* Every controller runs: one that sleeps holds no configuration that      *)
(* could be out of date (see Engine).  The exchange dialog is modal, so an *)
(* import is one operation of the user, in the steps of its loops.         *)
(***************************************************************************)
EXTENDS Naturals, FiniteSets

CONSTANTS
  Own,      \* the local pier
  Piers,    \* the remote ones
  Certs,    \* certificates of piers
  Names,    \* names of services
  Values,   \* the other fields of a service, as one: address, gateway, proto
  Blank,    \* fields without an address; a dialog can be left so if in Values
  Obscure,  \* the fields with a gateway that no resolver knows
  Fates,    \* how a write of the context may end: "fine", "del", "add"
  Offered,  \* the certificates that come with offers
  Spoilt,   \* those of them that can't be parsed
  MaxActs,  \* bound on what the user does, the rounds of an import apart
  MaxShelf, \* bound on the services of one pier
  NoName, Absent

ASSUME DeskAssumption ==
  /\ Own \notin Piers /\ NoName \notin Names /\ Absent \notin Certs
  /\ Obscure \subseteq Values /\ Spoilt \subseteq Offered /\ Offered \subseteq Certs
  /\ "fine" \in Fates /\ Fates \subseteq {"fine", "del", "add"}
  /\ MaxActs \in Nat

VARIABLES
  disk,    \* disk[d]: the services in the file of pier d, Absent without it
  mem,     \* mem[d]: those in the bundle of g_context
  cert,    \* cert[p]: the certificate kept for pier p
  pool,    \* pool[h]: the service the backend's controller of h runs with
  linked,  \* the connection to the backend works
  exports, imports,  \* the items of the main window
  job,     \* the import under way
  lapses,  \* what went wrong since screen and memory were last read anew
  untold,  \* what went wrong since the backend last read everything
  acts     \* the operations of the user so far

vars == <<disk, mem, cert, pool, linked, exports, imports, job, lapses, untold, acts>>
shelves == <<disk, mem, cert, pool>>

-----------------------------------------------------------------------------
(* Services, items, handles.                                               *)

Homes == {Own} \cup Piers
Fields == Values \cup {Blank}
Service == [name : Names \cup {NoName}, piers : SUBSET Piers, value : Fields]
Import(p) == {s \in Service : s.piers = {p}}
Nothing == [name |-> NoName, piers |-> {}, value |-> Blank]
Item == [origin : Service, now : Service]
Clean(s) == [origin |-> s, now |-> s]
Fresh(s) == [origin |-> Nothing, now |-> s]
Dirty(i) == i.now # i.origin
Handles == Homes \X (Names \cup {NoName})

Sides == {"export", "import"}
Home(side, s) == IF side = "export" THEN Own
                                   ELSE CHOOSE p \in s.piers : TRUE

(* What the memory d -> services holds under a name: one service at most.  *)
Named(shelf, d, n) == IF d \in Homes /\ shelf[d] # Absent
                      THEN {s \in shelf[d] : s.name = n} ELSE {}

(* What load_config of the backend finds for a handle (Engine): a service  *)
(* without a name is none.                                                 *)
Configured(h) == IF h[2] = NoName THEN {} ELSE Named(disk, h[1], h[2])

NoJob == [phase |-> "idle"]
Busy == job.phase \in {"exports", "purge", "imports"}
Idle == job.phase = "idle"

Shelves == [Homes -> {Absent} \cup SUBSET Service]
Job == [phase : {"exports", "purge", "imports"}, pier : Piers,
        todo : SUBSET Item, chosen : SUBSET Item,
        picks : SUBSET Service, agreed : SUBSET Service, purge : BOOLEAN, swap : BOOLEAN]

TypeOK ==
  /\ disk \in Shelves /\ mem \in Shelves
  /\ \A d \in Homes : mem[d] # Absent =>
       \A s, t \in mem[d] : s.name = t.name => s = t
  /\ cert \in [Piers -> {Absent} \cup Certs]
  /\ pool \in [Handles -> SUBSET Service]
  /\ linked \in BOOLEAN
  /\ exports \subseteq Item /\ imports \subseteq Item
  /\ job \in Job \/ job.phase \in {"idle", "dead"}
  /\ acts \in 0..MaxActs
  /\ lapses \subseteq {"fault", "clash", "refused", "offline", "draft"}
  /\ untold \subseteq {"fault", "clash", "refused", "offline", "draft", "moved", "swap"}

Init ==
  /\ disk = [d \in Homes |-> IF d = Own THEN {} ELSE Absent]
  /\ mem = disk
  /\ cert = [p \in Piers |-> Absent]
  /\ pool = [h \in Handles |-> {}]
  /\ linked = TRUE
  /\ exports = {} /\ imports = {}
  /\ job = NoJob
  /\ lapses = {} /\ untold = {} /\ acts = 0

-----------------------------------------------------------------------------
(* The context: every operation edits the memory, then writes the file.    *)

Here == [disk |-> disk, mem |-> mem, why |-> "done"]

Save(w, d, fails) ==
  IF fails THEN [w EXCEPT !.why = "fault"] ELSE [w EXCEPT !.disk[d] = w.mem[d]]

(* del_export_service, del_import_service: nothing by that name is fine.   *)
Del(w, d, n, fails) ==
  IF w.mem[d] = Absent THEN [w EXCEPT !.why = "refused"]
  ELSE IF Named(w.mem, d, n) = {} THEN w
  ELSE Save([w EXCEPT !.mem[d] = @ \ Named(w.mem, d, n)], d, fails)

(* Faulty variant: added to the memory and not written. *)
AddUnsaved(w, d, s, fails) ==
  IF w.mem[d] = Absent THEN [w EXCEPT !.why = "refused"]
  ELSE IF Named(w.mem, d, s.name) # {} THEN [w EXCEPT !.why = "clash"]
  ELSE [w EXCEPT !.mem[d] = @ \cup {s}]

(* Faulty variant: a name that is taken is taken twice. *)
AddTwice(w, d, s, fails) ==
  IF w.mem[d] = Absent THEN [w EXCEPT !.why = "refused"]
  ELSE Save([w EXCEPT !.mem[d] = @ \cup {s}], d, fails)

(* add_export_service, add_import_service.                                 *)
Add(w, d, s, fails) ==
  IF w.mem[d] = Absent THEN [w EXCEPT !.why = "refused"]
  ELSE IF Named(w.mem, d, s.name) # {} THEN [w EXCEPT !.why = "clash"]
  ELSE Save([w EXCEPT !.mem[d] = @ \cup {s}], d, fails)

(* Backend::Adjust: the backend reads the files and restarts, boots or     *)
(* drops the controller; nothing reaches it without the connection.        *)
Told(w, hs) ==
  IF ~linked THEN pool
  ELSE [h \in Handles |->
         IF h \notin hs THEN pool[h]
         ELSE IF h[2] = NoName THEN {} ELSE Named(w.disk, h[1], h[2])]

-----------------------------------------------------------------------------
(* ServiceImpl::Store: delete the service the item came from, add the one  *)
(* it shows, have the backend told.  What is thrown is caught and printed, *)
(* and skips the rest.                                                     *)

(* Faulty variant: the service the item came from stays. *)
ForgetNothing(side, it, fails) == Here

Forget(side, it, fails) ==
  IF it.origin.name = NoName THEN Here
  ELSE Del(Here, Home(side, it.origin), it.origin.name, fails)

(* Faulty variant: the backend isn't told of the name that is gone. *)
AnnouncedNow(side, it) == {<<Home(side, it.now), it.now.name>>}

(* The handles that are told: the pier is the one the item shows.          *)
Announced(side, it) == {<<Home(side, it.now), n>> : n \in {it.origin.name, it.now.name}}

(* The context, the item and the pool after Store, with the reasons why    *)
(* the screen (lapse) or the backend (gap) may be off the files now.       *)
Store(side, it, fate) ==
  LET d    == Forget(side, it, fate = "del")
      w    == IF d.why = "done" THEN Add(d, Home(side, it.now), it.now, fate = "add") ELSE d
      kept == w.why = "done" /\ (linked \/ it.origin.name = it.now.name)
      why  == IF w.why # "done" THEN {w.why} ELSE IF linked THEN {} ELSE {"offline"}
      moved == it.origin.name # NoName /\ Home(side, it.origin) # Home(side, it.now)
  IN  IF Dirty(it)
      THEN [w |-> w, item |-> [it EXCEPT !.origin = IF kept THEN it.now ELSE @],
            pool |-> IF w.why = "done" THEN Told(w, Announced(side, it)) ELSE pool,
            lapse |-> why, gap |-> why \cup (IF moved THEN {"moved"} ELSE {})]
      ELSE [w |-> Here, item |-> it, pool |-> pool, lapse |-> {}, gap |-> {}]

(* The outcome of a Store as the next state.                               *)
Take(r) ==
  /\ \A d \in {e \in Homes : r.w.mem[e] # Absent} : Cardinality(r.w.mem[d]) <= MaxShelf
  /\ disk' = r.w.disk /\ mem' = r.w.mem /\ pool' = r.pool
  /\ lapses' = lapses \cup r.lapse /\ untold' = untold \cup r.gap
  /\ UNCHANGED <<cert, linked>>

(* Populate: every item anew from the memory m.                            *)
Exports(m) == {Clean(s) : s \in m[Own]}
Imports(m) == UNION {{Clean(s) : s \in m[p]} : p \in {q \in Piers : m[q] # Absent}}
Populate(m) == exports' = Exports(m) /\ imports' = Imports(m)

(* open_context: a directory without a certificate is passed over.         *)
Loaded(d, c) == [h \in Homes |-> IF h = Own \/ c[h] # Absent THEN d[h] ELSE Absent]

(* The message box of a failure, then Reload and Populate from the files.  *)
ReadAnew(d, c) == mem' = Loaded(d, c) /\ Populate(Loaded(d, c)) /\ lapses' = {}

-----------------------------------------------------------------------------
(* The buttons.                                                            *)

Items(side) == IF side = "export" THEN exports ELSE imports
Replace(side, old, new) ==
  IF side = "export" THEN exports' = (exports \ old) \cup new /\ UNCHANGED imports
                     ELSE imports' = (imports \ old) \cup new /\ UNCHANGED exports

Known == {p \in Piers : mem[p] # Absent}

(* What the service dialog can be left with: piers that are known, and one *)
(* of them for an import.  A name is always filled in.                     *)
Drafts(side) == {s \in [name : Names, piers : SUBSET Known, value : Values] :
                   side = "import" => \E p \in Known : s.piers = {p}}
Valid(s) == s.value # Blank

(* onAddServiceButtonClick.                                                *)
AddService(side, s, fate) ==
  /\ Idle /\ Valid(s)
  /\ LET r == Store(side, Fresh(s), fate) IN Take(r) /\ Replace(side, {}, {r.item})
  /\ UNCHANGED job

(* onEditServiceButtonClick: OK writes the fields into the item, and then  *)
(* refuses those that are not valid; the user cancels and they stay there. *)
EditService(side, it, s, fate) ==
  /\ Idle /\ Valid(s)
  /\ LET r == Store(side, [it EXCEPT !.now = s], fate)
     IN  Take(r) /\ Replace(side, {it}, {r.item})
  /\ UNCHANGED job

EditRefused(side, it, s) ==
  /\ Idle /\ ~Valid(s)
  /\ Replace(side, {it}, {[it EXCEPT !.now = s]})
  /\ lapses' = lapses \cup {"draft"} /\ untold' = untold \cup {"draft"}
  /\ UNCHANGED <<shelves, linked, job>>

(* ServiceImpl::Purge: del is outside of its try.                          *)
Purged(side, it, fate) ==
  LET w == Forget(side, it, fate = "del")
  IN  [w |-> w, pool |-> Told(w, {<<Home(side, it.now), it.now.name>>}),
       lapse |-> {}, gap |-> IF linked THEN {} ELSE {"offline"}]

(* onDeleteServiceButtonClick.                                             *)
DeleteService(side, it, fate) ==
  LET r == Purged(side, it, fate)
  IN  /\ Idle
      /\ IF r.w.why = "done"
         THEN Take(r) /\ Replace(side, {it}, {})
         ELSE /\ Take([r EXCEPT !.pool = pool, !.lapse = {"fault"}, !.gap = {"fault"}])
              /\ UNCHANGED <<exports, imports>>
      /\ UNCHANGED job

(* onImportRadioClick, onExportRadioClick: the items anew from the memory. *)
Radio ==
  /\ Idle
  /\ Populate(mem)
  /\ lapses' = lapses \cap {"fault"}
  /\ UNCHANGED <<shelves, linked, job, untold>>

(* OnSettingsMenuSelection with ConfigImpl::Store: the identity stays, the *)
(* backend adjusts every service; if it can't be told, it all counts as a  *)
(* failure.                                                                *)
Settings ==
  /\ Idle
  /\ IF linked
     THEN /\ pool' = [h \in Handles |-> Configured(h)] /\ untold' = lapses
          /\ UNCHANGED <<mem, exports, imports, lapses>>
     ELSE ReadAnew(disk, cert) /\ UNCHANGED <<pool, untold>>
  /\ UNCHANGED <<disk, cert, linked, job>>

-----------------------------------------------------------------------------
(* OnImportMenuSelection.                                                  *)

Without(it, p) == [it EXCEPT !.now.piers = @ \ {p}]

(* Faulty variant: the pier of an export is set as that of an import is. *)
WithOnly(it, p) == [it EXCEPT !.now.piers = {p}]

With(it, p) == [it EXCEPT !.now.piers = @ \cup {p}]

(* Faulty variant: the picked exports are the ones the pier is taken from. *)
GrantSwapped(it, j) == IF it \in j.chosen THEN Without(it, j.pier) ELSE With(it, j.pier)

Grant(it, j) == IF it \in j.chosen THEN With(it, j.pier) ELSE Without(it, j.pier)

(* What can be picked from an offer of p: services whose address is given. *)
Picks(p) == {I \in SUBSET {s \in [name : Names, piers : {{p}}, value : Values] : Valid(s)} :
               /\ \A s, t \in I : s.name = t.name => s = t
               /\ Cardinality(I) <= MaxShelf}

(* The loops of an import follow each other.                               *)
OfPier(p) == {i \in imports : i.now.piers = {p}}

Then(j) ==
  IF j.phase = "exports" /\ j.todo = {}
  THEN IF j.purge /\ OfPier(j.pier) # {}
       THEN [j EXCEPT !.phase = "purge", !.todo = OfPier(j.pier)]
       ELSE [j EXCEPT !.phase = "imports"]
  ELSE IF j.phase = "purge" /\ j.todo = {} THEN [j EXCEPT !.phase = "imports"] ELSE j

Swap(p, c) == p \in Known /\ cert[p] # c
Shown(p, c) == IF Swap(p, c) THEN {Without(i, p) : i \in exports} ELSE exports

(* add_pier finds a directory for a pier that is not known.                *)
ImportRefused(p) ==
  /\ Idle /\ p \notin Known /\ disk[p] # Absent
  /\ ReadAnew(disk, cert)
  /\ UNCHANGED <<disk, cert, pool, linked, job, untold>>

(* The dialog is cancelled, after a pier that is to be replaced was taken  *)
(* from the items.                                                         *)
ImportCancelled(p, c) ==
  /\ Idle /\ Swap(p, c) /\ Shown(p, c) # exports
  /\ exports' = Shown(p, c)
  /\ lapses' = lapses \cup {"draft"} /\ untold' = untold \cup {"draft"}
  /\ UNCHANGED <<shelves, linked, imports, job>>

(* DelPier and AddPier, then the loops.  A certificate that can't be       *)
(* parsed is found out after the directory is made.                        *)
ImportStarts(p, c, chosen, picks, purge) ==
  LET new == Swap(p, c) \/ p \notin Known
      j   == [phase |-> "exports", pier |-> p, todo |-> Shown(p, c), chosen |-> chosen,
              picks |-> picks, agreed |-> {}, purge |-> purge, swap |-> Swap(p, c)]
  IN  /\ Idle /\ (p \notin Known => disk[p] = Absent)
      /\ chosen \subseteq Shown(p, c) /\ picks \in Picks(p)
      /\ disk' = IF new THEN [disk EXCEPT ![p] = {}] ELSE disk
      /\ cert' = IF new THEN [cert EXCEPT ![p] = IF c \in Spoilt THEN Absent ELSE c] ELSE cert
      /\ untold' = IF Swap(p, c) THEN untold \cup {"swap"} ELSE untold
      /\ IF new /\ c \in Spoilt
         THEN ReadAnew(disk', cert') /\ UNCHANGED job
         ELSE /\ mem' = IF new THEN [mem EXCEPT ![p] = {}] ELSE mem
              /\ exports' = Shown(p, c)
              /\ job' = Then(j)
              /\ UNCHANGED <<imports, lapses>>
      /\ UNCHANGED <<pool, linked>>

(* One round of the loop over the exports.                                 *)
ImportGrants(it, fate) ==
  /\ job.phase = "exports" /\ it \in job.todo
  /\ LET r == Store("export", Grant(it, job), fate)
     IN  Take(r) /\ exports' = (exports \ {it}) \cup {r.item}
  /\ job' = Then([job EXCEPT !.todo = @ \ {it}])
  /\ UNCHANGED imports

(* One round of the loop that purges; a failure ends the import.           *)
ImportPurges(it, fate) ==
  LET r == Purged("import", it, fate)
  IN  /\ job.phase = "purge" /\ it \in job.todo
      /\ IF r.w.why = "done"
         THEN /\ Take(r) /\ UNCHANGED <<exports, imports>>
              /\ job' = Then([job EXCEPT !.todo = @ \ {it}])
         ELSE /\ ReadAnew(disk, cert) /\ job' = NoJob
              /\ untold' = untold \cup {"fault"}
              /\ UNCHANGED <<disk, cert, pool, linked>>

(* One round of the loop over the imports.  Merging, one that is there     *)
(* already is stored if it differs and the user says so.                   *)
ImportStores(s, yes, fate) ==
  LET curr == IF job.purge THEN {} ELSE {i \in OfPier(job.pier) : i.now.name = s.name}
      same == \E i \in curr : i.now = s
      r    == Store("import", Fresh(s), fate)
  IN  /\ job.phase = "imports" /\ s \in job.picks
      /\ curr = {} \/ same => yes
      /\ IF yes /\ ~same
         THEN Take(r)
         ELSE UNCHANGED <<shelves, linked, lapses, untold>>
      /\ job' = [job EXCEPT !.picks = @ \ {s},
                            !.agreed = IF yes THEN @ \cup {s} ELSE @]
      /\ UNCHANGED <<exports, imports>>

ImportEnds ==
  /\ job.phase = "imports" /\ job.picks = {}
  /\ Populate(mem)
  /\ job' = NoJob
  /\ lapses' = lapses \cap {"fault"}
  /\ UNCHANGED <<shelves, linked, untold>>

-----------------------------------------------------------------------------
(* OnExportMenuSelection, and the reply to an offer: WriteOffer asks       *)
(* IsIPv6 of each service, which resolves the gateway and may not throw.   *)
OfferWritten(chosen) ==
  /\ Idle /\ chosen \subseteq exports
  /\ \E i \in chosen : i.now.value \in Obscure
  /\ job' = [phase |-> "dead"]
  /\ UNCHANGED <<shelves, linked, exports, imports, lapses, untold>>

(* The file can't be written.                                              *)
OfferFails ==
  /\ Idle
  /\ exports' = {Clean(i.origin) : i \in exports}
  /\ UNCHANGED <<shelves, linked, imports, job, lapses, untold>>

(* A request took too long: the socket of the UI is closed for good.       *)
LoseLink ==
  /\ linked' = FALSE
  /\ UNCHANGED <<shelves, exports, imports, job, lapses, untold>>

(* The UI ends at any time, also by the desktop, and is started again; the *)
(* backend goes on, or it is a new one that reads everything.              *)
Restart(fresh) ==
  /\ ReadAnew(disk, cert)
  /\ linked' = TRUE /\ job' = NoJob
  /\ IF fresh THEN pool' = [h \in Handles |-> Configured(h)] /\ untold' = {}
              ELSE UNCHANGED <<pool, untold>>
  /\ UNCHANGED <<disk, cert>>

ImportRound ==
  \/ \E fate \in Fates :
       \/ \E it \in exports : ImportGrants(it, fate)
       \/ \E it \in imports : ImportPurges(it, fate)
       \/ Busy /\ \E s \in job.picks, yes \in BOOLEAN : ImportStores(s, yes, fate)
  \/ ImportEnds

UserAct == acts < MaxActs /\ acts' = acts + 1 /\
  \/ \E side \in Sides, fate \in Fates :
       \/ \E s \in Drafts(side) : AddService(side, s, fate)
       \/ \E it \in Items(side) : DeleteService(side, it, fate)
       \/ \E it \in Items(side), s \in Drafts(side) : EditService(side, it, s, fate)
  \/ \E side \in Sides : \E it \in Items(side), s \in Drafts(side) : EditRefused(side, it, s)
  \/ Radio \/ Settings
  \/ \E p \in Piers : ImportRefused(p)
  \/ \E p \in Piers, c \in Offered :
       \/ ImportCancelled(p, c)
       \/ \E chosen \in SUBSET Shown(p, c), picks \in Picks(p), purge \in BOOLEAN :
            ImportStarts(p, c, chosen, picks, purge)
  \/ \E chosen \in SUBSET exports : OfferWritten(chosen)
  \/ OfferFails

Next ==
  \/ UserAct
  \/ ImportRound /\ UNCHANGED acts
  \/ LoseLink /\ UNCHANGED acts
  \/ \E fresh \in BOOLEAN : Restart(fresh) /\ UNCHANGED acts

Spec == Init /\ [][Next]_vars

-----------------------------------------------------------------------------
(* Properties.                                                             *)

(* The memory of the context is what the files hold, in the middle of an   *)
(* import too, until a write fails: the operations edit the memory first   *)
(* (store/context.cpp) and only a failure reads it anew (Context::Reload). *)
MemoryTellsDisk == "fault" \notin lapses => mem = Loaded(disk, cert)

(* The main window shows the services that are stored, no more and no      *)
(* fewer, and every item knows the service it came from: what Store and    *)
(* Purge go by.  It holds until a write fails, a name is taken, the        *)
(* backend is away while something is renamed or added, or a dialog is     *)
(* left with fields in the item; Populate makes it hold again.  A service  *)
(* that was stored without a name for these reasons can't be removed.      *)
Nameless == Named(disk, Own, NoName) # {}
ScreenTellsDisk ==
  Idle /\ lapses = {} /\ ~Nameless =>
    /\ exports = Exports(Loaded(disk, cert))
    /\ imports = Imports(Loaded(disk, cert))

(* Between two operations the backend runs every service as it is stored   *)
(* and nothing else (ServiceImpl::Store tells it both names, Purge the one *)
(* that is gone), but for what went wrong since it last read everything,   *)
(* the services of a pier that was replaced and imports that changed pier. *)
BackendTellsDisk == Idle /\ untold = {} => \A h \in Handles : pool[h] = Configured(h)

(* Importing an offer changes the services of its pier and the exports'    *)
(* rights of that pier: the other piers keep their services and rights.    *)
Rights(d, p) == {s.name : s \in {t \in d[Own] : p \in t.piers}}
ImportTouchesOnePier ==
  [][ImportRound /\ lapses = {} =>
       \A q \in Piers \ {job.pier} :
         disk'[q] = disk[q] /\ (lapses' = {} => Rights(disk', q) = Rights(disk, q))]_vars

(* When an import ends well, the pier may use the exports that were picked *)
(* and no others; its services are the picked ones, all of them, with the  *)
(* earlier ones unless they were to be purged.  A service that is stored   *)
(* without a name may be off the screen, and then keeps its rights.        *)
ImportSettles ==
  [][ImportEnds /\ lapses = {} /\ untold = {} /\ ~Nameless =>
       /\ Rights(disk, job.pier) = {i.now.name : i \in job.chosen}
       /\ job.agreed \subseteq disk[job.pier]
       /\ job.purge => disk[job.pier] = job.agreed]_vars
=============================================================================

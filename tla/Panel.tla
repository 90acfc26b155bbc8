------------------------------- MODULE Panel --------------------------------
(***************************************************************************)
(* What the user sees of the backend, and what a click makes of it         *)
(* (ui/mainframe.cpp: RefreshStatus, notify, makeListItem, the handlers of *)
(* the service list and the timer; ui/main.cpp: the menu of the tray icon; *)
(* controller::state and the status requests of backend/server.cpp).       *)
(*                                                                         *)
(* The window keeps a copy of the states (m_status) from the last refresh, *)
(* an icon in each row, and the text of the status bar; the backend goes   *)
(* on meanwhile, and other programs talk to it too.  A menu is a snapshot: *)
(* what it offers was decided when it came up.                             *)
(*                                                                         *)
(* A controller is the sequence of its connectors' states in the order of  *)
(* its bundle; how they come about is in Connector.  A handle is served by *)
(* at most one item, whatever that took (see Desk).                        *)
(***************************************************************************)
EXTENDS Naturals, Sequences, FiniteSets

CONSTANTS
  Handles,  \* services: pier and name
  Exports,  \* those of the local pier, the rows of the other side of the list
  Autos,    \* those that start with the backend
  Width,    \* the piers of a service
  Unknown,  \* not in m_status
  Absent    \* no controller; no menu; no row

ASSUME PanelAssumption ==
  /\ Exports \subseteq Handles /\ Autos \subseteq Handles /\ Width \in Nat \ {0}
  /\ Absent \notin {"lonely", "burden", "broken", "asleep"} \cup Handles
  /\ Unknown \notin {"lonely", "burden", "broken", "asleep"}

VARIABLES
  stored,   \* the services that the files of the piers have
  bundle,   \* bundle[h]: the connectors of the controller of h, or Absent
  linked,   \* the connection to the backend works
  items,    \* the services of m_export and m_import
  side,     \* which of them the list shows
  seen,     \* m_status
  icon,     \* icon[h]: in the row of h
  selected, \* the selected row
  bar,      \* the state in the status bar
  menu,     \* the menu that is open: a service and whether it slept then
  told      \* told[h]: the last notification about h

vars == <<stored, bundle, linked, items, side, seen, icon, selected, bar, menu, told>>
screen == <<items, side, selected>>

-----------------------------------------------------------------------------
Links == {"lonely", "burden", "broken"}
States == Links \cup {"asleep"}
Bundles == {<<>>} \cup UNION {[1..n -> Links] : n \in 1..Width}

ASSUME AbsentAssumption == Absent \notin Bundles

(* controller::state: the first connector that is broken or has a tunnel.  *)
StateOf(b) ==
  IF b = <<>> THEN "asleep"
  ELSE IF \A i \in DOMAIN b : b[i] = "lonely" THEN "lonely"
  ELSE b[CHOOSE i \in DOMAIN b : b[i] # "lonely" /\ \A j \in 1..(i - 1) : b[j] = "lonely"]

(* controller::restart: a connector for each pier, one at least, and fewer  *)
(* than the service has if one of them throws.  A connector that is there   *)
(* spares its tunnel and keeps the error that led there, or starts over.    *)
Restarts(b) ==
  {c \in Bundles \ {<<>>} :
     \A i \in DOMAIN c :
       c[i] = "lonely" \/ (b \notin {Absent, <<>>} /\ i \in DOMAIN b /\ c[i] = b[i])}

Runs(b) == b \notin {Absent, <<>>}

Listed == IF side = "export" THEN items \cap Exports ELSE items \ Exports

TypeOK ==
  /\ stored \subseteq Handles
  /\ bundle \in [Handles -> {Absent} \cup Bundles]
  /\ linked \in BOOLEAN
  /\ items \subseteq Handles /\ side \in {"import", "export"}
  /\ seen \in [Handles -> {Unknown} \cup States]
  /\ icon \in [Handles -> {Absent} \cup States]
  /\ \A h \in Handles : icon[h] # Absent <=> h \in Listed
  /\ selected \in {Absent} \cup Listed
  /\ bar \in {Absent} \cup States
  /\ menu \in {Absent} \cup [about : Handles, asleep : BOOLEAN]
  /\ told \in [Handles -> {"none", "broken", "burden"}]

(* makeListItem: what m_status has, else what the service is meant to be.  *)
Guess(h) == IF seen[h] # Unknown THEN seen[h] ELSE IF h \in Autos THEN "lonely" ELSE "asleep"

(* Populate, for the items and the side that come.                         *)
Rows(its, sd) ==
  [h \in Handles |-> IF h \in its /\ (h \in Exports <=> sd = "export") THEN Guess(h) ELSE Absent]

Init ==
  /\ bundle \in [Handles -> {Absent, <<>>}]
  /\ linked = TRUE
  /\ stored = {h \in Handles : bundle[h] # Absent}
  /\ items = {h \in Handles : bundle[h] # Absent}
  /\ side = "import"
  /\ seen = [h \in Handles |-> Unknown]
  /\ icon = [h \in Handles |->
              IF h \in items \ Exports THEN IF h \in Autos THEN "lonely" ELSE "asleep" ELSE Absent]
  /\ selected = Absent /\ bar = Absent
  /\ menu = Absent
  /\ told = [h \in Handles |-> "none"]

-----------------------------------------------------------------------------
(* Refreshing.                                                             *)

(* Faulty variant: only failures are reported. *)
NoticeFailed(h, curr, next) == IF next # curr /\ next = "broken" THEN next ELSE told[h]

(* notify: a service that fails or gets a tunnel is reported.              *)
Notice(h, curr, next) ==
  IF next # curr /\ next \in {"broken", "burden"} THEN next ELSE told[h]

(* Faulty variant: the copy is renewed before it is compared. *)
RefreshOneLate(h, b) ==
  LET s == IF linked /\ b[h] # Absent THEN StateOf(b[h]) ELSE "broken"
  IN  /\ seen' = IF seen[h] = Unknown THEN seen ELSE [seen EXCEPT ![h] = s]
      /\ told' = told
      /\ icon' = IF h \in Listed THEN [icon EXCEPT ![h] = s] ELSE icon
      /\ bar' = IF selected = h THEN s ELSE bar

(* Faulty variant: the row gets the new state, the copy keeps the old one. *)
RefreshOneRow(h, b) ==
  LET s == IF linked /\ b[h] # Absent THEN StateOf(b[h]) ELSE "broken"
  IN  /\ seen' = seen
      /\ told' = [told EXCEPT ![h] = IF seen[h] = Unknown THEN @ ELSE Notice(h, seen[h], s)]
      /\ icon' = IF h \in Listed THEN [icon EXCEPT ![h] = s] ELSE icon
      /\ bar' = IF selected = h THEN s ELSE bar

(* Faulty variant: a row is made for a service of the other side. *)
RefreshOneUnlisted(h, b) ==
  LET s == IF linked /\ b[h] # Absent THEN StateOf(b[h]) ELSE "broken"
  IN  /\ seen' = IF seen[h] = Unknown THEN seen ELSE [seen EXCEPT ![h] = s]
      /\ told' = [told EXCEPT ![h] = IF seen[h] = Unknown THEN @ ELSE Notice(h, seen[h], s)]
      /\ icon' = [icon EXCEPT ![h] = s]
      /\ bar' = IF selected = h THEN s ELSE bar

(* RefreshStatus(handle), with the backend at b: a service that can't be   *)
(* asked about is shown as broken; the copy is renewed if it has h.        *)
RefreshOne(h, b) ==
  LET s == IF linked /\ b[h] # Absent THEN StateOf(b[h]) ELSE "broken"
  IN  /\ seen' = IF seen[h] = Unknown THEN seen ELSE [seen EXCEPT ![h] = s]
      /\ told' = [told EXCEPT ![h] = IF seen[h] = Unknown THEN @ ELSE Notice(h, seen[h], s)]
      /\ icon' = IF h \in Listed THEN [icon EXCEPT ![h] = s] ELSE icon
      /\ bar' = IF selected = h THEN s ELSE bar

(* RefreshStatus(): the copy is what the backend says, or nothing; rows    *)
(* that it doesn't have are shown as broken.                               *)
RefreshAll(b) ==
  LET now == [h \in Handles |-> IF linked /\ b[h] # Absent THEN StateOf(b[h]) ELSE Unknown]
  IN  /\ seen' = now
      /\ told' = [h \in Handles |->
                    IF now[h] = Unknown THEN told[h]
                    ELSE Notice(h, IF seen[h] = Unknown THEN "asleep" ELSE seen[h], now[h])]
      /\ icon' = [h \in Handles |-> IF h \notin Listed THEN Absent
                                    ELSE IF now[h] = Unknown THEN "broken" ELSE now[h]]
      /\ bar' = IF selected = Absent THEN bar ELSE icon'[selected]

(* onStatusTimeout: a timer for one shot that is set again each time.  The *)
(* configuration that it waits for is there since the first Populate.      *)
Tick ==
  /\ RefreshAll(bundle)
  /\ UNCHANGED <<stored, bundle, linked, screen, menu>>

-----------------------------------------------------------------------------
(* Requests.                                                               *)

Put(h, bs) == {[bundle EXCEPT ![h] = b] : b \in bs}

(* engine::engage(handle): a service that is not on the disk loses its     *)
(* controller, with an error; one without a controller gets it.            *)
Engages(h) == Put(h, IF h \in stored THEN Restarts(bundle[h]) ELSE {Absent})

(* engine::unplug(handle)                                                  *)
Unplugs(h) == Put(h, IF h \in stored /\ bundle[h] # Absent THEN {<<>>} ELSE {Absent})

(* engine::adjust(handle), with the services d on the disk.                *)
Adjusts(h, d) ==
  Put(h, IF h \notin d THEN {Absent}
         ELSE IF Runs(bundle[h]) \/ (bundle[h] = Absent /\ h \in Autos)
                THEN Restarts(bundle[h])
                ELSE {<<>>})

(* engine::engage(): all services, as they are configured.                 *)
Boots(h) ==
  IF h \notin stored THEN {Absent} ELSE IF h \in Autos THEN Restarts(bundle[h]) ELSE {<<>>}

(* Engage(handle), Unplug(handle): nothing happens without the connection  *)
(* or when the backend can't read its files.                               *)
Engaged(h) == {bundle} \cup (IF linked THEN Engages(h) ELSE {})
Unplugged(h) == {bundle} \cup (IF linked THEN Unplugs(h) ELSE {})

-----------------------------------------------------------------------------
(* Clicks.                                                                 *)

Active(h) == seen[h] \notin {Unknown, "asleep"}

(* Faulty variant: a service that is broken is engaged. *)
ActivateLit(h) ==
  /\ menu = Absent /\ h \in Listed
  /\ bundle' \in IF seen[h] \in {"lonely", "burden"} THEN Unplugged(h) ELSE Engaged(h)
  /\ RefreshOne(h, bundle')
  /\ UNCHANGED <<stored, linked, screen, menu>>

(* onServiceItemCellActivated on the icon: the copy decides, and a service *)
(* that it doesn't have counts as one that sleeps.                         *)
Activate(h) ==
  /\ menu = Absent /\ h \in Listed
  /\ bundle' \in IF Active(h) THEN Unplugged(h) ELSE Engaged(h)
  /\ RefreshOne(h, bundle')
  /\ UNCHANGED <<stored, linked, screen, menu>>

(* onServiceItemContextMenu, CreatePopupMenu: the backend is asked, and    *)
(* there is no item for a service it doesn't know.  The menu of the tray   *)
(* has them all; which one is picked is chosen here.                       *)
OpenMenu(h) ==
  /\ menu = Absent /\ linked /\ bundle[h] # Absent
  /\ menu' = [about |-> h, asleep |-> bundle[h] = <<>>]
  /\ UNCHANGED <<stored, bundle, linked, screen, seen, icon, bar, told>>

Pick ==
  /\ menu # Absent
  /\ bundle' \in IF menu.asleep THEN Engaged(menu.about) ELSE Unplugged(menu.about)
  /\ RefreshOne(menu.about, bundle')
  /\ menu' = Absent
  /\ UNCHANGED <<stored, linked, screen>>

CloseMenu ==
  /\ menu # Absent
  /\ menu' = Absent
  /\ UNCHANGED <<stored, bundle, linked, screen, seen, icon, bar, told>>

(* Unplug and Reboot of the tray: all services that are on the disk get a  *)
(* controller, the others lose theirs.  A restart that throws ends the     *)
(* request with the controllers of before, some of them started over.      *)
TrayAll ==
  /\ menu = Absent
  /\ \/ bundle' = bundle
     \/ linked /\ bundle' = [h \in Handles |-> IF h \in stored THEN <<>> ELSE Absent]
     \/ linked /\ \E b \in [Handles -> {Absent} \cup Bundles] :
          /\ \/ \A h \in Handles : b[h] \in Boots(h)
             \/ \A h \in Handles :
                  b[h] \in {bundle[h]} \cup (IF bundle[h] # Absent /\ h \in stored THEN Boots(h) ELSE {})
          /\ bundle' = b
  /\ RefreshAll(bundle')
  /\ UNCHANGED <<stored, linked, screen, menu>>

(* onServiceItemSelectionChanged: a service that the copy doesn't have     *)
(* leaves the text that is there.                                          *)
Select(h) ==
  /\ h \in Listed \cup {Absent}
  /\ selected' = h
  /\ bar' = IF h = Absent THEN Absent ELSE IF seen[h] # Unknown THEN seen[h] ELSE bar
  /\ UNCHANGED <<stored, bundle, linked, items, side, seen, icon, menu, told>>

(* The radio buttons: Populate.                                            *)
Switch ==
  /\ side' = IF side = "export" THEN "import" ELSE "export"
  /\ icon' = Rows(items, side')
  /\ selected' = Absent /\ bar' \in {bar, Absent}
  /\ UNCHANGED <<stored, bundle, linked, items, seen, menu, told>>

(* A service comes with its row on the side that is shown, and goes with   *)
(* it (Desk).  One that couldn't be written has its row all the same; the  *)
(* backend is told of the others, and may not hear it.                     *)
AddItem(h) ==
  /\ h \notin items /\ (h \in Exports <=> side = "export")
  /\ items' = items \cup {h}
  /\ icon' = [icon EXCEPT ![h] = Guess(h)]
  /\ \/ UNCHANGED <<stored, bundle>>
     \/ /\ stored' = stored \cup {h}
        /\ bundle' \in {bundle} \cup (IF linked THEN Adjusts(h, stored') ELSE {})
  /\ UNCHANGED <<linked, side, seen, selected, bar, menu, told>>

RemoveItem(h) ==
  /\ h \in Listed
  /\ items' = items \ {h}
  /\ icon' = [icon EXCEPT ![h] = Absent]
  /\ stored' = stored \ {h}
  /\ bundle' \in {bundle} \cup (IF linked THEN Adjusts(h, stored') ELSE {})
  /\ selected' = IF selected = h THEN Absent ELSE selected
  /\ UNCHANGED <<linked, side, seen, bar, menu, told>>

-----------------------------------------------------------------------------
(* The rest of the world: a connector changes; another program writes or   *)
(* deletes a service, or asks the backend for something.                   *)
Moves(h) ==
  /\ Runs(bundle[h])
  /\ \E i \in DOMAIN bundle[h], s \in Links : bundle' = [bundle EXCEPT ![h][i] = s]
  /\ UNCHANGED <<stored, linked, screen, seen, icon, bar, menu, told>>

Others(h) ==
  /\ \/ stored' \in {stored \cup {h}, stored \ {h}} /\ UNCHANGED bundle
     \/ bundle' \in Engages(h) \cup Unplugs(h) \cup Adjusts(h, stored) /\ UNCHANGED stored
  /\ UNCHANGED <<linked, screen, seen, icon, bar, menu, told>>

(* A request took too long: the socket of the UI is closed for good.       *)
LoseLink ==
  /\ linked' = FALSE
  /\ UNCHANGED <<stored, bundle, screen, seen, icon, bar, menu, told>>

Next ==
  \/ Tick \/ Pick \/ CloseMenu \/ TrayAll \/ Switch \/ LoseLink
  \/ \E h \in Handles : \/ Activate(h) \/ OpenMenu(h) \/ AddItem(h) \/ RemoveItem(h)
                        \/ Moves(h) \/ Others(h)
  \/ \E h \in Handles \cup {Absent} : Select(h)

(* The timer is set again by its own handler, so it keeps on firing.       *)
Spec == Init /\ [][Next]_vars /\ WF_vars(Tick)

-----------------------------------------------------------------------------
(* Properties.                                                             *)

(* What a click on the icon does to a service that is on the disk, however *)
(* old icon and copy are (onServiceItemCellActivated).  It starts one whose *)
(* icon sleeps and stops one whose icon is lit, but for the rows that the   *)
(* copy lacks: a service that was just added, or all of them after a        *)
(* refresh that failed.  Their icon is a guess, "broken" or the answer to   *)
(* one request, and whatever it shows a click starts them over.             *)
ClicksFitIcons ==
  [][\A h \in Handles :
       Activate(h) /\ h \in stored /\ bundle' # bundle =>
         (Runs(bundle'[h]) <=> icon[h] = "asleep" \/ seen[h] = Unknown)]_vars

(* Whatever refreshed it, full or for one service, the copy has no service *)
(* failed or tunnel up that the user was not notified of last.             *)
NoticesMatch == \A h \in Handles : seen[h] \in {"broken", "burden"} => told[h] = seen[h]

(* A click on the icon of a service that is as the copy has it, or lacks   *)
(* it, turns it over unless the request fails: what ran stops, what didn't *)
(* runs, and what is no longer on the disk doesn't run in either case.     *)
Current(h) == seen[h] = IF bundle[h] = Absent THEN Unknown ELSE StateOf(bundle[h])
ClicksTurnOver ==
  [][\A h \in Handles :
       Activate(h) /\ bundle' # bundle /\ Current(h) =>
         (Runs(bundle'[h]) <=> h \in stored /\ ~Runs(bundle[h]))]_vars

(* A failure or tunnel that lasts while the connection does is notified in *)
(* the end (RefreshStatus by the timer, notify).                           *)
Lasting(h, s) == linked /\ bundle[h] # Absent /\ StateOf(bundle[h]) = s
LastingIsTold ==
  \A h \in Handles, s \in {"broken", "burden"} :
    <>[]Lasting(h, s) => <>[](told[h] = s)
=============================================================================

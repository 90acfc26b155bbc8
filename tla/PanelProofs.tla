---------------------------- MODULE PanelProofs ----------------------------
(***************************************************************************)
(* Theorems about Panel, for any services, any split into imports and      *)
(* exports, and any number of piers of a service.                          *)
(***************************************************************************)
EXTENDS Panel, WellFoundedInduction, TLAPS

(* The least number of a set of natural numbers.                           *)
LEMMA LeastNumber ==
  ASSUME NEW T \in SUBSET Nat, T # {}
  PROVE  \E n \in T : \A m \in T : n <= m
<1> DEFINE R == OpToRel(<, Nat)
<1>1. \A m, n \in Nat : <<m, n>> \in R <=> m < n
  BY DEF OpToRel
<1>2. IsWellFoundedOn(R, Nat)
  BY NatLessThanWellFounded
<1> HIDE DEF R
<1>3. PICK n \in T : \A m \in T : ~ (<<m, n>> \in R)
  BY <1>2, WFMin
<1>4. n \in Nat /\ \A m \in T : m \in Nat /\ ~ (m < n)
  BY <1>1, <1>3
<1>5. QED
  BY <1>4

(* controller::state answers with the state of a connector, or with sleep  *)
(* if there is none.                                                       *)
LEMMA StateOfLinks ==
  ASSUME NEW n \in 1..Width, NEW b \in [1..n -> Links]
  PROVE  b # <<>> /\ StateOf(b) \in Links
<1>1. 1 \in DOMAIN b /\ Width \in Nat /\ n \in Nat
  BY PanelAssumption
<1>2. b # <<>>
  BY <1>1
<1>3. CASE \A i \in DOMAIN b : b[i] = "lonely"
  BY <1>2, <1>3 DEF StateOf, Links
<1>4. CASE \E i \in DOMAIN b : b[i] # "lonely"
  <2> DEFINE Live == {i \in 1..n : b[i] # "lonely"}
  <2>1. Live \in SUBSET Nat /\ Live # {}
    BY <1>1, <1>4
  <2>2. PICK k \in Live : \A m \in Live : k <= m
    BY <2>1, LeastNumber
  <2>3. k \in DOMAIN b /\ b[k] # "lonely" /\ \A j \in 1..(k - 1) : b[j] = "lonely"
    BY <1>1, <2>2
  <2> DEFINE i == CHOOSE i \in DOMAIN b : b[i] # "lonely" /\ \A j \in 1..(i - 1) : b[j] = "lonely"
  <2>4. i \in DOMAIN b
    BY <2>3
  <2>5. StateOf(b) = b[i]
    BY <1>2, <1>4 DEF StateOf
  <2>6. QED
    BY <1>2, <2>4, <2>5
<1>5. QED
  BY <1>3, <1>4

LEMMA StateOfType ==
  ASSUME NEW b \in Bundles
  PROVE  StateOf(b) \in States
<1>1. CASE b = <<>>
  BY <1>1 DEF StateOf, States
<1>2. ASSUME NEW n \in 1..Width, b \in [1..n -> Links] PROVE StateOf(b) \in States
  BY <1>2, StateOfLinks DEF States
<1>3. QED
  BY <1>1, <1>2 DEF Bundles

(* A service sleeps exactly when it has no connectors.                     *)
LEMMA StateOfRunning ==
  ASSUME NEW b \in {Absent} \cup Bundles, b # Absent
  PROVE  StateOf(b) \in States /\ (StateOf(b) = "asleep" <=> ~Runs(b))
<1>1. CASE b = <<>>
  BY <1>1 DEF StateOf, States, Runs
<1>2. ASSUME NEW n \in 1..Width, b \in [1..n -> Links]
      PROVE  StateOf(b) \in States /\ (StateOf(b) = "asleep" <=> ~Runs(b))
  <2>1. b # <<>> /\ StateOf(b) \in Links
    BY <1>2, StateOfLinks
  <2>2. "asleep" \notin Links
    BY DEF Links
  <2>3. QED
    BY <2>1, <2>2 DEF States, Runs
<1>3. QED
  BY <1>1, <1>2 DEF Bundles

-----------------------------------------------------------------------------
(* The inductive invariant.                                                *)

(* A row shows what the copy has of its service, if it has it.             *)
IconsMatch == \A h \in Listed : seen[h] # Unknown => icon[h] = seen[h]

Inv == TypeOK /\ IconsMatch /\ NoticesMatch

Pools == [Handles -> {Absent} \cup Bundles]

(* What a refresh has to establish, the screen being as it was.            *)
Refreshed ==
  /\ seen' \in [Handles -> {Unknown} \cup States]
  /\ icon' \in [Handles -> {Absent} \cup States]
  /\ \A h \in Handles : icon'[h] # Absent <=> h \in Listed
  /\ bar' \in {Absent} \cup States
  /\ told' \in [Handles -> {"none", "broken", "burden"}]
  /\ \A h \in Listed : seen'[h] # Unknown => icon'[h] = seen'[h]
  /\ \A h \in Handles : seen'[h] \in {"broken", "burden"} => told'[h] = seen'[h]

LEMMA RefreshOneRight ==
  ASSUME Inv, NEW h \in Handles, NEW b \in Pools, RefreshOne(h, b)
  PROVE  Refreshed
<1> DEFINE s == IF linked /\ b[h] # Absent THEN StateOf(b[h]) ELSE "broken"
<1>1. s \in States
  BY StateOfType DEF Pools, States, Links
<1>2. Absent \notin States /\ Unknown \notin States
  BY PanelAssumption DEF States, Links
<1> HIDE DEF s
<1>3. /\ seen' = IF seen[h] = Unknown THEN seen ELSE [seen EXCEPT ![h] = s]
      /\ told' = [told EXCEPT ![h] = IF seen[h] = Unknown THEN told[h] ELSE Notice(h, seen[h], s)]
      /\ icon' = IF h \in Listed THEN [icon EXCEPT ![h] = s] ELSE icon
      /\ bar' = IF selected = h THEN s ELSE bar
  BY DEF RefreshOne, s, Inv, TypeOK
<1>4. /\ seen' \in [Handles -> {Unknown} \cup States]
      /\ icon' \in [Handles -> {Absent} \cup States]
      /\ bar' \in {Absent} \cup States
      /\ told' \in [Handles -> {"none", "broken", "burden"}]
  BY <1>1, <1>3 DEF Inv, TypeOK, Notice
<1>5. \A g \in Handles : icon'[g] # Absent <=> g \in Listed
  BY <1>1, <1>2, <1>3 DEF Inv, TypeOK
<1>6. \A g \in Listed : seen'[g] # Unknown => icon'[g] = seen'[g]
  <2>1. Listed \subseteq Handles
    BY DEF Inv, TypeOK, Listed
  <2>2. QED
    BY <1>1, <1>2, <1>3, <2>1 DEF Inv, TypeOK, IconsMatch
<1>7. \A g \in Handles : seen'[g] \in {"broken", "burden"} => told'[g] = seen'[g]
  BY <1>1, <1>2, <1>3 DEF Inv, TypeOK, NoticesMatch, Notice
<1>8. QED
  BY <1>4, <1>5, <1>6, <1>7 DEF Refreshed

LEMMA RefreshAllRight ==
  ASSUME Inv, NEW b \in Pools, RefreshAll(b)
  PROVE  Refreshed
<1> DEFINE now == [h \in Handles |-> IF linked /\ b[h] # Absent THEN StateOf(b[h]) ELSE Unknown]
<1>1. now \in [Handles -> {Unknown} \cup States]
  BY StateOfType DEF Pools
<1>2. Absent \notin States /\ Unknown \notin States /\ "broken" \in States
  BY PanelAssumption DEF States, Links
<1> HIDE DEF now
<1>3. /\ seen' = now
      /\ told' = [h \in Handles |->
                    IF now[h] = Unknown THEN told[h]
                    ELSE Notice(h, IF seen[h] = Unknown THEN "asleep" ELSE seen[h], now[h])]
      /\ icon' = [h \in Handles |-> IF h \notin Listed THEN Absent
                                    ELSE IF now[h] = Unknown THEN "broken" ELSE now[h]]
      /\ bar' = IF selected = Absent THEN bar ELSE icon'[selected]
  BY DEF RefreshAll, now
<1>4. Listed \subseteq Handles
  BY DEF Inv, TypeOK, Listed
<1>5. icon' \in [Handles -> {Absent} \cup States]
  BY <1>1, <1>2, <1>3
<1>6. bar' \in {Absent} \cup States
  BY <1>3, <1>4, <1>5 DEF Inv, TypeOK
<1>7. told' \in [Handles -> {"none", "broken", "burden"}]
  BY <1>1, <1>3 DEF Inv, TypeOK, Notice
<1>8. /\ \A g \in Handles : icon'[g] # Absent <=> g \in Listed
      /\ \A g \in Listed : seen'[g] # Unknown => icon'[g] = seen'[g]
  BY <1>1, <1>2, <1>3, <1>4
<1>9. \A g \in Handles : seen'[g] \in {"broken", "burden"} => told'[g] = seen'[g]
  <2> SUFFICES ASSUME NEW g \in Handles, now[g] \in {"broken", "burden"}
               PROVE  told'[g] = now[g]
    BY <1>3
  <2>1. now[g] # Unknown /\ now[g] # "asleep"
    BY PanelAssumption
  <2>2. told'[g] = Notice(g, IF seen[g] = Unknown THEN "asleep" ELSE seen[g], now[g])
    BY <1>3, <2>1
  <2>3. CASE seen[g] = now[g]
    BY <2>1, <2>2, <2>3 DEF Inv, NoticesMatch, Notice
  <2>4. CASE seen[g] # now[g]
    BY <2>1, <2>2, <2>4 DEF Notice
  <2>5. QED
    BY <2>3, <2>4
<1>10. QED
  BY <1>1, <1>3, <1>5, <1>6, <1>7, <1>8, <1>9 DEF Refreshed

-----------------------------------------------------------------------------
(* What a request leaves of the controllers.                               *)

LEMMA RestartsType ==
  ASSUME NEW b
  PROVE  /\ Restarts(b) \subseteq Bundles
         /\ \A c \in Restarts(b) : Runs(c)
BY AbsentAssumption DEF Restarts, Runs

LEMMA PutType ==
  ASSUME bundle \in Pools, NEW h \in Handles, NEW bs \in SUBSET ({Absent} \cup Bundles)
  PROVE  Put(h, bs) \subseteq Pools
<1>1. \A b \in bs : [bundle EXCEPT ![h] = b] \in Pools
  BY DEF Pools
<1>2. QED
  BY <1>1 DEF Put

LEMMA RequestsType ==
  ASSUME bundle \in Pools, NEW h \in Handles, NEW d
  PROVE  /\ Engages(h) \subseteq Pools /\ Unplugs(h) \subseteq Pools
         /\ Adjusts(h, d) \subseteq Pools
         /\ Engaged(h) \subseteq Pools /\ Unplugged(h) \subseteq Pools
         /\ Boots(h) \subseteq {Absent} \cup Bundles
<1>1. <<>> \in Bundles /\ Restarts(bundle[h]) \subseteq Bundles
  BY RestartsType DEF Bundles
<1>2. (IF h \in stored THEN Restarts(bundle[h]) ELSE {Absent}) \subseteq {Absent} \cup Bundles
  BY <1>1
<1>3. (IF h \in stored /\ bundle[h] # Absent THEN {<<>>} ELSE {Absent})
        \subseteq {Absent} \cup Bundles
  BY <1>1
<1>4. (IF h \notin d THEN {Absent}
       ELSE IF Runs(bundle[h]) \/ (bundle[h] = Absent /\ h \in Autos)
              THEN Restarts(bundle[h])
              ELSE {<<>>}) \subseteq {Absent} \cup Bundles
  BY <1>1
<1>5. Engages(h) \subseteq Pools
  BY <1>2, PutType DEF Engages
<1>6. Unplugs(h) \subseteq Pools
  BY <1>3, PutType DEF Unplugs
<1>7. Adjusts(h, d) \subseteq Pools
  BY <1>4, PutType DEF Adjusts
<1>8. Boots(h) \subseteq {Absent} \cup Bundles
  BY <1>1 DEF Boots
<1>9. QED
  BY <1>5, <1>6, <1>7, <1>8 DEF Engaged, Unplugged

(* A refresh with the pool and the menu it comes with.                     *)
LEMMA RefreshedInv ==
  ASSUME Inv, Refreshed, UNCHANGED <<stored, linked, screen>>, bundle' \in Pools,
         menu' \in {Absent} \cup [about : Handles, asleep : BOOLEAN]
  PROVE  Inv'
<1>1. Listed' = Listed /\ UNCHANGED <<items, side, selected>>
  BY DEF screen, Listed
<1>2. TypeOK'
  BY <1>1 DEF Inv, TypeOK, Refreshed, Pools
<1>3. IconsMatch' /\ NoticesMatch'
  BY <1>1 DEF Refreshed, IconsMatch, NoticesMatch
<1>4. QED
  BY <1>2, <1>3 DEF Inv

(* The rows that Populate makes.                                           *)
LEMMA RowsRight ==
  ASSUME TypeOK, NEW its \in SUBSET Handles, NEW sd \in {"import", "export"}
  PROVE  LET shown == IF sd = "export" THEN its \cap Exports ELSE its \ Exports
         IN  /\ Rows(its, sd) \in [Handles -> {Absent} \cup States]
             /\ \A h \in Handles : Rows(its, sd)[h] # Absent <=> h \in shown
             /\ \A h \in shown : seen[h] # Unknown => Rows(its, sd)[h] = seen[h]
<1>1. \A h \in Handles : Guess(h) \in States
  BY DEF TypeOK, Guess, States, Links
<1>2. Absent \notin States
  BY PanelAssumption DEF States, Links
<1>3. QED
  BY <1>1, <1>2 DEF Rows, Guess

-----------------------------------------------------------------------------
LEMMA InitInv == Init => Inv
<1> SUFFICES ASSUME Init PROVE Inv
  OBVIOUS
<1>1. {"asleep", "lonely"} \subseteq States /\ Absent \notin States
  BY PanelAssumption DEF States, Links
<1>2. bundle \in [Handles -> {Absent} \cup Bundles]
  BY DEF Init, Bundles
<1>3. items \subseteq Handles /\ Listed = items \ Exports
  BY DEF Init, Listed
<1>4. /\ icon \in [Handles -> {Absent} \cup States]
      /\ \A h \in Handles : icon[h] # Absent <=> h \in Listed
  BY <1>1, <1>3 DEF Init
<1>5. TypeOK
  BY <1>2, <1>3, <1>4 DEF Init, TypeOK
<1>6. IconsMatch /\ NoticesMatch
  BY <1>3, PanelAssumption DEF Init, IconsMatch, NoticesMatch
<1>7. QED
  BY <1>5, <1>6 DEF Inv

LEMMA NextInv == Inv /\ [Next]_vars => Inv'
<1> SUFFICES ASSUME Inv, [Next]_vars PROVE Inv'
  OBVIOUS
<1>1. TypeOK /\ IconsMatch /\ NoticesMatch
  BY DEF Inv
<1>2. bundle \in Pools
  BY <1>1 DEF TypeOK, Pools
<1>3. Absent \notin States /\ Listed \subseteq Handles
  BY <1>1, PanelAssumption DEF States, Links, TypeOK, Listed
<1>4. CASE Tick
  <2>1. Refreshed
    BY <1>2, <1>4, RefreshAllRight DEF Tick
  <2>2. QED
    BY <1>1, <1>2, <1>4, <2>1, RefreshedInv DEF Tick, TypeOK, screen
<1>5. CASE Pick
  <2>1. menu \in [about : Handles, asleep : BOOLEAN]
    BY <1>1, <1>5 DEF Pick, TypeOK
  <2>2. menu.about \in Handles
    BY <2>1
  <2>3. bundle' \in Pools
    BY <1>2, <1>5, <2>2, RequestsType DEF Pick
  <2>4. Refreshed
    BY <1>5, <2>2, <2>3, RefreshOneRight DEF Pick
  <2>5. QED
    BY <1>5, <2>3, <2>4, RefreshedInv DEF Pick
<1>6. CASE CloseMenu
  BY <1>1, <1>6 DEF CloseMenu, Inv, TypeOK, IconsMatch, NoticesMatch, Listed, screen
<1>7. CASE TrayAll
  <2>1. bundle' \in Pools
    <3>1. CASE bundle' = bundle
      BY <1>2, <3>1
    <3>2. CASE bundle' = [h \in Handles |-> IF h \in stored THEN <<>> ELSE Absent]
      BY <3>2 DEF Pools, Bundles
    <3>3. CASE bundle' \in [Handles -> {Absent} \cup Bundles]
      BY <3>3 DEF Pools
    <3>4. QED
      BY <1>7, <3>1, <3>2, <3>3 DEF TrayAll
  <2>2. Refreshed
    BY <1>7, <2>1, RefreshAllRight DEF TrayAll
  <2>3. QED
    BY <1>1, <1>7, <2>1, <2>2, RefreshedInv DEF TrayAll, TypeOK
<1>8. CASE Switch
  <2>1. side' \in {"import", "export"} /\ items' = items /\ items \in SUBSET Handles
    BY <1>1, <1>8 DEF Switch, TypeOK
  <2>2. /\ icon' \in [Handles -> {Absent} \cup States]
        /\ \A h \in Handles : icon'[h] # Absent <=> h \in Listed'
        /\ \A h \in Listed' : seen[h] # Unknown => icon'[h] = seen[h]
    <3>1. icon' = Rows(items, side')
      BY <1>8 DEF Switch
    <3>2. Listed' = IF side' = "export" THEN items \cap Exports ELSE items \ Exports
      BY <2>1 DEF Listed
    <3>3. QED
      BY <1>1, <2>1, <3>1, <3>2, RowsRight
  <2>3. TypeOK'
    BY <1>1, <1>8, <2>1, <2>2 DEF Switch, TypeOK
  <2>4. IconsMatch' /\ NoticesMatch'
    BY <1>1, <1>8, <2>2 DEF Switch, IconsMatch, NoticesMatch
  <2>5. QED
    BY <2>3, <2>4 DEF Inv
<1>9. CASE LoseLink
  BY <1>1, <1>9 DEF LoseLink, Inv, TypeOK, IconsMatch, NoticesMatch, Listed, screen
<1>10. ASSUME NEW h \in Handles, Activate(h) PROVE Inv'
  <2>1. bundle' \in Pools
    BY <1>2, <1>10, RequestsType DEF Activate
  <2>2. Refreshed
    BY <1>10, <2>1, RefreshOneRight DEF Activate
  <2>3. QED
    BY <1>1, <1>10, <2>1, <2>2, RefreshedInv DEF Activate, TypeOK
<1>11. ASSUME NEW h \in Handles, OpenMenu(h) PROVE Inv'
  <2>1. menu' \in [about : Handles, asleep : BOOLEAN]
    BY <1>11 DEF OpenMenu
  <2>2. QED
    BY <1>1, <1>11, <2>1 DEF OpenMenu, Inv, TypeOK, IconsMatch, NoticesMatch, Listed, screen
<1>12. ASSUME NEW h \in Handles, AddItem(h) PROVE Inv'
  <2>1. Listed' = Listed \cup {h} /\ items' \subseteq Handles
    BY <1>1, <1>12 DEF AddItem, Listed, TypeOK
  <2>2. Guess(h) \in States /\ (seen[h] # Unknown => Guess(h) = seen[h])
    BY <1>1 DEF TypeOK, Guess, States, Links
  <2>3. stored' \subseteq Handles /\ bundle' \in [Handles -> {Absent} \cup Bundles]
    BY <1>1, <1>2, <1>12, RequestsType DEF AddItem, TypeOK, Pools
  <2>4. /\ icon' \in [Handles -> {Absent} \cup States]
        /\ \A g \in Handles : icon'[g] # Absent <=> g \in Listed'
        /\ \A g \in Listed' : seen[g] # Unknown => icon'[g] = seen[g]
    BY <1>1, <1>3, <1>12, <2>1, <2>2 DEF AddItem, TypeOK, IconsMatch
  <2>5. TypeOK'
    BY <1>1, <1>12, <2>1, <2>3, <2>4 DEF AddItem, TypeOK
  <2>6. IconsMatch' /\ NoticesMatch'
    BY <1>1, <1>12, <2>4 DEF AddItem, IconsMatch, NoticesMatch
  <2>7. QED
    BY <2>5, <2>6 DEF Inv
<1>13. ASSUME NEW h \in Handles, RemoveItem(h) PROVE Inv'
  <2>1. Listed' = Listed \ {h} /\ items' \subseteq Handles
    BY <1>1, <1>13 DEF RemoveItem, Listed, TypeOK
  <2>2. stored' \subseteq Handles /\ bundle' \in [Handles -> {Absent} \cup Bundles]
    BY <1>1, <1>2, <1>13, RequestsType DEF RemoveItem, TypeOK, Pools
  <2>3. /\ icon' \in [Handles -> {Absent} \cup States]
        /\ \A g \in Handles : icon'[g] # Absent <=> g \in Listed'
        /\ \A g \in Listed' : seen[g] # Unknown => icon'[g] = seen[g]
    BY <1>1, <1>3, <1>13, <2>1 DEF RemoveItem, TypeOK, IconsMatch
  <2>4. TypeOK'
    BY <1>1, <1>13, <2>1, <2>2, <2>3 DEF RemoveItem, TypeOK
  <2>5. IconsMatch' /\ NoticesMatch'
    BY <1>1, <1>13, <2>3 DEF RemoveItem, IconsMatch, NoticesMatch
  <2>6. QED
    BY <2>4, <2>5 DEF Inv
<1>14. ASSUME NEW h \in Handles, Moves(h) PROVE Inv'
  <2>1. PICK n \in 1..Width : bundle[h] \in [1..n -> Links]
    BY <1>2, <1>14 DEF Moves, Pools, Bundles, Runs
  <2>2. PICK i \in DOMAIN bundle[h], s \in Links : bundle' = [bundle EXCEPT ![h][i] = s]
    BY <1>14 DEF Moves
  <2>3. bundle' = [bundle EXCEPT ![h] = [bundle[h] EXCEPT ![i] = s]]
    BY <1>2, <2>2 DEF Pools
  <2>4. [bundle[h] EXCEPT ![i] = s] \in [1..n -> Links]
    BY <2>1
  <2>5. [bundle[h] EXCEPT ![i] = s] \in Bundles
    BY <2>4 DEF Bundles
  <2>6. bundle' \in [Handles -> {Absent} \cup Bundles]
    BY <1>2, <2>3, <2>5 DEF Pools
  <2>7. QED
    BY <1>1, <1>14, <2>6 DEF Moves, Inv, TypeOK, IconsMatch, NoticesMatch, Listed, screen
<1>15. ASSUME NEW h \in Handles, Others(h) PROVE Inv'
  <2>1. stored' \subseteq Handles /\ bundle' \in [Handles -> {Absent} \cup Bundles]
    <3>1. CASE stored' \in {stored \cup {h}, stored \ {h}} /\ bundle' = bundle
      BY <1>1, <1>2, <3>1 DEF TypeOK, Pools
    <3>2. CASE bundle' \in Engages(h) \cup Unplugs(h) \cup Adjusts(h, stored) /\ stored' = stored
      BY <1>1, <1>2, <3>2, RequestsType DEF TypeOK, Pools
    <3>3. QED
      BY <1>15, <3>1, <3>2 DEF Others
  <2>2. QED
    BY <1>1, <1>15, <2>1 DEF Others, Inv, TypeOK, IconsMatch, NoticesMatch, Listed, screen
<1>16. ASSUME NEW h \in Handles \cup {Absent}, Select(h) PROVE Inv'
  <2>1. selected' \in {Absent} \cup Listed /\ Listed' = Listed
    BY <1>16 DEF Select, Listed
  <2>2. bar' \in {Absent} \cup States
    BY <1>1, <1>3, <1>16 DEF Select, TypeOK
  <2>3. QED
    BY <1>1, <1>16, <2>1, <2>2 DEF Select, Inv, TypeOK, IconsMatch, NoticesMatch
<1>17. CASE UNCHANGED vars
  BY <1>1, <1>17 DEF vars, Inv, TypeOK, IconsMatch, NoticesMatch, Listed
<1>18. QED
  BY <1>4, <1>5, <1>6, <1>7, <1>8, <1>9, <1>10, <1>11, <1>12, <1>13, <1>14, <1>15, <1>16,
     <1>17, Zenon DEF Next

-----------------------------------------------------------------------------
(* The window's data are what the code takes them for: rows for the items  *)
(* of the side that is shown, one each.                                    *)
THEOREM PanelTypeCorrect == Spec => []TypeOK
<1>1. Inv => TypeOK
  BY DEF Inv
<1>2. QED
  BY InitInv, NextInv, <1>1, PTL DEF Spec

(* No failure and no tunnel gets into the copy without its notification.   *)
THEOREM NoticesAreGiven == Spec => []NoticesMatch
<1>1. Inv => NoticesMatch
  BY DEF Inv
<1>2. QED
  BY InitInv, NextInv, <1>1, PTL DEF Spec

(* What a request for one service leaves of it.                            *)
LEMMA Requested ==
  ASSUME Inv, NEW h \in Handles, Activate(h), bundle' # bundle
  PROVE  Runs(bundle'[h]) <=> h \in stored /\ ~Active(h)
<1>1. bundle \in Pools
  BY DEF Inv, TypeOK, Pools
<1>2. CASE Active(h)
  <2>1. bundle' \in Unplugs(h)
    BY <1>2 DEF Activate, Unplugged
  <2>2. bundle' \in {[bundle EXCEPT ![h] = <<>>], [bundle EXCEPT ![h] = Absent]}
    BY <2>1 DEF Unplugs, Put
  <2>3. bundle'[h] \in {<<>>, Absent}
    BY <1>1, <2>2 DEF Pools
  <2>4. QED
    BY <1>2, <2>3 DEF Runs
<1>3. CASE ~Active(h)
  <2>1. bundle' \in Engages(h)
    BY <1>3 DEF Activate, Engaged
  <2>2. CASE h \in stored
    <3>1. PICK c \in Restarts(bundle[h]) : bundle' = [bundle EXCEPT ![h] = c]
      BY <2>1, <2>2 DEF Engages, Put
    <3>2. bundle'[h] = c
      BY <1>1, <3>1 DEF Pools
    <3>3. QED
      BY <1>3, <2>2, <3>2, RestartsType
  <2>3. CASE h \notin stored
    <3>1. bundle' = [bundle EXCEPT ![h] = Absent]
      BY <2>1, <2>3 DEF Engages, Put
    <3>2. QED
      BY <1>1, <2>3, <3>1 DEF Pools, Runs
  <2>4. QED
    BY <2>2, <2>3
<1>4. QED
  BY <1>2, <1>3

(* What a click on the icon does to a service that is on the disk          *)
(* (onServiceItemCellActivated), however old icon and copy are: it starts  *)
(* the one whose icon sleeps, stops the one whose icon is lit, and starts  *)
(* over the one that the copy lacks, whatever its icon shows.              *)
THEOREM ClicksObeyIcons == Spec => ClicksFitIcons
<1> DEFINE Fits == \A h \in Handles :
              Activate(h) /\ h \in stored /\ bundle' # bundle =>
                (Runs(bundle'[h]) <=> icon[h] = "asleep" \/ seen[h] = Unknown)
<1>1. ASSUME Inv, NEW h \in Handles, Activate(h), h \in stored, bundle' # bundle
      PROVE  Runs(bundle'[h]) <=> icon[h] = "asleep" \/ seen[h] = Unknown
  <2>1. Runs(bundle'[h]) <=> ~Active(h)
    BY <1>1, Requested
  <2>2. seen[h] # Unknown => icon[h] = seen[h]
    BY <1>1 DEF Inv, IconsMatch, Activate
  <2>3. QED
    BY <2>1, <2>2, PanelAssumption DEF Active
<1>2. Inv /\ [Next]_vars => [Fits]_vars
  BY <1>1
<1>3. QED
  BY InitInv, NextInv, <1>2, PTL DEF Spec, ClicksFitIcons

(* A click on the icon of a service that is as the copy has it, or lacks   *)
(* it, turns it over (onServiceItemCellActivated): what ran stops, what    *)
(* didn't runs if it is still on the disk.                                 *)
THEOREM ClicksTurn == Spec => ClicksTurnOver
<1> DEFINE Turns == \A h \in Handles :
              Activate(h) /\ bundle' # bundle /\ Current(h) =>
                (Runs(bundle'[h]) <=> h \in stored /\ ~Runs(bundle[h]))
<1>1. ASSUME Inv, NEW h \in Handles, Activate(h), bundle' # bundle, Current(h)
      PROVE  Runs(bundle'[h]) <=> h \in stored /\ ~Runs(bundle[h])
  <2>1. Runs(bundle'[h]) <=> h \in stored /\ ~Active(h)
    BY <1>1, Requested
  <2>2. bundle[h] \in {Absent} \cup Bundles
    BY <1>1 DEF Inv, TypeOK
  <2>3. CASE bundle[h] = Absent
    <3>1. ~Active(h) /\ ~Runs(bundle[h])
      BY <1>1, <2>3 DEF Current, Active, Runs
    <3>2. QED
      BY <2>1, <3>1
  <2>4. CASE bundle[h] # Absent
    <3>1. seen[h] = StateOf(bundle[h])
      BY <1>1, <2>4 DEF Current
    <3>2. seen[h] # Unknown /\ (seen[h] = "asleep" <=> ~Runs(bundle[h]))
      BY <2>2, <2>4, <3>1, StateOfRunning, PanelAssumption DEF States, Links
    <3>3. QED
      BY <2>1, <3>2 DEF Active
  <2>5. QED
    BY <2>3, <2>4
<1>2. Inv /\ [Next]_vars => [Turns]_vars
  BY <1>1
<1>3. QED
  BY InitInv, NextInv, <1>2, PTL DEF Spec, ClicksTurnOver
=============================================================================

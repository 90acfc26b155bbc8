---------------------------- MODULE ImportProofs ----------------------------
(***************************************************************************)
(* Theorems about what the main window of Desk shows, and about what an    *)
(* import makes of the files, for any piers, services, offers and bounds.  *)
(*                                                                         *)
(* They need to follow the items through the loops of an import: which are *)
(* still to be granted or purged, and that those are services that are     *)
(* stored (Screen, Looping).  What is left to do and what is done together *)
(* make what the user asked for (Settling).                                *)
(***************************************************************************)
EXTENDS DeskProofs

\* Services of pier p as its offers and the dialogs have them.
Proper(p, s) == s.name \in Names /\ s.piers = {p}

Stocked(shelf) == \A p \in Piers : shelf[p] # Absent => \A s \in shelf[p] : Proper(p, s)

Shipped(items) == \A i \in items : \E p \in Piers : Proper(p, i.now)

(* Every import has a name and one pier, whatever went wrong. *)
Imported ==
  /\ Stocked(disk) /\ Stocked(mem)
  /\ Shipped(imports)
  /\ Busy => \A s \in job.picks \cup job.agreed : Proper(job.pier, s)

(* Between two operations every item is a service of the memory, and every *)
(* service has its item, but for exports without a name.                   *)
Screen ==
  Idle /\ lapses = {} =>
    /\ exports \subseteq Exports(mem)
    /\ Named(mem, Own, NoName) = {} => exports = Exports(mem)
    /\ imports = Imports(mem)

(* The exports an import has to grant are services that are stored, each   *)
(* once, with no change but for the right of the pier; those it has to     *)
(* purge are the pier's.  m is the memory, x the items of the imports, j   *)
(* the import.                                                             *)
Ungranted(i, p) == i.now = i.origin \/ i.now = [i.origin EXCEPT !.piers = @ \ {p}]
At(x, p) == {i \in x : i.now.piers = {p}}

Looped(m, x, j) ==
  /\ m[j.pier] # Absent
  /\ j.phase = "exports" =>
       /\ \A i \in j.todo : i.origin \in m[Own] /\ Ungranted(i, j.pier)
       /\ \A i, k \in j.todo : i.origin.name = k.origin.name => i = k
  /\ j.phase = "purge" => j.purge /\ j.todo \subseteq At(x, j.pier)

Looping == Busy /\ lapses = {} => Looped(mem, imports, job)

(* What is left and what is done.                                          *)
Picked(j) == {i.now.name : i \in j.chosen}
Waits(j, s) == j.phase = "exports" /\ \E i \in j.todo : i.now = s
Shows(S) == {i.now : i \in S}

Settled(m, x, j) ==
  /\ \A s \in m[Own] : Waits(j, s) \/ (j.pier \in s.piers <=> s.name \in Picked(j))
  /\ \A n \in Picked(j) : \E s \in m[Own] : s.name = n
  /\ j.phase = "exports" =>
       \A i \in j.todo : i.now = i.origin /\ (i.now.name \in Picked(j) => i \in j.chosen)
  /\ j.phase # "imports" => j.agreed = {}
  /\ ~j.purge => Shows(At(x, j.pier)) \subseteq m[j.pier] /\ j.agreed \subseteq m[j.pier]
  /\ j.purge => /\ j.phase = "exports" => m[j.pier] = Shows(At(x, j.pier))
                /\ j.phase = "purge" => m[j.pier] = Shows(j.todo)
                /\ j.phase = "imports" => m[j.pier] = j.agreed

Settling ==
  Busy /\ lapses = {} /\ untold = {} /\ Named(mem, Own, NoName) = {} =>
    Settled(mem, imports, job)

Kept == Imported /\ Screen /\ Looping /\ Settling
-----------------------------------------------------------------------------
(* What the operations of the context make of the services.                *)

\* Only the shelf of pier d may differ.
Elsewhere(v, w, d) == \A e \in Homes \ {d} : v.mem[e] = w.mem[e] /\ v.disk[e] = w.disk[e]

\* The services of d under the name n go, then those of S come to e.
Edited(v, w, d, n, e, S) ==
  \A h \in Homes :
    /\ v[h] = Absent <=> w[h] = Absent
    /\ w[h] # Absent => \A s \in Service :
         s \in v[h] <=> \/ s \in w[h] /\ ~(n # NoName /\ h = d /\ s.name = n)
                        \/ h = e /\ s \in S

LEMMA SaveContent ==
  ASSUME NEW w \in [disk : Shelves, mem : Shelves, why : Whys], NEW d, NEW S, NEW fails,
         NEW v, v = Save([w EXCEPT !.mem[d] = S], d, fails)
  PROVE  /\ v.mem = [w.mem EXCEPT ![d] = S]
         /\ v.disk \in {w.disk, [w.disk EXCEPT ![d] = S]}
<1> DEFINE M == [w.mem EXCEPT ![d] = S]
<1>1. w = [disk |-> w.disk, mem |-> w.mem, why |-> w.why]
      /\ w.disk \in Shelves /\ w.mem \in Shelves
  OBVIOUS
<1>2. [w EXCEPT !.mem[d] = S] = [disk |-> w.disk, mem |-> M, why |-> w.why]
  BY <1>1
<1>3. d \in Homes => M[d] = S
  BY <1>1 DEF Shelves
<1>4. [w.disk EXCEPT ![d] = M[d]] = [w.disk EXCEPT ![d] = S]
  <2>1. CASE d \in Homes
    BY <1>3, <2>1
  <2>2. CASE d \notin Homes
    BY <1>1, <2>2 DEF Shelves
  <2>3. QED
    BY <2>1, <2>2
<1> HIDE DEF M
<1>5. \/ v = [disk |-> w.disk, mem |-> M, why |-> "fault"]
      \/ v = [disk |-> [w.disk EXCEPT ![d] = M[d]], mem |-> M, why |-> w.why]
  BY <1>2 DEF Save
<1>6. v.mem = M /\ v.disk \in {w.disk, [w.disk EXCEPT ![d] = M[d]]}
  BY <1>5
<1>7. QED
  BY <1>4, <1>6 DEF M

LEMMA DelContent ==
  ASSUME NoShelf, NEW w, World(w), w.why = "done", NEW d, NEW n, n # NoName,
         NEW fails, NEW v, v = Del(w, d, n, fails), NEW e
  PROVE  /\ Elsewhere(v, w, d)
         /\ Stocked(w.mem) /\ Stocked(w.disk) => Stocked(v.mem) /\ Stocked(v.disk)
         /\ v.why = "done" => Edited(v.mem, w.mem, d, n, e, {})
<1>1. w \in [disk : Shelves, mem : Shelves, why : Whys]
  BY DEF World
<1>2. CASE w.mem[d] = Absent
  <2>1. v = [w EXCEPT !.why = "refused"]
    BY <1>2 DEF Del
  <2>2. v = [disk |-> w.disk, mem |-> w.mem, why |-> "refused"]
    BY <1>1, <2>1
  <2>3. v.disk = w.disk /\ v.mem = w.mem /\ v.why = "refused"
    BY <2>2
  <2>4. QED
    BY <2>3 DEF Elsewhere
<1>3. CASE w.mem[d] # Absent /\ Named(w.mem, d, n) = {}
  <2>1. v = w
    BY <1>3 DEF Del
  <2>2. Edited(w.mem, w.mem, d, n, e, {})
    BY <1>3 DEF Edited, Named
  <2>3. QED
    BY <2>1, <2>2 DEF Elsewhere
<1>4. CASE w.mem[d] # Absent /\ Named(w.mem, d, n) # {}
  <2>0. d \in Homes
    BY <1>4 DEF Named
  <2> DEFINE S == w.mem[d] \ Named(w.mem, d, n)
  <2>1. v = Save([w EXCEPT !.mem[d] = S], d, fails)
    BY <1>4 DEF Del
  <2>2. w.mem[d] \in SUBSET Service /\ w.mem \in Shelves /\ w.disk \in Shelves
    BY <1>1, <1>4, <2>0 DEF Shelves
  <2>3. S \subseteq w.mem[d] /\ S # Absent
    BY <2>2 DEF NoShelf
  <2>4. \A s \in Service : s \in S <=> s \in w.mem[d] /\ s.name # n
    BY <1>4, <2>0, <2>2 DEF Named
  <2> HIDE DEF S
  <2>5. v.mem = [w.mem EXCEPT ![d] = S] /\ v.disk \in {w.disk, [w.disk EXCEPT ![d] = S]}
    BY <1>1, <2>0, <2>1, SaveContent
  <2>6. v.mem[d] = S /\ v.disk[d] \in {w.disk[d], S} /\ Elsewhere(v, w, d)
    BY <2>0, <2>2, <2>5 DEF Shelves, Elsewhere
  <2>7. Stocked(w.mem) /\ Stocked(w.disk) => Stocked(v.mem) /\ Stocked(v.disk)
    BY <1>4, <2>3, <2>6 DEF Stocked, Elsewhere, Homes
  <2>8. Edited(v.mem, w.mem, d, n, e, {})
    BY <1>4, <2>3, <2>4, <2>6 DEF Edited, Elsewhere
  <2>9. QED
    BY <2>6, <2>7, <2>8
<1>5. QED
  BY <1>2, <1>3, <1>4

LEMMA AddContent ==
  ASSUME NoShelf, NEW w, World(w), w.why = "done", NEW d, NEW s \in Service,
         NEW fails, NEW v, v = Add(w, d, s, fails)
  PROVE  /\ Elsewhere(v, w, d)
         /\ (d \in Piers => Proper(d, s)) /\ Stocked(w.mem) /\ Stocked(w.disk)
              => Stocked(v.mem) /\ Stocked(v.disk)
         /\ v.why = "done" => /\ Edited(v.mem, w.mem, d, NoName, d, {s})
                              /\ Named(w.mem, d, s.name) = {}
<1>1. w \in [disk : Shelves, mem : Shelves, why : Whys]
  BY DEF World
<1>2. ASSUME NEW y \in {"refused", "clash"}, v = [w EXCEPT !.why = y]
      PROVE  v.disk = w.disk /\ v.mem = w.mem /\ v.why = y
  <2>1. v = [disk |-> w.disk, mem |-> w.mem, why |-> y]
    BY <1>1, <1>2
  <2>2. QED
    BY <2>1
<1>3. CASE w.mem[d] = Absent
  BY <1>2, <1>3 DEF Add, Elsewhere
<1>4. CASE w.mem[d] # Absent /\ Named(w.mem, d, s.name) # {}
  BY <1>2, <1>4 DEF Add, Elsewhere
<1>5. CASE w.mem[d] # Absent /\ Named(w.mem, d, s.name) = {}
  <2> DEFINE S == w.mem[d] \cup {s}
  <2>1. v = Save([w EXCEPT !.mem[d] = S], d, fails)
    BY <1>5 DEF Add
  <2>2. w.mem \in Shelves /\ w.disk \in Shelves
    BY <1>1
  <2>3. d \in Homes => S # Absent
    BY <1>5, <2>2 DEF NoShelf, Shelves
  <2>4. \A t : t \in S <=> t \in w.mem[d] \/ t = s
    OBVIOUS
  <2> HIDE DEF S
  <2>5. /\ v.mem = [w.mem EXCEPT ![d] = S]
        /\ v.disk \in {w.disk, [w.disk EXCEPT ![d] = S]}
    BY <1>1, <2>1, SaveContent
  <2>6. CASE d \in Homes
    <3>1. v.mem[d] = S /\ v.disk[d] \in {w.disk[d], S} /\ Elsewhere(v, w, d)
      BY <2>2, <2>5, <2>6 DEF Shelves, Elsewhere
    <3>2. (d \in Piers => Proper(d, s)) /\ Stocked(w.mem) /\ Stocked(w.disk)
             => Stocked(v.mem) /\ Stocked(v.disk)
      BY <1>5, <2>4, <3>1 DEF Stocked, Elsewhere, Homes
    <3>3. Edited(v.mem, w.mem, d, NoName, d, {s})
      BY <1>5, <2>3, <2>4, <2>6, <3>1 DEF Edited, Elsewhere
    <3>4. QED
      BY <1>5, <3>1, <3>2, <3>3
  <2>7. CASE d \notin Homes
    <3>1. v.mem = w.mem /\ v.disk = w.disk
      BY <2>2, <2>5, <2>7 DEF Shelves
    <3>2. Edited(w.mem, w.mem, d, NoName, d, {s})
      BY <2>7 DEF Edited
    <3>3. QED
      BY <1>5, <3>1, <3>2 DEF Elsewhere
  <2>8. QED
    BY <2>6, <2>7
<1>6. QED
  BY <1>3, <1>4, <1>5

LEMMA ForgetContent ==
  ASSUME NoShelf, Solid, NEW side, NEW it \in Item, NEW fails, NEW v, v = Forget(side, it, fails),
         NEW e
  PROVE  /\ it.origin.name = NoName => v = Here
         /\ Elsewhere(v, Here, Home(side, it.origin))
         /\ Stocked(mem) /\ Stocked(disk) => Stocked(v.mem) /\ Stocked(v.disk)
         /\ v.why = "done" =>
              Edited(v.mem, mem, Home(side, it.origin), it.origin.name, e, {})
<1>1. World(Here) /\ Here.disk = disk /\ Here.mem = mem /\ Here.why = "done"
  BY HereRight
<1>2. CASE it.origin.name = NoName
  <2>1. v = Here
    BY <1>2 DEF Forget
  <2>2. Edited(mem, mem, Home(side, it.origin), it.origin.name, e, {})
    BY <1>2 DEF Edited
  <2>3. QED
    BY <1>1, <2>1, <2>2 DEF Elsewhere
<1>3. CASE it.origin.name # NoName
  <2>1. v = Del(Here, Home(side, it.origin), it.origin.name, fails)
    BY <1>3 DEF Forget
  <2>2. /\ Elsewhere(v, Here, Home(side, it.origin))
        /\ Stocked(Here.mem) /\ Stocked(Here.disk) => Stocked(v.mem) /\ Stocked(v.disk)
        /\ v.why = "done" =>
             Edited(v.mem, Here.mem, Home(side, it.origin), it.origin.name, e, {})
    BY <1>1, <1>3, <2>1, DelContent
  <2>3. QED
    BY <1>1, <1>3, <2>2
<1>4. QED
  BY <1>2, <1>3

\* Store touches the shelf of what is shown, and of what it came from if that has a name.
Spared(side, it, e) ==
  /\ e \in Homes /\ e # Home(side, it.now)
  /\ it.origin.name # NoName => e # Home(side, it.origin)

\* What Store makes of the memory, the files and the item.
Storing(side, it, r) ==
  /\ r.item.now = it.now
  /\ \A e : Spared(side, it, e) => r.w.mem[e] = mem[e] /\ r.w.disk[e] = disk[e]
  /\ (Home(side, it.now) \in Piers => Proper(Home(side, it.now), it.now))
       /\ Stocked(mem) /\ Stocked(disk) => Stocked(r.w.mem) /\ Stocked(r.w.disk)
  /\ ~Dirty(it) => r.item = it /\ r.w.mem = mem /\ r.w.disk = disk
  /\ Dirty(it) /\ r.lapse = {} =>
       /\ r.item = Clean(it.now)
       /\ Edited(r.w.mem, mem, Home(side, it.origin), it.origin.name, Home(side, it.now), {it.now})
       /\ it.origin.name = NoName => Named(mem, Home(side, it.now), it.now.name) = {}

LEMMA StoreContent ==
  ASSUME NoShelf, Solid, NEW side, NEW it \in Item, NEW fate, NEW r, r = Store(side, it, fate)
  PROVE  Storing(side, it, r)
<1>0. World(Here) /\ Here.disk = disk /\ Here.mem = mem /\ Here.why = "done"
  BY HereRight
<1>1. it.now \in Service /\ it.origin \in Service
      /\ it = [origin |-> it.origin, now |-> it.now]
  BY DEF Item
<1>2. CASE ~Dirty(it)
  <2>1. r = [w |-> Here, item |-> it, pool |-> pool, lapse |-> {}, gap |-> {}]
    BY <1>2 DEF Store
  <2>2. r.w = Here /\ r.item = it
    BY <2>1
  <2>3. r.w.mem = mem /\ r.w.disk = disk /\ r.item.now = it.now
    BY <1>0, <2>2
  <2>4. Stocked(mem) /\ Stocked(disk) => Stocked(r.w.mem) /\ Stocked(r.w.disk)
    BY <2>3
  <2>5. QED
    BY <1>2, <2>2, <2>3, <2>4, Zenon DEF Storing
<1>3. CASE Dirty(it)
  <2> DEFINE h == Home(side, it.now)
             g == Home(side, it.origin)
             d == Forget(side, it, fate = "del")
             w == IF d.why = "done" THEN Add(d, h, it.now, fate = "add") ELSE d
             kept == w.why = "done" /\ (linked \/ it.origin.name = it.now.name)
             why == IF w.why # "done" THEN {w.why} ELSE IF linked THEN {} ELSE {"offline"}
             moved == it.origin.name # NoName /\ g # h
             item == [it EXCEPT !.origin = IF kept THEN it.now ELSE @]
             p == IF w.why = "done" THEN Told(w, Announced(side, it)) ELSE pool
             gap == why \cup (IF moved THEN {"moved"} ELSE {})
  <2>1. r = [w |-> w, item |-> item, pool |-> p, lapse |-> why, gap |-> gap]
    BY <1>3 DEF Store
  <2>2. r.w = w /\ r.item = item /\ r.lapse = why
    BY <2>1
  <2>3. World(d)
    BY ForgetRight
  <2>4. /\ it.origin.name = NoName => d = Here
        /\ Elsewhere(d, Here, g)
        /\ Stocked(mem) /\ Stocked(disk) => Stocked(d.mem) /\ Stocked(d.disk)
        /\ d.why = "done" => Edited(d.mem, mem, g, it.origin.name, h, {})
    BY ForgetContent
  <2>5. item = [origin |-> IF kept THEN it.now ELSE it.origin, now |-> it.now]
    BY <1>1
  <2>6. why = {} => w.why = "done" /\ kept
    OBVIOUS
  <2>7. item.now = it.now /\ (kept => item = Clean(it.now))
    BY <2>5 DEF Clean
  <2> HIDE DEF d
  <2>8. ASSUME d.why = "done"
        PROVE  /\ Elsewhere(w, d, h)
               /\ (h \in Piers => Proper(h, it.now)) /\ Stocked(d.mem) /\ Stocked(d.disk)
                     => Stocked(w.mem) /\ Stocked(w.disk)
               /\ w.why = "done" => /\ Edited(w.mem, d.mem, h, NoName, h, {it.now})
                                    /\ Named(d.mem, h, it.now.name) = {}
    <3> DEFINE fails == fate = "add"
    <3>1. w = Add(d, h, it.now, fails)
      BY <2>8
    <3> HIDE DEF w, h, fails
    <3>2. QED
      BY <1>1, <2>3, <2>8, <3>1, AddContent
  <2>9. d.why # "done" => w = d
    OBVIOUS
  <2> HIDE DEF w, kept, why, item, h, g
  <2>10. ASSUME NEW e, e \in Homes, e # h, it.origin.name # NoName => e # g
         PROVE  w.mem[e] = mem[e] /\ w.disk[e] = disk[e]
    <3>1. d.mem[e] = mem[e] /\ d.disk[e] = disk[e]
      BY <1>0, <2>4, <2>10 DEF Elsewhere
    <3>2. QED
      BY <2>8, <2>9, <2>10, <3>1 DEF Elsewhere
  <2>11. (h \in Piers => Proper(h, it.now)) /\ Stocked(mem) /\ Stocked(disk)
            => Stocked(w.mem) /\ Stocked(w.disk)
    BY <2>4, <2>8, <2>9
  <2>12. ASSUME w.why = "done"
         PROVE  /\ Edited(w.mem, mem, g, it.origin.name, h, {it.now})
                /\ it.origin.name = NoName => Named(mem, h, it.now.name) = {}
    <3>1. d.why = "done"
      BY <2>9, <2>12
    <3>2. Edited(d.mem, mem, g, it.origin.name, h, {})
          /\ Edited(w.mem, d.mem, h, NoName, h, {it.now})
      BY <2>4, <2>8, <2>12, <3>1
    <3>3. Edited(w.mem, mem, g, it.origin.name, h, {it.now})
      BY <3>2 DEF Edited
    <3>4. it.origin.name = NoName => Named(mem, h, it.now.name) = {}
      BY <1>0, <2>4, <2>8, <2>12, <3>1
    <3>5. QED
      BY <3>3, <3>4
  <2>13. \A e : Spared(side, it, e) => r.w.mem[e] = mem[e] /\ r.w.disk[e] = disk[e]
    BY <2>2, <2>10 DEF Spared, h, g
  <2>14. (Home(side, it.now) \in Piers => Proper(Home(side, it.now), it.now))
           /\ Stocked(mem) /\ Stocked(disk) => Stocked(r.w.mem) /\ Stocked(r.w.disk)
    BY <2>2, <2>11, Zenon DEF h
  <2>15. ASSUME r.lapse = {}
         PROVE  /\ r.item = Clean(it.now)
                /\ Edited(r.w.mem, mem, Home(side, it.origin), it.origin.name,
                          Home(side, it.now), {it.now})
                /\ it.origin.name = NoName => Named(mem, Home(side, it.now), it.now.name) = {}
    <3>1. w.why = "done" /\ kept
      BY <2>2, <2>6, <2>15
    <3>2. r.item = Clean(it.now)
      BY <2>2, <2>7, <3>1
    <3>3. Edited(w.mem, mem, g, it.origin.name, h, {it.now})
      BY <2>12, <3>1
    <3>4. it.origin.name = NoName => Named(mem, h, it.now.name) = {}
      BY <2>12, <3>1
    <3>5. QED
      BY <2>2, <3>2, <3>3, <3>4 DEF h, g
  <2>16. QED
    BY <1>3, <2>2, <2>7, <2>13, <2>14, <2>15, Zenon DEF Storing
<1>4. QED
  BY <1>2, <1>3

LEMMA PurgedContent ==
  ASSUME NoShelf, Solid, NEW side, NEW it \in Item, NEW fate, NEW r, r = Purged(side, it, fate),
         NEW e
  PROVE  /\ r.lapse = {}
         /\ Elsewhere(r.w, Here, Home(side, it.origin))
         /\ Stocked(mem) /\ Stocked(disk) => Stocked(r.w.mem) /\ Stocked(r.w.disk)
         /\ r.w.why = "done" =>
              Edited(r.w.mem, mem, Home(side, it.origin), it.origin.name, e, {})
<1> DEFINE w == Forget(side, it, fate = "del")
<1>1. r.w = w /\ r.lapse = {}
  BY DEF Purged
<1>2. /\ Elsewhere(w, Here, Home(side, it.origin))
      /\ Stocked(mem) /\ Stocked(disk) => Stocked(w.mem) /\ Stocked(w.disk)
      /\ w.why = "done" => Edited(w.mem, mem, Home(side, it.origin), it.origin.name, e, {})
  BY ForgetContent
<1>3. QED
  BY <1>1, <1>2

-----------------------------------------------------------------------------
(* Screens.                                                                *)

LEMMA ItemsOf ==
  ASSUME NEW m, NEW i
  PROVE  /\ i \in Exports(m) <=> \E s \in m[Own] : i = Clean(s)
         /\ i \in Imports(m) <=> \E p \in Piers : m[p] # Absent /\ \E s \in m[p] : i = Clean(s)
BY DEF Exports, Imports

LEMMA HomeOfImport ==
  ASSUME NEW p, NEW s, Proper(p, s)
  PROVE  Home("import", s) = p
BY DEF Proper, Home

LEMMA CleanOne ==
  ASSUME NEW s, NEW t
  PROVE  Clean(s).now = s /\ Clean(s).origin = s /\ (Clean(s) = Clean(t) => s = t)
BY DEF Clean

(* Reading the items from the memory settles the screen. *)
LEMMA PopulateScreen ==
  ASSUME NEW m, Populate(m), mem' = m, Stocked(m)
  PROVE  Screen' /\ Shipped(imports')
<1>1. exports' = Exports(mem') /\ imports' = Imports(mem')
  BY DEF Populate
<1>2. Screen'
  BY <1>1 DEF Screen
<1>3. \A i \in imports' : \E p \in Piers : Proper(p, i.now)
  BY <1>1, ItemsOf, CleanOne DEF Stocked
<1>4. QED
  BY <1>2, <1>3 DEF Shipped

LEMMA AnewScreen ==
  ASSUME NoShelf, NEW d, NEW c, Stocked(d), ReadAnew(d, c)
  PROVE  Stocked(mem') /\ Screen' /\ Shipped(imports')
<1>1. mem' = Loaded(d, c) /\ Populate(Loaded(d, c))
  BY DEF ReadAnew
<1>2. Stocked(Loaded(d, c))
  BY DEF Loaded, Stocked, Homes
<1>3. QED
  BY <1>1, <1>2, PopulateScreen

(* The exports after an edit of theirs: the item that was edited, old, is  *)
(* gone, and the services that were stored, S, have items.                 *)
LEMMA ExportScreen ==
  ASSUME NoShelf, mem \in Shelves, Unique(mem), mem[Own] # Absent,
         exports \subseteq Exports(mem), Named(mem, Own, NoName) = {} => exports = Exports(mem),
         mem' \in Shelves, NEW n, NEW S \in SUBSET Service, Edited(mem', mem, Own, n, Own, S),
         NEW old,
         (old = {} /\ n = NoName) \/ (\E it \in exports : old = {it} /\ n = it.origin.name),
         exports' = (exports \ old) \cup {Clean(s) : s \in S}
  PROVE  /\ exports' \subseteq Exports(mem')
         /\ Named(mem', Own, NoName) = {} => exports' = Exports(mem')
<1>1. /\ mem[Own] \in SUBSET Service /\ mem'[Own] \in SUBSET Service /\ Own \in Homes
      /\ \A s \in Service : s \in mem'[Own] <=> (s \in mem[Own] /\ ~(n # NoName /\ s.name = n)) \/ s \in S
  BY DEF Shelves, Homes, Edited
<1>2. ASSUME NEW i \in exports \ old PROVE i \in Exports(mem')
  <2>1. PICK s \in mem[Own] : i = Clean(s)
    BY <1>2, ItemsOf
  <2>2. ASSUME n # NoName, s.name = n PROVE FALSE
    <3>1. PICK it \in exports : old = {it} /\ n = it.origin.name
      BY <2>2
    <3>2. PICK t \in mem[Own] : it = Clean(t)
      BY <3>1, ItemsOf
    <3>3. s = t
      BY <1>1, <2>2, <3>1, <3>2, CleanOne DEF Unique
    <3>4. QED
      BY <1>2, <2>1, <3>1, <3>2, <3>3
  <2>3. s \in mem'[Own]
    BY <1>1, <2>2
  <2>4. QED
    BY <2>1, <2>3, ItemsOf
<1>3. \A s \in S : Clean(s) \in Exports(mem')
  BY <1>1, ItemsOf
<1>4. exports' \subseteq Exports(mem')
  BY <1>2, <1>3
<1>5. ASSUME Named(mem', Own, NoName) = {}, NEW i \in Exports(mem') PROVE i \in exports'
  <2>1. \A s \in mem'[Own] : s.name # NoName
    BY <1>1, <1>5 DEF Named, Edited
  <2>2. \A s \in mem[Own] : s.name # NoName
    BY <1>1, <2>1
  <2>3. exports = Exports(mem)
    BY <2>2 DEF Named
  <2>4. PICK s \in mem'[Own] : i = Clean(s)
    BY <1>5, ItemsOf
  <2>5. CASE s \in S
    BY <2>4, <2>5
  <2>6. CASE s \notin S
    <3>1. s \in mem[Own] /\ ~(n # NoName /\ s.name = n)
      BY <1>1, <2>4, <2>6
    <3>2. i \in exports
      BY <2>3, <2>4, <3>1, ItemsOf
    <3>3. i \notin old
      <4>1. SUFFICES ASSUME NEW it \in exports, i = it, n = it.origin.name PROVE FALSE
        OBVIOUS
      <4>2. n = s.name
        BY <2>4, <4>1, CleanOne
      <4>3. QED
        BY <2>2, <3>1, <4>2
    <3>4. QED
      BY <3>2, <3>3
  <2>7. QED
    BY <2>5, <2>6
<1>6. QED
  BY <1>4, <1>5

(* The imports after an edit of theirs. *)
LEMMA ImportScreen ==
  ASSUME NoShelf, mem \in Shelves, Unique(mem), Stocked(mem), imports = Imports(mem),
         mem' \in Shelves, NEW d, NEW n, NEW e, NEW S \in SUBSET Service,
         Edited(mem', mem, d, n, e, S),
         S = {} \/ (e \in Piers /\ mem[e] # Absent),
         NEW old,
         \/ old = {} /\ n = NoName
         \/ \E it \in imports : old = {it} /\ n = it.origin.name /\ d = Home("import", it.origin),
         imports' = (imports \ old) \cup {Clean(s) : s \in S}
  PROVE  imports' = Imports(mem')
<1>1. \A p \in Piers : p \in Homes
  BY DEF Homes
<1>2. \A p \in Piers : mem[p] # Absent => mem[p] \in SUBSET Service
  BY <1>1 DEF Shelves
<1>3. \A p \in Piers : mem'[p] # Absent => mem'[p] \in SUBSET Service
  BY <1>1 DEF Shelves
<1>4. \A p \in Piers : mem'[p] = Absent <=> mem[p] = Absent
  BY <1>1 DEF Edited
<1>5. \A p \in Piers : mem[p] # Absent => \A s \in Service :
        s \in mem'[p] <=> (s \in mem[p] /\ ~(n # NoName /\ p = d /\ s.name = n)) \/ (p = e /\ s \in S)
  BY <1>1 DEF Edited
<1>6. ASSUME NEW it \in imports, n = it.origin.name, d = Home("import", it.origin)
      PROVE  n # NoName /\ d \in Piers /\ mem[d] # Absent /\ \E t \in mem[d] : it = Clean(t) /\ t.name = n
  <2>1. PICK p \in Piers : mem[p] # Absent /\ \E t \in mem[p] : it = Clean(t)
    BY <1>6, ItemsOf
  <2>2. PICK t \in mem[p] : it = Clean(t)
    BY <2>1
  <2>3. Proper(p, t) /\ it.origin = t
    BY <2>1, <2>2, CleanOne DEF Stocked
  <2>4. d = p
    BY <1>6, <2>3, HomeOfImport
  <2>5. QED
    BY <1>6, <2>1, <2>2, <2>3, <2>4, DeskAssumption DEF Proper
<1>7. ASSUME NEW i \in imports \ old PROVE i \in Imports(mem')
  <2>1. PICK p \in Piers : mem[p] # Absent /\ \E t \in mem[p] : i = Clean(t)
    BY <1>7, ItemsOf
  <2>2. PICK s \in mem[p] : i = Clean(s)
    BY <2>1
  <2>3. ASSUME n # NoName, p = d, s.name = n PROVE FALSE
    <3>1. PICK it \in imports : old = {it} /\ n = it.origin.name /\ d = Home("import", it.origin)
      BY <2>3
    <3>2. PICK t \in mem[d] : it = Clean(t) /\ t.name = n
      BY <1>6, <3>1
    <3>3. s = t
      BY <1>1, <2>1, <2>3, <3>2 DEF Unique
    <3>4. QED
      BY <1>7, <2>2, <3>1, <3>2, <3>3
  <2>4. s \in mem'[p] /\ mem'[p] # Absent
    BY <1>2, <1>4, <1>5, <2>1, <2>3
  <2>5. QED
    BY <2>2, <2>4, ItemsOf
<1>8. ASSUME NEW s \in S PROVE Clean(s) \in Imports(mem')
  <2>1. e \in Piers /\ mem[e] # Absent /\ mem'[e] # Absent /\ s \in mem'[e]
    BY <1>4, <1>5, <1>8
  <2>2. QED
    BY <2>1, ItemsOf
<1>9. ASSUME NEW i \in Imports(mem') PROVE i \in imports'
  <2>1. PICK p \in Piers : mem'[p] # Absent /\ \E t \in mem'[p] : i = Clean(t)
    BY <1>9, ItemsOf
  <2>2. PICK s \in mem'[p] : i = Clean(s)
    BY <2>1
  <2>3. CASE s \in S
    BY <2>2, <2>3
  <2>4. CASE s \notin S
    <3>1. mem[p] # Absent /\ s \in mem[p] /\ ~(n # NoName /\ p = d /\ s.name = n)
      BY <1>3, <1>4, <1>5, <2>1, <2>2, <2>4
    <3>2. i \in imports
      BY <2>2, <3>1, ItemsOf
    <3>3. i \notin old
      <4>1. SUFFICES ASSUME NEW it \in imports, i = it, n = it.origin.name, d = Home("import", it.origin)
                     PROVE  FALSE
        OBVIOUS
      <4>2. Proper(p, s) /\ it.origin = s
        BY <2>2, <3>1, <4>1, CleanOne DEF Stocked
      <4>3. d = p
        BY <4>1, <4>2, HomeOfImport
      <4>4. QED
        BY <1>6, <3>1, <4>1, <4>2, <4>3
    <3>4. QED
      BY <3>2, <3>3
  <2>5. QED
    BY <2>3, <2>4
<1>10. QED
  BY <1>7, <1>8, <1>9

-----------------------------------------------------------------------------
(* The buttons.                                                            *)

LEMMA DraftHome ==
  ASSUME NEW side \in Sides, NEW s \in Drafts(side)
  PROVE  /\ s.name \in Names /\ s.name # NoName
         /\ side = "export" => Home(side, s) = Own /\ Own \notin Piers
         /\ side = "import" => /\ Home(side, s) \in Piers /\ mem[Home(side, s)] # Absent
                               /\ Proper(Home(side, s), s)
<1>1. s.name \in Names /\ s.name # NoName
  BY DeskAssumption DEF Drafts
<1>2. CASE side = "export"
  BY <1>1, <1>2, DeskAssumption DEF Home
<1>3. CASE side = "import"
  <2>1. PICK p \in Known : s.piers = {p}
    BY <1>3 DEF Drafts
  <2>2. Proper(p, s)
    BY <1>1, <2>1 DEF Proper
  <2>3. Home(side, s) = p
    BY <1>3, <2>2, HomeOfImport
  <2>4. QED
    BY <1>1, <1>3, <2>1, <2>2, <2>3 DEF Known
<1>4. QED
  BY <1>2, <1>3 DEF Sides

\* An item of the main window whose service can't be lost: it is stored as it shows.
LEMMA ScreenItem ==
  ASSUME Inv, Imported, Screen, Idle, lapses = {}, NEW side \in Sides, NEW i \in Items(side)
  PROVE  /\ i \in Item /\ i.now = i.origin /\ i = Clean(i.now)
         /\ side = "export" => i \in Exports(mem) /\ Home(side, i.origin) = Own
         /\ side = "import" => /\ i \in Imports(mem) /\ Home(side, i.origin) \in Piers
                               /\ i.origin.name # NoName
<1>1. i \in Item
  BY ItemsType DEF Inv
<1>2. CASE side = "export"
  <2>1. i \in Exports(mem)
    BY <1>2 DEF Screen, Items
  <2>2. QED
    BY <1>1, <1>2, <2>1, ItemsOf, CleanOne DEF Home
<1>3. CASE side = "import"
  <2>1. i \in Imports(mem)
    BY <1>3 DEF Screen, Items
  <2>2. PICK p \in Piers : mem[p] # Absent /\ \E s \in mem[p] : i = Clean(s)
    BY <2>1, ItemsOf
  <2>3. PICK s \in mem[p] : i = Clean(s)
    BY <2>2
  <2>4. Proper(p, s)
    BY <2>2, <2>3 DEF Imported, Stocked
  <2>5. Home("import", s) = p
    BY <2>4, HomeOfImport
  <2>6. s.name # NoName
    BY <2>4, DeskAssumption DEF Proper
  <2>7. QED
    BY <1>1, <1>3, <2>1, <2>3, <2>5, <2>6, CleanOne
<1>4. QED
  BY <1>2, <1>3 DEF Sides

(* What is shown after an edit of one item of a side. *)
LEMMA EditedScreen ==
  ASSUME NoShelf, Inv, Imported, Screen, Idle, lapses = {}, job' = job,
         NEW side \in Sides, NEW d, NEW n, NEW e, NEW S \in SUBSET Service, NEW old,
         mem' \in Shelves, Edited(mem', mem, d, n, e, S),
         side = "export" => d = Own /\ e = Own /\ \A p \in Piers : mem'[p] = mem[p],
         side = "import" => mem'[Own] = mem[Own] /\ (S = {} \/ (e \in Piers /\ mem[e] # Absent)),
         \/ (old = {} /\ n = NoName)
         \/ (\E it \in Items(side) : old = {it} /\ n = it.origin.name /\ d = Home(side, it.origin)),
         Replace(side, old, {Clean(s) : s \in S})
  PROVE  Screen'
<1>1. /\ mem \in Shelves /\ Unique(mem) /\ mem[Own] # Absent /\ Stocked(mem)
      /\ exports \subseteq Exports(mem)
      /\ Named(mem, Own, NoName) = {} => exports = Exports(mem)
      /\ imports = Imports(mem)
  BY DEF Inv, Solid, Imported, Screen
<1>2. CASE side = "export"
  <2>1. exports' = (exports \ old) \cup {Clean(s) : s \in S} /\ imports' = imports
    BY <1>2 DEF Replace
  <2>2. (old = {} /\ n = NoName) \/ (\E it \in exports : old = {it} /\ n = it.origin.name)
    BY <1>2 DEF Items
  <2>3. Edited(mem', mem, Own, n, Own, S)
    BY <1>2
  <2>4. exports' \subseteq Exports(mem') /\ (Named(mem', Own, NoName) = {} => exports' = Exports(mem'))
    BY <1>1, <2>1, <2>2, <2>3, ExportScreen
  <2>5. \A i : i \in imports' <=> i \in Imports(mem')
    BY <1>1, <1>2, <2>1, ItemsOf
  <2>6. QED
    BY <2>4, <2>5 DEF Screen
<1>3. CASE side = "import"
  <2>1. imports' = (imports \ old) \cup {Clean(s) : s \in S} /\ exports' = exports
    BY <1>3 DEF Replace
  <2>2. \/ (old = {} /\ n = NoName)
        \/ (\E it \in imports : old = {it} /\ n = it.origin.name /\ d = Home("import", it.origin))
    BY <1>3 DEF Items
  <2>3. S = {} \/ (e \in Piers /\ mem[e] # Absent)
    BY <1>3
  <2>4. imports' = Imports(mem')
    BY <1>1, <2>1, <2>2, <2>3, ImportScreen
  <2>5. Exports(mem') = Exports(mem) /\ Named(mem', Own, NoName) = Named(mem, Own, NoName)
    BY <1>3 DEF Exports, Named
  <2>6. QED
    BY <1>1, <2>1, <2>4, <2>5 DEF Screen
<1>4. QED
  BY <1>2, <1>3 DEF Sides

LEMMA StoredScreen ==
  ASSUME NoShelf, Inv, Imported, Screen, Idle, job' = job,
         NEW side \in Sides, NEW s \in Drafts(side), NEW fate, NEW old, NEW it \in Item,
         it.now = s,
         \/ (old = {} /\ it.origin = Nothing)
         \/ (\E i \in Items(side) : old = {i} /\ it.origin = i.origin),
         NEW r, r = Store(side, it, fate), Take(r), Replace(side, old, {r.item})
  PROVE  Imported' /\ Screen'
<1> DEFINE h == Home(side, it.now)
           g == Home(side, it.origin)
<1>1. /\ disk' = r.w.disk /\ mem' = r.w.mem /\ lapses' = lapses \cup r.lapse
  BY DEF Take
<1>2. Solid /\ Informed /\ s \in Service
  BY DraftsType DEF Inv
<1>3. Good(r)
  BY <1>2, StoreRight
<1>4. /\ r.item.now = it.now
      /\ \A e : Spared(side, it, e) => r.w.mem[e] = mem[e] /\ r.w.disk[e] = disk[e]
      /\ (h \in Piers => Proper(h, it.now)) /\ Stocked(mem) /\ Stocked(disk)
           => Stocked(r.w.mem) /\ Stocked(r.w.disk)
      /\ ~Dirty(it) => r.item = it /\ r.w.mem = mem /\ r.w.disk = disk
      /\ Dirty(it) /\ r.lapse = {} =>
           r.item = Clean(it.now) /\ Edited(r.w.mem, mem, g, it.origin.name, h, {it.now})
  <2>1. Storing(side, it, r)
    BY <1>2, StoreContent
  <2>2. QED
    BY <2>1, Zenon DEF Storing, h, g
<1>5. /\ s.name \in Names /\ s.name # NoName
      /\ side = "export" => h = Own /\ Own \notin Piers
      /\ side = "import" => h \in Piers /\ mem[h] # Absent /\ Proper(h, s)
  BY DraftHome
<1>6. mem' \in Shelves
  BY <1>1, <1>3 DEF Good, World
<1> HIDE DEF h
<1>7. Stocked(mem') /\ Stocked(disk')
  BY <1>1, <1>4, <1>5 DEF Imported, Sides
<1>8. \A i \in imports' : i \in imports \/ (side = "import" /\ i = r.item)
  BY DEF Replace, Sides
<1>9. Imported'
  <2>1. Shipped(imports')
    BY <1>4, <1>5, <1>8 DEF Imported, Shipped
  <2>2. QED
    BY <1>7, <2>1 DEF Imported, Idle, Busy
<1>10. ASSUME lapses' = {} PROVE Screen'
  <2>1. lapses = {} /\ r.lapse = {}
    BY <1>1, <1>10
  <2>2. \/ (old = {} /\ it.origin = Nothing)
        \/ (\E i \in Items(side) : old = {i} /\ it.origin = i.origin /\ i = Clean(i.origin))
    BY <2>1, ScreenItem
  <2>3. CASE ~Dirty(it)
    <3>1. it = Clean(s) /\ it.origin = s
      BY <2>3 DEF Dirty, Clean, Item
    <3>2. PICK i \in Items(side) : old = {i} /\ it.origin = i.origin /\ i = Clean(i.origin)
      BY <1>5, <2>2, <3>1 DEF Nothing
    <3>3. r.item = i /\ mem' = mem
      BY <1>1, <1>4, <2>3, <3>1, <3>2
    <3>4. exports' = exports /\ imports' = imports
      BY <3>2, <3>3 DEF Replace, Items
    <3>5. QED
      BY <2>1, <3>3, <3>4 DEF Screen
  <2>4. CASE Dirty(it)
    <3>1. {r.item} = {Clean(t) : t \in {s}} /\ Edited(mem', mem, g, it.origin.name, h, {s})
      BY <1>1, <1>4, <2>1, <2>4
    <3>2. Replace(side, old, {Clean(t) : t \in {s}})
      BY <3>1
    <3>3. \/ (old = {} /\ it.origin.name = NoName)
          \/ (\E i \in Items(side) :
                old = {i} /\ it.origin.name = i.origin.name /\ g = Home(side, i.origin))
      BY <2>2 DEF Nothing
    <3>4. side = "export" => g = Own /\ h = Own /\ \A p \in Piers : mem'[p] = mem[p]
      <4>1. SUFFICES ASSUME side = "export"
                     PROVE  g = Own /\ h = Own /\ \A p \in Piers : mem'[p] = mem[p]
        OBVIOUS
      <4>2. g = Own /\ h = Own
        BY <4>1 DEF Home, h
      <4>3. \A p \in Piers : Spared(side, it, p)
        BY <1>5, <4>1, <4>2 DEF Spared, Homes, h
      <4>4. QED
        BY <1>1, <1>4, <4>2, <4>3
    <3>5. side = "import" => mem'[Own] = mem[Own] /\ h \in Piers /\ mem[h] # Absent
      <4>1. SUFFICES ASSUME side = "import"
                     PROVE  mem'[Own] = mem[Own] /\ h \in Piers /\ mem[h] # Absent
        OBVIOUS
      <4>2. it.origin.name = NoName \/ g \in Piers
        BY <2>1, <2>2, <4>1, ScreenItem DEF Nothing
      <4>3. Spared(side, it, Own)
        BY <1>5, <4>1, <4>2, DeskAssumption DEF Spared, Homes, h
      <4>4. QED
        BY <1>1, <1>4, <1>5, <4>1, <4>3
    <3> HIDE DEF g
    <3>6. QED
      BY <1>2, <1>6, <2>1, <3>1, <3>2, <3>3, <3>4, <3>5, EditedScreen
  <2>5. QED
    BY <2>3, <2>4
<1>11. QED
  BY <1>9, <1>10 DEF Screen

LEMMA DeleteKept ==
  ASSUME NoShelf, Inv, Imported, Screen, NEW side \in Sides, NEW it \in Items(side), NEW fate,
         DeleteService(side, it, fate)
  PROVE  Imported' /\ Screen'
<1> DEFINE r == Purged(side, it, fate)
           q == [r EXCEPT !.pool = pool, !.lapse = {"fault"}, !.gap = {"fault"}]
<1>1. it \in Item /\ Solid /\ Informed /\ Idle /\ job' = job
  BY ItemsType DEF Inv, DeleteService
<1>2. r = [w |-> r.w, pool |-> r.pool, lapse |-> r.lapse, gap |-> r.gap]
  BY DEF Purged
<1>3. q.w = r.w /\ q.lapse = {"fault"}
  BY <1>2
<1>4. /\ r.lapse = {}
      /\ Elsewhere(r.w, Here, Home(side, it.origin))
      /\ Stocked(mem) /\ Stocked(disk) => Stocked(r.w.mem) /\ Stocked(r.w.disk)
      /\ r.w.why = "done" =>
           Edited(r.w.mem, mem, Home(side, it.origin), it.origin.name, Own, {})
  BY <1>1, PurgedContent
<1>5. World(r.w)
  BY <1>1, ForgetRight DEF Purged
<1>6. IF r.w.why = "done" THEN Take(r) /\ Replace(side, {it}, {})
                          ELSE Take(q) /\ UNCHANGED <<exports, imports>>
  BY DEF DeleteService
<1> HIDE DEF r, q
<1>7. mem' = r.w.mem /\ disk' = r.w.disk
      /\ lapses' = lapses \cup IF r.w.why = "done" THEN {} ELSE {"fault"}
  BY <1>3, <1>4, <1>6 DEF Take
<1>8. imports' \subseteq imports
  BY <1>6 DEF Replace
<1>9. Imported'
  BY <1>1, <1>4, <1>7, <1>8 DEF Imported, Shipped, Idle, Busy
<1>10. ASSUME lapses' = {} PROVE Screen'
  <2>1. lapses = {} /\ r.w.why = "done"
    BY <1>7, <1>10
  <2>2. Edited(mem', mem, Home(side, it.origin), it.origin.name, Own, {}) /\ mem' \in Shelves
    BY <1>4, <1>5, <1>7, <2>1 DEF World
  <2>3. {Clean(s) : s \in {}} = {}
    OBVIOUS
  <2>4. Replace(side, {it}, {Clean(s) : s \in {}})
    BY <1>6, <2>1, <2>3
  <2>5. \A e \in Homes : e # Home(side, it.origin) => mem'[e] = mem[e]
    <3>1. Here.mem = mem
      BY DEF Here
    <3>2. QED
      BY <1>4, <1>7, <3>1 DEF Elsewhere
  <2>6. side = "export" => Home(side, it.origin) = Own /\ \A p \in Piers : mem'[p] = mem[p]
    BY <2>5, DeskAssumption DEF Home, Homes
  <2>7. side = "import" => mem'[Own] = mem[Own]
    <3>1. side = "import" => Home(side, it.origin) \in Piers
      BY <1>1, <2>1, ScreenItem
    <3>2. QED
      BY <2>5, <3>1, DeskAssumption DEF Homes
  <2>8. \E i \in Items(side) :
          {it} = {i} /\ it.origin.name = i.origin.name /\ Home(side, it.origin) = Home(side, i.origin)
    OBVIOUS
  <2>9. {} \in SUBSET Service
    OBVIOUS
  <2>10. QED
    BY <1>1, <2>1, <2>2, <2>4, <2>6, <2>7, <2>8, <2>9, EditedScreen
<1>11. QED
  BY <1>9, <1>10 DEF Screen

LEMMA AddKept ==
  ASSUME NoShelf, Inv, Imported, Screen, NEW side \in Sides, NEW s \in Drafts(side), NEW fate,
         AddService(side, s, fate)
  PROVE  Imported' /\ Screen'
<1> DEFINE it == Fresh(s)
           r == Store(side, it, fate)
<1>1. Idle /\ Take(r) /\ Replace(side, {}, {r.item}) /\ job' = job
  BY DEF AddService
<1>2. it \in Item /\ it.now = s /\ it.origin = Nothing
  BY DraftsType, ServiceItems DEF Fresh
<1> HIDE DEF r, it
<1>3. r = Store(side, it, fate)
  BY DEF r
<1>4. QED
  BY <1>1, <1>2, <1>3, StoredScreen

LEMMA EditKept ==
  ASSUME NoShelf, Inv, Imported, Screen, NEW side \in Sides, NEW i \in Items(side),
         NEW s \in Drafts(side), NEW fate, EditService(side, i, s, fate)
  PROVE  Imported' /\ Screen'
<1> DEFINE it == [i EXCEPT !.now = s]
           r == Store(side, it, fate)
<1>1. Idle /\ Take(r) /\ Replace(side, {i}, {r.item}) /\ job' = job
  BY DEF EditService
<1>2. it \in Item /\ it.now = s /\ it.origin = i.origin
  BY DraftsType, ItemsType DEF Item, Inv
<1> HIDE DEF r, it
<1>3. r = Store(side, it, fate)
  BY DEF r
<1>4. \E j \in Items(side) : {i} = {j} /\ it.origin = j.origin
  BY <1>2
<1>5. QED
  BY <1>1, <1>2, <1>3, <1>4, StoredScreen

LEMMA EditRefusedKept ==
  ASSUME Inv, Imported, NEW side \in Sides, NEW i \in Items(side), NEW s \in Drafts(side),
         EditRefused(side, i, s)
  PROVE  Imported' /\ Screen'
<1> DEFINE it == [i EXCEPT !.now = s]
<1>1. /\ Idle /\ Replace(side, {i}, {it}) /\ lapses' # {}
      /\ mem' = mem /\ disk' = disk /\ job' = job
  BY DEF EditRefused, shelves
<1>2. it.now = s
  BY ItemsType DEF Item, Inv
<1> HIDE DEF it
<1>3. \A j \in imports' : j \in imports \/ (side = "import" /\ j = it)
  BY <1>1 DEF Replace, Sides
<1>4. Shipped(imports')
  BY <1>2, <1>3, DraftHome DEF Imported, Shipped
<1>5. QED
  BY <1>1, <1>4 DEF Imported, Screen, Idle, Busy

\* Files and memory read anew, with no import under way.
LEMMA AnewKept ==
  ASSUME NoShelf, Imported, ReadAnew(disk, cert), disk' = disk, Idle'
  PROVE  Imported' /\ Screen'
<1>1. Stocked(mem') /\ Screen' /\ Shipped(imports')
  BY AnewScreen DEF Imported
<1>2. QED
  BY <1>1 DEF Imported, Idle, Busy

LEMMA PopulateKept ==
  ASSUME Imported, Populate(mem), mem' = mem, disk' = disk, Idle'
  PROVE  Imported' /\ Screen'
<1>1. Screen' /\ Shipped(imports')
  BY PopulateScreen DEF Imported
<1>2. QED
  BY <1>1 DEF Imported, Idle, Busy

LEMMA FrameKept ==
  ASSUME Imported, Screen, UNCHANGED <<disk, mem, exports, imports, job>>,
         lapses' = {} => lapses = {}
  PROVE  Imported' /\ Screen'
<1>1. Imported'
  BY DEF Imported, Busy
<1>2. Screen'
  BY DEF Screen, Idle
<1>3. QED
  BY <1>1, <1>2

LEMMA SettingsKept ==
  ASSUME NoShelf, Imported, Screen, Settings
  PROVE  Imported' /\ Screen'
<1>1. Idle /\ UNCHANGED <<disk, job>>
  BY DEF Settings
<1>2. CASE linked
  <2>1. UNCHANGED <<mem, exports, imports, lapses>>
    BY <1>2 DEF Settings
  <2>2. QED
    BY <1>1, <2>1, FrameKept
<1>3. CASE ~linked
  <2>1. ReadAnew(disk, cert)
    BY <1>3 DEF Settings
  <2>2. QED
    BY <1>1, <2>1, AnewKept DEF Idle
<1>4. QED
  BY <1>2, <1>3

LEMMA OfferFailsKept ==
  ASSUME Imported, Screen, OfferFails
  PROVE  Imported' /\ Screen'
<1>1. /\ exports' = {Clean(i.origin) : i \in exports}
      /\ Idle /\ UNCHANGED <<disk, mem, imports, job, lapses>>
  BY DEF OfferFails, shelves
<1>2. Imported'
  BY <1>1 DEF Imported, Busy
<1>3. ASSUME lapses = {} PROVE Screen'
  <2>1. exports \subseteq Exports(mem)
    BY <1>1, <1>3 DEF Screen
  <2>2. \A i \in exports : Clean(i.origin) = i
    BY <2>1, ItemsOf, CleanOne
  <2>3. exports' = exports
    BY <1>1, <2>2
  <2>4. QED
    BY <1>1, <2>3 DEF Screen, Idle
<1>4. QED
  BY <1>1, <1>2, <1>3 DEF Screen

\* What the user does, the start of an import apart.
LEMMA ButtonsKept ==
  ASSUME NoShelf, Inv, Imported, Screen, UserAct,
         ~ \E p \in Piers, c \in Offered :
             \E chosen \in SUBSET Shown(p, c), picks \in Picks(p), purge \in BOOLEAN :
               ImportStarts(p, c, chosen, picks, purge)
  PROVE  Imported' /\ Screen' /\ ~Busy'
<1>1. CASE \E side \in Sides, fate \in Fates : \E s \in Drafts(side) : AddService(side, s, fate)
  BY <1>1, AddKept DEF AddService, Idle, Busy
<1>2. CASE \E side \in Sides, fate \in Fates : \E it \in Items(side) : DeleteService(side, it, fate)
  BY <1>2, DeleteKept DEF DeleteService, Idle, Busy
<1>3. CASE \E side \in Sides, fate \in Fates : \E it \in Items(side), s \in Drafts(side) :
             EditService(side, it, s, fate)
  BY <1>3, EditKept DEF EditService, Idle, Busy
<1>4. CASE \E side \in Sides : \E it \in Items(side), s \in Drafts(side) : EditRefused(side, it, s)
  BY <1>4, EditRefusedKept DEF EditRefused, Idle, Busy
<1>5. CASE Radio
  <2>1. Populate(mem) /\ mem' = mem /\ disk' = disk /\ Idle /\ job' = job
    BY <1>5 DEF Radio, shelves
  <2>2. QED
    BY <2>1, PopulateKept DEF Idle, Busy
<1>6. CASE Settings
  BY <1>6, SettingsKept DEF Settings, Idle, Busy
<1>7. CASE \E p \in Piers : ImportRefused(p)
  <2>1. ReadAnew(disk, cert) /\ disk' = disk /\ Idle /\ job' = job
    BY <1>7 DEF ImportRefused
  <2>2. QED
    BY <2>1, AnewKept DEF Idle, Busy
<1>8. CASE \E p \in Piers, c \in Offered : ImportCancelled(p, c)
  <2>1. UNCHANGED <<disk, mem, imports, job>> /\ lapses' # {} /\ Idle
    BY <1>8 DEF ImportCancelled, shelves
  <2>2. QED
    BY <2>1 DEF Imported, Screen, Idle, Busy
<1>9. CASE \E chosen \in SUBSET exports : OfferWritten(chosen)
  <2>1. UNCHANGED <<disk, mem, imports>> /\ job'.phase = "dead"
    BY <1>9 DEF OfferWritten, shelves
  <2>2. QED
    BY <2>1 DEF Imported, Screen, Idle, Busy
<1>10. CASE OfferFails
  BY <1>10, OfferFailsKept DEF OfferFails, Idle, Busy
<1>11. QED
  BY <1>1, <1>2, <1>3, <1>4, <1>5, <1>6, <1>7, <1>8, <1>9, <1>10, Zenon DEF UserAct

-----------------------------------------------------------------------------
(* The import.                                                             *)

LEMMA ThenIs ==
  ASSUME NEW j \in Job, NEW k, k = Then(j)
  PROVE  /\ k.pier = j.pier /\ k.chosen = j.chosen /\ k.picks = j.picks
         /\ k.agreed = j.agreed /\ k.purge = j.purge
         /\ \/ k = j
            \/ /\ j.phase = "exports" /\ j.todo = {} /\ j.purge
               /\ k.phase = "purge" /\ k.todo = At(imports, j.pier)
            \/ /\ j.phase = "exports" /\ j.todo = {} /\ k.phase = "imports"
               /\ j.purge => At(imports, j.pier) = {}
            \/ j.phase = "purge" /\ j.todo = {} /\ k.phase = "imports"
<1> DEFINE P == OfPier(j.pier)
<1>1. j = [phase |-> j.phase, pier |-> j.pier, todo |-> j.todo, chosen |-> j.chosen,
           picks |-> j.picks, agreed |-> j.agreed, purge |-> j.purge, swap |-> j.swap]
      /\ j.purge \in BOOLEAN
  BY DEF Job
<1>2. P = At(imports, j.pier)
  BY DEF OfPier, At
<1> HIDE DEF P
<1>3. CASE j.phase = "exports" /\ j.todo = {} /\ j.purge /\ P # {}
  <2>1. k = [j EXCEPT !.phase = "purge", !.todo = P]
    BY <1>3 DEF Then, P
  <2>2. QED
    BY <1>1, <1>2, <1>3, <2>1
<1>4. CASE \/ j.phase = "exports" /\ j.todo = {} /\ ~(j.purge /\ P # {})
           \/ j.phase = "purge" /\ j.todo = {}
  <2>1. k = [j EXCEPT !.phase = "imports"]
    BY <1>4 DEF Then, P
  <2>2. QED
    BY <1>1, <1>2, <1>4, <2>1
<1>5. CASE ~(j.phase \in {"exports", "purge"} /\ j.todo = {})
  BY <1>5 DEF Then
<1>6. QED
  BY <1>3, <1>4, <1>5

(* Going to the next loop changes nothing of what holds.                   *)
LEMMA ThenLoops ==
  ASSUME NEW j \in Job, NEW m, Looped(m, imports, j)
  PROVE  Looped(m, imports, Then(j))
<1> DEFINE k == Then(j)
<1>1. /\ k.pier = j.pier /\ k.purge = j.purge
      /\ \/ k = j
         \/ j.purge /\ k.phase = "purge" /\ k.todo = At(imports, j.pier)
         \/ k.phase = "imports"
  BY ThenIs
<1> HIDE DEF k
<1>2. Looped(m, imports, k)
  BY <1>1 DEF Looped
<1>3. QED
  BY <1>2 DEF k

LEMMA ThenSettles ==
  ASSUME NEW j \in Job, NEW m, Settled(m, imports, j)
  PROVE  Settled(m, imports, Then(j))
<1> DEFINE k == Then(j)
<1>1. /\ k.pier = j.pier /\ k.chosen = j.chosen /\ k.agreed = j.agreed /\ k.purge = j.purge
      /\ \/ k = j
         \/ /\ j.phase = "exports" /\ j.todo = {} /\ j.purge
            /\ k.phase = "purge" /\ k.todo = At(imports, j.pier)
         \/ /\ j.phase = "exports" /\ j.todo = {} /\ k.phase = "imports"
            /\ j.purge => At(imports, j.pier) = {}
         \/ j.phase = "purge" /\ j.todo = {} /\ k.phase = "imports"
  BY ThenIs
<1> HIDE DEF k
<1>2. CASE k = j
  BY <1>2 DEF k
<1>3. CASE k # j
  <2>1. Picked(k) = Picked(j) /\ \A s : ~Waits(j, s) /\ ~Waits(k, s)
    BY <1>1, <1>3 DEF Picked, Waits
  <2>2. j.agreed = {} /\ Shows({}) = {}
    BY <1>1, <1>3 DEF Settled, Shows
  <2>3. Settled(m, imports, k)
    BY <1>1, <1>3, <2>1, <2>2 DEF Settled
  <2>4. QED
    BY <2>3 DEF k
<1>4. QED
  BY <1>2, <1>3

(* The items an import starts with are services that are stored, but for   *)
(* the right of a pier that is replaced.                                   *)
LEMMA ShownItems ==
  ASSUME Inv, Screen, Idle, lapses = {}, NEW p \in Piers, NEW c, NEW i \in Shown(p, c)
  PROVE  \E s \in mem[Own] :
           /\ s \in Service /\ Clean(s) \in exports /\ i.origin = s
           /\ i = IF Swap(p, c) THEN Without(Clean(s), p) ELSE Clean(s)
           /\ Ungranted(i, p)
<1>1. PICK k \in exports : i = IF Swap(p, c) THEN Without(k, p) ELSE k
  BY DEF Shown
<1>2. PICK s \in mem[Own] : k = Clean(s)
  BY ItemsOf DEF Screen
<1>3. s \in Service
  BY DEF Inv, Solid, Shelves, Homes
<1>4. Clean(s) = [origin |-> s, now |-> s]
  BY DEF Clean
<1>5. Without(Clean(s), p) = [origin |-> s, now |-> [s EXCEPT !.piers = @ \ {p}]]
  BY <1>3, <1>4 DEF Without
<1>6. i.origin = s /\ Ungranted(i, p)
  BY <1>1, <1>2, <1>4, <1>5 DEF Ungranted
<1>7. QED
  BY <1>1, <1>2, <1>3, <1>6

\* The pier's imports are its services.
LEMMA PierImports ==
  ASSUME Imported, Screen, Idle, lapses = {}, NEW p \in Piers
  PROVE  Shows(At(imports, p)) = IF mem[p] = Absent THEN {} ELSE mem[p]
<1>1. ASSUME NEW i \in At(imports, p)
      PROVE  mem[p] # Absent /\ i.now \in mem[p]
  <2>1. i \in Imports(mem) /\ i.now.piers = {p}
    BY <1>1 DEF At, Screen
  <2>2. PICK q \in Piers : mem[q] # Absent /\ \E s \in mem[q] : i = Clean(s)
    BY <2>1, ItemsOf
  <2>3. PICK s \in mem[q] : i = Clean(s)
    BY <2>2
  <2>4. Proper(q, s) /\ i.now = s
    BY <2>2, <2>3, CleanOne DEF Imported, Stocked
  <2>5. QED
    BY <2>1, <2>2, <2>4 DEF Proper
<1>2. ASSUME mem[p] # Absent, NEW s \in mem[p]
      PROVE  s \in Shows(At(imports, p))
  <2>1. Clean(s) \in imports
    BY <1>2, ItemsOf DEF Screen
  <2>2. Clean(s).now = s /\ s.piers = {p}
    BY <1>2, CleanOne DEF Imported, Stocked, Proper
  <2>3. QED
    BY <2>1, <2>2 DEF At, Shows
<1>3. QED
  BY <1>1, <1>2 DEF Shows

LEMMA StartKept ==
  ASSUME NoShelf, Inv, Imported, Screen, NEW p \in Piers, NEW c \in Offered,
         NEW chosen \in SUBSET Shown(p, c), NEW picks \in Picks(p), NEW purge \in BOOLEAN,
         ImportStarts(p, c, chosen, picks, purge)
  PROVE  Kept'
<1> DEFINE new == Swap(p, c) \/ p \notin Known
           j == [phase |-> "exports", pier |-> p, todo |-> Shown(p, c), chosen |-> chosen,
                 picks |-> picks, agreed |-> {}, purge |-> purge, swap |-> Swap(p, c)]
<1>1. /\ Idle /\ (p \notin Known => disk[p] = Absent)
      /\ disk' = IF new THEN [disk EXCEPT ![p] = {}] ELSE disk
      /\ untold' = IF Swap(p, c) THEN untold \cup {"swap"} ELSE untold
      /\ picks \in Picks(p)
  BY DEF ImportStarts
<1>2. p \in Homes /\ p # Own /\ {} # Absent
  BY DeskAssumption DEF Homes, NoShelf
<1>3. /\ disk \in Shelves /\ mem \in Shelves /\ Unique(mem)
      /\ Stocked(disk) /\ Stocked(mem)
  BY DEF Inv, Solid, Imported
<1>4. Stocked(disk')
  BY <1>1, <1>2, <1>3 DEF Stocked, Shelves, Homes
<1>5. CASE new /\ c \in Spoilt
  <2>1. ReadAnew(disk', cert') /\ job' = job
    BY <1>5 DEF ImportStarts
  <2>2. Stocked(mem') /\ Screen' /\ Shipped(imports')
    BY <1>4, <2>1, AnewScreen
  <2>3. ~Busy'
    BY <1>1, <2>1 DEF Idle, Busy
  <2>4. QED
    BY <1>4, <2>2, <2>3 DEF Kept, Imported, Looping, Settling
<1>6. CASE ~(new /\ c \in Spoilt)
  <2>1. /\ mem' = (IF new THEN [mem EXCEPT ![p] = {}] ELSE mem)
        /\ imports' = imports /\ lapses' = lapses /\ job' = Then(j)
    BY <1>6 DEF ImportStarts
  <2>2. /\ mem'[Own] = mem[Own] /\ mem'[p] # Absent
        /\ mem'[p] = IF new THEN {} ELSE mem[p]
        /\ \A q \in Piers : q # p => mem'[q] = mem[q]
    BY <1>2, <1>3, <2>1 DEF Shelves, Homes, Known
  <2>3. j \in Job
    <3>1. Shown(p, c) \in SUBSET Item
      BY ShownRight DEF Inv
    <3>2. picks \in SUBSET Service
      BY DEF Picks, Service, Fields
    <3>3. Swap(p, c) \in BOOLEAN /\ chosen \in SUBSET Item
      BY <3>1 DEF Swap
    <3>4. QED
      BY <3>1, <3>2, <3>3 DEF Job
  <2>4. /\ j.phase = "exports" /\ j.pier = p /\ j.todo = Shown(p, c) /\ j.chosen = chosen
        /\ j.picks = picks /\ j.agreed = {} /\ j.purge = purge
    OBVIOUS
  <2> HIDE DEF j
  <2>5. job'.pier = p /\ job'.picks = picks /\ job'.agreed = {} /\ job'.phase # "idle"
    BY <2>1, <2>3, <2>4, ThenIs
  <2>6. Imported'
    <3>1. \A s \in picks : Proper(p, s)
      BY DEF Picks, Proper
    <3>2. Stocked(mem')
      BY <1>3, <2>2 DEF Stocked
    <3>3. QED
      BY <1>4, <2>1, <2>5, <3>1, <3>2 DEF Imported
  <2>7. Screen'
    BY <2>5 DEF Screen, Idle
  <2>8. ASSUME lapses' = {} PROVE Looped(mem', imports', job')
    <3>1. lapses = {}
      BY <2>1, <2>8
    <3>2. \A i \in j.todo : i.origin \in mem'[Own] /\ Ungranted(i, j.pier)
      BY <1>1, <2>2, <2>4, <3>1, ShownItems
    <3>3. ASSUME NEW i \in j.todo, NEW k \in j.todo, i.origin.name = k.origin.name PROVE i = k
      <4>1. PICK s \in mem[Own] : i.origin = s /\ i = IF Swap(p, c) THEN Without(Clean(s), p) ELSE Clean(s)
        BY <1>1, <2>4, <3>1, ShownItems
      <4>2. PICK t \in mem[Own] : k.origin = t /\ k = IF Swap(p, c) THEN Without(Clean(t), p) ELSE Clean(t)
        BY <1>1, <2>4, <3>1, ShownItems
      <4>3. s = t
        BY <1>3, <3>3, <4>1, <4>2 DEF Unique, Homes, Inv, Solid
      <4>4. QED
        BY <4>1, <4>2, <4>3
    <3>4. Looped(mem', imports, j)
      BY <2>2, <2>4, <3>2, <3>3 DEF Looped
    <3>5. QED
      BY <2>1, <2>3, <3>4, ThenLoops
  <2>9. ASSUME lapses' = {}, untold' = {}, Named(mem', Own, NoName) = {}
        PROVE  Settled(mem', imports', job')
    <3>1. lapses = {} /\ ~Swap(p, c)
      BY <1>1, <2>1, <2>9
    <3>2. exports = Exports(mem)
      BY <1>1, <2>2, <2>9, <3>1 DEF Screen, Named
    <3>3. j.todo = exports
      BY <2>4, <3>1 DEF Shown
    <3>4. \A i \in exports : \E s \in mem[Own] : i = Clean(s) /\ i.now = s /\ i.origin = s
      BY <3>2, ItemsOf, CleanOne
    <3>5. \A s \in mem'[Own] : Waits(j, s)
      BY <2>2, <2>4, <3>2, <3>3, ItemsOf, CleanOne DEF Waits
    <3>6. chosen \subseteq exports
      BY <3>1 DEF Shown
    <3>7. \A n \in Picked(j) : \E s \in mem'[Own] : s.name = n
      BY <2>2, <2>4, <3>4, <3>6 DEF Picked
    <3>8. ASSUME NEW i \in j.todo
          PROVE  i.now = i.origin /\ (i.now.name \in Picked(j) => i \in j.chosen)
      <4>1. PICK s \in mem[Own] : i = Clean(s) /\ i.now = s /\ i.origin = s
        BY <3>3, <3>4
      <4>2. ASSUME s.name \in Picked(j) PROVE i \in chosen
        <5>1. PICK k \in chosen : k.now.name = s.name
          BY <2>4, <4>2 DEF Picked
        <5>2. PICK t \in mem[Own] : k = Clean(t) /\ k.now = t
          BY <3>4, <3>6
        <5>3. s = t
          BY <1>3, <5>1, <5>2 DEF Unique, Homes, Inv, Solid
        <5>4. QED
          BY <4>1, <5>2, <5>3
      <4>3. QED
        BY <2>4, <4>1, <4>2
    <3>9. mem'[p] = Shows(At(imports, p))
      BY <1>1, <2>2, <3>1, PierImports DEF Known
    <3>10. Settled(mem', imports, j)
      BY <2>4, <3>5, <3>7, <3>8, <3>9 DEF Settled
    <3>11. QED
      BY <2>1, <2>3, <3>10, ThenSettles
  <2>10. QED
    BY <2>6, <2>7, <2>8, <2>9 DEF Kept, Looping, Settling
<1>7. QED
  BY <1>5, <1>6

LEMMA GrantIs ==
  ASSUME NEW it \in Item, NEW j \in Job
  PROVE  /\ Grant(it, j) \in Item /\ Grant(it, j).origin = it.origin
         /\ Grant(it, j).now.name = it.now.name
         /\ j.pier \in Grant(it, j).now.piers <=> it \in j.chosen
         /\ \A q \in Piers \ {j.pier} : q \in Grant(it, j).now.piers <=> q \in it.now.piers
<1>1. j.pier \in Piers
  BY DEF Job
<1> DEFINE p == j.pier
<1>2. it = [origin |-> it.origin, now |-> it.now] /\ it.origin \in Service /\ it.now \in Service
  BY DEF Item
<1>3. it.now = [name |-> it.now.name, piers |-> it.now.piers, value |-> it.now.value]
      /\ it.now.piers \in SUBSET Piers
  BY <1>2 DEF Service
<1>4. With(it, p) = [origin |-> it.origin, now |-> [name |-> it.now.name,
                      piers |-> it.now.piers \cup {p}, value |-> it.now.value]]
  BY <1>2, <1>3 DEF With
<1>5. Without(it, p) = [origin |-> it.origin, now |-> [name |-> it.now.name,
                         piers |-> it.now.piers \ {p}, value |-> it.now.value]]
  BY <1>2, <1>3 DEF Without
<1>6. Grant(it, j) \in Item
  BY <1>1, RightsRight DEF Grant
<1>7. CASE it \in j.chosen
  <2>1. Grant(it, j) = With(it, p)
    BY <1>7 DEF Grant
  <2>2. QED
    BY <1>4, <1>6, <1>7, <2>1
<1>8. CASE it \notin j.chosen
  <2>1. Grant(it, j) = Without(it, p)
    BY <1>8 DEF Grant
  <2>2. QED
    BY <1>5, <1>6, <1>8, <2>1
<1>9. QED
  BY <1>7, <1>8

(* What a round of the loop over the exports makes of them: the service    *)
(* that is granted takes the place of the one that was stored.             *)
LEMMA Granted ==
  ASSUME NoShelf, Inv, Looping, NEW it \in exports, NEW fate, ImportGrants(it, fate), lapses' = {},
         NEW n, n = Grant(it, job).now
  PROVE  /\ it.origin \in mem[Own] /\ n.name = it.origin.name /\ n \in Service
         /\ job.pier \in n.piers <=> it \in job.chosen
         /\ \A q \in Piers \ {job.pier} : q \in n.piers <=> q \in it.origin.piers
         /\ \A s \in Service :
              s \in mem'[Own] <=> (s \in mem[Own] /\ s.name # it.origin.name) \/ s = n
         /\ \A p \in Piers : mem'[p] = mem[p]
<1> DEFINE g == Grant(it, job)
           r == Store("export", g, fate)
           o == it.origin
<1>1. job \in Job /\ it \in Item /\ Solid /\ mem \in Shelves /\ Unique(mem) /\ mem[Own] # Absent
  BY BusyJob DEF Inv, Tidy, Solid, ImportGrants
<1>2. /\ job.phase = "exports" /\ it \in job.todo
      /\ mem' = r.w.mem /\ lapses = {} /\ r.lapse = {}
  BY DEF ImportGrants, Take
<1>3. /\ g \in Item /\ g.origin = o /\ n = g.now
      /\ n.name = it.now.name
      /\ job.pier \in n.piers <=> it \in job.chosen
      /\ \A q \in Piers \ {job.pier} : q \in n.piers <=> q \in it.now.piers
  BY <1>1, GrantIs
<1>4. o \in mem[Own] /\ Ungranted(it, job.pier)
  BY <1>2 DEF Looping, Looped, Busy
<1>5. o \in Service /\ n \in Service
  BY <1>1, <1>3 DEF Item
<1>6. it.now.name = o.name /\ \A q \in Piers \ {job.pier} : q \in it.now.piers <=> q \in o.piers
  BY <1>4, <1>5 DEF Ungranted, Service
<1>7. Home("export", o) = Own /\ Home("export", n) = Own /\ Own \in Homes /\ Own \notin Piers
      /\ \A p \in Piers : p \in Homes
  BY DeskAssumption DEF Home, Homes
<1> HIDE DEF r, g, o
<1>8. Storing("export", g, r)
  BY <1>1, <1>3, StoreContent DEF r
<1>9. \A p \in Piers : mem'[p] = mem[p]
  BY <1>2, <1>3, <1>7, <1>8 DEF Storing, Spared
<1>10. ASSUME NEW s \in Service
       PROVE  s \in mem'[Own] <=> (s \in mem[Own] /\ s.name # o.name) \/ s = n
  <2>1. CASE ~Dirty(g)
    <3>1. mem' = mem /\ n = o
      BY <1>2, <1>3, <1>8, <2>1 DEF Storing, Dirty
    <3>2. s \in mem[Own] /\ s.name = o.name => s = o
      BY <1>1, <1>4, <1>7 DEF Unique
    <3>3. QED
      BY <1>4, <3>1, <3>2
  <2>2. CASE Dirty(g)
    <3>1. Edited(mem', mem, Own, o.name, Own, {n})
      BY <1>2, <1>3, <1>7, <1>8, <2>2 DEF Storing
    <3>2. o.name = NoName => Named(mem, Own, n.name) = {}
      BY <1>2, <1>3, <1>7, <1>8, <2>2 DEF Storing
    <3>3. o.name # NoName
      BY <1>1, <1>3, <1>4, <1>6, <1>7, <3>2 DEF Named
    <3>4. QED
      BY <1>1, <1>7, <3>1, <3>3 DEF Edited
  <2>3. QED
    BY <2>1, <2>2
<1>11. QED
  BY <1>3, <1>4, <1>5, <1>6, <1>9, <1>10 DEF o

LEMMA GrantsKept ==
  ASSUME NoShelf, Inv, Inv', Kept, NEW it \in exports, NEW fate, ImportGrants(it, fate)
  PROVE  Kept'
<1> DEFINE r == Store("export", Grant(it, job), fate)
           j == [job EXCEPT !.todo = @ \ {it}]
           n == Grant(it, job).now
           o == it.origin
<1>1. job \in Job /\ it \in Item /\ Solid
  BY BusyJob DEF Inv, Tidy, ImportGrants
<1>2. /\ job.phase = "exports" /\ it \in job.todo /\ Take(r) /\ imports' = imports
      /\ job' = Then(j)
  BY DEF ImportGrants
<1>3. /\ j \in Job /\ j.phase = "exports" /\ j.todo = job.todo \ {it}
      /\ j.pier = job.pier /\ j.chosen = job.chosen /\ j.picks = job.picks
      /\ j.agreed = job.agreed /\ j.purge = job.purge
  BY <1>1, <1>2 DEF Job
<1>4. Storing("export", Grant(it, job), r)
  BY <1>1, GrantIs, StoreContent
<1>5. /\ mem' = r.w.mem /\ disk' = r.w.disk /\ (lapses' = {} => lapses = {})
      /\ (untold' = {} => untold = {})
  BY <1>2 DEF Take
<1> HIDE DEF r, j
<1>6. /\ job'.pier = job.pier /\ job'.picks = job.picks /\ job'.agreed = job.agreed
      /\ job'.phase # "idle" /\ Busy
  BY <1>2, <1>3, ThenIs DEF Busy
<1>7. Imported'
  <2>1. Home("export", Grant(it, job).now) \notin Piers
    BY DeskAssumption DEF Home
  <2>2. Stocked(mem') /\ Stocked(disk')
    BY <1>4, <1>5, <2>1 DEF Storing, Kept, Imported
  <2>3. QED
    BY <1>2, <1>6, <2>2 DEF Kept, Imported
<1>8. Screen'
  BY <1>6 DEF Screen, Idle
<1>9. ASSUME lapses' = {}
      PROVE  /\ o \in mem[Own] /\ n.name = o.name /\ n \in Service
             /\ job.pier \in n.piers <=> it \in job.chosen
             /\ \A s \in mem'[Own] : (s \in mem[Own] /\ s.name # o.name) \/ s = n
             /\ \A s \in mem[Own] : s.name # o.name => s \in mem'[Own]
             /\ n \in mem'[Own]
             /\ \A p \in Piers : mem'[p] = mem[p]
  <2>1. mem[Own] \in SUBSET Service /\ mem'[Own] \in SUBSET Service
    BY DEF Inv, Solid, Shelves, Homes
  <2>2. QED
    BY <1>9, <2>1, Granted DEF Kept
<1> HIDE DEF n, o
<1>10. job.pier \in Piers
  BY <1>1 DEF Job
<1>11. ASSUME lapses' = {} PROVE Looped(mem', imports', job')
  <2>1. Looped(mem, imports, job)
    BY <1>5, <1>6, <1>11 DEF Kept, Looping
  <2>2. \A i \in j.todo : i.origin \in mem'[Own] /\ Ungranted(i, j.pier)
    BY <1>2, <1>3, <1>9, <1>11, <2>1 DEF Looped, o
  <2>3. Looped(mem', imports, j)
    BY <1>2, <1>3, <1>9, <1>10, <1>11, <2>1, <2>2 DEF Looped
  <2>4. QED
    BY <1>2, <1>3, <2>3, ThenLoops
<1>12. ASSUME lapses' = {}, untold' = {}, Named(mem', Own, NoName) = {}
       PROVE  Settled(mem', imports', job')
  <2>1. lapses = {} /\ untold = {}
    BY <1>5, <1>12
  <2>2. mem[Own] # Absent /\ mem'[Own] # Absent /\ Own \in Homes
    BY DEF Inv, Solid, Homes
  <2>3. \A s \in mem'[Own] : s.name # NoName
    BY <1>12, <2>2 DEF Named
  <2>4. \A s \in mem[Own] : s.name # NoName
    BY <1>9, <1>12, <2>3
  <2>5. Named(mem, Own, NoName) = {}
    BY <2>2, <2>4 DEF Named
  <2>6. Settled(mem, imports, job)
    BY <1>6, <2>1, <2>5 DEF Kept, Settling
  <2>7. it.now = o /\ (o.name \in Picked(job) => it \in job.chosen)
    BY <1>2, <2>6 DEF Settled, o
  <2>8. Picked(j) = Picked(job) /\ (it \in job.chosen => o.name \in Picked(job))
    BY <1>3, <2>7 DEF Picked
  <2>9. ASSUME NEW s \in mem'[Own]
        PROVE  Waits(j, s) \/ (j.pier \in s.piers <=> s.name \in Picked(j))
    <3>1. CASE s = n
      BY <1>3, <1>9, <1>12, <2>7, <2>8, <3>1
    <3>2. CASE s \in mem[Own] /\ s.name # o.name
      <4>1. Waits(job, s) \/ (job.pier \in s.piers <=> s.name \in Picked(job))
        BY <2>6, <3>2 DEF Settled
      <4>2. Waits(job, s) => Waits(j, s)
        BY <1>2, <1>3, <2>7, <3>2 DEF Waits
      <4>3. QED
        BY <1>3, <2>8, <4>1, <4>2
    <3>3. QED
      BY <1>9, <1>12, <3>1, <3>2
  <2>10. ASSUME NEW m \in Picked(j) PROVE \E s \in mem'[Own] : s.name = m
    <3>1. PICK s \in mem[Own] : s.name = m
      BY <2>6, <2>8 DEF Settled
    <3>2. QED
      BY <1>9, <1>12, <3>1
  <2>11. mem'[j.pier] = mem[job.pier]
    BY <1>3, <1>9, <1>10, <1>12
  <2>12. \A i \in j.todo : i.now = i.origin /\ (i.now.name \in Picked(j) => i \in j.chosen)
    BY <1>2, <1>3, <2>6, <2>8 DEF Settled
  <2>13. /\ j.agreed = {}
         /\ ~j.purge => Shows(At(imports, j.pier)) \subseteq mem'[j.pier] /\ j.agreed \subseteq mem'[j.pier]
         /\ j.purge => mem'[j.pier] = Shows(At(imports, j.pier))
    BY <1>2, <1>3, <2>6, <2>11 DEF Settled
  <2>14. Settled(mem', imports, j)
    BY <1>3, <2>9, <2>10, <2>12, <2>13 DEF Settled
  <2>15. QED
    BY <1>2, <1>3, <2>14, ThenSettles
<1>13. QED
  BY <1>7, <1>8, <1>11, <1>12 DEF Kept, Looping, Settling

(* The items an import purges are the services of its pier.                *)
LEMMA PurgedItem ==
  ASSUME NoShelf, Inv, Imported, lapses = {}, Looped(mem, imports, job), NEW i \in job.todo,
         job.phase = "purge"
  PROVE  /\ i \in imports /\ i.now = i.origin /\ i \in Item /\ i = Clean(i.now)
         /\ Proper(job.pier, i.now) /\ Home("import", i.origin) = job.pier
<1>1. i \in imports /\ i.now.piers = {job.pier}
  BY DEF Looped, At
<1>2. i.now = i.origin /\ i \in Item /\ i = Clean(i.now)
  BY <1>1 DEF Inv, Tidy, Item, Clean
<1>3. Proper(job.pier, i.now)
  BY <1>1 DEF Imported, Shipped, Proper
<1>4. QED
  BY <1>1, <1>2, <1>3, HomeOfImport

LEMMA PurgesKept ==
  ASSUME NoShelf, Inv, Inv', Kept, NEW it \in imports, NEW fate, ImportPurges(it, fate)
  PROVE  Kept'
<1> DEFINE r == Purged("import", it, fate)
           j == [job EXCEPT !.todo = @ \ {it}]
           p == job.pier
<1>1. job \in Job /\ it \in Item /\ Solid
  BY BusyJob DEF Inv, Tidy, ImportPurges
<1>2. CASE r.w.why # "done"
  <2>1. ReadAnew(disk, cert) /\ job' = NoJob /\ disk' = disk
    BY <1>2 DEF ImportPurges
  <2>2. Idle' /\ ~Busy'
    BY <2>1 DEF Idle, Busy, NoJob
  <2>3. QED
    BY <2>1, <2>2, AnewKept DEF Kept, Looping, Settling
<1>3. CASE r.w.why = "done"
  <2>1. /\ job.phase = "purge" /\ it \in job.todo /\ Take(r)
        /\ UNCHANGED <<exports, imports>> /\ job' = Then(j)
    BY <1>3 DEF ImportPurges
  <2>2. /\ r.lapse = {}
        /\ Elsewhere(r.w, Here, Home("import", it.origin))
        /\ Stocked(mem) /\ Stocked(disk) => Stocked(r.w.mem) /\ Stocked(r.w.disk)
        /\ Edited(r.w.mem, mem, Home("import", it.origin), it.origin.name, Own, {})
    BY <1>1, <1>3, PurgedContent
  <2>3. /\ j \in Job /\ j.phase = "purge" /\ j.todo = job.todo \ {it}
        /\ j.pier = p /\ j.chosen = job.chosen /\ j.picks = job.picks
        /\ j.agreed = job.agreed /\ j.purge = job.purge
    BY <1>1, <2>1 DEF Job
  <2>4. /\ mem' = r.w.mem /\ disk' = r.w.disk /\ lapses' = lapses
        /\ (untold' = {} => untold = {})
    BY <2>1, <2>2 DEF Take
  <2> HIDE DEF r, j
  <2>5. /\ job'.pier = p /\ job'.picks = job.picks /\ job'.agreed = job.agreed
        /\ job'.phase # "idle" /\ Busy
    BY <2>1, <2>3, ThenIs DEF Busy
  <2>6. Imported'
    BY <2>1, <2>2, <2>4, <2>5 DEF Kept, Imported
  <2>7. Screen'
    BY <2>5 DEF Screen, Idle
  <2>8. p \in Homes /\ Own \in Homes /\ p # Own /\ p \in Piers
    BY <1>1, DeskAssumption DEF Job, Homes
  <2>9. Here.mem = mem /\ Here.disk = disk
    BY DEF Here
  <2>10. ASSUME lapses' = {} PROVE Looped(mem', imports', job')
    <3>1. Looped(mem, imports, job)
      BY <2>4, <2>5, <2>10 DEF Kept, Looping
    <3>2. mem'[p] # Absent
      BY <2>2, <2>4, <2>8, <3>1 DEF Edited, Looped
    <3>3. Looped(mem', imports, j)
      BY <2>1, <2>3, <3>1, <3>2 DEF Looped
    <3>4. QED
      BY <2>1, <2>3, <3>3, ThenLoops
  <2>11. ASSUME lapses' = {}, untold' = {}, Named(mem', Own, NoName) = {}
         PROVE  Settled(mem', imports', job')
    <3>1. Looped(mem, imports, job)
      BY <2>4, <2>5, <2>11 DEF Kept, Looping
    <3>2. /\ \A i \in job.todo : /\ i.now = i.origin /\ i = Clean(i.now)
                                 /\ Proper(p, i.now) /\ Home("import", i.origin) = p
      BY <2>1, <2>4, <2>11, <3>1, PurgedItem DEF Kept
    <3>3. mem'[Own] = mem[Own]
      BY <2>1, <2>2, <2>4, <2>8, <2>9, <3>2 DEF Elsewhere
    <3>4. Settled(mem, imports, job)
      BY <2>4, <2>5, <2>11, <3>3 DEF Kept, Settling, Named
    <3>5. job.purge /\ mem[p] = Shows(job.todo) /\ mem[p] # Absent /\ job.agreed = {}
      BY <2>1, <3>1, <3>4 DEF Looped, Settled
    <3>6. mem'[p] \in SUBSET Service /\ mem[p] \in SUBSET Service
      <4>1. mem'[p] # Absent
        BY <2>2, <2>4, <2>8, <3>5 DEF Edited
      <4>2. QED
        BY <2>8, <3>5, <4>1 DEF Inv, Solid, Shelves
    <3>7. \A s \in Service : s \in mem'[p] <=> s \in mem[p] /\ s.name # it.now.name
      <4>1. it.origin = it.now /\ Home("import", it.origin) = p /\ it.now.name # NoName
        BY <2>1, <3>2, DeskAssumption DEF Proper
      <4>2. QED
        BY <2>2, <2>4, <2>8, <3>5, <4>1 DEF Edited
    <3>8. \A s, t \in mem[p] : s.name = t.name => s = t
      BY <2>8, <3>5 DEF Inv, Solid, Unique
    <3>9. ASSUME NEW s \in mem'[p] PROVE s \in Shows(j.todo)
      <4>1. s \in mem[p] /\ s.name # it.now.name
        BY <3>6, <3>7
      <4>2. QED
        BY <2>3, <3>5, <4>1 DEF Shows
    <3>10. ASSUME NEW i \in j.todo PROVE i.now \in mem'[p]
      <4>1. i.now \in mem[p] /\ it.now \in mem[p] /\ i # it
        BY <2>1, <2>3, <3>5 DEF Shows
      <4>2. i = Clean(i.now) /\ it = Clean(it.now)
        BY <2>1, <2>3, <3>2
      <4>3. i.now.name # it.now.name
        BY <3>8, <4>1, <4>2
      <4>4. QED
        BY <3>6, <3>7, <4>1, <4>3
    <3>11. mem'[p] = Shows(j.todo)
      BY <3>9, <3>10 DEF Shows
    <3>12. \A s : Waits(j, s) <=> Waits(job, s)
      BY <2>1, <2>3 DEF Waits
    <3>13. Picked(j) = Picked(job)
      BY <2>3 DEF Picked
    <3>14. Settled(mem', imports, j)
      BY <2>3, <3>3, <3>4, <3>5, <3>11, <3>12, <3>13 DEF Settled
    <3>15. QED
      BY <2>1, <2>3, <3>14, ThenSettles
  <2>12. QED
    BY <2>6, <2>7, <2>10, <2>11 DEF Kept, Looping, Settling
<1>4. QED
  BY <1>2, <1>3

\* What a round of the loop over the imports makes of the memory.
LEMMA StoresContent ==
  ASSUME NoShelf, Inv, Imported, NEW s, NEW yes \in BOOLEAN, NEW fate, ImportStores(s, yes, fate)
  PROVE  /\ Proper(job.pier, s) /\ s \in Service /\ job.pier \in Piers
         /\ Stocked(mem') /\ Stocked(disk')
         /\ \A e \in Homes : e # job.pier => mem'[e] = mem[e] /\ disk'[e] = disk[e]
         /\ lapses \subseteq lapses' /\ untold \subseteq untold'
         /\ \/ /\ mem' = mem
               /\ ~yes \/ (~job.purge /\ s \in Shows(At(imports, job.pier)))
            \/ /\ yes
               /\ lapses' = {} => Edited(mem', mem, Nothing, NoName, job.pier, {s})
<1> DEFINE r == Store("import", Fresh(s), fate)
           p == job.pier
           curr == IF job.purge THEN {} ELSE {i \in OfPier(job.pier) : i.now.name = s.name}
           same == \E i \in curr : i.now = s
<1>1. job \in Job /\ s \in Service /\ p \in Piers
  BY BusyJob DEF Inv, ImportStores, Job
<1>2. /\ job.phase = "imports" /\ s \in job.picks
      /\ IF yes /\ ~same THEN Take(r) ELSE UNCHANGED <<shelves, linked, lapses, untold>>
  BY DEF ImportStores
<1>3. Proper(p, s) /\ s.name # NoName /\ Stocked(mem) /\ Stocked(disk)
  BY <1>2, DeskAssumption DEF Imported, Busy, Proper
<1>4. Fresh(s) \in Item /\ Fresh(s).now = s /\ Fresh(s).origin = Nothing /\ Dirty(Fresh(s))
  BY <1>1, <1>3, ServiceItems DEF Fresh, Dirty, Nothing
<1>5. Home("import", s) = p
  BY <1>3, HomeOfImport
<1>6. CASE ~(yes /\ ~same)
  <2>1. UNCHANGED <<mem, disk, lapses, untold>>
    BY <1>2, <1>6 DEF shelves
  <2>2. yes => ~job.purge /\ s \in Shows(At(imports, p))
    BY <1>6 DEF OfPier, At, Shows
  <2>3. QED
    BY <1>1, <1>3, <2>1, <2>2
<1>7. CASE yes /\ ~same
  <2>1. Take(r)
    BY <1>2, <1>7
  <2>2. Storing("import", Fresh(s), r)
    BY <1>4, StoreContent DEF Inv
  <2> HIDE DEF r
  <2>3. /\ mem' = r.w.mem /\ disk' = r.w.disk
        /\ lapses' = lapses \cup r.lapse /\ untold' = untold \cup r.gap
    BY <2>1 DEF Take
  <2>4. \A e \in Homes : e # p => mem'[e] = mem[e] /\ disk'[e] = disk[e]
    BY <1>4, <1>5, <2>2, <2>3 DEF Storing, Spared, Nothing
  <2>5. Stocked(mem') /\ Stocked(disk')
    BY <1>3, <1>4, <1>5, <2>2, <2>3 DEF Storing
  <2>6. ASSUME lapses' = {} PROVE Edited(mem', mem, Nothing, NoName, p, {s})
    <3>1. Edited(mem', mem, Home("import", Nothing), Nothing.name, p, {s})
      BY <1>4, <1>5, <2>2, <2>3, <2>6 DEF Storing
    <3>2. Nothing.name = NoName
      BY DEF Nothing
    <3>3. QED
      BY <3>1, <3>2 DEF Edited
  <2>7. QED
    BY <1>1, <1>3, <1>7, <2>3, <2>4, <2>5, <2>6
<1>8. QED
  BY <1>6, <1>7

LEMMA StoresKept ==
  ASSUME NoShelf, Inv, Inv', Kept, NEW s, NEW yes \in BOOLEAN, NEW fate, ImportStores(s, yes, fate)
  PROVE  Kept'
<1> DEFINE p == job.pier
<1>1. job \in Job /\ job.phase = "imports" /\ Busy /\ UNCHANGED <<exports, imports>>
  BY BusyJob DEF Inv, ImportStores, Busy
<1>2. /\ job'.phase = "imports" /\ job'.pier = p /\ job'.picks = job.picks \ {s}
      /\ job'.agreed = (IF yes THEN job.agreed \cup {s} ELSE job.agreed)
      /\ job'.chosen = job.chosen /\ job'.purge = job.purge /\ job.purge \in BOOLEAN
  BY <1>1 DEF ImportStores, Job
<1>3. /\ Proper(p, s) /\ s \in Service /\ p \in Piers
      /\ Stocked(mem') /\ Stocked(disk')
      /\ \A e \in Homes : e # p => mem'[e] = mem[e] /\ disk'[e] = disk[e]
      /\ lapses \subseteq lapses' /\ untold \subseteq untold'
      /\ \/ /\ mem' = mem
            /\ ~yes \/ (~job.purge /\ s \in Shows(At(imports, p)))
         \/ /\ yes
            /\ lapses' = {} => Edited(mem', mem, Nothing, NoName, p, {s})
  BY StoresContent DEF Kept
<1>4. p \in Homes /\ Own \in Homes /\ p # Own
  BY <1>3, DeskAssumption DEF Homes
<1>5. Imported'
  BY <1>1, <1>2, <1>3 DEF Kept, Imported, Busy
<1>6. Screen'
  BY <1>2 DEF Screen, Idle
<1>7. ASSUME lapses' = {} PROVE Looped(mem', imports', job')
  <2>1. Looped(mem, imports, job)
    BY <1>1, <1>3, <1>7 DEF Kept, Looping
  <2>2. mem'[p] # Absent
    BY <1>3, <1>4, <1>7, <2>1 DEF Looped, Edited
  <2>3. QED
    BY <1>2, <2>2 DEF Looped
<1>8. ASSUME lapses' = {}, untold' = {}, Named(mem', Own, NoName) = {}
      PROVE  Settled(mem', imports', job')
  <2>1. mem'[Own] = mem[Own]
    BY <1>3, <1>4
  <2>2. Settled(mem, imports, job) /\ mem[p] # Absent
    BY <1>1, <1>3, <1>8, <2>1 DEF Kept, Settling, Named, Looping, Looped
  <2>3. mem[p] \in SUBSET Service
    BY <1>4, <2>2 DEF Inv, Solid, Shelves
  <2>4. mem'[p] = IF yes THEN mem[p] \cup {s} ELSE mem[p]
    <3>1. CASE mem' = mem /\ ~yes
      BY <3>1
    <3>2. CASE mem' = mem /\ yes /\ ~job.purge /\ s \in Shows(At(imports, p))
      BY <2>2, <3>2 DEF Settled
    <3>3. CASE yes /\ Edited(mem', mem, Nothing, NoName, p, {s})
      <4>1. mem'[p] # Absent
        BY <1>4, <2>2, <3>3 DEF Edited
      <4>2. mem'[p] \in SUBSET Service
        BY <1>4, <4>1 DEF Inv, Solid, Shelves
      <4>3. \A t \in Service : t \in mem'[p] <=> t \in mem[p] \/ t = s
        BY <1>4, <2>2, <3>3 DEF Edited
      <4>4. QED
        BY <1>3, <2>3, <3>3, <4>2, <4>3
    <3>4. QED
      BY <1>3, <1>8, <3>1, <3>2, <3>3
  <2>5. job.purge => yes \/ mem'[p] = mem[p]
    BY <2>4
  <2>6. Picked(job') = Picked(job) /\ \A t : ~Waits(job, t) /\ ~Waits(job', t)
    BY <1>1, <1>2 DEF Picked, Waits
  <2>7. /\ \A t \in mem'[Own] : p \in t.piers <=> t.name \in Picked(job)
        /\ \A n \in Picked(job) : \E t \in mem'[Own] : t.name = n
    BY <2>1, <2>2, <2>6 DEF Settled
  <2>8. job'.purge => mem'[p] = job'.agreed
    BY <1>1, <1>2, <2>2, <2>4 DEF Settled
  <2>9. ~job'.purge => Shows(At(imports, p)) \subseteq mem'[p] /\ job'.agreed \subseteq mem'[p]
    BY <1>1, <1>2, <2>2, <2>4 DEF Settled
  <2>10. Settled(mem', imports, job')
    BY <1>2, <2>6, <2>7, <2>8, <2>9 DEF Settled
  <2>11. QED
    BY <1>1, <2>10
<1>9. QED
  BY <1>5, <1>6, <1>7, <1>8 DEF Kept, Looping, Settling

-----------------------------------------------------------------------------
(* The invariant.                                                          *)

LEMMA KeptInit ==
  ASSUME NoShelf, Init
  PROVE  Kept
<1>1. \A p \in Piers : disk[p] = Absent
  BY DeskAssumption DEF Init, Homes
<1>2. exports = {} /\ imports = {} /\ mem = disk /\ mem[Own] = {} /\ Idle /\ ~Busy
  BY DEF Init, Idle, Busy, NoJob, Homes
<1>3. Imported
  BY <1>1, <1>2 DEF Imported, Stocked, Shipped
<1>4. \A i : i \notin Exports(mem) /\ i \notin Imports(mem)
  BY <1>1, <1>2, ItemsOf
<1>5. Screen
  BY <1>2, <1>4 DEF Screen
<1>6. QED
  BY <1>2, <1>3, <1>5 DEF Kept, Looping, Settling

LEMMA UserKept ==
  ASSUME NoShelf, Inv, Kept, UserAct
  PROVE  Kept'
<1> DEFINE Starts ==
             \E p \in Piers, c \in Offered :
               \E chosen \in SUBSET Shown(p, c), picks \in Picks(p), purge \in BOOLEAN :
                 ImportStarts(p, c, chosen, picks, purge)
<1>1. CASE Starts
  <2>1. PICK p \in Piers, c \in Offered :
          \E chosen \in SUBSET Shown(p, c), picks \in Picks(p), purge \in BOOLEAN :
            ImportStarts(p, c, chosen, picks, purge)
    BY <1>1
  <2>2. PICK chosen \in SUBSET Shown(p, c), picks \in Picks(p), purge \in BOOLEAN :
          ImportStarts(p, c, chosen, picks, purge)
    BY <2>1
  <2>3. QED
    BY <2>2, StartKept DEF Kept
<1>2. CASE ~Starts
  <2>1. Imported' /\ Screen' /\ ~Busy'
    BY <1>2, ButtonsKept DEF Kept
  <2>2. QED
    BY <2>1 DEF Kept, Looping, Settling
<1>3. QED
  BY <1>1, <1>2

LEMMA RoundKept ==
  ASSUME NoShelf, Inv, Inv', Kept, ImportRound
  PROVE  Kept'
<1>1. CASE \E fate \in Fates : \E it \in exports : ImportGrants(it, fate)
  BY <1>1, GrantsKept
<1>2. CASE \E fate \in Fates : \E it \in imports : ImportPurges(it, fate)
  BY <1>2, PurgesKept
<1>3. CASE \E fate \in Fates : Busy /\ \E s \in job.picks, yes \in BOOLEAN : ImportStores(s, yes, fate)
  BY <1>3, StoresKept
<1>4. CASE ImportEnds
  <2>1. Populate(mem) /\ mem' = mem /\ disk' = disk /\ Idle' /\ ~Busy'
    BY <1>4 DEF ImportEnds, shelves, Idle, Busy, NoJob
  <2>2. QED
    BY <2>1, PopulateKept DEF Kept, Looping, Settling
<1>5. QED
  BY <1>1, <1>2, <1>3, <1>4, Zenon DEF ImportRound

LEMMA KeptNext ==
  ASSUME NoShelf, Inv, Inv', Kept, [Next]_vars
  PROVE  Kept'
<1>1. CASE UserAct
  BY <1>1, UserKept
<1>2. CASE ImportRound /\ UNCHANGED acts
  BY <1>2, RoundKept
<1>3. ASSUME UNCHANGED <<disk, mem, exports, imports, job, lapses, untold>> PROVE Kept'
  <2>1. Imported' /\ Screen'
    BY <1>3, FrameKept DEF Kept
  <2>2. Looping' /\ Settling'
    BY <1>3 DEF Kept, Looping, Settling, Busy
  <2>3. QED
    BY <2>1, <2>2 DEF Kept
<1>4. CASE LoseLink /\ UNCHANGED acts
  BY <1>3, <1>4 DEF LoseLink, shelves
<1>5. CASE \E fresh \in BOOLEAN : Restart(fresh) /\ UNCHANGED acts
  <2>1. ReadAnew(disk, cert) /\ disk' = disk /\ Idle' /\ ~Busy'
    BY <1>5 DEF Restart, Idle, Busy, NoJob
  <2>2. QED
    BY <2>1, AnewKept DEF Kept, Looping, Settling
<1>6. CASE UNCHANGED vars
  BY <1>3, <1>6 DEF vars
<1>7. QED
  BY <1>1, <1>2, <1>4, <1>5, <1>6, Zenon DEF Next

Both == Inv /\ Kept

LEMMA BothInvariant == ASSUME NoShelf PROVE Spec => []Both
<1>1. Init => Both
  BY InvInit, KeptInit DEF Both
<1>2. Both /\ [Next]_vars => Both'
  BY InvNext, KeptNext DEF Both
<1>3. QED
  BY <1>1, <1>2, PTL DEF Spec

\* While nothing went wrong the memory of a pier that is known is its file.
LEMMA ShelfIsFile ==
  ASSUME Inv, lapses = {}
  PROVE  /\ mem = Loaded(disk, cert) /\ mem[Own] = disk[Own]
         /\ \A p \in Piers : mem[p] # Absent => mem[p] = disk[p]
BY DEF Inv, Solid, MemoryTellsDisk, Loaded, Homes

-----------------------------------------------------------------------------
(* Theorems.                                                               *)

(* Between two operations the main window shows the services that are      *)
(* stored, each with the service it came from, until something goes wrong  *)
(* (ServiceImpl::Store and Purge, and Populate of the main window).        *)
THEOREM ScreenIsDisk == ASSUME NoShelf PROVE Spec => []ScreenTellsDisk
<1>1. Both => ScreenTellsDisk
  <2>1. SUFFICES ASSUME Both, Idle, lapses = {}, ~Nameless
                 PROVE  exports = Exports(Loaded(disk, cert)) /\ imports = Imports(Loaded(disk, cert))
    BY DEF ScreenTellsDisk
  <2>2. mem = Loaded(disk, cert) /\ mem[Own] = disk[Own]
    BY <2>1, ShelfIsFile DEF Both
  <2>3. Named(mem, Own, NoName) = {}
    BY <2>1, <2>2 DEF Nameless, Named
  <2>4. exports = Exports(mem) /\ imports = Imports(mem)
    BY <2>1, <2>3 DEF Both, Kept, Screen
  <2>5. QED
    BY <2>2, <2>4
<1>2. QED
  BY <1>1, BothInvariant, PTL

(* A round of an import leaves the files of the other piers as they are,   *)
(* also when it fails, and their rights when it does not.                  *)
THEOREM ImportsTouchOnePier == ASSUME NoShelf PROVE Spec => ImportTouchesOnePier
<1> DEFINE Fine == \A q \in Piers \ {job.pier} :
                     disk'[q] = disk[q] /\ (lapses' = {} => Rights(disk', q) = Rights(disk, q))
<1>1. ASSUME Both, Both', ImportRound, lapses = {} PROVE Fine
  <2>0. /\ Own \notin Piers /\ Own \in Homes /\ \A q \in Piers : q \in Homes
        /\ Inv /\ Inv' /\ Imported /\ Looping
    BY <1>1, DeskAssumption DEF Homes, Both, Kept
  <2>1. ASSUME disk'[Own] = disk[Own], NEW q PROVE Rights(disk', q) = Rights(disk, q)
    BY <2>1 DEF Rights
  <2>2. CASE \E fate \in Fates : \E it \in exports : ImportGrants(it, fate)
    <3>1. PICK fate \in Fates : \E it \in exports : ImportGrants(it, fate)
      BY <2>2
    <3>2. PICK it \in exports : ImportGrants(it, fate)
      BY <3>1
    <3> DEFINE n == Grant(it, job).now
               o == it.origin
               r == Store("export", Grant(it, job), fate)
    <3>3. job \in Job /\ it \in Item /\ Solid
      BY <2>0, <3>2, BusyJob DEF Inv, Tidy, ImportGrants
    <3>4. disk' = r.w.disk
      BY <3>2 DEF ImportGrants, Take
    <3>5. Storing("export", Grant(it, job), r)
      BY <3>3, GrantIs, StoreContent
    <3>6. \A q \in Piers : Spared("export", Grant(it, job), q)
      BY <2>0 DEF Spared, Home
    <3> HIDE DEF r
    <3>7. \A q \in Piers : disk'[q] = disk[q]
      BY <3>4, <3>5, <3>6 DEF Storing
    <3>8. ASSUME lapses' = {}, NEW q \in Piers \ {job.pier}
          PROVE  Rights(disk', q) = Rights(disk, q)
      <4>1. /\ o \in mem[Own] /\ n.name = o.name /\ n \in Service
            /\ \A p \in Piers \ {job.pier} : p \in n.piers <=> p \in o.piers
            /\ \A s \in Service :
                 s \in mem'[Own] <=> (s \in mem[Own] /\ s.name # o.name) \/ s = n
        BY <2>0, <3>2, <3>8, Granted
      <4>2. mem[Own] = disk[Own] /\ mem'[Own] = disk'[Own]
        <5>1. mem[Own] = disk[Own]
          BY <1>1, <2>0, ShelfIsFile
        <5>2. MemoryTellsDisk'
          BY <2>0 DEF Inv, Solid
        <5>3. mem' = Loaded(disk', cert')
          BY <3>8, <5>2 DEF MemoryTellsDisk
        <5>4. QED
          BY <2>0, <5>1, <5>3 DEF Loaded
      <4>3. mem[Own] \in SUBSET Service /\ mem'[Own] \in SUBSET Service
        BY <2>0 DEF Inv, Solid, Shelves
      <4>4. \A s, t \in mem[Own] : s.name = t.name => s = t
        BY <2>0 DEF Inv, Solid, Unique
      <4> HIDE DEF n, o
      <4>5. ASSUME NEW s \in mem'[Own], q \in s.piers
            PROVE  \E t \in mem[Own] : q \in t.piers /\ t.name = s.name
        BY <3>8, <4>1, <4>3, <4>5
      <4>6. ASSUME NEW s \in mem[Own], q \in s.piers
            PROVE  \E t \in mem'[Own] : q \in t.piers /\ t.name = s.name
        <5>1. CASE s.name = o.name
          <6>1. s = o /\ n \in mem'[Own]
            BY <4>1, <4>4, <5>1
          <6>2. QED
            BY <3>8, <4>1, <4>6, <6>1
        <5>2. CASE s.name # o.name
          BY <4>1, <4>3, <4>6, <5>2
        <5>3. QED
          BY <5>1, <5>2
      <4>7. QED
        BY <4>2, <4>5, <4>6 DEF Rights
    <3>9. QED
      BY <3>7, <3>8
  <2>3. CASE \E fate \in Fates : \E it \in imports : ImportPurges(it, fate)
    <3>1. PICK fate \in Fates : \E it \in imports : ImportPurges(it, fate)
      BY <2>3
    <3>2. PICK it \in imports : ImportPurges(it, fate)
      BY <3>1
    <3> DEFINE r == Purged("import", it, fate)
    <3>3. job \in Job /\ it \in Item /\ Solid /\ job.phase = "purge" /\ it \in job.todo
      BY <2>0, <3>2, BusyJob DEF Inv, Tidy, ImportPurges
    <3>4. Looped(mem, imports, job)
      BY <1>1, <2>0, <3>3 DEF Looping, Busy
    <3>5. Home("import", it.origin) = job.pier /\ job.pier \in Piers
      BY <1>1, <2>0, <3>3, <3>4, PurgedItem DEF Job
    <3>6. disk' = disk \/ disk' = r.w.disk
      BY <3>2 DEF ImportPurges, Take
    <3>7. Elsewhere(r.w, Here, job.pier) /\ Here.disk = disk
      BY <3>3, <3>5, PurgedContent DEF Here
    <3> HIDE DEF r
    <3>8. \A d \in Homes : d # job.pier => disk'[d] = disk[d]
      BY <3>6, <3>7 DEF Elsewhere
    <3>9. QED
      BY <2>0, <2>1, <3>5, <3>8
  <2>4. CASE \E fate \in Fates : Busy /\ \E s \in job.picks, yes \in BOOLEAN : ImportStores(s, yes, fate)
    <3>1. PICK fate \in Fates : Busy /\ \E s \in job.picks, yes \in BOOLEAN : ImportStores(s, yes, fate)
      BY <2>4
    <3>2. PICK s \in job.picks, yes \in BOOLEAN : ImportStores(s, yes, fate)
      BY <3>1
    <3>3. job.pier \in Piers /\ \A d \in Homes : d # job.pier => disk'[d] = disk[d]
      BY <2>0, <3>2, StoresContent
    <3>4. QED
      BY <2>0, <2>1, <3>3
  <2>5. CASE ImportEnds
    <3>1. disk' = disk
      BY <2>5 DEF ImportEnds, shelves
    <3>2. QED
      BY <2>1, <3>1
  <2>6. QED
    BY <1>1, <2>2, <2>3, <2>4, <2>5, Zenon DEF ImportRound
<1>2. Both /\ Both' /\ [Next]_vars => [ImportRound /\ lapses = {} => Fine]_vars
  BY <1>1
<1>3. QED
  BY <1>2, BothInvariant, PTL DEF Spec, ImportTouchesOnePier

(* When an import ends and nothing went wrong, the pier has the rights and *)
(* the services that were picked in the exchange dialog                    *)
(* (OnImportMenuSelection), unless an export without a name was stored.    *)
THEOREM ImportsSettle == ASSUME NoShelf PROVE Spec => ImportSettles
<1> DEFINE Fine == /\ Rights(disk, job.pier) = {i.now.name : i \in job.chosen}
                   /\ job.agreed \subseteq disk[job.pier]
                   /\ job.purge => disk[job.pier] = job.agreed
<1>1. ASSUME Both, ImportEnds, lapses = {}, untold = {}, ~Nameless PROVE Fine
  <2>1. Inv /\ Busy /\ job.phase = "imports" /\ job \in Job
    BY <1>1, BusyJob DEF Both, ImportEnds, Busy, Inv
  <2>2. mem[Own] = disk[Own] /\ \A p \in Piers : mem[p] # Absent => mem[p] = disk[p]
    BY <1>1, <2>1, ShelfIsFile
  <2>3. Named(mem, Own, NoName) = {}
    BY <1>1, <2>2 DEF Nameless, Named
  <2>4. Settled(mem, imports, job) /\ mem[job.pier] # Absent
    BY <1>1, <2>1, <2>3 DEF Both, Kept, Settling, Looping, Looped
  <2>5. disk[job.pier] = mem[job.pier] /\ job.purge \in BOOLEAN
    BY <2>1, <2>2, <2>4 DEF Job
  <2>6. /\ \A s \in disk[Own] : job.pier \in s.piers <=> s.name \in Picked(job)
        /\ \A n \in Picked(job) : \E s \in disk[Own] : s.name = n
    BY <2>1, <2>2, <2>4 DEF Settled, Waits
  <2>7. Rights(disk, job.pier) = Picked(job)
    BY <2>6 DEF Rights
  <2>8. job.agreed \subseteq disk[job.pier] /\ (job.purge => disk[job.pier] = job.agreed)
    BY <2>1, <2>4, <2>5 DEF Settled
  <2>9. QED
    BY <2>7, <2>8 DEF Picked
<1>2. Both /\ [Next]_vars => [ImportEnds /\ lapses = {} /\ untold = {} /\ ~Nameless => Fine]_vars
  BY <1>1
<1>3. QED
  BY <1>2, BothInvariant, PTL DEF Spec, ImportSettles

=============================================================================

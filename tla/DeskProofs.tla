----------------------------- MODULE DeskProofs -----------------------------
(***************************************************************************)
(* Theorems about Desk, for any piers, services, offers and bounds.        *)
(*                                                                         *)
(* Del and Add of the context change the memory and the file of one pier   *)
(* alike, under the names they are given, or say that they failed (World,  *)
(* DelRight, AddRight); Store and Purge tell the backend those names       *)
(* (StoreRight, PurgedRight).  That the items' names are the stored ones   *)
(* unless something went wrong (Tidy) is what Purge needs, which tells the *)
(* name on the screen and deletes the one the item came from.              *)
(***************************************************************************)
EXTENDS Desk, TLAPS

\* The value that stands for a missing shelf is no shelf.
NoShelf == Absent \notin SUBSET Service

Unique(shelf) ==
  \A d \in Homes : shelf[d] # Absent => \A s, t \in shelf[d] : s.name = t.name => s = t

(* Files and memory. *)
Solid ==
  /\ disk \in Shelves /\ mem \in Shelves
  /\ Unique(disk) /\ Unique(mem)
  /\ disk[Own] # Absent /\ mem[Own] # Absent
  /\ cert \in [Piers -> {Absent} \cup Certs]
  /\ MemoryTellsDisk

Lapses == {"fault", "clash", "refused", "offline", "draft"}
Gaps == Lapses \cup {"moved", "swap"}

(* The backend. *)
Informed ==
  /\ pool \in [Handles -> SUBSET Service]
  /\ lapses \subseteq Lapses /\ untold \subseteq Gaps
  /\ lapses \subseteq untold
  /\ untold = {} => \A h \in Handles : pool[h] = Configured(h)

(* The items. *)
Tidy ==
  /\ exports \subseteq Item /\ imports \subseteq Item
  /\ lapses = {} =>
       /\ \A i \in imports : i.now = i.origin
       /\ \A i \in exports : i.now.name = i.origin.name

Working == job \in Job \/ job.phase \in {"idle", "dead"}

Inv == Solid /\ Informed /\ Tidy /\ Working /\ linked \in BOOLEAN /\ acts \in 0..MaxActs

-----------------------------------------------------------------------------
(* Operations of the context.                                              *)

Whys == {"done", "fault", "refused", "clash"}

World(w) ==
  /\ w \in [disk : Shelves, mem : Shelves, why : Whys]
  /\ Unique(w.disk) /\ Unique(w.mem)
  /\ w.disk[Own] # Absent /\ w.mem[Own] # Absent
  /\ "fault" \notin lapses /\ w.why # "fault" => w.mem = Loaded(w.disk, cert)

\* Only what pier d has under the names N may differ.
Within(v, w, d, N) ==
  \A e \in Homes, m \in Names \cup {NoName} :
    e # d \/ m \notin N => Named(v.disk, e, m) = Named(w.disk, e, m)

LEMMA NamedType ==
  ASSUME NEW f \in Shelves, NEW d, NEW n
  PROVE  Named(f, d, n) \in SUBSET Service
BY DEF Named, Shelves

(* The file is made what the memory is.                                    *)
LEMMA SaveRight ==
  ASSUME NoShelf, NEW w, World(w), NEW d \in Homes, w.mem[d] # Absent,
         NEW S \in SUBSET Service, \A s, t \in S : s.name = t.name => s = t,
         NEW fails, NEW v, v = Save([w EXCEPT !.mem[d] = S], d, fails)
  PROVE  /\ World(v) /\ v.why \in {w.why, "fault"}
         /\ v.why # "fault" => v.disk = [w.disk EXCEPT ![d] = S]
<1> DEFINE M == [w.mem EXCEPT ![d] = S]
           D == [w.disk EXCEPT ![d] = S]
<1>1. /\ w = [disk |-> w.disk, mem |-> w.mem, why |-> w.why]
      /\ w.disk \in Shelves /\ w.mem \in Shelves /\ w.why \in Whys
  BY DEF World
<1>2. [w EXCEPT !.mem[d] = S] = [disk |-> w.disk, mem |-> M, why |-> w.why]
  BY <1>1
<1>3. M \in Shelves /\ D \in Shelves /\ M[d] = S /\ D[d] = S
      /\ \A e \in Homes : e # d => M[e] = w.mem[e] /\ D[e] = w.disk[e]
  BY <1>1 DEF Shelves
<1>4. Unique(M) /\ Unique(D)
  BY <1>3 DEF World, Unique
<1> HIDE DEF M, D
<1>5. D[Own] # Absent /\ M[Own] # Absent
  BY <1>3 DEF World, NoShelf, Homes
<1>6. CASE fails
  <2>1. v = [disk |-> w.disk, mem |-> M, why |-> "fault"]
    BY <1>2, <1>6 DEF Save
  <2>2. QED
    BY <1>1, <1>3, <1>4, <1>5, <2>1 DEF World, Whys
<1>7. CASE ~fails
  <2>1. v = [disk |-> [w.disk EXCEPT ![d] = M[d]], mem |-> M, why |-> w.why]
    BY <1>2, <1>7 DEF Save
  <2>2. v = [disk |-> D, mem |-> M, why |-> w.why]
    BY <1>3, <2>1 DEF D
  <2>3. w.mem = Loaded(w.disk, cert) => M = Loaded(D, cert)
    BY <1>1, <1>3 DEF Loaded, Shelves
  <2>4. v.disk = D /\ v.mem = M /\ v.why = w.why
    BY <2>2
  <2>5. v \in [disk : Shelves, mem : Shelves, why : Whys]
    BY <1>1, <1>3, <2>2
  <2>6. World(v)
    BY <1>4, <1>5, <2>3, <2>4, <2>5 DEF World
  <2>7. QED
    BY <2>4, <2>6 DEF D
<1>8. QED
  BY <1>6, <1>7

LEMMA DelRight ==
  ASSUME NoShelf, NEW w, World(w), w.why = "done", NEW d, NEW n,
         NEW fails, NEW v, v = Del(w, d, n, fails)
  PROVE  /\ World(v) /\ v.why \in {"done", "fault", "refused"}
         /\ "fault" \notin lapses /\ v.why = "done" => Within(v, w, d, {n})
<1>1. w \in [disk : Shelves, mem : Shelves, why : Whys]
  BY DEF World
<1>2. CASE w.mem[d] = Absent
  <2>1. v = [w EXCEPT !.why = "refused"]
    BY <1>2 DEF Del
  <2>2. v = [disk |-> w.disk, mem |-> w.mem, why |-> "refused"]
    BY <1>1, <2>1
  <2>3. QED
    BY <1>1, <2>2 DEF World, Whys
<1>3. CASE w.mem[d] # Absent /\ Named(w.mem, d, n) = {}
  BY <1>3 DEF Del, Within
<1>4. CASE w.mem[d] # Absent /\ Named(w.mem, d, n) # {}
  <2>0. d \in Homes
    BY <1>4 DEF Named
  <2> DEFINE S == w.mem[d] \ Named(w.mem, d, n)
  <2>1. v = Save([w EXCEPT !.mem[d] = S], d, fails)
    BY <1>4 DEF Del
  <2>2. w.mem[d] \in SUBSET Service
    BY <1>1, <1>4, <2>0 DEF Shelves
  <2>3. S \in SUBSET Service /\ \A s, t \in S : s.name = t.name => s = t
    BY <1>4, <2>0, <2>2 DEF World, Unique
  <2>4. \A s \in Service : s \in S <=> s \in w.mem[d] /\ s.name # n
    BY <1>4, <2>0, <2>2 DEF Named
  <2> HIDE DEF S
  <2>5. /\ World(v) /\ v.why \in {"done", "fault"}
        /\ v.why # "fault" => v.disk = [w.disk EXCEPT ![d] = S]
    <3>1. w.mem[d] # Absent
      BY <1>4
    <3>2. /\ World(v) /\ v.why \in {w.why, "fault"}
          /\ v.why # "fault" => v.disk = [w.disk EXCEPT ![d] = S]
      BY <2>0, <2>1, <2>3, <3>1, SaveRight
    <3>3. QED
      BY <3>2
  <2>6. ASSUME "fault" \notin lapses, v.why = "done" PROVE Within(v, w, d, {n})
    <3>1. w.disk[d] = w.mem[d]
      BY <1>4, <2>0, <2>6 DEF World, Loaded
    <3>2. v.disk[d] = S /\ \A e \in Homes : e # d => v.disk[e] = w.disk[e]
      BY <1>1, <2>0, <2>5, <2>6 DEF Shelves
    <3>3. S # Absent
      BY <2>3 DEF NoShelf
    <3>4. ASSUME NEW m, m # n PROVE Named(v.disk, d, m) = Named(w.disk, d, m)
      BY <1>4, <2>0, <2>2, <2>3, <2>4, <3>1, <3>2, <3>3, <3>4 DEF Named
    <3>5. QED
      BY <3>2, <3>4 DEF Within, Named
  <2>7. QED
    BY <2>5, <2>6
<1>5. QED
  BY <1>2, <1>3, <1>4

LEMMA AddRight ==
  ASSUME NoShelf, NEW w, World(w), w.why = "done", NEW d, NEW s \in Service,
         NEW fails, NEW v, v = Add(w, d, s, fails)
  PROVE  /\ World(v) /\ v.why \in Whys
         /\ "fault" \notin lapses /\ v.why = "done" => Within(v, w, d, {s.name})
<1>1. w \in [disk : Shelves, mem : Shelves, why : Whys]
  BY DEF World
<1>2. ASSUME NEW y \in {"refused", "clash"}, v = [w EXCEPT !.why = y]
      PROVE  World(v) /\ v.why = y
  <2>1. v = [disk |-> w.disk, mem |-> w.mem, why |-> y]
    BY <1>1, <1>2
  <2>2. QED
    BY <1>1, <2>1 DEF World, Whys
<1>3. CASE w.mem[d] = Absent
  BY <1>2, <1>3 DEF Add, Whys
<1>4. CASE w.mem[d] # Absent /\ Named(w.mem, d, s.name) # {}
  BY <1>2, <1>4 DEF Add, Whys
<1>5. CASE d \notin Homes /\ w.mem[d] # Absent
  <2>1. Named(w.mem, d, s.name) = {}
    BY <1>5 DEF Named
  <2>2. w = [disk |-> w.disk, mem |-> w.mem, why |-> w.why]
        /\ w.disk \in Shelves /\ w.mem \in Shelves
    BY <1>1
  <2>3. \A y : [w.mem EXCEPT ![d] = y] = w.mem /\ [w.disk EXCEPT ![d] = y] = w.disk
    BY <1>5, <2>2 DEF Shelves
  <2>4. [w EXCEPT !.mem[d] = w.mem[d] \cup {s}] = w
    BY <2>2, <2>3
  <2>5. v = Save(w, d, fails)
    BY <1>5, <2>1, <2>4 DEF Add
  <2>6. v = [disk |-> w.disk, mem |-> w.mem, why |-> "fault"] \/ v = w
    BY <2>2, <2>3, <2>5 DEF Save
  <2>7. QED
    BY <2>2, <2>6 DEF World, Whys, Within
<1>6. CASE d \in Homes /\ w.mem[d] # Absent /\ Named(w.mem, d, s.name) = {}
  <2> DEFINE S == w.mem[d] \cup {s}
  <2>1. v = Save([w EXCEPT !.mem[d] = S], d, fails)
    BY <1>6 DEF Add
  <2>2. w.mem[d] \in SUBSET Service
    BY <1>1, <1>6 DEF Shelves
  <2>3. \A t \in w.mem[d] : t.name # s.name
    BY <1>6 DEF Named
  <2>4. S \in SUBSET Service /\ \A t, u \in S : t.name = u.name => t = u
    BY <1>6, <2>2, <2>3 DEF World, Unique
  <2>5. \A t \in Service : t \in S <=> t \in w.mem[d] \/ t = s
    OBVIOUS
  <2> HIDE DEF S
  <2>6. /\ World(v) /\ v.why \in {"done", "fault"}
        /\ v.why # "fault" => v.disk = [w.disk EXCEPT ![d] = S]
    BY <1>6, <2>1, <2>4, SaveRight
  <2>7. ASSUME "fault" \notin lapses, v.why = "done" PROVE Within(v, w, d, {s.name})
    <3>1. w.disk[d] = w.mem[d]
      BY <1>6, <2>7 DEF World, Loaded
    <3>2. v.disk[d] = S /\ \A e \in Homes : e # d => v.disk[e] = w.disk[e]
      BY <1>1, <1>6, <2>6, <2>7 DEF Shelves
    <3>3. S # Absent
      BY <2>4 DEF NoShelf
    <3>4. ASSUME NEW m, m # s.name PROVE Named(v.disk, d, m) = Named(w.disk, d, m)
      BY <1>6, <2>2, <2>4, <2>5, <3>1, <3>2, <3>3, <3>4 DEF Named
    <3>5. QED
      BY <3>2, <3>4 DEF Within, Named
  <2>8. QED
    BY <2>6, <2>7 DEF Whys
<1>7. QED
  BY <1>3, <1>4, <1>5, <1>6

-----------------------------------------------------------------------------
(* Operations of the items.                                                *)

LEMMA HereRight ==
  ASSUME Solid
  PROVE  World(Here) /\ Here.disk = disk /\ Here.mem = mem /\ Here.why = "done"
<1>1. Here.disk = disk /\ Here.mem = mem /\ Here.why = "done"
      /\ Here \in [disk : Shelves, mem : Shelves, why : Whys]
  BY DEF Here, Solid, Whys
<1>2. QED
  BY <1>1 DEF Solid, World, MemoryTellsDisk

LEMMA ForgetRight ==
  ASSUME NoShelf, Solid, NEW side, NEW it \in Item, NEW fails, NEW v, v = Forget(side, it, fails)
  PROVE  /\ World(v) /\ v.why \in {"done", "fault", "refused"}
         /\ "fault" \notin lapses /\ v.why = "done" =>
              \/ it.origin.name = NoName /\ v = Here
              \/ Within(v, Here, Home(side, it.origin), {it.origin.name})
<1>1. World(Here) /\ Here.why = "done"
  BY HereRight
<1>2. CASE it.origin.name = NoName
  BY <1>1, <1>2 DEF Forget
<1>3. CASE it.origin.name # NoName
  <2>1. v = Del(Here, Home(side, it.origin), it.origin.name, fails)
    BY <1>3 DEF Forget
  <2>2. QED
    BY <1>1, <2>1, DelRight
<1>4. QED
  BY <1>2, <1>3

(* What the backend is told it then runs; what it isn't stays. *)
LEMMA ToldRight ==
  ASSUME NoShelf, NEW w, World(w), NEW hs, NEW d, NEW N,
         pool \in [Handles -> SUBSET Service],
         disk \in Shelves, linked,
         \A h \in Handles : pool[h] = Configured(h),
         Within(w, Here, d, N),
         \A n \in N : <<d, n>> \in hs
  PROVE  \A h \in Handles :
           Told(w, hs)[h] = IF h[2] = NoName THEN {} ELSE Named(w.disk, h[1], h[2])
<1>1. SUFFICES ASSUME NEW h \in Handles
               PROVE  Told(w, hs)[h] = IF h[2] = NoName THEN {} ELSE Named(w.disk, h[1], h[2])
  OBVIOUS
<1>2. h = <<h[1], h[2]>> /\ h[1] \in Homes /\ h[2] \in Names \cup {NoName}
  BY DEF Handles
<1>3. CASE h \in hs
  BY <1>3 DEF Told
<1>4. CASE h \notin hs
  <2>1. Told(w, hs)[h] = Configured(h)
    BY <1>4 DEF Told
  <2>2. h[1] # d \/ h[2] \notin N
    BY <1>2, <1>4
  <2>3. Named(w.disk, h[1], h[2]) = Named(disk, h[1], h[2])
    BY <1>2, <2>2 DEF Within, Here
  <2>4. QED
    BY <2>1, <2>3 DEF Configured
<1>5. QED
  BY <1>3, <1>4

LEMMA ToldType ==
  ASSUME NEW w, w.disk \in Shelves, NEW hs, pool \in [Handles -> SUBSET Service]
  PROVE  Told(w, hs) \in [Handles -> SUBSET Service]
<1>1. \A h \in Handles : Named(w.disk, h[1], h[2]) \in SUBSET Service
  BY NamedType
<1>2. QED
  BY <1>1 DEF Told

(* The outcome of an operation on an item. *)
Good(r) ==
  /\ World(r.w)
  /\ r.pool \in [Handles -> SUBSET Service]
  /\ r.lapse \subseteq Lapses /\ r.gap \subseteq Gaps /\ r.lapse \subseteq r.gap
  /\ r.w.why = "fault" => "fault" \in r.lapse
  /\ untold = {} /\ r.gap = {} =>
       \A h \in Handles :
         r.pool[h] = IF h[2] = NoName THEN {} ELSE Named(r.w.disk, h[1], h[2])

LEMMA StoreRight ==
  ASSUME NoShelf, Solid, Informed, NEW side, NEW it \in Item, NEW fate,
         NEW r, r = Store(side, it, fate)
  PROVE  /\ Good(r) /\ r.item \in Item
         /\ r.lapse = {} => r.item.now = r.item.origin
<1>1. it.now \in Service /\ it.origin \in Service
      /\ it = [origin |-> it.origin, now |-> it.now]
  BY DEF Item
<1>2. CASE ~Dirty(it)
  <2>1. r = [w |-> Here, item |-> it, pool |-> pool, lapse |-> {}, gap |-> {}]
    BY <1>2 DEF Store
  <2>2. r.w = Here /\ r.item = it /\ r.pool = pool /\ r.lapse = {} /\ r.gap = {}
    BY <2>1
  <2>3. World(Here) /\ Here.disk = disk /\ Here.why = "done"
    BY HereRight
  <2>4. Good(r)
    BY <2>2, <2>3 DEF Good, Informed, Configured
  <2>5. QED
    BY <1>2, <2>2, <2>4 DEF Dirty
<1>3. CASE Dirty(it)
  <2> DEFINE d == Forget(side, it, fate = "del")
             w == IF d.why = "done" THEN Add(d, Home(side, it.now), it.now, fate = "add") ELSE d
             kept == w.why = "done" /\ (linked \/ it.origin.name = it.now.name)
             why == IF w.why # "done" THEN {w.why} ELSE IF linked THEN {} ELSE {"offline"}
             moved == it.origin.name # NoName /\ Home(side, it.origin) # Home(side, it.now)
             item == [it EXCEPT !.origin = IF kept THEN it.now ELSE @]
             p == IF w.why = "done" THEN Told(w, Announced(side, it)) ELSE pool
             gap == why \cup (IF moved THEN {"moved"} ELSE {})
  <2>1. r = [w |-> w, item |-> item, pool |-> p, lapse |-> why, gap |-> gap]
    BY <1>3 DEF Store
  <2>2. r.w = w /\ r.item = item /\ r.pool = p /\ r.lapse = why /\ r.gap = gap
    BY <2>1
  <2>3. /\ World(d) /\ d.why \in {"done", "fault", "refused"}
        /\ "fault" \notin lapses /\ d.why = "done" =>
             \/ it.origin.name = NoName /\ d = Here
             \/ Within(d, Here, Home(side, it.origin), {it.origin.name})
    BY ForgetRight
  <2> HIDE DEF d
  <2>4. /\ World(w) /\ w.why \in Whys
        /\ "fault" \notin lapses /\ w.why = "done" =>
             d.why = "done" /\ Within(w, d, Home(side, it.now), {it.now.name})
    <3>1. CASE d.why = "done"
      BY <1>1, <2>3, <3>1, AddRight
    <3>2. CASE d.why # "done"
      BY <2>3, <3>2 DEF Whys
    <3>3. QED
      BY <3>1, <3>2
  <2> HIDE DEF w
  <2>5. why \subseteq Lapses /\ gap \subseteq Gaps /\ why \subseteq gap
        /\ (w.why = "fault" => "fault" \in why)
    BY <2>4 DEF Whys, Lapses, Gaps
  <2>6. p \in [Handles -> SUBSET Service]
    <3>1. w.disk \in Shelves
      BY <2>4 DEF World
    <3>2. QED
      BY <3>1, ToldType DEF Informed
  <2>7. ASSUME untold = {}, gap = {}, NEW h \in Handles
        PROVE  p[h] = IF h[2] = NoName THEN {} ELSE Named(w.disk, h[1], h[2])
    <3>1. w.why = "done" /\ linked /\ ~moved
      BY <2>7
    <3>2. lapses = {} /\ pool \in [Handles -> SUBSET Service]
          /\ \A g \in Handles : pool[g] = Configured(g)
      BY <2>7 DEF Informed
    <3> DEFINE N == {it.origin.name, it.now.name}
    <3>3. Within(w, d, Home(side, it.now), {it.now.name}) /\ d.why = "done"
      BY <2>4, <3>1, <3>2
    <3>4. d = Here \/ Within(d, Here, Home(side, it.now), {it.origin.name})
      <4>1. CASE it.origin.name = NoName /\ d = Here
        BY <4>1
      <4>2. CASE it.origin.name = NoName /\ Within(d, Here, Home(side, it.origin), {it.origin.name})
        <5>1. d = Here
          BY <4>2 DEF d, Forget
        <5>2. QED
          BY <5>1
      <4>3. CASE it.origin.name # NoName /\ Within(d, Here, Home(side, it.origin), {it.origin.name})
        BY <3>1, <4>3
      <4>4. QED
        BY <2>3, <3>2, <3>3, <4>1, <4>2, <4>3
    <3>5. Within(w, Here, Home(side, it.now), N)
      BY <3>3, <3>4 DEF Within
    <3>6. \A n \in N : <<Home(side, it.now), n>> \in Announced(side, it)
      BY DEF Announced
    <3>7. disk \in Shelves
      BY DEF Solid
    <3> HIDE DEF N
    <3>8. \A g \in Handles : Told(w, Announced(side, it))[g]
                             = IF g[2] = NoName THEN {} ELSE Named(w.disk, g[1], g[2])
      BY <2>4, <3>1, <3>2, <3>5, <3>6, <3>7, ToldRight
    <3>9. QED
      BY <3>1, <3>8
  <2>8. Good(r)
    BY <2>2, <2>4, <2>5, <2>6, <2>7 DEF Good
  <2>9. item = [origin |-> IF kept THEN it.now ELSE it.origin, now |-> it.now]
    BY <1>1
  <2>10. why = {} => kept
    OBVIOUS
  <2>11. QED
    <3>1. item \in Item
      BY <1>1, <2>9 DEF Item
    <3>2. kept => item.now = item.origin
      BY <2>9
    <3>3. QED
      BY <2>2, <2>8, <2>10, <3>1, <3>2
<1>4. QED
  BY <1>2, <1>3

LEMMA PurgedRight ==
  ASSUME NoShelf, Solid, Informed, linked \in BOOLEAN, NEW side, NEW it \in Item, NEW fate,
         lapses = {} => /\ it.now.name = it.origin.name
                        /\ Home(side, it.now) = Home(side, it.origin),
         NEW r, r = Purged(side, it, fate)
  PROVE  /\ World(r.w) /\ r.w.why \in Whys
         /\ r.w.why = "done" => Good(r)
         /\ r.lapse = {}
<1> DEFINE w == Forget(side, it, fate = "del")
           hs == {<<Home(side, it.now), it.now.name>>}
           gap == IF linked THEN {} ELSE {"offline"}
<1>1. r = [w |-> w, pool |-> Told(w, hs), lapse |-> {}, gap |-> gap]
  BY DEF Purged
<1>2. r.w = w /\ r.pool = Told(w, hs) /\ r.lapse = {} /\ r.gap = gap
  BY <1>1
<1>3. /\ World(w) /\ w.why \in {"done", "fault", "refused"}
      /\ "fault" \notin lapses /\ w.why = "done" =>
           \/ it.origin.name = NoName /\ w = Here
           \/ Within(w, Here, Home(side, it.origin), {it.origin.name})
  BY ForgetRight
<1> HIDE DEF w
<1>4. w.disk \in Shelves
  BY <1>3 DEF World
<1>5. Told(w, hs) \in [Handles -> SUBSET Service]
  BY <1>4, ToldType DEF Informed
<1>6. gap \subseteq Gaps
  BY DEF Gaps, Lapses
<1>7. ASSUME w.why = "done", untold = {}, gap = {}, NEW h \in Handles
      PROVE  Told(w, hs)[h] = IF h[2] = NoName THEN {} ELSE Named(w.disk, h[1], h[2])
  <2>1. linked /\ lapses = {} /\ pool \in [Handles -> SUBSET Service]
        /\ \A g \in Handles : pool[g] = Configured(g)
    BY <1>7 DEF Informed
  <2>2. Within(w, Here, Home(side, it.now), {it.now.name})
    BY <1>3, <1>7, <2>1 DEF Within
  <2>3. disk \in Shelves
    BY DEF Solid
  <2>4. \A n \in {it.now.name} : <<Home(side, it.now), n>> \in hs
    OBVIOUS
  <2> HIDE DEF hs
  <2>5. \A g \in Handles : Told(w, hs)[g] = IF g[2] = NoName THEN {} ELSE Named(w.disk, g[1], g[2])
    BY <1>3, <2>1, <2>2, <2>3, <2>4, ToldRight
  <2>6. QED
    BY <2>5
<1>8. QED
  BY <1>2, <1>3, <1>5, <1>6, <1>7 DEF Good, Whys

(* What Take makes of an outcome. *)
LEMMA TakeRight ==
  ASSUME Solid, Informed, NEW r, Good(r), Take(r)
  PROVE  /\ Solid' /\ Informed' /\ lapses' = lapses \cup r.lapse
<1>1. /\ disk' = r.w.disk /\ mem' = r.w.mem /\ pool' = r.pool
      /\ lapses' = lapses \cup r.lapse /\ untold' = untold \cup r.gap /\ cert' = cert
  BY DEF Take
<1>2. World(r.w) /\ r.w.disk \in Shelves /\ r.w.mem \in Shelves
  BY DEF Good, World
<1>3. "fault" \notin lapses' => mem' = Loaded(disk', cert')
  <2>1. ASSUME "fault" \notin lapses' PROVE mem' = Loaded(disk', cert')
    <3>1. "fault" \notin lapses /\ "fault" \notin r.lapse
      BY <1>1, <2>1
    <3>2. r.w.why # "fault"
      BY <3>1 DEF Good
    <3>3. r.w.mem = Loaded(r.w.disk, cert)
      BY <1>2, <3>1, <3>2 DEF World
    <3>4. QED
      BY <1>1, <3>3
  <2>2. QED
    BY <2>1
<1>4. Solid'
  BY <1>1, <1>2, <1>3 DEF World, Solid, MemoryTellsDisk, Unique
<1>5. Informed'
  <2>1. ASSUME untold' = {} PROVE \A h \in Handles : pool'[h] = Configured(h)'
    BY <1>1, <2>1 DEF Good, Configured
  <2>2. lapses' \subseteq Lapses /\ untold' \subseteq Gaps /\ lapses' \subseteq untold'
        /\ pool' \in [Handles -> SUBSET Service]
    BY <1>1 DEF Good, Informed
  <2>3. QED
    BY <2>1, <2>2 DEF Informed
<1>6. QED
  BY <1>1, <1>4, <1>5

-----------------------------------------------------------------------------
(* Frames and screens.                                                     *)

LEMMA SolidFrame ==
  ASSUME Solid, UNCHANGED <<disk, mem, cert>>, "fault" \in lapses => "fault" \in lapses'
  PROVE  Solid'
BY DEF Solid, MemoryTellsDisk, Unique

LEMMA InformedFrame ==
  ASSUME Informed, UNCHANGED <<disk, pool>>,
         lapses' \subseteq Lapses, untold' \subseteq Gaps, lapses' \subseteq untold',
         untold' = {} => untold = {}
  PROVE  Informed'
BY DEF Informed, Configured

LEMMA ServiceItems ==
  ASSUME NEW s \in Service
  PROVE  /\ Clean(s) \in Item /\ Clean(s).now = Clean(s).origin
         /\ Fresh(s) \in Item
<1>1. Nothing \in Service
  BY DEF Nothing, Service, Fields
<1>2. QED
  BY <1>1 DEF Clean, Fresh, Item

LEMMA PopulateRight ==
  ASSUME NEW m \in Shelves, m[Own] # Absent, Populate(m)
  PROVE  Tidy'
<1>1. \A h \in Homes : m[h] # Absent => m[h] \subseteq Service
  BY DEF Shelves
<1>2. \A i \in exports' : i \in Item /\ i.now = i.origin
  <2>1. SUFFICES ASSUME NEW i \in exports' PROVE i \in Item /\ i.now = i.origin
    OBVIOUS
  <2>2. PICK s \in m[Own] : i = Clean(s)
    BY DEF Populate, Exports
  <2>3. s \in Service
    BY <1>1 DEF Homes
  <2>4. QED
    BY <2>2, <2>3, ServiceItems
<1>3. \A i \in imports' : i \in Item /\ i.now = i.origin
  <2>1. SUFFICES ASSUME NEW i \in imports' PROVE i \in Item /\ i.now = i.origin
    OBVIOUS
  <2>2. PICK p \in Piers : m[p] # Absent /\ i \in {Clean(s) : s \in m[p]}
    BY DEF Populate, Imports
  <2>3. PICK s \in m[p] : i = Clean(s)
    BY <2>2
  <2>4. s \in Service
    BY <1>1, <2>2 DEF Homes
  <2>5. QED
    BY <2>3, <2>4, ServiceItems
<1>4. QED
  BY <1>2, <1>3 DEF Tidy

LEMMA ReadAnewRight ==
  ASSUME NoShelf, NEW d \in Shelves, Unique(d), d[Own] # Absent,
         NEW c \in [Piers -> {Absent} \cup Certs],
         ReadAnew(d, c), disk' = d, cert' = c
  PROVE  Solid' /\ Tidy' /\ lapses' = {}
<1>1. Loaded(d, c) \in Shelves /\ Loaded(d, c)[Own] # Absent /\ Unique(Loaded(d, c))
  BY DEF Loaded, Shelves, Homes, Unique
<1>2. mem' = Loaded(d, c) /\ Populate(Loaded(d, c)) /\ lapses' = {}
  BY DEF ReadAnew
<1>3. Tidy'
  BY <1>1, <1>2, PopulateRight
<1>4. MemoryTellsDisk'
  BY <1>2 DEF MemoryTellsDisk
<1>5. Unique(disk)' /\ Unique(mem)'
  BY <1>1, <1>2 DEF Unique
<1>6. QED
  BY <1>1, <1>2, <1>3, <1>4, <1>5 DEF Solid

LEMMA ReplaceRight ==
  ASSUME Tidy, NEW side \in Sides, NEW old, NEW new, Replace(side, old, new),
         new \subseteq Item, lapses \subseteq lapses',
         lapses' = {} => \A i \in new : i.now = i.origin
  PROVE  Tidy'
<1>1. lapses' = {} => lapses = {}
  OBVIOUS
<1>2. CASE side = "export"
  BY <1>1, <1>2 DEF Tidy, Replace
<1>3. CASE side # "export"
  BY <1>1, <1>3 DEF Tidy, Replace
<1>4. QED
  BY <1>2, <1>3

LEMMA TidyFrame ==
  ASSUME Tidy, UNCHANGED <<exports, imports>>, lapses' = {} => lapses = {}
  PROVE  Tidy'
BY DEF Tidy

(* Taking and giving a right changes neither name nor origin. *)
LEMMA RightsRight ==
  ASSUME NEW i \in Item, NEW p \in Piers
  PROVE  /\ Without(i, p) \in Item /\ With(i, p) \in Item
         /\ Without(i, p).origin = i.origin /\ With(i, p).origin = i.origin
         /\ Without(i, p).now.name = i.now.name
<1>1. i.now \in Service /\ i.origin \in Service /\ i = [origin |-> i.origin, now |-> i.now]
  BY DEF Item
<1>2. i.now = [name |-> i.now.name, piers |-> i.now.piers, value |-> i.now.value]
      /\ i.now.name \in Names \cup {NoName} /\ i.now.piers \subseteq Piers /\ i.now.value \in Fields
  BY <1>1 DEF Service
<1>3. ASSUME NEW P \in SUBSET Piers
      PROVE  /\ [i EXCEPT !.now.piers = P] \in Item
             /\ [i EXCEPT !.now.piers = P].origin = i.origin
             /\ [i EXCEPT !.now.piers = P].now.name = i.now.name
  <2>1. [i EXCEPT !.now.piers = P]
          = [origin |-> i.origin, now |-> [name |-> i.now.name, piers |-> P, value |-> i.now.value]]
    BY <1>1, <1>2
  <2>2. [name |-> i.now.name, piers |-> P, value |-> i.now.value] \in Service
    BY <1>2 DEF Service
  <2>3. QED
    BY <1>1, <2>1, <2>2 DEF Item
<1>4. Without(i, p) = [i EXCEPT !.now.piers = i.now.piers \ {p}]
      /\ With(i, p) = [i EXCEPT !.now.piers = i.now.piers \cup {p}]
  BY DEF Without, With
<1>5. i.now.piers \ {p} \in SUBSET Piers /\ i.now.piers \cup {p} \in SUBSET Piers
  BY <1>2
<1>6. QED
  BY <1>3, <1>4, <1>5

LEMMA ShownRight ==
  ASSUME Tidy, NEW p \in Piers, NEW c, NEW i \in Shown(p, c)
  PROVE  i \in Item /\ (lapses = {} => i.now.name = i.origin.name)
<1>1. CASE Swap(p, c)
  <2>1. PICK k \in exports : i = Without(k, p)
    BY <1>1 DEF Shown
  <2>2. k \in Item /\ (lapses = {} => k.now.name = k.origin.name)
    BY DEF Tidy
  <2>3. QED
    BY <2>1, <2>2, RightsRight
<1>2. CASE ~Swap(p, c)
  BY <1>2 DEF Shown, Tidy
<1>3. QED
  BY <1>1, <1>2

LEMMA ThenRight ==
  ASSUME Tidy, NEW j \in Job
  PROVE  Then(j) \in Job
<1>1. OfPier(j.pier) \subseteq Item
  BY DEF OfPier, Tidy
<1>2. \A T \in SUBSET Item : [j EXCEPT !.phase = "purge", !.todo = T] \in Job
  BY DEF Job
<1>3. [j EXCEPT !.phase = "imports"] \in Job
  BY DEF Job
<1>4. QED
  BY <1>1, <1>2, <1>3 DEF Then

-----------------------------------------------------------------------------
(* Actions.                                                                *)

LEMMA DraftsType ==
  ASSUME NEW side, NEW s \in Drafts(side)
  PROVE  s \in Service
BY DEF Drafts, Known, Service, Fields

LEMMA ItemsType ==
  ASSUME Tidy, NEW side, NEW it \in Items(side)
  PROVE  it \in Item
BY DEF Items, Tidy

(* The parts of the invariant that the buttons may disturb. *)
Parts == Solid /\ Informed /\ Tidy /\ linked \in BOOLEAN

LEMMA AddServiceRight ==
  ASSUME NoShelf, Parts, NEW side \in Sides, NEW s \in Drafts(side), NEW fate,
         AddService(side, s, fate)
  PROVE  Parts'
<1> DEFINE r == Store(side, Fresh(s), fate)
<1>1. Take(r) /\ Replace(side, {}, {r.item}) /\ linked' = linked
  BY DEF AddService, Take
<1>2. Fresh(s) \in Item
  BY DraftsType, ServiceItems
<1>3. Good(r) /\ r.item \in Item /\ (r.lapse = {} => r.item.now = r.item.origin)
  BY <1>2, StoreRight DEF Parts
<1> HIDE DEF r
<1>4. Solid' /\ Informed' /\ lapses' = lapses \cup r.lapse
  BY <1>1, <1>3, TakeRight DEF Parts
<1>5. Tidy'
  BY <1>1, <1>3, <1>4, ReplaceRight DEF Parts
<1>6. QED
  BY <1>1, <1>4, <1>5 DEF Parts

LEMMA EditServiceRight ==
  ASSUME NoShelf, Parts, NEW side \in Sides, NEW it \in Items(side), NEW s \in Drafts(side),
         NEW fate, EditService(side, it, s, fate)
  PROVE  Parts'
<1> DEFINE r == Store(side, [it EXCEPT !.now = s], fate)
<1>1. Take(r) /\ Replace(side, {it}, {r.item}) /\ linked' = linked
  BY DEF EditService, Take
<1>2. it \in Item /\ s \in Service
  BY ItemsType, DraftsType DEF Parts
<1>3. [it EXCEPT !.now = s] \in Item
  BY <1>2 DEF Item
<1>4. Good(r) /\ r.item \in Item /\ (r.lapse = {} => r.item.now = r.item.origin)
  BY <1>3, StoreRight DEF Parts
<1> HIDE DEF r
<1>5. Solid' /\ Informed' /\ lapses' = lapses \cup r.lapse
  BY <1>1, <1>4, TakeRight DEF Parts
<1>6. Tidy'
  BY <1>1, <1>4, <1>5, ReplaceRight DEF Parts
<1>7. QED
  BY <1>1, <1>5, <1>6 DEF Parts

LEMMA EditRefusedRight ==
  ASSUME Parts, NEW side \in Sides, NEW it \in Items(side), NEW s \in Drafts(side),
         EditRefused(side, it, s)
  PROVE  Parts'
<1>1. /\ Replace(side, {it}, {[it EXCEPT !.now = s]})
      /\ lapses' = lapses \cup {"draft"} /\ untold' = untold \cup {"draft"}
      /\ UNCHANGED <<disk, mem, cert, pool, linked>>
  BY DEF EditRefused, shelves
<1>2. it \in Item /\ s \in Service
  BY ItemsType, DraftsType DEF Parts
<1>3. [it EXCEPT !.now = s] \in Item
  BY <1>2 DEF Item
<1>4. Tidy'
  BY <1>1, <1>3, ReplaceRight DEF Parts
<1>5. Solid'
  BY <1>1, SolidFrame DEF Parts
<1>6. lapses' \subseteq Lapses /\ untold' \subseteq Gaps /\ lapses' \subseteq untold'
  BY <1>1 DEF Parts, Informed, Lapses, Gaps
<1>7. Informed'
  BY <1>1, <1>6, InformedFrame DEF Parts
<1>8. QED
  BY <1>1, <1>4, <1>5, <1>7 DEF Parts

(* What is deleted is the service the item came from, and while nothing    *)
(* went wrong it is the one the backend is told of.                        *)
LEMMA SameHandle ==
  ASSUME Tidy, NEW side \in Sides, NEW it \in Items(side), lapses = {}
  PROVE  /\ it.now.name = it.origin.name
         /\ Home(side, it.now) = Home(side, it.origin)
<1>1. CASE side = "export"
  BY <1>1 DEF Items, Tidy, Home
<1>2. CASE side # "export"
  BY <1>2 DEF Items, Tidy, Home
<1>3. QED
  BY <1>1, <1>2

(* An operation that failed counts as a fault. *)
LEMMA FailedGood ==
  ASSUME Informed, NEW r, World(r.w), NEW q,
         q = [r EXCEPT !.pool = pool, !.lapse = {"fault"}, !.gap = {"fault"}],
         r = [w |-> r.w, pool |-> r.pool, lapse |-> r.lapse, gap |-> r.gap]
  PROVE  Good(q) /\ q.lapse = {"fault"}
<1>1. q = [w |-> r.w, pool |-> pool, lapse |-> {"fault"}, gap |-> {"fault"}]
  BY Zenon
<1>2. q.w = r.w /\ q.pool = pool /\ q.lapse = {"fault"} /\ q.gap = {"fault"}
  BY <1>1
<1>3. QED
  BY <1>2 DEF Good, Lapses, Gaps, Informed

LEMMA DeleteServiceRight ==
  ASSUME NoShelf, Parts, NEW side \in Sides, NEW it \in Items(side), NEW fate,
         DeleteService(side, it, fate)
  PROVE  Parts'
<1> DEFINE r == Purged(side, it, fate)
           q == [r EXCEPT !.pool = pool, !.lapse = {"fault"}, !.gap = {"fault"}]
<1>1. it \in Item
  BY ItemsType DEF Parts
<1>2. /\ World(r.w) /\ r.w.why \in Whys
      /\ r.w.why = "done" => Good(r)
      /\ r.lapse = {}
  BY <1>1, SameHandle, PurgedRight DEF Parts
<1>3. r = [w |-> r.w, pool |-> r.pool, lapse |-> r.lapse, gap |-> r.gap]
  BY DEF Purged
<1>4. CASE r.w.why = "done"
  <2>1. Take(r) /\ Replace(side, {it}, {}) /\ linked' = linked
    BY <1>4 DEF DeleteService, Take
  <2> HIDE DEF r
  <2>2. Solid' /\ Informed' /\ lapses' = lapses \cup r.lapse
    BY <1>2, <1>4, <2>1, TakeRight DEF Parts
  <2>3. Tidy'
    BY <2>1, <2>2, ReplaceRight DEF Parts
  <2>4. QED
    BY <2>1, <2>2, <2>3 DEF Parts
<1>5. CASE r.w.why # "done"
  <2>1. Take(q) /\ UNCHANGED <<exports, imports>> /\ linked' = linked
    BY <1>5 DEF DeleteService, Take
  <2> HIDE DEF r
  <2>2. Good(q) /\ q.lapse = {"fault"}
    BY <1>2, <1>3, FailedGood DEF Parts
  <2> HIDE DEF q
  <2>3. Solid' /\ Informed' /\ lapses' = lapses \cup q.lapse
    BY <2>1, <2>2, TakeRight DEF Parts
  <2>4. Tidy'
    BY <2>1, <2>3, TidyFrame DEF Parts
  <2>5. QED
    BY <2>1, <2>3, <2>4 DEF Parts
<1>6. QED
  BY <1>4, <1>5

LEMMA RadioRight ==
  ASSUME Parts, Populate(mem), lapses' = lapses \cap {"fault"},
         UNCHANGED <<shelves, linked, untold>>
  PROVE  Parts'
<1>1. Tidy'
  BY PopulateRight DEF Parts, Solid
<1>2. Solid'
  BY SolidFrame DEF Parts, shelves
<1>3. lapses' \subseteq Lapses /\ lapses' \subseteq untold' /\ untold' \subseteq Gaps
  BY DEF Parts, Informed
<1>4. Informed'
  BY <1>3, InformedFrame DEF Parts, shelves
<1>5. QED
  BY <1>1, <1>2, <1>4 DEF Parts

(* The files are read anew, and no pier comes or goes. *)
LEMMA AnewRight ==
  ASSUME NoShelf, Parts, ReadAnew(disk, cert), UNCHANGED <<disk, cert, pool>>,
         untold \subseteq untold', untold' \subseteq Gaps, linked' \in BOOLEAN
  PROVE  Parts'
<1>1. Solid' /\ Tidy' /\ lapses' = {}
  BY ReadAnewRight DEF Parts, Solid
<1>2. Informed'
  BY <1>1, InformedFrame DEF Parts
<1>3. QED
  BY <1>1, <1>2 DEF Parts

(* The backend reads everything. *)
LEMMA AllTold ==
  ASSUME Parts, UNCHANGED disk, pool' = [h \in Handles |-> Configured(h)],
         lapses' \subseteq Lapses, untold' = lapses'
  PROVE  Informed'
<1>1. \A h \in Handles : Configured(h) \in SUBSET Service
  BY NamedType DEF Configured, Parts, Solid
<1>2. \A h \in Handles : pool'[h] = Configured(h)'
  BY DEF Configured
<1>3. QED
  BY <1>1, <1>2 DEF Informed, Gaps

LEMMA SettingsRight ==
  ASSUME NoShelf, Parts, Settings
  PROVE  Parts'
<1>1. UNCHANGED <<disk, cert, linked>>
  BY DEF Settings
<1>2. CASE linked
  <2>1. /\ pool' = [h \in Handles |-> Configured(h)] /\ untold' = lapses
        /\ UNCHANGED <<mem, exports, imports, lapses>>
    BY <1>2 DEF Settings
  <2>2. Solid' /\ Tidy'
    BY <1>1, <2>1, SolidFrame, TidyFrame DEF Parts
  <2>3. Informed'
    BY <1>1, <2>1, AllTold DEF Parts, Informed
  <2>4. QED
    BY <1>1, <2>2, <2>3 DEF Parts
<1>3. CASE ~linked
  <2>1. ReadAnew(disk, cert) /\ UNCHANGED <<pool, untold>>
    BY <1>3 DEF Settings
  <2>2. untold' \subseteq Gaps /\ untold \subseteq untold' /\ linked' \in BOOLEAN
    BY <1>1, <2>1 DEF Parts, Informed
  <2>3. QED
    BY <1>1, <2>1, <2>2, AnewRight
<1>4. QED
  BY <1>2, <1>3

LEMMA RestartRight ==
  ASSUME NoShelf, Parts, NEW fresh, Restart(fresh)
  PROVE  Parts'
<1>1. ReadAnew(disk, cert) /\ UNCHANGED <<disk, cert>> /\ linked' = TRUE
  BY DEF Restart
<1>2. CASE fresh
  <2>1. pool' = [h \in Handles |-> Configured(h)] /\ untold' = {}
    BY <1>2 DEF Restart
  <2>2. Solid' /\ Tidy' /\ lapses' = {}
    BY <1>1, ReadAnewRight DEF Parts, Solid
  <2>3. Informed'
    BY <1>1, <2>1, <2>2, AllTold
  <2>4. QED
    BY <1>1, <2>2, <2>3 DEF Parts
<1>3. CASE ~fresh
  <2>1. UNCHANGED <<pool, untold>>
    BY <1>3 DEF Restart
  <2>2. untold' \subseteq Gaps /\ untold \subseteq untold'
    BY <2>1 DEF Parts, Informed
  <2>3. QED
    BY <1>1, <2>1, <2>2, AnewRight
<1>4. QED
  BY <1>2, <1>3

-----------------------------------------------------------------------------
(* The import.                                                             *)

LEMMA ImportCancelledRight ==
  ASSUME Parts, NEW p \in Piers, NEW c, ImportCancelled(p, c)
  PROVE  Parts'
<1>1. /\ exports' = Shown(p, c) /\ imports' = imports
      /\ lapses' = lapses \cup {"draft"} /\ untold' = untold \cup {"draft"}
      /\ UNCHANGED <<disk, mem, cert, pool, linked>>
  BY DEF ImportCancelled, shelves
<1>2. Tidy'
  BY <1>1, ShownRight DEF Parts, Tidy
<1>3. Solid'
  BY <1>1, SolidFrame DEF Parts
<1>4. lapses' \subseteq Lapses /\ untold' \subseteq Gaps /\ lapses' \subseteq untold'
  BY <1>1 DEF Parts, Informed, Lapses, Gaps
<1>5. Informed'
  BY <1>1, <1>4, InformedFrame DEF Parts
<1>6. QED
  BY <1>1, <1>2, <1>3, <1>5 DEF Parts

(* A directory that is new holds no services. *)
LEMMA ShelfMade ==
  ASSUME NoShelf, Parts, NEW p \in Piers
  PROVE  LET D == [disk EXCEPT ![p] = {}]
         IN  /\ D \in Shelves /\ Unique(D) /\ D[Own] # Absent
             /\ disk[p] = Absent =>
                  \A d \in Homes, n \in Names \cup {NoName} : Named(D, d, n) = Named(disk, d, n)
<1> DEFINE D == [disk EXCEPT ![p] = {}]
<1>1. p \in Homes /\ p # Own /\ {} # Absent
  BY DeskAssumption DEF Homes, NoShelf
<1>2. D[p] = {} /\ \A e \in Homes : e # p => D[e] = disk[e]
  BY <1>1 DEF Parts, Solid, Shelves
<1>3. D \in Shelves
  BY <1>1 DEF Parts, Solid, Shelves
<1> HIDE DEF D
<1>4. Unique(D) /\ D[Own] # Absent
  BY <1>1, <1>2 DEF Parts, Solid, Unique, Homes
<1>5. ASSUME disk[p] = Absent, NEW d \in Homes, NEW n
      PROVE  Named(D, d, n) = Named(disk, d, n)
  BY <1>1, <1>2, <1>5 DEF Named
<1>6. QED
  BY <1>3, <1>4, <1>5 DEF D

LEMMA ImportStartsRight ==
  ASSUME NoShelf, Parts, Working, NEW p \in Piers, NEW c \in Offered, NEW chosen, NEW picks,
         NEW purge \in BOOLEAN, ImportStarts(p, c, chosen, picks, purge)
  PROVE  Parts' /\ Working'
<1> DEFINE new == Swap(p, c) \/ p \notin Known
           j == [phase |-> "exports", pier |-> p, todo |-> Shown(p, c), chosen |-> chosen,
                 picks |-> picks, agreed |-> {}, purge |-> purge, swap |-> Swap(p, c)]
           D == [disk EXCEPT ![p] = {}]
<1>1. /\ disk' = (IF new THEN D ELSE disk)
      /\ cert' = (IF new THEN [cert EXCEPT ![p] = IF c \in Spoilt THEN Absent ELSE c] ELSE cert)
      /\ untold' = IF Swap(p, c) THEN untold \cup {"swap"} ELSE untold
      /\ (p \notin Known => disk[p] = Absent)
      /\ UNCHANGED <<pool, linked>>
      /\ chosen \subseteq Shown(p, c) /\ picks \in Picks(p)
  BY DEF ImportStarts
<1>2. disk' \in Shelves /\ Unique(disk') /\ disk'[Own] # Absent
  BY <1>1, ShelfMade DEF Parts, Solid
<1>3. cert' \in [Piers -> {Absent} \cup Certs]
  BY <1>1, DeskAssumption DEF Parts, Solid
<1>4. lapses' \subseteq lapses /\ lapses' \subseteq untold' /\ untold' \subseteq Gaps
  BY <1>1 DEF ImportStarts, ReadAnew, Parts, Informed, Gaps
<1>5. Informed'
  <2>1. ASSUME untold' = {}, NEW h \in Handles PROVE pool'[h] = Configured(h)'
    <3>1. ~Swap(p, c) /\ untold = {}
      BY <1>1, <2>1
    <3>2. pool[h] = Configured(h)
      BY <3>1 DEF Parts, Informed
    <3>3. h[1] \in Homes /\ h[2] \in Names \cup {NoName}
      BY DEF Handles
    <3>4. Named(disk', h[1], h[2]) = Named(disk, h[1], h[2])
      BY <1>1, <3>1, <3>3, ShelfMade
    <3>5. QED
      BY <1>1, <3>2, <3>4 DEF Configured
  <2>2. lapses' \subseteq Lapses
    BY <1>4 DEF Parts, Informed
  <2>3. QED
    BY <1>1, <1>4, <2>1, <2>2 DEF Parts, Informed
<1>6. CASE new /\ c \in Spoilt
  <2>1. ReadAnew(disk', cert') /\ job' = job
    BY <1>6 DEF ImportStarts
  <2>2. Solid' /\ Tidy'
    BY <1>2, <1>3, <2>1, ReadAnewRight
  <2>3. QED
    BY <1>1, <1>5, <2>1, <2>2 DEF Parts, Working
<1>7. CASE ~(new /\ c \in Spoilt)
  <2>1. /\ mem' = (IF new THEN [mem EXCEPT ![p] = {}] ELSE mem)
        /\ exports' = Shown(p, c) /\ imports' = imports /\ lapses' = lapses
        /\ job' = Then(j)
    BY <1>7 DEF ImportStarts
  <2>2. Tidy'
    BY <2>1, ShownRight DEF Parts, Tidy
  <2>3. p \in Homes /\ p # Own /\ {} # Absent /\ Absent \notin Certs /\ c \in Certs
    BY DeskAssumption DEF Homes, NoShelf
  <2>4. mem' \in Shelves /\ Unique(mem') /\ mem'[Own] # Absent
    BY <2>1, <2>3 DEF Parts, Solid, Shelves, Unique, Homes
  <2>5. MemoryTellsDisk'
    <3>1. SUFFICES ASSUME "fault" \notin lapses PROVE mem' = Loaded(disk', cert')
      BY <2>1 DEF MemoryTellsDisk
    <3>2. mem = Loaded(disk, cert)
      BY <3>1 DEF Parts, Solid, MemoryTellsDisk
    <3>3. CASE ~new
      BY <1>1, <2>1, <3>2, <3>3
    <3>4. CASE new
      <4>1. /\ mem' = [mem EXCEPT ![p] = {}] /\ disk' = D
            /\ cert' = [cert EXCEPT ![p] = c]
        BY <1>1, <1>7, <2>1, <3>4
      <4>2. cert'[p] # Absent /\ \A q \in Piers : q # p => cert'[q] = cert[q]
        BY <2>3, <4>1 DEF Parts, Solid
      <4>3. disk'[p] = {} /\ \A d \in Homes : d # p => disk'[d] = disk[d]
        BY <2>3, <4>1 DEF Parts, Solid, Shelves
      <4>4. mem'[p] = {} /\ \A d \in Homes : d # p => mem'[d] = mem[d]
        BY <2>3, <4>1 DEF Parts, Solid, Shelves
      <4>5. ASSUME NEW d \in Homes
            PROVE  mem'[d] = IF d = Own \/ cert'[d] # Absent THEN disk'[d] ELSE Absent
        <5>1. CASE d = p
          BY <4>2, <4>3, <4>4, <5>1
        <5>2. CASE d # p
          <6>1. mem[d] = IF d = Own \/ cert[d] # Absent THEN disk[d] ELSE Absent
            BY <3>2 DEF Loaded
          <6>2. d = Own \/ cert'[d] = cert[d]
            BY <4>2, <5>2 DEF Homes
          <6>3. QED
            BY <4>3, <4>4, <5>2, <6>1, <6>2
        <5>3. QED
          BY <5>1, <5>2
      <4>6. mem' \in Shelves
        BY <2>4
      <4>7. QED
        BY <4>5, <4>6 DEF Loaded, Shelves
    <3>5. QED
      BY <3>3, <3>4
  <2>6. Solid'
    BY <1>2, <1>3, <2>4, <2>5 DEF Solid, Unique
  <2>7. j \in Job
    <3>1. Shown(p, c) \in SUBSET Item
      BY ShownRight DEF Parts
    <3>2. picks \in SUBSET Service
      BY <1>1 DEF Picks, Service, Fields
    <3>3. Swap(p, c) \in BOOLEAN /\ chosen \in SUBSET Item
      BY <1>1, <3>1 DEF Swap
    <3>4. QED
      BY <3>1, <3>2, <3>3 DEF Job
  <2>8. job' \in Job
    BY <2>1, <2>7, ThenRight DEF Parts
  <2>9. QED
    BY <1>1, <1>5, <2>2, <2>6, <2>8 DEF Parts, Working
<1>8. QED
  BY <1>6, <1>7

LEMMA BusyJob ==
  ASSUME Working, job.phase \in {"exports", "purge", "imports"}
  PROVE  job \in Job
BY DEF Working

LEMMA ImportGrantsRight ==
  ASSUME NoShelf, Parts, Working, NEW it, NEW fate, ImportGrants(it, fate)
  PROVE  Parts' /\ Working'
<1>1. job \in Job /\ job.pier \in Piers /\ it \in Item
  BY BusyJob DEF ImportGrants, Job
<1> DEFINE r == Store("export", Grant(it, job), fate)
<1>2. /\ Take(r) /\ exports' = (exports \ {it}) \cup {r.item} /\ imports' = imports
      /\ job' = Then([job EXCEPT !.todo = @ \ {it}]) /\ linked' = linked
  BY DEF ImportGrants, Take
<1>3. Grant(it, job) \in Item
  BY <1>1, RightsRight DEF Grant
<1>4. Good(r) /\ r.item \in Item /\ (r.lapse = {} => r.item.now = r.item.origin)
  BY <1>3, StoreRight DEF Parts
<1> HIDE DEF r
<1>5. Solid' /\ Informed' /\ lapses' = lapses \cup r.lapse
  BY <1>2, <1>4, TakeRight DEF Parts
<1>6. Tidy'
  BY <1>2, <1>4, <1>5 DEF Parts, Tidy
<1>7. [job EXCEPT !.todo = @ \ {it}] \in Job
  BY <1>1 DEF Job
<1>8. job' \in Job
  BY <1>2, <1>7, ThenRight DEF Parts
<1>9. QED
  BY <1>2, <1>5, <1>6, <1>8 DEF Parts, Working

LEMMA ImportPurgesRight ==
  ASSUME NoShelf, Parts, Working, NEW it \in imports, NEW fate, ImportPurges(it, fate)
  PROVE  Parts' /\ Working'
<1> DEFINE r == Purged("import", it, fate)
<1>1. job \in Job
  BY BusyJob DEF ImportPurges
<1>2. it \in Item /\ (lapses = {} => it.now = it.origin)
  BY DEF Parts, Tidy
<1>3. /\ r.w.why = "done" => Good(r)
      /\ r.lapse = {}
  BY <1>2, PurgedRight DEF Parts
<1>4. CASE r.w.why = "done"
  <2>1. /\ Take(r) /\ UNCHANGED <<exports, imports>> /\ linked' = linked
        /\ job' = Then([job EXCEPT !.todo = @ \ {it}])
    BY <1>4 DEF ImportPurges, Take
  <2> HIDE DEF r
  <2>2. Solid' /\ Informed' /\ lapses' = lapses \cup r.lapse
    BY <1>3, <1>4, <2>1, TakeRight DEF Parts
  <2>3. Tidy'
    BY <2>1, <2>2, TidyFrame DEF Parts
  <2>4. [job EXCEPT !.todo = @ \ {it}] \in Job
    BY <1>1 DEF Job
  <2>5. job' \in Job
    BY <2>1, <2>4, ThenRight DEF Parts
  <2>6. QED
    BY <2>1, <2>2, <2>3, <2>5 DEF Parts, Working
<1>5. CASE r.w.why # "done"
  <2>1. /\ ReadAnew(disk, cert) /\ job' = NoJob /\ untold' = untold \cup {"fault"}
        /\ UNCHANGED <<disk, cert, pool, linked>>
    BY <1>5 DEF ImportPurges
  <2>2. untold' \subseteq Gaps /\ untold \subseteq untold' /\ linked' \in BOOLEAN
    BY <2>1 DEF Parts, Informed, Gaps, Lapses
  <2>3. Parts'
    BY <2>1, <2>2, AnewRight
  <2>4. QED
    BY <2>1, <2>3 DEF Working, NoJob
<1>6. QED
  BY <1>4, <1>5

LEMMA ImportStoresRight ==
  ASSUME NoShelf, Parts, Working, NEW s, NEW yes \in BOOLEAN, NEW fate,
         ImportStores(s, yes, fate)
  PROVE  Parts' /\ Working'
<1> DEFINE r == Store("import", Fresh(s), fate)
<1>1. job \in Job /\ s \in Service
  BY BusyJob DEF ImportStores, Job
<1>2. /\ UNCHANGED <<exports, imports>>
      /\ job' = [job EXCEPT !.picks = @ \ {s}, !.agreed = IF yes THEN @ \cup {s} ELSE @]
      /\ Take(r) \/ UNCHANGED <<shelves, linked, lapses, untold>>
  BY DEF ImportStores
<1>3. Good(r)
  BY <1>1, ServiceItems, StoreRight DEF Parts
<1>4. job' \in Job
  BY <1>1, <1>2 DEF Job
<1> HIDE DEF r
<1>5. CASE Take(r)
  <2>1. Solid' /\ Informed' /\ lapses' = lapses \cup r.lapse /\ linked' = linked
    BY <1>3, <1>5, TakeRight DEF Parts, Take
  <2>2. Tidy'
    BY <1>2, <2>1, TidyFrame DEF Parts
  <2>3. QED
    BY <1>4, <2>1, <2>2 DEF Parts, Working
<1>6. CASE UNCHANGED <<shelves, linked, lapses, untold>>
  <2>1. Solid' /\ Tidy'
    BY <1>2, <1>6, SolidFrame, TidyFrame DEF Parts, shelves
  <2>2. Informed'
    BY <1>6, InformedFrame DEF Parts, Informed, shelves
  <2>3. QED
    BY <1>4, <1>6, <2>1, <2>2 DEF Parts, Working
<1>7. QED
  BY <1>2, <1>5, <1>6

LEMMA OfferFailsRight ==
  ASSUME Parts, OfferFails
  PROVE  Parts'
<1>1. /\ exports' = {Clean(i.origin) : i \in exports} /\ imports' = imports
      /\ UNCHANGED <<disk, mem, cert, pool, linked, lapses, untold>>
  BY DEF OfferFails, shelves
<1>2. \A i \in exports' : i \in Item /\ i.now = i.origin
  BY <1>1, ServiceItems DEF Parts, Tidy, Item
<1>3. Tidy'
  BY <1>1, <1>2 DEF Parts, Tidy
<1>4. Solid' /\ Informed'
  BY <1>1, SolidFrame, InformedFrame DEF Parts, Informed
<1>5. QED
  BY <1>1, <1>3, <1>4 DEF Parts

-----------------------------------------------------------------------------
(* The invariant.                                                          *)

LEMMA InvInit ==
  ASSUME NoShelf, Init
  PROVE  Inv
<1>1. disk \in Shelves /\ Unique(disk) /\ disk[Own] # Absent
  BY DEF Init, Shelves, Unique, Homes, NoShelf
<1>2. mem = Loaded(disk, cert)
  BY DEF Init, Loaded
<1>3. Solid
  BY <1>1, <1>2 DEF Init, Solid, MemoryTellsDisk
<1>4. \A h \in Handles : Configured(h) = {}
  BY DEF Init, Configured, Named, Homes
<1>5. Informed
  BY <1>4 DEF Init, Informed
<1>6. Tidy /\ Working
  BY DEF Init, Tidy, Working, NoJob
<1>7. linked \in BOOLEAN /\ acts \in 0..MaxActs
  BY DeskAssumption DEF Init
<1>8. QED
  BY <1>3, <1>5, <1>6, <1>7 DEF Inv

LEMMA UserActRight ==
  ASSUME NoShelf, Inv, UserAct
  PROVE  Inv'
<1>1. acts' \in 0..MaxActs
  BY DeskAssumption DEF UserAct, Inv
<1>2. Parts /\ Working
  BY DEF Inv, Parts
<1>3. ASSUME Parts', Working' PROVE Inv'
  BY <1>1, <1>3 DEF Inv, Parts
<1>4. ASSUME Parts', job' = job PROVE Inv'
  BY <1>2, <1>3, <1>4 DEF Working
<1>5. CASE \E side \in Sides, fate \in Fates : \E s \in Drafts(side) : AddService(side, s, fate)
  <2>1. PICK side \in Sides, fate \in Fates : \E s \in Drafts(side) : AddService(side, s, fate)
    BY <1>5
  <2>2. PICK s \in Drafts(side) : AddService(side, s, fate)
    BY <2>1
  <2>3. QED
    BY <1>2, <1>4, <2>2, AddServiceRight DEF AddService
<1>6. CASE \E side \in Sides, fate \in Fates : \E it \in Items(side) : DeleteService(side, it, fate)
  <2>1. PICK side \in Sides, fate \in Fates : \E it \in Items(side) : DeleteService(side, it, fate)
    BY <1>6
  <2>2. PICK it \in Items(side) : DeleteService(side, it, fate)
    BY <2>1
  <2>3. QED
    BY <1>2, <1>4, <2>2, DeleteServiceRight DEF DeleteService
<1>7. CASE \E side \in Sides, fate \in Fates : \E it \in Items(side), s \in Drafts(side) :
             EditService(side, it, s, fate)
  <2>1. PICK side \in Sides, fate \in Fates :
          \E it \in Items(side), s \in Drafts(side) : EditService(side, it, s, fate)
    BY <1>7
  <2>2. PICK it \in Items(side), s \in Drafts(side) : EditService(side, it, s, fate)
    BY <2>1
  <2>3. QED
    BY <1>2, <1>4, <2>2, EditServiceRight DEF EditService
<1>8. CASE \E side \in Sides : \E it \in Items(side), s \in Drafts(side) : EditRefused(side, it, s)
  <2>1. PICK side \in Sides : \E it \in Items(side), s \in Drafts(side) : EditRefused(side, it, s)
    BY <1>8
  <2>2. PICK it \in Items(side), s \in Drafts(side) : EditRefused(side, it, s)
    BY <2>1
  <2>3. QED
    BY <1>2, <1>4, <2>2, EditRefusedRight DEF EditRefused
<1>9. CASE Radio
  BY <1>2, <1>4, <1>9, RadioRight DEF Radio
<1>10. CASE Settings
  BY <1>2, <1>4, <1>10, SettingsRight DEF Settings
<1>11. CASE \E p \in Piers : ImportRefused(p)
  <2>1. ReadAnew(disk, cert) /\ UNCHANGED <<disk, cert, pool, linked, job, untold>>
    BY <1>11 DEF ImportRefused
  <2>2. untold \subseteq untold' /\ untold' \subseteq Gaps /\ linked' \in BOOLEAN
    BY <1>2, <2>1 DEF Parts, Informed
  <2>3. QED
    BY <1>2, <1>4, <2>1, <2>2, AnewRight
<1>12. CASE \E p \in Piers, c \in Offered : ImportCancelled(p, c)
  <2>1. PICK p \in Piers, c \in Offered : ImportCancelled(p, c)
    BY <1>12
  <2>2. QED
    BY <1>2, <1>4, <2>1, ImportCancelledRight DEF ImportCancelled
<1>13. CASE \E p \in Piers, c \in Offered :
              \E chosen \in SUBSET Shown(p, c), picks \in Picks(p), purge \in BOOLEAN :
                ImportStarts(p, c, chosen, picks, purge)
  <2>1. PICK p \in Piers, c \in Offered :
              \E chosen \in SUBSET Shown(p, c), picks \in Picks(p), purge \in BOOLEAN :
                ImportStarts(p, c, chosen, picks, purge)
    BY <1>13
  <2>2. PICK chosen \in SUBSET Shown(p, c), picks \in Picks(p), purge \in BOOLEAN :
          ImportStarts(p, c, chosen, picks, purge)
    BY <2>1
  <2>3. QED
    BY <1>2, <1>3, <2>2, ImportStartsRight
<1>14. CASE \E chosen \in SUBSET exports : OfferWritten(chosen)
  <2>1. /\ job' = [phase |-> "dead"]
        /\ UNCHANGED <<disk, mem, cert, pool, linked, exports, imports, lapses, untold>>
    BY <1>14 DEF OfferWritten, shelves
  <2>2. Solid' /\ Tidy'
    BY <1>2, <2>1, SolidFrame, TidyFrame DEF Parts
  <2>3. Informed'
    BY <1>2, <2>1, InformedFrame DEF Parts, Informed
  <2>4. Working'
    BY <2>1 DEF Working
  <2>5. QED
    BY <1>1, <2>1, <2>2, <2>3, <2>4 DEF Inv
<1>15. CASE OfferFails
  BY <1>2, <1>4, <1>15, OfferFailsRight DEF OfferFails
<1>16. QED
  BY <1>5, <1>6, <1>7, <1>8, <1>9, <1>10, <1>11, <1>12, <1>13, <1>14, <1>15, Zenon DEF UserAct

LEMMA ImportRoundRight ==
  ASSUME NoShelf, Inv, ImportRound, UNCHANGED acts
  PROVE  Inv'
<1>1. Parts /\ Working
  BY DEF Inv, Parts
<1>2. ASSUME Parts', Working' PROVE Inv'
  BY <1>2 DEF Inv, Parts
<1>3. CASE \E fate \in Fates : \E it \in exports : ImportGrants(it, fate)
  BY <1>1, <1>2, <1>3, ImportGrantsRight
<1>4. CASE \E fate \in Fates : \E it \in imports : ImportPurges(it, fate)
  BY <1>1, <1>2, <1>4, ImportPurgesRight
<1>5. CASE \E fate \in Fates : Busy /\ \E s \in job.picks, yes \in BOOLEAN : ImportStores(s, yes, fate)
  BY <1>1, <1>2, <1>5, ImportStoresRight
<1>6. CASE ImportEnds
  <2>1. Parts'
    BY <1>1, <1>6, RadioRight DEF ImportEnds
  <2>2. QED
    BY <1>2, <1>6, <2>1 DEF ImportEnds, Working, NoJob
<1>7. QED
  BY <1>3, <1>4, <1>5, <1>6, Zenon DEF ImportRound

LEMMA InvNext ==
  ASSUME NoShelf, Inv, [Next]_vars
  PROVE  Inv'
<1>1. CASE UserAct
  BY <1>1, UserActRight
<1>2. CASE ImportRound /\ UNCHANGED acts
  BY <1>2, ImportRoundRight
<1>3. CASE LoseLink /\ UNCHANGED acts
  <2>1. /\ linked' = FALSE
        /\ UNCHANGED <<disk, mem, cert, pool, exports, imports, job, lapses, untold, acts>>
    BY <1>3 DEF LoseLink, shelves
  <2>2. Solid' /\ Tidy'
    BY <2>1, SolidFrame, TidyFrame DEF Inv
  <2>3. Informed'
    BY <2>1, InformedFrame DEF Inv, Informed
  <2>4. QED
    BY <2>1, <2>2, <2>3 DEF Inv, Working
<1>4. CASE \E fresh \in BOOLEAN : Restart(fresh) /\ UNCHANGED acts
  <2>1. PICK fresh \in BOOLEAN : Restart(fresh) /\ UNCHANGED acts
    BY <1>4
  <2>2. Parts'
    BY <2>1, RestartRight DEF Inv, Parts
  <2>3. Working'
    BY <2>1 DEF Restart, Working, NoJob
  <2>4. QED
    BY <2>1, <2>2, <2>3 DEF Inv, Parts
<1>5. CASE UNCHANGED vars
  <2>1. UNCHANGED <<disk, mem, cert, pool, linked, exports, imports, job, lapses, untold, acts>>
    BY <1>5 DEF vars
  <2>2. Solid' /\ Tidy'
    BY <2>1, SolidFrame, TidyFrame DEF Inv
  <2>3. Informed'
    BY <2>1, InformedFrame DEF Inv, Informed
  <2>4. QED
    BY <2>1, <2>2, <2>3 DEF Inv, Working
<1>6. QED
  BY <1>1, <1>2, <1>3, <1>4, <1>5, Zenon DEF Next

LEMMA Invariance == ASSUME NoShelf PROVE Spec => []Inv
BY InvInit, InvNext, PTL DEF Spec

-----------------------------------------------------------------------------
(* Theorems.                                                               *)

(* Type correctness; no name of a pier's services is taken twice in the    *)
(* memory of the context (add_export_service, add_import_service).         *)
THEOREM DeskTypeCorrect == ASSUME NoShelf PROVE Spec => []TypeOK
<1>1. Inv => TypeOK
  BY DEF Inv, Solid, Informed, Tidy, Working, Unique, Lapses, Gaps, TypeOK
<1>2. QED
  BY <1>1, Invariance, PTL

(* The memory of the context is what the files hold until a write fails,   *)
(* in the middle of an import too.                                         *)
THEOREM MemoryIsDisk == ASSUME NoShelf PROVE Spec => []MemoryTellsDisk
<1>1. Inv => MemoryTellsDisk
  BY DEF Inv, Solid
<1>2. QED
  BY <1>1, Invariance, PTL

(* Between two operations the backend runs what is stored and nothing      *)
(* else, but for what went wrong since it last read everything.            *)
THEOREM BackendIsDisk == ASSUME NoShelf PROVE Spec => []BackendTellsDisk
<1>1. Inv => BackendTellsDisk
  BY DEF Inv, Informed, BackendTellsDisk
<1>2. QED
  BY <1>1, Invariance, PTL
=============================================================================

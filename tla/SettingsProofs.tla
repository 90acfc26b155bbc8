--------------------------- MODULE SettingsProofs ---------------------------
(***************************************************************************)
(* Theorems about Settings, for any buttons, any crontab lines, any        *)
(* pattern of the entry and any bounds.                                    *)
(*                                                                         *)
(* The first part counts: what the rank in Foreign selects, and how the    *)
(* threads and the posted results of a button change.  The second is the   *)
(* invariant: a test has its place among Pending until it is handled, and  *)
(* what is about to be installed is Copy of what was read.                 *)
(***************************************************************************)
EXTENDS Settings, FiniteSetTheorems, SequenceTheorems, WellFoundedInduction, TLAPS

-----------------------------------------------------------------------------
(* Crontabs.                                                               *)

LEMMA TablesAreSequences ==
  \A t : t \in Tables <=> t \in Seq(Lines) /\ Len(t) <= MaxLines
<1>1. MaxLines \in Nat
  BY SettingsAssumption
<1>2. ASSUME NEW t \in Tables
      PROVE  t \in Seq(Lines) /\ Len(t) <= MaxLines
  <2>1. PICK m \in 0..MaxLines : t \in [1..m -> Lines]
    BY <1>2 DEF Tables, BoundedSeq, SeqOf
  <2>2. QED
    BY <1>1, <2>1
<1>3. ASSUME NEW t \in Seq(Lines), Len(t) <= MaxLines
      PROVE  t \in Tables
  <2>1. Len(t) \in 0..MaxLines /\ t \in [1..Len(t) -> Lines]
    BY <1>1, <1>3
  <2>2. QED
    BY <2>1 DEF Tables, BoundedSeq, SeqOf
<1>4. QED
  BY <1>2, <1>3

(* The least number of a set of natural numbers.                           *)
LEMMA LeastNumber ==
  ASSUME NEW T \in SUBSET Nat, T # {}
  PROVE  \E n \in T : \A m \in T : n <= m
<1> DEFINE R == OpToRel(<, Nat)
<1>1. \A m, n \in Nat : <<m, n>> \in R <=> m < n
  BY DEF OpToRel
<1>2. IsWellFoundedOn(R, Nat)
  BY NatLessThanWellFounded
<1> HIDE DEF R
<1>3. PICK n \in T : \A m \in T : ~ (<<m, n>> \in R)
  BY <1>2, WFMin
<1>4. n \in Nat /\ \A m \in T : m \in Nat /\ ~ (m < n)
  BY <1>1, <1>3
<1>5. QED
  BY <1>4

(* The elements of K up to i.                                              *)
UpTo(K, i) == {j \in K : j <= i}

LEMMA RankTaken ==
  ASSUME NEW n \in Nat, NEW K \in SUBSET (1..n)
  PROVE  /\ IsFiniteSet(K) /\ Cardinality(K) \in Nat
         /\ \A k \in 1..Cardinality(K) : \E i \in K : Cardinality(UpTo(K, i)) = k
<1>0. \A j \in K : j \in Nat /\ 1 <= j /\ j <= n
  OBVIOUS
<1>1. IsFiniteSet(1..n)
  BY FS_Interval
<1>2. IsFiniteSet(K) /\ Cardinality(K) \in Nat
  BY <1>1, FS_Subset, FS_CardinalityType
<1>3. \A i \in Nat : IsFiniteSet(UpTo(K, i)) /\ Cardinality(UpTo(K, i)) \in Nat
  <2>1. \A i : UpTo(K, i) \in SUBSET K
    BY DEF UpTo
  <2>2. QED
    BY <1>2, <2>1, FS_Subset, FS_CardinalityType
<1>4. ASSUME NEW k \in 1..Cardinality(K)
      PROVE  \E i \in K : Cardinality(UpTo(K, i)) = k
  <2> DEFINE S == {i \in Nat : Cardinality(UpTo(K, i)) >= k}
  <2>1. UpTo(K, n) = K
    BY <1>0 DEF UpTo
  <2>2. S \in SUBSET Nat /\ S # {}
    BY <1>2, <2>1
  <2>3. PICK i \in S : \A m \in S : i <= m
    BY <2>2, LeastNumber
  <2>4. UpTo(K, 0) = {}
    <3>1. \A j \in K : ~ (j <= 0)
      BY <1>0
    <3>2. QED
      BY <3>1 DEF UpTo
  <2>5. i # 0
    BY <2>3, <2>4, FS_EmptySet
  <2>6. i - 1 \in Nat /\ i - 1 \notin S
    BY <2>3, <2>5
  <2>7. Cardinality(UpTo(K, i - 1)) < k
    BY <1>3, <2>6
  <2>8. UpTo(K, i) = IF i \in K THEN UpTo(K, i - 1) \cup {i} ELSE UpTo(K, i - 1)
    <3>1. i \in Nat /\ \A j \in Nat : j <= i <=> (j <= i - 1 \/ j = i)
      BY <2>3
    <3>2. \A j : j \in UpTo(K, i) <=> (j \in UpTo(K, i - 1) \/ (i \in K /\ j = i))
      BY <1>0, <3>1 DEF UpTo
    <3>3. QED
      BY <3>2
  <2>9. i \in K
    BY <1>3, <2>3, <2>6, <2>7, <2>8
  <2>10. i \notin UpTo(K, i - 1)
    BY <2>3, <2>6 DEF UpTo
  <2>11. Cardinality(UpTo(K, i)) = Cardinality(UpTo(K, i - 1)) + 1
    BY <1>3, <2>6, <2>8, <2>9, <2>10, FS_AddElement
  <2>12. QED
    BY <1>2, <1>3, <2>3, <2>6, <2>7, <2>9, <2>11
<1>5. QED
  BY <1>2, <1>4

(* The places of the lines of others.                                      *)
Kept(t) == {i \in DOMAIN t : t[i] \notin Matched}
Place(t, k) == CHOOSE i \in Kept(t) : Cardinality(UpTo(Kept(t), i)) = k

LEMMA ForeignByPlace ==
  \A t : Foreign(t) = [k \in 1..Cardinality(Kept(t)) |-> t[Place(t, k)]]
BY DEF Foreign, Kept, Place, UpTo

LEMMA PlaceKept ==
  ASSUME NEW t \in Seq(Lines)
  PROVE  /\ IsFiniteSet(Kept(t)) /\ Cardinality(Kept(t)) \in Nat
         /\ \A k \in 1..Cardinality(Kept(t)) :
              Place(t, k) \in Kept(t) /\ Cardinality(UpTo(Kept(t), Place(t, k))) = k
<1>1. Len(t) \in Nat /\ Kept(t) \in SUBSET (1..Len(t))
  BY DEF Kept
<1>2. /\ IsFiniteSet(Kept(t)) /\ Cardinality(Kept(t)) \in Nat
      /\ \A k \in 1..Cardinality(Kept(t)) : \E i \in Kept(t) : Cardinality(UpTo(Kept(t), i)) = k
  BY <1>1, RankTaken
<1>3. QED
  BY <1>2 DEF Place

LEMMA ForeignLines ==
  ASSUME NEW t \in Seq(Lines)
  PROVE  /\ Foreign(t) \in Seq(Lines)
         /\ Len(Foreign(t)) = Cardinality(Kept(t))
         /\ \A k \in DOMAIN Foreign(t) : Foreign(t)[k] \notin Matched
<1>1. /\ Cardinality(Kept(t)) \in Nat
      /\ \A k \in 1..Cardinality(Kept(t)) : Place(t, k) \in Kept(t)
  BY PlaceKept
<1>2. \A i \in Kept(t) : t[i] \in Lines /\ t[i] \notin Matched
  BY DEF Kept
<1>3. /\ DOMAIN Foreign(t) = 1..Cardinality(Kept(t))
      /\ \A k \in 1..Cardinality(Kept(t)) : Foreign(t)[k] = t[Place(t, k)]
      /\ Foreign(t) = [k \in 1..Cardinality(Kept(t)) |-> t[Place(t, k)]]
  BY ForeignByPlace
<1>4. Foreign(t) \in [1..Cardinality(Kept(t)) -> Lines]
  BY <1>1, <1>2, <1>3
<1>5. QED
  BY <1>1, <1>2, <1>3, <1>4

(* A table without the entry is Foreign already.                           *)
LEMMA ForeignOfForeign ==
  ASSUME NEW t \in Seq(Lines), ~Enters(t)
  PROVE  Foreign(t) = t
<1>1. Kept(t) = 1..Len(t) /\ Len(t) \in Nat
  BY DEF Kept, Enters
<1>2. Cardinality(Kept(t)) = Len(t)
  BY <1>1, FS_Interval
<1>3. ASSUME NEW k \in 1..Len(t)
      PROVE  Place(t, k) = k
  <2>1. Place(t, k) \in 1..Len(t) /\ Cardinality(UpTo(Kept(t), Place(t, k))) = k
    BY <1>1, <1>2, PlaceKept
  <2>2. UpTo(Kept(t), Place(t, k)) = 1..Place(t, k)
    BY <1>1, <2>1 DEF UpTo
  <2>3. Cardinality(1..Place(t, k)) = Place(t, k)
    BY <2>1, FS_Interval
  <2>4. QED
    BY <2>1, <2>2, <2>3
<1>4. Foreign(t) = [k \in 1..Len(t) |-> t[k]]
  BY <1>2, <1>3, ForeignByPlace
<1>5. QED
  BY <1>4

(* The entry isn't one of the others' lines.                               *)
LEMMA ForeignOfEntered ==
  ASSUME NEW t \in Seq(Lines)
  PROVE  Foreign(Append(t, Entry)) = Foreign(t)
<1> DEFINE u == Append(t, Entry)
<1>1. Entry \in Matched
  BY SettingsAssumption
<1>2. /\ Len(t) \in Nat /\ DOMAIN t = 1..Len(t) /\ DOMAIN u = 1..(Len(t) + 1)
      /\ u[Len(t) + 1] = Entry /\ \A i \in 1..Len(t) : u[i] = t[i]
  OBVIOUS
<1> HIDE DEF u
<1>3. Kept(u) = Kept(t)
  BY <1>1, <1>2 DEF Kept
<1>4. \A k : Place(u, k) = Place(t, k)
  BY <1>3 DEF Place
<1>5. \A k \in 1..Cardinality(Kept(t)) : Place(t, k) \in 1..Len(t)
  BY <1>2, PlaceKept DEF Kept
<1>6. [k \in 1..Cardinality(Kept(u)) |-> u[Place(u, k)]]
        = [k \in 1..Cardinality(Kept(t)) |-> t[Place(t, k)]]
  BY <1>2, <1>3, <1>4, <1>5
<1>7. Foreign(u) = Foreign(t)
  BY <1>6, ForeignByPlace
<1>8. QED
  BY <1>7 DEF u

-----------------------------------------------------------------------------
(* Counting tests.                                                         *)

TestsOK ==
  /\ open \in BOOLEAN /\ nat \in BOOLEAN
  /\ enabled \in [Buttons -> BOOLEAN] /\ gauge \in [Buttons -> BOOLEAN]
  /\ probes \subseteq Probe
  /\ \A p, q \in probes : p.id = q.id => p = q
  /\ \A p \in probes : p.heard # Halves
  /\ posted \in Seq(Buttons)

TableOK ==
  table \in Tables /\ daemon \in BOOLEAN /\ edit \in Edits /\ others \in 0..MaxOthers

LEMMA TypeParts == TypeOK <=> TestsOK /\ TableOK
BY DEF TypeOK, TestsOK, TableOK

Tests(b) == {p \in probes : p.button = b}
Results(b) == {i \in DOMAIN posted : posted[i] = b}

LEMMA PendingParts ==
  \A b : Pending(b) = Cardinality(Tests(b)) + Cardinality(Results(b))
BY DEF Pending, Tests, Results

(* A thread has its id to itself: there are at most MaxTests, and one more *)
(* has an id left.                                                         *)
LEMMA ProbesFinite ==
  ASSUME TestsOK
  PROVE  /\ IsFiniteSet(probes) /\ Cardinality(probes) \in Nat
         /\ Cardinality(probes) < MaxTests =>
              \E i \in 1..MaxTests : \A p \in probes : p.id # i
<1> DEFINE f == [p \in probes |-> p.id]
<1>1. MaxTests \in Nat
  BY SettingsAssumption
<1>2. IsFiniteSet(1..MaxTests) /\ Cardinality(1..MaxTests) = MaxTests
  BY <1>1, FS_Interval
<1>3. \A p \in probes : p.id \in 1..MaxTests
  BY DEF TestsOK, Probe
<1>4. f \in Injection(probes, 1..MaxTests)
  BY <1>3 DEF Injection, IsInjective, TestsOK
<1>5. IsFiniteSet(probes) /\ Cardinality(probes) \in Nat
  BY <1>2, <1>4, FS_Injection, FS_CardinalityType
<1>6. ASSUME Cardinality(probes) < MaxTests, \A i \in 1..MaxTests : \E p \in probes : p.id = i
      PROVE  FALSE
  <2>1. f \in Surjection(probes, 1..MaxTests)
    BY <1>3, <1>6 DEF Surjection
  <2>2. MaxTests <= Cardinality(probes)
    BY <1>2, <1>5, <2>1, FS_Surjection
  <2>3. QED
    BY <1>1, <1>5, <1>6, <2>2
<1>7. QED
  BY <1>5, <1>6

LEMMA TestsFinite ==
  ASSUME TestsOK
  PROVE  \A b : IsFiniteSet(Tests(b)) /\ Cardinality(Tests(b)) \in Nat
<1>1. \A b : Tests(b) \in SUBSET probes
  BY DEF Tests
<1>2. QED
  BY <1>1, ProbesFinite, FS_Subset, FS_CardinalityType

LEMMA ResultsFinite ==
  ASSUME posted \in Seq(Buttons)
  PROVE  \A b : IsFiniteSet(Results(b)) /\ Cardinality(Results(b)) \in Nat
<1>1. Len(posted) \in Nat /\ DOMAIN posted = 1..Len(posted)
  OBVIOUS
<1>2. IsFiniteSet(1..Len(posted))
  BY <1>1, FS_Interval
<1>3. \A b : Results(b) \in SUBSET (1..Len(posted))
  BY <1>1 DEF Results
<1>4. QED
  BY <1>2, <1>3, FS_Subset, FS_CardinalityType

LEMMA PendingNumber ==
  ASSUME TestsOK
  PROVE  \A b : Pending(b) \in Nat
BY PendingParts, TestsFinite, ResultsFinite DEF TestsOK

LEMMA ResultsAppend ==
  ASSUME posted \in Seq(Buttons), NEW c \in Buttons, posted' = Append(posted, c)
  PROVE  \A b : Cardinality(Results(b)') =
                  IF b = c THEN Cardinality(Results(b)) + 1 ELSE Cardinality(Results(b))
<1>1. /\ Len(posted) \in Nat /\ DOMAIN posted = 1..Len(posted)
      /\ DOMAIN posted' = 1..(Len(posted) + 1)
      /\ posted'[Len(posted) + 1] = c
      /\ \A i \in 1..Len(posted) : posted'[i] = posted[i]
  OBVIOUS
<1>2. Len(posted) + 1 \notin 1..Len(posted) /\ 1..(Len(posted) + 1) = 1..Len(posted) \cup {Len(posted) + 1}
  BY <1>1
<1>3. \A b : /\ Results(b)' = IF b = c THEN Results(b) \cup {Len(posted) + 1} ELSE Results(b)
             /\ Len(posted) + 1 \notin Results(b)
  BY <1>1, <1>2 DEF Results
<1>4. QED
  BY <1>3, ResultsFinite, FS_AddElement

LEMMA ResultsTail ==
  ASSUME posted \in Seq(Buttons), posted # <<>>, posted' = Tail(posted)
  PROVE  \A b : Cardinality(Results(b)') =
                  IF b = Head(posted) THEN Cardinality(Results(b)) - 1
                  ELSE Cardinality(Results(b))
<1> SUFFICES ASSUME NEW b
             PROVE  Cardinality(Results(b)') =
                      IF b = Head(posted) THEN Cardinality(Results(b)) - 1
                      ELSE Cardinality(Results(b))
  OBVIOUS
<1> DEFINE Rest1 == Results(b) \ {1}
           g == [i \in Rest1 |-> i - 1]
<1>1. /\ Len(posted) \in Nat /\ Len(posted) >= 1
      /\ DOMAIN posted = 1..Len(posted) /\ posted[1] = Head(posted)
      /\ DOMAIN posted' = 1..(Len(posted) - 1)
      /\ \A i \in 1..(Len(posted) - 1) : posted'[i] = posted[i + 1]
  OBVIOUS
<1>2. \A i \in Rest1 : i \in Nat /\ i - 1 \in 1..(Len(posted) - 1) /\ (i - 1) + 1 = i
  BY <1>1 DEF Results
<1>3. \A i \in Rest1 : i - 1 \in Results(b)'
  <2>1. \A i \in Rest1 : posted'[i - 1] = posted[i] /\ posted[i] = b
    BY <1>1, <1>2 DEF Results
  <2>2. QED
    BY <1>1, <1>2, <2>1 DEF Results
<1>4. \A j \in Results(b)' : j + 1 \in Rest1 /\ (j + 1) - 1 = j
  BY <1>1 DEF Results
<1>5. g \in Bijection(Rest1, Results(b)')
  <2> HIDE DEF Rest1
  <2>1. g \in [Rest1 -> Results(b)']
    BY <1>3
  <2>2. \A i, j \in Rest1 : g[i] = g[j] => i = j
    BY <1>2
  <2>3. \A j \in Results(b)' : \E i \in Rest1 : g[i] = j
    BY <1>4
  <2>4. QED
    BY <2>1, <2>2, <2>3 DEF Bijection, Injection, Surjection, IsInjective
<1>6. /\ IsFiniteSet(Results(b)) /\ IsFiniteSet(Rest1)
      /\ Cardinality(Rest1) = IF 1 \in Results(b) THEN Cardinality(Results(b)) - 1
                              ELSE Cardinality(Results(b))
  BY ResultsFinite, FS_RemoveElement
<1>7. 1 \in Results(b) <=> b = Head(posted)
  BY <1>1 DEF Results
<1>8. Cardinality(Results(b)') = Cardinality(Rest1)
  <2> HIDE DEF Rest1, g
  <2>1. ExistsBijection(Rest1, Results(b)')
    BY <1>5 DEF ExistsBijection
  <2>2. QED
    BY <1>6, <2>1, FS_Bijection
<1>9. QED
  BY <1>6, <1>7, <1>8

LEMMA TestsAdd ==
  ASSUME TestsOK, NEW q, q \notin probes, probes' = probes \cup {q}
  PROVE  \A b : Cardinality(Tests(b)') =
                  IF b = q.button THEN Cardinality(Tests(b)) + 1 ELSE Cardinality(Tests(b))
<1>1. \A b : /\ Tests(b)' = IF b = q.button THEN Tests(b) \cup {q} ELSE Tests(b)
             /\ q \notin Tests(b)
  BY DEF Tests
<1>2. QED
  BY <1>1, TestsFinite, FS_AddElement

LEMMA TestsRemove ==
  ASSUME TestsOK, NEW p \in probes, probes' = probes \ {p}
  PROVE  \A b : Cardinality(Tests(b)') =
                  IF b = p.button THEN Cardinality(Tests(b)) - 1 ELSE Cardinality(Tests(b))
<1>1. \A b : /\ Tests(b)' = IF b = p.button THEN Tests(b) \ {p} ELSE Tests(b)
             /\ b = p.button => p \in Tests(b)
  BY DEF Tests
<1>2. QED
  BY <1>1, TestsFinite, FS_RemoveElement

LEMMA TestsReplace ==
  ASSUME TestsOK, NEW p \in probes, NEW q, q \notin probes \ {p}, q.button = p.button,
         probes' = (probes \ {p}) \cup {q}
  PROVE  \A b : Cardinality(Tests(b)') = Cardinality(Tests(b))
<1>1. \A b : /\ Tests(b)' = IF b = p.button THEN (Tests(b) \ {p}) \cup {q} ELSE Tests(b)
             /\ q \notin Tests(b) \ {p}
             /\ b = p.button => p \in Tests(b)
  BY DEF Tests
<1>2. \A b : IsFiniteSet(Tests(b)) /\ Cardinality(Tests(b)) \in Nat
  BY TestsFinite
<1>3. \A b : b = p.button =>
        /\ IsFiniteSet(Tests(b) \ {p})
        /\ Cardinality(Tests(b) \ {p}) = Cardinality(Tests(b)) - 1
  BY <1>1, <1>2, FS_RemoveElement
<1>4. \A b : b = p.button =>
        Cardinality((Tests(b) \ {p}) \cup {q}) = Cardinality(Tests(b) \ {p}) + 1
  BY <1>1, <1>3, FS_AddElement
<1>5. \A b : b = p.button =>
        Cardinality((Tests(b) \ {p}) \cup {q}) = Cardinality(Tests(b))
  <2> SUFFICES Cardinality((Tests(p.button) \ {p}) \cup {q}) = Cardinality(Tests(p.button))
    OBVIOUS
  <2>1. /\ Cardinality(Tests(p.button)) \in Nat
        /\ Cardinality(Tests(p.button) \ {p}) = Cardinality(Tests(p.button)) - 1
        /\ Cardinality((Tests(p.button) \ {p}) \cup {q}) = Cardinality(Tests(p.button) \ {p}) + 1
    BY <1>2, <1>3, <1>4
  <2>2. QED
    BY <2>1
<1>6. QED
  BY <1>1, <1>5

-----------------------------------------------------------------------------
(* Pending under what happens to the tests.                                *)

LEMMA PendingAsked ==
  ASSUME TestsOK, NEW q, q \notin probes, probes' = probes \cup {q}, posted' = posted
  PROVE  \A b : Pending(b)' = IF b = q.button THEN Pending(b) + 1 ELSE Pending(b)
<1>1. \A b : Results(b)' = Results(b)
  BY DEF Results
<1>2. \A b : Pending(b)' = Cardinality(Tests(b)') + Cardinality(Results(b))
  BY <1>1 DEF Pending, Tests, Results
<1>3. \A b : Cardinality(Results(b)) \in Nat
  BY ResultsFinite DEF TestsOK
<1>4. QED
  BY <1>2, <1>3, TestsAdd, TestsFinite, PendingParts

LEMMA PendingPosted ==
  ASSUME TestsOK, NEW c \in Buttons, probes' = probes, posted' = Append(posted, c)
  PROVE  \A b : Pending(b)' = IF b = c THEN Pending(b) + 1 ELSE Pending(b)
<1>1. \A b : Pending(b)' = Cardinality(Tests(b)) + Cardinality(Results(b)')
  BY DEF Pending, Tests, Results
<1>2. posted \in Seq(Buttons)
  BY DEF TestsOK
<1>3. \A b : Cardinality(Results(b)) \in Nat
  BY <1>2, ResultsFinite
<1>4. QED
  BY <1>1, <1>2, <1>3, ResultsAppend, TestsFinite, PendingParts

LEMMA PendingCalled ==
  ASSUME TestsOK, NEW p \in probes, Calls(p)
  PROVE  \A b : Pending(b)' = Pending(b)
<1>1. p.button \in Buttons /\ posted \in Seq(Buttons)
  BY DEF TestsOK, Probe
<1>2. posted' = Append(posted, p.button) /\ probes' = probes \ {p}
  BY DEF Calls
<1>3. \A b : Pending(b)' = Cardinality(Tests(b)') + Cardinality(Results(b)')
  BY DEF Pending, Tests, Results
<1>4. \A b : Cardinality(Tests(b)') =
               IF b = p.button THEN Cardinality(Tests(b)) - 1 ELSE Cardinality(Tests(b))
  BY <1>2, TestsRemove
<1>5. \A b : Cardinality(Results(b)') =
               IF b = p.button THEN Cardinality(Results(b)) + 1 ELSE Cardinality(Results(b))
  BY <1>1, <1>2, ResultsAppend
<1>6. \A b : Cardinality(Results(b)) \in Nat /\ Cardinality(Tests(b)) \in Nat
  BY <1>1, ResultsFinite, TestsFinite
<1>7. QED
  BY <1>3, <1>4, <1>5, <1>6, PendingParts

LEMMA PendingHeard ==
  ASSUME TestsOK, NEW p \in probes, NEW q, q \notin probes \ {p}, q.button = p.button,
         probes' = (probes \ {p}) \cup {q}, posted' = posted
  PROVE  \A b : Pending(b)' = Pending(b)
<1>1. \A b : Pending(b)' = Cardinality(Tests(b)') + Cardinality(Results(b))
  BY DEF Pending, Tests, Results
<1>2. QED
  BY <1>1, TestsReplace, PendingParts

LEMMA PendingHandled ==
  ASSUME TestsOK, posted # <<>>, probes' = probes, posted' = Tail(posted)
  PROVE  \A b : Pending(b)' = IF b = Head(posted) THEN Pending(b) - 1 ELSE Pending(b)
<1>1. posted \in Seq(Buttons)
  BY DEF TestsOK
<1>2. \A b : Pending(b)' = Cardinality(Tests(b)) + Cardinality(Results(b)')
  BY DEF Pending, Tests, Results
<1>3. \A b : Cardinality(Results(b)) \in Nat /\ Cardinality(Tests(b)) \in Nat
  BY <1>1, ResultsFinite, TestsFinite
<1>4. QED
  BY <1>1, <1>2, <1>3, ResultsTail, PendingParts

-----------------------------------------------------------------------------
(* The invariant.                                                          *)

(* What is about to be installed is the copy of what was read, which       *)
(* didn't have what the user asked for.                                    *)
Written ==
  edit.phase = "write" =>
    edit.new = Copy(edit.got, edit.on) /\ Enters(edit.got) # edit.on

Testing == TestsOK /\ ButtonsTell
Editing == TableOK /\ Written
Inv == Testing /\ Editing

(* What an edit is in each phase.                                          *)
LEMMA EditPhases ==
  ASSUME TableOK
  PROVE  /\ edit.phase = "read" => edit.on \in BOOLEAN
         /\ edit.phase = "write" =>
              edit.on \in BOOLEAN /\ edit.got \in Tables /\ edit.new \in Seq(Lines)
         /\ table \in Seq(Lines)
BY TablesAreSequences DEF TableOK, Edits, Rest

LEMMA EditingSteps ==
  ASSUME TableOK, edit' \in Edits, edit'.phase # "write", UNCHANGED <<table, daemon, others>>
  PROVE  Editing'
BY DEF TableOK, Editing, Written

LEMMA Stays ==
  ASSUME Editing, UNCHANGED <<table, daemon, edit, others>>
  PROVE  Editing'
BY DEF Editing, TableOK, Written

LEMMA CopyLines ==
  ASSUME NEW got \in Seq(Lines), NEW on \in BOOLEAN
  PROVE  Copy(got, on) \in Seq(Lines)
<1>1. Entry \in Lines
  BY SettingsAssumption
<1>2. QED
  BY <1>1, ForeignLines DEF Copy

LEMMA OpenEdits ==
  ASSUME Editing, NEW behind \in BOOLEAN, NEW tool \in BOOLEAN, Open(behind, tool)
  PROVE  Editing'
<1>1. CASE tool /\ ~Fits(table)
  <2>1. edit' = [phase |-> "stuck"] /\ UNCHANGED <<table, daemon, others>>
    BY <1>1 DEF Open
  <2>2. edit' \in Edits /\ edit'.phase # "write"
    BY <2>1 DEF Edits
  <2>3. QED
    BY <2>1, <2>2, EditingSteps DEF Editing
<1>2. CASE ~ (tool /\ ~Fits(table))
  <2>1. daemon' \in BOOLEAN /\ UNCHANGED <<table, edit, others>>
    BY <1>2 DEF Open, Enters
  <2>2. QED
    BY <2>1 DEF Editing, TableOK, Written
<1>3. QED
  BY <1>1, <1>2

LEMMA OkEdits ==
  ASSUME Editing, NEW toggled \in BOOLEAN, Ok(toggled)
  PROVE  Editing'
<1>1. CASE toggled
  <2>1. edit' = [phase |-> "read", on |-> ~daemon] /\ UNCHANGED <<table, daemon, others>>
    BY <1>1 DEF Ok
  <2>2. (~daemon) \in BOOLEAN
    BY DEF Editing, TableOK
  <2>3. edit' \in Edits /\ edit'.phase # "write"
    BY <2>1, <2>2 DEF Edits
  <2>4. QED
    BY <2>1, <2>3, EditingSteps DEF Editing
<1>2. CASE ~toggled
  BY <1>2, Stays DEF Ok
<1>3. QED
  BY <1>1, <1>2

LEMMA ReadEdits ==
  ASSUME Editing, NEW got \in {table, <<>>}, Read(got)
  PROVE  Editing'
<1>1. UNCHANGED <<table, daemon, others>> /\ edit.phase = "read"
  BY DEF Read
<1>2. edit.on \in BOOLEAN /\ table \in Seq(Lines)
  BY <1>1, EditPhases DEF Editing
<1>3. got \in Tables /\ got \in Seq(Lines)
  <2>1. CASE got = table
    BY <1>2, <2>1 DEF Editing, TableOK
  <2>2. CASE got = <<>>
    <3>1. got \in Seq(Lines) /\ Len(got) = 0 /\ 0 <= MaxLines
      BY <2>2, SettingsAssumption
    <3>2. QED
      BY <3>1, TablesAreSequences
  <2>3. QED
    BY <2>1, <2>2
<1>4. Copy(got, edit.on) \in Seq(Lines)
  BY <1>2, <1>3, CopyLines
<1>5. CASE edit' = [phase |-> "stuck"] \/ edit' = Rest
  <2>1. edit' \in Edits /\ edit'.phase # "write"
    BY <1>5 DEF Edits, Rest
  <2>2. QED
    BY <1>1, <2>1, EditingSteps DEF Editing
<1>6. CASE /\ Enters(got) # edit.on
           /\ edit' = [phase |-> "write", on |-> edit.on, got |-> got, new |-> Copy(got, edit.on)]
  <2>1. edit' \in [phase : {"write"}, on : BOOLEAN, got : Tables, new : Seq(Lines)]
    BY <1>2, <1>3, <1>4, <1>6
  <2>2. edit' \in Edits
    BY <2>1 DEF Edits
  <2>3. edit'.new = Copy(got, edit.on) /\ edit'.got = got /\ edit'.on = edit.on
    BY <1>6
  <2>4. Copy(edit'.got, edit'.on) = edit'.new /\ Enters(edit'.got) # edit'.on
    BY <1>6, <2>3
  <2>5. Written'
    BY <2>4 DEF Written, Copy, Enters, Foreign
  <2>6. QED
    BY <1>1, <2>2, <2>5 DEF Editing, TableOK
<1>7. QED
  BY <1>5, <1>6 DEF Read

LEMMA InstallEdits ==
  ASSUME Editing, NEW done \in BOOLEAN, Install(done)
  PROVE  Editing'
<1>1. edit' = Rest /\ UNCHANGED <<daemon, others>> /\ table' = IF done THEN edit.new ELSE table
  BY DEF Install
<1>2. edit' \in Edits /\ edit'.phase # "write"
  BY <1>1 DEF Edits, Rest
<1>3. edit.new \in Seq(Lines) /\ Len(edit.new) <= MaxLines
  BY EditPhases DEF Editing, Install
<1>4. table' \in Tables
  BY <1>1, <1>3, TablesAreSequences DEF Editing, TableOK
<1>5. QED
  BY <1>1, <1>2, <1>4 DEF Editing, TableOK, Written

LEMMA OthersStay ==
  ASSUME Editing, OthersEdit
  PROVE  Editing'
<1>1. table \in Seq(Lines) /\ Len(table) <= MaxLines /\ Len(table) \in Nat
  BY TablesAreSequences DEF Editing, TableOK
<1>2. table' \in Tables
  <2>1. CASE \E l \in Lines : Len(table) < MaxLines /\ table' = Append(table, l)
    <3>1. table' \in Seq(Lines) /\ Len(table') <= MaxLines
      BY <1>1, <2>1, SettingsAssumption
    <3>2. QED
      BY <3>1, TablesAreSequences
  <2>2. CASE \E i \in DOMAIN table : table' = RemoveAt(table, i)
    <3>0. DOMAIN table = 1..Len(table)
      BY <1>1
    <3>1. PICK i \in 1..Len(table) : table' = SubSeq(table, 1, i - 1) \o SubSeq(table, i + 1, Len(table))
      BY <3>0, <2>2, Zenon DEF RemoveAt
    <3>2. /\ SubSeq(table, 1, i - 1) \in Seq(Lines) /\ Len(SubSeq(table, 1, i - 1)) = i - 1
          /\ SubSeq(table, i + 1, Len(table)) \in Seq(Lines)
          /\ Len(SubSeq(table, i + 1, Len(table))) = Len(table) - i
      BY <1>1
    <3> DEFINE front == SubSeq(table, 1, i - 1)
               back == SubSeq(table, i + 1, Len(table))
    <3> HIDE DEF front, back
    <3>3. table' \in Seq(Lines) /\ Len(table') = Len(table) - 1
      <4>1. /\ front \in Seq(Lines) /\ Len(front) = i - 1
            /\ back \in Seq(Lines) /\ Len(back) = Len(table) - i
            /\ table' = front \o back
        BY <3>1, <3>2 DEF front, back
      <4>2. front \o back \in Seq(Lines) /\ Len(front \o back) = Len(front) + Len(back)
        BY <4>1, ConcatProperties
      <4>3. QED
        BY <1>1, <4>1, <4>2
    <3>4. QED
      BY <1>1, <3>3, SettingsAssumption, TablesAreSequences
  <2>3. QED
    BY <2>1, <2>2 DEF OthersEdit
<1>3. others' \in 0..MaxOthers
  BY SettingsAssumption DEF OthersEdit, Editing, TableOK
<1>4. UNCHANGED <<daemon, edit>>
  BY DEF OthersEdit
<1>5. QED
  BY <1>2, <1>3, <1>4 DEF Editing, TableOK, Written

-----------------------------------------------------------------------------
(* Each action of the dialog and its tests.                                *)

LEMMA TestsStay ==
  ASSUME Testing, UNCHANGED <<open, tests>>
  PROVE  Testing'
<1>1. \A b : Pending(b)' = Pending(b)
  BY DEF tests, Pending
<1>2. TestsOK'
  BY DEF Testing, TestsOK, tests
<1>3. ButtonsTell'
  BY <1>1 DEF Testing, ButtonsTell, tests
<1>4. QED
  BY <1>2, <1>3 DEF Testing

LEMMA ClosedTests ==
  ASSUME Closed
  PROVE  Testing'
<1>1. TestsOK'
  <2>1. /\ open' = FALSE /\ nat' = FALSE
        /\ enabled' = [b \in Buttons |-> TRUE] /\ gauge' = [b \in Buttons |-> FALSE]
        /\ probes' = {} /\ posted' = <<>>
    BY DEF Closed
  <2>2. enabled' \in [Buttons -> BOOLEAN] /\ gauge' \in [Buttons -> BOOLEAN]
    BY <2>1
  <2>3. open' \in BOOLEAN /\ nat' \in BOOLEAN
    BY <2>1
  <2>4. posted' \in Seq(Buttons) /\ probes' = {}
    BY <2>1
  <2>5. QED
    BY <2>2, <2>3, <2>4 DEF TestsOK
<1>2. ButtonsTell'
  BY DEF Closed, ButtonsTell
<1>3. QED
  BY <1>1, <1>2 DEF Testing

LEMMA OpenTests ==
  ASSUME Testing, NEW behind \in BOOLEAN, NEW tool \in BOOLEAN, Open(behind, tool)
  PROVE  Testing'
<1>1. CASE tool /\ ~Fits(table)
  BY <1>1, TestsStay DEF Open
<1>2. CASE ~ (tool /\ ~Fits(table))
  <2>1. /\ open' = TRUE /\ nat' = behind
        /\ enabled' = [b \in Buttons |-> b \in Stuns => behind]
        /\ gauge' = [b \in Buttons |-> FALSE]
        /\ probes' = {} /\ posted' = <<>>
    BY <1>2 DEF Open
  <2>2. TestsOK'
    BY <2>1 DEF TestsOK
  <2>3. \A b : Pending(b)' = 0
    <3>1. \A b : Pending(b)' = Cardinality({p \in probes' : p.button = b})
                                 + Cardinality({i \in DOMAIN posted' : posted'[i] = b})
      BY DEF Pending
    <3>2. \A b : {p \in probes' : p.button = b} = {} /\ {i \in DOMAIN posted' : posted'[i] = b} = {}
      BY <2>1
    <3>3. Cardinality({}) = 0
      BY FS_EmptySet
    <3>4. QED
      BY <3>1, <3>2, <3>3
  <2>4. \A b \in Mediators \cup Relays : b \in Buttons /\ b \notin Stuns
    BY SettingsAssumption DEF Buttons
  <2>5. ButtonsTell'
    BY <2>1, <2>3, <2>4 DEF ButtonsTell
  <2>6. QED
    BY <2>2, <2>5 DEF Testing
<1>3. QED
  BY <1>1, <1>2

(* The looks of the dialog after a click: what it asked for is pending.    *)
LEMMA StartedTells ==
  ASSUME Testing, open, open' = open, NEW b \in Buttons, enabled[b], Started(b),
         \A c : Pending(c)' = IF c = b THEN Pending(c) + 1 ELSE Pending(c)
  PROVE  /\ enabled' \in [Buttons -> BOOLEAN] /\ gauge' \in [Buttons -> BOOLEAN]
         /\ ButtonsTell'
<1>1. /\ enabled' = [enabled EXCEPT ![b] = FALSE] /\ gauge' = [gauge EXCEPT ![b] = TRUE]
      /\ enabled \in [Buttons -> BOOLEAN] /\ gauge \in [Buttons -> BOOLEAN]
  BY DEF Started, Testing, TestsOK
<1>2. \A c : Pending(c) \in Nat
  BY PendingNumber DEF Testing
<1>3. \A c \in Buttons : gauge'[c] => Pending(c)' > 0
  BY <1>1, <1>2 DEF Testing, ButtonsTell
<1>4. \A c \in Mediators \cup Relays : c \in Buttons
  BY DEF Buttons
<1>5. \A c \in Mediators \cup Relays : Pending(c)' = IF enabled'[c] THEN 0 ELSE 1
  BY <1>1, <1>2, <1>4 DEF Testing, ButtonsTell
<1>6. QED
  BY <1>1, <1>3, <1>5 DEF ButtonsTell

LEMMA ClickTests ==
  ASSUME Testing, NEW b \in Buttons, Click(b)
  PROVE  Testing'
<1>1. TestsOK /\ open /\ enabled[b] /\ Started(b) /\ UNCHANGED <<open, nat, posted>>
  BY DEF Testing, Click
<1>2. PICK id : /\ id = CHOOSE i \in 1..MaxTests : \A p \in probes : p.id # i
                /\ probes' = probes \cup {[id |-> id, button |-> b, heard |-> {}]}
  BY DEF Click
<1>3. id \in 1..MaxTests /\ \A p \in probes : p.id # id
  <2>1. posted \in Seq(Buttons)
    BY <1>1 DEF TestsOK
  <2>2. Len(posted) \in Nat /\ Cardinality(probes) \in Nat /\ MaxTests \in Nat
    BY <1>1, <2>1, ProbesFinite, SettingsAssumption
  <2>3. Cardinality(probes) < MaxTests
    BY <2>2 DEF Click, Room
  <2>4. \E i \in 1..MaxTests : \A p \in probes : p.id # i
    BY <1>1, <2>3, ProbesFinite
  <2>5. QED
    BY <1>2, <2>4
<1> DEFINE q == [id |-> id, button |-> b, heard |-> {}]
<1>4. q \in Probe /\ q \notin probes /\ q.button = b /\ q.id = id /\ q.heard # Halves
  BY <1>3 DEF Probe, Halves
<1>5. probes' = probes \cup {q}
  BY <1>2
<1> HIDE DEF q
<1>6. \A c : Pending(c)' = IF c = b THEN Pending(c) + 1 ELSE Pending(c)
  BY <1>1, <1>4, <1>5, PendingAsked
<1>7. /\ enabled' \in [Buttons -> BOOLEAN] /\ gauge' \in [Buttons -> BOOLEAN]
      /\ ButtonsTell'
  BY <1>1, <1>6, StartedTells
<1>8. /\ probes' \subseteq Probe
      /\ \A p, r \in probes' : p.id = r.id => p = r
      /\ \A p \in probes' : p.heard # Halves
  BY <1>1, <1>3, <1>4, <1>5 DEF TestsOK
<1>9. QED
  BY <1>1, <1>7, <1>8 DEF Testing, TestsOK

LEMMA ClickFailsTests ==
  ASSUME Testing, NEW b \in Buttons, ClickFails(b)
  PROVE  Testing'
<1>1. /\ TestsOK /\ open /\ enabled[b] /\ Started(b)
      /\ posted' = Append(posted, b) /\ UNCHANGED <<open, nat, probes>>
  BY DEF Testing, ClickFails
<1>2. \A c : Pending(c)' = IF c = b THEN Pending(c) + 1 ELSE Pending(c)
  BY <1>1, PendingPosted
<1>3. /\ enabled' \in [Buttons -> BOOLEAN] /\ gauge' \in [Buttons -> BOOLEAN]
      /\ ButtonsTell'
  BY <1>1, <1>2, StartedTells
<1>4. posted' \in Seq(Buttons)
  BY <1>1 DEF TestsOK
<1>5. QED
  BY <1>1, <1>3, <1>4 DEF Testing, TestsOK

LEMMA NatCheckTests ==
  ASSUME Testing, NatCheck
  PROVE  Testing'
<1>1. /\ nat \in BOOLEAN /\ nat' = ~nat
      /\ enabled \in [Buttons -> BOOLEAN]
      /\ enabled' = [b \in Buttons |-> IF b \in Stuns THEN nat' ELSE enabled[b]]
      /\ UNCHANGED <<open, gauge, probes, posted>>
  BY DEF Testing, TestsOK, NatCheck
<1>2. enabled' \in [Buttons -> BOOLEAN] /\ nat' \in BOOLEAN
  BY <1>1
<1>3. \A b : Pending(b)' = Pending(b)
  BY <1>1 DEF Pending
<1>4. \A b \in Mediators \cup Relays : b \in Buttons /\ b \notin Stuns
  BY SettingsAssumption DEF Buttons
<1>5. \A b \in Mediators \cup Relays : enabled'[b] = enabled[b]
  BY <1>1, <1>4
<1>6. ButtonsTell'
  BY <1>1, <1>3, <1>5 DEF Testing, ButtonsTell
<1>7. QED
  BY <1>1, <1>2, <1>6 DEF Testing, TestsOK

(* A test that goes on or calls back is pending as before.                 *)
LEMMA PendingTells ==
  ASSUME Testing, \A b : Pending(b)' = Pending(b), UNCHANGED <<open, enabled, gauge>>
  PROVE  ButtonsTell'
BY DEF Testing, ButtonsTell

LEMMA CallsTests ==
  ASSUME Testing, NEW p \in probes, Calls(p), UNCHANGED <<open, nat, enabled, gauge>>
  PROVE  Testing'
<1>1. ButtonsTell'
  BY PendingCalled, PendingTells DEF Testing
<1>2. p.button \in Buttons
  BY DEF Testing, TestsOK, Probe
<1>3. posted' \in Seq(Buttons) /\ probes' \subseteq probes
  BY <1>2 DEF Calls, Testing, TestsOK
<1>4. QED
  BY <1>1, <1>3 DEF Testing, TestsOK

LEMMA HearsTests ==
  ASSUME Testing, NEW p \in probes, NEW half \in Halves, Hears(p, half)
  PROVE  Testing'
<1>1. UNCHANGED <<open, nat, enabled, gauge>>
  BY DEF Hears
<1>2. CASE p.heard \cup {half} = Halves
  BY <1>1, <1>2, CallsTests DEF Hears
<1>3. CASE p.heard \cup {half} # Halves
  <2> DEFINE q == [p EXCEPT !.heard = @ \cup {half}]
  <2>1. probes' = (probes \ {p}) \cup {q} /\ posted' = posted
    BY <1>3 DEF Hears
  <2>2. p \in Probe /\ p.heard \cup {half} \in SUBSET Halves
    BY DEF Testing, TestsOK, Probe
  <2>3. q \in Probe /\ q.id = p.id /\ q.button = p.button /\ q.heard # Halves
    BY <1>3, <2>2 DEF Probe
  <2> HIDE DEF q
  <2>4. \A r \in probes \ {p} : r.id # q.id
    BY <2>3 DEF Testing, TestsOK
  <2>5. TestsOK /\ q \notin probes \ {p}
    BY <2>4 DEF Testing
  <2>6. \A b : Pending(b)' = Pending(b)
    BY <2>1, <2>3, <2>5, PendingHeard
  <2>7. ButtonsTell'
    BY <1>1, <2>6, PendingTells
  <2>8. /\ probes' \subseteq Probe
        /\ \A r, s \in probes' : r.id = s.id => r = s
        /\ \A r \in probes' : r.heard # Halves
    BY <2>1, <2>3, <2>4 DEF Testing, TestsOK
  <2>9. QED
    BY <1>1, <2>1, <2>7, <2>8 DEF Testing, TestsOK
<1>4. QED
  BY <1>2, <1>3

LEMMA HandleTests ==
  ASSUME Testing, Handle
  PROVE  Testing'
<1>1. /\ TestsOK /\ open /\ posted # <<>> /\ posted' = Tail(posted)
      /\ enabled' = [enabled EXCEPT ![Head(posted)] = TRUE]
      /\ gauge' = [gauge EXCEPT ![Head(posted)] = FALSE]
      /\ UNCHANGED <<open, nat, probes>>
  BY DEF Testing, Handle
<1>2. posted \in Seq(Buttons) /\ posted' \in Seq(Buttons) /\ Head(posted) \in Buttons
  BY <1>1 DEF TestsOK
<1> DEFINE h == Head(posted)
<1>3. \A b : Pending(b)' = IF b = h THEN Pending(b) - 1 ELSE Pending(b)
  BY <1>1, PendingHandled
<1>4. Pending(h) \in Nat /\ Pending(h) > 0
  <2>1. 1 \in Results(h)
    BY <1>1, <1>2 DEF Results
  <2>2. IsFiniteSet(Results(h)) /\ Cardinality(Results(h)) \in Nat
    BY <1>2, ResultsFinite
  <2>3. Cardinality(Results(h)) # 0
    BY <2>1, <2>2, FS_EmptySet
  <2>4. Cardinality(Tests(h)) \in Nat
    BY <1>1, TestsFinite
  <2>5. QED
    BY <2>2, <2>3, <2>4, PendingParts
<1> HIDE DEF h
<1>5. /\ enabled \in [Buttons -> BOOLEAN] /\ gauge \in [Buttons -> BOOLEAN]
      /\ enabled' = [enabled EXCEPT ![h] = TRUE] /\ gauge' = [gauge EXCEPT ![h] = FALSE]
      /\ h \in Buttons
  BY <1>1, <1>2 DEF TestsOK, h
<1>6. \A b \in Mediators \cup Relays : b \in Buttons
  BY DEF Buttons
<1>7. \A b \in Mediators \cup Relays : Pending(b)' = IF enabled'[b] THEN 0 ELSE 1
  <2> TAKE b \in Mediators \cup Relays
  <2>1. b \in Buttons /\ Pending(b) = IF enabled[b] THEN 0 ELSE 1
    BY <1>1, <1>6 DEF Testing, ButtonsTell
  <2>2. CASE b = h
    <3>1. enabled'[b] /\ Pending(b) = 1
      BY <1>4, <1>5, <2>1, <2>2
    <3>2. QED
      BY <1>3, <2>2, <3>1
  <2>3. CASE b # h
    BY <1>3, <1>5, <2>1, <2>3
  <2>4. QED
    BY <2>2, <2>3
<1>8. \A b \in Buttons : gauge'[b] => Pending(b)' > 0
  BY <1>1, <1>3, <1>5 DEF Testing, ButtonsTell
<1>9. ButtonsTell'
  BY <1>7, <1>8 DEF ButtonsTell
<1>10. QED
  BY <1>1, <1>2, <1>5, <1>9 DEF Testing, TestsOK

-----------------------------------------------------------------------------
(* The theorems.                                                           *)

LEMMA Initial == Init => Inv
<1> SUFFICES ASSUME Init PROVE Inv
  OBVIOUS
<1>0. /\ enabled \in [Buttons -> BOOLEAN] /\ gauge \in [Buttons -> BOOLEAN]
      /\ open = FALSE /\ nat = FALSE /\ posted \in Seq(Buttons) /\ probes = {}
  BY DEF Init
<1>1. TestsOK /\ ButtonsTell
  BY <1>0 DEF TestsOK, ButtonsTell
<1>2. 0 \in 0..MaxOthers
  BY SettingsAssumption
<1>3. TableOK /\ Written
  BY <1>2 DEF Init, TableOK, Written, Edits, Rest
<1>4. QED
  BY <1>1, <1>3 DEF Inv, Testing, Editing

LEMMA Step ==
  ASSUME Inv, [Next]_vars
  PROVE  Inv'
<1> USE DEF Inv
<1>1. ASSUME NEW behind \in BOOLEAN, NEW tool \in BOOLEAN, Open(behind, tool)
      PROVE  Inv'
  BY <1>1, OpenTests, OpenEdits
<1>2. CASE Cancel
  BY <1>2, ClosedTests, Stays DEF Cancel
<1>3. ASSUME NEW toggled \in BOOLEAN, Ok(toggled)
      PROVE  Inv'
  <2>1. Closed \/ UNCHANGED <<open, tests>>
    BY <1>3 DEF Ok
  <2>2. QED
    BY <1>3, <2>1, ClosedTests, TestsStay, OkEdits
<1>4. ASSUME NEW got \in {table, <<>>}, Read(got)
      PROVE  Inv'
  <2>1. Closed \/ UNCHANGED <<open, tests>>
    BY <1>4 DEF Read
  <2>2. QED
    BY <1>4, <2>1, ClosedTests, TestsStay, ReadEdits
<1>5. CASE ReadThrows
  <2>1. edit' \in Edits /\ edit'.phase # "write"
    BY <1>5 DEF ReadThrows, Edits, Rest
  <2>2. QED
    BY <1>5, <2>1, ClosedTests, EditingSteps DEF ReadThrows, Editing
<1>6. ASSUME NEW done \in BOOLEAN, Install(done)
      PROVE  Inv'
  BY <1>6, ClosedTests, InstallEdits DEF Install
<1>7. CASE OthersEdit
  BY <1>7, TestsStay, OthersStay DEF OthersEdit
<1>8. ASSUME NEW b \in Buttons, Click(b)
      PROVE  Inv'
  BY <1>8, ClickTests, Stays DEF Click
<1>9. ASSUME NEW b \in Buttons, ClickFails(b)
      PROVE  Inv'
  BY <1>9, ClickFailsTests, Stays DEF ClickFails
<1>10. CASE NatCheck
  BY <1>10, NatCheckTests, Stays DEF NatCheck
<1>11. CASE Handle
  BY <1>11, HandleTests, Stays DEF Handle
<1>12. ASSUME NEW p \in probes, NEW half \in Halves, Hears(p, half)
       PROVE  Inv'
  BY <1>12, HearsTests, Stays DEF Hears
<1>13. ASSUME NEW p \in probes, TimesOut(p) \/ Reports(p)
       PROVE  Inv'
  <2>1. Calls(p) /\ UNCHANGED <<open, nat, enabled, gauge>> /\ UNCHANGED <<table, daemon, edit, others>>
    BY <1>13 DEF TimesOut, Reports
  <2>2. QED
    BY <2>1, CallsTests, Stays
<1>14. CASE UNCHANGED vars
  BY <1>14, TestsStay, Stays DEF vars, tests
<1>15. QED
  BY <1>1, <1>2, <1>3, <1>4, <1>5, <1>6, <1>7, <1>8, <1>9, <1>10, <1>11, <1>12, <1>13, <1>14
     DEF Next, Crontab

LEMMA Invariant == Spec => []Inv
BY Initial, Step, PTL DEF Spec

(* Type correctness of the dialog, its tests and the crontab; it includes  *)
(* that no two threads have an id and that a rendezvous test that heard    *)
(* both halves is done.                                                    *)
THEOREM SettingsTypeCorrect == Spec => []TypeOK
<1>1. Inv => TypeOK
  BY TypeParts DEF Inv, Testing, Editing
<1>2. QED
  BY <1>1, Invariant, PTL

(* A progress bar moves only for a result that is to come, and a button    *)
(* that the NAT box doesn't enable can be clicked exactly when it has no   *)
(* test, whichever of the five callbacks of CheckRendezvous comes first.   *)
THEOREM ButtonsAreTrue == Spec => []ButtonsTell
<1>1. Inv => ButtonsTell
  BY DEF Inv, Testing
<1>2. QED
  BY <1>1, Invariant, PTL

(* What Install puts in the place of the table that was read: the entry    *)
(* once or never, as the user asked, and the lines of others in order.     *)
LEMMA CopyTurns ==
  ASSUME NEW t \in Seq(Lines), NEW on \in BOOLEAN, Enters(t) # on
  PROVE  /\ Enters(Copy(t, on)) = on
         /\ Times(Copy(t, on)) <= 1
         /\ Foreign(Copy(t, on)) = Foreign(t)
<1>1. Entry \in Matched /\ Entry \in Lines
  BY SettingsAssumption
<1>2. CASE on
  <2> DEFINE u == Append(t, Entry)
  <2>1. Copy(t, on) = u /\ ~Enters(t)
    BY <1>2 DEF Copy
  <2>2. /\ u \in Seq(Lines) /\ Len(t) \in Nat /\ Len(u) = Len(t) + 1
        /\ Len(t) + 1 \in DOMAIN u /\ u[Len(t) + 1] = Entry
    BY <1>1
  <2>3. Foreign(u) = Foreign(t)
    BY ForeignOfEntered
  <2> HIDE DEF u
  <2>4. Enters(u) = TRUE
    BY <1>1, <2>2 DEF Enters
  <2>5. Foreign(u) = t
    BY <2>1, <2>3, ForeignOfForeign
  <2>6. Times(u) = 1
    BY <2>2, <2>5 DEF Times
  <2>7. on = TRUE
    BY <1>2
  <2>8. Enters(u) = on /\ Times(u) <= 1 /\ Foreign(u) = Foreign(t)
    BY <2>3, <2>4, <2>6, <2>7
  <2>9. QED
    BY <2>1, <2>8
<1>3. CASE ~on
  <2> DEFINE u == Foreign(t)
  <2>1. Copy(t, on) = u
    BY <1>3 DEF Copy
  <2>2. u \in Seq(Lines) /\ Enters(u) = FALSE
    BY ForeignLines DEF Enters
  <2> HIDE DEF u
  <2>3. Foreign(u) = u
    BY <2>2, ForeignOfForeign
  <2>4. Len(u) \in Nat /\ Times(u) = 0
    BY <2>2, <2>3 DEF Times
  <2>5. u = Foreign(t)
    BY DEF u
  <2>6. on = FALSE
    BY <1>3
  <2>7. Enters(u) = on /\ Times(u) <= 1 /\ Foreign(u) = Foreign(t)
    <3>1. Enters(u) = on
      BY <2>2, <2>6
    <3>2. QED
      BY <2>3, <2>4, <2>5, <3>1
  <2>8. QED
    BY <2>1, <2>7
<1>4. QED
  BY <1>2, <1>3

(* The check box takes effect on a table that nobody changed since it was  *)
(* read: assign_autostart and revoke_autostart install a copy that differs *)
(* from it in nothing but the entry.                                       *)
THEOREM TogglesTurn == Spec => ToggleTurns
<1> DEFINE A == Install(TRUE) /\ edit.got = table =>
                  /\ Enters(table') = edit.on
                  /\ Times(table') <= 1
                  /\ Foreign(table') = Foreign(table)
<1>1. Inv => A
  <2> SUFFICES ASSUME Inv, Install(TRUE), edit.got = table
               PROVE  /\ Enters(table') = edit.on
                      /\ Times(table') <= 1
                      /\ Foreign(table') = Foreign(table)
    OBVIOUS
  <2>1. edit.phase = "write" /\ table' = edit.new
    BY DEF Install
  <2>2. edit.on \in BOOLEAN /\ table \in Seq(Lines)
    BY <2>1, EditPhases DEF Inv, Editing
  <2>3. edit.new = Copy(table, edit.on) /\ Enters(table) # edit.on
    BY <2>1 DEF Inv, Editing, Written
  <2>4. QED
    BY <2>1, <2>2, <2>3, CopyTurns
<1>2. QED
  BY <1>1, Invariant, PTL DEF ToggleTurns
=============================================================================

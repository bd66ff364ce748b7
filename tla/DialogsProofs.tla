--------------------------- MODULE DialogsProofs ---------------------------
(***************************************************************************)
(* Theorems about module Dialogs and what it is made of: the editor with   *)
(* its shots and its window, the picker's digits, and the Wi-Fi screens,   *)
(* for any scales, any names, any moments and any scans.                   *)
(***************************************************************************)
EXTENDS Dialogs, WifiProofs

-------------------------------------------------------------------------------
(* Lists and scales *)

LEMMA LeastOf ==
    ASSUME NEW I \in SUBSET Nat, I # {}
    PROVE  Min(I) \in I
  BY LeastNumber DEF Min

\* A value is cycled to one that the list has.
LEMMA CycleStays ==
    ASSUME NEW S, NEW values \in Seq(S), values # <<>>, NEW v, NEW d \in {-1, 1}
    PROVE  /\ Cycle(v, values, d) \in S
           /\ \E j \in DOMAIN values : Cycle(v, values, d) = values[j]
<1> DEFINE n == Len(values)
           I == {i \in 1..n :
                   IF v \in Range(values) THEN values[i] = v
                   ELSE /\ values[i] \in Range(values) \ {0}
                        /\ \A u \in Range(values) \ {0} : Abs(values[i] - v) <= Abs(u - v)}
           at == Place(v, values)
<1>1. n \in Nat \ {0} /\ DOMAIN values = 1..n
  BY LenProperties, EmptySeq
<1>2. at = IF I # {} THEN Min(I) ELSE 0
  BY DEF Place, SelectInSeq
<1>3. at \in 0..n
  <2>1. I \in SUBSET Nat
    BY <1>1
  <2>2. I # {} => Min(I) \in I
    BY <2>1, LeastOf
  <2> HIDE DEF at
  <2> QED
    BY <1>1, <1>2, <2>2
<1> HIDE DEF at
<1> DEFINE j == ((at - 1 + d) % n) + 1
<1>4. j \in 1..n
  <2> HIDE DEF n
  <2> QED
    BY <1>1, <1>3
<1>5. Cycle(v, values, d) = values[j]
  BY DEF Cycle, at
<1> HIDE DEF j
<1> QED
  BY <1>1, <1>4, <1>5, ElementOfSeq

\* An ascending scale lies between its ends.
Ascends(values) ==
    /\ values \in Seq(Nat \ {0}) /\ values # <<>>
    /\ \A i, j \in DOMAIN values : i < j => values[i] < values[j]

LEMMA ScaleBetween ==
    ASSUME NEW values, Ascends(values), NEW j \in DOMAIN values
    PROVE  /\ values[j] \in values[1]..Last(values) /\ values[j] \in Nat \ {0}
           /\ values[1] \in Nat \ {0} /\ Last(values) \in Nat \ {0}
<1> DEFINE n == Len(values)
<1>1. /\ n \in Nat \ {0} /\ DOMAIN values = 1..n
      /\ \A i \in 1..n : values[i] \in Nat \ {0}
      /\ \A i, k \in 1..n : i < k => values[i] < values[k]
  BY LenProperties, EmptySeq, ElementOfSeq DEF Ascends
<1>2. Last(values) = values[n]
  BY DEF Last
<1> HIDE DEF n
<1>3. 1 \in 1..n /\ n \in 1..n /\ j \in 1..n
  BY <1>1
<1>4. values[1] <= values[j]
  BY <1>1, <1>3
<1>5. values[j] <= values[n]
  BY <1>1, <1>3
<1> QED
  BY <1>1, <1>2, <1>3, <1>4, <1>5

LEMMA ScalesAscend == Ascends(Shutters) /\ Ascends(Isos)
  BY EditorAssumption DEF Ascends

\* A shot within the range of the scales, on them or not.
GridShot ==
    {s \in Shot : /\ s.shutter \in Shutters[1]..Last(Shutters)
                  /\ s.iso \in Isos[1]..Last(Isos)}

LEMMA DefaultInGrid == Default \in GridShot
<1>1. <<Default>> \in Seq(Shot) /\ Saveable(<<Default>>)
  BY ShotsAssumption
<1>2. 1 \in DOMAIN <<Default>> /\ <<Default>>[1] = Default
  OBVIOUS
<1>3. Len(<<Default>>) = 1
  OBVIOUS
<1>4. Default \in Shot
  BY <1>1, <1>2, <1>3, ElementOfSeq
<1> QED
  BY <1>1, <1>2, <1>4 DEF Saveable, GridShot

LEMMA SaveableInGrid ==
    ASSUME NEW s
    PROVE  s \in Seq(Shot) /\ Saveable(s) <=> s \in Seq(GridShot) /\ Len(s) <= MaxShots
<1>1. ASSUME s \in Seq(Shot), Saveable(s)
      PROVE  s \in Seq(GridShot) /\ Len(s) <= MaxShots
  <2>1. Len(s) \in Nat /\ DOMAIN s = 1..Len(s) /\ s \in [1..Len(s) -> Shot]
    BY <1>1, LenProperties
  <2>2. \A i \in 1..Len(s) : s[i] \in GridShot
    BY <1>1, <2>1 DEF Saveable, GridShot
  <2>3. s \in [1..Len(s) -> GridShot]
    BY <2>1, <2>2
  <2> QED
    BY <1>1, <2>1, <2>3, SeqDef DEF Saveable
<1>2. ASSUME s \in Seq(GridShot), Len(s) <= MaxShots
      PROVE  s \in Seq(Shot) /\ Saveable(s)
  <2>1. GridShot \subseteq Shot
    BY DEF GridShot
  <2>2. s \in Seq(Shot)
    BY <1>2, <2>1, SeqMonotonic
  <2>3. \A i \in DOMAIN s : s[i] \in GridShot
    BY <1>2, LenProperties, ElementOfSeq
  <2> QED
    BY <1>2, <2>2, <2>3 DEF Saveable, GridShot
<1> QED
  BY <1>1, <1>2

-------------------------------------------------------------------------------
(* The generator *)

Generators ==
    [ref : GridShot, brightest : BOOLEAN, step : Nat, n : 0..MaxShots,
     iso1 : Isos[1]..Last(Isos), iso2 : {0} \cup (Isos[1]..Last(Isos))]

LEMMA PowerOfTwo ==
    ASSUME NEW n \in Nat
    PROVE  2^n \in Nat
<1>1. IsFiniteSet(1..n) /\ Cardinality(1..n) = n
  BY Places, Zenon
<1>2. Cardinality(SUBSET (1..n)) = 2^n /\ IsFiniteSet(SUBSET (1..n))
  BY <1>1, FS_SUBSET
<1> QED
  BY <1>2, FS_CardinalityType

\* The scale has a value that is nearest.
LEMMA SnapOnScale ==
    ASSUME NEW num \in Nat, NEW den \in Nat
    PROVE  Snap(num, den) \in Nat \ {0} /\ Snap(num, den) \in Shutters[1]..Last(Shutters)
<1> DEFINE n == Len(Shutters)
           far(v) == Abs(v * den - num)
           I == {i \in 1..n : \A u \in Range(Shutters) : far(Shutters[i]) <= far(u)}
           T == {far(Shutters[i]) : i \in 1..n}
<1>1. /\ n \in Nat \ {0} /\ DOMAIN Shutters = 1..n
      /\ \A i \in 1..n : Shutters[i] \in Nat
  BY ScalesAscend, LenProperties, EmptySeq, ElementOfSeq DEF Ascends
<1>2. \A v \in Nat : far(v) \in Nat
  <2> SUFFICES ASSUME NEW v \in Nat
               PROVE  far(v) \in Nat
    OBVIOUS
  <2> DEFINE p == v * den
  <2>1. p \in Nat
    OBVIOUS
  <2> HIDE DEF p
  <2>2. Abs(p - num) \in Nat
    BY <2>1 DEF Abs
  <2> QED
    BY <2>2 DEF p
<1> HIDE DEF far
<1>3. T \in SUBSET Nat
  BY <1>1, <1>2
<1>4. T # {}
  BY <1>1
<1>5. PICK t \in T : \A u \in T : t <= u
  BY <1>3, <1>4, LeastNumber
<1>6. PICK i \in 1..n : t = far(Shutters[i])
  BY <1>5
<1>7. \A u \in Range(Shutters) : far(Shutters[i]) <= far(u)
  BY <1>1, <1>5, <1>6 DEF Range
<1>8. I # {} /\ I \in SUBSET Nat
  BY <1>1, <1>7
<1>9. Min(I) \in I
  BY <1>8, LeastOf
<1>10. Snap(num, den) = Shutters[Min(I)]
  BY <1>8 DEF Snap, SelectInSeq, far
<1> QED
  BY <1>1, <1>9, <1>10, ScalesAscend, ScaleBetween

LEMMA CandidatesInGrid ==
    ASSUME NEW g \in Generators, NEW k \in Nat
    PROVE  Candidates(g, k) \subseteq GridShot
<1> DEFINE lo == Isos[1]
           hi == Last(Isos)
<1>1. lo \in Nat \ {0} /\ hi \in Nat \ {0}
  <2>1. 1 \in DOMAIN Isos
    BY ScalesAscend, LenProperties, EmptySeq DEF Ascends
  <2> QED
    BY <2>1, ScalesAscend, ScaleBetween
<1>2. Eligible(g) \subseteq lo..hi
  BY DEF Eligible, Generators
<1>3. Num(g, k) \in Nat /\ Den(g, k) \in Nat
  <2>1. g.step \in Nat /\ g.ref \in Shot
    BY DEF Generators, GridShot
  <2>2. g.step * k \in Nat
    BY <2>1
  <2>3. 2^(g.step * k) \in Nat
    BY <2>2, PowerOfTwo
  <2>4. Light(g.ref) \in Nat
    BY <2>1 DEF Light, Shot
  <2> DEFINE p == 2^(g.step * k)
             light == Light(g.ref)
  <2>5. p \in Nat /\ light \in Nat
    BY <2>3, <2>4
  <2>6. Num(g, k) = (IF g.brightest THEN light ELSE light * p)
    BY DEF Num
  <2>7. Den(g, k) = (IF g.brightest THEN p ELSE 1)
    BY DEF Den
  <2> HIDE DEF p, light
  <2> QED
    BY <2>5, <2>6, <2>7
<1> SUFFICES ASSUME NEW s \in Candidates(g, k)
             PROVE  s \in GridShot
  OBVIOUS
<1>4. PICK i \in Eligible(g) :
         s = [shutter |-> Snap(Num(g, k), Den(g, k) * i), iso |-> i,
              aperture |-> g.ref.aperture]
  BY DEF Candidates
<1>5. i \in Nat \ {0} /\ i \in lo..hi
  BY <1>1, <1>2
<1>6. Den(g, k) * i \in Nat
  BY <1>3, <1>5
<1>7. /\ Snap(Num(g, k), Den(g, k) * i) \in Nat \ {0}
      /\ Snap(Num(g, k), Den(g, k) * i) \in Shutters[1]..Last(Shutters)
  BY <1>3, <1>6, SnapOnScale
<1>8. g.ref.aperture \in Nat
  BY DEF Generators, GridShot, Shot
<1> QED
  BY <1>4, <1>5, <1>7, <1>8 DEF GridShot, Shot

\* Of some shots one is the shortest and has the lowest ISO of those.
LEMMA BestIsOne ==
    ASSUME NEW S \in SUBSET Shot, S # {}
    PROVE  Best(S) \in S
<1> DEFINE T == {s.shutter : s \in S}
<1>1. \A s \in S : s.shutter \in Nat /\ s.iso \in Nat
  BY DEF Shot
<1>2. T \in SUBSET Nat /\ T # {}
  BY <1>1
<1>3. PICK t \in T : \A u \in T : t <= u
  BY <1>2, LeastNumber
<1> DEFINE U == {s.iso : s \in {r \in S : r.shutter = t}}
<1>4. U \in SUBSET Nat /\ U # {}
  BY <1>1, <1>3
<1>5. PICK i \in U : \A u \in U : i <= u
  BY <1>4, LeastNumber
<1>6. PICK s \in S : s.shutter = t /\ s.iso = i
  BY <1>5
<1>7. \A r \in S : s.shutter < r.shutter \/ (s.shutter = r.shutter /\ s.iso <= r.iso)
  BY <1>1, <1>3, <1>5, <1>6
<1> QED
  BY <1>6, <1>7 DEF Best

\* The ladder has the reference and at most as many rungs as were asked for, all of them
\* shots that can be saved.
LEMMA LadderInGrid ==
    ASSUME NEW g \in Generators, g.n # 0
    PROVE  Ladder(g) \in Seq(GridShot) /\ Len(Ladder(g)) \in 1..MaxShots
<1> DEFINE F == {k \in 1..(g.n - 1) : Candidates(g, k) # {}}
           c == Cardinality(F)
           nth(j) == CHOOSE k \in F : Cardinality({l \in F : l <= k}) = j
           up == [j \in 1..c |-> Best(Candidates(g, nth(j)))]
           rungs == <<g.ref>> \o up
<1>1. Ladder(g) = IF g.brightest THEN rungs ELSE Reverse(rungs)
  BY DEF Ladder
<1>2. g.n \in 1..MaxShots /\ g.ref \in GridShot /\ MaxShots \in Nat
  BY EditorAssumption DEF Generators
<1>3. /\ IsFiniteSet(F) /\ c \in 0..(g.n - 1)
      /\ \A k \in F : k \in Nat /\ Candidates(g, k) # {}
  <2>0. /\ IsFiniteSet(1..(g.n - 1))
        /\ Cardinality(1..(g.n - 1)) = g.n - 1
    <3>1. g.n - 1 \in Nat
      BY <1>2
    <3> HIDE DEF F, c
    <3> QED
      BY <3>1, Places, Zenon
  <2>1. F \in SUBSET (1..(g.n - 1)) /\ IsFiniteSet(1..(g.n - 1))
    BY <2>0
  <2>2. IsFiniteSet(F) /\ c <= Cardinality(1..(g.n - 1)) /\ c \in Nat
    BY <2>1, FS_Subset, FS_CardinalityType
  <2>3. Cardinality(1..(g.n - 1)) = g.n - 1
    BY <2>0
  <2> HIDE DEF c
  <2>4. c \in 0..(g.n - 1)
    BY <1>2, <2>2, <2>3
  <2>5. \A k \in F : k \in Nat /\ Candidates(g, k) # {}
    BY <1>2
  <2> QED
    BY <2>2, <2>4, <2>5
<1> HIDE DEF F
<1>4. ASSUME NEW j \in 1..c
      PROVE  \E k \in F : Cardinality({l \in F : l <= k}) = j
  <2> DEFINE B == [k \in F |-> {l \in F : l < k}]
  <2>1. /\ B \in [F -> SUBSET F]
        /\ \A k \in F : k \notin B[k]
        /\ \A k \in F : \A l \in B[k] : B[l] \subseteq B[k]
        /\ \A k, l \in F : k # l => k \in B[l] \/ l \in B[k]
    BY <1>3
  <2>2. \A k \in F : B[k] = {l \in F : l < k}
    OBVIOUS
  <2> HIDE DEF B
  <2>3. \A m \in 0..(Cardinality(F) - 1) : \E k \in F : Cardinality(B[k]) = m
    BY <1>3, <2>1, Ranks
  <2>4. j - 1 \in 0..(Cardinality(F) - 1) /\ j \in Int
    BY <1>3
  <2>5. PICK k \in F : Cardinality(B[k]) = j - 1
    BY <2>3, <2>4
  <2>6. {l \in F : l <= k} = B[k] \cup {k} /\ k \notin B[k]
    BY <1>3, <2>2
  <2>7. IsFiniteSet(B[k])
    BY <1>3, <2>1, FS_Subset
  <2>8. Cardinality(B[k] \cup {k}) = Cardinality(B[k]) + 1
    BY <2>6, <2>7, FS_AddElement
  <2>9. Cardinality({l \in F : l <= k}) = j
    BY <2>4, <2>5, <2>6, <2>8
  <2> QED
    BY <2>9
<1>5. \A j \in 1..c : nth(j) \in F
  BY <1>4
<1> HIDE DEF nth
<1>6. \A j \in 1..c : Best(Candidates(g, nth(j))) \in GridShot
  <2> SUFFICES ASSUME NEW j \in 1..c
               PROVE  Best(Candidates(g, nth(j))) \in GridShot
    OBVIOUS
  <2>1. nth(j) \in Nat /\ Candidates(g, nth(j)) # {}
    BY <1>3, <1>5
  <2>2. Candidates(g, nth(j)) \subseteq GridShot
    BY <2>1, CandidatesInGrid
  <2>3. Candidates(g, nth(j)) \in SUBSET Shot
    BY <2>2 DEF GridShot
  <2> QED
    BY <2>1, <2>2, <2>3, BestIsOne
<1>7. up \in Seq(GridShot) /\ Len(up) = c
  <2> DEFINE e(j) == Best(Candidates(g, nth(j)))
  <2>1. c \in Nat
    BY <1>2, <1>3
  <2> HIDE DEF c, e
  <2>2. [j \in 1..c |-> e(j)] \in Seq(GridShot)
    BY <1>6, <2>1, IsASeq DEF e
  <2>3. up = [j \in 1..c |-> e(j)]
    BY DEF e
  <2>4. DOMAIN up = 1..c /\ DOMAIN up = 1..Len(up) /\ Len(up) \in Nat
    BY <2>2, <2>3, LenProperties
  <2> HIDE DEF up
  <2> QED
    BY <2>1, <2>2, <2>3, <2>4
<1> HIDE DEF up, c
<1>8. <<g.ref>> \in Seq(GridShot) /\ Len(<<g.ref>>) = 1
  BY <1>2
<1>9. rungs \in Seq(GridShot) /\ Len(rungs) = Len(<<g.ref>>) + Len(up)
  BY <1>7, <1>8, ConcatProperties
<1> HIDE DEF rungs
<1>10. Len(rungs) \in 1..MaxShots
  BY <1>2, <1>3, <1>7, <1>8, <1>9
<1>11. Reverse(rungs) \in Seq(GridShot) /\ Len(Reverse(rungs)) = Len(rungs)
  <2> DEFINE n == Len(rungs)
             e(i) == rungs[(n - i) + 1]
  <2>1. n \in Nat
    BY <1>10, <1>2
  <2>2. \A i \in 1..n : (n - i) + 1 \in 1..n
    BY <2>1
  <2>3. \A i \in 1..n : e(i) \in GridShot
    BY <1>9, <2>2, ElementOfSeq
  <2>4. Reverse(rungs) = [i \in 1..n |-> e(i)]
    BY DEF Reverse
  <2> HIDE DEF e, n
  <2>5. [i \in 1..n |-> e(i)] \in Seq(GridShot)
    BY <2>1, <2>3, IsASeq
  <2>6. DOMAIN Reverse(rungs) = 1..n /\ Reverse(rungs) \in Seq(GridShot)
    BY <2>4, <2>5
  <2>7. DOMAIN Reverse(rungs) = 1..Len(Reverse(rungs)) /\ Len(Reverse(rungs)) \in Nat
    BY <2>6, LenProperties
  <2>8. Len(Reverse(rungs)) = n
    BY <2>1, <2>6, <2>7
  <2> QED
    BY <2>6, <2>8 DEF n
<1> QED
  BY <1>1, <1>9, <1>10, <1>11

-------------------------------------------------------------------------------
(* The shots and their snapshot *)

\* The shots of s, and after them what r has beyond.
Merge(s, r) == s \o SubSeq(r, Len(s) + 1, Len(r))

LEMMA MergeProperties ==
    ASSUME NEW S, NEW s \in Seq(S), NEW r \in Seq(S)
    PROVE  /\ Merge(s, r) \in Seq(S)
           /\ Len(Merge(s, r)) = IF Len(s) >= Len(r) THEN Len(s) ELSE Len(r)
           /\ \A i \in 1..Len(Merge(s, r)) :
                  Merge(s, r)[i] = IF i <= Len(s) THEN s[i] ELSE r[i]
<1> DEFINE a == Len(s)
           b == Len(r)
           t == SubSeq(r, a + 1, b)
<1>1. a \in Nat /\ b \in Nat /\ \A i \in 1..b : r[i] \in S
  BY LenProperties, ElementOfSeq
<1>2. \A i \in (a + 1)..b : r[i] \in S
  BY <1>1
<1>3. /\ t \in Seq(S) /\ Len(t) = IF a + 1 <= b THEN b - (a + 1) + 1 ELSE 0
      /\ \A i \in 1..(b - (a + 1) + 1) : t[i] = r[(a + 1) + i - 1]
  <2> HIDE DEF a, b
  <2> QED
    BY <1>1, <1>2, SubSeqProperties
<1>4. Merge(s, r) = s \o t
  BY DEF Merge
<1> HIDE DEF t
<1>5. /\ s \o t \in Seq(S) /\ Len(s \o t) = a + Len(t)
      /\ \A i \in 1..(a + Len(t)) : (s \o t)[i] = IF i <= a THEN s[i] ELSE t[i - a]
  BY <1>3, ConcatProperties
<1> HIDE DEF a, b
<1>6. Len(t) = IF a >= b THEN 0 ELSE b - a
  BY <1>1, <1>3
<1>7. Len(s \o t) = IF a >= b THEN a ELSE b
  BY <1>1, <1>5, <1>6
<1>8. ASSUME NEW i \in 1..Len(s \o t)
      PROVE  (s \o t)[i] = IF i <= a THEN s[i] ELSE r[i]
  <2>1. (s \o t)[i] = IF i <= a THEN s[i] ELSE t[i - a]
    BY <1>5
  <2>2. CASE ~(i <= a)
    <3>1. i - a \in 1..(b - (a + 1) + 1) /\ (a + 1) + (i - a) - 1 = i
      BY <1>1, <1>7, <2>2
    <3>2. t[i - a] = r[i]
      BY <1>3, <3>1
    <3> QED
      BY <2>1, <2>2, <3>2
  <2>3. CASE i <= a
    BY <2>1, <2>3
  <2> QED
    BY <2>2, <2>3
<1> QED
  BY <1>4, <1>5, <1>7, <1>8 DEF a, b

\* The number of shots that is asked for, the first of them those of the snapshot.
LEMMA RestoreProperties ==
    ASSUME NEW S, NEW snap \in Seq(S), snap # <<>>, NEW n \in Nat
    PROVE  /\ Restore(snap, n) \in Seq(S)
           /\ Len(Restore(snap, n)) = n
           /\ \A i \in 1..n : i <= Len(snap) => Restore(snap, n)[i] = snap[i]
<1> DEFINE m == Len(snap)
<1>1. m \in Nat \ {0} /\ \A i \in 1..m : snap[i] \in S
  BY LenProperties, ElementOfSeq, EmptySeq
<1>2. CASE n <= m
  <2>1. Restore(snap, n) = SubSeq(snap, 1, n)
    BY <1>2 DEF Restore
  <2>2. \A i \in 1..n : snap[i] \in S
    BY <1>1, <1>2
  <2>3. /\ SubSeq(snap, 1, n) \in Seq(S)
        /\ Len(SubSeq(snap, 1, n)) = IF 1 <= n THEN n - 1 + 1 ELSE 0
        /\ \A i \in 1..(n - 1 + 1) : SubSeq(snap, 1, n)[i] = snap[1 + i - 1]
    BY <2>2, SubSeqProperties
  <2> HIDE DEF m
  <2>4. Len(SubSeq(snap, 1, n)) = n
    BY <2>3
  <2>5. \A i \in 1..n : i \in 1..(n - 1 + 1) /\ 1 + i - 1 = i
    OBVIOUS
  <2>6. \A i \in 1..n : SubSeq(snap, 1, n)[i] = snap[i]
    BY <2>3, <2>5
  <2> QED
    BY <2>1, <2>3, <2>4, <2>6
<1>3. CASE ~(n <= m)
  <2> DEFINE more == [i \in 1..(n - m) |-> Last(snap)]
  <2>1. Restore(snap, n) = snap \o more
    BY <1>3 DEF Restore
  <2>2. n - m \in Nat /\ Last(snap) \in S
    BY <1>1, <1>3 DEF Last
  <2> HIDE DEF m
  <2>3. more \in Seq(S)
    <3>1. \A i \in 1..(n - m) : Last(snap) \in S
      BY <2>2
    <3> QED
      BY <2>2, <3>1, IsASeq
  <2>4. DOMAIN more = 1..(n - m) /\ DOMAIN more = 1..Len(more) /\ Len(more) \in Nat
    BY <2>3, LenProperties
  <2> HIDE DEF more
  <2>5. Len(more) = n - m
    BY <2>2, <2>4
  <2>6. /\ snap \o more \in Seq(S) /\ Len(snap \o more) = Len(snap) + Len(more)
        /\ \A i \in 1..(Len(snap) + Len(more)) :
               (snap \o more)[i] = IF i <= Len(snap) THEN snap[i] ELSE more[i - Len(snap)]
    BY <2>3, ConcatProperties
  <2>7. Len(snap) + Len(more) = n
    BY <1>1, <2>5 DEF m
  <2> QED
    BY <2>1, <2>6, <2>7
<1> QED
  BY <1>2, <1>3

-------------------------------------------------------------------------------
(* The editor's invariant *)

IsDraft(s) == s \in Seq(GridShot) /\ Len(s) <= MaxShots

\* What the operator last made of the shots is the beginning of what there is of them, in
\* the draft or trimmed from it.
ShotsInv ==
    /\ IsDraft(shots) /\ IsDraft(snapshot) /\ IsDraft(base)
    /\ Len(base) <= Len(Merged)
    /\ \A i \in 1..Len(base) : base[i] = Merged[i]

WindowInv ==
    /\ cursor \in 0..(Rows(shots) - 1)
    /\ scroll \in Nat /\ scroll <= cursor /\ cursor < scroll + Visible

\* The generator is open on the row that opened it, and makes a shot at least.
GeneratorInv ==
    /\ gen \in Generators
    /\ screen = "bracket_gen" => cursor = GenerateRow /\ gen.n # 0

BoundsInv ==
    edits \in 0..MaxEdits /\ ladders \in 0..MaxLadders /\ fields \in 0..MaxFields

LEMMA MergedIsMerge == Merged = Merge(shots, snapshot)
  BY DEF Merged, Merge

\* The draft's shots are among those there are of it.
LEMMA MergedFacts ==
    ASSUME ShotsInv
    PROVE  /\ IsDraft(Merged)
           /\ Len(shots) \in Nat /\ Len(snapshot) \in Nat /\ Len(base) \in Nat
           /\ Len(shots) <= Len(Merged)
           /\ \A i \in 1..Len(shots) : Merged[i] = shots[i]
<1>1. Len(shots) \in Nat /\ Len(snapshot) \in Nat /\ Len(base) \in Nat
  BY LenProperties DEF ShotsInv, IsDraft
<1>2. shots \in Seq(GridShot) /\ snapshot \in Seq(GridShot)
  BY DEF ShotsInv, IsDraft
<1>3. /\ Merged \in Seq(GridShot)
      /\ Len(Merged) = IF Len(shots) >= Len(snapshot) THEN Len(shots) ELSE Len(snapshot)
      /\ \A i \in 1..Len(Merged) : Merged[i] = IF i <= Len(shots) THEN shots[i] ELSE snapshot[i]
  BY <1>2, MergedIsMerge, MergeProperties
<1>4. Len(shots) <= MaxShots /\ Len(snapshot) <= MaxShots
  BY DEF ShotsInv, IsDraft
<1> QED
  BY <1>1, <1>3, <1>4 DEF IsDraft

LEMMA KeptFromInv ==
    ASSUME ShotsInv
    PROVE  ShotsKept
<1>1. DOMAIN shots = 1..Len(shots) /\ DOMAIN base = 1..Len(base)
  BY LenProperties DEF ShotsInv, IsDraft
<1> QED
  BY <1>1, MergedFacts DEF ShotsInv, ShotsKept

LEMMA ShownFromInv ==
    ASSUME WindowInv
    PROVE  CursorShown
  BY EditorAssumption DEF WindowInv, CursorShown

-------------------------------------------------------------------------------
(* The shots *)

\* Any number of the shots there are may be shown.
Shows(n, snap, list2) ==
    /\ snap = IF Merged = <<>> /\ n # 0 THEN <<Default>> ELSE Merged
    /\ list2 = IF n = 0 THEN <<>> ELSE Restore(snap, n)

LEMMA CyclingKeeps ==
    ASSUME ShotsInv, NEW n \in 0..MaxShots, NEW snap, NEW list2, Shows(n, snap, list2)
    PROVE  /\ IsDraft(snap) /\ IsDraft(list2)
           /\ Len(base) <= Len(Merge(list2, snap))
           /\ \A i \in 1..Len(base) : base[i] = Merge(list2, snap)[i]
<1>1. IsDraft(Merged) /\ Len(base) \in Nat
  BY MergedFacts
<1>2. snap \in Seq(GridShot) /\ Len(snap) <= MaxShots /\ (n # 0 => snap # <<>>)
  <2>1. CASE Merged = <<>> /\ n # 0
    <3>1. <<Default>> \in Seq(GridShot) /\ Len(<<Default>>) = 1
      BY DefaultInGrid
    <3>2. <<>> \in Seq(GridShot) /\ Len(<<>>) = 0
      BY EmptySeq
    <3>3. <<Default>> # <<>>
      BY <3>1, <3>2
    <3> QED
      BY <2>1, <3>1, <3>3, EditorAssumption DEF Shows
  <2>2. CASE ~(Merged = <<>> /\ n # 0)
    BY <1>1, <2>2 DEF IsDraft, Shows
  <2> QED
    BY <2>1, <2>2
<1>3. /\ list2 \in Seq(GridShot) /\ Len(list2) = n
      /\ \A i \in 1..n : i <= Len(snap) => list2[i] = snap[i]
  <2>1. CASE n = 0
    BY <2>1, EmptySeq DEF Shows
  <2>2. CASE n # 0
    <3>1. n \in Nat /\ snap # <<>> /\ snap \in Seq(GridShot) /\ list2 = Restore(snap, n)
      <4>1. n \in Nat
        BY EditorAssumption
      <4>2. list2 = Restore(snap, n)
        BY <2>2 DEF Shows
      <4> QED
        BY <1>2, <2>2, <4>1, <4>2
    <3> QED
      BY <3>1, RestoreProperties
  <2> QED
    BY <2>1, <2>2
<1>4. Len(snap) \in Nat
  BY <1>2, LenProperties
<1>5. /\ Len(Merge(list2, snap)) = IF n >= Len(snap) THEN n ELSE Len(snap)
      /\ \A i \in 1..Len(Merge(list2, snap)) :
             Merge(list2, snap)[i] = IF i <= n THEN list2[i] ELSE snap[i]
  <2>1. snap \in Seq(GridShot) /\ list2 \in Seq(GridShot)
    BY <1>2, <1>3
  <2>2. /\ Len(Merge(list2, snap)) = IF Len(list2) >= Len(snap) THEN Len(list2) ELSE Len(snap)
        /\ \A i \in 1..Len(Merge(list2, snap)) :
               Merge(list2, snap)[i] = IF i <= Len(list2) THEN list2[i] ELSE snap[i]
    BY <2>1, MergeProperties
  <2>3. Len(list2) = n
    BY <1>3
  <2> QED
    BY <2>2, <2>3, Zenon
<1>6. Len(snap) <= Len(Merge(list2, snap))
      /\ \A i \in 1..Len(snap) : Merge(list2, snap)[i] = snap[i]
  BY <1>3, <1>4, <1>5
<1>7. Len(base) <= Len(snap) /\ \A i \in 1..Len(base) : base[i] = snap[i]
  <2>1. CASE Merged = <<>> /\ n # 0
    <3>1. Len(Merged) = 0
      BY <2>1, EmptySeq
    <3>2. Len(base) = 0
      BY <1>1, <3>1 DEF ShotsInv
    <3> QED
      BY <1>4, <3>2
  <2>2. CASE ~(Merged = <<>> /\ n # 0)
    BY <2>2 DEF ShotsInv, Shows
  <2> QED
    BY <2>1, <2>2
<1>8. Len(base) <= Len(Merge(list2, snap))
      /\ \A i \in 1..Len(base) : base[i] = Merge(list2, snap)[i]
  BY <1>1, <1>4, <1>5, <1>6, <1>7
<1>9. IsDraft(list2)
  BY <1>3 DEF IsDraft
<1> QED
  BY <1>2, <1>8, <1>9 DEF IsDraft

LEMMA CycleShotsKeeps ==
    ASSUME ShotsInv, NEW d \in {-1, 1}, CycleShots(d)
    PROVE  ShotsInv' /\ Len(shots') \in Nat
<1> DEFINE n == (Len(shots) + d) % (MaxShots + 1)
           snap == IF Merged = <<>> /\ n # 0 THEN <<Default>> ELSE Merged
           list2 == IF n = 0 THEN <<>> ELSE Restore(snap, n)
<1>1. shots' = list2 /\ snapshot' = snap /\ base' = base
  BY DEF CycleShots
<1>2. n \in 0..MaxShots
  <2> DEFINE a == Len(shots) + d
             m == MaxShots + 1
  <2>1. a \in Int /\ m \in Nat \ {0} /\ MaxShots = m - 1
    BY MergedFacts, EditorAssumption
  <2> HIDE DEF a, m
  <2>2. a % m \in 0..(m - 1)
    BY <2>1
  <2> QED
    BY <2>1, <2>2 DEF a, m
<1> HIDE DEF n
<1>3. /\ IsDraft(snap) /\ IsDraft(list2)
      /\ Len(base) <= Len(Merge(list2, snap))
      /\ \A i \in 1..Len(base) : base[i] = Merge(list2, snap)[i]
  <2>1. Shows(n, snap, list2)
    BY DEF Shows
  <2> HIDE DEF snap, list2
  <2> QED
    BY <1>2, <2>1, CyclingKeeps
<1> HIDE DEF snap, list2
<1>4. Merged' = Merge(list2, snap)
  BY <1>1 DEF Merged, Merge
<1>5. Len(shots') \in Nat
  BY <1>1, <1>3, LenProperties DEF IsDraft
<1> QED
  BY <1>1, <1>3, <1>4, <1>5 DEF ShotsInv

\* A value of a shot is cycled to one in the same range.
LEMMA ParamInGrid ==
    ASSUME NEW s \in GridShot, NEW p \in {"shutter", "iso", "aperture"}, NEW d \in {-1, 1}
    PROVE  [s EXCEPT ![p] = Cycle(@, Values[p], d)] \in GridShot
<1> DEFINE v == Cycle(s[p], Values[p], d)
<1>1. CASE p = "shutter"
  <2>1. v = Cycle(s.shutter, Shutters, d)
    BY <1>1 DEF Values
  <2>2. \E j \in DOMAIN Shutters : v = Shutters[j]
    BY <2>1, ScalesAscend, CycleStays DEF Ascends
  <2>3. v \in Shutters[1]..Last(Shutters) /\ v \in Nat \ {0}
    BY <2>2, ScalesAscend, ScaleBetween
  <2> HIDE DEF v
  <2>4. [s EXCEPT !.shutter = v] \in GridShot
    BY <2>3 DEF GridShot, Shot
  <2> QED
    BY <1>1, <2>4 DEF v
<1>2. CASE p = "iso"
  <2>1. v = Cycle(s.iso, Isos, d)
    BY <1>2 DEF Values
  <2>2. \E j \in DOMAIN Isos : v = Isos[j]
    BY <2>1, ScalesAscend, CycleStays DEF Ascends
  <2>3. v \in Isos[1]..Last(Isos) /\ v \in Nat \ {0}
    BY <2>2, ScalesAscend, ScaleBetween
  <2> HIDE DEF v
  <2>4. [s EXCEPT !.iso = v] \in GridShot
    BY <2>3 DEF GridShot, Shot
  <2> QED
    BY <1>2, <2>4 DEF v
<1>3. CASE p = "aperture"
  <2>1. v = Cycle(s.aperture, Apertures, d)
    BY <1>3 DEF Values
  <2>2. v \in Nat
    BY <2>1, EditorAssumption, CycleStays
  <2> HIDE DEF v
  <2>3. [s EXCEPT !.aperture = v] \in GridShot
    BY <2>2 DEF GridShot, Shot
  <2> QED
    BY <1>3, <2>3 DEF v
<1> QED
  BY <1>1, <1>2, <1>3

LEMMA CycleParamKeeps ==
    ASSUME ShotsInv, WindowInv, NEW d \in {-1, 1}, CycleParam(d)
    PROVE  ShotsInv' /\ Len(shots') = Len(shots)
<1> DEFINE n == Len(shots)
           i == ShotAt(cursor)
           p == ParamAt(cursor)
           e == [shots[i] EXCEPT ![p] = Cycle(@, Values[p], d)]
<1>1. /\ shots' = [shots EXCEPT ![i] = e]
      /\ base' = IF Len(base) < Len(shots) THEN shots' ELSE [base EXCEPT ![i] = shots'[i]]
      /\ snapshot' = snapshot /\ cursor > 5
  BY DEF CycleParam, GenerateRow
<1>2. n \in Nat /\ shots \in Seq(GridShot) /\ n <= MaxShots
      /\ base \in Seq(GridShot) /\ Len(base) <= MaxShots /\ Len(base) \in Nat
  BY MergedFacts DEF ShotsInv, IsDraft
<1>3. cursor \in 6..(5 + 3 * n)
  BY <1>1, <1>2 DEF WindowInv, Rows
<1> HIDE DEF n
<1>4. i \in 1..n
  BY <1>2, <1>3 DEF ShotAt
<1>5. p \in {"shutter", "iso", "aperture"}
  <2>1. ((cursor - 6) % 3) + 1 \in 1..3
    BY <1>2, <1>3
  <2> QED
    BY <2>1 DEF ParamAt
<1> HIDE DEF i, p
<1>6. shots[i] \in GridShot
  BY <1>2, <1>4, ElementOfSeq DEF n
<1>7. e \in GridShot
  BY <1>5, <1>6, ParamInGrid
<1> HIDE DEF e
<1>8. /\ shots' \in Seq(GridShot) /\ Len(shots') = n
      /\ \A j \in 1..n : shots'[j] = IF j = i THEN e ELSE shots[j]
  BY <1>1, <1>2, <1>4, <1>7, ExceptSeq DEF n
<1>9. /\ Merged' \in Seq(GridShot)
      /\ Len(Merged') = IF n >= Len(snapshot) THEN n ELSE Len(snapshot)
      /\ \A j \in 1..Len(Merged') :
             Merged'[j] = IF j <= n THEN shots'[j] ELSE snapshot[j]
  <2>1. Merged' = Merge(shots', snapshot)
    BY <1>1 DEF Merged, Merge
  <2> QED
    BY <1>8, <2>1, MergeProperties DEF ShotsInv, IsDraft
<1>10. /\ Len(Merged) = IF n >= Len(snapshot) THEN n ELSE Len(snapshot)
       /\ \A j \in 1..Len(Merged) : Merged[j] = IF j <= n THEN shots[j] ELSE snapshot[j]
  BY <1>2, MergedIsMerge, MergeProperties DEF ShotsInv, IsDraft, n
<1>11. Len(snapshot) \in Nat /\ Len(base) <= Len(Merged)
       /\ \A j \in 1..Len(base) : base[j] = Merged[j]
  BY MergedFacts DEF ShotsInv
<1>12. CASE Len(base) < n
  <2>1. base' = shots'
    BY <1>1, <1>12 DEF n
  <2>2. IsDraft(shots') /\ IsDraft(base') /\ IsDraft(snapshot')
    BY <1>1, <1>2, <1>8, <2>1 DEF IsDraft, ShotsInv
  <2>3. Len(base') <= Len(Merged') /\ \A j \in 1..Len(base') : base'[j] = Merged'[j]
    <3>1. Len(base') = n /\ n \in Nat
      BY <1>2, <1>8, <2>1
    <3>2. n <= Len(Merged') /\ Len(Merged') \in Nat
      BY <1>9, <1>11, <3>1
    <3>3. \A j \in 1..n : j \in 1..Len(Merged') /\ j <= n
      BY <3>1, <3>2
    <3>4. \A j \in 1..n : base'[j] = Merged'[j]
      BY <1>9, <2>1, <3>3, Zenon
    <3> QED
      BY <3>1, <3>2, <3>4, Zenon
  <2> QED
    BY <1>8, <2>2, <2>3 DEF ShotsInv, n
<1>13. CASE ~(Len(base) < n)
  <2>1. base' = [base EXCEPT ![i] = e]
    BY <1>1, <1>4, <1>8, <1>13 DEF n
  <2>2. i \in 1..Len(base)
    BY <1>2, <1>4, <1>13
  <2>3. /\ base' \in Seq(GridShot) /\ Len(base') = Len(base)
        /\ \A j \in 1..Len(base) : base'[j] = IF j = i THEN e ELSE base[j]
    BY <1>2, <1>7, <2>1, <2>2, ExceptSeq
  <2>4. IsDraft(shots') /\ IsDraft(base') /\ IsDraft(snapshot')
    BY <1>1, <1>2, <1>8, <2>3 DEF IsDraft, ShotsInv
  <2>5. Len(Merged') = Len(Merged)
    BY <1>9, <1>10
  <2>6. ASSUME NEW j \in 1..Len(base)
        PROVE  base'[j] = Merged'[j]
    <3>1. j \in 1..Len(Merged) /\ j \in 1..Len(Merged')
      BY <1>2, <1>9, <1>11, <2>5
    <3>2. CASE j = i
      BY <1>4, <1>8, <1>9, <2>3, <3>1, <3>2
    <3>3. CASE j # i
      BY <1>2, <1>8, <1>9, <1>10, <1>11, <2>3, <3>1, <3>3
    <3> QED
      BY <3>2, <3>3
  <2>7. Len(base') <= Len(Merged') /\ \A j \in 1..Len(base') : base'[j] = Merged'[j]
    BY <1>11, <2>3, <2>5, <2>6
  <2> QED
    BY <1>8, <2>4, <2>7 DEF ShotsInv, n
<1> QED
  BY <1>12, <1>13

-------------------------------------------------------------------------------
(* The steps of the editor *)

DraftInv ==
    /\ draft \in [original : Listed \cup {NewName}, name : Seq(Chars),
                  interval : Nat \ {0}, start : Moment, end : Moment]
    /\ Len(draft.name) \in 1..Longest["config_name"]
    /\ draft.name \in Listed => draft.name = draft.original
    /\ \A m \in {draft.start, draft.end} : m \in Moments \/ m = NoMoment \/ ValidMoment(m)
    /\ screen = "name_keyboard" =>
           keyboard.target = "config_name" /\ keyboard.taken = Listed \ {draft.name}

EditorInv == ShotsInv /\ WindowInv /\ GeneratorInv /\ BoundsInv /\ DraftInv

\* The window follows the cursor.
LEMMA MoveCursorKeeps ==
    ASSUME ShotsInv, WindowInv, NEW d \in {-1, 1}, MoveCursor(d)
    PROVE  WindowInv'
<1> DEFINE rows == Rows(shots)
<1>1. /\ cursor' = Bound(0, cursor + d, rows - 1)
      /\ scroll' = IF cursor' < scroll THEN cursor'
                   ELSE IF cursor' >= scroll + Visible THEN cursor' - Visible + 1
                   ELSE scroll
      /\ shots' = shots
  BY DEF MoveCursor
<1>2. rows \in Nat /\ rows > 5 /\ Rows(shots') = rows
  BY <1>1, MergedFacts DEF Rows
<1>3. cursor \in 0..(rows - 1) /\ scroll \in Nat /\ scroll <= cursor
      /\ cursor < scroll + Visible
  BY DEF WindowInv
<1> HIDE DEF rows
<1>4. cursor' \in 0..(rows - 1) /\ cursor' \in {cursor - 1, cursor, cursor + 1}
  BY <1>1, <1>2, <1>3 DEF Bound
<1>5. scroll' \in Nat /\ scroll' <= cursor' /\ cursor' < scroll' + Visible
  <2>1. Visible \in Nat /\ Visible > 5
    BY EditorAssumption
  <2>2. cursor' \in Nat
    BY <1>2, <1>4
  <2>3. CASE cursor' < scroll
    BY <1>1, <1>3, <2>1, <2>2, <2>3
  <2>4. CASE ~(cursor' < scroll)
    BY <1>1, <1>3, <2>1, <2>2, <2>4
  <2> QED
    BY <2>3, <2>4
<1> QED
  BY <1>2, <1>4, <1>5 DEF WindowInv

\* The rows above those of the shots are there whatever the shots.
LEMMA WindowStays ==
    ASSUME WindowInv, UNCHANGED <<cursor, scroll>>, Len(shots') \in Nat,
           cursor <= GenerateRow \/ Len(shots') = Len(shots)
    PROVE  WindowInv'
<1>1. cursor \in 0..(Rows(shots') - 1)
  BY DEF WindowInv, Rows, GenerateRow
<1>2. cursor' = cursor /\ scroll' = scroll
  OBVIOUS
<1> QED
  BY <1>1, <1>2 DEF WindowInv

LEMMA NoGenFits == NoGen \in Generators
<1>1. Isos[1] \in Isos[1]..Last(Isos) /\ Isos[1] \in Nat
  <2>1. 1 \in DOMAIN Isos
    BY ScalesAscend, LenProperties, EmptySeq DEF Ascends
  <2> QED
    BY <2>1, ScalesAscend, ScaleBetween
<1>2. Steps[1] \in Nat
  <2>1. Steps \in Seq(Nat) /\ Steps # <<>>
    BY EditorAssumption
  <2>2. 1 \in 1..Len(Steps)
    BY <2>1, LenProperties, EmptySeq
  <2> QED
    BY <2>1, <2>2, ElementOfSeq
<1>3. 0 \in 0..MaxShots
  BY EditorAssumption
<1> QED
  BY <1>1, <1>2, <1>3, DefaultInGrid DEF NoGen, Generators

LEMMA OpenGeneratorFits ==
    ASSUME ShotsInv, OpenGenerator
    PROVE  gen' \in Generators /\ gen'.n # 0
<1> DEFINE ref == IF shots = <<>> THEN Default ELSE shots[1]
<1>1. gen' = [ref |-> ref, brightest |-> FALSE, step |-> Steps[1],
              n |-> Bound(1, 5, MaxShots), iso1 |-> ref.iso, iso2 |-> 0]
  BY DEF OpenGenerator
<1>2. ref \in GridShot
  <2>1. CASE shots = <<>>
    BY <2>1, DefaultInGrid
  <2>2. CASE shots # <<>>
    <3>1. shots \in Seq(GridShot)
      BY DEF ShotsInv, IsDraft
    <3>2. 1 \in 1..Len(shots)
      BY <2>2, <3>1, LenProperties, EmptySeq
    <3> QED
      BY <2>2, <3>1, <3>2, ElementOfSeq
  <2> QED
    BY <2>1, <2>2
<1>3. Bound(1, 5, MaxShots) \in 0..MaxShots /\ Bound(1, 5, MaxShots) # 0
  BY EditorAssumption DEF Bound
<1>4. Steps[1] \in Nat
  BY NoGenFits DEF NoGen, Generators
<1> HIDE DEF ref
<1>5. ref.iso \in Isos[1]..Last(Isos)
  BY <1>2 DEF GridShot
<1>6. gen' \in Generators
  BY <1>1, <1>2, <1>3, <1>4, <1>5 DEF Generators
<1>7. gen'.n = Bound(1, 5, MaxShots)
  BY <1>1
<1> QED
  BY <1>3, <1>6, <1>7

LEMMA CycleFieldFits ==
    ASSUME gen \in Generators, gen.n # 0, NEW d \in {-1, 1}, CycleField(d)
    PROVE  gen' \in Generators /\ gen'.n # 0
<1>1. CASE \E p \in {"shutter", "iso", "aperture"} :
             gen' = [gen EXCEPT !.ref[p] = Cycle(@, Values[p], d)]
  <2>1. PICK p \in {"shutter", "iso", "aperture"} :
          gen' = [gen EXCEPT !.ref[p] = Cycle(@, Values[p], d)]
    BY <1>1
  <2>2. gen.ref \in GridShot
    BY DEF Generators
  <2> DEFINE ref == [gen.ref EXCEPT ![p] = Cycle(@, Values[p], d)]
  <2>3. ref \in GridShot
    BY <2>2, ParamInGrid
  <2>4. gen' = [gen EXCEPT !.ref = ref]
    BY <2>1
  <2> HIDE DEF ref
  <2> QED
    BY <2>3, <2>4 DEF Generators
<1>2. CASE gen' = [gen EXCEPT !.brightest = ~@]
  BY <1>2 DEF Generators
<1>3. CASE gen' = [gen EXCEPT !.step = Cycle(@, Steps, d)]
  <2> DEFINE v == Cycle(gen.step, Steps, d)
  <2>1. v \in Nat
    <3>1. Steps \in Seq(Nat) /\ Steps # <<>>
      BY EditorAssumption
    <3> QED
      BY <3>1, CycleStays
  <2>2. gen' = [gen EXCEPT !.step = v]
    BY <1>3
  <2> HIDE DEF v
  <2> QED
    BY <2>1, <2>2 DEF Generators
<1>4. CASE gen' = [gen EXCEPT !.n = Cycle(@, [i \in 1..MaxShots |-> i], d)]
  <2> DEFINE numbers == [i \in 1..MaxShots |-> i]
             v == Cycle(gen.n, numbers, d)
  <2>1. numbers \in Seq(1..MaxShots) /\ numbers # <<>>
    <3>1. MaxShots \in Nat /\ MaxShots > 0 /\ \A i \in 1..MaxShots : i \in 1..MaxShots
      BY EditorAssumption
    <3>2. numbers \in Seq(1..MaxShots)
      BY <3>1, IsASeq
    <3>3. DOMAIN numbers = 1..MaxShots /\ 1 \in 1..MaxShots
      BY <3>1
    <3>4. DOMAIN <<>> = {}
      OBVIOUS
    <3> HIDE DEF numbers
    <3> QED
      BY <3>2, <3>3, <3>4
  <2> HIDE DEF numbers
  <2>2. v \in 1..MaxShots
    BY <2>1, CycleStays
  <2>3. gen' = [gen EXCEPT !.n = v]
    BY <1>4 DEF numbers
  <2>4. v \in 0..MaxShots /\ v # 0
    <3> HIDE DEF v
    <3> QED
      BY <2>2, EditorAssumption
  <2> HIDE DEF v
  <2>5. gen' \in Generators
    BY <2>3, <2>4 DEF Generators
  <2>6. gen'.n = v
    BY <2>3 DEF Generators
  <2> QED
    BY <2>4, <2>5, <2>6
<1>5. CASE gen' = [gen EXCEPT !.iso1 = Cycle(@, Isos, d)]
  <2> DEFINE v == Cycle(gen.iso1, Isos, d)
  <2>1. \E j \in DOMAIN Isos : v = Isos[j]
    BY ScalesAscend, CycleStays DEF Ascends
  <2>2. v \in Isos[1]..Last(Isos)
    BY <2>1, ScalesAscend, ScaleBetween
  <2>3. gen' = [gen EXCEPT !.iso1 = v]
    BY <1>5
  <2> HIDE DEF v
  <2> QED
    BY <2>2, <2>3 DEF Generators
<1>6. CASE gen' = [gen EXCEPT !.iso2 = Cycle(@, <<0>> \o Isos, d)]
  <2> DEFINE S == {0} \cup (Isos[1]..Last(Isos))
             values == <<0>> \o Isos
             v == Cycle(gen.iso2, values, d)
  <2>1. Isos \in Seq(S)
    <3>1. Isos \in Seq(Nat \ {0}) /\ Ascends(Isos)
      BY ScalesAscend DEF Ascends
    <3>2. \A j \in 1..Len(Isos) : Isos[j] \in S
      BY <3>1, LenProperties, ScaleBetween
    <3>3. Isos = [j \in 1..Len(Isos) |-> Isos[j]] /\ Len(Isos) \in Nat
      BY <3>1, LenProperties
    <3> HIDE DEF S
    <3>4. [j \in 1..Len(Isos) |-> Isos[j]] \in Seq(S)
      BY <3>2, <3>3, IsASeq
    <3> QED
      BY <3>3, <3>4
  <2>2. <<0>> \in Seq(S) /\ Len(<<0>>) = 1
    OBVIOUS
  <2> HIDE DEF S
  <2>3. values \in Seq(S) /\ Len(values) = 1 + Len(Isos) /\ Len(Isos) \in Nat
    BY <2>1, <2>2, ConcatProperties, LenProperties
  <2> HIDE DEF values
  <2>4. values # <<>>
    <3>1. Len(values) # 0
      BY <2>3
    <3>2. Len(<<>>) = 0
      BY EmptySeq
    <3> QED
      BY <3>1, <3>2
  <2>5. v \in S
    BY <2>3, <2>4, CycleStays
  <2>6. gen' = [gen EXCEPT !.iso2 = v]
    BY <1>6 DEF values
  <2> HIDE DEF v
  <2> QED
    BY <2>5, <2>6 DEF Generators, S
<1> QED
  BY <1>1, <1>2, <1>3, <1>4, <1>5, <1>6 DEF CycleField

\* The ladder replaces the shots, and with them what the operator made of them.
LEMMA AcceptKeeps ==
    ASSUME ShotsInv, GeneratorInv, Accept
    PROVE  ShotsInv' /\ Len(shots') \in Nat
<1>1. /\ shots' = Ladder(gen) /\ base' = shots' /\ snapshot' = snapshot
      /\ screen = "bracket_gen"
  BY DEF Accept
<1>2. shots' \in Seq(GridShot) /\ Len(shots') \in 1..MaxShots
  BY <1>1, LadderInGrid DEF GeneratorInv
<1>3. Merged' = Merge(shots', snapshot)
  BY <1>1 DEF Merged, Merge
<1>4. snapshot \in Seq(GridShot) /\ Len(snapshot) \in Nat
  BY LenProperties DEF ShotsInv, IsDraft
<1>5. /\ Len(Merged') = IF Len(shots') >= Len(snapshot) THEN Len(shots') ELSE Len(snapshot)
      /\ \A i \in 1..Len(Merged') :
             Merged'[i] = IF i <= Len(shots') THEN shots'[i] ELSE snapshot[i]
  BY <1>2, <1>3, <1>4, MergeProperties
<1>6. Len(shots') \in Nat /\ Len(shots') <= MaxShots
  BY <1>2, EditorAssumption
<1>7. IsDraft(shots') /\ IsDraft(base') /\ IsDraft(snapshot')
  BY <1>1, <1>2, <1>6 DEF ShotsInv, IsDraft
<1>8. Len(base') <= Len(Merged') /\ \A i \in 1..Len(base') : base'[i] = Merged'[i]
  BY <1>1, <1>4, <1>5, <1>6
<1> QED
  BY <1>6, <1>7, <1>8 DEF ShotsInv

-------------------------------------------------------------------------------
(* The picker *)

Ways == {"none", "time", "date_time"}

\* As many digits as the mode has.
Spells(mode, digits) ==
    /\ digits \in Seq(0..9)
    /\ Len(digits) = IF mode = "none" THEN 0 ELSE IF mode = "time" THEN 6 ELSE 14

Pickers ==
    [target : {"start", "end", "system_clock"}, mode : Ways, digits : Seq(0..9),
     cache : UNION {[M -> Seq(0..9)] : M \in SUBSET Ways}, error : BOOLEAN, cursor : Int]

\* The digits shown, and those of the modes that are not shown, are as they were left.
IsPicker(p, l) ==
    /\ p \in Pickers
    /\ Spells(p.mode, p.digits)
    /\ \A m \in DOMAIN p.cache : Spells(m, p.cache[m])
    /\ p.cursor \in (IF p.target = "system_clock" THEN 0 ELSE -1)..(Len(p.digits) - 1)
    /\ l \in [Ways -> Seq(0..9)]
    /\ l[p.mode] = p.digits
    /\ \A m \in Ways \ {p.mode} :
           l[m] = IF m \in DOMAIN p.cache THEN p.cache[m] ELSE Digits(NoMoment, m)

PickerInv ==
    /\ picker = NoPicker \/ IsPicker(picker, left)
    /\ screen = "picker" <=> picker # NoPicker
    /\ turns \in 0..MaxTurns

LEMMA WaysAreModes == Ways = {Modes[i] : i \in DOMAIN Modes}
<1>1. DOMAIN Modes = 1..3 /\ Modes[1] = "none" /\ Modes[2] = "time" /\ Modes[3] = "date_time"
  BY DEF Modes
<1>2. \A i \in 1..3 : i = 1 \/ i = 2 \/ i = 3
  OBVIOUS
<1> QED
  BY <1>1, <1>2 DEF Ways

LEMMA TwoDigits ==
    ASSUME NEW n \in 0..99
    PROVE  Two(n) \in Seq(0..9) /\ Len(Two(n)) = 2
<1>1. n \div 10 \in 0..9 /\ n % 10 \in 0..9
  OBVIOUS
<1> QED
  BY <1>1 DEF Two

LEMMA DigitsJoin ==
    ASSUME NEW s \in Seq(0..9), NEW t \in Seq(0..9)
    PROVE  s \o t \in Seq(0..9) /\ Len(s \o t) = Len(s) + Len(t)
  BY ConcatProperties

LEMMA Centuries ==
    ASSUME NEW y \in Nat, y <= 9999
    PROVE  y \div 100 \in 0..99 /\ y % 100 \in 0..99
<1>1. y \div 100 \in Nat /\ y \div 100 < 100
  OBVIOUS
<1>2. y % 100 \in 0..99
  OBVIOUS
<1> QED
  BY <1>1, <1>2

LEMMA TimeSpells ==
    ASSUME NEW t \in Time
    PROVE  TimeDigits(t) \in Seq(0..9) /\ Len(TimeDigits(t)) = 6
<1> DEFINE a == Two(t[1])
           b == Two(t[2])
           c == Two(t[3])
<1>1. t[1] \in 0..99 /\ t[2] \in 0..99 /\ t[3] \in 0..99
  BY DEF Time
<1>2. a \in Seq(0..9) /\ Len(a) = 2 /\ b \in Seq(0..9) /\ Len(b) = 2
      /\ c \in Seq(0..9) /\ Len(c) = 2
  BY <1>1, TwoDigits
<1>3. TimeDigits(t) = a \o b \o c
  BY DEF TimeDigits
<1> HIDE DEF a, b, c
<1>4. a \o b \in Seq(0..9) /\ Len(a \o b) = 4
  <2>1. a \o b \in Seq(0..9) /\ Len(a \o b) = Len(a) + Len(b)
    BY <1>2, DigitsJoin, Zenon
  <2> QED
    BY <1>2, <2>1
<1>5. a \o b \o c \in Seq(0..9) /\ Len(a \o b \o c) = 6
  <2>1. a \o b \o c \in Seq(0..9) /\ Len(a \o b \o c) = Len(a \o b) + Len(c)
    BY <1>2, <1>4, DigitsJoin, Zenon
  <2> QED
    BY <1>2, <1>4, <2>1
<1> QED
  BY <1>3, <1>5

LEMMA DateSpells ==
    ASSUME NEW t \in Date
    PROVE  DateDigits(t) \in Seq(0..9) /\ Len(DateDigits(t)) = 8
<1> DEFINE a == Two(t[1] \div 100)
           b == Two(t[1] % 100)
           c == Two(t[2])
           e == Two(t[3])
<1>1. /\ t[1] \in Nat /\ t[1] <= 9999
      /\ t[2] \in 0..99
      /\ t[3] \in 0..99
  <2>1. \A y \in Year : y \in Nat /\ y <= 9999
    BY DEF Year
  <2>2. t \in Year \X (1..12) \X (1..31)
    BY Zenon DEF Date
  <2>3. t[1] \in Year /\ t[2] \in 1..12 /\ t[3] \in 1..31
    BY <2>2
  <2>4. t[1] \in Nat /\ t[1] <= 9999
    BY <2>1, <2>3
  <2>5. t[2] \in 0..99
    BY <2>3
  <2>6. t[3] \in 0..99
    BY <2>3
  <2> QED
    BY <2>4, <2>5, <2>6
<1>2. t[1] \div 100 \in 0..99 /\ t[1] % 100 \in 0..99
  BY <1>1, Centuries
<1>3. a \in Seq(0..9) /\ Len(a) = 2 /\ b \in Seq(0..9) /\ Len(b) = 2
      /\ c \in Seq(0..9) /\ Len(c) = 2 /\ e \in Seq(0..9) /\ Len(e) = 2
  <2>1. a \in Seq(0..9) /\ Len(a) = 2
    BY <1>2, TwoDigits
  <2>2. b \in Seq(0..9) /\ Len(b) = 2
    BY <1>2, TwoDigits
  <2>3. c \in Seq(0..9) /\ Len(c) = 2
    <3>1. t[2] \in 0..99
      BY <1>1
    <3> QED
      BY <3>1, TwoDigits
  <2>4. e \in Seq(0..9) /\ Len(e) = 2
    <3>1. t[3] \in 0..99
      BY <1>1
    <3> QED
      BY <3>1, TwoDigits
  <2> QED
    BY <2>1, <2>2, <2>3, <2>4
<1>4. DateDigits(t) = a \o b \o c \o e
  BY DEF DateDigits
<1> HIDE DEF a, b, c, e
<1>5. a \o b \in Seq(0..9) /\ Len(a \o b) = 4
  <2>1. a \o b \in Seq(0..9) /\ Len(a \o b) = Len(a) + Len(b)
    BY <1>3, DigitsJoin, Zenon
  <2> QED
    BY <1>3, <2>1
<1>6. a \o b \o c \in Seq(0..9) /\ Len(a \o b \o c) = 6
  <2>1. a \o b \o c \in Seq(0..9) /\ Len(a \o b \o c) = Len(a \o b) + Len(c)
    BY <1>3, <1>5, DigitsJoin, Zenon
  <2> QED
    BY <1>3, <1>5, <2>1
<1>7. a \o b \o c \o e \in Seq(0..9) /\ Len(a \o b \o c \o e) = 8
  <2>1. a \o b \o c \o e \in Seq(0..9) /\ Len(a \o b \o c \o e) = Len(a \o b \o c) + Len(e)
    BY <1>3, <1>6, DigitsJoin, Zenon
  <2> QED
    BY <1>3, <1>6, <2>1
<1> QED
  BY <1>4, <1>7

\* The digits a moment is shown with are those of the mode.
LEMMA DigitsSpell ==
    ASSUME NEW moment \in Moment, NEW mode \in Ways
    PROVE  Spells(mode, Digits(moment, mode))
<1> DEFINE date == IF moment.date = <<>> THEN Today ELSE moment.date
           time == IF moment.time = <<>> THEN <<0, 0, 0>> ELSE moment.time
<1>1. date \in Date /\ time \in Time
  <2>1. <<0, 0, 0>> \in Time
    BY DEF Time
  <2>2. CASE moment = NoMoment
    BY <2>1, <2>2, PickerAssumption DEF NoMoment
  <2>3. CASE moment \in [date : Date \cup {<<>>}, time : Time]
    BY <2>1, <2>3, PickerAssumption
  <2> QED
    BY <2>2, <2>3 DEF Moment
<1>2. Digits(moment, mode) = CASE mode = "none" -> <<>>
                               [] mode = "time" -> TimeDigits(time)
                               [] mode = "date_time" -> DateDigits(date) \o TimeDigits(time)
  BY DEF Digits
<1> HIDE DEF date, time
<1>3. TimeDigits(time) \in Seq(0..9) /\ Len(TimeDigits(time)) = 6
  BY <1>1, TimeSpells
<1>4. DateDigits(date) \in Seq(0..9) /\ Len(DateDigits(date)) = 8
  BY <1>1, DateSpells
<1>5. DateDigits(date) \o TimeDigits(time) \in Seq(0..9)
      /\ Len(DateDigits(date) \o TimeDigits(time)) = 14
  <2>1. DateDigits(date) \o TimeDigits(time) \in Seq(0..9)
        /\ Len(DateDigits(date) \o TimeDigits(time)) =
             Len(DateDigits(date)) + Len(TimeDigits(time))
    BY <1>3, <1>4, DigitsJoin, Zenon
  <2> QED
    BY <1>3, <1>4, <2>1
<1>6. CASE mode = "none"
  <2>1. Digits(moment, mode) = <<>>
    BY <1>2, <1>6
  <2>2. <<>> \in Seq(0..9) /\ Len(<<>>) = 0
    BY EmptySeq
  <2>3. Digits(moment, mode) \in Seq(0..9) /\ Len(Digits(moment, mode)) = 0
    BY <2>1, <2>2
  <2> QED
    BY <1>6, <2>3 DEF Spells
<1>7. CASE mode = "time"
  <2>1. Digits(moment, mode) = TimeDigits(time)
    BY <1>2, <1>7
  <2> QED
    BY <1>3, <1>7, <2>1 DEF Spells
<1>8. CASE mode = "date_time"
  <2>1. Digits(moment, mode) = DateDigits(date) \o TimeDigits(time)
    BY <1>2, <1>8
  <2> QED
    BY <1>5, <1>8, <2>1 DEF Spells
<1> QED
  BY <1>6, <1>7, <1>8 DEF Ways

\* It opens on a digit, or on the chip if there is none.
LEMMA PickerOpens ==
    ASSUME NEW target \in {"start", "end", "system_clock"}, NEW moment \in Moment,
           OpenPicker(target, moment)
    PROVE  IsPicker(picker', left') /\ picker' # NoPicker
<1> DEFINE mode == ModeOf(target, moment)
           digits == Digits(moment, mode)
           cache == [m \in {mode} |-> digits]
           at == IF mode = "none" THEN -1 ELSE 0
<1>1. /\ picker' = [target |-> target, mode |-> mode, digits |-> digits, cache |-> cache,
                    error |-> FALSE, cursor |-> at]
      /\ left' = [m \in Ways |-> IF m = mode THEN digits ELSE Digits(NoMoment, m)]
  BY WaysAreModes DEF OpenPicker
<1>2. mode \in Ways /\ (target = "system_clock" => mode # "none")
  <2>1. CASE target = "system_clock" \/ moment.date # <<>>
    BY <2>1 DEF ModeOf, Ways
  <2>2. CASE ~(target = "system_clock" \/ moment.date # <<>>)
    BY <2>2 DEF ModeOf, Ways
  <2> QED
    BY <2>1, <2>2
<1> HIDE DEF mode
<1>3. Spells(mode, digits)
  BY <1>2, DigitsSpell
<1>4. NoMoment \in Moment
  BY DEF Moment
<1>5. \A m \in Ways : Digits(NoMoment, m) \in Seq(0..9)
  BY <1>4, DigitsSpell DEF Spells
<1> HIDE DEF digits
<1>6. digits \in Seq(0..9)
  BY <1>3 DEF Spells
<1>7. at \in Int /\ at \in (IF target = "system_clock" THEN 0 ELSE -1)..(Len(digits) - 1)
  BY <1>2, <1>3 DEF Spells, Ways
<1>8. cache \in UNION {[M -> Seq(0..9)] : M \in SUBSET Ways} /\ DOMAIN cache = {mode}
      /\ cache[mode] = digits
  <2>1. cache \in [{mode} -> Seq(0..9)] /\ {mode} \in SUBSET Ways
    BY <1>2, <1>6
  <2> QED
    BY <2>1
<1> HIDE DEF cache, at
<1>9. picker' \in Pickers
  BY <1>1, <1>2, <1>6, <1>7, <1>8 DEF Pickers
<1>10. /\ picker'.mode = mode /\ picker'.digits = digits /\ picker'.cache = cache
       /\ picker'.cursor = at /\ picker'.target = target
  BY <1>1
<1>11. left' \in [Ways -> Seq(0..9)]
  BY <1>1, <1>5, <1>6
<1>12. left'[mode] = digits /\ \A m \in Ways \ {mode} : left'[m] = Digits(NoMoment, m)
  BY <1>1, <1>2
<1>13. picker' # NoPicker
  <2>1. NoPicker.target = "none"
    BY DEF NoPicker
  <2> QED
    BY <1>10, <2>1
<1>14. \A m \in DOMAIN cache : Spells(m, cache[m])
  BY <1>3, <1>8
<1>15. \A m \in Ways \ {mode} :
          left'[m] = IF m \in DOMAIN cache THEN cache[m] ELSE Digits(NoMoment, m)
  BY <1>8, <1>12
<1> HIDE <1>1
<1> QED
  BY <1>3, <1>7, <1>9, <1>10, <1>11, <1>12, <1>13, <1>14, <1>15 DEF IsPicker

\* What the open picker is made of.
LEMMA PickerParts ==
    ASSUME IsPicker(picker, left)
    PROVE  /\ picker \in Pickers /\ picker.mode \in Ways
           /\ picker.digits \in Seq(0..9) /\ Len(picker.digits) \in Nat
           /\ picker.cursor \in Int
           /\ Leftmost \in {-1, 0}
           /\ picker.cursor \in Leftmost..(Len(picker.digits) - 1)
<1>1. picker \in Pickers
  BY DEF IsPicker
<1>2. picker.mode \in Ways /\ picker.digits \in Seq(0..9) /\ picker.cursor \in Int
  BY <1>1 DEF Pickers
<1>3. Len(picker.digits) \in Nat
  BY <1>2, LenProperties
<1> QED
  BY <1>1, <1>2, <1>3 DEF IsPicker, Leftmost

\* The cursor stops at the ends.
LEMMA MovesKeep ==
    ASSUME IsPicker(picker, left), NEW d \in {-1, 1}, PickerMoves(d)
    PROVE  IsPicker(picker', left') /\ picker'.target = picker.target
<1> DEFINE last == Len(picker.digits) - 1
           low == Min({last, picker.cursor + d})
           at == Max({Leftmost, low})
<1>1. picker' = [picker EXCEPT !.cursor = at] /\ left' = left
  BY DEF PickerMoves
<1>2. last \in Int /\ picker.cursor + d \in Int /\ Leftmost \in Int /\ Leftmost <= last
  BY PickerParts
<1>3. low = IF last <= picker.cursor + d THEN last ELSE picker.cursor + d
  <2> HIDE DEF last
  <2> QED
    BY <1>2, MinOfTwo
<1>4. low \in Int /\ low <= last
  <2> HIDE DEF low, last
  <2> QED
    BY <1>2, <1>3
<1>5. at = IF Leftmost >= low THEN Leftmost ELSE low
  <2> HIDE DEF low
  <2> QED
    BY <1>2, <1>4, MaxOfTwo
<1>6. at \in Leftmost..last /\ at \in Int
  <2> HIDE DEF at, low, last
  <2> QED
    BY <1>2, <1>4, <1>5
<1> HIDE DEF at, low, last
<1>7. picker' \in Pickers
  BY <1>1, <1>6, PickerParts DEF Pickers
<1>8. /\ picker'.cursor = at /\ picker'.target = picker.target /\ picker'.mode = picker.mode
      /\ picker'.digits = picker.digits /\ picker'.cache = picker.cache
  BY <1>1, PickerParts DEF Pickers
<1>9. at \in (IF picker.target = "system_clock" THEN 0 ELSE -1)..(Len(picker.digits) - 1)
  BY <1>6 DEF Leftmost, last
<1> QED
  BY <1>1, <1>7, <1>8, <1>9 DEF IsPicker

LEMMA HighestDigits ==
    ASSUME NEW mode \in {"time", "date_time"}
    PROVE  /\ Highest[mode] \in Seq(0..9)
           /\ Len(Highest[mode]) = IF mode = "time" THEN 6 ELSE 14
<1>1. CASE mode = "time"
  <2>1. Highest[mode] = <<5, 9, 5, 9, 5, 9>>
    BY <1>1 DEF Highest
  <2> QED
    BY <1>1, <2>1
<1>2. CASE mode = "date_time"
  <2>1. Highest[mode] = <<9, 9, 9, 9, 1, 9, 3, 9, 2, 9, 5, 9, 5, 9>>
    BY <1>2 DEF Highest
  <2> QED
    BY <1>2, <2>1
<1> QED
  BY <1>1, <1>2

\* A digit that is turned is a digit still.
LEMMA TurnsKeep ==
    ASSUME IsPicker(picker, left), NEW d \in {-1, 1}, PickerTurns(d)
    PROVE  IsPicker(picker', left') /\ picker'.target = picker.target
<1> DEFINE n == Len(picker.digits)
           i == picker.cursor + 1
           highest == Highest[picker.mode][i]
           digit == (picker.digits[i] + d) % (highest + 1)
           digits == [picker.digits EXCEPT ![i] = digit]
<1>1. /\ picker.cursor # -1
      /\ picker' = [picker EXCEPT !.digits = digits, !.error = FALSE]
      /\ left' = [left EXCEPT ![picker.mode] = picker'.digits]
  BY DEF PickerTurns
<1>2. i \in 1..n
  BY <1>1, PickerParts
<1>3. /\ picker.mode \in {"time", "date_time"}
      /\ n = IF picker.mode = "time" THEN 6 ELSE 14
  <2>1. Spells(picker.mode, picker.digits)
    BY DEF IsPicker
  <2>2. n # 0
    BY <1>2, PickerParts
  <2>3. picker.mode # "none"
    BY <2>1, <2>2 DEF Spells
  <2> QED
    BY <2>1, <2>3, PickerParts DEF Spells, Ways
<1>4. highest \in 0..9
  <2>1. Highest[picker.mode] \in Seq(0..9) /\ Len(Highest[picker.mode]) = n
    BY <1>3, HighestDigits
  <2>2. i \in 1..Len(Highest[picker.mode])
    BY <1>2, <2>1
  <2> HIDE DEF i
  <2> QED
    BY <2>1, <2>2, ElementOfSeq
<1>5. picker.digits[i] \in 0..9
  BY <1>2, PickerParts, ElementOfSeq
<1> HIDE DEF highest
<1>6. digit \in 0..9
  <2> DEFINE v == picker.digits[i]
             m == highest + 1
  <2>1. v + d \in Int /\ m \in 1..10
    BY <1>4, <1>5
  <2> HIDE DEF v, m
  <2>2. (v + d) % m \in 0..(m - 1)
    BY <2>1
  <2> QED
    BY <2>1, <2>2 DEF v, m
<1> HIDE DEF digit
<1>7. digits \in Seq(0..9) /\ Len(digits) = n
  <2>1. picker.digits \in Seq(0..9)
    BY PickerParts
  <2> HIDE DEF i
  <2> QED
    BY <1>2, <1>6, <2>1, ExceptSeq
<1> HIDE DEF digits, i
<1>8. Spells(picker.mode, digits)
  BY <1>3, <1>7 DEF Spells
<1>9. picker' \in Pickers
  BY <1>1, <1>7, PickerParts DEF Pickers
<1>10. /\ picker'.digits = digits /\ picker'.target = picker.target
       /\ picker'.mode = picker.mode
       /\ picker'.cursor = picker.cursor /\ picker'.cache = picker.cache
  BY <1>1, PickerParts DEF Pickers
<1>11. left \in [Ways -> Seq(0..9)] /\ left' = [left EXCEPT ![picker.mode] = digits]
  BY <1>1, <1>10 DEF IsPicker
<1>12. /\ left' \in [Ways -> Seq(0..9)] /\ left'[picker.mode] = digits
       /\ \A m \in Ways \ {picker.mode} : left'[m] = left[m]
  BY <1>7, <1>11, PickerParts
<1>13. picker.cursor \in (IF picker.target = "system_clock" THEN 0 ELSE -1)..(Len(digits) - 1)
  BY <1>7 DEF IsPicker
<1>14. \A m \in Ways \ {picker.mode} :
           left'[m] = IF m \in DOMAIN picker.cache THEN picker.cache[m]
                      ELSE Digits(NoMoment, m)
  BY <1>12 DEF IsPicker
<1>15. \A m \in DOMAIN picker.cache : Spells(m, picker.cache[m])
  BY DEF IsPicker
<1> QED
  BY <1>8, <1>9, <1>10, <1>12, <1>13, <1>14, <1>15 DEF IsPicker

\* The digits of the mode that is left are kept, and those of the next are found again.
LEMMA ModesKeep ==
    ASSUME IsPicker(picker, left), NEW d \in {-1, 1}, CycleMode(d)
    PROVE  IsPicker(picker', left') /\ picker'.target = picker.target
<1> DEFINE old == picker.mode
           cache == [m \in {old} \cup DOMAIN picker.cache |->
                        IF m = old THEN picker.digits ELSE picker.cache[m]]
           mode == NextMode(d)
           digits == IF mode \in DOMAIN cache THEN cache[mode] ELSE Digits(NoMoment, mode)
<1>1. /\ picker.cursor = -1
      /\ picker' = [picker EXCEPT !.mode = mode, !.cache = cache, !.error = FALSE,
                                  !.digits = digits]
      /\ left' = left
  BY DEF CycleMode, Cycled
<1>2. old \in Ways /\ Spells(old, picker.digits) /\ picker.digits \in Seq(0..9)
  BY PickerParts DEF IsPicker
<1>3. mode \in Ways
  <2> DEFINE i == CHOOSE i \in DOMAIN Modes : Modes[i] = picker.mode
  <2>1. i \in DOMAIN Modes
    BY <1>2, WaysAreModes
  <2>2. DOMAIN Modes = 1..3
    BY DEF Modes
  <2>3. mode = Modes[((i - 1 + d) % 3) + 1]
    BY DEF NextMode
  <2> HIDE DEF i, mode
  <2>4. ((i - 1 + d) % 3) + 1 \in 1..3
    BY <2>1, <2>2
  <2> QED
    BY <2>2, <2>3, <2>4, WaysAreModes
<1> HIDE DEF mode
<1>4. PICK M \in SUBSET Ways : picker.cache \in [M -> Seq(0..9)]
  <2>1. picker.cache \in UNION {[M -> Seq(0..9)] : M \in SUBSET Ways}
    BY PickerParts DEF Pickers
  <2> QED
    BY <2>1
<1>5. \A m \in DOMAIN picker.cache : Spells(m, picker.cache[m])
  BY DEF IsPicker
<1>6. /\ DOMAIN cache = {old} \cup M /\ {old} \cup M \in SUBSET Ways
      /\ \A m \in DOMAIN cache : Spells(m, cache[m])
      /\ cache[old] = picker.digits
      /\ \A m \in M \ {old} : cache[m] = picker.cache[m]
  BY <1>2, <1>4, <1>5
<1>7. cache \in UNION {[N -> Seq(0..9)] : N \in SUBSET Ways}
  <2>1. cache \in [({old} \cup M) -> Seq(0..9)]
    BY <1>2, <1>4
  <2> HIDE DEF cache
  <2> QED
    BY <1>6, <2>1
<1>8. DOMAIN picker.cache = M
  BY <1>4
<1> HIDE DEF cache
<1>9. Spells(mode, digits)
  <2>1. NoMoment \in Moment
    BY DEF Moment
  <2> QED
    BY <1>3, <1>6, <2>1, DigitsSpell
<1>10. left[mode] = digits
       /\ \A m \in Ways \ {mode} :
              left[m] = IF m \in DOMAIN cache THEN cache[m] ELSE Digits(NoMoment, m)
  <2>1. left[old] = picker.digits
        /\ \A m \in Ways \ {old} :
               left[m] = IF m \in M THEN picker.cache[m] ELSE Digits(NoMoment, m)
    BY <1>8 DEF IsPicker
  <2>2. \A m \in Ways : left[m] = IF m \in DOMAIN cache THEN cache[m] ELSE Digits(NoMoment, m)
    BY <1>6, <2>1
  <2> QED
    BY <1>3, <2>2
<1> HIDE DEF digits
<1>11. digits \in Seq(0..9)
  BY <1>9 DEF Spells
<1>12. picker' \in Pickers
  BY <1>1, <1>3, <1>7, <1>11, PickerParts DEF Pickers
<1>13. /\ picker'.mode = mode /\ picker'.digits = digits /\ picker'.cache = cache
       /\ picker'.cursor = -1 /\ picker'.target = picker.target
  BY <1>1, PickerParts DEF Pickers
<1>14. -1 \in (IF picker.target = "system_clock" THEN 0 ELSE -1)..(Len(digits) - 1)
  <2>1. Len(digits) \in Nat
    BY <1>11, LenProperties
  <2>2. -1 \in (IF picker.target = "system_clock" THEN 0 ELSE -1)..(Len(picker.digits) - 1)
    BY <1>1 DEF IsPicker
  <2> QED
    BY <2>1, <2>2, PickerParts
<1>15. left \in [Ways -> Seq(0..9)]
  BY DEF IsPicker
<1> QED
  BY <1>1, <1>6, <1>9, <1>10, <1>12, <1>13, <1>14, <1>15 DEF IsPicker

\* No press breaks the picker.
LEMMA PressesKeep ==
    ASSUME IsPicker(picker, left), turns \in 0..MaxTurns, PickerEdits
    PROVE  IsPicker(picker', left') /\ picker' # NoPicker /\ turns' \in 0..MaxTurns
<1>1. IsPicker(picker', left') /\ picker'.target = picker.target
  <2>1. CASE \E d \in {-1, 1} : PickerMoves(d) \/ PickerTurns(d) \/ CycleMode(d)
    BY <2>1, MovesKeep, TurnsKeep, ModesKeep
  <2>2. CASE PickerRefuses
    <3>1. picker' = [picker EXCEPT !.error = TRUE] /\ left' = left
      BY <2>2 DEF PickerRefuses
    <3>2. picker' \in Pickers
      BY <3>1, PickerParts DEF Pickers
    <3>3. /\ picker'.mode = picker.mode /\ picker'.digits = picker.digits
          /\ picker'.cache = picker.cache /\ picker'.cursor = picker.cursor
          /\ picker'.target = picker.target
      BY <3>1, PickerParts DEF Pickers
    <3> QED
      BY <3>1, <3>2, <3>3 DEF IsPicker
  <2> QED
    BY <2>1, <2>2 DEF PickerEdits
<1>2. picker' # NoPicker
  <2>1. picker'.target \in {"start", "end", "system_clock"}
    BY <1>1 DEF IsPicker, Pickers
  <2>2. NoPicker.target = "none"
    BY DEF NoPicker
  <2> QED
    BY <2>1, <2>2
<1>3. turns' \in 0..MaxTurns
  <2>1. MaxTurns \in Nat
    BY PickerAssumption
  <2>2. turns' = turns \/ (turns < MaxTurns /\ turns' = turns + 1)
    BY DEF PickerEdits, PickerMoves, PickerTurns, CycleMode, PickerRefuses
  <2> QED
    BY <2>1, <2>2
<1> QED
  BY <1>1, <1>2, <1>3

\* What is taken is a moment of the calendar.
LEMMA PickedIsMoment ==
    ASSUME IsPicker(picker, left), Saves
    PROVE  /\ Picked \in Moment
           /\ Picked = NoMoment \/ ValidMoment(Picked)
<1>1. CASE picker.mode = "none"
  BY <1>1 DEF Picked, Moment
<1>2. CASE picker.mode # "none"
  <2> DEFINE p == Parsed(picker.mode, picker.digits)
  <2>1. Picked = p /\ ValidMoment(p)
    BY <1>2 DEF Picked, Saves
  <2>2. \A t : ValidTime(TimeOf(t)) => TimeOf(t) \in Time
    BY DEF ValidTime, TimeOf, Time
  <2>3. \A t : ValidDate(DateOfDigits(t)) => DateOfDigits(t) \in Date
    <3> SUFFICES ASSUME NEW t, ValidDate(DateOfDigits(t))
                 PROVE  DateOfDigits(t) \in Date
      OBVIOUS
    <3> DEFINE a == DateOfDigits(t)[1]
               b == DateOfDigits(t)[2]
               c == DateOfDigits(t)[3]
    <3>1. DateOfDigits(t) = <<a, b, c>>
      BY DEF DateOfDigits
    <3>2. a \in MinYear..MaxYear /\ b \in 1..12 /\ c \in 1..DaysInMonth(a, b)
      BY DEF ValidDate
    <3>3. DaysInMonth(a, b) \in {28, 29, 30, 31}
      BY DEF DaysInMonth
    <3> HIDE DEF a, b, c
    <3>4. c \in 1..31
      BY <3>2, <3>3
    <3>5. a \in Year
      <4>1. MinYear \in Nat /\ MaxYear \in Nat /\ MaxYear <= 9999
        BY PickerAssumption
      <4>2. a \in Nat /\ a <= 9999
        BY <3>2, <4>1
      <4> QED
        BY <4>2 DEF Year
    <3>6. <<a, b, c>> \in Year \X (1..12) \X (1..31)
      BY <3>2, <3>4, <3>5
    <3> QED
      BY <3>1, <3>6, Zenon DEF Date
  <2>4. CASE picker.mode = "time"
    <3>1. p = [date |-> <<>>, time |-> TimeOf(picker.digits)]
      BY <2>4 DEF Parsed
    <3>2. p.time = TimeOf(picker.digits) /\ ValidTime(p.time)
      BY <2>1, <3>1 DEF ValidMoment
    <3>3. TimeOf(picker.digits) \in Time
      BY <2>2, <3>2
    <3>4. p \in [date : Date \cup {<<>>}, time : Time]
      BY <3>1, <3>3
    <3> QED
      BY <2>1, <3>4 DEF Moment
  <2>5. CASE picker.mode # "time"
    <3>1. p = [date |-> DateOfDigits(picker.digits),
               time |-> TimeOf(SubSeq(picker.digits, 9, 14))]
      BY <2>5 DEF Parsed
    <3>2. /\ p.time = TimeOf(SubSeq(picker.digits, 9, 14)) /\ ValidTime(p.time)
          /\ p.date = DateOfDigits(picker.digits)
          /\ p.date # <<>> => ValidDate(p.date)
      BY <2>1, <3>1 DEF ValidMoment
    <3>3. TimeOf(SubSeq(picker.digits, 9, 14)) \in Time
      BY <2>2, <3>2
    <3>4. DateOfDigits(picker.digits) \in Date \cup {<<>>}
      BY <2>3, <3>2
    <3>5. p \in [date : Date \cup {<<>>}, time : Time]
      BY <3>1, <3>3, <3>4
    <3> QED
      BY <2>1, <3>5 DEF Moment
  <2> QED
    BY <2>4, <2>5
<1> QED
  BY <1>1, <1>2

-------------------------------------------------------------------------------
(* The dialogs together *)

DialogsInv == WifiInv /\ EditorInv /\ PickerInv /\ item \in 0..2

Elsewhere == {"edit", "bracket_gen", "name_keyboard", "picker", "main", "time_setup"}

LEMMA EmptyScan == Scan(<<>>, {}) = <<>>
<1> DEFINE none == <<>>
           nets == Scan(none, {})
<1>1. none \in Seq(Line) /\ Len(none) = 0
  BY EmptySeq
<1>2. none \in Seq(Line)
  BY <1>1
<1> HIDE DEF none
<1>3. ListSums(nets, none, Len(none), {})
  BY <1>2, ScanSays
<1> HIDE DEF nets
<1>4. nets \in Seq(Network) /\ \A i \in DOMAIN nets : Sums(nets[i], none, 0, {})
  BY <1>1, <1>3 DEF ListSums
<1>5. \A i \in DOMAIN nets : FALSE
  <2> SUFFICES ASSUME NEW i \in DOMAIN nets
               PROVE  FALSE
    OBVIOUS
  <2>1. {m \in 1..0 : none[m].ssid = nets[i].ssid} # {}
    BY <1>4 DEF Sums
  <2> QED
    BY <2>1
<1>6. nets = <<>>
  <2>1. DOMAIN nets = 1..Len(nets) /\ Len(nets) \in Nat
    BY <1>4, LenProperties
  <2>2. 1 \notin 1..Len(nets)
    BY <1>5, <2>1
  <2>3. Len(nets) = 0
    BY <2>1, <2>2
  <2> QED
    BY <1>4, <2>3, EmptySeq
<1> QED
  BY <1>6 DEF nets, none

LEMMA EmptyList == IsList(<<>>, NothingHeard)
<1> DEFINE h == NothingHeard
<1>1. h.lines = <<>> /\ h.known = {} /\ h.joined = "scanned"
  BY DEF NothingHeard
<1>2. <<>> \in Seq(Line)
  BY EmptySeq
<1> HIDE DEF h
<1>3. <<>> = Scan(h.lines, h.known)
  BY <1>1, EmptyScan
<1> QED
  <2>1. IsList(<<>>, h)
    BY <1>1, <1>2, <1>3 DEF IsList
  <2> QED
    BY <2>1 DEF h

\* Away from the Wi-Fi screens nothing of theirs changes.
LEMMA WifiElsewhere ==
    ASSUME WifiInv, screen \in Elsewhere, screen' \in Elsewhere, UNCHANGED wifi,
           screen' = "name_keyboard" <=> keyboard' # NoKeyboard,
           keyboard' = NoKeyboard \/ IsOpen(keyboard')
    PROVE  WifiInv'
<1>1. UNCHANGED <<networks, row, heard, pending, busy, job, joins, asked>>
  BY DEF wifi, list, worker
<1>2. ListInv' /\ RowInv'
  BY <1>1 DEF WifiInv, ListInv, RowInv
<1>3. ScreensInv'
  BY DEF ScreensInv, Elsewhere
<1>4. busy = "no"
  BY DEF WifiInv, WorkerInv, Elsewhere
<1>5. WorkerInv'
  BY <1>1, <1>4 DEF WifiInv, WorkerInv, SecretStays
<1> QED
  BY <1>2, <1>3, <1>5 DEF WifiInv

\* A step of another dialog leaves the draft alone.
LEMMA FormStays ==
    ASSUME EditorInv, UNCHANGED <<form, draft>>, screen' \notin {"bracket_gen", "name_keyboard"}
    PROVE  EditorInv'
<1>1. UNCHANGED <<shots, snapshot, base, cursor, scroll, gen, edits, ladders, fields, draft>>
  BY DEF form, bounds
<1>2. ShotsInv'
  BY <1>1 DEF EditorInv, ShotsInv, Merged
<1>3. WindowInv' /\ GeneratorInv' /\ BoundsInv' /\ DraftInv'
  BY <1>1 DEF EditorInv, WindowInv, Rows, GeneratorInv, BoundsInv, DraftInv
<1> QED
  BY <1>2, <1>3 DEF EditorInv

LEMMA PickerStays ==
    ASSUME PickerInv, UNCHANGED <<picker, turns, left>>, screen # "picker", screen' # "picker"
    PROVE  PickerInv'
  BY DEF PickerInv

LEMMA PickerShuts ==
    ASSUME PickerInv, picker' = NoPicker, turns' = turns, screen' # "picker"
    PROVE  PickerInv'
  BY DEF PickerInv

\* The steps of the editor, its keyboard and the generator
LEMMA EditorKeeps ==
    ASSUME DialogsInv, EditorNext, UNCHANGED settings
    PROVE  EditorInv'
<1>1. ShotsInv /\ WindowInv /\ GeneratorInv /\ BoundsInv /\ DraftInv
  BY DEF DialogsInv, EditorInv
<1>2. /\ MaxEdits \in Nat /\ MaxLadders \in Nat /\ MaxFields \in Nat
  BY EditorAssumption
<1>3. screen = "edit" => keyboard = NoKeyboard
  BY DEF DialogsInv, WifiInv, ScreensInv
<1>4. ASSUME NEW d \in {-1, 1}, MoveCursor(d)
      PROVE  EditorInv'
  <2>1. UNCHANGED <<screen, shots, snapshot, base, gen, edits, ladders, fields, draft, keyboard>>
        /\ screen = "edit"
    BY <1>4 DEF MoveCursor, bounds, others
  <2>2. ShotsInv'
    BY <1>1, <2>1 DEF ShotsInv, Merged
  <2>3. WindowInv'
    BY <1>1, <1>4, MoveCursorKeeps
  <2>4. GeneratorInv' /\ BoundsInv' /\ DraftInv'
    BY <1>1, <2>1 DEF GeneratorInv, BoundsInv, DraftInv
  <2> QED
    BY <2>2, <2>3, <2>4 DEF EditorInv
<1>5. ASSUME NEW d \in {-1, 1}, CycleShots(d)
      PROVE  EditorInv'
  <2>1. UNCHANGED <<screen, cursor, scroll, gen, edits, ladders, fields, draft, keyboard>>
        /\ screen = "edit" /\ cursor = 2
    BY <1>5 DEF CycleShots, bounds, others, ShotsRow
  <2>2. ShotsInv' /\ Len(shots') \in Nat
    BY <1>1, <1>5, CycleShotsKeeps
  <2>3. WindowInv'
    BY <1>1, <2>1, <2>2, WindowStays DEF GenerateRow
  <2>4. GeneratorInv' /\ BoundsInv' /\ DraftInv'
    BY <1>1, <2>1 DEF GeneratorInv, BoundsInv, DraftInv
  <2> QED
    BY <2>2, <2>3, <2>4 DEF EditorInv
<1>6. ASSUME NEW d \in {-1, 1}, CycleParam(d)
      PROVE  EditorInv'
  <2>1. UNCHANGED <<screen, cursor, scroll, gen, ladders, fields, draft, keyboard>>
        /\ screen = "edit" /\ edits < MaxEdits /\ edits' = edits + 1
    BY <1>6 DEF CycleParam, others
  <2>2. ShotsInv' /\ Len(shots') = Len(shots)
    BY <1>1, <1>6, CycleParamKeeps
  <2>3. Len(shots') \in Nat
    BY <1>1, <2>2, MergedFacts
  <2>4. WindowInv'
    BY <1>1, <2>1, <2>2, <2>3, WindowStays
  <2>5. GeneratorInv' /\ DraftInv'
    BY <1>1, <2>1 DEF GeneratorInv, DraftInv
  <2>6. BoundsInv'
    BY <1>1, <1>2, <2>1 DEF BoundsInv
  <2> QED
    BY <2>2, <2>4, <2>5, <2>6 DEF EditorInv
<1>7. ASSUME NEW d \in {-1, 1}, GeneratorCycles(d)
      PROVE  EditorInv'
  <2>1. /\ UNCHANGED <<screen, shots, snapshot, base, cursor, scroll, edits, ladders, draft>>
        /\ screen = "bracket_gen" /\ fields < MaxFields /\ fields' = fields + 1
        /\ CycleField(d)
    BY <1>7 DEF GeneratorCycles, others
  <2>2. gen' \in Generators /\ gen'.n # 0
    BY <1>1, <2>1, CycleFieldFits DEF GeneratorInv
  <2>3. ShotsInv'
    BY <1>1, <2>1 DEF ShotsInv, Merged
  <2>4. GeneratorInv'
    BY <1>1, <2>1, <2>2 DEF GeneratorInv
  <2>5. BoundsInv'
    BY <1>1, <1>2, <2>1 DEF BoundsInv
  <2>6. WindowInv' /\ DraftInv'
    BY <1>1, <2>1 DEF WindowInv, Rows, DraftInv
  <2> QED
    BY <2>3, <2>4, <2>5, <2>6 DEF EditorInv
<1>8. ASSUME NEW d \in {-1, 1}, CycleInterval(d)
      PROVE  EditorInv'
  <2> DEFINE v == Cycle(draft.interval, Intervals, d)
  <2>1. /\ UNCHANGED <<screen, shots, snapshot, base, cursor, scroll, gen, edits, ladders, fields>>
        /\ screen = "edit" /\ draft' = [draft EXCEPT !.interval = v]
    BY <1>8 DEF CycleInterval, bounds
  <2>2. v \in Nat \ {0}
    <3>1. Intervals \in Seq(Nat \ {0}) /\ Intervals # <<>>
      BY EditorAssumption
    <3> QED
      BY <3>1, CycleStays
  <2> HIDE DEF v
  <2>3. /\ draft' \in [original : Listed \cup {NewName}, name : Seq(Chars),
                       interval : Nat \ {0}, start : Moment, end : Moment]
        /\ draft'.name = draft.name /\ draft'.original = draft.original
        /\ draft'.start = draft.start /\ draft'.end = draft.end
    BY <1>1, <2>1, <2>2 DEF DraftInv
  <2>4. DraftInv'
    BY <1>1, <2>1, <2>3 DEF DraftInv
  <2>5. ShotsInv'
    BY <1>1, <2>1 DEF ShotsInv, Merged
  <2>6. WindowInv' /\ GeneratorInv' /\ BoundsInv'
    BY <1>1, <2>1 DEF WindowInv, Rows, GeneratorInv, BoundsInv
  <2> QED
    BY <2>4, <2>5, <2>6 DEF EditorInv
<1>9. ASSUME OpenGenerator
      PROVE  EditorInv'
  <2>1. /\ UNCHANGED <<shots, snapshot, base, cursor, scroll, edits, fields, draft>>
        /\ screen' = "bracket_gen" /\ cursor = GenerateRow
        /\ ladders < MaxLadders /\ ladders' = ladders + 1
    BY <1>9 DEF OpenGenerator, others
  <2>2. gen' \in Generators /\ gen'.n # 0
    BY <1>1, <1>9, OpenGeneratorFits
  <2>3. ShotsInv'
    BY <1>1, <2>1 DEF ShotsInv, Merged
  <2>4. GeneratorInv'
    BY <2>1, <2>2 DEF GeneratorInv
  <2>5. BoundsInv'
    BY <1>1, <1>2, <2>1 DEF BoundsInv
  <2>6. WindowInv' /\ DraftInv'
    BY <1>1, <2>1 DEF WindowInv, Rows, DraftInv
  <2> QED
    BY <2>3, <2>4, <2>5, <2>6 DEF EditorInv
<1>10. ASSUME Accept
       PROVE  EditorInv'
  <2>1. /\ UNCHANGED <<cursor, scroll, edits, ladders, draft>>
        /\ screen = "bracket_gen" /\ screen' = "edit" /\ gen' = NoGen /\ fields' = 0
    BY <1>10 DEF Accept, others
  <2>2. ShotsInv' /\ Len(shots') \in Nat
    BY <1>1, <1>10, AcceptKeeps
  <2>3. cursor = GenerateRow
    BY <1>1, <2>1 DEF GeneratorInv
  <2>4. WindowInv'
    <3>1. cursor <= GenerateRow
      BY <2>3 DEF GenerateRow
    <3> QED
      BY <1>1, <2>1, <2>2, <3>1, WindowStays
  <2>5. GeneratorInv'
    BY <2>1, NoGenFits DEF GeneratorInv
  <2>6. BoundsInv' /\ DraftInv'
    BY <1>1, <1>2, <2>1 DEF BoundsInv, DraftInv
  <2> QED
    BY <2>2, <2>4, <2>5, <2>6 DEF EditorInv
<1>11. ASSUME Cancel
       PROVE  EditorInv'
  <2>1. /\ UNCHANGED <<shots, snapshot, base, cursor, scroll, edits, ladders, draft>>
        /\ screen' = "edit" /\ gen' = NoGen /\ fields' = 0
    BY <1>11 DEF Cancel, others
  <2>2. ShotsInv'
    BY <1>1, <2>1 DEF ShotsInv, Merged
  <2>3. GeneratorInv'
    BY <2>1, NoGenFits DEF GeneratorInv
  <2>4. WindowInv' /\ BoundsInv' /\ DraftInv'
    BY <1>1, <1>2, <2>1 DEF WindowInv, Rows, BoundsInv, DraftInv
  <2> QED
    BY <2>2, <2>3, <2>4 DEF EditorInv
<1>12. ASSUME OpenNameKeyboard
       PROVE  EditorInv'
  <2>1. /\ UNCHANGED <<shots, snapshot, base, cursor, scroll, gen, edits, ladders, fields, draft>>
        /\ screen' = "name_keyboard"
        /\ keyboard' = Keyboard("config_name", draft.name, Listed \ {draft.name})
    BY <1>12 DEF OpenNameKeyboard, form, bounds
  <2>2. keyboard'.target = "config_name" /\ keyboard'.taken = Listed \ {draft.name}
    BY <2>1 DEF Keyboard
  <2>3. DraftInv'
    BY <1>1, <2>1, <2>2 DEF DraftInv
  <2>4. ShotsInv'
    BY <1>1, <2>1 DEF ShotsInv, Merged
  <2>5. WindowInv' /\ GeneratorInv' /\ BoundsInv'
    BY <1>1, <2>1 DEF WindowInv, Rows, GeneratorInv, BoundsInv
  <2> QED
    BY <2>3, <2>4, <2>5 DEF EditorInv
<1>13. ASSUME NameKeyboardEdits
       PROVE  EditorInv'
  <2>1. /\ UNCHANGED <<screen, shots, snapshot, base, cursor, scroll, gen, edits, ladders,
                       fields, draft>>
        /\ screen = "name_keyboard" /\ KeyboardEdits
    BY <1>13 DEF NameKeyboardEdits, form, bounds
  <2>2. IsOpen(keyboard)
    BY <2>1 DEF DialogsInv, WifiInv, ScreensInv
  <2>3. keyboard'.target = keyboard.target /\ keyboard'.taken = keyboard.taken
    BY <2>1, <2>2, EditsKeepOpen
  <2>4. DraftInv'
    BY <1>1, <2>1, <2>3 DEF DraftInv
  <2>5. ShotsInv'
    BY <1>1, <2>1 DEF ShotsInv, Merged
  <2>6. WindowInv' /\ GeneratorInv' /\ BoundsInv'
    BY <1>1, <2>1 DEF WindowInv, Rows, GeneratorInv, BoundsInv
  <2> QED
    BY <2>4, <2>5, <2>6 DEF EditorInv
<1>14. ASSUME NameTyped
       PROVE  EditorInv'
  <2>1. /\ UNCHANGED <<shots, snapshot, base, cursor, scroll, gen, edits, ladders, fields>>
        /\ screen = "name_keyboard" /\ screen' = "edit"
        /\ \/ KeyboardDone /\ draft' = [draft EXCEPT !.name = keyboard.text]
           \/ draft' = draft
    BY <1>14 DEF NameTyped, form, bounds
  <2>2. DraftInv'
    <3>1. CASE draft' = draft
      BY <1>1, <2>1, <3>1 DEF DraftInv
    <3>2. CASE KeyboardDone /\ draft' = [draft EXCEPT !.name = keyboard.text]
      <4>1. IsOpen(keyboard) /\ keyboard.target = "config_name"
            /\ keyboard.taken = Listed \ {draft.name}
        BY <1>1, <2>1 DEF DialogsInv, WifiInv, ScreensInv, DraftInv
      <4>2. keyboard.text \in Seq(Chars)
        BY <4>1 DEF IsOpen, OpenKeyboards
      <4>3. /\ Len(keyboard.text) \in Shortest["config_name"]..Longest["config_name"]
            /\ keyboard.text \notin Listed \ {draft.name}
        BY <3>2, <4>1 DEF KeyboardDone, Acceptable
      <4>4. "config_name" \in Targets
        BY DEF Targets
      <4>5. Shortest["config_name"] \in Nat \ {0} /\ Longest["config_name"] \in Nat \ {0}
        BY <4>4, KeyboardAssumption
      <4>6. Len(keyboard.text) \in 1..Longest["config_name"]
        BY <4>3, <4>5
      <4>7. /\ draft' \in [original : Listed \cup {NewName}, name : Seq(Chars),
                           interval : Nat \ {0}, start : Moment, end : Moment]
            /\ draft'.name = keyboard.text /\ draft'.original = draft.original
            /\ draft'.start = draft.start /\ draft'.end = draft.end
        BY <1>1, <3>2, <4>2 DEF DraftInv
      <4>8. draft'.name \in Listed => draft'.name = draft'.original
        BY <1>1, <4>3, <4>7 DEF DraftInv
      <4> QED
        BY <1>1, <2>1, <4>6, <4>7, <4>8 DEF DraftInv
    <3> QED
      BY <2>1, <3>1, <3>2
  <2>3. ShotsInv'
    BY <1>1, <2>1 DEF ShotsInv, Merged
  <2>4. WindowInv' /\ GeneratorInv' /\ BoundsInv'
    BY <1>1, <2>1 DEF WindowInv, Rows, GeneratorInv, BoundsInv
  <2> QED
    BY <2>2, <2>3, <2>4 DEF EditorInv
<1>15. ASSUME OpenMomentPicker
       PROVE  EditorInv'
  <2>1. UNCHANGED <<form, draft>> /\ screen' = "picker"
    BY <1>15 DEF OpenMomentPicker
  <2> QED
    BY <2>1, FormStays DEF DialogsInv
<1> QED
  BY <1>4, <1>5, <1>6, <1>7, <1>8, <1>9, <1>10, <1>11, <1>12, <1>13, <1>14, <1>15
     DEF EditorNext

LEMMA EditorLeavesRest ==
    ASSUME DialogsInv, EditorNext, UNCHANGED settings
    PROVE  WifiInv' /\ PickerInv'
<1>1. /\ WifiInv /\ PickerInv /\ ScreensInv /\ DraftInv
      /\ UNCHANGED wifi
  BY DEF DialogsInv, EditorInv, WifiInv, settings
<1>2. CASE \/ \E d \in {-1, 1} :
                \/ MoveCursor(d) \/ CycleShots(d) \/ CycleParam(d) \/ GeneratorCycles(d)
                \/ CycleInterval(d)
           \/ OpenGenerator \/ Accept \/ Cancel
  <2>1. /\ screen \in {"edit", "bracket_gen"} /\ screen' \in {"edit", "bracket_gen"}
        /\ UNCHANGED <<picker, turns, left, keyboard>>
    BY <1>2 DEF MoveCursor, CycleShots, CycleParam, GeneratorCycles, CycleInterval,
                OpenGenerator, Accept, Cancel, others
  <2>2. keyboard = NoKeyboard
    BY <1>1, <2>1 DEF ScreensInv
  <2>3. WifiInv'
    BY <1>1, <2>1, <2>2, WifiElsewhere DEF Elsewhere
  <2>4. PickerInv'
    BY <1>1, <2>1, PickerStays
  <2> QED
    BY <2>3, <2>4
<1>3. CASE OpenNameKeyboard
  <2>1. /\ screen = "edit" /\ screen' = "name_keyboard"
        /\ UNCHANGED <<picker, turns, left>>
        /\ keyboard' = Keyboard("config_name", draft.name, Listed \ {draft.name})
    BY <1>3 DEF OpenNameKeyboard
  <2>2. draft.name \in Seq(Chars) /\ Len(draft.name) <= Longest["config_name"]
    BY <1>1 DEF DraftInv
  <2>3. "config_name" \in Targets
    BY DEF Targets
  <2> DEFINE taken == Listed \ {draft.name}
             name == draft.name
  <2>4. taken \in SUBSET Seq(Chars)
    BY EditorAssumption
  <2>5. keyboard' = Keyboard("config_name", name, taken)
        /\ name \in Seq(Chars) /\ Len(name) <= Longest["config_name"]
    BY <2>1, <2>2
  <2> HIDE DEF taken, name
  <2>6. IsOpen(keyboard') /\ keyboard' # NoKeyboard
    BY <2>3, <2>4, <2>5, KeyboardOpens
  <2>7. WifiInv'
    BY <1>1, <2>1, <2>6, WifiElsewhere DEF Elsewhere
  <2>8. PickerInv'
    BY <1>1, <2>1, PickerStays
  <2> QED
    BY <2>7, <2>8
<1>4. CASE NameKeyboardEdits
  <2>1. /\ screen = "name_keyboard" /\ screen' = "name_keyboard" /\ KeyboardEdits
        /\ UNCHANGED <<picker, turns, left>>
    BY <1>4 DEF NameKeyboardEdits
  <2>2. IsOpen(keyboard)
    BY <1>1, <2>1 DEF ScreensInv
  <2>3. IsOpen(keyboard') /\ keyboard' # NoKeyboard
    BY <2>1, <2>2, EditsKeepOpen
  <2>4. WifiInv'
    BY <1>1, <2>1, <2>3, WifiElsewhere DEF Elsewhere
  <2>5. PickerInv'
    BY <1>1, <2>1, PickerStays
  <2> QED
    BY <2>4, <2>5
<1>5. CASE NameTyped
  <2>1. /\ screen = "name_keyboard" /\ screen' = "edit" /\ keyboard' = NoKeyboard
        /\ UNCHANGED <<picker, turns, left>>
    BY <1>5 DEF NameTyped
  <2>2. WifiInv'
    BY <1>1, <2>1, WifiElsewhere DEF Elsewhere
  <2>3. PickerInv'
    BY <1>1, <2>1, PickerStays
  <2> QED
    BY <2>2, <2>3
<1>6. CASE OpenMomentPicker
  <2> DEFINE target == MomentRows[cursor]
  <2>1. /\ screen = "edit" /\ screen' = "picker" /\ OpenPicker(target, draft[target])
        /\ UNCHANGED <<turns, keyboard>> /\ cursor \in {3, 4}
    BY <1>6 DEF OpenMomentPicker, MomentRows
  <2>2. target \in {"start", "end"}
    BY <2>1 DEF MomentRows
  <2> HIDE DEF target
  <2>3. draft[target] \in Moment
    BY <1>1, <2>2 DEF DraftInv
  <2>4. IsPicker(picker', left') /\ picker' # NoPicker
    BY <2>1, <2>2, <2>3, PickerOpens
  <2>5. PickerInv'
    BY <1>1, <2>1, <2>4 DEF PickerInv
  <2>6. keyboard = NoKeyboard
    BY <1>1, <2>1 DEF ScreensInv
  <2>7. WifiInv'
    BY <1>1, <2>1, <2>6, WifiElsewhere DEF Elsewhere
  <2> QED
    BY <2>5, <2>7
<1> QED
  BY <1>2, <1>3, <1>4, <1>5, <1>6 DEF EditorNext

\* The Wi-Fi screens keep to themselves.
LEMMA WifiStaysThere ==
    ASSUME WifiInv, WifiNext
    PROVE  screen \notin Elsewhere /\ screen' \notin Elsewhere
<1> DEFINE There == {"wifi_list", "wifi_keyboard", "wifi_status", "overlay_wifi_forget"}
<1>1. /\ busy = "connect" => screen = "wifi_status"
      /\ busy = "scan" => screen = "wifi_list"
  BY DEF WifiInv, WorkerInv
<1>2. screen \in There /\ screen' \in There
  BY <1>1 DEF WifiNext, MoveRow, JoinNetwork, NameOther, ScanAgain, HoldOk, HoldBack, Forget,
              KeepNetwork, WifiTyped, KeyboardCancel, WifiKeyboardEdits, WifiStatusPress,
              ConnectEnds, ScanEnds, OnList, AskPassword, StartConnect
<1> QED
  BY <1>2 DEF Elsewhere

\* The menu and the picker
LEMMA SettingsKeep ==
    ASSUME DialogsInv,
           \/ OpenSettings \/ (\E d \in {-1, 1} : MoveItem(d)) \/ LeaveSettings
           \/ SetManually \/ WifiSetup \/ LeaveWifi \/ WifiScreens
    PROVE  DialogsInv'
<1>1. WifiInv /\ EditorInv /\ PickerInv /\ item \in 0..2 /\ ScreensInv
  BY DEF DialogsInv, WifiInv
<1>2. CASE OpenSettings \/ LeaveSettings
  <2>1. /\ screen \in {"main", "time_setup"} /\ screen' \in {"main", "time_setup"}
        /\ UNCHANGED <<form, draft, picker, turns, left, keyboard, wifi>> /\ item' = 0
    BY <1>2 DEF OpenSettings, LeaveSettings
  <2>2. keyboard = NoKeyboard
    BY <1>1, <2>1 DEF ScreensInv
  <2>3. WifiInv'
    BY <1>1, <2>1, <2>2, WifiElsewhere DEF Elsewhere
  <2>4. EditorInv'
    BY <1>1, <2>1, FormStays
  <2>5. PickerInv'
    BY <1>1, <2>1, PickerStays
  <2> QED
    BY <2>1, <2>3, <2>4, <2>5 DEF DialogsInv
<1>3. ASSUME NEW d \in {-1, 1}, MoveItem(d)
      PROVE  DialogsInv'
  <2> DEFINE low == Min({2, item + d})
  <2>1. /\ screen = "time_setup" /\ screen' = screen
        /\ UNCHANGED <<form, draft, picker, turns, left, keyboard, wifi>>
        /\ item' = Max({0, low})
    BY <1>3 DEF MoveItem, editor, form, others
  <2>2. low = IF 2 <= item + d THEN 2 ELSE item + d
    BY <1>1, MinOfTwo
  <2>3. low \in -1..2
    <3> HIDE DEF low
    <3> QED
      BY <1>1, <2>2
  <2>4. Max({0, low}) = IF 0 >= low THEN 0 ELSE low
    <3> HIDE DEF low
    <3> QED
      BY <2>3, MaxOfTwo
  <2> HIDE DEF low
  <2>5. item' \in 0..2
    BY <2>1, <2>3, <2>4
  <2>6. keyboard = NoKeyboard
    BY <1>1, <2>1 DEF ScreensInv
  <2>7. WifiInv'
    BY <1>1, <2>1, <2>6, WifiElsewhere DEF Elsewhere
  <2>8. EditorInv'
    BY <1>1, <2>1, FormStays
  <2>9. PickerInv'
    BY <1>1, <2>1, PickerStays
  <2> QED
    BY <2>5, <2>7, <2>8, <2>9 DEF DialogsInv
<1>4. CASE SetManually
  <2>1. PICK now \in Clocks : OpenPicker("system_clock", now)
    BY <1>4 DEF SetManually
  <2>2. /\ screen = "time_setup" /\ screen' = "picker" /\ item' = 0
        /\ UNCHANGED <<form, draft, turns, keyboard, wifi>>
    BY <1>4 DEF SetManually
  <2>3. now \in Moment
    BY DialogsAssumption DEF Moment
  <2>4. IsPicker(picker', left') /\ picker' # NoPicker
    BY <2>1, <2>3, PickerOpens
  <2>5. PickerInv'
    BY <1>1, <2>2, <2>4 DEF PickerInv
  <2>6. keyboard = NoKeyboard
    BY <1>1, <2>2 DEF ScreensInv
  <2>7. WifiInv'
    BY <1>1, <2>2, <2>6, WifiElsewhere DEF Elsewhere
  <2>8. EditorInv'
    BY <1>1, <2>2, FormStays
  <2> QED
    BY <2>2, <2>5, <2>7, <2>8 DEF DialogsInv
<1>5. CASE WifiSetup
  <2>1. /\ screen = "time_setup" /\ screen' = "wifi_list" /\ item' = 0
        /\ UNCHANGED <<form, draft, picker, turns, left, keyboard, busy, job, joins>>
        /\ ShowScan(profiles)
    BY <1>5 DEF WifiSetup, OpenWifiList, worker
  <2>2. keyboard = NoKeyboard /\ busy = "no"
    BY <1>1, <2>1 DEF ScreensInv, WifiInv, WorkerInv
  <2>3. WifiInv'
    BY <1>1, <2>1, <2>2, ShownKeeps
  <2>4. EditorInv'
    BY <1>1, <2>1, FormStays
  <2>5. PickerInv'
    BY <1>1, <2>1, PickerStays
  <2> QED
    BY <2>1, <2>3, <2>4, <2>5 DEF DialogsInv
<1>6. CASE LeaveWifi
  <2>1. /\ screen = "wifi_list" /\ screen' = "time_setup" /\ item' = 2 /\ busy = "no"
        /\ UNCHANGED <<form, draft, picker, turns, left, keyboard, busy, job, joins>>
        /\ networks' = <<>> /\ row' = 0
        /\ heard' = NothingHeard
    BY <1>6 DEF LeaveWifi, ShortBack, OnList, worker
  <2>2. ListInv'
    <3>1. IsList(<<>>, heard')
      BY <2>1, EmptyList
    <3> QED
      BY <2>1, <3>1 DEF ListInv
  <2>3. RowInv'
    BY <1>1, <2>1, EmptySeq DEF WifiInv, RowInv
  <2>4. ScreensInv'
    BY <1>1, <2>1 DEF ScreensInv
  <2>5. WorkerInv'
    BY <1>1, <2>1 DEF WifiInv, WorkerInv, SecretStays
  <2>6. EditorInv'
    BY <1>1, <2>1, FormStays
  <2>7. PickerInv'
    BY <1>1, <2>1, PickerStays
  <2> QED
    BY <2>1, <2>2, <2>3, <2>4, <2>5, <2>6, <2>7 DEF DialogsInv, WifiInv
<1>7. CASE WifiScreens
  <2>1. WifiNext /\ UNCHANGED <<form, draft, picker, turns, left, item>>
    BY <1>7 DEF WifiScreens
  <2>2. screen \notin Elsewhere /\ screen' \notin Elsewhere
    BY <1>1, <2>1, WifiStaysThere
  <2>3. WifiInv'
    BY <1>1, <2>1, WifiKeeps
  <2>4. EditorInv'
    BY <1>1, <2>1, <2>2, FormStays DEF Elsewhere
  <2>5. PickerInv'
    BY <1>1, <2>1, <2>2, PickerStays DEF Elsewhere
  <2> QED
    BY <1>1, <2>1, <2>3, <2>4, <2>5 DEF DialogsInv
<1> QED
  BY <1>2, <1>3, <1>4, <1>5, <1>6, <1>7

LEMMA PickerKeeps ==
    ASSUME DialogsInv, PickerPresses \/ PickerSaves \/ PickerCancels
    PROVE  DialogsInv'
<1>1. /\ WifiInv /\ EditorInv /\ PickerInv /\ item \in 0..2 /\ ScreensInv
      /\ screen = "picker"
      /\ UNCHANGED settings
  BY DEF DialogsInv, WifiInv, PickerPresses, PickerSaves, PickerCancels, ClosePicker
<1>2. item' = item /\ UNCHANGED wifi /\ UNCHANGED keyboard
  BY <1>1 DEF settings, PickerPresses, PickerSaves, PickerCancels, ClosePicker
<1>3. keyboard = NoKeyboard /\ picker # NoPicker /\ IsPicker(picker, left)
  BY <1>1 DEF ScreensInv, PickerInv
<1>4. CASE PickerPresses
  <2>1. /\ PickerEdits /\ screen' = "picker" /\ UNCHANGED <<form, draft>>
    BY <1>1, <1>4 DEF PickerPresses
  <2>2. IsPicker(picker', left') /\ picker' # NoPicker /\ turns' \in 0..MaxTurns
    BY <1>1, <1>3, <2>1, PressesKeep DEF PickerInv
  <2>3. PickerInv'
    BY <2>1, <2>2 DEF PickerInv
  <2>4. WifiInv'
    BY <1>1, <1>2, <1>3, <2>1, WifiElsewhere DEF Elsewhere
  <2>5. EditorInv'
    BY <1>1, <2>1, FormStays
  <2> QED
    BY <1>1, <1>2, <2>3, <2>4, <2>5 DEF DialogsInv
<1>5. CASE PickerSaves \/ PickerCancels
  <2>1. /\ picker' = NoPicker /\ turns' = turns /\ UNCHANGED form
        /\ screen' \in {"main", "edit"}
    BY <1>5 DEF PickerSaves, PickerCancels, ClosePicker
  <2>2. WifiInv'
    BY <1>1, <1>2, <1>3, <2>1, WifiElsewhere DEF Elsewhere
  <2>3. PickerInv'
    BY <1>1, <2>1, PickerShuts
  <2>4. EditorInv'
    <3>1. CASE draft' = draft
      BY <1>1, <2>1, <3>1, FormStays
    <3>2. CASE draft' # draft
      <4> DEFINE m == Picked
                 t == picker.target
      <4>1. Saves /\ t # "system_clock" /\ draft' = [draft EXCEPT ![t] = m]
        BY <1>5, <3>2 DEF PickerSaves, PickerCancels
      <4>2. t \in {"start", "end"}
        BY <1>3, <4>1 DEF IsPicker, Pickers
      <4>3. m \in Moment /\ (m = NoMoment \/ ValidMoment(m))
        BY <1>3, <4>1, PickedIsMoment
      <4> HIDE DEF m, t
      <4>4. DraftInv
        BY <1>1 DEF EditorInv
      <4>5. /\ draft' \in [original : Listed \cup {NewName}, name : Seq(Chars),
                           interval : Nat \ {0}, start : Moment, end : Moment]
            /\ draft'.name = draft.name /\ draft'.original = draft.original
        BY <4>1, <4>2, <4>3, <4>4 DEF DraftInv
      <4>6. draft'.start \in {draft.start, m} /\ draft'.end \in {draft.end, m}
        BY <4>1, <4>2, <4>4 DEF DraftInv
      <4>7. DraftInv'
        BY <2>1, <4>3, <4>4, <4>5, <4>6 DEF DraftInv
      <4>8. UNCHANGED <<shots, snapshot, base, cursor, scroll, gen, edits, ladders, fields>>
        BY <2>1 DEF form, bounds
      <4>9. ShotsInv'
        BY <1>1, <4>8 DEF EditorInv, ShotsInv, Merged
      <4>10. WindowInv' /\ GeneratorInv' /\ BoundsInv'
        BY <1>1, <2>1, <4>8 DEF EditorInv, WindowInv, Rows, GeneratorInv, BoundsInv
      <4> QED
        BY <4>7, <4>9, <4>10 DEF EditorInv
    <3> QED
      BY <3>1, <3>2
  <2> QED
    BY <1>1, <1>2, <2>2, <2>3, <2>4 DEF DialogsInv
<1> QED
  BY <1>4, <1>5

-------------------------------------------------------------------------------
LEMMA InitKeeps ==
    ASSUME Init
    PROVE  DialogsInv
<1>1. /\ screen \in {"edit", "main"} /\ keyboard = NoKeyboard /\ picker = NoPicker
      /\ turns = 0 /\ item = 0
      /\ snapshot = shots /\ base = shots /\ cursor = 0 /\ scroll = 0 /\ gen = NoGen
      /\ edits = 0 /\ ladders = 0 /\ fields = 0
  BY DEF Init, EditorInit, SettingsInit
<1>2. /\ networks = <<>> /\ row = 0 /\ busy = "no" /\ job = NoJob /\ joins = 0
      /\ heard = NothingHeard
  BY DEF Init, WifiInit
<1>3. IsDraft(shots) /\ Len(shots) \in Nat
  <2>1. shots \in Originals \/ shots = <<>>
    BY DEF Init, EditorInit, SettingsInit
  <2>2. CASE shots \in Originals
    <3>1. shots \in Seq(Shot) /\ Saveable(shots)
      BY <2>2, ShotsAssumption
    <3> QED
      BY <3>1, SaveableInGrid, LenProperties DEF IsDraft
  <2>3. CASE shots = <<>>
    BY <2>3, EmptySeq, EditorAssumption DEF IsDraft
  <2> QED
    BY <2>1, <2>2, <2>3
<1>4. ShotsInv
  <2>1. Merged = Merge(shots, shots)
    BY <1>1 DEF Merged, Merge
  <2>2. shots \in Seq(GridShot)
    BY <1>3 DEF IsDraft
  <2>3. /\ Len(Merged) = Len(shots)
        /\ \A i \in 1..Len(shots) : Merged[i] = shots[i]
    <3>1. /\ Len(Merge(shots, shots)) = IF Len(shots) >= Len(shots) THEN Len(shots) ELSE Len(shots)
          /\ \A i \in 1..Len(Merge(shots, shots)) :
                 Merge(shots, shots)[i] = IF i <= Len(shots) THEN shots[i] ELSE shots[i]
      BY <2>2, MergeProperties
    <3> QED
      BY <2>1, <3>1
  <2> QED
    BY <1>1, <1>3, <2>3 DEF ShotsInv
<1>5. WindowInv
  BY <1>1, <1>3, EditorAssumption DEF WindowInv, Rows
<1>6. GeneratorInv /\ BoundsInv
  BY <1>1, NoGenFits, EditorAssumption DEF GeneratorInv, BoundsInv
<1>7. DraftInv
  <2>1. PICK name \in Listed \cup {NewName}, start \in Moments \cup {NoMoment} :
          draft = [original |-> name, name |-> name, interval |-> Interval,
                   start |-> start, end |-> NoMoment]
    BY DEF Init, EditorInit, SettingsInit
  <2>2. /\ name \in Seq(Chars) /\ Len(name) \in 1..Longest["config_name"]
        /\ start \in Moment /\ NoMoment \in Moment /\ Interval \in Nat \ {0}
    BY EditorAssumption DEF Moment
  <2>3. /\ draft \in [original : Listed \cup {NewName}, name : Seq(Chars),
                      interval : Nat \ {0}, start : Moment, end : Moment]
        /\ draft.name = name /\ draft.original = name
        /\ draft.start = start /\ draft.end = NoMoment
    BY <2>1, <2>2
  <2> QED
    BY <1>1, <2>2, <2>3 DEF DraftInv
<1>8. PickerInv
  BY <1>1, PickerAssumption DEF PickerInv
<1>9. ListInv /\ RowInv
  <2>1. IsList(<<>>, heard)
    BY <1>2, EmptyList
  <2> QED
    BY <1>2, <2>1, EmptySeq, WifiAssumption DEF ListInv, RowInv
<1>10. ScreensInv /\ WorkerInv
  BY <1>1, <1>2 DEF ScreensInv, WorkerInv, SecretStays
<1> QED
  BY <1>1, <1>4, <1>5, <1>6, <1>7, <1>8, <1>9, <1>10 DEF DialogsInv, WifiInv, EditorInv

LEMMA NextKeeps ==
    ASSUME DialogsInv, [Next]_vars
    PROVE  DialogsInv'
<1>1. CASE EditorScreens
  <2>1. EditorNext /\ UNCHANGED settings
    BY <1>1 DEF EditorScreens
  <2>2. item' = item
    BY <2>1 DEF settings
  <2> QED
    BY <2>1, <2>2, EditorKeeps, EditorLeavesRest DEF DialogsInv
<1>2. CASE \/ OpenSettings \/ (\E d \in {-1, 1} : MoveItem(d)) \/ LeaveSettings
           \/ SetManually \/ WifiSetup \/ LeaveWifi \/ WifiScreens
  BY <1>2, SettingsKeep
<1>3. CASE PickerPresses \/ PickerSaves \/ PickerCancels
  BY <1>3, PickerKeeps
<1>4. CASE UNCHANGED vars
  <2>1. UNCHANGED <<screen, shots, snapshot, base, cursor, scroll, gen, edits, ladders, fields,
                    draft, picker, turns, left, keyboard, item>>
        /\ UNCHANGED <<networks, row, heard, pending, busy, job, joins, asked>>
    BY <1>4 DEF vars, editor, bounds, others, settings, wifi, list, worker
  <2>2. ShotsInv'
    BY <2>1 DEF DialogsInv, EditorInv, ShotsInv, Merged
  <2>3. WindowInv' /\ GeneratorInv' /\ BoundsInv' /\ DraftInv'
    BY <2>1 DEF DialogsInv, EditorInv, WindowInv, Rows, GeneratorInv, BoundsInv, DraftInv
  <2>4. ListInv' /\ RowInv'
    BY <2>1 DEF DialogsInv, WifiInv, ListInv, RowInv
  <2>5. ScreensInv'
    BY <2>1 DEF DialogsInv, WifiInv, ScreensInv, OnNetwork
  <2>6. WorkerInv'
    BY <2>1 DEF DialogsInv, WifiInv, WorkerInv, SecretStays
  <2>7. PickerInv'
    BY <2>1 DEF DialogsInv, PickerInv
  <2> QED
    BY <2>1, <2>2, <2>3, <2>4, <2>5, <2>6, <2>7 DEF DialogsInv, WifiInv, EditorInv
<1> QED
  BY <1>1, <1>2, <1>3, <1>4 DEF Next

LEMMA DialogsInvHolds == Spec => []DialogsInv
  BY InitKeeps, NextKeeps, PTL DEF Spec

-------------------------------------------------------------------------------
(* What holds of every visit *)

\* Every list the Wi-Fi screens show says of the air what the scan did, whatever nmcli
\* printed and however the list was come by (parse_scan, _run_wifi_connect).
THEOREM ListExact == Spec => []ScanExact
<1>1. DialogsInv => ScanExact
  BY ListIsExact DEF DialogsInv, WifiInv
<1> QED
  BY <1>1, DialogsInvHolds, PTL

\* No password reaches a network it was not typed for, and none is joined without one that
\* needs one and has no profile (_start_wifi_connect_worker).
THEOREM SecretsStay == Spec => []SecretStays
<1>1. DialogsInv => SecretStays
  BY DEF DialogsInv, WifiInv, WorkerInv
<1> QED
  BY <1>1, DialogsInvHolds, PTL

\* No way round the numbers of shots changes a shot, for any MAX_SHOTS_PER_BRACKET, any
\* scales and any ladder in between (_cycle_shots, _merge_into_snapshot, _restore_shots).
THEOREM ShotsComeBack == Spec => []ShotsKept
<1>1. DialogsInv => ShotsKept
  BY KeptFromInv DEF DialogsInv, EditorInv
<1> QED
  BY <1>1, DialogsInvHolds, PTL

\* The row the cursor is on is there and in the window, whatever made the draft shorter,
\* for any height of the window that has the rows above those of the shots.
THEOREM WindowFollows == Spec => []CursorShown
<1>1. DialogsInv => CursorShown
  BY ShownFromInv DEF DialogsInv, EditorInv
<1> QED
  BY <1>1, DialogsInvHolds, PTL

\* Each mode of the picker comes back with the digits it was left with (_cycle_mode).
THEOREM DigitsComeBack == Spec => []DigitsKept
<1>1. DialogsInv => DigitsKept
  BY DEF DialogsInv, PickerInv, IsPicker, DigitsKept
<1> QED
  BY <1>1, DialogsInvHolds, PTL

\* Every cursor is on something that is there, and the draft can be saved at any time: no
\* ladder, no typed name and no picked moment is one that validate_strict refuses.
THEOREM TypeCorrect == Spec => []TypeOK
<1>1. DialogsInv => TypeOK
  <2> SUFFICES ASSUME DialogsInv
               PROVE  TypeOK
    OBVIOUS
  <2>1. /\ ShotsInv /\ WindowInv /\ GeneratorInv /\ BoundsInv /\ DraftInv
        /\ ListInv /\ RowInv /\ ScreensInv /\ WorkerInv /\ PickerInv /\ item \in 0..2
    BY DEF DialogsInv, WifiInv, EditorInv
  <2>2. EditorOK
    <3>1. \A s \in {shots, snapshot, base} : s \in Seq(Shot) /\ Saveable(s)
      BY <2>1, SaveableInGrid DEF ShotsInv, IsDraft
    <3>2. /\ Len(draft.name) \in 1..Longest["config_name"]
          /\ draft.name \in Listed => draft.name = draft.original
          /\ draft.interval \in Nat \ {0}
          /\ \A m \in {draft.start, draft.end} :
                 m \in Moments \/ m = NoMoment \/ ValidMoment(m)
      BY <2>1 DEF DraftInv
    <3>3. gen.ref \in Shot /\ gen.n \in 0..MaxShots
      BY <2>1 DEF GeneratorInv, Generators, GridShot
    <3> QED
      BY <2>1, <3>1, <3>2, <3>3 DEF EditorOK, BoundsInv
  <2>3. PickerOK
    <3>1. CASE picker = NoPicker
      BY <3>1 DEF PickerOK
    <3>2. CASE picker # NoPicker
      <4>1. IsPicker(picker, left) /\ turns \in 0..MaxTurns
        BY <2>1, <3>2 DEF PickerInv
      <4>2. /\ picker.cursor \in Leftmost..(Len(picker.digits) - 1)
            /\ Leftmost \in {-1, 0} /\ picker.mode \in Ways
            /\ picker.digits \in Seq(0..9)
            /\ Spells(picker.mode, picker.digits)
        BY <4>1, PickerParts DEF IsPicker
      <4>3. picker.mode = "none" => picker.cursor = -1
        BY <4>2 DEF Spells
      <4>4. picker.mode # "none" =>
               /\ Len(picker.digits) = Len(Highest[picker.mode])
               /\ \A i \in DOMAIN picker.digits : picker.digits[i] \in 0..9
        <5> SUFFICES ASSUME picker.mode # "none"
                     PROVE  /\ Len(picker.digits) = Len(Highest[picker.mode])
                            /\ \A i \in DOMAIN picker.digits : picker.digits[i] \in 0..9
          OBVIOUS
        <5>1. picker.mode \in {"time", "date_time"}
          BY <4>2 DEF Ways
        <5>2. Len(picker.digits) = Len(Highest[picker.mode])
          BY <4>2, <5>1, HighestDigits DEF Spells
        <5>3. \A i \in DOMAIN picker.digits : picker.digits[i] \in 0..9
          BY <4>2, LenProperties, ElementOfSeq
        <5> QED
          BY <5>2, <5>3
      <4> QED
        BY <4>1, <4>2, <4>3, <4>4 DEF PickerOK
    <3> QED
      BY <3>1, <3>2
  <2>4. KeyboardOK
    <3>1. CASE keyboard = NoKeyboard
      BY <3>1 DEF KeyboardOK
    <3>2. CASE keyboard # NoKeyboard
      <4>1. IsOpen(keyboard)
        BY <2>1, <3>2 DEF ScreensInv
      <4>2. /\ keyboard.row \in 0..3 /\ keyboard.layer \in DOMAIN Layers
            /\ keyboard.masked \in BOOLEAN /\ keyboard.error \in BOOLEAN
            /\ keyboard.target \in Targets
            /\ keyboard.col \in Nat
        BY <4>1 DEF IsOpen, OpenKeyboards
      <4>3. Len(Keys) \in Nat /\ keyboard.col < Len(Keys)
        BY <4>1, <4>2, KeysLength, KeyboardAssumption DEF IsOpen, Keys
      <4>4. keyboard.col \in 0..(Len(Keys) - 1)
        BY <4>2, <4>3
      <4>5. Len(keyboard.text) <= Longest[keyboard.target]
        BY <4>1 DEF IsOpen
      <4> QED
        BY <4>2, <4>4, <4>5 DEF KeyboardOK
    <3> QED
      BY <3>1, <3>2
  <2>5. WifiOK
    BY <2>1 DEF WifiOK, RowInv, ScreensInv, WorkerInv
  <2> QED
    BY <2>1, <2>2, <2>3, <2>4, <2>5 DEF TypeOK, PickerInv, ScreensInv
<1> QED
  BY <1>1, DialogsInvHolds, PTL
=============================================================================

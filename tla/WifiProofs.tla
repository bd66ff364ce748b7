----------------------------- MODULE WifiProofs -----------------------------
(***************************************************************************)
(* What a scan makes of the lines nmcli prints, the keyboard that is open, *)
(* and the invariant of the Wi-Fi screens and their workers (module Wifi), *)
(* for any number of lines.  The fold over the lines and the stable sort   *)
(* are taken apart by first-order induction on their length; DialogsProofs *)
(* takes the theorems of the specification from here.                      *)
(***************************************************************************)
EXTENDS Wifi, SequenceTheorems, FiniteSetTheorems, WellFoundedInduction, TLAPS

Network == [ssid : Seq(Chars) \ {NoSsid}, signal : Nat, secured : BOOLEAN,
            active : BOOLEAN, saved : BOOLEAN]

-------------------------------------------------------------------------------
\* The least-number principle, from the library's theorem about well-founded sets.
LEMMA LeastNumber ==
    ASSUME NEW T \in SUBSET Nat, T # {}
    PROVE  \E m \in T : \A n \in T : m <= n
<1> DEFINE Below == {p \in Nat \X Nat : p[1] < p[2]}
<1>1. IsWellFoundedOn(Below, Nat)
  BY NatLessThanWellFounded DEF OpToRel
<1>2. \A x, y \in Nat : y < x => <<y, x>> \in Below
  OBVIOUS
<1> HIDE DEF Below
<1>3. PICK x \in T : \A y \in T : ~ (<<y, x>> \in Below)
  BY <1>1, WFMin
<1>4. ASSUME NEW n \in T
      PROVE  x <= n
  <2>1. x \in Nat /\ n \in Nat /\ ~(n < x)
    BY <1>2, <1>3
  <2> QED
    BY <2>1
<1> QED
  BY <1>3, <1>4

\* How many places a list of n has, counted from one or from none.
LEMMA Places ==
    ASSUME NEW n \in Nat
    PROVE  /\ IsFiniteSet(1..n) /\ Cardinality(1..n) = n
           /\ IsFiniteSet(0..(n - 1)) /\ Cardinality(0..(n - 1)) = n
<1>1. \A a, b \in Int : /\ IsFiniteSet(a..b)
                        /\ Cardinality(a..b) = IF a > b THEN 0 ELSE b - a + 1
  BY FS_Interval, Zenon
<1>2. /\ 0 \in Int /\ 1 \in Int /\ n \in Int /\ n - 1 \in Int
      /\ (IF 1 > n THEN 0 ELSE n - 1 + 1) = n
      /\ (IF 0 > n - 1 THEN 0 ELSE n - 1 - 0 + 1) = n
  OBVIOUS
<1> QED
  BY <1>1, <1>2, Zenon

\* In a finite set under a strict total order, an element has as many before it as its
\* place says, and every place is taken.  B[i] are the elements before i.
LEMMA Ranks ==
    ASSUME NEW S, IsFiniteSet(S), NEW B \in [S -> SUBSET S],
           \A i \in S : i \notin B[i],
           \A i \in S : \A j \in B[i] : B[j] \subseteq B[i],
           \A i, j \in S : i # j => i \in B[j] \/ j \in B[i]
    PROVE  /\ \A i \in S : Cardinality(B[i]) \in 0..(Cardinality(S) - 1)
           /\ \A i, j \in S : i \in B[j] => Cardinality(B[i]) < Cardinality(B[j])
           /\ \A k \in 0..(Cardinality(S) - 1) : \E i \in S : Cardinality(B[i]) = k
<1> DEFINE n == Cardinality(S)
           place == [i \in S |-> Cardinality(B[i])]
<1>1. n \in Nat
  BY FS_CardinalityType
<1>2. ASSUME NEW T \in SUBSET S, NEW U \in SUBSET T, T # U
      PROVE  /\ Cardinality(U) \in Nat /\ Cardinality(T) \in Nat
             /\ Cardinality(U) < Cardinality(T)
  <2>1. IsFiniteSet(T) /\ IsFiniteSet(U)
    BY FS_Subset
  <2>2. Cardinality(U) \in Nat /\ Cardinality(T) \in Nat
    BY <2>1, FS_CardinalityType
  <2>3. Cardinality(U) <= Cardinality(T) /\ Cardinality(T) # Cardinality(U)
    BY <1>2, <2>1, FS_Subset
  <2> QED
    BY <2>2, <2>3
<1>3. \A i \in S : Cardinality(B[i]) \in 0..(n - 1)
  <2> SUFFICES ASSUME NEW i \in S
               PROVE  Cardinality(B[i]) \in 0..(n - 1)
    OBVIOUS
  <2>1. B[i] \in SUBSET S /\ B[i] # S
    OBVIOUS
  <2>2. Cardinality(B[i]) \in Nat /\ Cardinality(B[i]) < n
    BY <1>2, <2>1
  <2> QED
    BY <1>1, <2>2
<1>4. \A i, j \in S : i \in B[j] => Cardinality(B[i]) < Cardinality(B[j])
  <2> SUFFICES ASSUME NEW i \in S, NEW j \in S, i \in B[j]
               PROVE  Cardinality(B[i]) < Cardinality(B[j])
    OBVIOUS
  <2>1. B[j] \in SUBSET S /\ B[i] \in SUBSET B[j] /\ B[i] # B[j]
    OBVIOUS
  <2> QED
    BY <1>2, <2>1
<1>5. place \in Injection(S, 0..(n - 1))
  <2>1. place \in [S -> 0..(n - 1)]
    BY <1>3
  <2>2. ASSUME NEW i \in S, NEW j \in S, place[i] = place[j]
        PROVE  i = j
    BY <1>1, <1>3, <1>4, <2>2
  <2> QED
    BY <2>1, <2>2 DEF Injection, IsInjective
<1>6. IsFiniteSet(0..(n - 1)) /\ Cardinality(0..(n - 1)) = n
  BY <1>1, Places, Zenon
<1>7. place \in Surjection(S, 0..(n - 1))
  BY <1>5, <1>6, FS_Injection
<1>8. \A k \in 0..(n - 1) : \E i \in S : place[i] = k
  BY <1>7 DEF Surjection
<1> QED
  BY <1>3, <1>4, <1>8

\* What the sort goes by.
Ahead(n, m) ==
    \/ n.active /\ ~m.active
    \/ n.active = m.active /\ n.signal > m.signal

\* The sort is a permutation that puts no network behind one it should be ahead of.
LEMMA SortedOrders ==
    ASSUME NEW nets \in Seq(Network)
    PROVE  \E p \in [DOMAIN nets -> DOMAIN nets] :
              /\ Sorted(nets) = [k \in DOMAIN nets |-> nets[p[k]]]
              /\ \A k, l \in DOMAIN nets : k # l => p[k] # p[l]
              /\ \A i \in DOMAIN nets : \E k \in DOMAIN nets : p[k] = i
              /\ \A k, l \in DOMAIN nets : k < l => ~Ahead(nets[p[l]], nets[p[k]])
<1> DEFINE n == Len(nets)
           D == DOMAIN nets
           before(i, j) == \/ Ahead(nets[i], nets[j])
                           \/ ~Ahead(nets[j], nets[i]) /\ i < j
           B == [i \in D |-> {j \in D : before(j, i)}]
           p == [k \in D |->
                    CHOOSE i \in D : Cardinality({j \in D : before(j, i)}) = k - 1]
<1>1. n \in Nat /\ D = 1..n /\ \A i \in D : nets[i] \in Network
  BY LenProperties, ElementOfSeq
<1>2. IsFiniteSet(D) /\ Cardinality(D) = n
  BY <1>1, Places, Zenon
<1>3. /\ B \in [D -> SUBSET D]
      /\ \A i \in D : i \notin B[i]
      /\ \A i, j \in D : j \in B[i] <=> before(j, i)
  <2>1. \A i \in D : ~before(i, i)
    BY <1>1 DEF Ahead, Network
  <2> HIDE DEF before, D
  <2>2. B \in [D -> SUBSET D]
    OBVIOUS
  <2>3. \A i, j \in D : j \in B[i] <=> before(j, i)
    OBVIOUS
  <2> QED
    BY <2>1, <2>2, <2>3
<1>4. \A i, j, k \in D : before(k, j) /\ before(j, i) => before(k, i)
  BY <1>1 DEF Ahead, Network
<1>5. \A i \in D : \A j \in B[i] : B[j] \subseteq B[i]
  <2> HIDE DEF before, D
  <2> SUFFICES ASSUME NEW i \in D, NEW j \in B[i], NEW k \in B[j]
               PROVE  k \in B[i]
    OBVIOUS
  <2>1. j \in D /\ k \in D
    BY <1>3
  <2> QED
    BY <1>3, <1>4, <2>1
<1>6. \A i, j \in D : i # j => before(i, j) \/ before(j, i)
  BY <1>1 DEF Ahead, Network
<1>7. \A i, j \in D : i # j => i \in B[j] \/ j \in B[i]
  BY <1>3, <1>6
<1>10. Sorted(nets) = [k \in D |-> nets[p[k]]]
  BY DEF Sorted, Ahead
<1>15. \A i \in D : B[i] = {j \in D : before(j, i)}
  OBVIOUS
<1> HIDE DEF before, B
<1>8. /\ \A i \in D : Cardinality(B[i]) \in 0..(n - 1)
      /\ \A i, j \in D : i \in B[j] => Cardinality(B[i]) < Cardinality(B[j])
      /\ \A k \in 0..(n - 1) : \E i \in D : Cardinality(B[i]) = k
  <2> HIDE DEF D, n
  <2> QED
    BY <1>2, <1>3, <1>5, <1>7, Ranks
<1>9. \A k \in D : p[k] \in D /\ Cardinality(B[p[k]]) = k - 1
  <2> SUFFICES ASSUME NEW k \in D
               PROVE  p[k] \in D /\ Cardinality(B[p[k]]) = k - 1
    OBVIOUS
  <2>1. k - 1 \in 0..(n - 1)
    BY <1>1
  <2>2. \E i \in D : Cardinality({j \in D : before(j, i)}) = k - 1
    BY <1>8, <1>15, <2>1
  <2>3. p[k] \in D /\ Cardinality({j \in D : before(j, p[k])}) = k - 1
    <3> HIDE DEF D
    <3> QED
      BY <2>2
  <2> QED
    BY <1>15, <2>3
<1> HIDE DEF p
<1>11. \A k, l \in D : k # l => p[k] # p[l]
  <2> SUFFICES ASSUME NEW k \in D, NEW l \in D, p[k] = p[l]
               PROVE  k = l
    OBVIOUS
  <2>1. k - 1 = l - 1 /\ k \in Int /\ l \in Int
    BY <1>9, <1>1
  <2> QED
    BY <2>1
<1>12. \A i \in D : \E k \in D : p[k] = i
  <2> SUFFICES ASSUME NEW i \in D
               PROVE  \E k \in D : p[k] = i
    OBVIOUS
  <2> DEFINE c == Cardinality(B[i])
  <2>1. c \in 0..(n - 1)
    BY <1>8
  <2> HIDE DEF c
  <2>2. c + 1 \in D /\ (c + 1) - 1 = c
    BY <1>1, <2>1
  <2>3. p[c + 1] \in D /\ Cardinality(B[p[c + 1]]) = c
    BY <1>9, <2>2
  <2>4. i \notin B[p[c + 1]] /\ p[c + 1] \notin B[i]
    <3>1. Cardinality(B[p[c + 1]]) = Cardinality(B[i])
      BY <2>3 DEF c
    <3>2. ~(Cardinality(B[i]) < Cardinality(B[i]))
      BY <2>1 DEF c
    <3> QED
      BY <1>8, <2>3, <3>1, <3>2
  <2>5. p[c + 1] = i
    BY <1>7, <2>3, <2>4
  <2> QED
    BY <2>2, <2>5
<1>13. ASSUME NEW k \in D, NEW l \in D, k < l
       PROVE  ~Ahead(nets[p[l]], nets[p[k]])
  <2>1. p[k] \in D /\ p[l] \in D /\ p[k] # p[l]
    BY <1>1, <1>9, <1>11, <1>13
  <2>2. p[l] \notin B[p[k]]
    <3>1. Cardinality(B[p[l]]) = l - 1 /\ Cardinality(B[p[k]]) = k - 1
      BY <1>9
    <3>2. k \in Int /\ l \in Int /\ ~(l - 1 < k - 1)
      BY <1>1, <1>13
    <3>3. ~(Cardinality(B[p[l]]) < Cardinality(B[p[k]]))
      BY <3>1, <3>2
    <3> QED
      BY <1>8, <2>1, <3>3
  <2>3. ~before(p[l], p[k])
    BY <1>3, <2>1, <2>2
  <2> QED
    BY <2>3 DEF before
<1>14. p \in [D -> D]
  BY <1>9 DEF p
<1>16. \A k, l \in D : k < l => ~Ahead(nets[p[l]], nets[p[k]])
  BY <1>13
<1> QED
  BY <1>10, <1>11, <1>12, <1>14, <1>16

-------------------------------------------------------------------------------
\* The list before it is sorted, as the lines are read.
Collected(lines, known) ==
    FoldLeft(LAMBDA nets, line : AddLine(nets, line, known), <<>>, lines)

LEMMA GreatestOf ==
    ASSUME NEW n \in Nat, NEW s \in SUBSET (1..n), s # {}
    PROVE  Max(s) \in s /\ \A x \in s : x <= Max(s)
<1> DEFINE T == {n - x : x \in s}
<1>1. \A x \in s : x \in Nat /\ n - x \in Nat
  OBVIOUS
<1>5. T \in SUBSET Nat /\ T # {}
  BY <1>1
<1>2. PICK m \in T : \A k \in T : m <= k
  BY <1>5, LeastNumber
<1>3. PICK x \in s : m = n - x
  BY <1>2
<1>4. \A y \in s : x >= y
  <2> SUFFICES ASSUME NEW y \in s
               PROVE  x >= y
    OBVIOUS
  <2>1. n - y \in T
    OBVIOUS
  <2>2. n - x <= n - y
    BY <1>2, <1>3, <2>1
  <2> QED
    BY <1>1, <2>2
<1>6. Max(s) \in s /\ \A y \in s : Max(s) >= y
  BY <1>4 DEF Max
<1> QED
  BY <1>1, <1>6

LEMMA CollectedFolds ==
    ASSUME NEW lines \in Seq(Line), NEW known
    PROVE  \E f :
              /\ f[0] = <<>>
              /\ \A k \in 1..Len(lines) : f[k] = AddLine(f[k - 1], lines[k], known)
              /\ f[Len(lines)] = Collected(lines, known)
<1> DEFINE S == 1..Len(lines)
           IsFold(g, D) == g = [s \in D |->
               IF s = {} THEN <<>>
               ELSE AddLine(g[s \ {Max(s)}], lines[Max(s)], known)]
           iter == CHOOSE g : IsFold(g, SUBSET S)
<1>1. Len(lines) \in Nat /\ DOMAIN lines = S
  BY LenProperties
<1>2. Collected(lines, known) = iter[S]
  BY <1>1 DEF Collected, FoldLeft, MapThenFoldSet
<1> HIDE DEF iter
<1>8. IsFiniteSet(S) /\ Cardinality(S) \in Nat
  BY <1>1, Places
<1>9. \A s \in SUBSET S : /\ IsFiniteSet(s) /\ Cardinality(s) \in Nat
                          /\ Cardinality(s) <= Cardinality(S)
  BY <1>8, FS_Subset, FS_CardinalityType
<1>3. \E g : IsFold(g, SUBSET S)
  <2> DEFINE Small(m) == {s \in SUBSET S : Cardinality(s) <= m}
             Bad == {m \in Nat : ~ \E g : IsFold(g, Small(m))}
  <2>1. ASSUME Bad # {}
        PROVE  FALSE
    <3>1. PICK m \in Bad : \A k \in Bad : m <= k
      BY <2>1, LeastNumber
    <3>2. m # 0
      <4>1. ASSUME m = 0
            PROVE  FALSE
        <5> DEFINE g == [s \in Small(0) |-> <<>>]
        <5>1. \A s \in Small(0) : s = {}
          BY <1>9, FS_EmptySet
        <5>2. IsFold(g, Small(0))
          BY <5>1
        <5> QED
          BY <3>1, <4>1, <5>2
      <4> QED
        BY <4>1
    <3>3. m \in Nat /\ m - 1 \in Nat /\ m - 1 \notin Bad
      <4>1. m \in Nat /\ m - 1 \in Nat /\ ~(m <= m - 1)
        BY <3>1, <3>2
      <4> QED
        BY <3>1, <4>1
    <3>4. PICK g : IsFold(g, Small(m - 1))
      BY <3>3
    <3> DEFINE h == [s \in Small(m) |->
                       IF s = {} THEN <<>>
                       ELSE AddLine(g[s \ {Max(s)}], lines[Max(s)], known)]
    <3>5. \A s \in Small(m - 1) : s \in Small(m) /\ h[s] = g[s]
      <4>1. \A s \in Small(m - 1) : s \in Small(m)
        BY <1>9, <3>3
      <4> HIDE DEF Small
      <4> QED
        BY <3>4, <4>1
    <3>6. \A s \in Small(m) : s # {} => s \ {Max(s)} \in Small(m - 1)
      <4> SUFFICES ASSUME NEW s \in Small(m), s # {}
                   PROVE  s \ {Max(s)} \in Small(m - 1)
        OBVIOUS
      <4>1. Max(s) \in s
        BY <1>1, GreatestOf
      <4>2. Cardinality(s \ {Max(s)}) = Cardinality(s) - 1
        BY <1>9, <4>1, FS_RemoveElement
      <4> QED
        <5>1. s \in SUBSET S /\ s \ {Max(s)} \in SUBSET S /\ Cardinality(s) <= m
          OBVIOUS
        <5>2. Cardinality(s) - 1 <= m - 1
          BY <1>9, <3>3, <5>1
        <5> QED
          BY <4>2, <5>1, <5>2
    <3>7. \A s \in Small(m) : s # {} => h[s \ {Max(s)}] = g[s \ {Max(s)}]
      BY <3>5, <3>6
    <3>8. IsFold(h, Small(m))
      <4> HIDE DEF Small
      <4> QED
        BY <3>7
    <3> QED
      BY <3>1, <3>3, <3>8
  <2>2. Cardinality(S) \notin Bad
    BY <2>1
  <2>3. Small(Cardinality(S)) = SUBSET S
    BY <1>8, <1>9
  <2> QED
    BY <1>8, <2>2, <2>3
<1>4. IsFold(iter, SUBSET S)
  BY <1>3 DEF iter
<1> DEFINE f == [k \in 0..Len(lines) |-> iter[1..k]]
<1>5. f[0] = <<>>
  <2>1. 1..0 = {} /\ {} \in SUBSET S
    OBVIOUS
  <2> QED
    BY <1>1, <1>4, <2>1
<1>6. ASSUME NEW k \in 1..Len(lines)
      PROVE  f[k] = AddLine(f[k - 1], lines[k], known)
  <2>1. k \in Int /\ k - 1 \in 0..Len(lines) /\ k \in 0..Len(lines)
    BY <1>1
  <2>2. (1..k) \in SUBSET S /\ 1..k # {} /\ (1..k) \ {k} = 1..(k - 1)
    <3>1. 1..k \subseteq S
      BY <1>1, <2>1
    <3>2. k \in 1..k
      BY <2>1
    <3>3. (1..k) \ {k} = 1..(k - 1)
      BY <2>1
    <3> QED
      BY <3>1, <3>2, <3>3
  <2>3. Max(1..k) = k
    BY <2>1 DEF Max
  <2>4. iter[1..k] = AddLine(iter[(1..k) \ {Max(1..k)}], lines[Max(1..k)], known)
    BY <1>4, <2>2
  <2> QED
    BY <2>1, <2>2, <2>3, <2>4
<1>7. f[Len(lines)] = Collected(lines, known)
  BY <1>1, <1>2
<1> HIDE DEF f
<1> QED
  BY <1>5, <1>6, <1>7

\* A network of the list says of the first k lines what there is to say.
Sums(n, lines, k, known) ==
    LET of == {m \in 1..k : lines[m].ssid = n.ssid}
    IN /\ of # {}
       /\ n.signal \in {0} \cup {lines[m].signal : m \in of}
       /\ \A m \in of : lines[m].signal <= n.signal
       /\ n.secured <=> \E m \in of : lines[m].secured
       /\ n.active <=> \E m \in of : lines[m].used
       /\ n.saved <=> n.ssid \in known

\* So does the list: every network that was named is in it, once.
ListSums(nets, lines, k, known) ==
    /\ nets \in Seq(Network)
    /\ \A i \in DOMAIN nets : Sums(nets[i], lines, k, known)
    /\ \A i, j \in DOMAIN nets : i # j => nets[i].ssid # nets[j].ssid
    /\ \A m \in 1..k : lines[m].ssid # NoSsid =>
           \E i \in DOMAIN nets : nets[i].ssid = lines[m].ssid

LEMMA MaxOfTwo ==
    ASSUME NEW a \in Int, NEW b \in Int
    PROVE  Max({a, b}) = IF a >= b THEN a ELSE b
  BY DEF Max

\* One line more is read into the network it names, or leaves the network as it is.
LEMMA LineSums ==
    ASSUME NEW lines \in Seq(Line), NEW k \in 1..Len(lines), NEW known,
           NEW n \in Network, Sums(n, lines, k - 1, known)
    PROVE  IF lines[k].ssid # n.ssid THEN Sums(n, lines, k, known)
           ELSE LET new == [n EXCEPT !.signal = Max({@, lines[k].signal}),
                                     !.secured = @ \/ lines[k].secured,
                                     !.active = @ \/ lines[k].used]
                IN new \in Network /\ new.ssid = n.ssid /\ Sums(new, lines, k, known)
<1> DEFINE line == lines[k]
           of(i) == {m \in 1..i : lines[m].ssid = n.ssid}
<1>1. /\ Len(lines) \in Nat /\ k \in Nat /\ k # 0
      /\ \A m \in 1..k : lines[m] \in Line
  BY LenProperties, ElementOfSeq
<1>2. 1..k = (1..(k - 1)) \cup {k}
  BY <1>1
<1>3. CASE line.ssid # n.ssid
  <2>1. of(k) = of(k - 1)
    BY <1>2, <1>3
  <2> QED
    BY <1>3, <2>1 DEF Sums
<1>4. CASE line.ssid = n.ssid
  <2>1. of(k) = of(k - 1) \cup {k}
    BY <1>2, <1>4
  <2> DEFINE new == [n EXCEPT !.signal = Max({@, line.signal}),
                              !.secured = @ \/ line.secured,
                              !.active = @ \/ line.used]
             best == IF n.signal >= line.signal THEN n.signal ELSE line.signal
  <2>2. line \in Line /\ n.signal \in Nat
    BY <1>1 DEF Network
  <2>3. Max({n.signal, line.signal}) = best /\ best \in Nat
    <3>1. line.signal \in Int /\ n.signal \in Int
      BY <2>2 DEF Line
    <3>2. Max({n.signal, line.signal}) = best
      BY <3>1, MaxOfTwo
    <3> QED
      BY <2>2, <3>1, <3>2
  <2>4. new = [n EXCEPT !.signal = best, !.secured = @ \/ line.secured,
                        !.active = @ \/ line.used]
    BY <2>3
  <2>5. /\ new \in Network /\ new.ssid = n.ssid /\ new.saved = n.saved
        /\ new.signal = best
        /\ new.secured = (n.secured \/ line.secured)
        /\ new.active = (n.active \/ line.used)
    BY <2>2, <2>3, <2>4 DEF Network, Line
  <2> HIDE DEF new
  <2> DEFINE old == of(k - 1)
             all == of(k)
  <2>6. /\ old # {}
        /\ n.signal \in {0} \cup {lines[m].signal : m \in old}
        /\ \A m \in old : lines[m].signal <= n.signal
        /\ n.secured <=> \E m \in old : lines[m].secured
        /\ n.active <=> \E m \in old : lines[m].used
        /\ n.saved <=> n.ssid \in known
    BY DEF Sums
  <2>7. all = old \cup {k} /\ \A m \in all : lines[m] \in Line
    BY <1>1, <2>1
  <2>10. {m \in 1..k : lines[m].ssid = new.ssid} = all
    BY <2>5
  <2> HIDE DEF old, all, of
  <2>8. new.signal \in {0} \cup {lines[m].signal : m \in all}
    BY <2>5, <2>6, <2>7
  <2>9. ASSUME NEW m \in all
        PROVE  lines[m].signal <= new.signal
    <3>1. lines[m].signal \in Int /\ line.signal \in Int /\ n.signal \in Int
      BY <2>2, <2>7 DEF Line
    <3>2. lines[m].signal <= n.signal \/ m = k
      BY <2>6, <2>7
    <3> QED
      BY <2>5, <3>1, <3>2
  <2>11. new.secured <=> \E m \in all : lines[m].secured
    BY <2>5, <2>6, <2>7
  <2>12. new.active <=> \E m \in all : lines[m].used
    BY <2>5, <2>6, <2>7
  <2>13. Sums(new, lines, k, known)
    BY <2>5, <2>6, <2>7, <2>8, <2>9, <2>10, <2>11, <2>12 DEF Sums
  <2> QED
    BY <1>4, <2>5, <2>13 DEF new
<1> QED
  BY <1>3, <1>4

\* A line that names a network for the first time.
LEMMA NewSums ==
    ASSUME NEW lines \in Seq(Line), NEW k \in 1..Len(lines), NEW known,
           lines[k].ssid # NoSsid,
           \A m \in 1..(k - 1) : lines[m].ssid # lines[k].ssid
    PROVE  LET new == [ssid |-> lines[k].ssid, signal |-> Max({0, lines[k].signal}),
                       secured |-> lines[k].secured, active |-> lines[k].used,
                       saved |-> lines[k].ssid \in known]
           IN new \in Network /\ Sums(new, lines, k, known)
<1> DEFINE line == lines[k]
           best == IF 0 >= line.signal THEN 0 ELSE line.signal
           new == [ssid |-> line.ssid, signal |-> Max({0, line.signal}),
                   secured |-> line.secured, active |-> line.used,
                   saved |-> line.ssid \in known]
<1>1. line \in Line /\ Len(lines) \in Nat /\ k \in Nat /\ k # 0
  BY LenProperties, ElementOfSeq
<1>2. Max({0, line.signal}) = best /\ best \in Nat
  <2>1. line.signal \in Int /\ 0 \in Int
    BY <1>1 DEF Line
  <2>2. Max({0, line.signal}) = best
    BY <2>1, MaxOfTwo
  <2> QED
    BY <2>1, <2>2
<1>3. /\ new \in Network /\ new.signal = best
  BY <1>1, <1>2 DEF Network, Line
<1>4. {m \in 1..k : lines[m].ssid = new.ssid} = {k}
  BY <1>1
<1>5. best \in {0} \cup {lines[m].signal : m \in {k}}
  OBVIOUS
<1>6. \A m \in {k} : lines[m].signal <= best
  BY <1>1 DEF Line
<1>7. /\ new.secured = line.secured /\ new.active = line.used
      /\ new.saved = (line.ssid \in known) /\ new.ssid = line.ssid
  OBVIOUS
<1> HIDE DEF new
<1>8. Sums(new, lines, k, known)
  BY <1>3, <1>4, <1>5, <1>6, <1>7 DEF Sums
<1> QED
  BY <1>3, <1>8 DEF new

LEMMA AddLineSums ==
    ASSUME NEW lines \in Seq(Line), NEW k \in 1..Len(lines), NEW known,
           NEW nets, ListSums(nets, lines, k - 1, known)
    PROVE  ListSums(AddLine(nets, lines[k], known), lines, k, known)
<1> DEFINE line == lines[k]
           D == DOMAIN nets
<1>1. /\ nets \in Seq(Network)
      /\ \A i \in D : Sums(nets[i], lines, k - 1, known) /\ nets[i] \in Network
      /\ \A i, j \in D : i # j => nets[i].ssid # nets[j].ssid
      /\ \A m \in 1..(k - 1) : lines[m].ssid # NoSsid =>
             \E i \in D : nets[i].ssid = lines[m].ssid
  BY ElementOfSeq, LenProperties DEF ListSums
<1>2. Len(nets) \in Nat /\ D = 1..Len(nets)
  BY <1>1, LenProperties
<1>3. k \in Nat /\ k # 0 /\ 1..k = (1..(k - 1)) \cup {k} /\ line \in Line
  BY LenProperties, ElementOfSeq
<1>4. \A i \in D :
         IF line.ssid # nets[i].ssid THEN Sums(nets[i], lines, k, known)
         ELSE LET new == [nets[i] EXCEPT !.signal = Max({@, line.signal}),
                                         !.secured = @ \/ line.secured,
                                         !.active = @ \/ line.used]
              IN new \in Network /\ new.ssid = nets[i].ssid /\ Sums(new, lines, k, known)
  BY <1>1, LineSums
<1>5. CASE line.ssid = NoSsid
  <2>1. AddLine(nets, line, known) = nets
    BY <1>5 DEF AddLine
  <2>2. \A i \in D : nets[i].ssid # NoSsid
    BY <1>1 DEF Network
  <2>3. \A i \in D : Sums(nets[i], lines, k, known)
    BY <1>4, <1>5, <2>2
  <2>4. \A m \in 1..k : lines[m].ssid # NoSsid =>
            \E i \in D : nets[i].ssid = lines[m].ssid
    BY <1>1, <1>3, <1>5
  <2> QED
    BY <1>1, <2>1, <2>3, <2>4 DEF ListSums
<1>6. CASE line.ssid # NoSsid /\ Known(nets, line.ssid)
  <2> DEFINE merged(n) == [n EXCEPT !.signal = Max({@, line.signal}),
                                    !.secured = @ \/ line.secured,
                                    !.active = @ \/ line.used]
             new(i) == IF nets[i].ssid # line.ssid THEN nets[i] ELSE merged(nets[i])
             all == [i \in D |-> new(i)]
  <2>1. AddLine(nets, line, known) = all
    BY <1>6 DEF AddLine
  <2>2. \A i \in D : /\ new(i) \in Network /\ new(i).ssid = nets[i].ssid
                     /\ Sums(new(i), lines, k, known)
    BY <1>1, <1>4
  <2> HIDE DEF new
  <2>3. all \in Seq(Network) /\ DOMAIN all = D /\ \A i \in D : all[i] = new(i)
    <3>1. \A i \in 1..Len(nets) : new(i) \in Network
      BY <1>2, <2>2
    <3>2. [i \in 1..Len(nets) |-> new(i)] \in Seq(Network)
      BY <1>2, <3>1, IsASeq
    <3>3. all = [i \in 1..Len(nets) |-> new(i)]
      BY <1>2
    <3> QED
      BY <3>2, <3>3
  <2> HIDE DEF all
  <2>4. \A m \in 1..k : lines[m].ssid # NoSsid =>
            \E i \in D : all[i].ssid = lines[m].ssid
    <3>1. \E i \in D : nets[i].ssid = line.ssid
      BY <1>6 DEF Known
    <3> QED
      BY <1>1, <1>3, <2>2, <2>3, <3>1
  <2>5. \A i, j \in D : i # j => all[i].ssid # all[j].ssid
    BY <1>1, <2>2, <2>3
  <2>6. \A i \in D : Sums(all[i], lines, k, known)
    BY <2>2, <2>3
  <2> QED
    BY <2>1, <2>3, <2>4, <2>5, <2>6 DEF ListSums
<1>7. CASE line.ssid # NoSsid /\ ~Known(nets, line.ssid)
  <2> DEFINE new == [ssid |-> line.ssid, signal |-> Max({0, line.signal}),
                     secured |-> line.secured, active |-> line.used,
                     saved |-> line.ssid \in known]
             all == Append(nets, new)
             n == Len(nets)
  <2>1. AddLine(nets, line, known) = all
    BY <1>7 DEF AddLine
  <2>2. \A i \in D : nets[i].ssid # line.ssid
    BY <1>7 DEF Known
  <2>3. \A m \in 1..(k - 1) : lines[m].ssid # line.ssid
    BY <1>1, <1>7, <2>2
  <2>4. new \in Network /\ Sums(new, lines, k, known) /\ new.ssid = line.ssid
    BY <1>7, <2>3, NewSums
  <2> HIDE DEF new
  <2>5. /\ all \in Seq(Network) /\ Len(all) = n + 1
        /\ \A i \in 1..n : all[i] = nets[i]
        /\ all[n + 1] = new
    BY <1>1, <2>4, AppendProperties
  <2>6. DOMAIN all = D \cup {n + 1}
    <3>1. DOMAIN all = 1..(n + 1)
      BY <2>5, LenProperties
    <3> QED
      BY <1>2, <3>1
  <2>7. n + 1 \notin D
    BY <1>2
  <2>8. \A i \in D : all[i] = nets[i]
    BY <1>2, <2>5
  <2> HIDE DEF all, n, D
  <2>9. \A i \in DOMAIN all : Sums(all[i], lines, k, known)
    BY <1>4, <2>2, <2>4, <2>5, <2>6, <2>8
  <2>10. \A i, j \in DOMAIN all : i # j => all[i].ssid # all[j].ssid
    <3>1. \A i, j \in D : i # j => all[i].ssid # all[j].ssid
      BY <1>1, <2>8
    <3>2. \A i \in D : all[i].ssid # all[n + 1].ssid
      BY <2>2, <2>4, <2>5, <2>8
    <3> QED
      BY <2>6, <3>1, <3>2
  <2>11. ASSUME NEW m \in 1..k, lines[m].ssid # NoSsid
         PROVE  \E i \in DOMAIN all : all[i].ssid = lines[m].ssid
    <3>1. CASE m = k
      BY <2>4, <2>5, <2>6, <3>1
    <3>2. CASE m \in 1..(k - 1)
      BY <1>1, <2>6, <2>8, <2>11, <3>2
    <3> QED
      BY <1>3, <3>1, <3>2
  <2> QED
    BY <2>1, <2>5, <2>9, <2>10, <2>11 DEF ListSums
<1> QED
  BY <1>5, <1>6, <1>7

LEMMA CollectedSums ==
    ASSUME NEW lines \in Seq(Line), NEW known
    PROVE  ListSums(Collected(lines, known), lines, Len(lines), known)
<1>1. PICK f : /\ f[0] = <<>>
               /\ \A k \in 1..Len(lines) : f[k] = AddLine(f[k - 1], lines[k], known)
               /\ f[Len(lines)] = Collected(lines, known)
  BY CollectedFolds
<1>2. Len(lines) \in Nat
  BY LenProperties
<1>3. ListSums(f[0], lines, 0, known)
  <2>1. <<>> \in Seq(Network) /\ Len(<<>>) = 0
    BY EmptySeq
  <2>2. DOMAIN <<>> = {}
    OBVIOUS
  <2> QED
    BY <1>1, <2>1, <2>2 DEF ListSums
<1> DEFINE Bad == {k \in 0..Len(lines) : ~ListSums(f[k], lines, k, known)}
<1>4. ASSUME Bad # {}
      PROVE  FALSE
  <2>1. Bad \in SUBSET Nat
    BY <1>2
  <2>2. PICK k \in Bad : \A m \in Bad : k <= m
    BY <1>4, <2>1, LeastNumber
  <2>3. k \in 1..Len(lines) /\ k - 1 \in 0..Len(lines) /\ ~(k <= k - 1)
    BY <1>2, <1>3, <2>2
  <2>4. ListSums(f[k - 1], lines, k - 1, known)
    BY <2>2, <2>3
  <2>5. ListSums(f[k], lines, k, known)
    BY <1>1, <2>3, <2>4, AddLineSums
  <2> QED
    BY <2>2, <2>5
<1>5. Len(lines) \in 0..Len(lines)
  BY <1>2
<1> QED
  BY <1>1, <1>4, <1>5

\* The list of a scan says of the air what the lines do, whatever their number and order:
\* each network that was named, once, with its best signal, a lock if any station has
\* one, the mark of the connection in use and of a saved profile; in the order of the
\* connection in use first and then of the signals (nmcli.parse_scan).
THEOREM ScanSays ==
    ASSUME NEW lines \in Seq(Line), NEW known
    PROVE  /\ ListSums(Scan(lines, known), lines, Len(lines), known)
           /\ \A i, j \in DOMAIN Scan(lines, known) :
                  i < j => ~Ahead(Scan(lines, known)[j], Scan(lines, known)[i])
<1> DEFINE nets == Collected(lines, known)
           D == DOMAIN nets
           N == Sorted(nets)
<1>1. Scan(lines, known) = N
  BY DEF Scan, Collected
<1>2. /\ ListSums(nets, lines, Len(lines), known)
      /\ nets \in Seq(Network)
  <2>1. ListSums(nets, lines, Len(lines), known)
    BY CollectedSums, Zenon
  <2> QED
    BY <2>1, Zenon DEF ListSums
<1> HIDE DEF nets
<1>3. PICK p \in [D -> D] :
              /\ N = [k \in D |-> nets[p[k]]]
              /\ \A k, l \in D : k # l => p[k] # p[l]
              /\ \A i \in D : \E k \in D : p[k] = i
              /\ \A k, l \in D : k < l => ~Ahead(nets[p[l]], nets[p[k]])
  BY <1>2, SortedOrders
<1>4. DOMAIN N = D /\ \A k \in D : N[k] = nets[p[k]] /\ p[k] \in D
  BY <1>3
<1>5. N \in Seq(Network)
  <2>1. Len(nets) \in Nat /\ D = 1..Len(nets)
    BY <1>2, LenProperties
  <2>2. \A k \in 1..Len(nets) : nets[p[k]] \in Network
    BY <1>2, <1>4, <2>1, ElementOfSeq
  <2>3. [k \in 1..Len(nets) |-> nets[p[k]]] \in Seq(Network)
    BY <2>1, <2>2, IsASeq
  <2> QED
    BY <1>3, <2>1, <2>3
<1>6. \A i \in D : Sums(N[i], lines, Len(lines), known)
  BY <1>2, <1>4 DEF ListSums
<1>7. \A i, j \in D : i # j => N[i].ssid # N[j].ssid
  BY <1>2, <1>3, <1>4 DEF ListSums
<1>8. \A m \in 1..Len(lines) : lines[m].ssid # NoSsid =>
          \E i \in D : N[i].ssid = lines[m].ssid
  <2> SUFFICES ASSUME NEW m \in 1..Len(lines), lines[m].ssid # NoSsid
               PROVE  \E i \in D : N[i].ssid = lines[m].ssid
    OBVIOUS
  <2>1. PICK i \in D : nets[i].ssid = lines[m].ssid
    BY <1>2 DEF ListSums
  <2>2. PICK k \in D : p[k] = i
    BY <1>3
  <2> QED
    BY <1>4, <2>1, <2>2
<1>9. \A i, j \in D : i < j => ~Ahead(N[j], N[i])
  BY <1>3, <1>4
<1> HIDE DEF N
<1>10. ListSums(N, lines, Len(lines), known)
  BY <1>4, <1>5, <1>6, <1>7, <1>8 DEF ListSums
<1> QED
  BY <1>1, <1>4, <1>9, <1>10

-------------------------------------------------------------------------------
(* The keyboard *)

OpenKeyboards ==
    [target : Targets, text : Seq(Chars), taken : SUBSET Seq(Chars), layer : DOMAIN Layers,
     masked : BOOLEAN, row : 0..3, col : Nat, error : BOOLEAN]

\* Open, it has its cursor on a key and a text that is not too long.
IsOpen(k) ==
    /\ k \in OpenKeyboards
    /\ k.col < Len(KeysOf(k.target, k.row))
    /\ Len(k.text) <= Longest[k.target]

KeyboardInv == keyboard = NoKeyboard \/ IsOpen(keyboard)

LEMMA KeysLength ==
    ASSUME NEW target \in Targets, NEW r \in 0..3
    PROVE  Len(KeysOf(target, r)) =
               IF r < 3 THEN Columns ELSE IF target = "password" THEN 5 ELSE 4
<1> DEFINE Kinds == {"char", "layer", "space", "back", "mask", "done"}
<1>1. CASE r < 3
  <2>1. Columns \in Nat /\ \A c \in 1..Columns : "char" \in Kinds
    BY KeyboardAssumption
  <2> HIDE DEF Kinds
  <2>2. [c \in 1..Columns |-> "char"] \in Seq(Kinds)
    BY <2>1, IsASeq
  <2> DEFINE chars == [c \in 1..Columns |-> "char"]
  <2>3. DOMAIN chars = 1..Columns /\ DOMAIN chars = 1..Len(chars) /\ Len(chars) \in Nat
    BY <2>2, LenProperties
  <2>4. Len(chars) = Columns
    <3> HIDE DEF chars
    <3> QED
      BY <2>1, <2>3
  <2> QED
    BY <1>1, <2>4 DEF KeysOf
<1>2. CASE ~(r < 3)
  <2> DEFINE front == <<"layer", "space", "back">>
             mask == IF target = "password" THEN <<"mask">> ELSE <<>>
             done == <<"done">>
  <2>1. front \in Seq(Kinds) /\ Len(front) = 3
    OBVIOUS
  <2>2. done \in Seq(Kinds) /\ Len(done) = 1
    OBVIOUS
  <2>3. <<>> \in Seq(Kinds) /\ Len(<<>>) = 0
    BY EmptySeq
  <2>7. <<"mask">> \in Seq(Kinds) /\ Len(<<"mask">>) = 1
    OBVIOUS
  <2>8. mask \in Seq(Kinds)
    BY <2>3, <2>7
  <2>9. Len(mask) = IF target = "password" THEN 1 ELSE 0
    BY <2>3, <2>7
  <2>4. KeysOf(target, r) = front \o mask \o done
    BY <1>2 DEF KeysOf
  <2> HIDE DEF front, mask, done, Kinds
  <2>10. front \o mask \in Seq(Kinds) /\ Len(front \o mask) = Len(front) + Len(mask)
    BY <2>1, <2>8, ConcatProperties
  <2>5. front \o mask \in Seq(Kinds) /\ Len(front \o mask) = 3 + Len(mask)
    BY <2>1, <2>10
  <2>6. Len((front \o mask) \o done) = 3 + Len(mask) + 1
    <3>1. Len((front \o mask) \o done) = Len(front \o mask) + Len(done)
      BY <2>2, <2>5, ConcatProperties, Zenon
    <3> QED
      BY <2>2, <2>5, <3>1, Zenon
  <2> QED
    BY <1>2, <2>4, <2>6, <2>9
<1> QED
  BY <1>1, <1>2

\* A keyboard that is opened on a text that is short enough.
LEMMA KeyboardOpens ==
    ASSUME NEW target \in Targets, NEW text \in Seq(Chars), NEW taken \in SUBSET Seq(Chars),
           Len(text) <= Longest[target]
    PROVE  /\ IsOpen(Keyboard(target, text, taken))
           /\ Keyboard(target, text, taken).target = target
           /\ Keyboard(target, text, taken).text = text
           /\ Keyboard(target, text, taken).taken = taken
           /\ Keyboard(target, text, taken) # NoKeyboard
<1> DEFINE k == Keyboard(target, text, taken)
<1>1. 1 \in DOMAIN Layers
  BY KeyboardAssumption, LenProperties, EmptySeq
<1>2. k \in OpenKeyboards
  BY <1>1 DEF OpenKeyboards, Keyboard
<1>3. /\ k.target = target /\ k.text = text /\ k.taken = taken /\ k.row = 0 /\ k.col = 0
  BY DEF Keyboard
<1>4. 0 < Len(KeysOf(target, 0))
  BY KeysLength, KeyboardAssumption
<1>5. k # NoKeyboard
  <2>1. NoKeyboard.target = "none"
    BY DEF NoKeyboard
  <2> QED
    BY <1>3, <2>1 DEF Targets
<1> HIDE DEF k
<1>6. IsOpen(k)
  BY <1>2, <1>3, <1>4 DEF IsOpen
<1> QED
  BY <1>3, <1>5, <1>6 DEF k

\* A keyboard that is opened empty.
LEMMA KeyboardFresh ==
    ASSUME NEW target \in Targets
    PROVE  /\ IsOpen(Keyboard(target, <<>>, {}))
           /\ Keyboard(target, <<>>, {}) # NoKeyboard
           /\ Keyboard(target, <<>>, {}).target = target
<1> DEFINE empty == <<>>
           none == {}
<1>1. empty \in Seq(Chars) /\ Len(empty) = 0
  BY EmptySeq
<1>2. Longest[target] \in Nat
  BY KeyboardAssumption
<1>3. Len(empty) <= Longest[target] /\ none \in SUBSET Seq(Chars)
  BY <1>1, <1>2
<1>5. empty \in Seq(Chars)
  BY <1>1
<1> HIDE DEF empty, none
<1>4. /\ IsOpen(Keyboard(target, empty, none))
      /\ Keyboard(target, empty, none) # NoKeyboard
      /\ Keyboard(target, empty, none).target = target
  BY <1>3, <1>5, KeyboardOpens
<1> QED
  BY <1>4 DEF empty, none

LEMMA Scales ==
    ASSUME NEW a \in Nat, NEW b \in Nat, NEW c \in Nat \ {0}
    PROVE  (a * b) \div c \in Nat
<1>1. a * b \in Nat
  OBVIOUS
<1> DEFINE p == a * b
<1> HIDE DEF p
<1>2. p \in Nat
  BY <1>1 DEF p
<1>3. p \div c \in Nat
  BY <1>2
<1> QED
  BY <1>3 DEF p

LEMMA MinOfTwo ==
    ASSUME NEW a \in Int, NEW b \in Int
    PROVE  Min({a, b}) = IF a <= b THEN a ELSE b
  BY DEF Min

\* No key breaks it, and none but letters and the backspace changes the text.
LEMMA EditsKeepOpen ==
    ASSUME IsOpen(keyboard), KeyboardEdits
    PROVE  /\ IsOpen(keyboard')
           /\ keyboard'.target = keyboard.target
           /\ keyboard'.taken = keyboard.taken
           /\ keyboard' # NoKeyboard
<1> DEFINE n == Len(Keys)
           k == keyboard'
<1>1. /\ keyboard \in OpenKeyboards /\ n = Len(KeysOf(keyboard.target, keyboard.row))
      /\ keyboard.col \in 0..(n - 1)
      /\ n \in Nat \ {0}
  <2>1. /\ keyboard \in OpenKeyboards /\ keyboard.col < n
        /\ n = Len(KeysOf(keyboard.target, keyboard.row))
    BY DEF IsOpen, Keys
  <2>2. n \in Nat
    BY <2>1, KeysLength, KeyboardAssumption DEF OpenKeyboards
  <2> QED
    BY <2>1, <2>2 DEF OpenKeyboards
<1>2. /\ keyboard.text \in Seq(Chars) /\ Len(keyboard.text) \in Nat
      /\ Longest[keyboard.target] \in Nat /\ Len(keyboard.text) <= Longest[keyboard.target]
  BY <1>1, KeyboardAssumption, LenProperties DEF OpenKeyboards, IsOpen
<1> HIDE DEF n
<1>3. ASSUME NEW d \in {-1, 1}, KeyboardSide(d)
      PROVE  IsOpen(k) /\ k.target = keyboard.target /\ k.taken = keyboard.taken
  <2> DEFINE c == (keyboard.col + d) % n
  <2>1. c \in 0..(n - 1)
    BY <1>1
  <2>2. k = [keyboard EXCEPT !.col = c]
    BY <1>3 DEF KeyboardSide, n
  <2> HIDE DEF c
  <2>3. /\ k \in OpenKeyboards /\ k.target = keyboard.target /\ k.taken = keyboard.taken
        /\ k.row = keyboard.row /\ k.text = keyboard.text /\ k.col = c
    <3>1. c \in Nat /\ keyboard \in OpenKeyboards
      BY <1>1, <2>1
    <3> QED
      BY <2>2, <3>1 DEF OpenKeyboards
  <2>4. k.col < Len(KeysOf(k.target, k.row))
    <3>1. c < n
      BY <1>1, <2>1
    <3> QED
      BY <1>1, <2>3, <3>1, Zenon
  <2> QED
    BY <1>2, <2>3, <2>4 DEF IsOpen
<1>4. ASSUME NEW d \in {-1, 1}, KeyboardRow(d)
      PROVE  IsOpen(k) /\ k.target = keyboard.target /\ k.taken = keyboard.taken
  <2> DEFINE r == Max({0, Min({3, keyboard.row + d})})
             there == Len(KeysOf(keyboard.target, r))
             scaled == (keyboard.col * there) \div n
             c == IF r = keyboard.row THEN keyboard.col ELSE Min({scaled, there - 1})
  <2>1. r \in 0..3
    <3>1. keyboard.row \in 0..3 /\ keyboard.row + d \in Int
      BY <1>1 DEF OpenKeyboards
    <3>2. Min({3, keyboard.row + d}) = IF 3 <= keyboard.row + d THEN 3 ELSE keyboard.row + d
      BY <3>1, MinOfTwo
    <3> DEFINE low == Min({3, keyboard.row + d})
    <3>3. low \in Int /\ low <= 3
      BY <3>1, <3>2
    <3> HIDE DEF low
    <3>4. Max({0, low}) = IF 0 >= low THEN 0 ELSE low
      BY <3>3, MaxOfTwo
    <3> QED
      BY <3>3, <3>4 DEF low
  <2>2. k = [keyboard EXCEPT !.row = r, !.col = c]
    BY <1>4 DEF KeyboardRow, n
  <2> HIDE DEF r
  <2>3. there \in Nat \ {0}
    <3>1. keyboard.target \in Targets
      BY <1>1 DEF OpenKeyboards
    <3> QED
      <4>1. there = IF r < 3 THEN Columns ELSE IF keyboard.target = "password" THEN 5 ELSE 4
        BY <2>1, <3>1, KeysLength
      <4> QED
        BY <4>1, KeyboardAssumption
  <2>4. scaled \in Nat
    <3>1. keyboard.col \in Nat
      BY <1>1
    <3> HIDE DEF there
    <3> QED
      BY <1>1, <2>3, <3>1, Scales
  <2>5. c \in Nat /\ c < there
    <3>1. CASE r = keyboard.row
      BY <1>1, <3>1
    <3>2. CASE r # keyboard.row
      <4> HIDE DEF there, scaled
      <4>1. there - 1 \in Int /\ scaled \in Int
        BY <2>3, <2>4
      <4>2. Min({scaled, there - 1}) = IF scaled <= there - 1 THEN scaled ELSE there - 1
        BY <4>1, MinOfTwo
      <4> QED
        BY <2>3, <2>4, <3>2, <4>2
    <3> QED
      BY <3>1, <3>2
  <2> HIDE DEF c
  <2>6. /\ k \in OpenKeyboards /\ k.target = keyboard.target /\ k.taken = keyboard.taken
        /\ k.row = r /\ k.text = keyboard.text /\ k.col = c
    BY <1>1, <2>1, <2>2, <2>5 DEF OpenKeyboards
  <2> QED
    BY <1>2, <2>5, <2>6 DEF IsOpen
<1>5. ASSUME NEW text \in Seq(Chars), Len(text) <= Longest[keyboard.target],
             NEW layer \in DOMAIN Layers, NEW masked \in BOOLEAN, NEW error \in BOOLEAN,
             k = [keyboard EXCEPT !.text = text, !.layer = layer, !.masked = masked,
                                  !.error = error]
      PROVE  IsOpen(k) /\ k.target = keyboard.target /\ k.taken = keyboard.taken
  <2>1. /\ k \in OpenKeyboards /\ k.target = keyboard.target /\ k.taken = keyboard.taken
        /\ k.row = keyboard.row /\ k.text = text /\ k.col = keyboard.col
    BY <1>1, <1>5 DEF OpenKeyboards
  <2>2. k.col < Len(KeysOf(k.target, k.row))
    BY <1>1, <2>1
  <2> QED
    BY <1>5, <2>1, <2>2 DEF IsOpen
<1>6. ASSUME NEW char \in Chars, Type(char)
      PROVE  IsOpen(k) /\ k.target = keyboard.target /\ k.taken = keyboard.taken
  <2>1. CASE Len(keyboard.text) < Longest[keyboard.target]
    <3> DEFINE text == Append(keyboard.text, char)
    <3>1. text \in Seq(Chars) /\ Len(text) = Len(keyboard.text) + 1
      BY <1>2, AppendProperties
    <3>2. k = [keyboard EXCEPT !.text = text, !.error = FALSE]
      BY <1>6, <2>1 DEF Type
    <3> HIDE DEF text
    <3>3. k = [keyboard EXCEPT !.text = text, !.layer = keyboard.layer,
                               !.masked = keyboard.masked, !.error = FALSE]
      BY <1>1, <3>2 DEF OpenKeyboards
    <3>4. Len(text) <= Longest[keyboard.target]
      BY <1>2, <2>1, <3>1
    <3>5. keyboard.layer \in DOMAIN Layers /\ keyboard.masked \in BOOLEAN
      BY <1>1 DEF OpenKeyboards
    <3> QED
      BY <1>5, <3>1, <3>3, <3>4, <3>5
  <2>2. CASE ~(Len(keyboard.text) < Longest[keyboard.target])
    <3>1. k = [keyboard EXCEPT !.error = TRUE]
      BY <1>6, <2>2 DEF Type
    <3>2. k = [keyboard EXCEPT !.text = keyboard.text, !.layer = keyboard.layer,
                               !.masked = keyboard.masked, !.error = TRUE]
      BY <1>1, <3>1 DEF OpenKeyboards
    <3>3. keyboard.layer \in DOMAIN Layers /\ keyboard.masked \in BOOLEAN
      BY <1>1 DEF OpenKeyboards
    <3> QED
      BY <1>2, <1>5, <3>2, <3>3
  <2> QED
    BY <2>1, <2>2
<1>7. /\ keyboard.layer \in DOMAIN Layers
      /\ keyboard.masked \in BOOLEAN /\ keyboard.error \in BOOLEAN
  BY <1>1 DEF OpenKeyboards
<1>8. Layers \in Seq(Chars) /\ Len(Layers) \in Nat \ {0} /\ DOMAIN Layers = 1..Len(Layers)
  BY KeyboardAssumption, LenProperties, EmptySeq
<1>9. ASSUME KeyboardTypes
      PROVE  IsOpen(k) /\ k.target = keyboard.target /\ k.taken = keyboard.taken
  <2>1. Layers[keyboard.layer] \in Chars
    BY <1>7, <1>8, ElementOfSeq
  <2>2. "space" \in Chars
    BY KeyboardAssumption
  <2> QED
    BY <1>6, <1>9, <2>1, <2>2 DEF KeyboardTypes
<1>10. ASSUME KeyboardBackspace
       PROVE  IsOpen(k) /\ k.target = keyboard.target /\ k.taken = keyboard.taken
  <2> DEFINE l == Len(keyboard.text)
             text == SubSeq(keyboard.text, 1, l - 1)
  <2>1. l \in Nat /\ \A i \in 1..(l - 1) : keyboard.text[i] \in Chars
    BY <1>2, ElementOfSeq
  <2>2. text \in Seq(Chars) /\ Len(text) = IF 1 <= l - 1 THEN l - 1 - 1 + 1 ELSE 0
    <3> HIDE DEF l
    <3> QED
      BY <2>1, SubSeqProperties
  <2>3. k = [keyboard EXCEPT !.text = text, !.error = FALSE]
    BY <1>10 DEF KeyboardBackspace
  <2>4. Len(text) <= Longest[keyboard.target]
    BY <1>2, <2>1, <2>2
  <2> HIDE DEF text
  <2>5. k = [keyboard EXCEPT !.text = text, !.layer = keyboard.layer,
                             !.masked = keyboard.masked, !.error = FALSE]
    BY <1>1, <2>3 DEF OpenKeyboards
  <2> QED
    BY <1>5, <1>7, <2>2, <2>4, <2>5
<1>11. ASSUME KeyboardLayer
       PROVE  IsOpen(k) /\ k.target = keyboard.target /\ k.taken = keyboard.taken
  <2> DEFINE layer == (keyboard.layer % Len(Layers)) + 1
  <2>1. layer \in DOMAIN Layers
    BY <1>7, <1>8
  <2>2. k = [keyboard EXCEPT !.layer = layer, !.error = FALSE]
    BY <1>11 DEF KeyboardLayer
  <2> HIDE DEF layer
  <2>3. k = [keyboard EXCEPT !.text = keyboard.text, !.layer = layer,
                             !.masked = keyboard.masked, !.error = FALSE]
    BY <1>1, <2>2 DEF OpenKeyboards
  <2> QED
    BY <1>2, <1>5, <1>7, <2>1, <2>3
<1>12. ASSUME KeyboardMask
       PROVE  IsOpen(k) /\ k.target = keyboard.target /\ k.taken = keyboard.taken
  <2>1. k = [keyboard EXCEPT !.masked = ~keyboard.masked]
    BY <1>12 DEF KeyboardMask
  <2>2. k = [keyboard EXCEPT !.text = keyboard.text, !.layer = keyboard.layer,
                             !.masked = ~keyboard.masked, !.error = keyboard.error]
    BY <1>1, <2>1 DEF OpenKeyboards
  <2> QED
    BY <1>2, <1>5, <1>7, <2>2
<1>13. ASSUME KeyboardRefuses
       PROVE  IsOpen(k) /\ k.target = keyboard.target /\ k.taken = keyboard.taken
  <2>1. k = [keyboard EXCEPT !.error = TRUE]
    BY <1>13 DEF KeyboardRefuses
  <2>2. k = [keyboard EXCEPT !.text = keyboard.text, !.layer = keyboard.layer,
                             !.masked = keyboard.masked, !.error = TRUE]
    BY <1>1, <2>1 DEF OpenKeyboards
  <2> QED
    BY <1>2, <1>5, <1>7, <2>2
<1>14. IsOpen(k) /\ k.target = keyboard.target /\ k.taken = keyboard.taken
  BY <1>3, <1>4, <1>9, <1>10, <1>11, <1>12, <1>13 DEF KeyboardEdits
<1>15. k # NoKeyboard
  <2>1. NoKeyboard.target = "none" /\ k.target \in Targets
    BY <1>1, <1>14 DEF NoKeyboard, OpenKeyboards
  <2> QED
    BY <2>1 DEF Targets
<1> QED
  BY <1>14, <1>15

-------------------------------------------------------------------------------
(* The list of networks *)

\* The list is that of the last scan, with the dot where a connect put it since.
IsList(nets, h) ==
    /\ h.lines \in Seq(Line)
    /\ h.joined \in {"scanned", "joined"}
    /\ nets = IF h.joined = "scanned" THEN Scan(h.lines, h.known)
              ELSE Reconciled(Scan(h.lines, h.known), h.ssid)

ListInv == IsList(networks, heard)

LEMMA Reconciles ==
    ASSUME NEW nets \in Seq(Network), NEW name
    PROVE  /\ Reconciled(nets, name) \in Seq(Network)
           /\ DOMAIN Reconciled(nets, name) = DOMAIN nets
           /\ \A i \in DOMAIN nets :
                /\ Reconciled(nets, name)[i].ssid = nets[i].ssid
                /\ Reconciled(nets, name)[i].signal = nets[i].signal
                /\ Reconciled(nets, name)[i].secured = nets[i].secured
                /\ Reconciled(nets, name)[i].active = (nets[i].ssid = name)
                /\ Reconciled(nets, name)[i].saved = (nets[i].saved \/ nets[i].ssid = name)
<1> DEFINE new(i) == [nets[i] EXCEPT !.active = (nets[i].ssid = name),
                                     !.saved = @ \/ nets[i].ssid = name]
<1>1. DOMAIN nets = 1..Len(nets) /\ Len(nets) \in Nat
  BY LenProperties
<1>2. \A i \in 1..Len(nets) : /\ new(i) \in Network
                              /\ new(i).ssid = nets[i].ssid
                              /\ new(i).signal = nets[i].signal
                              /\ new(i).secured = nets[i].secured
                              /\ new(i).active = (nets[i].ssid = name)
                              /\ new(i).saved = (nets[i].saved \/ nets[i].ssid = name)
  <2> SUFFICES ASSUME NEW i \in 1..Len(nets)
               PROVE  /\ new(i) \in Network
                      /\ new(i).ssid = nets[i].ssid
                      /\ new(i).signal = nets[i].signal
                      /\ new(i).secured = nets[i].secured
                      /\ new(i).active = (nets[i].ssid = name)
                      /\ new(i).saved = (nets[i].saved \/ nets[i].ssid = name)
    OBVIOUS
  <2>1. nets[i] \in Network
    BY ElementOfSeq
  <2> QED
    BY <2>1 DEF Network
<1>3. Reconciled(nets, name) = [i \in 1..Len(nets) |-> new(i)]
  BY <1>1 DEF Reconciled
<1> HIDE DEF new
<1>4. [i \in 1..Len(nets) |-> new(i)] \in Seq(Network)
  BY <1>1, <1>2, IsASeq
<1> QED
  BY <1>1, <1>2, <1>3, <1>4

LEMMA ListTyped ==
    ASSUME NEW nets, NEW h, IsList(nets, h)
    PROVE  nets \in Seq(Network)
<1>1. nets = IF h.joined = "scanned" THEN Scan(h.lines, h.known)
             ELSE Reconciled(Scan(h.lines, h.known), h.ssid)
  BY DEF IsList
<1>2. Scan(h.lines, h.known) \in Seq(Network)
  BY ScanSays DEF IsList, ListSums
<1> QED
  BY <1>1, <1>2, Reconciles

\* The list says of the air what the scan did.
LEMMA ListIsExact ==
    ASSUME ListInv
    PROVE  ScanExact
<1> DEFINE lines == heard.lines
           known == heard.known
           joined == heard.joined = "joined"
           of(ssid) == {i \in DOMAIN lines : lines[i].ssid = ssid}
           used(n) == \E k \in of(n.ssid) : lines[k].used
<1>1. networks = IF heard.joined = "scanned" THEN Scan(lines, known)
                 ELSE Reconciled(Scan(lines, known), heard.ssid)
  BY DEF ListInv, IsList
<1> DEFINE nets == Scan(lines, known)
           D == DOMAIN nets
<1>2. lines \in Seq(Line) /\ DOMAIN lines = 1..Len(lines) /\ Len(lines) \in Nat
  BY LenProperties DEF ListInv, IsList
<1>3. /\ ListSums(nets, lines, Len(lines), known)
      /\ \A i, j \in D : i < j => ~Ahead(nets[j], nets[i])
  BY <1>2, ScanSays
<1>4. /\ nets \in Seq(Network) /\ D = 1..Len(nets) /\ Len(nets) \in Nat
      /\ \A i \in D : nets[i] \in Network
  BY <1>3, LenProperties, ElementOfSeq DEF ListSums
<1>5. heard.joined = "scanned" <=> ~joined
  BY DEF ListInv, IsList
<1> HIDE DEF nets
<1>6. /\ networks \in Seq(Network) /\ DOMAIN networks = D
      /\ \A i \in D : /\ networks[i].ssid = nets[i].ssid
                      /\ networks[i].signal = nets[i].signal
                      /\ networks[i].secured = nets[i].secured
                      /\ networks[i].active = IF joined THEN nets[i].ssid = heard.ssid
                                              ELSE nets[i].active
                      /\ networks[i].saved =
                             IF joined THEN nets[i].saved \/ nets[i].ssid = heard.ssid
                             ELSE nets[i].saved
  <2>1. CASE joined
    BY <1>1, <1>4, <1>5, <2>1, Reconciles DEF nets
  <2>2. CASE ~joined
    BY <1>1, <1>4, <1>5, <2>2 DEF nets
  <2> QED
    BY <2>1, <2>2
<1>7. {networks[i].ssid : i \in DOMAIN networks}
          = {lines[i].ssid : i \in DOMAIN lines} \ {NoSsid}
  <2>1. \A i \in D : /\ nets[i].ssid # NoSsid
                     /\ \E m \in 1..Len(lines) : lines[m].ssid = nets[i].ssid
    <3> SUFFICES ASSUME NEW i \in D
                 PROVE  /\ nets[i].ssid # NoSsid
                        /\ \E m \in 1..Len(lines) : lines[m].ssid = nets[i].ssid
      OBVIOUS
    <3>1. nets[i].ssid # NoSsid
      BY <1>4 DEF Network
    <3>2. Sums(nets[i], lines, Len(lines), known)
      BY <1>3 DEF ListSums
    <3> QED
      BY <3>1, <3>2 DEF Sums
  <2>2. \A m \in 1..Len(lines) : lines[m].ssid # NoSsid =>
            \E i \in D : nets[i].ssid = lines[m].ssid
    BY <1>3 DEF ListSums
  <2>3. DOMAIN networks = D /\ \A i \in D : networks[i].ssid = nets[i].ssid
    BY <1>6
  <2>4. DOMAIN lines = 1..Len(lines)
    BY <1>2
  <2> HIDE DEF D, lines
  <2> QED
    BY <2>1, <2>2, <2>3, <2>4
<1>8. \A i, j \in DOMAIN networks : i # j => networks[i].ssid # networks[j].ssid
  BY <1>3, <1>6 DEF ListSums
<1>9. ASSUME NEW i \in DOMAIN networks
      PROVE  LET n == networks[i]
             IN /\ n.signal = Max({0} \cup {lines[k].signal : k \in of(n.ssid)})
                /\ n.secured <=> \E k \in of(n.ssid) : lines[k].secured
                /\ n.saved <=> n.ssid \in known \/ (joined /\ n.ssid = heard.ssid)
                /\ n.active <=> IF joined THEN n.ssid = heard.ssid ELSE used(n)
                /\ nets[i].active <=> used(n)
  <2> DEFINE n == networks[i]
             O == of(n.ssid)
             signals == {0} \cup {lines[k].signal : k \in O}
  <2>1. Sums(nets[i], lines, Len(lines), known) /\ i \in D
    BY <1>3, <1>6 DEF ListSums
  <2>2. O = {m \in 1..Len(lines) : lines[m].ssid = nets[i].ssid}
    BY <1>2, <1>6, <2>1
  <2> HIDE DEF O
  <2>3. /\ n.signal \in signals /\ \A k \in O : lines[k].signal <= n.signal
        /\ n.secured <=> \E k \in O : lines[k].secured
        /\ nets[i].active <=> \E k \in O : lines[k].used
        /\ nets[i].saved <=> nets[i].ssid \in known
    BY <1>6, <2>1, <2>2 DEF Sums
  <2>4. n.signal \in Nat /\ \A k \in O : lines[k].signal \in Int
    <3>1. n.signal \in Nat
      BY <1>4, <1>6, <2>1 DEF Network
    <3>2. \A k \in O : lines[k] \in Line
      BY <1>2, <2>2, ElementOfSeq
    <3> QED
      BY <3>1, <3>2 DEF Line
  <2>5. \A x \in signals : x \in Int /\ x <= n.signal
    BY <2>3, <2>4
  <2>6. n.signal = Max(signals)
    <3> DEFINE g == n.signal
    <3>1. g \in signals /\ g \in Int /\ \A x \in signals : x \in Int /\ g >= x
      BY <2>3, <2>4, <2>5
    <3> HIDE DEF g, signals
    <3>2. \A y \in signals : (\A x \in signals : y >= x) => y = g
      BY <3>1
    <3> QED
      BY <3>1, <3>2 DEF Max, g
  <2>7. n.active <=> IF joined THEN n.ssid = heard.ssid ELSE \E k \in O : lines[k].used
    BY <1>6, <2>1, <2>3
  <2>8. n.saved <=> n.ssid \in known \/ (joined /\ n.ssid = heard.ssid)
    BY <1>6, <2>1, <2>3
  <2> QED
    BY <2>3, <2>6, <2>7, <2>8 DEF O
<1>10. ASSUME NEW i \in 1..(Len(networks) - 1)
       PROVE  LET n == networks[i]
                  m == networks[i + 1]
              IN \/ used(n) /\ ~used(m)
                 \/ used(n) = used(m) /\ n.signal >= m.signal
  <2>1. D = 1..Len(networks) /\ Len(networks) \in Nat
    BY <1>6, LenProperties
  <2>2. i \in D /\ i + 1 \in D /\ i < i + 1
    BY <2>1
  <2>3. ~Ahead(nets[i + 1], nets[i])
    BY <1>3, <2>2
  <2>4. nets[i] \in Network /\ nets[i + 1] \in Network
    BY <1>4, <2>2
  <2>5. \/ nets[i].active /\ ~nets[i + 1].active
        \/ nets[i].active = nets[i + 1].active /\ nets[i].signal >= nets[i + 1].signal
    BY <2>3, <2>4 DEF Ahead, Network
  <2>6. /\ used(networks[i]) = nets[i].active
        /\ used(networks[i + 1]) = nets[i + 1].active
    BY <1>6, <1>9, <2>2, <2>4 DEF Network
  <2> HIDE DEF used
  <2> QED
    BY <1>6, <2>2, <2>5, <2>6
<1> QED
  BY <1>5, <1>6, <1>7, <1>8, <1>9, <1>10 DEF ScanExact

-------------------------------------------------------------------------------
(* The screens and the workers *)

\* While a password is typed, it is known what for; a worker is about only on its screen;
\* and the overlay is about a network that is there.
ScreensInv ==
    /\ screen \in {"name_keyboard", "wifi_keyboard"} <=> keyboard # NoKeyboard
    /\ keyboard = NoKeyboard \/ IsOpen(keyboard)
    /\ screen = "wifi_keyboard" =>
           /\ keyboard.target \in {"ssid", "password"}
           /\ keyboard.target = "password" => pending.ssid = asked /\ asked # NoSsid
    /\ screen = "overlay_wifi_forget" => OnNetwork

WorkerInv ==
    /\ busy \in {"no", "scan", "connect"}
    /\ busy = "connect" => screen = "wifi_status"
    /\ busy = "scan" => screen = "wifi_list"
    /\ busy = "connect" <=> job # NoJob
    /\ SecretStays

RowInv ==
    /\ row \in 0..(Len(networks) + 1)
    /\ joins \in 0..MaxJoins

WifiInv == ListInv /\ RowInv /\ ScreensInv /\ WorkerInv

\* All that is not about the list stays.
LEMMA ScanShown ==
    ASSUME NEW saved, ShowScan(saved)
    PROVE  ListInv' /\ row' = 0 /\ Len(networks') \in Nat
<1>1. PICK lines \in Printed, known \in Told(saved) :
         /\ networks' = Scan(lines, known)
         /\ heard' = [lines |-> lines, known |-> known, joined |-> "scanned", ssid |-> NoSsid]
  BY DEF ShowScan
<1>2. lines \in Seq(Line)
  BY WifiAssumption, EmptySeq DEF Printed
<1>3. IsList(networks', heard')
  BY <1>1, <1>2 DEF IsList
<1>4. networks' \in Seq(Network)
  BY <1>3, ListTyped
<1> QED
  BY <1>3, <1>4, LenProperties DEF ListInv, ShowScan

\* The text that a keyboard is left with is not empty.
LEMMA DoneNotEmpty ==
    ASSUME IsOpen(keyboard), KeyboardDone
    PROVE  keyboard.text # <<>>
<1>1. keyboard.target \in Targets
  BY DEF IsOpen, OpenKeyboards
<1>2. Shortest[keyboard.target] \in Nat /\ Shortest[keyboard.target] > 0
  BY <1>1, KeyboardAssumption
<1>3. Len(keyboard.text) >= Shortest[keyboard.target] /\ Len(keyboard.text) \in Int
  BY <1>2 DEF KeyboardDone, Acceptable
<1>4. <<>> \in Seq(Chars) /\ Len(<<>>) = 0
  BY EmptySeq
<1>5. Len(keyboard.text) # 0
  BY <1>2, <1>3
<1> QED
  BY <1>4, <1>5

LEMMA SelectedNamed ==
    ASSUME ListInv, RowInv, OnNetwork
    PROVE  /\ row + 1 \in DOMAIN networks
           /\ Selected \in Network
           /\ Selected.ssid # NoSsid
<1>1. networks \in Seq(Network) /\ row \in Nat
  BY ListTyped, LenProperties DEF ListInv, RowInv
<1>2. row + 1 \in 1..Len(networks) /\ DOMAIN networks = 1..Len(networks)
  BY <1>1, LenProperties DEF OnNetwork
<1>3. Selected \in Network
  BY <1>1, <1>2, ElementOfSeq DEF Selected
<1> QED
  BY <1>2, <1>3 DEF Network

\* The password of a network is asked for.
LEMMA AskKeeps ==
    ASSUME WifiInv, busy = "no", NEW ssid, ssid # NoSsid, NEW hidden, AskPassword(ssid, hidden)
    PROVE  WifiInv'
<1>1. /\ pending' = [ssid |-> ssid, secured |-> TRUE, hidden |-> hidden] /\ asked' = ssid
      /\ keyboard' = Keyboard("password", <<>>, {}) /\ screen' = "wifi_keyboard"
      /\ UNCHANGED <<networks, row, heard, busy, job, joins>>
  BY DEF AskPassword, list, worker
<1>2. "password" \in Targets
  BY DEF Targets
<1>4. IsOpen(keyboard') /\ keyboard' # NoKeyboard /\ keyboard'.target = "password"
  BY <1>1, <1>2, KeyboardFresh
<1>5. ListInv'
  BY <1>1 DEF WifiInv, ListInv
<1>6. RowInv'
  BY <1>1 DEF WifiInv, RowInv
<1>7. ScreensInv'
  BY <1>1, <1>4 DEF ScreensInv
<1>8. WorkerInv'
  BY <1>1 DEF WifiInv, WorkerInv, SecretStays
<1> QED
  BY <1>5, <1>6, <1>7, <1>8 DEF WifiInv

\* A connection is tried: with a password that was typed for it, or without one because it
\* needs none or has its profile.
LEMMA ConnectKeeps ==
    ASSUME WifiInv, busy = "no", NEW ssid, ssid # NoSsid, NEW secured \in BOOLEAN, NEW hidden,
           StartConnect(ssid, secured, hidden),
           keyboard = NoKeyboard =>
               \E i \in DOMAIN networks : /\ networks[i].ssid = ssid
                                          /\ ~networks[i].secured \/ networks[i].saved,
           keyboard # NoKeyboard => secured /\ keyboard.text # <<>> /\ ssid = asked
    PROVE  WifiInv'
<1>1. /\ joins < MaxJoins /\ joins' = joins + 1
      /\ job' = [ssid |-> ssid, hidden |-> hidden,
                 password |-> IF secured /\ keyboard # NoKeyboard THEN keyboard.text ELSE <<>>]
      /\ busy' = "connect" /\ keyboard' = NoKeyboard /\ screen' = "wifi_status"
      /\ UNCHANGED <<networks, row, heard, asked>>
  BY DEF StartConnect, list
<1>2. job' # NoJob
  <2>1. job'.ssid = ssid /\ NoJob.ssid = NoSsid
    BY <1>1 DEF NoJob
  <2> QED
    BY <2>1
<1>3. SecretStays'
  <2>1. CASE keyboard = NoKeyboard
    BY <1>1, <2>1 DEF SecretStays
  <2>2. CASE keyboard # NoKeyboard
    BY <1>1, <2>2 DEF SecretStays
  <2> QED
    BY <2>1, <2>2
<1>4. RowInv'
  BY <1>1, WifiAssumption DEF WifiInv, RowInv
<1>5. ListInv'
  BY <1>1 DEF WifiInv, ListInv
<1>6. ScreensInv'
  BY <1>1 DEF ScreensInv
<1>7. WorkerInv'
  BY <1>1, <1>2, <1>3 DEF WorkerInv
<1> QED
  BY <1>4, <1>5, <1>6, <1>7 DEF WifiInv

\* A list is shown, with no worker about and no keyboard open.
LEMMA ShownKeeps ==
    ASSUME WifiInv, busy = "no" \/ busy = "scan", NEW known, ShowScan(known),
           busy' = "no", keyboard = NoKeyboard, keyboard' = keyboard, screen' = "wifi_list",
           UNCHANGED <<job, joins>>
    PROVE  WifiInv'
<1>1. ListInv' /\ row' = 0 /\ Len(networks') \in Nat
  BY ScanShown
<1>2. RowInv'
  BY <1>1 DEF WifiInv, RowInv
<1>3. ScreensInv'
  BY DEF ScreensInv
<1>4. WorkerInv'
  BY DEF WifiInv, WorkerInv, SecretStays
<1> QED
  BY <1>1, <1>2, <1>3, <1>4 DEF WifiInv

\* No step of the Wi-Fi screens breaks it.
LEMMA WifiKeeps ==
    ASSUME WifiInv, WifiNext
    PROVE  WifiInv'
<1>1. networks \in Seq(Network) /\ Len(networks) \in Nat /\ row \in 0..(Len(networks) + 1)
  BY ListTyped, LenProperties DEF WifiInv, ListInv, RowInv
<1>2. screen = "wifi_list" => keyboard = NoKeyboard
  BY DEF WifiInv, ScreensInv
<1>3. ASSUME NEW d \in {-1, 1}, MoveRow(d)
      PROVE  WifiInv'
  <2> DEFINE last == Len(networks) + 1
             low == Min({last, row + d})
  <2>1. low = (IF last <= row + d THEN last ELSE row + d) /\ low \in Int /\ low <= last
    <3>1. last \in Int /\ row + d \in Int
      BY <1>1
    <3>2. low = IF last <= row + d THEN last ELSE row + d
      BY <3>1, MinOfTwo
    <3> QED
      BY <3>1, <3>2
  <2> HIDE DEF low
  <2>2. Max({0, low}) = IF 0 >= low THEN 0 ELSE low
    BY <2>1, MaxOfTwo
  <2>3. /\ row' = Max({0, low})
        /\ UNCHANGED <<screen, keyboard, networks, heard, pending, busy, job, joins, asked>>
        /\ screen = "wifi_list"
    BY <1>3 DEF MoveRow, low, worker, OnList
  <2>4. row' \in 0..last
    BY <1>1, <2>1, <2>2, <2>3
  <2>5. RowInv'
    BY <2>3, <2>4 DEF WifiInv, RowInv
  <2>6. ListInv'
    BY <2>3 DEF WifiInv, ListInv
  <2>7. ScreensInv'
    BY <2>3 DEF WifiInv, ScreensInv
  <2>8. WorkerInv'
    BY <2>3 DEF WifiInv, WorkerInv, SecretStays
  <2> QED
    BY <2>5, <2>6, <2>7, <2>8 DEF WifiInv
<1>4. ASSUME JoinNetwork
      PROVE  WifiInv'
  <2>1. OnNetwork /\ busy = "no" /\ keyboard = NoKeyboard
    BY <1>2, <1>4 DEF JoinNetwork, OnList
  <2>2. row + 1 \in DOMAIN networks /\ Selected \in Network /\ Selected.ssid # NoSsid
    BY <2>1, SelectedNamed DEF WifiInv
  <2>3. Selected.secured \in BOOLEAN
    BY <2>2 DEF Network
  <2>4. CASE Selected.secured /\ ~Selected.saved
    BY <1>4, <2>1, <2>2, <2>4, AskKeeps DEF JoinNetwork
  <2>5. CASE ~(Selected.secured /\ ~Selected.saved)
    <3>1. \E i \in DOMAIN networks : /\ networks[i].ssid = Selected.ssid
                                     /\ ~networks[i].secured \/ networks[i].saved
      BY <2>2, <2>5 DEF Selected
    <3>2. StartConnect(Selected.ssid, Selected.secured, FALSE)
      BY <1>4, <2>5 DEF JoinNetwork
    <3> QED
      BY <2>1, <2>2, <2>3, <3>1, <3>2, ConnectKeeps
  <2> QED
    BY <2>4, <2>5
<1>5. ASSUME NameOther
      PROVE  WifiInv'
  <2>3. /\ keyboard' = Keyboard("ssid", <<>>, {}) /\ screen' = "wifi_keyboard" /\ busy = "no"
        /\ UNCHANGED <<networks, row, heard, pending, busy, job, joins, asked>>
    BY <1>5 DEF NameOther, OnList, wifi, list, worker
  <2>4. "ssid" \in Targets
    BY DEF Targets
  <2>5. IsOpen(keyboard') /\ keyboard' # NoKeyboard /\ keyboard'.target = "ssid"
    BY <2>3, <2>4, KeyboardFresh
  <2>6. ListInv' /\ RowInv'
    BY <2>3 DEF WifiInv, ListInv, RowInv
  <2>7. ScreensInv'
    BY <2>3, <2>5 DEF ScreensInv
  <2>8. WorkerInv'
    BY <2>3 DEF WifiInv, WorkerInv, SecretStays
  <2> QED
    BY <2>6, <2>7, <2>8 DEF WifiInv
<1>6. ASSUME ScanAgain
      PROVE  WifiInv'
  <2>1. /\ busy' = "scan" /\ busy = "no" /\ screen = "wifi_list"
        /\ UNCHANGED <<screen, keyboard, networks, row, heard, pending, job, joins, asked>>
    BY <1>6 DEF ScanAgain, OnList, list
  <2>2. ListInv' /\ RowInv'
    BY <2>1 DEF WifiInv, ListInv, RowInv
  <2>3. ScreensInv'
    BY <2>1 DEF WifiInv, ScreensInv
  <2>4. WorkerInv'
    BY <2>1 DEF WifiInv, WorkerInv, SecretStays
  <2> QED
    BY <2>2, <2>3, <2>4 DEF WifiInv
<1>7. ASSUME HoldOk
      PROVE  WifiInv'
  <2>1. OnNetwork /\ busy = "no" /\ AskPassword(Selected.ssid, FALSE)
    BY <1>7 DEF HoldOk, OnList
  <2>2. Selected.ssid # NoSsid
    BY <2>1, SelectedNamed DEF WifiInv
  <2> QED
    BY <2>1, <2>2, AskKeeps
<1>8. ASSUME HoldBack \/ KeepNetwork
      PROVE  WifiInv'
  <2>1. /\ UNCHANGED <<keyboard, networks, row, heard, pending, busy, job, joins, asked>>
        /\ \/ /\ screen' = "overlay_wifi_forget" /\ OnNetwork
              /\ screen = "wifi_list" /\ busy = "no"
           \/ screen' = "wifi_list" /\ screen = "overlay_wifi_forget"
    BY <1>8 DEF HoldBack, KeepNetwork, OnList, wifi, list, worker
  <2>2. ListInv' /\ RowInv'
    BY <2>1 DEF WifiInv, ListInv, RowInv
  <2>3. ScreensInv'
    BY <2>1 DEF WifiInv, ScreensInv, OnNetwork
  <2>4. WorkerInv'
    BY <2>1 DEF WifiInv, WorkerInv, SecretStays
  <2> QED
    BY <2>2, <2>3, <2>4 DEF WifiInv
<1>9. ASSUME Forget
      PROVE  WifiInv'
  <2>1. /\ screen = "overlay_wifi_forget" /\ ShowScan(profiles') /\ screen' = "wifi_list"
        /\ UNCHANGED <<keyboard, busy, job, joins>>
    BY <1>9 DEF Forget, worker
  <2>2. keyboard = NoKeyboard /\ busy = "no"
    BY <2>1 DEF WifiInv, ScreensInv, WorkerInv
  <2>3. keyboard' = keyboard /\ busy' = "no" /\ UNCHANGED <<job, joins>>
    BY <2>1, <2>2
  <2> DEFINE known == profiles'
  <2>4. ShowScan(known)
    BY <2>1
  <2> HIDE DEF known
  <2> QED
    BY <2>1, <2>2, <2>3, <2>4, ShownKeeps
<1>10. ASSUME WifiTyped
       PROVE  WifiInv'
  <2>1. screen = "wifi_keyboard" /\ KeyboardDone
    BY <1>10 DEF WifiTyped
  <2>2. /\ keyboard # NoKeyboard /\ IsOpen(keyboard) /\ busy = "no"
        /\ keyboard.target \in {"ssid", "password"}
        /\ keyboard.target = "password" => pending.ssid = asked /\ asked # NoSsid
    BY <2>1 DEF WifiInv, ScreensInv, WorkerInv
  <2>3. keyboard.text # <<>> /\ NoSsid = <<>>
    BY <2>1, <2>2, DoneNotEmpty DEF NoSsid
  <2>4. CASE keyboard.target = "ssid"
    BY <1>10, <2>2, <2>3, <2>4, AskKeeps DEF WifiTyped
  <2>5. CASE keyboard.target # "ssid"
    <3>1. StartConnect(pending.ssid, TRUE, pending.hidden)
      BY <1>10, <2>5 DEF WifiTyped
    <3>2. pending.ssid = asked /\ pending.ssid # NoSsid
      BY <2>2, <2>5
    <3>3. TRUE \in BOOLEAN
      OBVIOUS
    <3> QED
      BY <2>2, <2>3, <3>1, <3>2, <3>3, ConnectKeeps
  <2> QED
    BY <2>4, <2>5
<1>11. ASSUME KeyboardCancel \/ WifiStatusPress
       PROVE  WifiInv'
  <2>1. /\ keyboard' = NoKeyboard /\ screen' = "wifi_list" /\ busy # "connect"
        /\ UNCHANGED <<networks, row, heard, pending, busy, job, joins, asked>>
    BY <1>11 DEF KeyboardCancel, WifiStatusPress, wifi, list, worker,
                 WifiInv, WorkerInv, ScreensInv
  <2>2. ListInv' /\ RowInv'
    BY <2>1 DEF WifiInv, ListInv, RowInv
  <2>3. ScreensInv'
    BY <2>1 DEF ScreensInv
  <2>4. WorkerInv'
    BY <2>1 DEF WifiInv, WorkerInv, SecretStays
  <2> QED
    BY <2>2, <2>3, <2>4 DEF WifiInv
<1>12. ASSUME WifiKeyboardEdits
       PROVE  WifiInv'
  <2>1. /\ screen = "wifi_keyboard" /\ KeyboardEdits
        /\ UNCHANGED <<screen, networks, row, heard, pending, busy, job, joins, asked>>
    BY <1>12 DEF WifiKeyboardEdits, wifi, list, worker
  <2>2. keyboard # NoKeyboard /\ IsOpen(keyboard)
    BY <2>1 DEF WifiInv, ScreensInv
  <2>3. IsOpen(keyboard') /\ keyboard'.target = keyboard.target /\ keyboard' # NoKeyboard
    BY <2>1, <2>2, EditsKeepOpen
  <2>4. ListInv' /\ RowInv'
    BY <2>1 DEF WifiInv, ListInv, RowInv
  <2>5. ScreensInv'
    BY <2>1, <2>3 DEF WifiInv, ScreensInv
  <2>6. WorkerInv'
    BY <2>1 DEF WifiInv, WorkerInv, SecretStays
  <2> QED
    BY <2>4, <2>5, <2>6 DEF WifiInv
<1>13. ASSUME ConnectEnds
       PROVE  WifiInv'
  <2>1. /\ busy = "connect" /\ busy' = "no" /\ job' = NoJob /\ screen' = "wifi_status"
        /\ screen = "wifi_status"
        /\ UNCHANGED <<keyboard, pending, joins, asked>>
    BY <1>13 DEF ConnectEnds, WifiInv, WorkerInv
  <2>2. ListInv' /\ RowInv'
    <3>1. CASE UNCHANGED list
      BY <2>1, <3>1 DEF list, WifiInv, ListInv, RowInv
    <3>2. ASSUME NEW name, NEW lines \in Printed, NEW known,
                 networks' = Reconciled(Scan(lines, known), name), row' = 0,
                 heard' = [lines |-> lines, known |-> known, joined |-> "joined", ssid |-> name]
          PROVE  ListInv' /\ RowInv'
      <4>1. lines \in Seq(Line)
        BY WifiAssumption, EmptySeq DEF Printed
      <4>2. IsList(networks', heard')
        BY <3>2, <4>1 DEF IsList
      <4>3. Len(networks') \in Nat
        BY <4>2, ListTyped, LenProperties
      <4>4. ListInv'
        BY <4>2 DEF ListInv
      <4>5. RowInv'
        BY <2>1, <3>2, <4>3 DEF WifiInv, RowInv
      <4> QED
        BY <4>4, <4>5
    <3> QED
      BY <1>13, <3>1, <3>2 DEF ConnectEnds, Connected, NotConnected
  <2>3. ScreensInv'
    BY <2>1 DEF WifiInv, ScreensInv
  <2>4. WorkerInv'
    BY <2>1 DEF WorkerInv, SecretStays
  <2> QED
    BY <2>2, <2>3, <2>4 DEF WifiInv
<1>14. ASSUME ScanEnds
       PROVE  WifiInv'
  <2>1. /\ busy = "scan" /\ busy' = "no" /\ ShowScan(profiles) /\ screen' = "wifi_list"
        /\ UNCHANGED <<keyboard, job, joins>>
    BY <1>14 DEF ScanEnds
  <2>2. keyboard = NoKeyboard /\ keyboard' = keyboard
    BY <1>2, <2>1 DEF WifiInv, WorkerInv
  <2> QED
    BY <2>1, <2>2, ShownKeeps
<1> QED
  BY <1>3, <1>4, <1>5, <1>6, <1>7, <1>8, <1>9, <1>10, <1>11, <1>12, <1>13, <1>14
     DEF WifiNext
=============================================================================

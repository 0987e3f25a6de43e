-------------------------- MODULE CodexRouting_proofs --------------------------
(* Proofs about CodexRouting for every set of threads and every tree of them, *)
(* every length of a queue and every number of messages and connections.      *)
EXTENDS CodexRouting, WellFoundedInduction, FiniteSetTheorems, TLAPS

(* A non-empty set of numbers has a least one.                                *)
LEMMA LeastNumber ==
  ASSUME NEW S \in SUBSET Nat, S # {} PROVE \E n \in S : \A m \in S : n <= m
<1>1. IsWellFoundedOn({ss \in Nat \X Nat : ss[1] < ss[2]}, Nat)
  BY NatLessThanWellFounded DEF OpToRel
<1>2. PICK n \in S : \A m \in S : ~(<<m, n>> \in {ss \in Nat \X Nat : ss[1] < ss[2]})
  BY <1>1, WFMin
<1>3. \A m \in S : <<m, n>> \in Nat \X Nat /\ <<m, n>>[1] = m /\ <<m, n>>[2] = n OBVIOUS
<1>4. \A m \in S : ~(m < n) BY <1>2, <1>3
<1> QED BY <1>4

(* Induction, as a fact about a set.                                          *)
LEMMA Induction ==
  ASSUME NEW S, 0 \in S, \A n \in Nat : n \in S => n + 1 \in S PROVE Nat \subseteq S
<1> SUFFICES ASSUME Nat \ S # {} PROVE FALSE OBVIOUS
<1>1. PICK n \in Nat \ S : \A m \in Nat \ S : n <= m BY LeastNumber
<1>2. n # 0 /\ n - 1 \in Nat BY <1>1
<1>3. n - 1 \in S BY <1>1, <1>2
<1> QED BY <1>1, <1>2, <1>3

(* What Kept builds, prefix by prefix.                                        *)
KeptOf(q, S, f) ==
    \A k \in 0..Len(q) :
        f[k] = IF k = 0 THEN <<>>
               ELSE IF q[k] \in S THEN Append(f[k - 1], q[k]) ELSE f[k - 1]

(* Its recursion has a solution ...                                           *)
LEMMA KeptExists ==
  ASSUME NEW D, NEW q \in Seq(D), NEW S
  PROVE  \E f : f = [k \in 0..Len(q) |->
                        IF k = 0 THEN <<>>
                        ELSE IF q[k] \in S THEN Append(f[k - 1], q[k]) ELSE f[k - 1]]
<1> DEFINE Solves(f, n) == f = [k \in 0..n |->
                        IF k = 0 THEN <<>>
                        ELSE IF q[k] \in S THEN Append(f[k - 1], q[k]) ELSE f[k - 1]]
           T == {n \in Nat : \E f : Solves(f, n)}
<1>1. 0 \in T
  <2>1. Solves([k \in 0..0 |-> <<>>], 0) OBVIOUS
  <2> QED BY <2>1
<1>2. ASSUME NEW n \in Nat, n \in T PROVE n + 1 \in T
  <2>1. PICK f : Solves(f, n) BY <1>2
  <2> DEFINE g == [k \in 0..(n + 1) |-> IF k <= n THEN f[k]
                     ELSE IF q[k] \in S THEN Append(f[k - 1], q[k]) ELSE f[k - 1]]
  <2>2. \A k \in 0..n : f[k] = IF k = 0 THEN <<>>
                        ELSE IF q[k] \in S THEN Append(f[k - 1], q[k]) ELSE f[k - 1]
    BY <2>1
  <2>2a. \A k \in 0..n : g[k] = f[k] OBVIOUS
  <2>2b. g[n + 1] = IF q[n + 1] \in S THEN Append(g[n], q[n + 1]) ELSE g[n] OBVIOUS
  <2>2c. \A k \in 0..(n + 1) : g[k] = IF k = 0 THEN <<>>
                        ELSE IF q[k] \in S THEN Append(g[k - 1], q[k]) ELSE g[k - 1]
    <3> HIDE DEF g
    <3> TAKE k \in 0..(n + 1)
    <3>1. CASE k = n + 1 BY <3>1, <2>2b
    <3>2. CASE k \in 1..n BY <3>2, <2>2, <2>2a
    <3>3. CASE k = 0 BY <3>3, <2>2, <2>2a
    <3> QED BY <3>1, <3>2, <3>3
  <2>3. Solves(g, n + 1)
    <3> HIDE DEF g
    <3>1. g = [k \in 0..(n + 1) |-> g[k]] BY DEF g
    <3>2. [k \in 0..(n + 1) |-> g[k]] = [k \in 0..(n + 1) |-> IF k = 0 THEN <<>>
                        ELSE IF q[k] \in S THEN Append(g[k - 1], q[k]) ELSE g[k - 1]]
      BY <2>2c
    <3> QED BY <3>1, <3>2
  <2>4. \E h : Solves(h, n + 1)
    <3> HIDE DEF Solves, g
    <3> QED BY <2>3
  <2> QED BY <2>4
<1>3. Nat \subseteq T
  <2> HIDE DEF T
  <2> QED BY <1>1, <1>2, Induction
<1> QED BY <1>3

LEMMA KeptPrefixes ==
  ASSUME NEW D, NEW q \in Seq(D), NEW S
  PROVE  \E f : KeptOf(q, S, f) /\ Kept(q, S) = f[Len(q)]
<1> DEFINE F == CHOOSE f : f = [k \in 0..Len(q) |->
                        IF k = 0 THEN <<>>
                        ELSE IF q[k] \in S THEN Append(f[k - 1], q[k]) ELSE f[k - 1]]
<1>0. \E f : f = [k \in 0..Len(q) |->
                        IF k = 0 THEN <<>>
                        ELSE IF q[k] \in S THEN Append(f[k - 1], q[k]) ELSE f[k - 1]]
  BY KeptExists
<1>1. F = [k \in 0..Len(q) |->
                        IF k = 0 THEN <<>>
                        ELSE IF q[k] \in S THEN Append(F[k - 1], q[k]) ELSE F[k - 1]]
  BY <1>0
<1>2. Kept(q, S) = F[Len(q)] BY DEF Kept
<1>3. KeptOf(q, S, F)
  <2> HIDE DEF F
  <2> QED BY <1>1 DEF KeptOf
<1> QED BY <1>2, <1>3

(* ... whose value at k holds what it shall of the first k.                   *)
Increasing(q) == \A i, j \in DOMAIN q : i < j => q[i] < q[j]
KeptUpTo(q, S, g, k) ==
    /\ g \in Seq(Nat)
    /\ \A i \in DOMAIN g : \E a \in 1..k : g[i] = q[a] /\ q[a] \in S
    /\ \A a \in 1..k : q[a] \in S => \E i \in DOMAIN g : g[i] = q[a]
    /\ Increasing(q) => Increasing(g)

LEMMA KeptStep ==
  ASSUME NEW q \in Seq(Nat), NEW S, NEW l \in Nat, NEW m \in 1..Len(q), m = l + 1,
         NEW g, KeptUpTo(q, S, g, l), q[m] \in S
  PROVE  KeptUpTo(q, S, Append(g, q[m]), m)
<1>1. PICK h : h = Append(g, q[m]) OBVIOUS
<1>2. /\ g \in Seq(Nat) /\ q[m] \in Nat /\ h \in Seq(Nat)
      /\ Len(h) = Len(g) + 1 /\ Len(g) \in Nat
      /\ DOMAIN h = 1..(Len(g) + 1) /\ DOMAIN g = 1..Len(g)
      /\ \A i \in 1..Len(g) : h[i] = g[i]
      /\ h[Len(g) + 1] = q[m]
  BY <1>1 DEF KeptUpTo
<1>3. ASSUME NEW i \in DOMAIN h PROVE \E a \in 1..m : h[i] = q[a] /\ q[a] \in S
  <2>1. CASE i = Len(g) + 1 BY <2>1, <1>2
  <2>2. CASE i \in 1..Len(g)
    <3>1. PICK a \in 1..l : g[i] = q[a] /\ q[a] \in S BY <2>2, <1>2 DEF KeptUpTo
    <3>2. a \in 1..m OBVIOUS
    <3>3. h[i] = g[i] BY <2>2, <1>2
    <3> QED BY <3>1, <3>2, <3>3
  <2> QED BY <2>1, <2>2, <1>2
<1>4. ASSUME NEW a \in 1..m, q[a] \in S PROVE \E i \in DOMAIN h : h[i] = q[a]
  <2>1. CASE a = m
    <3>1. Len(g) + 1 \in DOMAIN h /\ h[Len(g) + 1] = q[a] BY <2>1, <1>2
    <3> QED BY <3>1
  <2>2. CASE a \in 1..l
    <3>1. PICK i \in DOMAIN g : g[i] = q[a] BY <1>4, <2>2 DEF KeptUpTo
    <3>2. i \in DOMAIN h /\ h[i] = q[a] BY <3>1, <1>2
    <3> QED BY <3>2
  <2> QED BY <2>1, <2>2
<1>5. ASSUME Increasing(q), NEW i \in DOMAIN h, NEW j \in DOMAIN h, i < j PROVE h[i] < h[j]
  <2>1. CASE j \in 1..Len(g)
    <3>1. i \in 1..Len(g)
      <4>1. i \in 1..(Len(g) + 1) /\ i < j /\ Len(g) \in Nat BY <1>2, <1>5
      <4> QED BY <4>1, <2>1
    <3>2. h[i] = g[i] /\ h[j] = g[j] BY <1>2, <3>1, <2>1
    <3>3. i \in DOMAIN g /\ j \in DOMAIN g BY <1>2, <3>1, <2>1
    <3> QED BY <3>2, <3>3, <1>5 DEF KeptUpTo, Increasing
  <2>2. CASE j = Len(g) + 1
    <3>1. i \in DOMAIN g /\ h[i] = g[i] /\ h[j] = q[m] BY <1>2, <1>5, <2>2
    <3>2. PICK a \in 1..l : g[i] = q[a] BY <3>1 DEF KeptUpTo
    <3>3. a \in DOMAIN q /\ m \in DOMAIN q /\ a < m OBVIOUS
    <3>4. q[a] < q[m] BY <3>3, <1>5 DEF Increasing
    <3> QED BY <3>1, <3>2, <3>4
  <2> QED BY <2>1, <2>2, <1>2
<1>6. KeptUpTo(q, S, h, m) BY <1>2, <1>3, <1>4, <1>5 DEF KeptUpTo, Increasing
<1> QED BY <1>1, <1>6

LEMMA KeptFacts ==
  ASSUME NEW q \in Seq(Nat), NEW S
  PROVE  /\ Kept(q, S) \in Seq(Nat)
         /\ \A x : x \in Range(Kept(q, S)) <=> x \in Range(q) /\ x \in S
         /\ Increasing(q) => Increasing(Kept(q, S))
<1>1. PICK f : KeptOf(q, S, f) /\ Kept(q, S) = f[Len(q)] BY KeptPrefixes
<1> DEFINE T == {k \in Nat : k <= Len(q) => KeptUpTo(q, S, f[k], k)}
<1>2. 0 \in T
  <2>1. f[0] = <<>> BY <1>1 DEF KeptOf
  <2>2. KeptUpTo(q, S, <<>>, 0) BY DEF KeptUpTo, Increasing
  <2> QED BY <2>1, <2>2
<1>3. ASSUME NEW k \in Nat, k \in T PROVE k + 1 \in T
  <2>1. PICK m : m = k + 1 OBVIOUS
  <2> SUFFICES ASSUME m <= Len(q) PROVE KeptUpTo(q, S, f[m], m) BY <2>1
  <2>2. KeptUpTo(q, S, f[k], k) BY <1>3, <2>1
  <2>3. m \in 1..Len(q) /\ m - 1 = k BY <2>1
  <2>4. f[m] = IF q[m] \in S THEN Append(f[k], q[m]) ELSE f[k]
    BY <1>1, <2>3 DEF KeptOf
  <2>5. CASE q[m] \notin S
    <3>1. f[m] = f[k] BY <2>4, <2>5
    <3>2. \A a \in 1..m : q[a] \in S => a \in 1..k BY <2>3, <2>5
    <3>3. \A a \in 1..k : a \in 1..m BY <2>3
    <3> QED BY <2>2, <3>1, <3>2, <3>3 DEF KeptUpTo
  <2>6. CASE q[m] \in S BY <2>1, <2>2, <2>3, <2>4, <2>6, KeptStep
  <2> QED BY <2>5, <2>6
<1>4. KeptUpTo(q, S, f[Len(q)], Len(q))
  <2>1. Nat \subseteq T
    <3> HIDE DEF T
    <3> QED BY <1>2, <1>3, Induction
  <2> QED BY <2>1
<1>5. PICK g : g = Kept(q, S) /\ g = f[Len(q)] BY <1>1
<1>6. KeptUpTo(q, S, g, Len(q)) BY <1>4, <1>5
<1>7. \A x : x \in Range(g) <=> \E i \in DOMAIN g : x = g[i]
  BY DEF Range
<1>8. \A x : x \in Range(q) <=> \E i \in 1..Len(q) : x = q[i]
  BY DEF Range
<1>9. \A x : x \in Range(g) => x \in Range(q) /\ x \in S
  BY <1>6, <1>7, <1>8 DEF KeptUpTo
<1>10. \A x : x \in Range(q) /\ x \in S => x \in Range(g)
  BY <1>6, <1>7, <1>8 DEF KeptUpTo
<1> QED BY <1>5, <1>6, <1>9, <1>10 DEF KeptUpTo

-----------------------------------------------------------------------------
(* A queue waits for a lookup in flight, and a connection that can answer it. *)
Waits ==
    \A t \in Threads : IF at[t] = Nobody THEN buffered[t] = <<>> ELSE at[t] \in reading /\ link = "up"

(* Queues and sinks hold messages of their thread that have arrived.          *)
Known ==
    \A t \in Threads : \A n \in Range(buffered[t]) \cup Range(handed[t]) :
        n \in DOMAIN arrived /\ arrived[n].thread = t

(* What is handed over next arrived after what was handed over.               *)
Ordered ==
    \A t \in Threads :
        /\ Increasing(buffered[t]) /\ Increasing(handed[t])
        /\ \A m \in Range(handed[t]), n \in Range(buffered[t]) : m < n

(* An open request was handed over or is held.                                *)
OpenHeld ==
    \A n \in pending :
        /\ n \in DOMAIN arrived /\ arrived[n].kind = "request"
        /\ n \in Range(handed[arrived[n].thread]) \cup Range(buffered[arrived[n].thread])

RoutingInv == TypeOK /\ Waits /\ Known /\ Ordered /\ OpenHeld

-----------------------------------------------------------------------------
(* Sequences of message numbers.                                              *)
LEMMA RangeOf ==
  ASSUME NEW D, NEW q \in Seq(D)
  PROVE  /\ \A x : x \in Range(q) <=> \E i \in 1..Len(q) : x = q[i]
         /\ Range(q) \subseteq D
BY DEF Range

LEMMA JoinedFacts ==
  ASSUME NEW p \in Seq(Nat), NEW q \in Seq(Nat)
  PROVE  /\ p \o q \in Seq(Nat)
         /\ \A x : x \in Range(p \o q) <=> x \in Range(p) \/ x \in Range(q)
         /\ Increasing(p) /\ Increasing(q) /\ (\A m \in Range(p), n \in Range(q) : m < n)
            => Increasing(p \o q)
<1>1. PICK r : r = p \o q OBVIOUS
<1>2. /\ r \in Seq(Nat) /\ Len(r) = Len(p) + Len(q) /\ Len(p) \in Nat /\ Len(q) \in Nat
      /\ \A i \in 1..Len(p) : r[i] = p[i]
      /\ \A i \in 1..Len(q) : r[Len(p) + i] = q[i]
  BY <1>1
<1>3. \A i \in (Len(p) + 1)..(Len(p) + Len(q)) : \E j \in 1..Len(q) : i = Len(p) + j
  <2> TAKE i \in (Len(p) + 1)..(Len(p) + Len(q))
  <2>1. i - Len(p) \in 1..Len(q) /\ i = Len(p) + (i - Len(p)) BY <1>2
  <2> QED BY <2>1
<1>4. ASSUME NEW x, x \in Range(r) PROVE x \in Range(p) \/ x \in Range(q)
  <2>1. PICK i \in 1..Len(r) : x = r[i]
    <3>1. r \in Seq(Nat) BY <1>2
    <3> QED BY <1>4, <3>1, RangeOf
  <2>2. CASE i \in 1..Len(p) BY <2>1, <2>2, <1>2, RangeOf
  <2>3. CASE i \in (Len(p) + 1)..(Len(p) + Len(q))
    <3>1. PICK j \in 1..Len(q) : i = Len(p) + j BY <2>3, <1>3
    <3>2. x = q[j] BY <2>1, <3>1, <1>2
    <3> QED BY <3>2, RangeOf
  <2> QED BY <2>2, <2>3, <1>2
<1>5. ASSUME NEW x, x \in Range(p) \/ x \in Range(q) PROVE x \in Range(r)
  <2>1. CASE x \in Range(p)
    <3>1. PICK i \in 1..Len(p) : x = p[i] BY <2>1, RangeOf
    <3>2. i \in 1..Len(r) /\ x = r[i] BY <3>1, <1>2
    <3> QED BY <3>2, <1>2, RangeOf
  <2>2. CASE x \in Range(q)
    <3>1. PICK i \in 1..Len(q) : x = q[i] BY <2>2, RangeOf
    <3>2. Len(p) + i \in 1..Len(r) /\ x = r[Len(p) + i] BY <3>1, <1>2
    <3> QED BY <3>2, <1>2, RangeOf
  <2> QED BY <1>5, <2>1, <2>2
<1>6. ASSUME Increasing(p), Increasing(q), \A m \in Range(p), n \in Range(q) : m < n,
             NEW i \in DOMAIN r, NEW j \in DOMAIN r, i < j
      PROVE  r[i] < r[j]
  <2>0. /\ DOMAIN r = 1..(Len(p) + Len(q)) /\ DOMAIN p = 1..Len(p) /\ DOMAIN q = 1..Len(q)
        /\ Len(p) \in Nat /\ Len(q) \in Nat
    BY <1>2
  <2>1. CASE j \in 1..Len(p)
    <3>1. i \in 1..Len(p) BY <2>0, <2>1, <1>6
    <3>2. r[i] = p[i] /\ r[j] = p[j] BY <3>1, <2>1, <1>2
    <3> QED BY <3>1, <3>2, <2>0, <2>1, <1>6 DEF Increasing
  <2>2. CASE j \in (Len(p) + 1)..(Len(p) + Len(q))
    <3>1. PICK b \in 1..Len(q) : j = Len(p) + b BY <2>2, <1>3
    <3>2. r[j] = q[b] BY <3>1, <1>2
    <3>3. CASE i \in 1..Len(p)
      <4>1. r[i] = p[i] BY <3>3, <1>2
      <4>2. p[i] \in Range(p) /\ q[b] \in Range(q) BY <3>3, RangeOf
      <4> QED BY <4>1, <4>2, <3>2, <1>6
    <3>4. CASE i \in (Len(p) + 1)..(Len(p) + Len(q))
      <4>1. PICK a \in 1..Len(q) : i = Len(p) + a BY <3>4, <1>3
      <4>2. r[i] = q[a] BY <4>1, <1>2
      <4>3. a < b BY <4>1, <3>1, <1>6, <2>0
      <4> QED BY <4>2, <4>3, <3>2, <2>0, <1>6 DEF Increasing
    <3> QED BY <3>3, <3>4, <2>0
  <2> QED BY <2>0, <2>1, <2>2
<1> QED BY <1>1, <1>2, <1>4, <1>5, <1>6 DEF Increasing

LEMMA AppendedFacts ==
  ASSUME NEW p \in Seq(Nat), NEW n \in Nat
  PROVE  /\ Append(p, n) \in Seq(Nat)
         /\ \A x : x \in Range(Append(p, n)) <=> x \in Range(p) \/ x = n
         /\ Increasing(p) /\ (\A m \in Range(p) : m < n) => Increasing(Append(p, n))
<1>1. /\ <<n>> \in Seq(Nat) /\ Append(p, n) = p \o <<n>> /\ Append(p, n) \in Seq(Nat) OBVIOUS
<1>2. \A x : x \in Range(<<n>>) <=> x = n BY DEF Range
<1>3. Increasing(<<n>>) BY DEF Increasing
<1> QED BY <1>1, <1>2, <1>3, JoinedFacts

LEMMA ShedFacts ==
  ASSUME NEW q \in Seq(Nat), Limit \in Nat
  PROVE  /\ Shed(q) \in Seq(Nat)
         /\ Range(Shed(q)) \subseteq Range(q)
         /\ \A n \in Range(q) : n \notin DOMAIN arrived' \/ arrived'[n].kind # "note"
                               => n \in Range(Shed(q))
         /\ Increasing(q) => Increasing(Shed(q))
<1> DEFINE notes == {k \in DOMAIN q : q[k] \in DOMAIN arrived' /\ arrived'[q[k]].kind = "note"}
           c == CHOOSE k \in notes : \A j \in notes : k <= j
<1>1. CASE ~(Len(q) > Limit /\ notes # {})
  <2>1. Shed(q) = q BY <1>1 DEF Shed
  <2> QED BY <2>1
<1>2. CASE Len(q) > Limit /\ notes # {}
  <2>1. Shed(q) = RemoveAt(q, c) BY <1>2 DEF Shed
  <2>2. c \in notes
    <3>1. notes \in SUBSET Nat /\ notes # {} BY <1>2
    <3>2. \E k \in notes : \A j \in notes : k <= j
      <4> HIDE DEF notes
      <4> QED BY <3>1, LeastNumber
    <3> HIDE DEF notes
    <3> QED BY <3>2
  <2>3. PICK k \in 1..Len(q) : k = c
    <3> HIDE DEF c
    <3> QED BY <2>2
  <2>4. q[k] \in DOMAIN arrived' /\ arrived'[q[k]].kind = "note"
    <3> HIDE DEF c
    <3> QED BY <2>2, <2>3
  <2>5. PICK a : a = SubSeq(q, 1, k - 1) OBVIOUS
  <2>6. PICK b : b = SubSeq(q, k + 1, Len(q)) OBVIOUS
  <2>7. Shed(q) = a \o b
    <3> HIDE DEF c
    <3> QED BY <2>1, <2>3, <2>5, <2>6 DEF RemoveAt
  <2> HIDE DEF c, notes
  <2>8. /\ a \in Seq(Nat) /\ Len(a) = k - 1 /\ \A i \in 1..(k - 1) : a[i] = q[i]
    BY <2>5
  <2>9. /\ b \in Seq(Nat) /\ Len(b) = Len(q) - k /\ \A i \in 1..(Len(q) - k) : b[i] = q[k + i]
    BY <2>6
  <2>10. \A x : x \in Range(a) => \E i \in 1..(k - 1) : x = q[i]
    <3> TAKE x
    <3> HAVE x \in Range(a)
    <3>1. PICK i \in 1..(k - 1) : x = a[i] BY <2>8, RangeOf
    <3> QED BY <3>1, <2>8
  <2>11. \A x : x \in Range(b) => \E i \in (k + 1)..Len(q) : x = q[i]
    <3> TAKE x
    <3> HAVE x \in Range(b)
    <3>1. PICK i \in 1..(Len(q) - k) : x = b[i] BY <2>9, RangeOf
    <3>2. k + i \in (k + 1)..Len(q) /\ x = q[k + i] BY <3>1, <2>9
    <3> QED BY <3>2
  <2>12. \A n \in Range(q) : n # q[k] => n \in Range(a) \/ n \in Range(b)
    <3> TAKE n \in Range(q)
    <3> HAVE n # q[k]
    <3>1. PICK i \in 1..Len(q) : n = q[i] BY RangeOf
    <3>2. CASE i \in 1..(k - 1)
      <4>1. n = a[i] BY <3>1, <3>2, <2>8
      <4> QED BY <4>1, <3>2, <2>8, RangeOf
    <3>3. CASE i > k
      <4>1. i - k \in 1..(Len(q) - k) /\ k + (i - k) = i BY <3>3
      <4>2. n = b[i - k] BY <4>1, <3>1, <2>9
      <4> QED BY <4>1, <4>2, <2>9, RangeOf
    <3> QED BY <3>1, <3>2, <3>3
  <2>13. ASSUME Increasing(q) PROVE Increasing(a \o b)
    <3>1. Increasing(a)
      <4>1. ASSUME NEW i \in DOMAIN a, NEW j \in DOMAIN a, i < j PROVE a[i] < a[j]
        <5>1. DOMAIN a = 1..(k - 1) BY <2>8
        <5>2. i \in 1..(k - 1) /\ j \in 1..(k - 1) BY <5>1
        <5>3. a[i] = q[i] /\ a[j] = q[j] BY <5>2, <2>8
        <5>4. i \in DOMAIN q /\ j \in DOMAIN q BY <5>2
        <5> QED BY <5>3, <5>4, <4>1, <2>13 DEF Increasing
      <4> QED BY <4>1 DEF Increasing
    <3>2. ASSUME NEW i \in DOMAIN b, NEW j \in DOMAIN b, i < j PROVE b[i] < b[j]
      <4>0. DOMAIN b = 1..(Len(q) - k) BY <2>9
      <4>1. i \in 1..(Len(q) - k) /\ j \in 1..(Len(q) - k) BY <4>0
      <4>2. b[i] = q[k + i] /\ b[j] = q[k + j] BY <4>1, <2>9
      <4>3. k + i \in DOMAIN q /\ k + j \in DOMAIN q /\ k + i < k + j BY <4>1, <3>2
      <4> QED BY <4>2, <4>3, <2>13 DEF Increasing
    <3>3. \A m \in Range(a), n \in Range(b) : m < n
      <4> TAKE m \in Range(a), n \in Range(b)
      <4>1. PICK i \in 1..(k - 1) : m = q[i] BY <2>10
      <4>2. PICK j \in (k + 1)..Len(q) : n = q[j] BY <2>11
      <4>3. i \in DOMAIN q /\ j \in DOMAIN q /\ i < j OBVIOUS
      <4> QED BY <4>1, <4>2, <4>3, <2>13 DEF Increasing
    <3>4. Increasing(b) BY <3>2 DEF Increasing
    <3> QED BY <3>1, <3>3, <3>4, <2>8, <2>9, JoinedFacts
  <2>14. \A x : x \in Range(a \o b) <=> x \in Range(a) \/ x \in Range(b)
    BY <2>8, <2>9, JoinedFacts
  <2>15. Range(a \o b) \subseteq Range(q)
    BY <2>10, <2>11, <2>14, RangeOf
  <2>16. a \o b \in Seq(Nat) BY <2>8, <2>9
  <2> QED BY <2>4, <2>7, <2>12, <2>13, <2>14, <2>15, <2>16
<1> QED BY <1>1, <1>2

-----------------------------------------------------------------------------
LEMMA Constants ==
  /\ Limit \in Nat /\ MaxMsgs \in Nat /\ MaxGen \in Nat \ {0} /\ Nobody \notin Threads
  /\ Sessions \subseteq Threads /\ Parent \in [Threads -> Threads \cup {Nobody}]
  /\ Unread \notin Threads \cup {Nobody}
BY RoutingAssumption

LEMMA QueueTypes ==
  ASSUME TypeOK, NEW t \in Threads
  PROVE  buffered[t] \in Seq(Nat) /\ handed[t] \in Seq(Nat)
         /\ Range(buffered[t]) \subseteq Numbers /\ Range(handed[t]) \subseteq Numbers
<1>1. buffered[t] \in Seq(Numbers) /\ handed[t] \in Seq(Numbers) BY DEF TypeOK
<1>2. Numbers \subseteq Nat BY Constants DEF Numbers
<1>3. ASSUME NEW q \in Seq(Numbers) PROVE q \in Seq(Nat)
  <2>1. Len(q) \in Nat /\ q \in [1..Len(q) -> Numbers] OBVIOUS
  <2>2. q \in [1..Len(q) -> Nat] BY <1>2, <2>1
  <2> QED BY <2>1, <2>2
<1> QED BY <1>1, <1>3, RangeOf

LEMMA SeqOfNumbers ==
  ASSUME NEW q \in Seq(Nat), Range(q) \subseteq Numbers PROVE q \in Seq(Numbers)
BY RangeOf

LEMMA LiveFacts ==
  ASSUME NEW q \in Seq(Nat), NEW D, arrived \in Seq(D)
  PROVE  /\ Live(q) \in Seq(Nat)
         /\ Range(Live(q)) \subseteq Range(q)
         /\ \A n \in Range(q) \cap pending : n \in Range(Live(q))
         /\ Increasing(q) => Increasing(Live(q))
BY KeptFacts DEF Live

(* What may become of the queue of a thread while nothing arrives: it stays,  *)
(* it is handed over, or it is given up.                                      *)
Stays(t) == handed'[t] = handed[t] /\ buffered'[t] = buffered[t]
Passes(t) == handed'[t] = handed[t] \o Live(buffered[t]) /\ buffered'[t] = <<>>
Ends(t) == handed'[t] = handed[t] /\ buffered'[t] = <<>>

LEMMA EmptyQueue ==
  /\ Range(<<>>) = {} /\ Increasing(<<>>) /\ \A S : <<>> \in Seq(S)
BY DEF Range, Increasing

LEMMA PassedFacts ==
  ASSUME RoutingInv, NEW t \in Threads
  PROVE  LET h == handed[t] \o Live(buffered[t])
         IN  /\ h \in Seq(Nat) /\ Range(h) \subseteq Range(handed[t]) \cup Range(buffered[t])
             /\ Range(handed[t]) \subseteq Range(h)
             /\ Range(buffered[t]) \cap pending \subseteq Range(h)
             /\ Increasing(h)
<1> DEFINE h == handed[t] \o Live(buffered[t])
<1>1. /\ buffered[t] \in Seq(Nat) /\ handed[t] \in Seq(Nat) /\ arrived \in Seq(Message)
      /\ Increasing(buffered[t]) /\ Increasing(handed[t])
      /\ \A m \in Range(handed[t]), n \in Range(buffered[t]) : m < n
  <2>1. TypeOK /\ Ordered BY DEF RoutingInv
  <2> QED BY <2>1, QueueTypes DEF TypeOK, Ordered
<1>2. PICK l : l = Live(buffered[t]) OBVIOUS
<1>3. /\ l \in Seq(Nat) /\ Range(l) \subseteq Range(buffered[t]) /\ Increasing(l)
      /\ \A n \in Range(buffered[t]) \cap pending : n \in Range(l)
  BY <1>1, <1>2, LiveFacts
<1>4. \A m \in Range(handed[t]), n \in Range(l) : m < n
  BY <1>1, <1>3
<1>5. /\ handed[t] \o l \in Seq(Nat)
      /\ \A x : x \in Range(handed[t] \o l) <=> x \in Range(handed[t]) \/ x \in Range(l)
      /\ Increasing(handed[t] \o l)
  BY <1>1, <1>3, <1>4, JoinedFacts
<1> QED BY <1>2, <1>3, <1>5

LEMMA QueueSteps ==
  ASSUME RoutingInv, arrived' = arrived,
         handed' = [t \in Threads |-> handed'[t]], buffered' = [t \in Threads |-> buffered'[t]],
         \A t \in Threads : Stays(t) \/ Passes(t) \/ Ends(t)
  PROVE  /\ handed' \in [Threads -> Seq(Numbers)] /\ buffered' \in [Threads -> Seq(Numbers)]
         /\ Known' /\ Ordered'
<1> USE DEF RoutingInv
<1>1. ASSUME NEW t \in Threads
      PROVE  /\ handed'[t] \in Seq(Numbers) /\ buffered'[t] \in Seq(Numbers)
             /\ \A n \in Range(buffered'[t]) \cup Range(handed'[t]) :
                    n \in DOMAIN arrived' /\ arrived'[n].thread = t
             /\ Increasing(buffered'[t]) /\ Increasing(handed'[t])
             /\ \A m \in Range(handed'[t]), n \in Range(buffered'[t]) : m < n
  <2>1. /\ handed[t] \in Seq(Numbers) /\ buffered[t] \in Seq(Numbers)
        /\ Range(handed[t]) \subseteq Numbers /\ Range(buffered[t]) \subseteq Numbers
        /\ \A n \in Range(buffered[t]) \cup Range(handed[t]) :
              n \in DOMAIN arrived /\ arrived[n].thread = t
        /\ Increasing(buffered[t]) /\ Increasing(handed[t])
        /\ \A m \in Range(handed[t]), n \in Range(buffered[t]) : m < n
    BY QueueTypes DEF TypeOK, Known, Ordered
  <2>2. CASE Stays(t) BY <2>1, <2>2 DEF Stays
  <2>3. CASE Ends(t) BY <2>1, <2>3, EmptyQueue DEF Ends
  <2>4. CASE Passes(t)
    <3>1. PICK h : h = handed[t] \o Live(buffered[t]) OBVIOUS
    <3>2. /\ h \in Seq(Nat) /\ Range(h) \subseteq Range(handed[t]) \cup Range(buffered[t])
          /\ Increasing(h)
      BY <3>1, PassedFacts
    <3>3. h \in Seq(Numbers) BY <3>2, <2>1, SeqOfNumbers
    <3>4. handed'[t] = h /\ buffered'[t] = <<>> BY <2>4, <3>1 DEF Passes
    <3> QED BY <2>1, <3>2, <3>3, <3>4, EmptyQueue
  <2> QED BY <1>1, <2>2, <2>3, <2>4
<1>2. Known' BY <1>1 DEF Known
<1>3. Ordered' BY <1>1 DEF Ordered
<1>4. /\ [t \in Threads |-> handed'[t]] \in [Threads -> Seq(Numbers)]
      /\ [t \in Threads |-> buffered'[t]] \in [Threads -> Seq(Numbers)]
  BY <1>1
<1> QED BY <1>2, <1>3, <1>4

(* ... and of the requests that stay open then.                               *)
LEMMA OpenSteps ==
  ASSUME RoutingInv, arrived' = arrived, pending' \subseteq pending,
         \A t \in Threads : Stays(t) \/ Passes(t) \/ Ends(t),
         \A n \in pending' : LET t == arrived[n].thread
                            IN  n \in Range(buffered[t]) => Stays(t) \/ Passes(t)
  PROVE  OpenHeld'
<1> SUFFICES ASSUME NEW n \in pending'
             PROVE  /\ n \in DOMAIN arrived /\ arrived[n].kind = "request"
                    /\ n \in Range(handed'[arrived[n].thread]) \cup Range(buffered'[arrived[n].thread])
  BY DEF OpenHeld
<1>1. /\ n \in pending /\ n \in DOMAIN arrived /\ arrived[n].kind = "request"
      /\ n \in Range(handed[arrived[n].thread]) \cup Range(buffered[arrived[n].thread])
  BY DEF OpenHeld, RoutingInv
<1>2. PICK t \in Threads : t = arrived[n].thread
  <2>1. arrived \in Seq(Message) BY DEF RoutingInv, TypeOK
  <2>2. arrived[n] \in Message BY <1>1, <2>1
  <2> QED BY <2>2 DEF Message
<1>3. PICK h : h = handed[t] \o Live(buffered[t]) OBVIOUS
<1>4. Range(handed[t]) \subseteq Range(h) /\ Range(buffered[t]) \cap pending \subseteq Range(h)
  BY <1>3, PassedFacts
<1>5. CASE Stays(t) BY <1>1, <1>2, <1>5 DEF Stays
<1>6. CASE Passes(t)
  <2>1. handed'[t] = h BY <1>6, <1>3 DEF Passes
  <2> QED BY <1>1, <1>2, <1>4, <2>1
<1>7. CASE Ends(t) /\ ~Stays(t) /\ ~Passes(t)
  <2>1. n \in Range(handed[t]) BY <1>1, <1>2, <1>7
  <2> QED BY <1>1, <1>2, <1>7, <2>1 DEF Ends
<1> QED BY <1>2, <1>5, <1>6, <1>7

LEMMA FlushSteps ==
  ASSUME RoutingInv, NEW ts \in SUBSET Threads, Flush(ts), arrived' = arrived, pending' = pending,
         link' = link, reading' = reading
  PROVE  /\ handed' \in [Threads -> Seq(Numbers)] /\ buffered' \in [Threads -> Seq(Numbers)]
         /\ at' \in [Threads -> Threads \cup {Nobody}]
         /\ Waits' /\ Known' /\ Ordered' /\ OpenHeld'
<1> USE DEF RoutingInv
<1>1. \A t \in Threads : IF t \in ts THEN Passes(t) /\ at'[t] = Nobody ELSE Stays(t) /\ at'[t] = at[t]
  BY DEF Flush, Passes, Stays
<1>2. /\ handed' = [t \in Threads |-> handed'[t]] /\ buffered' = [t \in Threads |-> buffered'[t]]
      /\ at' \in [Threads -> Threads \cup {Nobody}]
  BY DEF Flush, TypeOK
<1>3. \A t \in Threads : Stays(t) \/ Passes(t) \/ Ends(t) BY <1>1
<1>4. /\ handed' \in [Threads -> Seq(Numbers)] /\ buffered' \in [Threads -> Seq(Numbers)]
      /\ Known' /\ Ordered'
  BY <1>2, <1>3, QueueSteps
<1>5. \A n \in pending : arrived[n].thread \in Threads
  <2>1. arrived \in Seq(Message) BY DEF TypeOK
  <2>2. \A n \in pending : arrived[n] \in Message BY <2>1 DEF OpenHeld
  <2> QED BY <2>2 DEF Message
<1>6. OpenHeld' BY <1>1, <1>3, <1>5, OpenSteps
<1>7. Waits' BY <1>1 DEF Waits, Passes, Stays
<1> QED BY <1>2, <1>4, <1>6, <1>7

LEMMA ContinueSteps ==
  ASSUME RoutingInv, NEW c \in Threads, NEW pa \in [Threads -> Threads \cup {Nobody, Unread}],
         Continue(c, pa), link = "up", UNCHANGED <<link_, sinks, routes, arrived>>
  PROVE  RoutingInv'
<1> USE DEF RoutingInv
<1> DEFINE waiting == {t \in Threads : at[t] = c}
           again(e) == e \notin sinks /\ MustRead(e, routes, pa)
<1>1. PICK e : e = WayUp(c, sinks, routes, pa) OBVIOUS
<1>2. PICK lost : lost = IF e \in sinks \/ again(e) THEN {} ELSE waiting OBVIOUS
<1>3. /\ parents' = pa
      /\ reading' = (reading \ {c}) \cup (IF again(e) /\ waiting # {} THEN {e} ELSE {})
      /\ at' = [t \in Threads |-> IF t \notin waiting THEN at[t] ELSE IF again(e) THEN e ELSE Nobody]
      /\ buffered' = [t \in Threads |->
             IF t \in (IF again(e) THEN {} ELSE waiting) THEN <<>> ELSE buffered[t]]
      /\ handed' = [t \in Threads |->
             IF t \in waiting /\ e \in sinks THEN handed[t] \o Live(buffered[t]) ELSE handed[t]]
      /\ refused' = refused \cup OpenIn(lost) /\ pending' = pending \ OpenIn(lost)
  BY <1>1, <1>2 DEF Continue
<1>4. again(e) => e \in Threads BY DEF MustRead
<1>5. again(e) => e \notin sinks OBVIOUS
<1> HIDE DEF again
<1>6. \A t \in Threads :
        /\ t \notin waiting \/ again(e) => Stays(t)
        /\ t \in waiting /\ ~again(e) /\ e \in sinks => Passes(t)
        /\ t \in waiting /\ ~again(e) /\ e \notin sinks => Ends(t) /\ t \in lost
  BY <1>2, <1>3, <1>5 DEF Stays, Passes, Ends
<1>7. /\ handed' \in [Threads -> Seq(Numbers)] /\ buffered' \in [Threads -> Seq(Numbers)]
      /\ Known' /\ Ordered'
  <2>1. handed' = [t \in Threads |-> handed'[t]] /\ buffered' = [t \in Threads |-> buffered'[t]]
    BY <1>3
  <2> QED BY <2>1, <1>6, QueueSteps
<1>8. at' \in [Threads -> Threads \cup {Nobody}] /\ reading' \subseteq Threads
  BY <1>3, <1>4 DEF TypeOK
<1>9. TypeOK'
  BY <1>3, <1>7, <1>8 DEF TypeOK, link_, OpenIn
<1>10. Waits'
  <2> SUFFICES ASSUME NEW t \in Threads
               PROVE  IF at'[t] = Nobody THEN buffered'[t] = <<>> ELSE at'[t] \in reading' /\ link' = "up"
    BY DEF Waits
  <2>1. CASE t \in waiting /\ again(e)
    <3>1. at'[t] = e /\ e \in reading' /\ e # Nobody BY <1>3, <1>4, <2>1, Constants
    <3> QED BY <3>1 DEF link_
  <2>2. CASE t \in waiting /\ ~again(e)
    BY <1>3, <2>2
  <2>3. CASE t \notin waiting
    <3>1. at'[t] = at[t] /\ buffered'[t] = buffered[t] /\ at[t] # c BY <1>3, <2>3
    <3> QED BY <3>1, <1>3 DEF Waits, link_
  <2> QED BY <2>1, <2>2, <2>3
<1>11. OpenHeld'
  <2>1. \A n \in pending : n \in DOMAIN arrived /\ arrived[n].thread \in Threads /\ ~IsNote(n)
    <3>1. arrived \in Seq(Message) BY DEF TypeOK
    <3>2. \A n \in pending : arrived[n] \in Message /\ arrived[n].kind = "request" BY <3>1 DEF OpenHeld
    <3> QED BY <3>2 DEF Message, IsNote, OpenHeld
  <2>2. ASSUME NEW n \in pending', n \in Range(buffered[arrived[n].thread])
        PROVE  Stays(arrived[n].thread) \/ Passes(arrived[n].thread)
    <3>1. n \in pending /\ n \notin OpenIn(lost) BY <1>3
    <3>2. arrived[n].thread \notin lost BY <3>1, <2>1, <2>2 DEF OpenIn
    <3> QED BY <3>2, <1>6, <2>1, <3>1
  <2>3. pending' \subseteq pending BY <1>3
  <2>4. \A t \in Threads : Stays(t) \/ Passes(t) \/ Ends(t) BY <1>6
  <2> QED BY <2>2, <2>3, <2>4, OpenSteps
<1> QED BY <1>7, <1>9, <1>10, <1>11

LEMMA ThreadOf ==
  ASSUME RoutingInv, NEW n \in DOMAIN arrived
  PROVE  arrived[n] \in Message /\ arrived[n].thread \in Threads /\ n \in Nat
<1>1. arrived \in Seq(Message) BY DEF TypeOK, RoutingInv
<1>2. arrived[n] \in Message /\ n \in Nat BY <1>1
<1> QED BY <1>2 DEF Message

LEMMA ArrivesSteps ==
  ASSUME RoutingInv, NEW t \in Threads, NEW kind \in {"note", "request"}, Arrives(t, kind)
  PROVE  RoutingInv'
<1> USE DEF RoutingInv
<1>1. PICK n : n = Len(arrived) + 1 OBVIOUS
<1>2. PICK end : end = WayUp(t, sinks, routes, parents) OBVIOUS
<1>3. PICK ask \in BOOLEAN : ask = (end \notin sinks /\ MustRead(end, routes, parents)) OBVIOUS
<1>4. PICK request : request = IF kind = "request" THEN {n} ELSE {} OBVIOUS
<1>5. /\ n \in Numbers
      /\ arrived' = Append(arrived, [thread |-> t, kind |-> kind])
      /\ UNCHANGED <<link_, sinks, routes>>
  BY <1>1 DEF Arrives
<1>6. /\ arrived' \in Seq(Message) /\ Len(arrived') = n /\ n \in Nat
      /\ DOMAIN arrived = 1..(n - 1) /\ DOMAIN arrived' = 1..n
      /\ \A m \in DOMAIN arrived : m < n /\ arrived'[m] = arrived[m]
      /\ arrived'[n].thread = t /\ arrived'[n].kind = kind
  <2>1. arrived \in Seq(Message) BY DEF TypeOK
  <2>2. [thread |-> t, kind |-> kind] \in Message BY DEF Message
  <2> QED BY <1>1, <1>5, <2>1, <2>2
<1>7. /\ DOMAIN handed = Threads /\ DOMAIN buffered = Threads
      /\ \A u \in Threads :
          /\ handed[u] \in Seq(Nat) /\ buffered[u] \in Seq(Nat)
          /\ Range(handed[u]) \subseteq DOMAIN arrived /\ Range(buffered[u]) \subseteq DOMAIN arrived
          /\ Range(handed[u]) \subseteq Numbers /\ Range(buffered[u]) \subseteq Numbers
          /\ \A m \in Range(handed[u]) \cup Range(buffered[u]) : arrived[m].thread = u
          /\ Increasing(handed[u]) /\ Increasing(buffered[u])
  BY QueueTypes DEF Known, Ordered, TypeOK
<1>8. n \in Nat /\ n \in Numbers /\ n \notin DOMAIN arrived /\ n \in DOMAIN arrived' BY <1>5, <1>6
<1>9. /\ pending \subseteq DOMAIN arrived
      /\ \A m \in pending : arrived[m].kind = "request" /\ arrived'[m] = arrived[m]
  BY <1>6 DEF OpenHeld
<1>10. request \subseteq Numbers /\ \A m \in request : m = n /\ arrived'[m].kind = "request"
  BY <1>4, <1>6, <1>8
<1>11. Len(arrived') <= MaxMsgs BY <1>5, <1>6 DEF Numbers
<1>12. CASE at[t] # Nobody
  <2>1. /\ buffered' = [buffered EXCEPT ![t] = Shed(Append(buffered[t], n))]
        /\ pending' = pending \cup request
        /\ UNCHANGED <<parents, reading, at, handed, refused>>
    BY <1>12, <1>1, <1>4 DEF Arrives
  <2>2. PICK q : q = Append(buffered[t], n) OBVIOUS
  <2>3. /\ q \in Seq(Nat) /\ Increasing(q)
        /\ \A x : x \in Range(q) <=> x \in Range(buffered[t]) \/ x = n
    <3>1. \A m \in Range(buffered[t]) : m < n BY <1>7, <1>6
    <3> QED BY <1>7, <1>8, <2>2, <3>1, AppendedFacts
  <2>4. PICK s : s = Shed(q) OBVIOUS
  <2>5. /\ s \in Seq(Nat) /\ Increasing(s) /\ Range(s) \subseteq Range(q)
        /\ \A m \in Range(q) : arrived'[m].kind # "note" => m \in Range(s)
    BY <2>3, <2>4, ShedFacts, Constants
  <2>6. s \in Seq(Numbers)
    <3>1. Range(s) \subseteq Numbers BY <2>5, <2>3, <1>7, <1>8
    <3> QED BY <3>1, <2>5, SeqOfNumbers
  <2>7. buffered'[t] = s /\ \A u \in Threads : u # t => buffered'[u] = buffered[u]
    BY <2>1, <2>2, <2>4, <1>7
  <2>8. buffered' \in [Threads -> Seq(Numbers)] BY <2>1, <2>2, <2>4, <2>6 DEF TypeOK
  <2>9. TypeOK'
    BY <2>1, <2>8, <1>5, <1>6, <1>10, <1>11 DEF TypeOK, link_
  <2>10. Waits' BY <2>1, <2>7, <1>5, <1>12 DEF Waits, link_
  <2>11. ASSUME NEW u \in Threads, NEW m \in Range(buffered'[u]) \cup Range(handed'[u])
         PROVE  m \in DOMAIN arrived' /\ arrived'[m].thread = u
    <3>1. m \in Range(handed[u]) \cup Range(buffered[u]) \/ (u = t /\ m = n)
      BY <2>1, <2>3, <2>5, <2>7, <2>11
    <3>2. CASE m \in Range(handed[u]) \cup Range(buffered[u])
      <4>1. m \in DOMAIN arrived /\ arrived[m].thread = u BY <3>2, <1>7
      <4> QED BY <4>1, <1>6
    <3>3. CASE u = t /\ m = n BY <3>3, <1>6, <1>8
    <3> QED BY <3>1, <3>2, <3>3
  <2>12. Known' BY <2>11 DEF Known
  <2>13. ASSUME NEW u \in Threads
         PROVE  /\ Increasing(buffered'[u]) /\ Increasing(handed'[u])
                /\ \A m \in Range(handed'[u]), k \in Range(buffered'[u]) : m < k
    <3>1. handed'[u] = handed[u] BY <2>1
    <3>2. CASE u # t BY <3>1, <3>2, <2>7 DEF Ordered
    <3>3. CASE u = t
      <4>1. \A m \in Range(handed[t]) : m < n BY <1>6, <1>7
      <4>2. \A m \in Range(handed[t]), k \in Range(buffered[t]) : m < k BY DEF Ordered
      <4> QED BY <3>1, <3>3, <2>7, <2>5, <2>3, <4>1, <4>2, <1>7
    <3> QED BY <3>2, <3>3
  <2>14. Ordered' BY <2>13 DEF Ordered
  <2>15. ASSUME NEW m \in pending'
         PROVE  /\ m \in DOMAIN arrived' /\ arrived'[m].kind = "request"
                /\ m \in Range(handed'[arrived'[m].thread]) \cup Range(buffered'[arrived'[m].thread])
    <3>1. CASE m \in pending
      <4>1. m \in DOMAIN arrived /\ m \in Range(handed[arrived[m].thread]) \cup Range(buffered[arrived[m].thread])
        BY <3>1 DEF OpenHeld
      <4>2. arrived'[m].kind = "request" /\ arrived'[m].thread = arrived[m].thread
        BY <1>9, <3>1
      <4>3. arrived[m].thread \in Threads BY <4>1, ThreadOf
      <4>4. m \in DOMAIN arrived' BY <4>1, <1>6
      <4>5. CASE arrived[m].thread # t BY <2>1, <4>1, <4>2, <4>3, <4>4, <4>5, <2>7
      <4>6. CASE arrived[m].thread = t
        <5>1. m \in Range(buffered[t]) => m \in Range(s) BY <2>3, <2>5, <4>2
        <5> QED BY <2>1, <4>1, <4>2, <4>4, <4>6, <2>7, <5>1
      <4> QED BY <4>5, <4>6
    <3>2. CASE m \in request
      <4>1. m = n /\ arrived'[m].kind = "request" /\ arrived'[m].thread = t BY <3>2, <1>10, <1>6
      <4>2. m \in Range(s) BY <4>1, <2>3, <2>5
      <4> QED BY <4>1, <4>2, <2>7, <1>8
    <3> QED BY <3>1, <3>2, <2>1
  <2>16. OpenHeld' BY <2>15 DEF OpenHeld
  <2> QED BY <2>9, <2>10, <2>12, <2>14, <2>16
<1>13. ASSUME at[t] = Nobody, handed' = handed, buffered' = [buffered EXCEPT ![t] = <<n>>],
              pending' = pending \cup request, UNCHANGED <<parents, refused>>,
              end \in Threads, at' = [at EXCEPT ![t] = end], reading' = reading \cup {end}, link = "up"
       PROVE  RoutingInv'
  <2>1. Range(<<n>>) = {n} /\ Increasing(<<n>>) /\ <<n>> \in Seq(Numbers)
    BY <1>8 DEF Range, Increasing
  <2>2. /\ buffered'[t] = <<n>> /\ \A u \in Threads : u # t => buffered'[u] = buffered[u]
        /\ at'[t] = end /\ \A u \in Threads : u # t => at'[u] = at[u]
        /\ buffered[t] = <<>>
    BY <1>13, <1>7 DEF TypeOK, Waits
  <2>3. buffered' \in [Threads -> Seq(Numbers)] /\ at' \in [Threads -> Threads \cup {Nobody}]
        /\ reading' \subseteq Threads
    BY <1>13, <2>1 DEF TypeOK
  <2>4. TypeOK'
    BY <1>13, <2>3, <1>5, <1>6, <1>10, <1>11 DEF TypeOK, link_
  <2>5. Waits'
    <3> SUFFICES ASSUME NEW u \in Threads
                 PROVE  IF at'[u] = Nobody THEN buffered'[u] = <<>> ELSE at'[u] \in reading' /\ link' = "up"
      BY DEF Waits
    <3>1. CASE u = t BY <3>1, <2>2, <1>13, <1>5, Constants DEF link_
    <3>2. CASE u # t BY <3>2, <2>2, <1>13, <1>5 DEF Waits, link_
    <3> QED BY <3>1, <3>2
  <2>6. ASSUME NEW u \in Threads, NEW m \in Range(buffered'[u]) \cup Range(handed'[u])
        PROVE  m \in DOMAIN arrived' /\ arrived'[m].thread = u
    <3>1. m \in Range(handed[u]) \cup Range(buffered[u]) \/ (u = t /\ m = n)
      BY <1>13, <2>1, <2>2, <2>6
    <3>2. CASE m \in Range(handed[u]) \cup Range(buffered[u])
      <4>1. m \in DOMAIN arrived /\ arrived[m].thread = u BY <3>2, <1>7
      <4> QED BY <4>1, <1>6
    <3>3. CASE u = t /\ m = n BY <3>3, <1>6, <1>8
    <3> QED BY <3>1, <3>2, <3>3
  <2>7. Known' BY <2>6 DEF Known
  <2>8. ASSUME NEW u \in Threads
        PROVE  /\ Increasing(buffered'[u]) /\ Increasing(handed'[u])
               /\ \A m \in Range(handed'[u]), k \in Range(buffered'[u]) : m < k
    <3>1. CASE u # t BY <1>13, <3>1, <2>2 DEF Ordered
    <3>2. CASE u = t
      <4>1. \A m \in Range(handed[t]) : m < n BY <1>6, <1>7
      <4> QED BY <1>13, <1>7, <3>2, <2>1, <2>2, <4>1
    <3> QED BY <3>1, <3>2
  <2>9. Ordered' BY <2>8 DEF Ordered
  <2>10. ASSUME NEW m \in pending'
         PROVE  /\ m \in DOMAIN arrived' /\ arrived'[m].kind = "request"
                /\ m \in Range(handed'[arrived'[m].thread]) \cup Range(buffered'[arrived'[m].thread])
    <3>1. CASE m \in pending
      <4>1. m \in DOMAIN arrived /\ m \in Range(handed[arrived[m].thread]) \cup Range(buffered[arrived[m].thread])
        BY <3>1 DEF OpenHeld
      <4>2. arrived'[m].kind = "request" /\ arrived'[m].thread = arrived[m].thread
        BY <1>9, <3>1
      <4>3. arrived[m].thread \in Threads BY <4>1, ThreadOf
      <4>4. m \in DOMAIN arrived' BY <4>1, <1>6
      <4>5. m \in Range(buffered[arrived[m].thread]) => arrived[m].thread # t BY <2>2, EmptyQueue
      <4> QED BY <1>13, <4>1, <4>2, <4>3, <4>4, <4>5, <2>2
    <3>2. CASE m \in request
      <4>1. m = n /\ arrived'[m].kind = "request" /\ arrived'[m].thread = t BY <3>2, <1>10, <1>6
      <4> QED BY <4>1, <2>1, <2>2, <1>8
    <3> QED BY <3>1, <3>2, <1>13
  <2>11. OpenHeld' BY <2>10 DEF OpenHeld
  <2> QED BY <2>4, <2>5, <2>7, <2>9, <2>11
<1>14. ASSUME at[t] = Nobody, handed' = [handed EXCEPT ![t] = Append(handed[t], n)],
              pending' = pending \cup request, UNCHANGED <<parents, waits, refused>>
       PROVE  RoutingInv'
  <2>1. PICK h : h = Append(handed[t], n) OBVIOUS
  <2>2. /\ h \in Seq(Nat) /\ Increasing(h)
        /\ \A x : x \in Range(h) <=> x \in Range(handed[t]) \/ x = n
    <3>1. \A m \in Range(handed[t]) : m < n BY <1>7, <1>6
    <3> QED BY <1>7, <1>8, <2>1, <3>1, AppendedFacts
  <2>3. h \in Seq(Numbers)
    <3>1. Range(h) \subseteq Numbers BY <2>2, <1>7, <1>8
    <3> QED BY <3>1, <2>2, SeqOfNumbers
  <2>4. /\ handed'[t] = h /\ \A u \in Threads : u # t => handed'[u] = handed[u]
        /\ buffered' = buffered /\ at' = at /\ reading' = reading /\ buffered[t] = <<>>
    BY <1>14, <2>1, <1>7 DEF waits, Waits
  <2>5. handed' \in [Threads -> Seq(Numbers)] BY <1>14, <2>1, <2>3 DEF TypeOK
  <2>6. TypeOK'
    BY <1>14, <2>4, <2>5, <1>5, <1>6, <1>10, <1>11 DEF TypeOK, link_
  <2>7. Waits' BY <2>4, <1>5 DEF Waits, link_
  <2>8. ASSUME NEW u \in Threads, NEW m \in Range(buffered'[u]) \cup Range(handed'[u])
        PROVE  m \in DOMAIN arrived' /\ arrived'[m].thread = u
    <3>1. m \in Range(handed[u]) \cup Range(buffered[u]) \/ (u = t /\ m = n)
      BY <2>2, <2>4, <2>8
    <3>2. CASE m \in Range(handed[u]) \cup Range(buffered[u])
      <4>1. m \in DOMAIN arrived /\ arrived[m].thread = u BY <3>2, <1>7
      <4> QED BY <4>1, <1>6
    <3>3. CASE u = t /\ m = n BY <3>3, <1>6, <1>8
    <3> QED BY <3>1, <3>2, <3>3
  <2>9. Known' BY <2>8 DEF Known
  <2>10. ASSUME NEW u \in Threads
         PROVE  /\ Increasing(buffered'[u]) /\ Increasing(handed'[u])
                /\ \A m \in Range(handed'[u]), k \in Range(buffered'[u]) : m < k
    <3>1. CASE u # t BY <3>1, <2>4 DEF Ordered
    <3>2. CASE u = t BY <3>2, <2>2, <2>4, EmptyQueue
    <3> QED BY <3>1, <3>2
  <2>11. Ordered' BY <2>10 DEF Ordered
  <2>12. ASSUME NEW m \in pending'
         PROVE  /\ m \in DOMAIN arrived' /\ arrived'[m].kind = "request"
                /\ m \in Range(handed'[arrived'[m].thread]) \cup Range(buffered'[arrived'[m].thread])
    <3>1. CASE m \in pending
      <4>1. m \in DOMAIN arrived /\ m \in Range(handed[arrived[m].thread]) \cup Range(buffered[arrived[m].thread])
        BY <3>1 DEF OpenHeld
      <4>2. arrived'[m].kind = "request" /\ arrived'[m].thread = arrived[m].thread
        BY <1>9, <3>1
      <4>3. arrived[m].thread \in Threads BY <4>1, ThreadOf
      <4>4. m \in DOMAIN arrived' BY <4>1, <1>6
      <4> QED BY <4>1, <4>2, <4>3, <4>4, <2>2, <2>4
    <3>2. CASE m \in request
      <4>1. m = n /\ arrived'[m].kind = "request" /\ arrived'[m].thread = t BY <3>2, <1>10, <1>6
      <4> QED BY <4>1, <2>2, <2>4, <1>8
    <3> QED BY <3>1, <3>2, <1>14
  <2>13. OpenHeld' BY <2>12 DEF OpenHeld
  <2> QED BY <2>6, <2>7, <2>9, <2>11, <2>13
<1>15. ASSUME parents' \in [Threads -> Threads \cup {Nobody, Unread}],
              refused' = refused \cup request, UNCHANGED <<waits, pending, handed>>
       PROVE  RoutingInv'
  <2>1. TypeOK'
    BY <1>15, <1>5, <1>6, <1>10, <1>11 DEF TypeOK, link_, waits
  <2>2. Waits' BY <1>15, <1>5 DEF Waits, link_, waits
  <2>3. ASSUME NEW u \in Threads, NEW m \in Range(buffered'[u]) \cup Range(handed'[u])
        PROVE  m \in DOMAIN arrived' /\ arrived'[m].thread = u
    <3>1. m \in Range(handed[u]) \cup Range(buffered[u]) BY <1>15, <2>3 DEF waits
    <3>2. m \in DOMAIN arrived /\ arrived[m].thread = u BY <3>1, <1>7
    <3> QED BY <3>2, <1>6
  <2>4. Known' BY <2>3 DEF Known
  <2>5. Ordered' BY <1>15 DEF Ordered, waits
  <2>6. ASSUME NEW m \in pending
        PROVE  /\ m \in DOMAIN arrived' /\ arrived'[m].kind = "request"
               /\ m \in Range(handed[arrived'[m].thread]) \cup Range(buffered[arrived'[m].thread])
    BY <1>6, <1>9 DEF OpenHeld
  <2>7. OpenHeld' BY <1>15, <2>6 DEF OpenHeld, waits
  <2> QED BY <2>1, <2>2, <2>4, <2>5, <2>7
<1>16. \/ at[t] # Nobody
       \/ at[t] = Nobody /\ handed' = [handed EXCEPT ![t] = Append(@, n)] /\ pending' = pending \cup request
          /\ UNCHANGED <<parents, waits, refused>>
       \/ at[t] = Nobody /\ ask /\ link = "up" /\ buffered' = [buffered EXCEPT ![t] = <<n>>]
          /\ at' = [at EXCEPT ![t] = end] /\ reading' = reading \cup {end}
          /\ pending' = pending \cup request /\ UNCHANGED <<parents, handed, refused>>
       \/ at[t] = Nobody /\ parents' = (IF ask THEN [parents EXCEPT ![end] = Nobody] ELSE parents)
          /\ refused' = refused \cup request /\ UNCHANGED <<waits, pending, handed>>
  BY <1>1, <1>2, <1>3, <1>4 DEF Arrives
<1>17. ask => end \in Threads BY <1>3 DEF MustRead
<1>18. (IF ask THEN [parents EXCEPT ![end] = Nobody] ELSE parents) \in [Threads -> Threads \cup {Nobody, Unread}]
  BY <1>17 DEF TypeOK
<1> QED BY <1>12, <1>13, <1>14, <1>15, <1>16, <1>17, <1>18

LEMMA RoutingInit == Init => RoutingInv
<1> SUFFICES ASSUME Init PROVE RoutingInv OBVIOUS
<1> USE DEF Init
<1>1. <<>> \in Seq(Message) /\ <<>> \in Seq(Numbers) /\ Len(<<>>) = 0 OBVIOUS
<1>2. TypeOK BY <1>1, Constants DEF TypeOK
<1>3. Waits /\ Known /\ Ordered /\ OpenHeld BY EmptyQueue DEF Waits, Known, Ordered, OpenHeld
<1> QED BY <1>2, <1>3 DEF RoutingInv

LEMMA RoutingStep == RoutingInv /\ [Next]_vars => RoutingInv'
<1> SUFFICES ASSUME RoutingInv, [Next]_vars PROVE RoutingInv' OBVIOUS
<1> USE DEF RoutingInv
<1>1. CASE \E t \in Threads, k \in {"note", "request"} : Arrives(t, k) BY <1>1, ArrivesSteps
<1>2. ASSUME NEW c \in Threads, ReadAnswered(c) \/ ReadFails(c) PROVE RoutingInv'
  <2>1. /\ [parents EXCEPT ![c] = Parent[c]] \in [Threads -> Threads \cup {Nobody, Unread}]
        /\ [parents EXCEPT ![c] = Nobody] \in [Threads -> Threads \cup {Nobody, Unread}]
    BY Constants DEF TypeOK
  <2>2. CASE ReadAnswered(c) BY <2>1, <2>2, ContinueSteps DEF ReadAnswered
  <2>3. CASE ReadFails(c) BY <2>1, <2>3, ContinueSteps DEF ReadFails
  <2> QED BY <1>2, <2>2, <2>3
<1>3. ASSUME NEW t \in Threads, NEW s \in Sessions, Route(t, s) PROVE RoutingInv'
  <2>1. PICK ts \in SUBSET Threads : Flush(ts) BY <1>3 DEF Route, FlushKnown
  <2>2. /\ routes' = [routes EXCEPT ![t] = s]
        /\ UNCHANGED <<link_, sinks, parents, reading, arrived, pending, refused>>
    BY <1>3 DEF Route
  <2>3. /\ handed' \in [Threads -> Seq(Numbers)] /\ buffered' \in [Threads -> Seq(Numbers)]
        /\ at' \in [Threads -> Threads \cup {Nobody}]
        /\ Waits' /\ Known' /\ Ordered' /\ OpenHeld'
    BY <2>1, <2>2, FlushSteps DEF link_
  <2>4. s \in Threads BY Constants
  <2>5. TypeOK' BY <2>2, <2>3, <2>4 DEF TypeOK, link_
  <2> QED BY <2>3, <2>5
<1>4. ASSUME NEW n \in Numbers, Settles(n) PROVE RoutingInv'
  <2>1. TypeOK' BY <1>4 DEF Settles, TypeOK, link_, tree, waits
  <2>2. Waits' BY <1>4 DEF Settles, Waits, link_, waits
  <2>3. Known' BY <1>4 DEF Settles, Known, waits
  <2>4. Ordered' BY <1>4 DEF Settles, Ordered, waits
  <2>5. OpenHeld' BY <1>4 DEF Settles, OpenHeld, waits
  <2> QED BY <2>1, <2>2, <2>3, <2>4, <2>5
<1>5. ASSUME NEW s \in Sessions, Attach(s) PROVE RoutingInv'
  <2>1. PICK ts \in SUBSET Threads : Flush(ts) BY <1>5 DEF Attach, FlushKnown
  <2>2. sinks' = sinks \cup {s} /\ UNCHANGED <<link_, routes, parents, reading, arrived, pending, refused>>
    BY <1>5 DEF Attach
  <2>3. /\ handed' \in [Threads -> Seq(Numbers)] /\ buffered' \in [Threads -> Seq(Numbers)]
        /\ at' \in [Threads -> Threads \cup {Nobody}]
        /\ Waits' /\ Known' /\ Ordered' /\ OpenHeld'
    BY <2>1, <2>2, FlushSteps DEF link_
  <2>4. TypeOK' BY <2>2, <2>3 DEF TypeOK, link_
  <2> QED BY <2>3, <2>4
<1>6. ASSUME NEW s \in Sessions, Detach(s) \/ Unroute(s) PROVE RoutingInv'
  <2>1. /\ sinks' \subseteq sinks /\ routes' = [t \in Threads |-> IF routes[t] = s THEN Nobody ELSE routes[t]]
        /\ UNCHANGED <<link_, parents, waits, traffic>>
    BY <1>6 DEF Detach, Unroute
  <2>2. TypeOK' BY <2>1 DEF TypeOK, link_, waits, traffic
  <2>3. Waits' BY <2>1 DEF Waits, link_, waits
  <2>4. Known' BY <2>1 DEF Known, waits, traffic
  <2>5. Ordered' BY <2>1 DEF Ordered, waits, traffic
  <2>6. OpenHeld' BY <2>1 DEF OpenHeld, waits, traffic
  <2> QED BY <2>2, <2>3, <2>4, <2>5, <2>6
<1>7. ASSUME Exit \/ Reconnect PROVE RoutingInv'
  <2>1. /\ pending' = {} /\ reading' = {}
        /\ buffered' = [t \in Threads |-> <<>>] /\ at' = [t \in Threads |-> Nobody]
        /\ UNCHANGED <<sinks, routes, arrived, handed, refused>>
        /\ link' \in {"up", "down"} /\ gen' \in 1..MaxGen
        /\ parents' \in [Threads -> Threads \cup {Nobody, Unread}]
    BY <1>7, Constants DEF Exit, Reconnect, tree, TypeOK
  <2>2. buffered' \in [Threads -> Seq(Numbers)] /\ at' \in [Threads -> Threads \cup {Nobody}]
    BY <2>1, EmptyQueue
  <2>3. TypeOK' BY <2>1, <2>2 DEF TypeOK
  <2>4. Waits' BY <2>1 DEF Waits
  <2>5. OpenHeld' BY <2>1 DEF OpenHeld
  <2>6. \A t \in Threads : Ends(t) BY <2>1 DEF Ends
  <2>7. handed' = [t \in Threads |-> handed'[t]] /\ buffered' = [t \in Threads |-> buffered'[t]]
    BY <2>1 DEF TypeOK
  <2>8. Known' /\ Ordered' BY <2>1, <2>6, <2>7, QueueSteps
  <2> QED BY <2>3, <2>4, <2>5, <2>8
<1>8. CASE UNCHANGED vars
  <2>1. UNCHANGED <<link, gen, sinks, routes, parents, reading, buffered, at, arrived, pending, handed, refused>>
    BY <1>8 DEF vars, link_, tree, waits, traffic
  <2>2. TypeOK' BY <2>1 DEF TypeOK
  <2>3. Waits' BY <2>1 DEF Waits
  <2>4. Known' BY <2>1 DEF Known
  <2>5. Ordered' BY <2>1 DEF Ordered
  <2>6. OpenHeld' BY <2>1 DEF OpenHeld
  <2> QED BY <2>2, <2>3, <2>4, <2>5, <2>6
<1> QED BY <1>1, <1>2, <1>3, <1>4, <1>5, <1>6, <1>7, <1>8 DEF Next

(* Type correctness; a queue waits only for a lookup in flight on a living    *)
(* connection; queues and sinks hold messages of their thread, in the order   *)
(* of their arrival; an open request was handed over or waits: routeMessage,  *)
(* resolveSink, flush and onExit keep all of it, for any tree of threads.     *)
THEOREM RoutingInvariant == Spec => []RoutingInv
BY RoutingInit, RoutingStep, PTL DEF Spec

(* The messages of a thread reach its sinks in the order of their arrival,    *)
(* whatever deliver, Shed and flush skipped, shed or held back.               *)
THEOREM HandedInOrder == Spec => []InOrder
<1>1. RoutingInv => InOrder BY DEF RoutingInv, Ordered, Increasing, InOrder
<1> QED BY <1>1, RoutingInvariant, PTL

(* "Approvals must survive the lookup": a request the server waits for was    *)
(* handed over, or waits for a lookup that is in flight.                      *)
THEOREM RequestsSurvive == Spec => []NoRequestLost
<1>1. ASSUME RoutingInv PROVE NoRequestLost
  <2> SUFFICES ASSUME NEW n \in pending
               PROVE  LET t == arrived[n].thread
                      IN  n \in Range(handed[t]) \/ (n \in Range(buffered[t]) /\ at[t] \in reading /\ link = "up")
    BY DEF NoRequestLost
  <2>1. n \in DOMAIN arrived /\ n \in Range(handed[arrived[n].thread]) \cup Range(buffered[arrived[n].thread])
    BY <1>1 DEF RoutingInv, OpenHeld
  <2>2. arrived[n].thread \in Threads BY <1>1, <2>1, ThreadOf
  <2>3. CASE n \in Range(buffered[arrived[n].thread])
    <3>1. buffered[arrived[n].thread] # <<>> BY <2>3, EmptyQueue
    <3>2. at[arrived[n].thread] \in reading /\ link = "up" BY <3>1, <2>2, <1>1 DEF RoutingInv, Waits
    <3> QED BY <2>3, <3>2
  <2> QED BY <2>1, <2>3
<1> QED BY <1>1, RoutingInvariant, PTL

-----------------------------------------------------------------------------
(* The way up of sinkOf, step by step.                                        *)
Halts(u, sk, rt, pa) == u \notin Threads \ sk \/ Hop(u, rt, pa) = Unread
StepUp(u, sk, rt, pa) == IF Halts(u, sk, rt, pa) THEN u ELSE Hop(u, rt, pa)
StepsOf(t, sk, rt, pa, n, f) ==
    f = [k \in 0..n |-> IF k = 0 THEN t ELSE StepUp(f[k - 1], sk, rt, pa)]

LEMMA StepsExist ==
  ASSUME NEW t, NEW sk, NEW rt, NEW pa, NEW N \in Nat
  PROVE  \E f : StepsOf(t, sk, rt, pa, N, f)
<1> DEFINE T == {n \in Nat : \E f : StepsOf(t, sk, rt, pa, n, f)}
<1>1. 0 \in T
  <2>1. StepsOf(t, sk, rt, pa, 0, [k \in 0..0 |-> t]) BY DEF StepsOf
  <2> QED BY <2>1
<1>2. ASSUME NEW n \in Nat, n \in T PROVE n + 1 \in T
  <2>1. PICK f : StepsOf(t, sk, rt, pa, n, f) BY <1>2
  <2>2. PICK m : m = n + 1 OBVIOUS
  <2> DEFINE g == [k \in 0..m |-> IF k <= n THEN f[k] ELSE StepUp(f[k - 1], sk, rt, pa)]
  <2>3. \A k \in 0..n : f[k] = IF k = 0 THEN t ELSE StepUp(f[k - 1], sk, rt, pa)
    BY <2>1 DEF StepsOf
  <2>4. (\A k \in 0..n : g[k] = f[k]) /\ g[m] = StepUp(f[n], sk, rt, pa)
    BY <2>2
  <2>5. g = [k \in 0..m |-> g[k]] OBVIOUS
  <2> HIDE DEF g
  <2>6. \A k \in 0..m : g[k] = IF k = 0 THEN t ELSE StepUp(g[k - 1], sk, rt, pa)
    <3> TAKE k \in 0..m
    <3>1. CASE k = m
      <4>1. k - 1 = n /\ k # 0 /\ n \in 0..n BY <3>1, <2>2
      <4> QED BY <4>1, <3>1, <2>4
    <3>2. CASE k = 0 BY <3>2, <2>3, <2>4
    <3>3. CASE k \in 1..n
      <4>1. k - 1 \in 0..n /\ k \in 0..n /\ k # 0 BY <3>3
      <4>2. g[k] = f[k] /\ g[k - 1] = f[k - 1] BY <4>1, <2>4
      <4> QED BY <4>1, <4>2, <2>3
    <3> QED BY <3>1, <3>2, <3>3, <2>2
  <2>7. [k \in 0..m |-> g[k]] = [k \in 0..m |-> IF k = 0 THEN t ELSE StepUp(g[k - 1], sk, rt, pa)]
    BY <2>6
  <2>8. StepsOf(t, sk, rt, pa, m, g) BY <2>5, <2>7 DEF StepsOf
  <2>9. \E h : StepsOf(t, sk, rt, pa, m, h) BY <2>8
  <2> QED BY <2>2, <2>9
<1>3. Nat \subseteq T
  <2> HIDE DEF T
  <2> QED BY <1>1, <1>2, Induction
<1> QED BY <1>3

LEMMA WayUpSteps ==
  ASSUME NEW t, NEW sk, NEW rt, NEW pa
  PROVE  /\ Cardinality(Threads) \in Nat /\ IsFiniteSet(Threads)
         /\ \E f : /\ \A k \in 0..Cardinality(Threads) :
                          f[k] = IF k = 0 THEN t ELSE StepUp(f[k - 1], sk, rt, pa)
                   /\ WayUp(t, sk, rt, pa) = f[Cardinality(Threads)]
<1>1. Cardinality(Threads) \in Nat /\ IsFiniteSet(Threads) BY RoutingAssumption, FS_CardinalityType
<1>2. PICK N \in Nat : N = Cardinality(Threads) BY <1>1
<1> DEFINE F == CHOOSE f : StepsOf(t, sk, rt, pa, N, f)
<1>3. StepsOf(t, sk, rt, pa, N, F)
  <2>1. \E f : StepsOf(t, sk, rt, pa, N, f) BY StepsExist
  <2> HIDE DEF StepsOf
  <2> QED BY <2>1
<1>4. WayUp(t, sk, rt, pa) = F[N] BY <1>2 DEF WayUp, StepsOf, StepUp, Halts
<1> HIDE DEF F
<1>5. \A k \in 0..N : F[k] = IF k = 0 THEN t ELSE StepUp(F[k - 1], sk, rt, pa)
  BY <1>3 DEF StepsOf
<1> QED BY <1>1, <1>2, <1>4, <1>5

(* One thread of it leads to another, or to the end e.                        *)
Leads(u, W, e, rt, pa) ==
    \/ Hop(u, rt, pa) \in W
    \/ Hop(u, rt, pa) = Nobody /\ e = Nobody
    \/ Hop(u, rt, pa) = Unread /\ u = e

Avoids(t, sk, rt, pa, e) ==
    \E W \in SUBSET (Threads \ sk) : t \in W /\ \A u \in W : Leads(u, W, e, rt, pa)
ClearTo(t, sk, pa, e) ==
    \E P \in SUBSET (Threads \ sk) : t \in P /\ \A u \in P : u = e \/ pa[u] \in P

(* A way up that does not end at a sink passes none, and leads to its end or  *)
(* nowhere.                                                                   *)
LEMMA WayUpFacts ==
  ASSUME NEW sk \in SUBSET Threads, NEW rt \in [Threads -> Threads \cup {Nobody}],
         NEW pa \in [Threads -> Threads \cup {Nobody, Unread}], NEW t \in Threads,
         NEW e, e = WayUp(t, sk, rt, pa), e \notin sk
  PROVE  Avoids(t, sk, rt, pa, e)
<1>1. PICK N \in Nat : N = Cardinality(Threads) /\ IsFiniteSet(Threads) BY WayUpSteps
<1>2. PICK f : /\ \A k \in 0..N : f[k] = IF k = 0 THEN t ELSE StepUp(f[k - 1], sk, rt, pa)
               /\ e = f[N]
  BY <1>1, WayUpSteps
<1> DEFINE hop(u) == Hop(u, rt, pa)
           stop(u) == Halts(u, sk, rt, pa)
<1>3. f[0] = t BY <1>2
<1>4. ASSUME NEW k \in 0..N, NEW l \in 0..N, l = k + 1
      PROVE  f[l] = IF stop(f[k]) THEN f[k] ELSE hop(f[k])
  BY <1>2, <1>4 DEF StepUp
<1>5. \A u \in Threads : hop(u) \in Threads \cup {Nobody, Unread}
  BY Constants DEF Hop
<1>6. Nobody \notin Threads /\ Unread \notin Threads \cup {Nobody} BY Constants
<1>7. \A u : ~stop(u) => u \in Threads \ sk /\ hop(u) \in Threads \cup {Nobody}
  BY <1>5 DEF Halts
<1> HIDE DEF hop
<1>8. \A k \in 0..N : f[k] \in Threads \cup {Nobody}
  <2> DEFINE T == {k \in Nat : k <= N => f[k] \in Threads \cup {Nobody}}
  <2>1. 0 \in T BY <1>3
  <2>2. ASSUME NEW k \in Nat, k \in T PROVE k + 1 \in T
    <3> SUFFICES ASSUME k + 1 <= N PROVE f[k + 1] \in Threads \cup {Nobody} OBVIOUS
    <3>1. PICK l : l = k + 1 OBVIOUS
    <3>2. f[l] = IF stop(f[k]) THEN f[k] ELSE hop(f[k]) BY <3>1, <1>4
    <3>3. f[k] \in Threads \cup {Nobody} BY <2>2
    <3> QED BY <3>1, <3>2, <3>3, <1>7
  <2>3. Nat \subseteq T
    <3> HIDE DEF T
    <3> QED BY <2>1, <2>2, Induction
  <2> QED BY <2>3
<1>9. ASSUME NEW k \in 0..N, stop(f[k]) PROVE f[k] = e
  <2> DEFINE T == {j \in Nat : k <= j /\ j <= N => f[j] = f[k]}
  <2>1. 0 \in T OBVIOUS
  <2>2. ASSUME NEW j \in Nat, j \in T PROVE j + 1 \in T
    <3> SUFFICES ASSUME k <= j + 1, j + 1 <= N PROVE f[j + 1] = f[k] OBVIOUS
    <3>1. PICK l : l = j + 1 OBVIOUS
    <3>2. CASE k = l BY <3>1, <3>2
    <3>3. CASE k <= j
      <4>1. f[j] = f[k] BY <2>2, <3>3
      <4>2. f[l] = IF stop(f[j]) THEN f[j] ELSE hop(f[j])
        <5>1. l \in 0..N /\ j \in 0..N BY <3>1
        <5> QED BY <3>1, <5>1, <1>4
      <4> QED BY <4>1, <4>2, <3>1, <1>9
    <3> QED BY <3>1, <3>2, <3>3
  <2>3. Nat \subseteq T
    <3> HIDE DEF T
    <3> QED BY <2>1, <2>2, Induction
  <2> QED BY <2>3, <1>2
<1>10. CASE \E k \in 0..N : stop(f[k])
  <2>1. PICK k \in 0..N : stop(f[k]) BY <1>10
  <2>2. stop(e) BY <2>1, <1>9
  <2> DEFINE W == {f[j] : j \in 0..N} \cap Threads
  <2>3. t \in W
    <3>1. 0 \in 0..N OBVIOUS
    <3> QED BY <1>3, <3>1
  <2>4. ASSUME NEW j \in 0..N, f[j] \in Threads
        PROVE  /\ f[j] \notin sk
               /\ \/ hop(f[j]) \in W
                  \/ hop(f[j]) = Nobody /\ e = Nobody
                  \/ hop(f[j]) = Unread /\ f[j] = e
    <3>1. f[j] \in sk => stop(f[j]) BY DEF Halts
    <3>2. f[j] \notin sk BY <3>1, <1>9
    <3>3. CASE stop(f[j])
      <4>1. f[j] = e BY <3>3, <1>9
      <4>2. hop(f[j]) = Unread BY <3>3, <3>2, <2>4 DEF Halts, hop
      <4> QED BY <3>2, <4>1, <4>2
    <3>4. CASE ~stop(f[j])
      <4>1. j # N BY <3>4, <2>2, <1>2
      <4>2. PICK l \in 0..N : l = j + 1 BY <4>1
      <4>3. f[l] = hop(f[j]) BY <4>2, <1>4, <3>4
      <4>4. hop(f[j]) \in Threads \cup {Nobody} BY <3>4, <1>7
      <4>5. CASE hop(f[j]) \in Threads BY <4>5, <4>3, <3>2
      <4>6. CASE hop(f[j]) = Nobody
        <5>1. stop(f[l]) BY <4>3, <4>6, <1>6 DEF Halts
        <5>2. e = Nobody BY <5>1, <1>9, <4>3, <4>6
        <5> QED BY <3>2, <4>6, <5>2
      <4> QED BY <4>4, <4>5, <4>6
    <3> QED BY <3>3, <3>4
  <2>5. ASSUME NEW u \in W PROVE u \in Threads \ sk /\ Leads(u, W, e, rt, pa)
    <3>1. PICK j \in 0..N : u = f[j] /\ f[j] \in Threads OBVIOUS
    <3> HIDE DEF W
    <3> QED BY <3>1, <2>4 DEF hop, Leads
  <2> HIDE DEF W
  <2>6. W \in SUBSET (Threads \ sk) /\ \A u \in W : Leads(u, W, e, rt, pa) BY <2>5
  <2> QED BY <2>3, <2>6 DEF Avoids
<1>11. CASE \A k \in 0..N : ~stop(f[k])
  <2>1. [k \in 0..N |-> f[k]] \in [0..N -> Threads] BY <1>11, <1>7
  <2>2. IsFiniteSet(0..N) /\ Cardinality(0..N) = N + 1 BY FS_Interval
  <2>3. \E x, y \in 0..N : x # y /\ f[x] = f[y]
    <3>1. PICK g : g = [k \in 0..N |-> f[k]] OBVIOUS
    <3>2. \E x, y \in 0..N : x # y /\ g[x] = g[y] BY <2>1, <2>2, <1>1, <3>1, FS_PigeonHole
    <3> QED BY <3>1, <3>2
  <2>4. PICK i \in 0..N, j \in 0..N : i < j /\ f[i] = f[j]
    <3>1. PICK x \in 0..N, y \in 0..N : x # y /\ f[x] = f[y] BY <2>3
    <3>2. CASE x < y BY <3>1, <3>2
    <3>3. CASE y < x BY <3>1, <3>3
    <3> QED BY <3>1, <3>2, <3>3
  <2> DEFINE W == {f[k] : k \in 0..(j - 1)}
  <2>5. t \in W
    <3>1. 0 \in 0..(j - 1) BY <2>4
    <3> QED BY <1>3, <3>1
  <2>6. ASSUME NEW k \in 0..(j - 1)
        PROVE  f[k] \in Threads \ sk /\ hop(f[k]) \in W
    <3>1. PICK l \in 0..N : l = k + 1 BY <2>4
    <3>2. k \in 0..N BY <2>4
    <3>3. f[l] = hop(f[k]) BY <3>1, <3>2, <1>4, <1>11
    <3>4. f[l] \in W
      <4>1. CASE l = j
        <5>1. i \in 0..(j - 1) /\ f[l] = f[i] BY <2>4, <4>1
        <5> QED BY <5>1
      <4>2. CASE l # j
        <5>1. l \in 0..(j - 1) BY <3>1, <4>2
        <5> QED BY <5>1
      <4> QED BY <4>1, <4>2
    <3> QED BY <3>2, <3>3, <3>4, <1>7, <1>11
  <2>7. W \in SUBSET (Threads \ sk) /\ \A u \in W : hop(u) \in W BY <2>6
  <2> HIDE DEF W
  <2>8. \A u \in W : Leads(u, W, e, rt, pa) BY <2>7 DEF hop, Leads
  <2> QED BY <2>5, <2>7, <2>8 DEF Avoids
<1> QED BY <1>10, <1>11

(* What is closed under the server's parents holds all of a lineage.          *)
LEMMA LineageWithin ==
  ASSUME NEW t \in Threads, NEW W \in SUBSET Threads, t \in W,
         \A u \in W \cap Lineage(t) : Parent[u] \in W \cup {Nobody}
  PROVE  Lineage(t) \subseteq W \cup {Nobody}
<1>1. PICK N \in Nat : N = Cardinality(Threads) BY WayUpSteps
<1> DEFINE Above(x) == IF x \in Threads THEN Parent[x] ELSE Nobody
           Up(n, f) == f = [k \in 0..n |-> IF k = 0 THEN t ELSE Above(f[k - 1])]
           F == CHOOSE f : Up(N, f)
<1> HIDE DEF Above
<1>2. \E f : Up(N, f)
  <2> DEFINE T == {n \in Nat : \E f : Up(n, f)}
  <2>1. 0 \in T
    <3>1. Up(0, [k \in 0..0 |-> t]) OBVIOUS
    <3> QED BY <3>1
  <2>2. ASSUME NEW n \in Nat, n \in T PROVE n + 1 \in T
    <3>1. PICK f : Up(n, f) BY <2>2
    <3>2. PICK m : m = n + 1 OBVIOUS
    <3> DEFINE g == [k \in 0..m |-> IF k <= n THEN f[k] ELSE Above(f[k - 1])]
    <3>3. \A k \in 0..n : f[k] = IF k = 0 THEN t ELSE Above(f[k - 1]) BY <3>1
    <3>4. (\A k \in 0..n : g[k] = f[k]) /\ g[m] = Above(f[n]) BY <3>2
    <3>5. g = [k \in 0..m |-> g[k]] OBVIOUS
    <3> HIDE DEF g
    <3>6. \A k \in 0..m : g[k] = IF k = 0 THEN t ELSE Above(g[k - 1])
      <4> TAKE k \in 0..m
      <4>1. CASE k = m
        <5>1. k - 1 = n /\ k # 0 /\ n \in 0..n BY <4>1, <3>2
        <5> QED BY <5>1, <4>1, <3>4
      <4>2. CASE k = 0 BY <4>2, <3>3, <3>4
      <4>3. CASE k \in 1..n
        <5>1. k - 1 \in 0..n /\ k \in 0..n /\ k # 0 BY <4>3
        <5>2. g[k] = f[k] /\ g[k - 1] = f[k - 1] BY <5>1, <3>4
        <5> QED BY <5>1, <5>2, <3>3
      <4> QED BY <4>1, <4>2, <4>3, <3>2
    <3>7. Up(m, g)
      <4>1. [k \in 0..m |-> g[k]] = [k \in 0..m |-> IF k = 0 THEN t ELSE Above(g[k - 1])] BY <3>6
      <4> QED BY <4>1, <3>5
    <3>8. \E h : Up(m, h)
      <4> HIDE DEF Up
      <4> QED BY <3>7
    <3> QED BY <3>2, <3>8
  <2>3. Nat \subseteq T
    <3> HIDE DEF T
    <3> QED BY <2>1, <2>2, Induction
  <2> QED BY <2>3
<1>3. Up(N, F)
  <2> HIDE DEF Up
  <2> QED BY <1>2
<1>4. Lineage(t) = {F[k] : k \in 0..N} BY <1>1 DEF Lineage, Above
<1> HIDE DEF F
<1>5. \A k \in 0..N : F[k] = IF k = 0 THEN t ELSE Above(F[k - 1]) BY <1>3
<1> HIDE DEF Up
<1> DEFINE T == {k \in Nat : k <= N => F[k] \in W \cup {Nobody}}
<1>6. 0 \in T BY <1>5
<1>7. ASSUME NEW k \in Nat, k \in T PROVE k + 1 \in T
  <2> SUFFICES ASSUME k + 1 <= N PROVE F[k + 1] \in W \cup {Nobody} OBVIOUS
  <2>1. PICK l : l = k + 1 OBVIOUS
  <2>2. F[l] = Above(F[k])
    <3>1. l \in 0..N /\ l # 0 /\ l - 1 = k BY <2>1
    <3> QED BY <3>1, <1>5
  <2>3. F[k] \in W \cup {Nobody} BY <1>7
  <2>4. F[k] \in Lineage(t) BY <1>4
  <2>5. Above(F[k]) \in W \cup {Nobody} BY <2>3, <2>4, Constants DEF Above
  <2> QED BY <2>1, <2>2, <2>5
<1>8. Nat \subseteq T
  <2> HIDE DEF T
  <2> QED BY <1>6, <1>7, Induction
<1> QED BY <1>4, <1>8

-----------------------------------------------------------------------------
(* Routes lead to sinks.                                                      *)
RoutesLead == \A t \in Threads : routes[t] = Nobody \/ routes[t] \in sinks

(* What is asked for was not read, and is asked of a living child.            *)
Asked ==
    /\ \A c \in reading : parents[c] = Unread
    /\ link = "down" => reading = {}

(* The thread a queue waits for is above its own, with no sink in between.    *)
ClearWays ==
    \A t \in Threads : at[t] # Nobody => ClearTo(t, sinks, parents, at[t])

WaysInv == RoutesLead /\ Asked /\ ClearWays

(* A way that leads to no route leads to the parents that were read.          *)
LEMMA LedByParents ==
  ASSUME NEW sk \in SUBSET Threads, NEW rt \in [Threads -> Threads \cup {Nobody}],
         \A v \in Threads : rt[v] = Nobody \/ rt[v] \in sk,
         NEW pa, NEW W \in SUBSET (Threads \ sk), NEW e, NEW u \in W, Leads(u, W, e, rt, pa)
  PROVE  /\ rt[u] = Nobody
         /\ \/ pa[u] \in W
            \/ pa[u] = Nobody /\ e = Nobody
            \/ pa[u] = Unread /\ u = e
BY Constants DEF Leads, Hop

(* A thread whose way up ends at one that must be asked has a clear way to it. *)
LEMMA ClearWayTo ==
  ASSUME TypeOK, RoutesLead, NEW pa \in [Threads -> Threads \cup {Nobody, Unread}],
         NEW t \in Threads, NEW e, e = WayUp(t, sinks, routes, pa), e \notin sinks,
         MustRead(e, routes, pa)
  PROVE  ClearTo(t, sinks, pa, e)
<1>1. sinks \in SUBSET Threads /\ routes \in [Threads -> Threads \cup {Nobody}]
  BY Constants DEF TypeOK
<1>2. PICK W \in SUBSET (Threads \ sinks) : t \in W /\ \A u \in W : Leads(u, W, e, routes, pa)
  <2>1. Avoids(t, sinks, routes, pa, e) BY <1>1, WayUpFacts
  <2> QED BY <2>1 DEF Avoids
<1>3. e \in Threads /\ e # Nobody BY Constants DEF MustRead
<1>4. \A u \in W : u = e \/ pa[u] \in W
  BY <1>1, <1>2, <1>3, LedByParents DEF RoutesLead
<1> QED BY <1>2, <1>4 DEF ClearTo

(* The ways stay clear when a sink or a route is new.                         *)
LEMMA FlushWays ==
  ASSUME RoutingInv, WaysInv, NEW sk \in SUBSET Threads, NEW rt \in [Threads -> Threads \cup {Nobody}],
         \A v \in Threads : rt[v] = Nobody \/ rt[v] \in sk,
         FlushKnown(sk, rt), sinks' = sk, UNCHANGED parents
  PROVE  ClearWays'
<1> SUFFICES ASSUME NEW t \in Threads, at'[t] # Nobody
             PROVE  ClearTo(t, sk, parents, at'[t])
  BY DEF ClearWays, ClearTo
<1>1. at[t] # Nobody /\ at'[t] = at[t] /\ WayUp(t, sk, rt, parents) \notin sk
  BY DEF FlushKnown, Flush
<1>2. PICK P \in SUBSET (Threads \ sinks) : t \in P /\ \A u \in P : u = at[t] \/ parents[u] \in P
  BY <1>1 DEF WaysInv, ClearWays, ClearTo
<1>3. PICK e : e = WayUp(t, sk, rt, parents) OBVIOUS
<1>4. PICK W \in SUBSET (Threads \ sk) : t \in W /\ \A u \in W : Leads(u, W, e, rt, parents)
  <2>1. parents \in [Threads -> Threads \cup {Nobody, Unread}] BY DEF RoutingInv, TypeOK
  <2>2. e \notin sk BY <1>1, <1>3
  <2>3. Avoids(t, sk, rt, parents, e) BY <1>3, <2>1, <2>2, WayUpFacts
  <2> QED BY <2>3 DEF Avoids
<1>5. \A u \in W \cap P : u = at[t] \/ parents[u] \in W \cap P
  <2> TAKE u \in W \cap P
  <2> SUFFICES ASSUME u # at[t] PROVE parents[u] \in W \cap P OBVIOUS
  <2>1. parents[u] \in P /\ parents[u] \in Threads BY <1>2
  <2>2. \/ parents[u] \in W
        \/ parents[u] = Nobody /\ e = Nobody
        \/ parents[u] = Unread /\ u = e
    BY <1>4, LedByParents
  <2> QED BY <2>1, <2>2, Constants
<1>6. W \cap P \in SUBSET (Threads \ sk) /\ t \in W \cap P BY <1>2, <1>4
<1> QED BY <1>1, <1>5, <1>6 DEF ClearTo

LEMMA ContinueWays ==
  ASSUME RoutingInv, WaysInv, NEW c \in reading, NEW p \in Threads \cup {Nobody},
         Continue(c, [parents EXCEPT ![c] = p]), link = "up",
         UNCHANGED <<link_, sinks, routes, arrived>>
  PROVE  WaysInv'
<1>1. PICK pa : pa = [parents EXCEPT ![c] = p] OBVIOUS
<1>2. PICK e : e = WayUp(c, sinks, routes, pa) OBVIOUS
<1> DEFINE waiting == {t \in Threads : at[t] = c}
           again == e \notin sinks /\ MustRead(e, routes, pa)
<1>3. /\ parents' = pa
      /\ reading' = (reading \ {c}) \cup (IF again /\ waiting # {} THEN {e} ELSE {})
      /\ at' = [t \in Threads |-> IF t \notin waiting THEN at[t] ELSE IF again THEN e ELSE Nobody]
  BY <1>1, <1>2 DEF Continue
<1>4. c \in Threads /\ parents[c] = Unread
  BY DEF RoutingInv, TypeOK, WaysInv, Asked
<1>5. /\ pa \in [Threads -> Threads \cup {Nobody, Unread}]
      /\ pa[c] = p /\ \A u \in Threads : u # c => pa[u] = parents[u]
  BY <1>1, <1>4 DEF RoutingInv, TypeOK
<1>6. RoutesLead' BY DEF WaysInv, RoutesLead
<1>7. Asked'
  <2>1. \A d \in reading \ {c} : pa[d] = Unread
    BY <1>5 DEF WaysInv, Asked, RoutingInv, TypeOK
  <2>2. again => pa[e] = Unread
    <3> HAVE again
    <3>1. e \in Threads /\ Hop(e, routes, pa) = Unread BY DEF MustRead
    <3>2. routes[e] \in Threads \cup {Nobody} BY <3>1 DEF RoutingInv, TypeOK
    <3> QED BY <3>1, <3>2, Constants DEF Hop
  <2> QED BY <1>3, <2>1, <2>2 DEF Asked, link_
<1>8. ASSUME NEW t \in Threads, at'[t] # Nobody
      PROVE  ClearTo(t, sinks, pa, at'[t])
  <2>1. at[t] # Nobody
    <3>1. c # Nobody BY <1>4, Constants
    <3> QED BY <1>3, <1>8, <3>1
  <2>2. PICK P \in SUBSET (Threads \ sinks) : t \in P /\ \A u \in P : u = at[t] \/ parents[u] \in P
    BY <2>1 DEF WaysInv, ClearWays, ClearTo
  <2>3. \A u \in P : u = at[t] \/ (u # c /\ pa[u] \in P)
    <3> TAKE u \in P
    <3> SUFFICES ASSUME u # at[t] PROVE u # c /\ pa[u] \in P OBVIOUS
    <3>1. parents[u] \in P BY <2>2
    <3>2. parents[u] # Unread BY <3>1, Constants
    <3> QED BY <3>1, <3>2, <1>4, <1>5
  <2>4. CASE t \notin waiting
    <3>1. at'[t] = at[t] BY <1>3, <2>4
    <3> QED BY <2>2, <2>3, <3>1 DEF ClearTo
  <2>5. CASE t \in waiting
    <3>1. again /\ at'[t] = e /\ at[t] = c BY <1>3, <1>8, <2>5
    <3>2. PICK Q \in SUBSET (Threads \ sinks) : c \in Q /\ \A u \in Q : u = e \/ pa[u] \in Q
      <4>1. ClearTo(c, sinks, pa, e)
        BY <3>1, <1>2, <1>4, <1>5, ClearWayTo DEF RoutingInv, WaysInv
      <4> QED BY <4>1 DEF ClearTo
    <3>3. \A u \in P \cup Q : u = e \/ pa[u] \in P \cup Q BY <2>3, <3>1, <3>2
    <3>4. P \cup Q \in SUBSET (Threads \ sinks) /\ t \in P \cup Q BY <2>2
    <3> QED BY <3>1, <3>3, <3>4 DEF ClearTo
  <2> QED BY <2>4, <2>5
<1>9. ClearWays' BY <1>3, <1>8 DEF ClearWays, ClearTo
<1> QED BY <1>6, <1>7, <1>9 DEF WaysInv

LEMMA WaysInit == Init => WaysInv
BY DEF Init, WaysInv, RoutesLead, Asked, ClearWays

LEMMA WaysStep == RoutingInv /\ WaysInv /\ [Next]_vars => WaysInv'
<1> SUFFICES ASSUME RoutingInv, WaysInv, [Next]_vars PROVE WaysInv' OBVIOUS
<1>1. TypeOK /\ Waits /\ RoutesLead /\ Asked /\ ClearWays BY DEF RoutingInv, WaysInv
<1>2. ASSUME NEW t \in Threads, NEW k \in {"note", "request"}, Arrives(t, k) PROVE WaysInv'
  <2>1. PICK e : e = WayUp(t, sinks, routes, parents) OBVIOUS
  <2>2. UNCHANGED <<link, sinks, routes>> BY <1>2 DEF Arrives, link_
  <2>3. RoutesLead' BY <1>1, <2>2 DEF RoutesLead
  <2>4. CASE UNCHANGED <<parents, reading, at>>
    <3>1. Asked' BY <1>1, <2>2, <2>4 DEF Asked
    <3>2. ClearWays' BY <1>1, <2>2, <2>4 DEF ClearWays, ClearTo
    <3> QED BY <2>3, <3>1, <3>2 DEF WaysInv
  <2>5. CASE /\ at[t] = Nobody /\ e \notin sinks /\ MustRead(e, routes, parents) /\ link = "up"
             /\ at' = [at EXCEPT ![t] = e] /\ reading' = reading \cup {e} /\ UNCHANGED parents
    <3>1. e \in Threads /\ parents[e] = Unread
      <4>1. e \in Threads /\ Hop(e, routes, parents) = Unread BY <2>5 DEF MustRead
      <4>2. routes[e] \in Threads \cup {Nobody} BY <4>1, <1>1 DEF TypeOK
      <4> QED BY <4>1, <4>2, Constants DEF Hop
    <3>2. Asked' BY <1>1, <2>2, <2>5, <3>1 DEF Asked
    <3>3. ClearTo(t, sinks, parents, e)
      <4>1. parents \in [Threads -> Threads \cup {Nobody, Unread}] BY <1>1 DEF TypeOK
      <4>2. e \notin sinks /\ MustRead(e, routes, parents) BY <2>5
      <4> QED BY <1>1, <2>1, <4>1, <4>2, ClearWayTo
    <3>4. at'[t] = e /\ \A u \in Threads : u # t => at'[u] = at[u] BY <2>5, <1>1 DEF TypeOK
    <3>5. ClearWays' BY <1>1, <2>2, <2>5, <3>3, <3>4 DEF ClearWays, ClearTo
    <3> QED BY <2>3, <3>2, <3>5 DEF WaysInv
  <2>6. CASE /\ at[t] = Nobody /\ e \notin sinks /\ MustRead(e, routes, parents) /\ link # "up"
             /\ parents' = [parents EXCEPT ![e] = Nobody] /\ UNCHANGED <<reading, at>>
    <3>1. reading = {} BY <1>1, <2>6 DEF TypeOK, Asked
    <3>2. \A u \in Threads : at[u] = Nobody BY <1>1, <2>6 DEF Waits
    <3>3. Asked' /\ ClearWays' BY <3>1, <3>2, <2>6 DEF Asked, ClearWays
    <3> QED BY <2>3, <3>3 DEF WaysInv
  <2>7. \/ UNCHANGED <<parents, reading, at>>
        \/ /\ at[t] = Nobody /\ e \notin sinks /\ MustRead(e, routes, parents) /\ link = "up"
           /\ at' = [at EXCEPT ![t] = e] /\ reading' = reading \cup {e} /\ UNCHANGED parents
        \/ /\ at[t] = Nobody /\ e \notin sinks /\ MustRead(e, routes, parents) /\ link # "up"
           /\ parents' = [parents EXCEPT ![e] = Nobody] /\ UNCHANGED <<reading, at>>
    BY <1>2, <2>1 DEF Arrives, waits
  <2> QED BY <2>4, <2>5, <2>6, <2>7
<1>3. ASSUME NEW c \in Threads, ReadAnswered(c) PROVE WaysInv'
  <2>1. Parent[c] \in Threads \cup {Nobody} BY Constants
  <2> QED BY <1>3, <2>1, ContinueWays DEF ReadAnswered
<1>4. ASSUME NEW c \in Threads, ReadFails(c) PROVE WaysInv'
  BY <1>4, ContinueWays DEF ReadFails
<1>5. ASSUME NEW t \in Threads, NEW s \in Sessions, Route(t, s) PROVE WaysInv'
  <2>1. PICK rt : rt = [routes EXCEPT ![t] = s] OBVIOUS
  <2>2. routes' = rt /\ FlushKnown(sinks, rt) /\ sinks' = sinks /\ UNCHANGED <<link, parents, reading>>
    BY <1>5, <2>1 DEF Route, link_
  <2>3. s \in sinks /\ sinks \in SUBSET Threads BY <1>5, <1>1, Constants DEF Route, TypeOK
  <2>4. /\ rt \in [Threads -> Threads \cup {Nobody}]
        /\ \A v \in Threads : rt[v] = Nobody \/ rt[v] \in sinks
    BY <2>1, <2>3, <1>1 DEF TypeOK, RoutesLead
  <2>5. ClearWays' BY <2>2, <2>3, <2>4, FlushWays
  <2>6. RoutesLead' BY <2>2, <2>4 DEF RoutesLead
  <2>7. Asked' BY <1>1, <2>2 DEF Asked
  <2> QED BY <2>5, <2>6, <2>7 DEF WaysInv
<1>6. ASSUME NEW s \in Sessions, Attach(s) PROVE WaysInv'
  <2>1. PICK sk : sk = sinks \cup {s} OBVIOUS
  <2>2. sinks' = sk /\ FlushKnown(sk, routes) /\ UNCHANGED <<link, routes, parents, reading>>
    BY <1>6, <2>1 DEF Attach, link_
  <2>3. /\ sk \in SUBSET Threads /\ routes \in [Threads -> Threads \cup {Nobody}]
        /\ \A v \in Threads : routes[v] = Nobody \/ routes[v] \in sk
    BY <2>1, <1>1, Constants DEF TypeOK, RoutesLead
  <2>4. ClearWays' BY <2>2, <2>3, FlushWays
  <2>5. RoutesLead' BY <2>2, <2>3 DEF RoutesLead
  <2>6. Asked' BY <1>1, <2>2 DEF Asked
  <2> QED BY <2>4, <2>5, <2>6 DEF WaysInv
<1>7. ASSUME NEW s \in Sessions, Detach(s) \/ Unroute(s) PROVE WaysInv'
  <2>1. /\ sinks' \subseteq sinks /\ \A v \in sinks : v \in sinks' \/ v = s
        /\ routes' = [t \in Threads |-> IF routes[t] = s THEN Nobody ELSE routes[t]]
        /\ UNCHANGED <<link, parents, reading, at>>
    BY <1>7 DEF Detach, Unroute, link_, waits
  <2>2. RoutesLead' BY <2>1, <1>1 DEF RoutesLead
  <2>3. Asked' BY <1>1, <2>1 DEF Asked
  <2>4. ClearWays'
    <3> SUFFICES ASSUME NEW t \in Threads, at'[t] # Nobody
                 PROVE  ClearTo(t, sinks', parents', at'[t])
      BY DEF ClearWays, ClearTo
    <3>1. PICK P \in SUBSET (Threads \ sinks) : t \in P /\ \A u \in P : u = at[t] \/ parents[u] \in P
      BY <1>1, <2>1 DEF ClearWays, ClearTo
    <3>2. P \in SUBSET (Threads \ sinks') BY <2>1
    <3> QED BY <3>1, <3>2, <2>1 DEF ClearTo
  <2> QED BY <2>2, <2>3, <2>4 DEF WaysInv
<1>8. ASSUME Exit \/ Reconnect PROVE WaysInv'
  <2>1. /\ reading' = {} /\ at' = [t \in Threads |-> Nobody] /\ UNCHANGED <<sinks, routes>>
    BY <1>8 DEF Exit, Reconnect, tree
  <2> QED BY <1>1, <2>1 DEF WaysInv, RoutesLead, Asked, ClearWays
<1>9. ASSUME UNCHANGED <<link, sinks, routes, parents, reading, at>> PROVE WaysInv'
  BY <1>1, <1>9 DEF WaysInv, RoutesLead, Asked, ClearWays, ClearTo
<1>10. ASSUME NEW n \in Numbers, Settles(n) PROVE WaysInv'
  BY <1>9, <1>10 DEF Settles, link_, tree, waits
<1>11. CASE UNCHANGED vars BY <1>9, <1>11 DEF vars, link_, tree, waits
<1> QED BY <1>2, <1>3, <1>4, <1>5, <1>6, <1>7, <1>8, <1>10, <1>11 DEF Next

(* What a refusal says of the threads above that of the request.              *)
Orphaned(n) ==
    LET line == Lineage(arrived'[n].thread)
    IN  (\A u \in line \cap Threads : parents'[u] \in {Unread, Parent[u]}) => line \cap sinks = {}

(* A set of threads without a sink that the parents that were read lead out   *)
(* of only to nobody holds all of a lineage these parents are right about.    *)
LEMMA OrphanedBy ==
  ASSUME TypeOK, NEW t \in Threads, NEW W \in SUBSET (Threads \ sinks), t \in W, NEW pa,
         \A u \in W : pa[u] \in W \cup {Nobody},
         \A u \in Lineage(t) \cap Threads : pa[u] \in {Unread, Parent[u]}
  PROVE  Lineage(t) \cap sinks = {}
<1>1. \A u \in W \cap Lineage(t) : Parent[u] \in W \cup {Nobody}
  <2> TAKE u \in W \cap Lineage(t)
  <2>1. pa[u] # Unread BY Constants
  <2> QED BY <2>1
<1>2. Lineage(t) \subseteq W \cup {Nobody} BY <1>1, LineageWithin
<1>3. Nobody \notin sinks BY Constants DEF TypeOK
<1> QED BY <1>2, <1>3

LEMMA RefusalStep ==
  ASSUME RoutingInv, WaysInv, [Next]_vars, link = "up", NEW n \in refused' \ refused
  PROVE  Orphaned(n)
<1>1. TypeOK /\ Waits /\ Known /\ RoutesLead /\ Asked /\ ClearWays BY DEF RoutingInv, WaysInv
<1>2. /\ sinks \in SUBSET Threads /\ routes \in [Threads -> Threads \cup {Nobody}]
      /\ \A v \in Threads : routes[v] = Nobody \/ routes[v] \in sinks
      /\ parents \in [Threads -> Threads \cup {Nobody, Unread}]
  BY <1>1, Constants DEF TypeOK, RoutesLead
<1>3. ASSUME NEW t \in Threads, NEW k \in {"note", "request"}, Arrives(t, k) PROVE Orphaned(n)
  <2>1. PICK e : e = WayUp(t, sinks, routes, parents) OBVIOUS
  <2>2. PICK m : m = Len(arrived) + 1 OBVIOUS
  <2>3. /\ arrived' = Append(arrived, [thread |-> t, kind |-> k])
        /\ n = m /\ e \notin sinks /\ ~MustRead(e, routes, parents) /\ parents' = parents
    BY <1>3, <2>1, <2>2 DEF Arrives
  <2>4. arrived'[n].thread = t
    <3>1. arrived \in Seq(Message) BY <1>1 DEF TypeOK
    <3> QED BY <2>2, <2>3, <3>1 DEF ClearTo
  <2>5. PICK W \in SUBSET (Threads \ sinks) : t \in W /\ \A u \in W : Leads(u, W, e, routes, parents)
    <3>1. e \notin sinks BY <2>3
    <3>2. Avoids(t, sinks, routes, parents, e) BY <1>2, <2>1, <3>1, WayUpFacts
    <3> QED BY <3>2 DEF Avoids
  <2>6. \A u \in W : parents[u] \in W \cup {Nobody}
    <3> TAKE u \in W
    <3>1. /\ routes[u] = Nobody
          /\ \/ parents[u] \in W
             \/ parents[u] = Nobody /\ e = Nobody
             \/ parents[u] = Unread /\ u = e
      BY <1>2, <2>5, LedByParents
    <3>2. ~(parents[u] = Unread /\ u = e) BY <2>3, <3>1 DEF MustRead, Hop
    <3> QED BY <3>1, <3>2
  <2> QED BY <1>1, <2>3, <2>4, <2>5, <2>6, OrphanedBy DEF Orphaned
<1>4. ASSUME NEW c \in reading, NEW p \in Threads \cup {Nobody},
             Continue(c, [parents EXCEPT ![c] = p]), UNCHANGED <<link_, sinks, routes, arrived>>
      PROVE  Orphaned(n)
  <2>1. PICK pa : pa = [parents EXCEPT ![c] = p] OBVIOUS
  <2>2. PICK e : e = WayUp(c, sinks, routes, pa) OBVIOUS
  <2>3. c \in Threads /\ parents[c] = Unread BY <1>1 DEF TypeOK, Asked
  <2>4. /\ pa \in [Threads -> Threads \cup {Nobody, Unread}]
        /\ pa[c] = p /\ \A u \in Threads : u # c => pa[u] = parents[u]
    BY <2>1, <2>3, <1>2
  <2>5. /\ parents' = pa
        /\ refused' = refused \cup
              OpenIn(IF e \in sinks \/ (e \notin sinks /\ MustRead(e, routes, pa)) THEN {}
                     ELSE {t \in Threads : at[t] = c})
    BY <1>4, <2>1, <2>2 DEF Continue
  <2>6. PICK t \in Threads : /\ t = arrived[n].thread /\ at[t] = c
                            /\ e \notin sinks /\ ~MustRead(e, routes, pa)
    BY <2>5 DEF OpenIn
  <2>7. PICK Q \in SUBSET (Threads \ sinks) : c \in Q /\ \A u \in Q : Leads(u, Q, e, routes, pa)
    <3>1. e \notin sinks BY <2>6
    <3>2. Avoids(c, sinks, routes, pa, e) BY <1>2, <2>2, <2>3, <2>4, <3>1, WayUpFacts
    <3> QED BY <3>2 DEF Avoids
  <2>8. \A u \in Q : pa[u] \in Q \cup {Nobody}
    <3> TAKE u \in Q
    <3>1. /\ routes[u] = Nobody
          /\ \/ pa[u] \in Q
             \/ pa[u] = Nobody /\ e = Nobody
             \/ pa[u] = Unread /\ u = e
      BY <1>2, <2>7, LedByParents
    <3>2. ~(pa[u] = Unread /\ u = e) BY <2>6, <3>1 DEF MustRead, Hop
    <3> QED BY <3>1, <3>2
  <2>9. PICK P \in SUBSET (Threads \ sinks) : t \in P /\ \A u \in P : u = c \/ parents[u] \in P
    <3>1. at[t] # Nobody BY <2>3, <2>6, Constants
    <3> QED BY <1>1, <2>6, <3>1 DEF ClearWays, ClearTo
  <2>10. \A u \in P \cup Q : pa[u] \in P \cup Q \cup {Nobody}
    <3> TAKE u \in P \cup Q
    <3>1. CASE u \in Q BY <2>8, <3>1
    <3>2. CASE u \in P /\ u # c BY <2>4, <2>9, <3>2
    <3> QED BY <3>1, <3>2, <2>7
  <2>11. P \cup Q \in SUBSET (Threads \ sinks) /\ t \in P \cup Q BY <2>9
  <2> QED BY <1>1, <1>4, <2>5, <2>6, <2>10, <2>11, OrphanedBy DEF Orphaned
<1>5. ASSUME NEW c \in Threads, ReadAnswered(c) PROVE Orphaned(n)
  <2>1. Parent[c] \in Threads \cup {Nobody} BY Constants
  <2> QED BY <1>4, <1>5, <2>1 DEF ReadAnswered
<1>6. ASSUME NEW c \in Threads, ReadFails(c) PROVE Orphaned(n)
  BY <1>4, <1>6 DEF ReadFails
<1>7. refused' = refused => FALSE OBVIOUS
<1>8. ASSUME NEW t \in Threads, NEW s \in Sessions, Route(t, s) PROVE FALSE
  BY <1>7, <1>8 DEF Route
<1>9. ASSUME NEW m \in Numbers, Settles(m) PROVE FALSE
  BY <1>7, <1>9 DEF Settles
<1>10. ASSUME NEW s \in Sessions, Attach(s) \/ Detach(s) \/ Unroute(s) PROVE FALSE
  BY <1>7, <1>10 DEF Attach, Detach, Unroute, traffic
<1>11. ASSUME Exit \/ Reconnect \/ UNCHANGED vars PROVE FALSE
  BY <1>7, <1>11 DEF Exit, Reconnect, vars, traffic
<1> QED BY <1>3, <1>5, <1>6, <1>8, <1>9, <1>10, <1>11 DEF Next

(* Routes lead to sinks; what is looked up was not read before; no sink lies  *)
(* between a thread whose messages wait and the thread that is looked up for  *)
(* it, whatever attach, detach, route and dispose did meanwhile.              *)
THEOREM WaysInvariant == Spec => []WaysInv
BY RoutingInvariant, WaysInit, WaysStep, PTL DEF Spec

(* "True orphans receive an error": routeMessage and resolveSink refuse a     *)
(* request of a living child only when neither its thread nor one above it    *)
(* has a sink, as far as the lookups were right about these threads.          *)
THEOREM OnlyOrphansRefused == Spec => RefusedAreOrphans
<1>1. ASSUME RoutingInv, WaysInv, [Next]_vars
      PROVE  [\A n \in refused' \ refused :
                 LET line == Lineage(arrived'[n].thread)
                 IN  link = "up" /\ (\A u \in line \cap Threads : parents'[u] \in {Unread, Parent[u]})
                     => line \cap sinks = {}]_vars
  BY <1>1, RefusalStep DEF Orphaned
<1> QED BY <1>1, RoutingInvariant, WaysInvariant, PTL DEF Spec, RefusedAreOrphans
=============================================================================

--------------------------- MODULE CodexInput_proofs ---------------------------
(* Proofs about CodexInput for every set of inputs and every number of turns, *)
(* of time-outs and lost connections, of cancels and of lines of a chunk, by  *)
(* the invariants of CodexInputInv: what was reported discarded or dropped is *)
(* in no place from which it could be sent, and neither is what a confirmed   *)
(* cancel covered (InputInv); the session and the server agree on the order   *)
(* of the turns (TurnInv); and an input has one chance to become part of a    *)
(* turn at a time, so that none runs twice (RunInv). Where no turn/start was  *)
(* given up without knowing, one turn runs at a time (Solo), and an input     *)
(* refused or dropped was not part of any (Fates). No input is forgotten      *)
(* (Placed), and a session with nothing left to do has nothing queued,        *)
(* steered or waiting (Rest).                                                 *)
EXTENDS CodexInputInv, WellFoundedInduction, TLAPS

LEMMA EmptyFacts == ASSUME NEW H PROVE ~Has(<<>>, H) /\ Once(<<>>, H)
BY DEF Has, Once

LEMMA AppendFacts ==
  ASSUME NEW D, NEW s \in Seq(D), NEW e \in D, NEW H
  PROVE  /\ Append(s, e) \in Seq(D)
         /\ Has(Append(s, e), H) <=> Has(s, H) \/ e \in H
         /\ Once(s, H) /\ (e \in H => ~Has(s, H)) => Once(Append(s, e), H)
<1>1. PICK t : t = Append(s, e) BY Zenon
<1>5. e \in H => Has(t, H)
  <2> QED BY <1>1 DEF Has
<1>6. ASSUME Once(s, H), e \in H => ~Has(s, H) PROVE Once(t, H) BY <1>1, <1>6 DEF Has, Once
<1> QED BY <1>1, <1>5, <1>6 DEF Has

LEMMA TailFacts ==
  ASSUME NEW D, NEW s \in Seq(D), s # <<>>, NEW H
  PROVE  /\ Tail(s) \in Seq(D) /\ Head(s) \in D
         /\ Has(s, H) <=> Has(Tail(s), H) \/ Head(s) \in H
         /\ Once(s, H) => Once(Tail(s), H)
         /\ Once(s, H) /\ Head(s) \in H => ~Has(Tail(s), H)
<1>1. PICK t : t = Tail(s) BY Zenon
<1>4. \A k \in DOMAIN s : k = 1 \/ (k - 1 \in DOMAIN t /\ t[k - 1] = s[k])
  <2> TAKE k \in DOMAIN s
  <2>1. CASE k # 1
    <3> QED BY <1>1
  <2> QED BY <2>1
<1>5. Has(s, H) => Has(t, H) \/ Head(s) \in H BY <1>4 DEF Has
<1>8. ASSUME Once(s, H) PROVE Once(t, H)
  <2> SUFFICES ASSUME NEW j \in DOMAIN t, NEW k \in DOMAIN t, t[j] \in H, t[k] \in H PROVE j = k
    BY DEF Once
  <2> QED BY <1>1, <1>8 DEF Once
<1>9. ASSUME Once(s, H), Head(s) \in H, Has(t, H) PROVE FALSE
  <2>1. PICK k \in DOMAIN t : t[k] \in H BY <1>9 DEF Has
  <2> QED BY <2>1, <1>1, <1>9 DEF Once
<1> QED BY <1>1, <1>5, <1>8, <1>9 DEF Has

LEMMA JoinFacts ==
  ASSUME NEW D, NEW s \in Seq(D), NEW t \in Seq(D), NEW H
  PROVE  /\ s \o t \in Seq(D)
         /\ Has(s \o t, H) <=> Has(s, H) \/ Has(t, H)
         /\ Once(s, H) /\ Once(t, H) /\ ~(Has(s, H) /\ Has(t, H)) => Once(s \o t, H)
<1>1. PICK r : r = s \o t BY Zenon
<1>2. /\ r \in Seq(D) /\ Len(s) \in Nat /\ Len(t) \in Nat
      /\ DOMAIN r = 1..(Len(s) + Len(t)) /\ DOMAIN s = 1..Len(s) /\ DOMAIN t = 1..Len(t)
      /\ \A k \in 1..(Len(s) + Len(t)) : r[k] = IF k <= Len(s) THEN s[k] ELSE t[k - Len(s)]
  BY <1>1
<1>3. \A k \in DOMAIN r : (k \in DOMAIN s /\ r[k] = s[k]) \/ (k - Len(s) \in DOMAIN t /\ r[k] = t[k - Len(s)])
  BY <1>2
<1>5. \A k \in DOMAIN t : k + Len(s) \in DOMAIN r /\ r[k + Len(s)] = t[k]
  <2> TAKE k \in DOMAIN t
  <2> QED BY <1>2
<1>8. Has(t, H) => Has(r, H) BY <1>5 DEF Has
<1>9. ASSUME Once(s, H), Once(t, H), ~(Has(s, H) /\ Has(t, H)) PROVE Once(r, H)
  <2> SUFFICES ASSUME NEW j \in DOMAIN r, NEW k \in DOMAIN r, r[j] \in H, r[k] \in H PROVE j = k
    BY DEF Once
  <2>1. CASE j \in DOMAIN s /\ r[j] = s[j] /\ k \in DOMAIN s /\ r[k] = s[k]
    BY <2>1, <1>9 DEF Once
  <2>2. CASE j - Len(s) \in DOMAIN t /\ r[j] = t[j - Len(s)] /\ k - Len(s) \in DOMAIN t /\ r[k] = t[k - Len(s)]
    <3> QED BY <2>2, <1>9, <1>2 DEF Once
  <2>3. CASE j \in DOMAIN s /\ r[j] = s[j] /\ k - Len(s) \in DOMAIN t /\ r[k] = t[k - Len(s)]
    BY <2>3, <1>9 DEF Has
  <2>4. CASE j - Len(s) \in DOMAIN t /\ r[j] = t[j - Len(s)] /\ k \in DOMAIN s /\ r[k] = s[k]
    BY <2>4, <1>9 DEF Has
  <2> QED BY <1>3, <2>1, <2>2, <2>3, <2>4
<1> QED BY <1>1, <1>3, <1>2, <1>8, <1>9 DEF Has

(* A sequence built from another, member by member.                           *)
LEMMA MappedFacts ==
  ASSUME NEW C, NEW s \in Seq(C), NEW D, NEW t, DOMAIN t = DOMAIN s, t = [k \in DOMAIN s |-> t[k]],
         \A k \in DOMAIN s : t[k] \in D, NEW G, NEW H,
         \A k \in DOMAIN s : t[k] \in H <=> s[k] \in G
  PROVE  t \in Seq(D) /\ (Has(t, H) <=> Has(s, G)) /\ (Once(s, G) => Once(t, H))
<1> QED BY DEF Has, Once

(* One member taken out of a sequence.                                        *)
LEMMA CutFacts ==
  ASSUME NEW D, NEW s \in Seq(D), NEW k \in DOMAIN s, NEW H
  PROVE  LET r == SubSeq(s, 1, k - 1) \o SubSeq(s, k + 1, Len(s)) IN
         /\ r \in Seq(D)
         /\ Has(r, H) => Has(s, H)
         /\ Once(s, H) => Once(r, H)
         /\ Once(s, H) /\ s[k] \in H => ~Has(r, H)
<1>1. PICK r : r = SubSeq(s, 1, k - 1) \o SubSeq(s, k + 1, Len(s)) BY Zenon
<1>3. PICK a : a = SubSeq(s, 1, k - 1) BY Zenon
<1>4. PICK b : b = SubSeq(s, k + 1, Len(s)) BY Zenon
<1>5. a \in Seq(D) /\ Len(a) = k - 1 /\ \A j \in 1..(k - 1) : a[j] = s[j] BY <1>3
<1>6. b \in Seq(D) /\ Len(b) = Len(s) - k /\ \A j \in 1..(Len(s) - k) : b[j] = s[j + k] BY <1>4
<1>7. r = a \o b BY <1>1, <1>3, <1>4
<1>8. /\ r \in Seq(D) /\ DOMAIN r = 1..(Len(s) - 1)
      /\ \A j \in 1..(Len(s) - 1) : r[j] = IF j <= k - 1 THEN a[j] ELSE b[j - (k - 1)]
  <2>1. k - 1 \in Nat /\ Len(s) - k \in Nat /\ (k - 1) + (Len(s) - k) = Len(s) - 1 OBVIOUS
  <2>1a. a \in Seq(D) /\ b \in Seq(D) /\ Len(a) \in Nat /\ Len(b) \in Nat BY <1>5, <1>6
  <2>2. r \in Seq(D) /\ Len(r) = Len(a) + Len(b) BY <2>1a, <1>7
  <2>5. \A j \in 1..(Len(a) + Len(b)) : r[j] = IF j <= Len(a) THEN a[j] ELSE b[j - Len(a)]
    BY <1>7
  <2> QED BY <2>1, <2>2, <1>5, <1>6, <2>5
<1>9. \A j \in DOMAIN r : j < k => j \in DOMAIN s /\ r[j] = s[j] BY <1>5, <1>8
<1>10. \A j \in DOMAIN r : j >= k => j + 1 \in DOMAIN s /\ r[j] = s[j + 1]
  <2> SUFFICES ASSUME NEW j \in DOMAIN r, j >= k PROVE j + 1 \in DOMAIN s /\ r[j] = s[j + 1] OBVIOUS
  <2>1. j \in 1..(Len(s) - 1) /\ ~(j <= k - 1) /\ j - (k - 1) \in 1..(Len(s) - k) /\ (j - (k - 1)) + k = j + 1
    BY <1>8
  <2> QED BY <2>1, <1>6, <1>8
<1>11. Has(r, H) => Has(s, H)
  <2> SUFFICES ASSUME NEW j \in DOMAIN r, r[j] \in H PROVE Has(s, H) BY DEF Has
  <2> QED BY <1>9, <1>10 DEF Has
<1>12. ASSUME Once(s, H) PROVE Once(r, H)
  <2> SUFFICES ASSUME NEW i \in DOMAIN r, NEW j \in DOMAIN r, r[i] \in H, r[j] \in H PROVE i = j
    BY DEF Once
  <2>2. CASE i < k /\ j < k BY <2>2, <1>9, <1>12 DEF Once
  <2>3. CASE i < k /\ j >= k
    <3>1. i = j + 1 BY <2>3, <1>9, <1>10, <1>12 DEF Once
    <3> QED BY <3>1, <2>3
  <2>4. CASE i >= k /\ j < k
    <3>1. i + 1 = j BY <2>4, <1>9, <1>10, <1>12 DEF Once
    <3> QED BY <3>1, <2>4
  <2>5. CASE i >= k /\ j >= k
    <3> QED BY <2>5, <1>10, <1>12 DEF Once
  <2> QED BY <2>2, <2>3, <2>4, <2>5
<1>13. ASSUME Once(s, H), s[k] \in H, Has(r, H) PROVE FALSE
  <2>1. PICK j \in DOMAIN r : r[j] \in H BY <1>13 DEF Has
  <2>3. CASE j < k
    <3> QED BY <2>1, <2>3, <1>9, <1>13 DEF Once
  <2>4. CASE j >= k
    <3>1. j + 1 = k BY <2>1, <2>4, <1>10, <1>13 DEF Once
    <3> QED BY <3>1, <2>4
  <2> QED BY <2>3, <2>4
<1> QED BY <1>1, <1>11, <1>12, <1>13

(* A non-empty set of numbers has a least one.                                *)
LEMMA LeastNumber ==
  ASSUME NEW S \in SUBSET Nat, S # {} PROVE \E n \in S : \A m \in S : n <= m
<1>2. PICK n \in S : \A m \in S : ~(<<m, n>> \in {ss \in Nat \X Nat : ss[1] < ss[2]})
  BY NatLessThanWellFounded, WFMin DEF OpToRel
<1>4. \A m \in S : ~(m < n) BY Zenon, <1>2
<1> QED BY <1>4

(* Induction, as a fact about a set.                                          *)
LEMMA Induction ==
  ASSUME NEW S, 0 \in S, \A n \in Nat : n \in S => n + 1 \in S PROVE Nat \subseteq S
<1> SUFFICES ASSUME Nat \ S # {} PROVE FALSE OBVIOUS
<1>1. PICK n \in Nat \ S : \A m \in Nat \ S : n <= m BY Zenon, LeastNumber
<1> QED BY <1>1

(* Its recursion has a solution ...                                           *)
LEMMA KeptExists ==
  ASSUME NEW D, NEW q \in Seq(D), NEW S
  PROVE  \E f : f = [k \in 0..Len(q) |->
                        IF k = 0 THEN <<>>
                        ELSE IF q[k] \in S THEN Append(f[k - 1], q[k]) ELSE f[k - 1]]
<1> DEFINE Solves(f, n) == f = [k \in 0..n |->
                        IF k = 0 THEN <<>>
                        ELSE IF q[k] \in S THEN Append(f[k - 1], q[k]) ELSE f[k - 1]]
           T == {n \in Nat : \E f : Solves(f, n)}
<1>1. 0 \in T
  <2>1. Solves([k \in 0..0 |-> <<>>], 0) OBVIOUS
  <2> QED BY Zenon, <2>1
<1>2. ASSUME NEW n \in Nat, n \in T PROVE n + 1 \in T
  <2>1. PICK f : Solves(f, n) BY <1>2
  <2> DEFINE g == [k \in 0..(n + 1) |-> IF k <= n THEN f[k]
                     ELSE IF q[k] \in S THEN Append(f[k - 1], q[k]) ELSE f[k - 1]]
  <2>2. \A k \in 0..n : f[k] = IF k = 0 THEN <<>>
                        ELSE IF q[k] \in S THEN Append(f[k - 1], q[k]) ELSE f[k - 1]
    BY Zenon, <2>1
  <2>2a. \A k \in 0..n : g[k] = f[k] OBVIOUS
  <2>2b. g[n + 1] = IF q[n + 1] \in S THEN Append(g[n], q[n + 1]) ELSE g[n] OBVIOUS
  <2>2c. \A k \in 0..(n + 1) : g[k] = IF k = 0 THEN <<>>
                        ELSE IF q[k] \in S THEN Append(g[k - 1], q[k]) ELSE g[k - 1]
    <3> HIDE DEF g
    <3> TAKE k \in 0..(n + 1)
    <3>1. CASE k = n + 1 BY <3>1, <2>2b
    <3>2. CASE k \in 1..n BY <3>2, <2>2, <2>2a
    <3>3. CASE k = 0 BY <3>3, <2>2, <2>2a
    <3> QED BY <3>1, <3>2, <3>3
  <2>3. Solves(g, n + 1)
    <3> HIDE DEF g
    <3> QED BY <2>2c DEF g
  <2>4. \E h : Solves(h, n + 1)
    <3> HIDE DEF Solves, g
    <3> QED BY <2>3
  <2> QED BY <2>4
<1>3. Nat \subseteq T
  <2> HIDE DEF T
  <2> QED BY <1>1, <1>2, Induction
<1> QED BY <1>3

LEMMA KeptPrefixes ==
  ASSUME NEW D, NEW q \in Seq(D), NEW S
  PROVE  \E f : KeptOf(q, S, f) /\ Kept(q, S) = f[Len(q)]
<1> DEFINE F == CHOOSE f : f = [k \in 0..Len(q) |->
                        IF k = 0 THEN <<>>
                        ELSE IF q[k] \in S THEN Append(f[k - 1], q[k]) ELSE f[k - 1]]
<1>0. \E f : f = [k \in 0..Len(q) |->
                        IF k = 0 THEN <<>>
                        ELSE IF q[k] \in S THEN Append(f[k - 1], q[k]) ELSE f[k - 1]]
  BY Zenon, KeptExists
<1>1. F = [k \in 0..Len(q) |->
                        IF k = 0 THEN <<>>
                        ELSE IF q[k] \in S THEN Append(F[k - 1], q[k]) ELSE F[k - 1]]
  BY Zenon, <1>0
<1>3. KeptOf(q, S, F)
  <2> HIDE DEF F
  <2> QED BY Zenon, <1>1 DEF KeptOf
<1> QED BY <1>3 DEF Kept

LEMMA KeptFacts ==
  ASSUME NEW D, NEW q \in Seq(D), NEW S, NEW H
  PROVE  /\ Kept(q, S) \in Seq(D)
         /\ Has(Kept(q, S), H) => Has(q, H \cap S)
         /\ Once(q, H) => Once(Kept(q, S), H)
<1>1. PICK f : KeptOf(q, S, f) /\ Kept(q, S) = f[Len(q)] BY KeptPrefixes
<1> DEFINE T == {k \in Nat : k <= Len(q) => KeptUpTo(D, q, S, H, f[k], k)}
<1>2. 0 \in T
  <2>2. KeptUpTo(D, q, S, H, <<>>, 0) BY EmptyFacts DEF KeptUpTo
  <2> QED BY <1>1, <2>2 DEF KeptOf
<1>3. ASSUME NEW k \in Nat, k \in T PROVE k + 1 \in T
  <2>1. PICK m : m = k + 1 OBVIOUS
  <2> SUFFICES ASSUME m <= Len(q) PROVE KeptUpTo(D, q, S, H, f[m], m) BY <2>1
  <2>2. KeptUpTo(D, q, S, H, f[k], k) BY <1>3, <2>1
  <2>3. m \in 1..Len(q) /\ m - 1 = k /\ m \in DOMAIN q BY <2>1
  <2>4. f[m] = IF q[m] \in S THEN Append(f[k], q[m]) ELSE f[k]
    BY <1>1, <2>3 DEF KeptOf
  <2>5. CASE q[m] \notin S
    <3> QED BY <2>2, <2>3, <2>4, <2>5 DEF KeptUpTo
  <2>6. CASE q[m] \in S
    <3>1. PICK g : g = f[k] OBVIOUS
    <3>5. Has(f[m], H) => \E a \in 1..m : q[a] \in H \cap S
      <4>1. CASE q[m] \in H
        <5> QED BY <2>3, <4>1, <2>6
      <4>2. CASE q[m] \notin H BY <4>2, <3>1, <2>2, <2>3, <2>4, <2>6, AppendFacts DEF KeptUpTo
      <4> QED BY <4>1, <4>2
    <3>6. ASSUME Once(q, H) PROVE Once(f[m], H)
      <4>2. ASSUME q[m] \in H, Has(g, H) PROVE FALSE
        <5>1. PICK a \in 1..k : q[a] \in H BY <3>1, <2>2, <4>2 DEF KeptUpTo
        <5> QED BY <5>1, <4>2, <3>6, <2>3 DEF Once
      <4> QED BY <3>1, <3>6, <2>2, <4>2, <2>3, <2>4, <2>6, AppendFacts DEF KeptUpTo
    <3> QED BY <3>1, <2>2, <2>3, <2>4, <2>6, <3>5, <3>6 DEF KeptUpTo
  <2> QED BY <2>5, <2>6
<1>4. KeptUpTo(D, q, S, H, f[Len(q)], Len(q))
  <2>1. Nat \subseteq T
    <3> HIDE DEF T
    <3> QED BY <1>2, <1>3, Induction
  <2> QED BY <2>1
<1>5. PICK g : g = Kept(q, S) /\ g = f[Len(q)] BY <1>1
<1>7. Has(g, H) => Has(q, H \cap S)
  <2> QED BY <1>4, <1>5 DEF KeptUpTo, Has
<1> QED BY <1>5, <1>4, <1>7 DEF KeptUpTo

-----------------------------------------------------------------------------

(* The members of what the session and the server pass to each other.         *)
LEMMA NewCalls ==
  /\ \A i \in Inputs, t \in Turn : [op |-> "start", i |-> i, t |-> t] \in Call
  /\ \A i \in Inputs, t \in Turn : [op |-> "next", i |-> i, t |-> t] \in Call
  /\ \A i \in Inputs, t \in Turn : [op |-> "steer", i |-> i, t |-> t] \in Call
  /\ \A i \in Who, t \in Turn : [op |-> "interrupt", i |-> i, t |-> t] \in Call
BY DEF Call

LEMMA NewContinuations ==
  /\ \A c \in Call, r \in Answers, t \in Turn : [k |-> "answer", c |-> c, r |-> r, t |-> t] \in Continuation
  /\ [k |-> "drain"] \in Continuation
  /\ \A i \in Inputs, t \in Turn : [k |-> "resume", op |-> "steer", i |-> i, t |-> t] \in Continuation
  /\ \A i \in Who, t \in Turn : [k |-> "resume", op |-> "interrupt", i |-> i, t |-> t] \in Continuation
BY DEF Continuation

LEMMA NewOutputs ==
  /\ \A c \in Call, r \in Answers, t \in Turn : Answer(c, r, t) \in Output
  /\ \A t \in Turn \ {0} : [m |-> "started", t |-> t] \in Output
  /\ \A t \in Turn, i \in Inputs \cup {Nothing} : [m |-> "shown", t |-> t, i |-> i] \in Output
  /\ \A t \in Turn, b \in BOOLEAN : [m |-> "completed", t |-> t, interrupted |-> b] \in Output
BY DEF Output, Answer

LEMMA ContinuationFacts ==
  ASSUME NEW x \in Continuation
  PROVE  /\ x.k = "answer" => x.c \in Call /\ x.r \in Answers /\ x.t \in Turn
         /\ x.k = "resume" => x.op \in {"steer", "interrupt"} /\ x.t \in Turn
         /\ x.k = "resume" /\ x.op = "steer" => x.i \in Inputs
         /\ x.k = "resume" /\ x.op = "interrupt" => x.i \in Who
         /\ x.k \in {"answer", "drain", "resume"}
BY DEF Continuation

LEMMA CallFacts ==
  ASSUME NEW c \in Call
  PROVE  /\ c.op \in {"start", "next", "steer", "interrupt"} /\ c.i \in Who /\ c.t \in Turn
         /\ c.op # "interrupt" => c.i \in Inputs
BY DEF Call, Who

LEMMA OutputFacts ==
  ASSUME NEW x \in Output
  PROVE  /\ x.m = "answer" => x.c \in Call /\ x.r \in Answers /\ x.t \in Turn
         /\ x.m = "started" => x.t \in Turn \ {0}
         /\ x.m = "shown" => x.i \in Inputs \cup {Nothing}
         /\ x.m = "completed" => x.t \in Turn /\ x.interrupted \in BOOLEAN
BY DEF Output

LEMMA ZeroIsTurn == 0 \in Turn BY InputAssumption DEF Turn

LEMMA SendsTypes ==
  ASSUME NEW c \in Call, wait \in Seq(Call), toSrv \in Seq(Call), Sends(c)
  PROVE  wait' \in Seq(Call) /\ toSrv' \in Seq(Call)
BY DEF Sends

LEMMA DrainTypes ==
  ASSUME NEW q \in Seq(Entry), NEW act, NEW busy \in BOOLEAN, NEW kept \in SUBSET Inputs,
         wait \in Seq(Call), toSrv \in Seq(Call), Drain(q, act, busy, kept)
  PROVE  /\ queue' \in Seq(Entry) /\ started' \subseteq Inputs /\ starting' \in BOOLEAN
         /\ wait' \in Seq(Call) /\ toSrv' \in Seq(Call)
<1>1. CASE ~offline' /\ ~closed' /\ act = 0 /\ ~busy /\ q # <<>>
  <2>1. Head(q) \in Entry /\ Tail(q) \in Seq(Entry) BY <1>1
  <2> QED BY <2>1, <1>1, NewCalls, ZeroIsTurn, SendsTypes DEF Drain, StartTurn, Entry
<1>2. CASE ~(~offline' /\ ~closed' /\ act = 0 /\ ~busy /\ q # <<>>)
  BY <1>2 DEF Drain, SendsNothing
<1> QED BY <1>1, <1>2

LEMMA InterruptTypes ==
  ASSUME NEW w \in Who, wait \in Seq(Call), toSrv \in Seq(Call), waiting \in Seq(Waiter), active \in Turn,
         Interrupt(w)
  PROVE  wait' \in Seq(Call) /\ toSrv' \in Seq(Call) /\ waiting' \in Seq(Waiter)
<1>1. CASE active # 0
  <2> QED BY <1>1, NewCalls, SendsTypes DEF Interrupt
<1>2. CASE active = 0
  <2>2. waiting' = Append(waiting, [op |-> "interrupt", i |-> w]) /\ wait' = wait /\ toSrv' = toSrv
    BY <1>2 DEF Interrupt, SendsNothing
  <2> QED BY <2>2 DEF Waiter
<1> QED BY <1>1, <1>2

LEMMA SayTypes ==
  ASSUME NEW is, NEW what \in {"claimed", "discarded", "dropped", "refused", "removed"},
         said \in [Inputs -> SUBSET {"claimed", "discarded", "dropped", "refused", "removed"}]
  PROVE  Say(is, what) \in [Inputs -> SUBSET {"claimed", "discarded", "dropped", "refused", "removed"}]
BY DEF Say

LEMMA ResolvedTypes ==
  ASSUME NEW t \in Turn, waiting \in Seq(Waiter)
  PROVE  Resolved(t) \in Seq(Continuation)
<1>2. \A x \in Waiter : [k |-> "resume", op |-> x.op, i |-> x.i, t |-> t] \in Continuation
  <2> TAKE x \in Waiter
  <2> QED BY NewContinuations DEF Waiter
<1> HIDE DEF Resolved
<1> QED BY <1>2 DEF Resolved

LEMMA RequeuedTypes ==
  ASSUME queue \in Seq(Entry), steered \in Seq(Inputs) PROVE Requeued \in Seq(Entry)
<1>1. PICK a : a = Kept(queue, {e \in Elems(queue) : e.urgent}) BY Zenon
<1>2. PICK b : b = [k \in DOMAIN steered |-> [id |-> steered[k], urgent |-> FALSE]] BY Zenon
<1>3. PICK c : c = Kept(queue, {e \in Elems(queue) : ~e.urgent}) BY Zenon
<1>4. a \in Seq(Entry) /\ c \in Seq(Entry) BY Zenon, <1>1, <1>3, KeptFacts
<1>5. b \in Seq(Entry)
  <2>2. \A k \in DOMAIN steered : [id |-> steered[k], urgent |-> FALSE] \in Entry BY DEF Entry
  <2> QED BY <1>2, <2>2
<1> QED BY <1>4, <1>5, <1>1, <1>2, <1>3 DEF Requeued

LEMMA WithoutTypes == ASSUME NEW D, NEW s \in Seq(D), NEW x PROVE Without(s, x) \in Seq(D)
BY Zenon, KeptFacts DEF Without

LEMMA TypedSubmit == ASSUME Typed, NEW i \in Inputs, Submit(i) PROVE Typed'
<1> USE DEF Typed
<1>3. /\ queue \in Seq(Entry) /\ started \subseteq Inputs /\ steered \in Seq(Inputs) /\ active \in Turn
      /\ wait \in Seq(Call) /\ toSrv \in Seq(Call) /\ waiting \in Seq(Waiter)
      /\ cause \in {"none", "user", "interrupt"} /\ starting \in BOOLEAN
  BY DEF TypeOK, Entry
<1>4. /\ queue' \in Seq(Entry) /\ started' \subseteq Inputs /\ steered' \in Seq(Inputs)
      /\ wait' \in Seq(Call) /\ toSrv' \in Seq(Call) /\ waiting' \in Seq(Waiter)
      /\ cause' \in {"none", "user", "interrupt"} /\ starting' \in BOOLEAN
  <2>1. CASE SubmitIdle(i)
    <3> QED BY <2>1, <1>3, NewCalls, ZeroIsTurn, SendsTypes DEF SubmitIdle, StartTurn
  <2>2. CASE SubmitQueued(i)
    <3> QED BY <2>2, <1>3 DEF SubmitQueued, SendsNothing, Entry
  <2>3. CASE SubmitSteer(i)
    <3>1. CASE active # 0
      <4>2. Sends([op |-> "steer", i |-> i, t |-> active]) /\ steered' = Append(steered, i)
            /\ waiting' = waiting /\ queue' = queue /\ started' = started /\ starting' = starting /\ cause' = cause
        BY <2>3, <3>1 DEF SubmitSteer
      <4> QED BY <1>3, <4>2, NewCalls, SendsTypes
    <3>2. CASE active = 0
      <4>2. waiting' = Append(waiting, [op |-> "steer", i |-> i]) BY <2>3, <3>2 DEF SubmitSteer
      <4> QED BY <2>3, <3>2, <4>2, <1>3 DEF SubmitSteer, SendsNothing, Waiter
    <3> QED BY <3>1, <3>2
  <2>4. CASE SubmitNow(i)
    <3>2. queue' \in Seq(Entry)
      <4>1. PICK a : a = <<[id |-> i, urgent |-> TRUE]>> BY Zenon
      <4> QED BY <2>4, <4>1, <1>3 DEF SubmitNow, Entry, Who
    <3> QED BY <2>4, <3>2, <1>3, InterruptTypes DEF SubmitNow, Entry, Who
  <2>5. CASE SubmitRefused(i) BY <2>5, <1>3 DEF SubmitRefused, SendsNothing
  <2> QED BY <2>1, <2>2, <2>3, <2>4, <2>5 DEF Submit
<1> QED BY <1>4, SayTypes DEF TypeOK, Entry, Submit, bounds, server

(* The parts of the state that most steps share.                              *)
LEMMA TypedParts ==
  ASSUME Typed
  PROVE  /\ queue \in Seq(Entry) /\ started \subseteq Inputs /\ steered \in Seq(Inputs)
         /\ active \in Turn /\ starting \in BOOLEAN /\ cause \in {"none", "user", "interrupt"}
         /\ wait \in Seq(Call) /\ toSrv \in Seq(Call) /\ waiting \in Seq(Waiter)
         /\ micro \in Seq(Continuation) /\ inbox \in Seq(Output)
         /\ (micro # <<>> => Head(micro) \in Continuation /\ Tail(micro) \in Seq(Continuation))
         /\ (chunk > 0 => Head(inbox) \in Output /\ Tail(inbox) \in Seq(Output) /\ Len(Tail(inbox)) = Len(inbox) - 1)
         /\ (toSrv # <<>> => Head(toSrv) \in Call /\ Tail(toSrv) \in Seq(Call))
<1> QED BY DEF Typed, TypeOK, Entry

(* What the steps of the session that only send and drain leave alone.        *)
LEMMA TypedEnqueue == ASSUME Typed, NEW i \in Inputs, EnqueueFollowup(i) PROVE Typed'
<1>2. Append(queue, [id |-> i, urgent |-> FALSE]) \in Seq(Entry) BY TypedParts DEF Entry
<1>3. /\ queue' \in Seq(Entry) /\ started' \subseteq Inputs /\ starting' \in BOOLEAN
      /\ wait' \in Seq(Call) /\ toSrv' \in Seq(Call)
  BY Zenon, <1>2, TypedParts, DrainTypes DEF EnqueueFollowup
<1> QED BY <1>3 DEF Typed, TypeOK, Entry, EnqueueFollowup, bounds, server

LEMMA TypedRemove == ASSUME Typed, NEW i \in Inputs, Remove(i) PROVE Typed'
<1>1. queue' \in Seq(Entry)
  <2>1. PICK k \in DOMAIN queue : queue' = SubSeq(queue, 1, k - 1) \o SubSeq(queue, k + 1, Len(queue))
    BY Zenon DEF Remove
  <2> QED BY Zenon, <2>1, TypedParts, CutFacts
<1>2. said' \in [Inputs -> SUBSET {"claimed", "discarded", "dropped", "refused", "removed"}]
  BY Zenon, SayTypes DEF Remove, Typed, TypeOK
<1> QED BY ZenonT(60), <1>1, <1>2 DEF Typed, TypeOK, Entry, Remove, turn, link, bounds, server

LEMMA QueuedTypes == ASSUME Typed PROVE Queued \subseteq Inputs /\ Steered \subseteq Inputs
<1>3. \A e \in Entry : e.id \in Inputs BY DEF Entry
<1> QED BY <1>3, TypedParts DEF Queued, Steered, Elems

LEMMA TypedCancel == ASSUME Typed, NEW cs \in {"user", "interrupt"}, Cancel(cs) PROVE Typed'
<1>1. /\ queue' \in Seq(Entry)
      /\ said' \in [Inputs -> SUBSET {"claimed", "discarded", "dropped", "refused", "removed"}]
      /\ cover' \subseteq Inputs /\ gone' \subseteq Inputs
  <2>1. said \in [Inputs -> SUBSET {"claimed", "discarded", "dropped", "refused", "removed"}]
        /\ queue \in Seq(Entry) /\ cover \subseteq Inputs /\ gone \subseteq Inputs
    BY DEF Typed, TypeOK, Entry
  <2>2. CASE cs = "interrupt" BY <2>1, <2>2, SayTypes, QueuedTypes DEF Cancel, Discards
  <2>3. CASE cs # "interrupt" BY <2>1, <2>3 DEF Cancel, Superseded
  <2> QED BY <2>2, <2>3
<1>2. cause' \in {"none", "user", "interrupt"} /\ waiting' \in Seq(Waiter)
      /\ wait' \in Seq(Call) /\ toSrv' \in Seq(Call)
  <2>2. CASE Busy BY <2>2, TypedParts, InterruptTypes DEF Cancel, Who
  <2>3. CASE ~Busy BY <2>3, TypedParts DEF Cancel, SendsNothing
  <2> QED BY <2>2, <2>3
<1> QED BY Zenon, <1>1, <1>2 DEF Typed, TypeOK, Entry, Cancel, turn, server

LEMMA TypedInterruptTurn == ASSUME Typed, InterruptTurn PROVE Typed'
<1>1. waiting' \in Seq(Waiter) /\ wait' \in Seq(Call) /\ toSrv' \in Seq(Call)
  <2> QED BY TypedParts, InterruptTypes DEF InterruptTurn, Who
<1> QED BY Zenon, <1>1 DEF Typed, TypeOK, InterruptTurn, turn, server, history

LEMMA TypedStartTurn == ASSUME Typed, StartTurnContinues PROVE Typed'
<1>1. PICK x : x = Head(micro) OBVIOUS
<1>3. micro' \in Seq(Continuation)
  <2>1. PICK rest : rest = Tail(micro) BY Zenon
  <2>2. rest \in Seq(Continuation) BY <2>1, TypedParts DEF StartTurnContinues
  <2>3. Resolved(x.t) \in Seq(Continuation) /\ Resolved(0) \in Seq(Continuation)
    BY <1>1, TypedParts, ContinuationFacts, ResolvedTypes, ZeroIsTurn DEF StartTurnContinues
  <2>6. PICK a, b : a = Resolved(x.t) /\ b = Resolved(0) OBVIOUS
  <2>7. PICK d : d = <<[k |-> "drain"]>> BY Zenon
  <2>10. PICK f : f = rest \o a BY Zenon
  <2>12. f \o d \in Seq(Continuation) /\ f \o <<>> \in Seq(Continuation)
    BY <2>3, <2>6, <2>7, <2>2, <2>10, NewContinuations
  <2>13. rest \o b \in Seq(Continuation) BY <2>2, <2>3, <2>6, <2>7, NewContinuations
  <2> QED BY Zenon, <1>1, <2>1, <2>6, <2>7, <2>10, <2>12, <2>13 DEF StartTurnContinues
<1>4. active' \in Turn /\ started' \subseteq Inputs
  BY Zenon, <1>1, TypedParts, ContinuationFacts DEF StartTurnContinues
<1>5. said' \in [Inputs -> SUBSET {"claimed", "discarded", "dropped", "refused", "removed"}]
  <2> QED BY SayTypes DEF StartTurnContinues, Typed, TypeOK
<1>6. stray' \in BOOLEAN /\ balked' \in BOOLEAN
  <2> QED BY DEF StartTurnContinues, Typed, TypeOK
<1>9. waiting' \in Seq(Waiter) /\ starting' \in BOOLEAN
  <2>1. <<>> \in Seq(Waiter) OBVIOUS
  <2> QED BY <2>1 DEF StartTurnContinues
<1> QED BY <1>3, <1>4, <1>5, <1>6, <1>9 DEF Typed, TypeOK, StartTurnContinues, link, bounds, server

LEMMA TypedDrain == ASSUME Typed, DrainContinues PROVE Typed'
<1>1. /\ queue' \in Seq(Entry) /\ started' \subseteq Inputs /\ starting' \in BOOLEAN
      /\ wait' \in Seq(Call) /\ toSrv' \in Seq(Call) /\ micro' \in Seq(Continuation)
  BY Zenon, TypedParts, DrainTypes DEF DrainContinues
<1> QED BY <1>1 DEF Typed, TypeOK, Entry, DrainContinues, bounds, server, history

LEMMA TypedSteerResumes == ASSUME Typed, SteerResumes PROVE Typed'
<1>1. PICK i, t : i = Head(micro).i /\ t = Head(micro).t OBVIOUS
<1>2. i \in Inputs /\ t \in Turn BY Zenon, <1>1, TypedParts, ContinuationFacts DEF SteerResumes
<1>3. /\ queue' \in Seq(Entry) /\ started' \subseteq Inputs /\ starting' \in BOOLEAN
      /\ wait' \in Seq(Call) /\ toSrv' \in Seq(Call) /\ steered' \in Seq(Inputs)
  <2>1. CASE t = 0
    <3>2. Append(queue, [id |-> i, urgent |-> FALSE]) \in Seq(Entry) BY <1>2, TypedParts DEF Entry
    <3> QED BY Zenon, <1>1, <2>1, <3>2, TypedParts, DrainTypes DEF SteerResumes
  <2>2. CASE t # 0
    <3>2. Sends([op |-> "steer", i |-> i, t |-> t]) /\ steered' = Append(steered, i)
          /\ queue' = queue /\ started' = started /\ starting' = starting
      BY <1>1, <2>2 DEF SteerResumes
    <3> QED BY <1>2, <3>2, NewCalls, TypedParts, SendsTypes
  <2> QED BY <2>1, <2>2
<1>4. micro' \in Seq(Continuation) BY TypedParts DEF SteerResumes
<1> QED BY <1>3, <1>4 DEF Typed, TypeOK, Entry, SteerResumes, bounds, server, history

LEMMA TypedSteer == ASSUME Typed, SteerContinues PROVE Typed'
<1>1. PICK i : i = Head(micro).c.i OBVIOUS
<1>2. i \in Inputs BY <1>1, TypedParts, ContinuationFacts, CallFacts DEF SteerContinues
<1>3. /\ queue' \in Seq(Entry) /\ started' \subseteq Inputs /\ starting' \in BOOLEAN
      /\ wait' \in Seq(Call) /\ toSrv' \in Seq(Call) /\ steered' \in Seq(Inputs)
      /\ said' \in [Inputs -> SUBSET {"claimed", "discarded", "dropped", "refused", "removed"}]
      /\ fell' \subseteq Inputs
  <2>1. said \in [Inputs -> SUBSET {"claimed", "discarded", "dropped", "refused", "removed"}]
        /\ fell \subseteq Inputs
    BY Zenon DEF Typed, TypeOK
  <2>2. CASE SteerFalls(i)
    <3>1. steered' \in Seq(Inputs) /\ fell' \subseteq Inputs
      BY Zenon, <2>1, <2>2, <1>2, TypedParts, KeptFacts DEF SteerFalls, Without
    <3>3. Append(queue, [id |-> i, urgent |-> FALSE]) \in Seq(Entry) BY <1>2, TypedParts DEF Entry
    <3>4. CASE closed BY <2>1, <2>2, <3>1, <3>4, SayTypes, TypedParts DEF SteerFalls, SendsNothing
    <3>5. CASE ~closed BY Zenon, <2>1, <2>2, <3>1, <3>3, <3>5, TypedParts, DrainTypes DEF SteerFalls
    <3> QED BY <3>4, <3>5
  <2>3. CASE ~SteerFalls(i)
    BY <2>1, <2>3, <1>1, TypedParts DEF SteerContinues, SendsNothing
  <2> QED BY <2>2, <2>3
<1>4. micro' \in Seq(Continuation) BY TypedParts DEF SteerContinues
<1> QED BY Zenon, <1>3, <1>4 DEF Typed, TypeOK, Entry, SteerContinues, bounds, server

LEMMA TypedInterruptResumes == ASSUME Typed, InterruptResumes PROVE Typed'
<1>1. PICK who, t : who = Head(micro).i /\ t = Head(micro).t OBVIOUS
<1>3. /\ wait' \in Seq(Call) /\ toSrv' \in Seq(Call) /\ cause' \in {"none", "user", "interrupt"}
      /\ cover' \subseteq Inputs /\ gone' \subseteq Inputs
  <2>2. CASE t = 0
    BY <1>1, <2>2, TypedParts DEF InterruptResumes, Superseded, SendsNothing, Typed, TypeOK
  <2>3. CASE t # 0
    <3> QED
      BY <1>1, <2>3, TypedParts, ContinuationFacts, NewCalls, SendsTypes DEF InterruptResumes,
         Typed, TypeOK
  <2> QED BY <2>2, <2>3
<1>4. micro' \in Seq(Continuation) BY TypedParts DEF InterruptResumes
<1> QED BY <1>3, <1>4 DEF Typed, TypeOK, InterruptResumes, turn, bounds, server

LEMMA TypedInterrupt == ASSUME Typed, InterruptContinues PROVE Typed'
<1>1. PICK x : x = Head(micro) OBVIOUS
<1>2. x \in Continuation /\ x.k = "answer" /\ x.c \in Call /\ x.c.t \in Turn
  BY Zenon, <1>1, TypedParts, ContinuationFacts, CallFacts DEF InterruptContinues
<1>3. force' \in Turn /\ cause' \in {"none", "user", "interrupt"} /\ cover' \subseteq Inputs /\ gone' \subseteq Inputs
  <2> QED BY <1>1, <1>2 DEF InterruptContinues, Superseded, Typed, TypeOK
<1> QED BY <1>3, TypedParts DEF Typed, TypeOK, InterruptContinues, link, bounds, server

LEMMA TurnOverTypes ==
  ASSUME Typed, NEW interrupted \in BOOLEAN, TurnOver(interrupted)
  PROVE  /\ queue' \in Seq(Entry) /\ started' \subseteq Inputs /\ starting' \in BOOLEAN
         /\ wait' \in Seq(Call) /\ toSrv' \in Seq(Call) /\ steered' \in Seq(Inputs)
         /\ said' \in [Inputs -> SUBSET {"claimed", "discarded", "dropped", "refused", "removed"}]
         /\ force' = 0 /\ active' = 0 /\ cause' = "none" /\ seen' = FALSE
         /\ offline' = offline /\ closed' = closed
<1>1. PICK cz : cz = IF InterruptInFlight /\ ~interrupted THEN "none" ELSE cause OBVIOUS
<1>2. PICK first : first = Say(started, StartedFate(cz)) OBVIOUS
<1>3. PICK fate : fate = SteeredFate(cz, interrupted) OBVIOUS
<1>5. said' \in [Inputs -> SUBSET {"claimed", "discarded", "dropped", "refused", "removed"}]
  <2>3. first \in [Inputs -> SUBSET {"claimed", "discarded", "dropped", "refused", "removed"}]
    BY <1>2, SayTypes DEF Typed, TypeOK, StartedFate
  <2> QED BY <1>1, <1>2, <1>3, <2>3 DEF TurnOver, SteeredFate
<1>6. PICK q : q = IF fate = {} THEN Requeued ELSE queue OBVIOUS
<1>9. /\ queue' \in Seq(Entry) /\ started' \subseteq Inputs /\ starting' \in BOOLEAN
      /\ wait' \in Seq(Call) /\ toSrv' \in Seq(Call)
  <2> QED BY <1>6, <1>1, <1>2, <1>3, TypedParts, RequeuedTypes, DrainTypes DEF TurnOver
<1> QED BY <1>1, <1>2, <1>3, <1>5, <1>9 DEF TurnOver

LEMMA TypedForceClose == ASSUME Typed, ForceClose PROVE Typed'
<1>1. CASE active = force
  <2> QED
    BY Zenon, <1>1, TurnOverTypes, ZeroIsTurn DEF ForceClose, Typed, TypeOK, Entry, bounds, server
<1>2. CASE active # force
  BY <1>2, ZeroIsTurn DEF ForceClose, SendsNothing, Typed, TypeOK, bounds, server
<1> QED BY <1>1, <1>2

LEMMA TypedChunk == ASSUME Typed, Chunk PROVE Typed'
BY DEF Chunk, Typed, TypeOK, turn, bounds, server, history

LEMMA TypedLine ==
  ASSUME Typed, NEW kind, Line(kind)
  PROVE  /\ chunk' \in 0..MaxChunk /\ inbox' \in Seq(Output) /\ chunk' <= Len(inbox')
         /\ Head(inbox) \in Output /\ Head(inbox).m = kind
<1> QED BY TypedParts, InputAssumption DEF Line, Typed, TypeOK

LEMMA TypedAnswered == ASSUME Typed, Answered PROVE Typed'
<1>1. PICK x : x = Head(inbox) OBVIOUS
<1>3. wait' \in Seq(Call) /\ micro' \in Seq(Continuation)
  <2>1. CASE x.c \in Elems(wait)
    <3>1. wait' = Without(wait, x.c) /\ micro' = Append(micro, [k |-> "answer", c |-> x.c, r |-> x.r, t |-> x.t])
      BY <1>1, <2>1 DEF Answered
    <3>2. [k |-> "answer", c |-> x.c, r |-> x.r, t |-> x.t] \in Continuation
      BY <1>1, TypedLine, OutputFacts, NewContinuations DEF Answered
    <3> QED BY <3>1, <3>2, TypedParts, WithoutTypes
  <2>2. CASE x.c \notin Elems(wait) BY <1>1, <2>2, TypedParts DEF Answered
  <2> QED BY <2>1, <2>2
<1>4. chunk' \in 0..MaxChunk /\ inbox' \in Seq(Output) /\ chunk' <= Len(inbox') BY TypedLine DEF Answered
<1> QED BY <1>3, <1>4 DEF Answered, Typed, TypeOK, turn, bounds, server, history

LEMMA TypedStarted == ASSUME Typed, Started PROVE Typed'
<1>1. active' \in Turn BY Zenon, TypedLine, OutputFacts, TypedParts DEF Started
<1>2. chunk' \in 0..MaxChunk /\ inbox' \in Seq(Output) /\ chunk' <= Len(inbox') BY TypedLine DEF Started
<1> QED BY <1>1, <1>2 DEF Started, Typed, TypeOK, bounds, server, history

LEMMA TypedClaim == ASSUME Typed, Claim PROVE Typed'
<1>1. chunk' \in 0..MaxChunk /\ inbox' \in Seq(Output) /\ chunk' <= Len(inbox') BY TypedLine DEF Claim
<1>2. /\ started' \subseteq Inputs /\ steered' \in Seq(Inputs) /\ seen' \in BOOLEAN
      /\ said' \in [Inputs -> SUBSET {"claimed", "discarded", "dropped", "refused", "removed"}]
  <2>2. CASE closed BY <2>2, TypedParts DEF Claim, Typed, TypeOK
  <2>3. CASE ~closed
    <3>1. PICK i : i = Head(inbox).i OBVIOUS
    <3>2. Claims(i) /\ seen' = TRUE BY <2>3, <3>1 DEF Claim
    <3> QED BY <3>2, TypedParts, SayTypes, KeptFacts DEF Claims, Without, Typed, TypeOK
  <2> QED BY <2>2, <2>3
<1> QED BY <1>1, <1>2 DEF Claim, Typed, TypeOK, bounds, server

LEMMA TypedCompleted == ASSUME Typed, Completed PROVE Typed'
<1>1. chunk' \in 0..MaxChunk /\ inbox' \in Seq(Output) /\ chunk' <= Len(inbox') BY TypedLine DEF Completed
<1>2. PICK x : x = Head(inbox) OBVIOUS
<1>3. x.t \in Turn /\ x.interrupted \in BOOLEAN BY <1>2, TypedLine, OutputFacts DEF Completed
<1>4. CASE closed \/ x.t \in ended \/ (active # 0 /\ active # x.t)
  BY <1>1, <1>2, <1>3, <1>4 DEF Completed, SendsNothing, Typed, TypeOK, bounds, server
<1>5. CASE ~(closed \/ x.t \in ended \/ (active # 0 /\ active # x.t))
  <2> QED
    BY <1>1, <1>3, <1>2, <1>5, TurnOverTypes, ZeroIsTurn DEF Completed, Typed, TypeOK, Entry,
       bounds, server
<1> QED BY <1>4, <1>5

LEMMA TypedTimesOut == ASSUME Typed, CallTimesOut PROVE Typed'
<1>1. wait' \in Seq(Call) /\ micro' \in Seq(Continuation)
  <2>1. PICK c \in Elems(wait) : wait' = Without(wait, c)
          /\ micro' = <<[k |-> "answer", c |-> c, r |-> "lost", t |-> 0]>>
    BY DEF CallTimesOut
  <2> QED BY <2>1, TypedParts, NewContinuations, ZeroIsTurn, WithoutTypes DEF Answers, Elems
<1> QED BY <1>1, InputAssumption DEF CallTimesOut, Typed, TypeOK, turn, link, server, history

LEMMA LostTypes ==
  ASSUME Typed, NEW m, m = [k \in DOMAIN wait |-> [k |-> "answer", c |-> wait[k], r |-> "lost", t |-> 0]]
  PROVE  m \in Seq(Continuation)
<1>1. DOMAIN wait = 1..Len(wait) /\ Len(wait) \in Nat /\ \A k \in DOMAIN wait : wait[k] \in Call BY TypedParts
<1> QED BY <1>1, NewContinuations, ZeroIsTurn DEF Answers

LEMMA IdleTypes == Idle \in [t : Turn, first : Inputs \cup {Nothing}, shown : BOOLEAN,
                pend : SUBSET Inputs, stopping : BOOLEAN]
BY ZeroIsTurn DEF Idle

LEMMA TypedLost == ASSUME Typed, ConnectionLost PROVE Typed'
<1>3. slips' \in 0..MaxSlips /\ chunk = 0 /\ chunk' = chunk
  BY InputAssumption DEF ConnectionLost, Quiet, Typed, TypeOK
<1>6. started' \subseteq Inputs /\ steered' \in Seq(Inputs) /\ wait' \in Seq(Call) /\ toSrv' \in Seq(Call)
      /\ inbox' \in Seq(Output) /\ Len(inbox') = 0
  <2> QED BY DEF ConnectionLost
<1>8. chunk' \in 0..MaxChunk /\ chunk' <= Len(inbox')
  <2> QED BY <1>3, <1>6, InputAssumption
<1> QED
  BY <1>3, <1>6, <1>8, LostTypes, ZeroIsTurn, IdleTypes, SayTypes DEF Typed, TypeOK, ConnectionLost

LEMMA TypedRestored == ASSUME Typed, ConnectionRestored PROVE Typed'
<1>1. /\ queue' \in Seq(Entry) /\ started' \subseteq Inputs /\ starting' \in BOOLEAN
      /\ wait' \in Seq(Call) /\ toSrv' \in Seq(Call)
  BY Zenon, TypedParts, DrainTypes DEF ConnectionRestored
<1> QED BY Zenon, <1>1 DEF ConnectionRestored, Typed, TypeOK, Entry, bounds, server, history

LEMMA TypedPermanent == ASSUME Typed, PermanentLoss PROVE Typed'
<1>2. <<>> \in Seq(Entry) OBVIOUS
<1> QED BY Zenon, <1>2, SayTypes DEF PermanentLoss, Entry, Typed, TypeOK, turn, link, bounds, server

-----------------------------------------------------------------------------
(* The server.                                                                *)

LEMMA ServerKeeps ==
  ASSUME Typed, serverKeeps' = serverKeeps, Quiet,
         srv' \in [t : Turn, first : Inputs \cup {Nothing}, shown : BOOLEAN, pend : SUBSET Inputs, stopping : BOOLEAN],
         turns' \in Turn, slips' \in 0..MaxSlips, ran' \in [Inputs -> Nat],
         toSrv' \in Seq(Call), inbox' \in Seq(Output)
  PROVE  Typed'
<1>1. UNCHANGED <<queue, started, steered, active, starting, force, seen, ended, cause, offline, closed,
                  wait, waiting, micro, chunk, new, said, fell, stray, balked, cover, gone>>
  BY DEF serverKeeps, turn, history
<1>2. chunk' = 0 /\ Len(inbox') \in Nat BY <1>1 DEF Quiet
<1> QED BY <1>1, <1>2 DEF Typed, TypeOK

LEMMA TakesTypes ==
  ASSUME Typed, NEW op, Takes(op)
  PROVE  Head(toSrv) \in Call /\ Head(toSrv).op \in op /\ toSrv' \in Seq(Call) /\ Quiet
BY TypedParts DEF Takes

LEMMA ServerParts ==
  ASSUME Typed
  PROVE  /\ srv \in [t : Turn, first : Inputs \cup {Nothing}, shown : BOOLEAN, pend : SUBSET Inputs, stopping : BOOLEAN]
         /\ turns \in Turn /\ slips \in 0..MaxSlips /\ ran \in [Inputs -> Nat] /\ inbox \in Seq(Output)
BY DEF Typed, TypeOK

LEMMA RanTypes == ASSUME NEW is, ran \in [Inputs -> Nat] PROVE Ran(is) \in [Inputs -> Nat]
BY DEF Ran

LEMMA OpensTypes ==
  ASSUME Typed, NEW a \in Output, Head(toSrv).i \in Inputs, Opens(a)
  PROVE  /\ srv' \in [t : Turn, first : Inputs \cup {Nothing}, shown : BOOLEAN, pend : SUBSET Inputs, stopping : BOOLEAN]
         /\ turns' \in Turn /\ inbox' \in Seq(Output)
<1>1. turns + 1 \in Turn \ {0} /\ turns' = turns + 1 BY ServerParts, InputAssumption DEF Opens, Turn
<1>3. PICK o : o = [m |-> "started", t |-> turns + 1] BY Zenon
<1>4. o \in Output BY <1>1, <1>3, NewOutputs
<1>6. PICK b, c : b = <<a, o>> /\ c = <<o, a>> BY Zenon
<1>7. inbox' \in Seq(Output)
  <2>3. inbox \o b \in Seq(Output) BY <1>4, <1>6, ServerParts
  <2>4. inbox \o c \in Seq(Output) BY <1>4, <1>6, ServerParts
  <2> QED BY Zenon, <1>3, <1>6, <2>3, <2>4 DEF Opens
<1> QED BY <1>1, <1>7, IdleTypes DEF Opens

LEMMA TypedServerStarts == ASSUME Typed, ServerStarts PROVE Typed'
<1>2. turns + 1 \in Turn BY ServerParts, InputAssumption DEF ServerStarts, Opens, Turn
<1>3. Answer(Head(toSrv), "ok", turns + 1) \in Output
  BY <1>2, TakesTypes, CallFacts, NewOutputs DEF Answers, ServerStarts
<1> QED
  BY <1>3, TakesTypes, CallFacts, ServerParts, OpensTypes, ServerKeeps DEF ServerStarts,
     serverLeaves

LEMMA TypedServerRefuses == ASSUME Typed, ServerRefuses PROVE Typed'
<1>2. PICK a : a = Answer(Head(toSrv), "refused", 0) OBVIOUS
<1> QED
  BY <1>2, TakesTypes, NewOutputs, ZeroIsTurn, ServerParts, ServerKeeps DEF ServerRefuses,
     serverLeaves, Answers

LEMMA TypedServerErrs == ASSUME Typed, ServerErrs PROVE Typed'
<1>2. PICK a : a = Answer(Head(toSrv), "error", 0) OBVIOUS
<1>3. a \in Output BY <1>2, TakesTypes, CallFacts, NewOutputs, ZeroIsTurn DEF Answers, ServerErrs
<1>4. /\ srv' \in [t : Turn, first : Inputs \cup {Nothing}, shown : BOOLEAN, pend : SUBSET Inputs, stopping : BOOLEAN]
      /\ turns' \in Turn /\ inbox' \in Seq(Output)
  <2>1. CASE Opens(a) BY <2>1, <1>3, TakesTypes, CallFacts, OpensTypes DEF ServerErrs
  <2>2. CASE ~Opens(a)
    <3>1. inbox' = Append(inbox, a) /\ srv' = srv /\ turns' = turns BY <2>2, <1>2 DEF ServerErrs
    <3> QED BY <3>1, <1>3, ServerParts
  <2> QED BY <2>1, <2>2
<1> QED
  BY <1>4, TakesTypes, CallFacts, ServerParts, InputAssumption, ServerKeeps DEF ServerErrs,
     serverLeaves

LEMMA TypedServerSteers == ASSUME Typed, ServerSteers PROVE Typed'
<1>1. Head(toSrv) \in Call /\ Head(toSrv).i \in Inputs /\ toSrv' \in Seq(Call) /\ Quiet
  BY TakesTypes, CallFacts DEF ServerSteers
<1>2. PICK a : a = Answer(Head(toSrv), "ok", 0) OBVIOUS
<1>4. inbox' \in Seq(Output)
  BY <1>2, <1>1, NewOutputs, ZeroIsTurn, ServerParts DEF ServerSteers, Answers
<1> QED BY <1>1, <1>4, ServerParts, ServerKeeps DEF ServerSteers, serverLeaves

LEMMA TypedServerInterrupts == ASSUME Typed, ServerInterrupts PROVE Typed'
<1>2. PICK a : a = Answer(Head(toSrv), "ok", 0) OBVIOUS
<1>4. inbox' \in Seq(Output)
  BY <1>2, TakesTypes, NewOutputs, ZeroIsTurn, ServerParts DEF ServerInterrupts, Answers
<1> QED BY <1>4, TakesTypes, ServerParts, ServerKeeps DEF ServerInterrupts, serverLeaves

LEMMA TypedServerShows == ASSUME Typed, ServerShows PROVE Typed'
<1>2. ran' \in [Inputs -> Nat]
  <2>1. \E is : ran' = Ran(is) BY Zenon DEF ServerShows
  <2> QED BY <2>1, ServerParts, RanTypes
<1>5. inbox' \in Seq(Output)
  <2>1. PICK i \in Inputs \cup {Nothing} : inbox' = Append(inbox, [m |-> "shown", t |-> srv.t, i |-> i])
    BY ServerParts DEF ServerShows
  <2> QED BY <2>1, ServerParts, NewOutputs
<1> QED BY <1>2, <1>5, ServerParts, ServerKeeps, TypedParts DEF ServerShows, serverLeaves

LEMMA TypedServerCompletes == ASSUME Typed, ServerCompletes PROVE Typed'
<1>3. PICK x : x = [m |-> "completed", t |-> srv.t, interrupted |-> srv.stopping] BY Zenon
<1>5. inbox' \in Seq(Output) BY <1>3, ServerParts, NewOutputs DEF ServerCompletes
<1> QED
  BY <1>5, ServerParts, RanTypes, ServerKeeps, TypedParts, IdleTypes DEF ServerCompletes,
     serverLeaves

LEMMA TypedServerAborts == ASSUME Typed, ServerAborts PROVE Typed'
<1> QED BY ServerParts, ServerKeeps, TypedParts DEF ServerAborts

-----------------------------------------------------------------------------
LEMMA TypedInit == Init => Typed
<1> SUFFICES ASSUME Init PROVE Typed OBVIOUS
<1>3. srv \in [t : Turn, first : Inputs \cup {Nothing}, shown : BOOLEAN, pend : SUBSET Inputs, stopping : BOOLEAN]
  BY IdleTypes DEF Init
<1>6. /\ queue \in Seq([id : Inputs, urgent : BOOLEAN]) /\ steered \in Seq(Inputs) /\ wait \in Seq(Call)
      /\ toSrv \in Seq(Call) /\ waiting \in Seq(Waiter) /\ micro \in Seq(Continuation)
      /\ inbox \in Seq(Output) /\ Len(inbox) = 0 BY DEF Init
<1>7. chunk \in 0..MaxChunk /\ slips \in 0..MaxSlips /\ chunk <= Len(inbox)
  BY InputAssumption DEF Init
<1> QED BY <1>3, <1>6, <1>7, ZeroIsTurn DEF Typed, TypeOK, Init

LEMMA TypedStep == Typed /\ [Next]_vars => Typed'
<1> SUFFICES ASSUME Typed, [Next]_vars PROVE Typed' OBVIOUS
<1>1. CASE \E i \in Inputs : Submit(i) \/ EnqueueFollowup(i) \/ Remove(i)
  BY <1>1, TypedSubmit, TypedEnqueue, TypedRemove
<1>2. CASE \E cs \in {"user", "interrupt"} : Cancel(cs) BY <1>2, TypedCancel
<1>3. CASE InterruptTurn \/ StartTurnContinues \/ DrainContinues \/ SteerResumes \/ SteerContinues
           \/ InterruptResumes \/ InterruptContinues
  BY <1>3, TypedInterruptTurn, TypedStartTurn, TypedDrain, TypedSteerResumes, TypedSteer,
     TypedInterruptResumes, TypedInterrupt
<1>4. CASE ForceClose \/ Chunk \/ Answered \/ Started \/ Claim \/ Completed
  BY <1>4, TypedForceClose, TypedChunk, TypedAnswered, TypedStarted, TypedClaim, TypedCompleted
<1>5. CASE CallTimesOut \/ ConnectionLost \/ ConnectionRestored \/ PermanentLoss
  BY <1>5, TypedTimesOut, TypedLost, TypedRestored, TypedPermanent
<1>6. CASE ServerStarts \/ ServerRefuses \/ ServerErrs \/ ServerSteers \/ ServerInterrupts
           \/ ServerShows \/ ServerCompletes \/ ServerAborts
  BY <1>6, TypedServerStarts, TypedServerRefuses, TypedServerErrs, TypedServerSteers,
     TypedServerInterrupts, TypedServerShows, TypedServerCompletes, TypedServerAborts
<1>7. CASE UNCHANGED vars
  BY <1>7 DEF vars, turn, link, bounds, server, history, Typed, TypeOK
<1> QED BY <1>1, <1>2, <1>3, <1>4, <1>5, <1>6, <1>7 DEF Next

(* Types, and a chunk that is being taken has its lines in the inbox: no      *)
(* handler of input.ts, client.ts or session.ts reads past what it was given. *)
THEOREM InputTypes == Spec => []Typed
BY TypedInit, TypedStep, PTL DEF Spec

-----------------------------------------------------------------------------

-----------------------------------------------------------------------------
(* Which records stand for an input.                                          *)
LEMMA EntryOf == ASSUME NEW i, NEW j, NEW b \in BOOLEAN PROVE [id |-> j, urgent |-> b] \in Entries(i) <=> i = j
BY DEF Entries

LEMMA JoiningOf ==
  ASSUME NEW i, NEW j
  PROVE  /\ [op |-> "steer", i |-> j] \in Joining(i) <=> i = j
         /\ [op |-> "interrupt", i |-> j] \notin Joining(i)
BY DEF Joining

LEMMA StartOf ==
  ASSUME NEW i, NEW c \in Call
  PROVE  c \in Starts(i) <=> c.op \in {"start", "next"} /\ c.i = i
<1>2. ASSUME c.op \in {"start", "next"}, c.i = i PROVE c \in Starts(i)
  <2> QED BY <1>2 DEF Starts, Call
<1> QED BY <1>2 DEF Starts

LEMMA AnswerOf ==
  ASSUME NEW i, NEW x \in Continuation
  PROVE  /\ x \in StartAnswers(i) <=> x.k = "answer" /\ x.c.op \in {"start", "next"} /\ x.c.i = i
         /\ x \in Resumed(i) <=> x.k = "resume" /\ x.op = "steer" /\ x.i = i
<1>3. ASSUME x.k = "answer", x.c.op \in {"start", "next"}, x.c.i = i PROVE x \in StartAnswers(i)
  <2> QED BY <1>3, StartOf DEF StartAnswers, Continuation
<1>4. ASSUME x.k = "resume", x.op = "steer", x.i = i PROVE x \in Resumed(i)
  <2> QED BY <1>4 DEF Resumed, Continuation
<1> QED BY <1>3, <1>4 DEF StartAnswers, Starts, Resumed

LEMMA DrainMoves ==
  ASSUME NEW i \in Inputs, NEW q \in Seq(Entry), NEW act, NEW busy, NEW kept, wait \in Seq(Call),
         Drain(q, act, busy, kept), Once(q, Entries(i))
  PROVE  /\ Once(queue', Entries(i))
         /\ InQueue(i)' => Has(q, Entries(i))
         /\ i \in started' => i \in kept \/ (Has(q, Entries(i)) /\ ~InQueue(i)')
         /\ Has(wait', Starts(i)) => Has(wait, Starts(i)) \/ (Has(q, Entries(i)) /\ ~InQueue(i)')
<1>1. CASE ~offline' /\ ~closed' /\ act = 0 /\ ~busy /\ q # <<>>
  <2>1. PICK e : e = Head(q) OBVIOUS
  <2>2. PICK c : c = [op |-> "next", i |-> e.id, t |-> 0] BY Zenon
  <2>3. queue' = Tail(q) /\ started' = kept \cup {e.id} /\ wait' = Append(wait, c)
    BY <1>1, <2>1, <2>2 DEF Drain, StartTurn, Sends
  <2>4. e \in Entry /\ e = [id |-> e.id, urgent |-> e.urgent] /\ e.urgent \in BOOLEAN /\ e.id \in Inputs
    <3>1. e \in Entry BY <1>1, <2>1
    <3> QED BY <3>1 DEF Entry
  <2>5. e \in Entries(i) <=> i = e.id BY <2>4, EntryOf
  <2>7. c \in Call BY <2>2, <2>4, NewCalls, ZeroIsTurn
  <2> QED BY <2>3, <2>5, <1>1, <2>1, <2>2, <2>7, StartOf, AppendFacts, TailFacts DEF InQueue
<1>2. CASE ~(~offline' /\ ~closed' /\ act = 0 /\ ~busy /\ q # <<>>)
  BY <1>2 DEF Drain, SendsNothing, InQueue
<1> QED BY <1>1, <1>2

LEMMA DrainAccounts ==
  ASSUME NEW i \in Inputs, NEW q \in Seq(Entry), NEW act, NEW busy, NEW kept, wait \in Seq(Call),
         Drain(q, act, busy, kept), Ready(i, q, kept)
  PROVE  Accounted(i)'
<1> QED BY DrainMoves DEF Accounted, Ready, Covered, Lone, Waits, Asked, Told

(* A step by which an input can only leave places.                            *)
LEMMA LeavesAccounted ==
  ASSUME NEW i, Accounted(i),
         Once(queue', Entries(i)), Once(steered', {i}), Once(waiting', Joining(i)), Once(micro', Resumed(i)),
         i \in new' => i \in new, i \in started' => i \in started, Asked(i)' => Asked(i),
         InQueue(i)' => InQueue(i), InSteers(i)' => InSteers(i), Joins(i)' => Joins(i), Resumes(i)' => Resumes(i),
         i \in new' => said'[i] = said[i],
         said'[i] \cap {"discarded", "dropped"} # {} =>
            \/ said[i] \cap {"discarded", "dropped"} # {}
            \/ ~InQueue(i)' /\ ~InSteers(i)' /\ ~Joins(i)' /\ ~Resumes(i)' /\ i \notin started',
         i \in gone' \cup cover' =>
            /\ \/ i \in gone \cup cover
               \/ i \notin new' /\ i \notin started' /\ ~InQueue(i)' /\ ~Joins(i)' /\ ~Resumes(i)'
            /\ InSteers(i)' => cause' = "interrupt"
  PROVE  Accounted(i)'
<1> QED BY DEF Accounted, Covered, Lone, Waits, Told

LEMMA KeepsAccounted ==
  ASSUME NEW i, Accounted(i), places' = places PROVE Accounted(i)'
BY DEF places, Accounted, Lone, Told, Covered, Waits, InQueue, InSteers, Joins, Resumes, Asked

(* interrupt() adds a call or a waiter that is no input's.                    *)
LEMMA InterruptPlaces ==
  ASSUME Typed, NEW i \in Inputs, NEW w \in Who, Interrupt(w), micro' = micro
  PROVE  /\ Asked(i)' <=> Asked(i)
         /\ Joins(i)' <=> Joins(i)
         /\ Once(waiting, Joining(i)) => Once(waiting', Joining(i))
<1>1. CASE active # 0
  <2>1. PICK c : c = [op |-> "interrupt", i |-> w, t |-> active] BY Zenon
  <2>2. wait' = Append(wait, c) /\ waiting' = waiting BY <1>1, <2>1 DEF Interrupt, Sends
  <2>3. c \in Call BY <2>1, NewCalls, TypedParts
  <2>4. c \notin Starts(i) BY <2>1, <2>3, StartOf
  <2> QED BY <2>2, <2>3, <2>4, TypedParts, AppendFacts DEF Asked, Joins
<1>2. CASE active = 0
  <2>1. PICK x : x = [op |-> "interrupt", i |-> w] BY Zenon
  <2>2. waiting' = Append(waiting, x) /\ wait' = wait BY <1>2, <2>1 DEF Interrupt, SendsNothing
  <2>3. x \in Waiter /\ x \notin Joining(i) BY Zenon, <2>1, JoiningOf DEF Waiter
  <2> QED BY <2>2, <2>3, TypedParts, AppendFacts DEF Asked, Joins
<1> QED BY <1>1, <1>2

-----------------------------------------------------------------------------
(* The steps of the session, one after another.  fell only grows.             *)

LEMMA AccSubmit ==
  ASSUME Typed, Flow, NEW i \in Inputs, Accounted(i), NEW j \in Inputs, Submit(j)
  PROVE  Accounted(i)'
<1>1. /\ queue \in Seq(Entry) /\ started \subseteq Inputs /\ steered \in Seq(Inputs) /\ active \in Turn
      /\ wait \in Seq(Call) /\ waiting \in Seq(Waiter)
  BY TypedParts
<1>2. /\ j \in new /\ new' = new \ {j} /\ micro' = micro /\ gone' = gone /\ cover' = cover
      /\ said' = IF closed THEN Say({j}, "refused") ELSE said
  BY DEF Submit
<1>3. said'[i] \cap {"discarded", "dropped"} = said[i] \cap {"discarded", "dropped"} /\ (i # j => said'[i] = said[i])
  BY Zenon, <1>2 DEF Say, Typed, TypeOK
<1>4. Resumes(i)' = Resumes(i) /\ Has(micro', StartAnswers(i)) = Has(micro, StartAnswers(i))
  BY <1>2 DEF Resumes
<1>5. i = j => /\ i \notin started /\ ~Asked(i) /\ ~Waits(i) /\ said[i] = {} /\ i \notin gone \cup cover
  BY <1>2 DEF Accounted, Lone, Told, Covered
<1>6. CASE SubmitIdle(j)
  <2>1. PICK c : c = [op |-> "start", i |-> j, t |-> 0] BY Zenon
  <2>2. /\ wait' = Append(wait, c) /\ started' = started \cup {j} /\ queue' = queue /\ steered' = steered
        /\ waiting' = waiting /\ cause' = cause
    BY <1>6, <2>1 DEF SubmitIdle, StartTurn, Sends
  <2>3. c \in Call BY <2>1, NewCalls, ZeroIsTurn
  <2>4. c \in Starts(i) <=> i = j BY <2>1, <2>3, StartOf
  <2> QED
    BY <1>2, <1>3, <1>4, <1>5, <2>2, <1>1, <2>3, <2>4, AppendFacts DEF Accounted, Lone, Told,
       Covered, Waits, InQueue, InSteers, Joins, Asked
<1>7. CASE SubmitQueued(j)
  <2>1. PICK e : e = [id |-> j, urgent |-> FALSE] BY Zenon
  <2>3. e \in Entry /\ (e \in Entries(i) <=> i = j) BY Zenon, <2>1, EntryOf DEF Entry
  <2>5. InQueue(i)' <=> InQueue(i) \/ i = j
    BY <1>1, <1>7, <2>1, <2>3, AppendFacts DEF InQueue, SubmitQueued, SendsNothing
  <2>6. Once(queue', Entries(i))
    BY <1>1, <1>7, <2>1, <2>3, <1>5, AppendFacts DEF InQueue, Accounted, Lone, Waits, SubmitQueued,
       SendsNothing
  <2> QED
    BY <1>2, <1>3, <1>4, <1>5, <1>7, <2>1, <2>5, <2>6 DEF Accounted, Lone, Told, Covered, Waits,
       Asked, InSteers, Joins, SubmitQueued, SendsNothing
<1>8. CASE SubmitSteer(j)
  <2>1. CASE active # 0
    <3>1. PICK c : c = [op |-> "steer", i |-> j, t |-> active] BY Zenon
    <3>2. /\ steered' = Append(steered, j) /\ waiting' = waiting /\ wait' = Append(wait, c)
          /\ queue' = queue /\ started' = started /\ cause' = cause
      BY <1>8, <2>1, <3>1 DEF SubmitSteer, Sends
    <3>4. c \notin Starts(i) BY <3>1, <1>1, NewCalls, StartOf
    <3>6. Asked(i)' <=> Asked(i) BY <1>1, <3>2, <3>1, <3>4, <1>4, NewCalls, AppendFacts DEF Asked
    <3>8. InSteers(i)' <=> InSteers(i) \/ i = j BY <1>1, <3>2, AppendFacts DEF InSteers
    <3>9. Once(steered', {i}) BY <1>1, <3>2, <1>5, AppendFacts DEF InSteers, Accounted, Lone, Waits
    <3> QED
      BY <1>2, <1>3, <1>4, <1>5, <3>2, <3>6, <3>8, <3>9 DEF Accounted, Lone, Told, Covered, Waits,
         InQueue, Joins
  <2>2. CASE active = 0
    <3>1. PICK x : x = [op |-> "steer", i |-> j] BY Zenon
    <3>2. /\ waiting' = Append(waiting, x) /\ steered' = steered /\ wait' = wait
          /\ queue' = queue /\ started' = started /\ cause' = cause
      BY <1>8, <2>2, <3>1 DEF SubmitSteer, SendsNothing
    <3>3. x \in Waiter /\ (x \in Joining(i) <=> i = j) BY Zenon, <3>1, JoiningOf DEF Waiter
    <3>5. Joins(i)' <=> Joins(i) \/ i = j BY <1>1, <3>2, <3>3, AppendFacts DEF Joins
    <3>6. Once(waiting', Joining(i))
      BY <1>1, <3>2, <3>3, <1>5, AppendFacts DEF Joins, Accounted, Lone, Waits
    <3> QED
      BY <1>2, <1>3, <1>4, <1>5, <3>2, <3>5, <3>6 DEF Accounted, Lone, Told, Covered, Waits, Asked,
         InQueue, InSteers
  <2> QED BY <2>1, <2>2
<1>9. CASE SubmitNow(j)
  <2>1. PICK e : e = [id |-> j, urgent |-> TRUE] BY Zenon
  <2>2. PICK a : a = <<e>> BY Zenon
  <2>3. /\ queue' = a \o queue /\ started' = started /\ steered' = steered /\ Interrupt(j)
        /\ cause' = IF cause = "none" THEN "user" ELSE cause
    BY <1>9, <2>1, <2>2 DEF SubmitNow
  <2>4. e \in Entry /\ (e \in Entries(i) <=> i = j) BY Zenon, <2>1, EntryOf DEF Entry
  <2>5. a \in Seq(Entry) /\ (Has(a, Entries(i)) <=> i = j) /\ Once(a, Entries(i))
    <3> QED BY <2>2, <2>4 DEF Has, Once
  <2>7. InQueue(i)' <=> InQueue(i) \/ i = j BY <1>1, <2>3, <2>5, JoinFacts DEF InQueue
  <2>8. Once(queue', Entries(i))
    BY <1>1, <2>3, <2>5, <1>5, JoinFacts DEF InQueue, Accounted, Lone, Waits
  <2>9. /\ Asked(i)' <=> Asked(i)
        /\ Joins(i)' <=> Joins(i)
        /\ Once(waiting, Joining(i)) => Once(waiting', Joining(i))
    <3> QED BY <1>2, <2>3, InterruptPlaces DEF Who
  <2> QED
    BY <1>2, <1>3, <1>4, <1>5, <2>3, <2>7, <2>8, <2>9 DEF Accounted, Lone, Told, Covered, Waits,
       InSteers
<1>10. CASE SubmitRefused(j)
  <2>1. UNCHANGED <<queue, started, steered, waiting, cause, wait>> BY <1>10 DEF SubmitRefused, SendsNothing
  <2> QED
    BY <1>2, <1>3, <1>4, <1>5, <2>1 DEF Accounted, Lone, Told, Covered, Waits, InQueue, InSteers,
       Joins, Asked
<1> QED BY <1>6, <1>7, <1>8, <1>9, <1>10 DEF Submit

(* The queue with an entry at its end.                                        *)
LEMMA QueuedOnce ==
  ASSUME Typed, NEW i \in Inputs, NEW j \in Inputs, NEW q, q = Append(queue, [id |-> j, urgent |-> FALSE])
  PROVE  /\ q \in Seq(Entry)
         /\ Has(q, Entries(i)) <=> InQueue(i) \/ i = j
         /\ Once(queue, Entries(i)) /\ (i = j => ~InQueue(i)) => Once(q, Entries(i))
<1>1. PICK e : e = [id |-> j, urgent |-> FALSE] OBVIOUS
<1>2. e \in Entry /\ (e \in Entries(i) <=> i = j) BY Zenon, <1>1, EntryOf DEF Entry
<1> QED BY <1>2, <1>1, TypedParts, AppendFacts DEF InQueue

(* drain as the last thing a step does, with nothing else changed.            *)
LEMMA AccDrained ==
  ASSUME Typed, NEW i \in Inputs, Accounted(i), Drain(queue, active, starting, started),
         UNCHANGED <<steered, waiting, cause, new, said, gone, cover>>,
         Once(micro', Resumed(i)), Resumes(i)' => Resumes(i),
         Has(micro', StartAnswers(i)) => Has(micro, StartAnswers(i))
  PROVE  Accounted(i)'
<1>1. Ready(i, queue, started)
  <2> QED BY DEF Ready, Accounted, Lone, Told, Covered, Waits, InQueue, Asked, InSteers, Joins
<1> QED BY <1>1, TypedParts, DrainAccounts

LEMMA AccEnqueue ==
  ASSUME Typed, NEW i \in Inputs, Accounted(i), NEW j \in Inputs, EnqueueFollowup(j)
  PROVE  Accounted(i)'
<1>1. PICK q : q = Append(queue, [id |-> j, urgent |-> FALSE]) BY Zenon
<1>2. /\ j \in new /\ new' = new \ {j} /\ Drain(q, active, starting, started)
      /\ UNCHANGED <<steered, waiting, micro, cause, said, gone, cover>>
  BY <1>1 DEF EnqueueFollowup
<1>3. i = j => /\ i \notin started /\ ~Asked(i) /\ ~Waits(i) /\ said[i] = {} /\ i \notin gone \cup cover
  BY <1>2 DEF Accounted, Lone, Told, Covered
<1>5. InSteers(i)' = InSteers(i) /\ Joins(i)' = Joins(i) /\ Resumes(i)' = Resumes(i)
  BY <1>2 DEF InSteers, Joins, Resumes
<1>6. Ready(i, q, started)
  BY <1>2, <1>3, <1>1, <1>5, QueuedOnce DEF Ready, Accounted, Lone, Told, Covered, Waits, Asked
<1> QED BY <1>2, <1>1, <1>3, <1>6, QueuedOnce, TypedParts, DrainAccounts DEF Accounted, Lone, Waits

LEMMA QueuedIs ==
  ASSUME Typed, NEW i \in Inputs
  PROVE  (i \in Queued <=> InQueue(i)) /\ (i \in Steered <=> InSteers(i))
<1>2. \A k \in DOMAIN queue : queue[k] \in Entry BY TypedParts
<1> QED BY <1>2 DEF InQueue, InSteers, Has, Steered, Elems, Queued, Entry, Entries

LEMMA SayFacts ==
  ASSUME Typed, NEW i \in Inputs, NEW is, NEW what, said' = Say(is, what)
  PROVE  /\ i \in is => said'[i] = said[i] \cup {what}
         /\ i \notin is => said'[i] = said[i]
BY DEF Say, Typed, TypeOK

LEMMA AccRemove ==
  ASSUME Typed, NEW i \in Inputs, Accounted(i), NEW j \in Inputs, Remove(j)
  PROVE  Accounted(i)'
<1>1. PICK k \in DOMAIN queue : queue' = SubSeq(queue, 1, k - 1) \o SubSeq(queue, k + 1, Len(queue))
  BY Zenon DEF Remove
<1>5. said'[i] \cap {"discarded", "dropped"} = said[i] \cap {"discarded", "dropped"}
  <2>1. said'[i] = said[i] \cup {"removed"} \/ said'[i] = said[i] BY Zenon, SayFacts DEF Remove
  <2> QED BY <2>1
<1>6. i \in new => said'[i] = said[i]
  <2>3. i \in new => i # j BY QueuedIs DEF Accounted, Lone, Waits, Remove
  <2> QED BY Zenon, <2>3, SayFacts DEF Remove
<1> QED
  BY <1>1, <1>5, <1>6, TypedParts, CutFacts, LeavesAccounted DEF Accounted, Lone, Told, Covered,
     InQueue, InSteers, Joins, Resumes, Asked, Remove

LEMMA AccCancel ==
  ASSUME Typed, Flow, NEW i \in Inputs, Accounted(i), NEW cs \in {"user", "interrupt"}, Cancel(cs)
  PROVE  Accounted(i)'
<1>1. UNCHANGED <<started, steered, micro, new>> BY DEF Cancel
<1>3. /\ Asked(i)' <=> Asked(i)
      /\ Joins(i)' <=> Joins(i)
      /\ Once(waiting', Joining(i))
  <2>2. CASE Busy
    <3> QED BY <1>1, <2>2, InterruptPlaces DEF Cancel, Who, Accounted, Lone
  <2>3. CASE ~Busy
    <3> QED BY <1>1, <2>3 DEF Asked, Joins, Cancel, SendsNothing, Accounted, Lone
  <2> QED BY <2>2, <2>3
<1>4. ~Busy => ~InSteers(i)
  <2> QED BY DEF Busy, Flow, InSteers, Has
<1>5. CASE cs = "interrupt"
  <2> QED
    BY <1>1, <1>3, <1>5, <1>4, QueuedIs, EmptyFacts, SayFacts DEF Accounted, Lone, Waits, Covered,
       Cancel, Discards, Told, InQueue, InSteers, Resumes
<1>6. CASE cs # "interrupt"
  <2> QED
    BY <1>1, <1>3, <1>6, QueuedIs DEF Accounted, Lone, Waits, Told, InQueue, Cancel, Covered,
       Superseded, InSteers, Resumes
<1> QED BY <1>5, <1>6

LEMMA AccInterruptTurn ==
  ASSUME Typed, NEW i \in Inputs, Accounted(i), InterruptTurn PROVE Accounted(i)'
<1>2. /\ Asked(i)' <=> Asked(i)
      /\ Joins(i)' <=> Joins(i)
      /\ Once(waiting, Joining(i)) => Once(waiting', Joining(i))
  <2> QED BY InterruptPlaces DEF InterruptTurn, Who, history
<1> QED
  BY <1>2, LeavesAccounted DEF Accounted, Lone, Covered, InQueue, InSteers, Resumes, InterruptTurn,
     history

-----------------------------------------------------------------------------
(* The continuations.                                                         *)

(* Those that awaited the turn that starts go on.                             *)
LEMMA ResolvedFacts ==
  ASSUME Typed, NEW i \in Inputs, NEW t \in Turn
  PROVE  /\ Resolved(t) \in Seq(Continuation)
         /\ Has(Resolved(t), Resumed(i)) <=> Joins(i)
         /\ Once(waiting, Joining(i)) => Once(Resolved(t), Resumed(i))
         /\ ~Has(Resolved(t), StartAnswers(i))
<1>1. PICK r : r = Resolved(t) OBVIOUS
<1>2. r \in Seq(Continuation) BY <1>1, ResolvedTypes, TypedParts
<1>5. \A k \in DOMAIN waiting : r[k] \in Resumed(i) <=> waiting[k] \in Joining(i)
  <2> TAKE k \in DOMAIN waiting
  <2>1. PICK x : x = waiting[k] OBVIOUS
  <2>2. x \in Waiter BY <2>1, TypedParts
  <2> QED BY <2>1, <2>2, <1>2, <1>1, AnswerOf DEF Waiter, Joining, Resolved
<1>6. \A k \in DOMAIN r : r[k] \notin StartAnswers(i)
  <2> TAKE k \in DOMAIN r
  <2> QED BY <1>2, <1>1, AnswerOf DEF Resolved
<1> QED BY <1>1, <1>2, <1>5, <1>6 DEF Once, Has, Joins, Resolved

LEMMA AccStartTurn ==
  ASSUME Typed, NEW i \in Inputs, Accounted(i), StartTurnContinues
  PROVE  Accounted(i)'
<1>1. PICK x : x = Head(micro) OBVIOUS
<1>2. PICK rest : rest = Tail(micro) BY Zenon
<1>3. x \in Continuation /\ x.k = "answer" /\ x.c \in Call /\ x.c.op \in {"start", "next"} /\ x.t \in Turn
      /\ micro \in Seq(Continuation) /\ micro # <<>>
  BY Zenon, <1>1, TypedParts, ContinuationFacts DEF StartTurnContinues
<1>4. /\ rest \in Seq(Continuation)
      /\ Resumes(i) <=> Has(rest, Resumed(i))
      /\ Once(rest, Resumed(i))
      /\ Has(micro, StartAnswers(i)) <=> Has(rest, StartAnswers(i)) \/ i = x.c.i
  <2> QED BY <1>3, <1>1, <1>2, AnswerOf, TailFacts DEF Resumes, Accounted, Lone
<1>5. PICK t \in Turn : t = IF x.r = "ok" THEN x.t ELSE 0 BY <1>3, ZeroIsTurn
<1>6. PICK a : a = Resolved(t) OBVIOUS
<1>7. PICK d : d = IF x.r = "ok" /\ x.c.op = "next" THEN <<[k |-> "drain"]>> ELSE <<>> BY Zenon
<1>8. micro' = (rest \o a) \o d
  <2>1. CASE x.r = "ok" BY <2>1, <1>1, <1>2, <1>5, <1>6, <1>7 DEF StartTurnContinues
  <2>2. CASE x.r # "ok"
    <3> QED
      BY <2>2, <1>1, <1>2, <1>5, <1>6, <1>4, <1>7, ResolvedFacts, JoinFacts DEF StartTurnContinues
  <2> QED BY <2>1, <2>2
<1>9. /\ d \in Seq(Continuation) /\ ~Has(d, Resumed(i)) /\ Once(d, Resumed(i)) /\ ~Has(d, StartAnswers(i))
  <2>1. CASE x.r = "ok" /\ x.c.op = "next"
    <3>1. PICK y : y = [k |-> "drain"] BY Zenon
    <3> QED BY <3>1, <2>1, <1>7, NewContinuations, AnswerOf DEF Has, Once
  <2>2. CASE ~(x.r = "ok" /\ x.c.op = "next")
    <3> QED BY <2>2, <1>7, EmptyFacts
  <2> QED BY <2>1, <2>2
<1>11. PICK b : b = rest \o a BY Zenon
<1>12. /\ b \in Seq(Continuation)
       /\ Has(b, Resumed(i)) <=> Resumes(i) \/ Joins(i)
       /\ Once(b, Resumed(i))
       /\ Has(b, StartAnswers(i)) <=> Has(rest, StartAnswers(i))
  <2> QED BY <1>4, <1>6, <1>11, ResolvedFacts, JoinFacts DEF Accounted, Lone
<1>13. /\ Has(micro', Resumed(i)) <=> Resumes(i) \/ Joins(i)
       /\ Once(micro', Resumed(i))
       /\ Has(micro', StartAnswers(i)) <=> Has(rest, StartAnswers(i))
  <2>1. micro' = b \o d BY <1>8, <1>11
  <2> QED BY <2>1, <1>9, <1>12, JoinFacts
<1>14. /\ UNCHANGED <<queue, steered, cause, wait, new, gone, cover>> /\ waiting' = <<>>
  BY DEF StartTurnContinues
<1>16. /\ i \in started' => i \in started
       /\ i # x.c.i => said'[i] = said[i]
       /\ i = x.c.i /\ said'[i] # said[i] => i \notin started'
  <2>1. CASE x.r = "ok"
    <3> QED BY <2>1, <1>1 DEF StartTurnContinues
  <2>2. CASE x.r # "ok"
    <3> QED BY <2>2, <1>1, SayFacts DEF StartTurnContinues
  <2> QED BY <2>1, <2>2
<1> QED
  BY <1>13, <1>14, <1>4, <1>16, EmptyFacts DEF Accounted, Covered, Joins, InQueue, InSteers,
     Resumes, Asked, Lone, Waits, Told

(* A continuation runs that is not a steer's about to be sent.                *)
LEMMA TakenFacts ==
  ASSUME Typed, NEW i \in Inputs, micro # <<>>, micro' = Tail(micro)
  PROVE  /\ Resumes(i) <=> Resumes(i)' \/ (Head(micro).k = "resume" /\ Head(micro).op = "steer" /\ Head(micro).i = i)
         /\ Once(micro, Resumed(i)) => Once(micro', Resumed(i))
         /\ Once(micro, Resumed(i)) /\ Head(micro).k = "resume" /\ Head(micro).op = "steer" /\ Head(micro).i = i
              => ~Resumes(i)'
         /\ Has(micro', StartAnswers(i)) => Has(micro, StartAnswers(i))
<1> QED BY TypedParts, AnswerOf, TailFacts DEF Resumes

LEMMA AccDrainContinues ==
  ASSUME Typed, NEW i \in Inputs, Accounted(i), DrainContinues PROVE Accounted(i)'
<1> QED BY TakenFacts, AccDrained DEF DrainContinues, history, Accounted, Lone

LEMMA AccSteerResumes ==
  ASSUME Typed, NEW i \in Inputs, Accounted(i), SteerResumes PROVE Accounted(i)'
<1>1. PICK j, t : j = Head(micro).i /\ t = Head(micro).t OBVIOUS
<1>2. j \in Inputs /\ t \in Turn BY Zenon, <1>1, TypedParts, ContinuationFacts DEF SteerResumes
<1>3. /\ micro # <<>> /\ micro' = Tail(micro) /\ Head(micro).k = "resume" /\ Head(micro).op = "steer"
      /\ UNCHANGED <<waiting, cause, new, said, gone, cover>>
  BY DEF SteerResumes, history
<1>5. /\ Resumes(i) <=> Resumes(i)' \/ i = j
      /\ Once(micro', Resumed(i))
      /\ i = j => ~Resumes(i)'
      /\ Has(micro', StartAnswers(i)) => Has(micro, StartAnswers(i))
  BY <1>1, <1>3, TakenFacts DEF Accounted, Lone
<1>7. i = j => /\ i \notin new /\ i \notin started /\ ~Asked(i) /\ ~InQueue(i) /\ ~InSteers(i) /\ ~Joins(i)
               /\ i \notin gone \cup cover /\ said[i] \cap {"discarded", "dropped"} = {}
  BY <1>5 DEF Accounted, Lone, Told, Covered, Waits
<1>8. CASE t = 0
  <2>1. PICK q : q = Append(queue, [id |-> j, urgent |-> FALSE]) BY Zenon
  <2>5. Ready(i, q, started)
    BY <1>3, <1>5, <1>7, <1>1, <1>8, <2>1, <1>2, QueuedOnce DEF Ready, Accounted, Lone, Told,
       Covered, Waits, Asked, InSteers, SteerResumes, Joins
  <2> QED
    BY <1>1, <1>8, <2>1, <1>2, <1>7, <2>5, QueuedOnce, TypedParts, DrainAccounts DEF Accounted,
       Lone, SteerResumes
<1>9. CASE t # 0
  <2>1. PICK c : c = [op |-> "steer", i |-> j, t |-> t] BY Zenon
  <2>2. wait' = Append(wait, c) /\ steered' = Append(steered, j) /\ queue' = queue /\ started' = started
    BY <1>1, <1>9, <2>1 DEF SteerResumes, Sends
  <2>3. c \in Call BY <1>2, <2>1, NewCalls
  <2>4. c \notin Starts(i) BY <2>1, <2>3, StartOf
  <2>5. Has(wait', Starts(i)) <=> Has(wait, Starts(i)) BY <2>2, <2>3, <2>4, TypedParts, AppendFacts
  <2>7. (InSteers(i)' <=> InSteers(i) \/ i = j) /\ Once(steered', {i})
    BY <1>2, <2>2, <1>7, TypedParts, AppendFacts DEF InSteers, Accounted, Lone
  <2> QED
    BY <1>3, <1>5, <1>7, <2>2, <2>7, <2>5 DEF Accounted, Lone, Told, Covered, Waits, InQueue, Asked,
       Joins
<1> QED BY <1>8, <1>9

LEMMA CancelOf ==
  ASSUME NEW x \in Continuation
  PROVE  x \in CancelResumed <=> x.k = "resume" /\ x.op = "interrupt" /\ x.i = "interrupt"
<1>2. ASSUME x.k = "resume", x.op = "interrupt", x.i = "interrupt" PROVE x \in CancelResumed
  <2> QED BY <1>2 DEF CancelResumed, Continuation
<1> QED BY <1>2 DEF CancelResumed

LEMMA SteeredWithout ==
  ASSUME Typed, NEW i \in Inputs, NEW j, steered' = Without(steered, j)
  PROVE  /\ InSteers(i)' => InSteers(i) /\ i # j
         /\ Once(steered, {i}) => Once(steered', {i})
<1>1. steered' = Kept(steered, Elems(steered) \ {j}) BY DEF Without
<1>2. (Has(steered', {i}) => Has(steered, {i} \cap (Elems(steered) \ {j}))) /\ (Once(steered, {i}) => Once(steered', {i}))
  <2>1. steered \in Seq(Inputs) BY TypedParts
  <2> QED BY Zenon, <1>1, <2>1, KeptFacts
<1> QED BY <1>2 DEF InSteers, Has

LEMMA AccSteer ==
  ASSUME Typed, NEW i \in Inputs \ fell', Accounted(i), SteerContinues PROVE Accounted(i)'
<1>1. PICK j : j = Head(micro).c.i OBVIOUS
<1>2. j \in Inputs BY <1>1, TypedParts, ContinuationFacts, CallFacts DEF SteerContinues
<1>3. /\ micro # <<>> /\ micro' = Tail(micro) /\ Head(micro).k = "answer"
      /\ UNCHANGED <<waiting, cause, new, gone, cover>>
  BY DEF SteerContinues
<1>4. /\ Resumes(i)' <=> Resumes(i)
      /\ Once(micro', Resumed(i))
      /\ Has(micro', StartAnswers(i)) => Has(micro, StartAnswers(i))
  BY <1>3, TakenFacts DEF Accounted, Lone
<1>6. CASE Head(micro).r # "ok"
  <2>1. SteerFalls(j) BY <1>1, <1>6 DEF SteerContinues
  <2>2. i # j /\ steered' = Without(steered, j) BY <2>1 DEF SteerFalls
  <2>4. CASE closed
    <3> QED
      BY <1>3, <1>4, <2>2, <2>1, <2>4, SayFacts, SteeredWithout, LeavesAccounted DEF Accounted,
         Lone, Covered, InQueue, Asked, SteerFalls, SendsNothing, Joins
  <2>5. CASE ~closed
    <3>1. PICK q : q = Append(queue, [id |-> j, urgent |-> FALSE]) BY Zenon
    <3>4. Ready(i, q, started)
      BY <1>3, <1>4, <2>2, <2>1, <2>5, <3>1, <1>2, SteeredWithout, QueuedOnce DEF Ready, Accounted,
         Lone, Told, Covered, Waits, Asked, Joins, SteerFalls
    <3> QED
      BY <2>1, <2>5, <3>1, <1>2, <2>2, <3>4, QueuedOnce, TypedParts, DrainAccounts DEF Accounted,
         Lone, SteerFalls
  <2> QED BY <2>4, <2>5
<1>7. CASE Head(micro).r = "ok"
  <2> QED
    BY <1>3, <1>4, <1>7, LeavesAccounted DEF Accounted, Lone, Covered, InQueue, InSteers, Asked,
       SteerContinues, SendsNothing, Joins
<1> QED BY <1>6, <1>7

(* The cause of the cancel changes: what is a steer is covered no more.       *)
LEMMA AccCause ==
  ASSUME Typed, NEW i \in Inputs, Accounted(i), UNCHANGED <<queue, started, steered, waiting, new, said>>,
         Once(micro', Resumed(i)), Resumes(i)' => Resumes(i), Asked(i)' => Asked(i),
         i \in gone' \cup cover' => i \in gone \cup cover,
         (cause' = cause) \/ ~(i \in gone' \cup cover' /\ InSteers(i))
  PROVE  Accounted(i)'
<1> QED BY LeavesAccounted DEF Accounted, Lone, Covered, InQueue, InSteers, Joins

LEMMA AccInterruptResumes ==
  ASSUME Typed, Flow, NEW i \in Inputs, Accounted(i), Early(i), InterruptResumes PROVE Accounted(i)'
<1>1. PICK who, t : who = Head(micro).i /\ t = Head(micro).t OBVIOUS
<1>3. /\ micro # <<>> /\ micro' = Tail(micro) /\ Head(micro).k = "resume" /\ Head(micro).op = "interrupt"
      /\ UNCHANGED <<queue, started, steered, waiting, new, said>>
  BY DEF InterruptResumes
<1>4. /\ Resumes(i)' <=> Resumes(i)
      /\ Once(micro', Resumed(i))
      /\ Has(micro', StartAnswers(i)) => Has(micro, StartAnswers(i))
  BY <1>3, TakenFacts DEF Accounted, Lone
<1>5. CASE t = 0
  <2>2. Asked(i)' => Asked(i) BY <1>1, <1>5, <1>4 DEF Asked, InterruptResumes, SendsNothing
  <2>3. CASE Superseded
    <3> QED BY <1>3, <1>4, <2>2, <2>3, QueuedIs, AccCause DEF Superseded
  <2>4. CASE gone' = gone \cup cover /\ cover' = cover /\ who = "interrupt" /\ ~Superseded
    <3>2. Pends
      <4>3. Head(micro) = micro[1] /\ 1 \in DOMAIN micro
        <5> QED BY <1>3, TypedParts
      <4> QED BY <1>1, <1>3, <2>4, <4>3, TypedParts, CancelOf DEF Pends, Has
    <3> QED BY <1>3, <1>4, <2>2, <3>2, <2>4, AccCause DEF Early
  <2> QED BY <1>1, <1>5, <2>3, <2>4 DEF InterruptResumes, SendsNothing
<1>6. CASE t # 0
  <2>1. PICK c : c = [op |-> "interrupt", i |-> who, t |-> t] BY Zenon
  <2>2. wait' = Append(wait, c) /\ cause' = cause /\ cover' = cover /\ gone' = gone
    BY <1>1, <1>6, <2>1 DEF InterruptResumes, Sends
  <2>3. c \in Call BY <1>1, <2>1, TypedParts, ContinuationFacts, NewCalls DEF InterruptResumes
  <2>4. c \notin Starts(i) BY <2>1, <2>3, StartOf
  <2>6. Asked(i)' => Asked(i) BY <2>2, <2>3, <2>4, <1>4, TypedParts, AppendFacts DEF Asked
  <2> QED BY <1>3, <1>4, <2>2, <2>6, AccCause
<1> QED BY <1>5, <1>6

LEMMA AccInterrupt ==
  ASSUME Typed, NEW i \in Inputs, Accounted(i), InterruptContinues PROVE Accounted(i)'
<1>1. PICK c : c = Head(micro).c OBVIOUS
<1>6. CASE Superseded
  <2> QED
    BY <1>6, QueuedIs, TakenFacts, AccCause DEF Accounted, Lone, InterruptContinues, Asked,
       Superseded
<1>7. CASE cause' = cause /\ gone' \subseteq gone \cup cover /\ cover' = cover
  <2> QED BY <1>7, TakenFacts, AccCause DEF Accounted, Lone, InterruptContinues, Asked
<1> QED BY <1>6, <1>7 DEF InterruptContinues

-----------------------------------------------------------------------------
(* The end of a turn.                                                         *)

(* The steers as the queue takes them.                                        *)
LEMMA SteersAgain ==
  ASSUME Typed, NEW i \in Inputs
  PROVE  \E b : /\ b = [k \in DOMAIN steered |-> [id |-> steered[k], urgent |-> FALSE]]
                /\ b \in Seq(Entry) /\ (Has(b, Entries(i)) <=> InSteers(i)) /\ (Once(steered, {i}) => Once(b, Entries(i)))
<1>1. PICK b : b = [k \in DOMAIN steered |-> [id |-> steered[k], urgent |-> FALSE]] OBVIOUS
<1>2. steered \in Seq(Inputs) BY TypedParts
<1>3. DOMAIN b = DOMAIN steered /\ b = [k \in DOMAIN steered |-> b[k]] BY <1>1
<1>4. \A k \in DOMAIN steered : steered[k] \in Inputs /\ b[k] = [id |-> steered[k], urgent |-> FALSE]
  <2> QED BY <1>1, <1>2
<1>5. \A j \in Inputs : /\ [id |-> j, urgent |-> FALSE] \in Entry
                        /\ [id |-> j, urgent |-> FALSE] \in Entries(i) <=> i = j
  BY Zenon, EntryOf DEF Entry
<1>6. \A k \in DOMAIN steered : b[k] \in Entry BY Zenon, <1>4, <1>5
<1>7. \A k \in DOMAIN steered : b[k] \in Entries(i) <=> steered[k] \in {i} BY Zenon, <1>4, <1>5
<1>8. b \in Seq(Entry) /\ (Has(b, Entries(i)) <=> Has(steered, {i})) /\ (Once(steered, {i}) => Once(b, Entries(i)))
  <2> HIDE DEF Entry
  <2> QED BY Zenon, <1>2, <1>3, <1>6, <1>7, MappedFacts
<1> QED BY <1>1, <1>8 DEF InSteers

LEMMA RequeuedFacts ==
  ASSUME Typed, NEW i \in Inputs, Once(queue, Entries(i)), Once(steered, {i}), ~(InQueue(i) /\ InSteers(i))
  PROVE  /\ Requeued \in Seq(Entry)
         /\ Has(Requeued, Entries(i)) => InQueue(i) \/ InSteers(i)
         /\ Once(Requeued, Entries(i))
<1>1. PICK U, V : U = {e \in Elems(queue) : e.urgent} /\ V = {e \in Elems(queue) : ~e.urgent} BY Zenon
<1>2. PICK a, b, c : /\ a = Kept(queue, U) /\ c = Kept(queue, V)
                     /\ b = [k \in DOMAIN steered |-> [id |-> steered[k], urgent |-> FALSE]]
  BY Zenon
<1>4. a \in Seq(Entry) /\ (Has(a, Entries(i)) => Has(queue, Entries(i) \cap U)) /\ Once(a, Entries(i))
  BY <1>2, TypedParts, KeptFacts
<1>5. c \in Seq(Entry) /\ (Has(c, Entries(i)) => Has(queue, Entries(i) \cap V)) /\ Once(c, Entries(i))
  BY <1>2, TypedParts, KeptFacts
<1>6. ~(Has(queue, Entries(i) \cap U) /\ Has(queue, Entries(i) \cap V))
  <2> SUFFICES ASSUME NEW j \in DOMAIN queue, queue[j] \in Entries(i) \cap U,
                      NEW k \in DOMAIN queue, queue[k] \in Entries(i) \cap V
               PROVE  FALSE
    BY DEF Has
  <2> QED BY <1>1 DEF Once
<1>7. b \in Seq(Entry) /\ (Has(b, Entries(i)) <=> InSteers(i)) /\ Once(b, Entries(i)) BY <1>2, SteersAgain
<1>8. PICK d : d = a \o b BY Zenon
<1>9. Has(queue, Entries(i) \cap U) \/ Has(queue, Entries(i) \cap V) => InQueue(i) BY DEF Has, InQueue
<1>10. /\ d \in Seq(Entry) /\ (Has(d, Entries(i)) <=> Has(a, Entries(i)) \/ Has(b, Entries(i)))
       /\ Once(d, Entries(i))
  BY <1>4, <1>7, <1>8, <1>9, JoinFacts
<1>12. Requeued = d \o c BY <1>1, <1>2, <1>8 DEF Requeued
<1> QED BY <1>4, <1>5, <1>7, <1>9, <1>10, <1>6, <1>12, JoinFacts

LEMMA AccTurnOver ==
  ASSUME Typed, NEW i \in Inputs, Accounted(i), NEW interrupted \in BOOLEAN, TurnOver(interrupted),
         UNCHANGED <<waiting, micro, new, cover, gone>>
  PROVE  Accounted(i)'
<1>1. PICK cz : cz = IF InterruptInFlight /\ ~interrupted THEN "none" ELSE cause OBVIOUS
<1>2. PICK first : first = Say(started, StartedFate(cz)) OBVIOUS
<1>3. PICK fate : fate = SteeredFate(cz, interrupted) OBVIOUS
<1>4. PICK q : q = IF fate = {} THEN Requeued ELSE queue OBVIOUS
<1>5. /\ cause' = "none" /\ steered' = <<>>
      /\ said' = [k \in Inputs |-> IF k \in Steered THEN first[k] \cup fate ELSE first[k]]
      /\ Drain(q, 0, starting, {})
  BY <1>1, <1>2, <1>3, <1>4 DEF TurnOver
<1>9. i \in gone \cup cover /\ InSteers(i) => fate # {}
  <2> QED BY <1>1, <1>3 DEF SteeredFate, Accounted, Covered
<1>10. /\ q \in Seq(Entry) /\ Once(q, Entries(i))
       /\ Has(q, Entries(i)) => InQueue(i) \/ (InSteers(i) /\ fate = {})
  <2>2. CASE fate = {} BY <2>2, <1>4, RequeuedFacts DEF Accounted, Lone
  <2>3. CASE fate # {} BY <2>3, <1>4, TypedParts DEF InQueue, Accounted, Lone
  <2> QED BY <2>2, <2>3
<1>12. Has(q, Entries(i)) => said'[i] = said[i]
  <2> QED BY <1>10, <1>2, <1>5, QueuedIs DEF Say, Typed, TypeOK, Waits, Accounted, Lone
<1>13. Joins(i) \/ Resumes(i) \/ i \in new => said'[i] = said[i]
  <2> QED BY <1>2, <1>5, QueuedIs DEF Say, Typed, TypeOK, Waits, Accounted, Lone
<1> QED
  BY <1>5, <1>10, <1>9, <1>12, <1>13, EmptyFacts, TypedParts, DrainAccounts DEF Ready, Accounted,
     Lone, Told, Covered, Waits, Asked, Joins, Resumes, InSteers

LEMMA AccForceClose ==
  ASSUME Typed, NEW i \in Inputs, Accounted(i), ForceClose PROVE Accounted(i)'
<1>2. CASE active = force BY <1>2, AccTurnOver DEF ForceClose
<1>3. CASE active # force
  <2> QED BY <1>3, KeepsAccounted DEF ForceClose, SendsNothing, places
<1> QED BY <1>2, <1>3

-----------------------------------------------------------------------------
(* The lines of the child.                                                    *)

(* A call leaves `wait`, and its answer is about to run.                      *)
LEMMA AnswerPlaces ==
  ASSUME Typed, NEW i \in Inputs, Accounted(i), NEW c \in Elems(wait), NEW r \in Answers, NEW t \in Turn,
         wait' = Without(wait, c),
         \/ micro' = Append(micro, [k |-> "answer", c |-> c, r |-> r, t |-> t])
         \/ micro' = <<[k |-> "answer", c |-> c, r |-> r, t |-> t]>>,
         UNCHANGED <<queue, started, steered, waiting, cause, new, said, gone, cover>>
  PROVE  Accounted(i)'
<1>1. PICK x : x = [k |-> "answer", c |-> c, r |-> r, t |-> t] OBVIOUS
<1>2. wait \in Seq(Call) /\ micro \in Seq(Continuation) BY TypedParts
<1>3. PICK k \in DOMAIN wait : wait[k] = c BY DEF Elems
<1>8. /\ Has(micro', Resumed(i)) => Has(micro, Resumed(i))
      /\ Once(micro, Resumed(i)) => Once(micro', Resumed(i))
      /\ Has(micro', StartAnswers(i)) => Has(micro, StartAnswers(i)) \/ x \in StartAnswers(i)
  <2>1. CASE micro' = Append(micro, x)
    <3> QED BY <2>1, <1>2, <1>1, <1>3, NewContinuations, AnswerOf, StartOf, AppendFacts
  <2>2. CASE micro' = <<x>>
    <3> QED BY <2>2, <1>2, <1>3, <1>1, NewContinuations, AnswerOf, StartOf DEF Has, Once
  <2> QED BY <2>1, <2>2, <1>1
<1>9. Has(wait', Starts(i)) => Has(wait, Starts(i))
  <2> QED BY <1>2, KeptFacts DEF Has, Without
<1> QED
  BY <1>8, <1>2, <1>3, <1>1, <1>9, NewContinuations, AnswerOf, StartOf, LeavesAccounted DEF
     Accounted, Lone, Covered, InQueue, InSteers, Joins, Resumes, Asked, Has

LEMMA AccAnswered ==
  ASSUME Typed, NEW i \in Inputs, Accounted(i), Answered PROVE Accounted(i)'
<1>1. PICK c, r, t : c = Head(inbox).c /\ r = Head(inbox).r /\ t = Head(inbox).t OBVIOUS
<1>4. CASE c \in Elems(wait)
  <2> QED BY <1>1, <1>4, TypedLine, OutputFacts, AnswerPlaces DEF Answered, history
<1>5. CASE c \notin Elems(wait)
  <2> QED BY <1>1, <1>5, KeepsAccounted DEF Answered, places, history
<1> QED BY <1>4, <1>5

LEMMA AccTimesOut ==
  ASSUME Typed, NEW i \in Inputs, Accounted(i), CallTimesOut PROVE Accounted(i)'
<1>1. PICK c \in Elems(wait) : /\ wait' = Without(wait, c)
                              /\ micro' = <<[k |-> "answer", c |-> c, r |-> "lost", t |-> 0]>>
  BY DEF CallTimesOut
<1> QED BY <1>1, ZeroIsTurn, AnswerPlaces DEF CallTimesOut, history, Answers

LEMMA AccClaim ==
  ASSUME Typed, NEW i \in Inputs, Accounted(i), Claim PROVE Accounted(i)'
<1>2. CASE closed
  <2> QED BY <1>2, KeepsAccounted DEF Claim, places
<1>3. CASE ~closed
  <2>1. PICK j : j = Head(inbox).i OBVIOUS
  <2>5. said'[i] \cap {"discarded", "dropped"} = said[i] \cap {"discarded", "dropped"}
    <3> QED BY <1>3, <2>1, SayFacts DEF Claim, Claims
  <2>6. i \in new => said'[i] = said[i]
    <3> QED BY <1>3, <2>1, QueuedIs, SayFacts DEF Accounted, Lone, Waits, Claim, Claims
  <2> QED
    BY <1>3, <2>1, <2>5, <2>6, SteeredWithout, LeavesAccounted DEF Accounted, Lone, Covered,
       InQueue, Joins, Resumes, Asked, InSteers, Claim, Claims
<1> QED BY <1>2, <1>3

LEMMA AccCompleted ==
  ASSUME Typed, NEW i \in Inputs, Accounted(i), Completed PROVE Accounted(i)'
<1>2. PICK x : x = Head(inbox) OBVIOUS
<1>4. CASE TurnOver(x.interrupted) BY <1>2, <1>4, TypedLine, OutputFacts, AccTurnOver DEF Completed
<1>5. CASE ~TurnOver(x.interrupted)
  <2> QED BY <1>2, <1>5, KeepsAccounted DEF Completed, SendsNothing, places
<1> QED BY <1>4, <1>5

-----------------------------------------------------------------------------
(* The connection.                                                            *)

LEMMA AccLost ==
  ASSUME Typed, NEW i \in Inputs, Accounted(i), ConnectionLost PROVE Accounted(i)'
<1>1. /\ UNCHANGED <<queue, waiting, cause, new, gone, cover>>
      /\ started' = {} /\ steered' = <<>> /\ wait' = <<>> /\ said' = Say(started \cup Steered, "discarded")
      /\ micro' = [k \in DOMAIN wait |-> [k |-> "answer", c |-> wait[k], r |-> "lost", t |-> 0]]
  BY DEF ConnectionLost
<1>3. \A k \in DOMAIN micro' : micro'[k] \notin Resumed(i) /\ (micro'[k] \in StartAnswers(i) => wait[k] \in Starts(i))
  <2> SUFFICES ASSUME NEW k \in DOMAIN wait
               PROVE  micro'[k] \notin Resumed(i) /\ (micro'[k] \in StartAnswers(i) => wait[k] \in Starts(i))
    BY <1>1
  <2>1. PICK x : x = [k |-> "answer", c |-> wait[k], r |-> "lost", t |-> 0] BY Zenon
  <2>4. micro'[k] = x BY <2>1, <1>1
  <2> QED BY <2>1, <2>4, TypedParts, NewContinuations, ZeroIsTurn, AnswerOf, StartOf DEF Answers
<1>5. Asked(i)' => Asked(i)
  <2>1. Has(micro', StartAnswers(i)) => Has(wait, Starts(i))
    <3> QED BY <1>1, <1>3 DEF Has
  <2> QED BY <2>1, <1>1, EmptyFacts DEF Asked
<1>8. said'[i] = IF i \in started \/ InSteers(i) THEN said[i] \cup {"discarded"} ELSE said[i]
  <2>1. i \in started \cup Steered <=> i \in started \/ InSteers(i) BY QueuedIs
  <2> QED BY Zenon, <2>1, <1>1, SayFacts
<1> QED
  BY <1>1, <1>3, <1>5, <1>8, EmptyFacts, LeavesAccounted DEF Accounted, Lone, Covered, Waits,
     InQueue, Joins, InSteers, Resumes, Has, Once

LEMMA AccRestored ==
  ASSUME Typed, NEW i \in Inputs, Accounted(i), ConnectionRestored PROVE Accounted(i)'
<1> QED BY AccDrained DEF ConnectionRestored, history, Resumes, Accounted, Lone

LEMMA AccPermanent ==
  ASSUME Typed, NEW i \in Inputs, Accounted(i), PermanentLoss PROVE Accounted(i)'
<1> QED
  BY EmptyFacts, SayFacts, QueuedIs, LeavesAccounted DEF Accounted, Lone, Covered, Waits, InSteers,
     Joins, Resumes, Asked, PermanentLoss, InQueue

LEMMA AccRest ==
  ASSUME NEW i \in Inputs, Accounted(i),
         \/ Chunk \/ Started \/ ServerStarts \/ ServerRefuses \/ ServerErrs \/ ServerSteers \/ ServerInterrupts
         \/ ServerShows \/ ServerCompletes \/ ServerAborts \/ UNCHANGED vars
  PROVE  Accounted(i)'
<1>1. ASSUME Chunk \/ Started PROVE places' = places BY <1>1 DEF Chunk, Started, history, places
<1>2. ASSUME serverKeeps' = serverKeeps PROVE places' = places BY <1>2 DEF serverKeeps, history, places
<1>3. ASSUME \/ ServerStarts \/ ServerRefuses \/ ServerErrs \/ ServerSteers \/ ServerInterrupts
             \/ ServerShows \/ ServerCompletes \/ ServerAborts
      PROVE  serverKeeps' = serverKeeps
  BY <1>3 DEF ServerStarts, ServerRefuses, ServerErrs, ServerSteers, ServerInterrupts, ServerShows,
              ServerCompletes, ServerAborts, serverLeaves
<1>4. ASSUME UNCHANGED vars PROVE places' = places BY <1>4 DEF vars, history, places
<1> QED BY <1>1, <1>2, <1>3, <1>4, KeepsAccounted

-----------------------------------------------------------------------------
(* Steers belong to a turn: Flow is kept by every step.                       *)

LEMMA GoingOf ==
  ASSUME NEW x \in Continuation
  PROVE  /\ x \in Going <=> x.k = "resume"
         /\ x \in GoingInto <=> x.k = "resume" /\ x.t # 0
<1> QED BY DEF GoingInto, Going, Continuation

LEMMA FlowKeeps ==
  ASSUME Flow, active' = active, chunk' = chunk, Has(steered', Inputs) => Has(steered, Inputs),
         Has(micro', Going) => Has(micro, Going), Has(micro', GoingInto) => Has(micro, GoingInto)
  PROVE  Flow'
<1> QED BY DEF Flow, Going, GoingInto

LEMMA FlowTakes ==
  ASSUME Typed, micro # <<>>, micro' = Tail(micro)
  PROVE  (Has(micro', Going) => Has(micro, Going)) /\ (Has(micro', GoingInto) => Has(micro, GoingInto))
BY Zenon, TypedParts, TailFacts

LEMMA FlowWithout ==
  ASSUME Typed, NEW j, steered' = Without(steered, j) PROVE Has(steered', Inputs) => Has(steered, Inputs)
<1>2. Has(steered', Inputs) => Has(steered, Inputs \cap (Elems(steered) \ {j}))
  BY TypedParts, KeptFacts DEF Without
<1> QED BY <1>2 DEF Has

(* Nothing is about to continue: while lines are taken, or between events.    *)
LEMMA FlowQuiet ==
  ASSUME Typed, Flow, chunk > 0 \/ Quiet PROVE ~Has(micro, Going) /\ ~Has(micro, GoingInto)
<1> QED BY InputAssumption, EmptyFacts DEF Flow, Quiet, Has, GoingInto, Typed, TypeOK

(* ... and then only answers join what is ready to run.                       *)
LEMMA FlowIdle ==
  ASSUME ~Has(micro', Going), Has(steered', Inputs) => active' # 0 PROVE Flow'
<1> QED BY DEF Flow, Going, GoingInto, Has

LEMMA FlowSubmit == ASSUME Typed, Flow, NEW i \in Inputs, Submit(i) PROVE Flow'
<1>2. CASE steered' = steered BY <1>2, FlowKeeps DEF Submit
<1>3. CASE active # 0 /\ steered' # steered
  <2> QED BY <1>3, FlowQuiet, FlowIdle DEF Submit
<1> QED BY <1>2, <1>3 DEF Submit, SubmitIdle, SubmitQueued, SubmitSteer, SubmitNow, SubmitRefused

LEMMA FlowSame == ASSUME Flow, flow' = flow PROVE Flow'
BY FlowKeeps DEF flow

LEMMA FlowStays ==
  ASSUME Flow, NEW i, NEW cs,
         \/ EnqueueFollowup(i) \/ Remove(i) \/ Cancel(cs) \/ InterruptTurn \/ ConnectionRestored \/ PermanentLoss
         \/ ServerStarts \/ ServerRefuses \/ ServerErrs \/ ServerSteers \/ ServerInterrupts
         \/ ServerShows \/ ServerCompletes \/ ServerAborts \/ UNCHANGED vars
  PROVE  Flow'
<1>1. ASSUME EnqueueFollowup(i) \/ Remove(i) \/ Cancel(cs) \/ InterruptTurn \/ ConnectionRestored \/ PermanentLoss
      PROVE  flow' = flow
  BY <1>1 DEF EnqueueFollowup, Remove, Cancel, InterruptTurn, ConnectionRestored, PermanentLoss, turn, link, flow
<1>2. ASSUME serverKeeps' = serverKeeps PROVE flow' = flow BY <1>2 DEF serverKeeps, turn, flow
<1>3. ASSUME \/ ServerStarts \/ ServerRefuses \/ ServerErrs \/ ServerSteers \/ ServerInterrupts
             \/ ServerShows \/ ServerCompletes \/ ServerAborts
      PROVE  serverKeeps' = serverKeeps
  BY <1>3 DEF ServerStarts, ServerRefuses, ServerErrs, ServerSteers, ServerInterrupts, ServerShows,
              ServerCompletes, ServerAborts, serverLeaves
<1>4. ASSUME UNCHANGED vars PROVE flow' = flow BY <1>4 DEF vars, turn, link, flow
<1> QED BY <1>1, <1>2, <1>3, <1>4, FlowSame

(* A turn/start that was answered names the turn that what awaits it goes to. *)
LEMMA FlowStartTurn == ASSUME Typed, Flow, StartTurnContinues PROVE Flow'
<1>1. PICK x : x = Head(micro) OBVIOUS
<1>2. PICK rest : rest = Tail(micro) BY Zenon
<1>4. Has(rest, GoingInto) => active # 0
  <2> QED BY <1>2, <1>1, TypedParts, ContinuationFacts, TailFacts DEF Flow, StartTurnContinues
<1>5. PICK t : t = IF x.r = "ok" THEN x.t ELSE 0 OBVIOUS
<1>7. PICK r : r = Resolved(t) OBVIOUS
<1>8. r \in Seq(Continuation) /\ (Has(r, GoingInto) => t # 0)
  <2>1. r \in Seq(Continuation)
    BY <1>1, <1>2, <1>5, <1>7, TypedParts, ContinuationFacts, ZeroIsTurn, ResolvedTypes DEF
       StartTurnContinues
  <2>2. \A k \in DOMAIN r : r[k] \in Continuation /\ r[k].t = t BY <2>1, <1>7 DEF Resolved
  <2> QED BY <2>1, <2>2, GoingOf DEF Has
<1>9. PICK last : last = IF x.r = "ok" /\ x.c.op = "next" THEN <<[k |-> "drain"]>> ELSE <<>> BY Zenon
<1>10. last \in Seq(Continuation) /\ ~Has(last, GoingInto)
  <2>2. PICK d : d = [k |-> "drain"] BY Zenon
  <2> QED BY <2>2, <1>9, NewContinuations, GoingOf, EmptyFacts DEF Has
<1>11. PICK a : a = rest \o r BY Zenon
<1>12. a \in Seq(Continuation) /\ (Has(a, GoingInto) <=> Has(rest, GoingInto) \/ Has(r, GoingInto))
  BY <1>1, <1>2, <1>8, <1>11, TypedParts, ContinuationFacts, JoinFacts DEF StartTurnContinues
<1>13. PICK b : b = a \o last BY Zenon
<1>14. Has(b, GoingInto) <=> Has(a, GoingInto) BY <1>10, <1>12, <1>13, JoinFacts
<1>15. micro' = b \/ micro' = a
  BY Zenon, <1>1, <1>2, <1>5, <1>7, <1>9, <1>11, <1>13 DEF StartTurnContinues
<1> QED
  BY <1>4, <1>8, <1>12, <1>14, <1>15, <1>1, <1>5 DEF Flow, Going, GoingInto, StartTurnContinues,
     link

LEMMA FlowSteerResumes == ASSUME Typed, Flow, SteerResumes PROVE Flow'
<1>2. CASE Head(micro).t = 0
  <2> QED BY <1>2, FlowTakes, FlowKeeps DEF SteerResumes
<1>3. CASE Head(micro).t # 0
  <2>1. Has(micro, GoingInto)
    <3> QED BY <1>3, TypedParts, GoingOf, TailFacts DEF SteerResumes
  <2> QED BY <2>1 DEF Flow, Going, GoingInto, SteerResumes
<1> QED BY <1>2, <1>3

LEMMA FlowContinues ==
  ASSUME Typed, Flow, DrainContinues \/ SteerContinues \/ InterruptResumes \/ InterruptContinues PROVE Flow'
<1> QED
  BY FlowTakes, FlowWithout, FlowKeeps DEF DrainContinues, SteerContinues, InterruptResumes,
     InterruptContinues, turn, link, SteerFalls

LEMMA FlowForceClose == ASSUME Typed, Flow, ForceClose PROVE Flow'
<1>2. CASE active = force
  <2> QED BY <1>2, FlowQuiet, FlowIdle, EmptyFacts DEF ForceClose, TurnOver
<1>3. CASE active # force
  <2> QED BY <1>3, FlowSame DEF ForceClose, flow
<1> QED BY <1>2, <1>3

LEMMA FlowLine ==
  ASSUME Typed, Flow, Chunk \/ Answered \/ Started \/ Claim \/ Completed \/ CallTimesOut \/ ConnectionLost
  PROVE  Flow'
<1>1. ~Has(micro, Going)
  BY FlowQuiet DEF Chunk, Answered, Started, Claim, Completed, CallTimesOut, ConnectionLost, Line
<1>3. \A c \in Call, r \in Answers, t \in Turn :
        [k |-> "answer", c |-> c, r |-> r, t |-> t] \in Continuation \ Going
  BY Zenon, NewContinuations, GoingOf
<1>5. ASSUME Chunk PROVE Flow'
  <2> QED BY <1>5, <1>1, FlowIdle DEF Flow, Chunk, turn
<1>6. ASSUME Answered PROVE Flow'
  <2>2. PICK x : x = [k |-> "answer", c |-> Head(inbox).c, r |-> Head(inbox).r, t |-> Head(inbox).t] BY Zenon
  <2>3. micro' = micro \/ micro' = Append(micro, x) BY <1>6, <2>2 DEF Answered
  <2>4. x \in Continuation \ Going
    <3> QED BY <2>2, <1>6, <1>3, TypedLine, OutputFacts DEF Answered
  <2> QED BY <1>6, <2>3, <2>4, <1>1, TypedParts, AppendFacts, FlowIdle DEF Flow, Answered, turn
<1>7. ASSUME Started PROVE Flow'
  <2> QED BY <1>7, <1>1, TypedLine, OutputFacts, FlowIdle DEF Flow, Started
<1>8. ASSUME Claim PROVE Flow'
  <2> QED BY <1>8, <1>1, FlowWithout, FlowIdle DEF Flow, Claim, Claims
<1>9. ASSUME Completed PROVE Flow'
  <2> QED BY <1>9, <1>1, FlowIdle, EmptyFacts DEF Flow, Completed, TurnOver
<1>10. ASSUME CallTimesOut PROVE Flow'
  <2>2. PICK c \in Elems(wait) : micro' = <<[k |-> "answer", c |-> c, r |-> "lost", t |-> 0]>>
    BY <1>10 DEF CallTimesOut
  <2>3. PICK x : x = [k |-> "answer", c |-> c, r |-> "lost", t |-> 0] BY Zenon
  <2> QED
    BY <1>10, <2>3, <1>3, <2>2, TypedParts, ZeroIsTurn, FlowIdle DEF Flow, CallTimesOut, turn, Has,
       Answers, Elems
<1>11. ASSUME ConnectionLost PROVE Flow'
  <2>2. \A k \in DOMAIN wait : wait[k] \in Call BY TypedParts
  <2> QED BY <1>11, <2>2, <1>3, ZeroIsTurn, FlowIdle, EmptyFacts DEF ConnectionLost, Has, Answers
<1> QED BY <1>5, <1>6, <1>7, <1>8, <1>9, <1>10, <1>11

LEMMA FlowStep == ASSUME Typed, Flow, [Next]_vars PROVE Flow'
<1>1. CASE \E i \in Inputs : Submit(i) \/ EnqueueFollowup(i) \/ Remove(i) BY <1>1, FlowSubmit, FlowStays
<1>2. CASE \E cs \in {"user", "interrupt"} : Cancel(cs) BY <1>2, FlowStays
<1>3. CASE InterruptTurn \/ StartTurnContinues \/ DrainContinues \/ SteerResumes \/ SteerContinues
           \/ InterruptResumes \/ InterruptContinues
  BY <1>3, FlowStays, FlowStartTurn, FlowSteerResumes, FlowContinues
<1>4. CASE ForceClose \/ Chunk \/ Answered \/ Started \/ Claim \/ Completed \/ CallTimesOut \/ ConnectionLost
  BY <1>4, FlowForceClose, FlowLine
<1>5. CASE ConnectionRestored \/ PermanentLoss BY <1>5, FlowStays
<1>6. CASE ServerStarts \/ ServerRefuses \/ ServerErrs \/ ServerSteers \/ ServerInterrupts
           \/ ServerShows \/ ServerCompletes \/ ServerAborts
  BY <1>6, FlowStays
<1>7. CASE UNCHANGED vars BY <1>7, FlowStays
<1> QED BY <1>1, <1>2, <1>3, <1>4, <1>5, <1>6, <1>7 DEF Next

-----------------------------------------------------------------------------
(* A cancel that awaits the turn that starts covers no steer: Early is kept.  *)

LEMMA EarlyKept ==
  ASSUME NEW i, Early(i), Pends' => Pends, i \in gone' \cup cover' => i \in gone \cup cover,
         InSteers(i)' => InSteers(i) \/ i \notin gone \cup cover
  PROVE  Early(i)'
BY DEF Early

LEMMA EarlySame ==
  ASSUME NEW i, Early(i), waiting' = waiting, micro' = micro,
         i \in gone' \cup cover' => i \in gone \cup cover, InSteers(i)' => InSteers(i)
  PROVE  Early(i)'
<1> QED BY EarlyKept DEF Pends, CancelJoining, CancelResumed

LEMMA PendsNot ==
  ASSUME Typed, NEW x, waiting' = Append(waiting, x), micro' = micro, x \in Waiter \ CancelJoining
  PROVE  Pends' => Pends
<1> QED BY TypedParts, AppendFacts DEF Pends, CancelJoining, CancelResumed

LEMMA EarlySubmit ==
  ASSUME Typed, NEW i \in Inputs, Accounted(i), Early(i), NEW j \in Inputs, Submit(j) PROVE Early(i)'
<1>1. micro' = micro /\ gone' = gone /\ cover' = cover /\ j \in new BY DEF Submit
<1>2. PICK s : s = [op |-> "steer", i |-> j] BY Zenon
<1>3. PICK u : u = [op |-> "interrupt", i |-> j] BY Zenon
<1>4. s \in Waiter \ CancelJoining /\ u \in Waiter \ CancelJoining
  <2> QED BY <1>2, <1>3, InputAssumption DEF CancelJoining, Waiter, Who
<1>6. Pends' => Pends
  <2>1. CASE waiting' = waiting BY <2>1, <1>1 DEF Pends, CancelJoining, CancelResumed
  <2>2. CASE waiting' = Append(waiting, s) BY <2>2, <1>1, <1>4, PendsNot
  <2>3. CASE waiting' = Append(waiting, u) BY <2>3, <1>1, <1>4, PendsNot
  <2> QED
    BY <1>2, <1>3, <2>1, <2>2, <2>3 DEF Submit, SubmitIdle, SubmitQueued, SubmitSteer, SubmitNow,
       SubmitRefused, Interrupt
<1>7. InSteers(i)' => InSteers(i) \/ i = j
  <2>2. Has(Append(steered, j), {i}) => Has(steered, {i}) \/ i = j BY TypedParts, AppendFacts
  <2> QED
    BY <2>2 DEF InSteers, Submit, SubmitIdle, SubmitQueued, SubmitSteer, SubmitNow, SubmitRefused
<1> QED BY <1>1, <1>6, <1>7, EarlyKept DEF Accounted, Covered

LEMMA EarlyCancel ==
  ASSUME Typed, Flow, NEW i \in Inputs, Early(i), NEW cs \in {"user", "interrupt"}, Cancel(cs) PROVE Early(i)'
<1>4. CASE cs = "interrupt" /\ active # 0
  <2> QED
    BY <1>4, EmptyFacts DEF Early, Pends, CancelJoining, CancelResumed, Cancel, Elems, Has,
       Interrupt, Busy, Quiet
<1>5. CASE cs = "interrupt" /\ active = 0
  <2> QED BY <1>5 DEF Early, Flow, InSteers, Has, Cancel, Quiet
<1>6. CASE cs = "user"
  <2>3. PICK u : u = [op |-> "interrupt", i |-> "user"] BY Zenon
  <2> QED
    BY <1>6, <2>3, PendsNot, EarlySame, EarlyKept DEF Cancel, Superseded, Interrupt, Waiter, Who,
       CancelJoining, InSteers, Quiet
<1> QED BY <1>4, <1>5, <1>6

LEMMA EarlyStays ==
  ASSUME Typed, NEW i \in Inputs, Early(i), NEW j,
         \/ EnqueueFollowup(j) \/ Remove(j) \/ InterruptTurn \/ ForceClose \/ Chunk \/ Started \/ Claim \/ Completed
         \/ ConnectionRestored \/ PermanentLoss
         \/ ServerStarts \/ ServerRefuses \/ ServerErrs \/ ServerSteers \/ ServerInterrupts
         \/ ServerShows \/ ServerCompletes \/ ServerAborts \/ UNCHANGED vars
  PROVE  Early(i)'
<1> DEFINE keeps == <<waiting, micro, gone, cover>>
<1>1. ASSUME keeps' = keeps, steered' = steered \/ steered' = <<>> \/ \E x : steered' = Without(steered, x)
      PROVE  Early(i)'
  <2> QED BY <1>1, SteeredWithout, EmptyFacts, EarlySame DEF InSteers
<1>2. ASSUME EnqueueFollowup(j) \/ Remove(j) \/ ConnectionRestored \/ PermanentLoss
      PROVE  keeps' = keeps /\ steered' = steered
  BY <1>2 DEF EnqueueFollowup, Remove, ConnectionRestored, PermanentLoss, history
<1>3. ASSUME InterruptTurn PROVE keeps' = keeps /\ steered' = steered
  BY <1>3 DEF InterruptTurn, Interrupt, history
<1>4. ASSUME ForceClose \/ Completed
      PROVE  keeps' = keeps /\ (steered' = steered \/ steered' = <<>>)
  BY Zenon, <1>4 DEF ForceClose, Completed, TurnOver
<1>5. ASSUME Chunk \/ Started PROVE keeps' = keeps /\ steered' = steered BY <1>5 DEF Chunk, Started, history
<1>6. ASSUME Claim PROVE keeps' = keeps /\ (steered' = steered \/ \E x : steered' = Without(steered, x))
  BY <1>6 DEF Claim, Claims
<1>7. ASSUME serverKeeps' = serverKeeps PROVE keeps' = keeps /\ steered' = steered
  BY <1>7 DEF serverKeeps, history
<1>8. ASSUME \/ ServerStarts \/ ServerRefuses \/ ServerErrs \/ ServerSteers \/ ServerInterrupts
             \/ ServerShows \/ ServerCompletes \/ ServerAborts
      PROVE  serverKeeps' = serverKeeps
  BY <1>8 DEF ServerStarts, ServerRefuses, ServerErrs, ServerSteers, ServerInterrupts, ServerShows,
              ServerCompletes, ServerAborts, serverLeaves
<1>9. ASSUME UNCHANGED vars PROVE keeps' = keeps /\ steered' = steered BY <1>9 DEF vars, history
<1> HIDE DEF keeps
<1> QED BY <1>1, <1>2, <1>3, <1>4, <1>5, <1>6, <1>7, <1>8, <1>9

LEMMA EarlyStartTurn ==
  ASSUME Typed, NEW i \in Inputs, Early(i), StartTurnContinues PROVE Early(i)'
<1>1. PICK x : x = Head(micro) OBVIOUS
<1>2. PICK rest : rest = Tail(micro) BY Zenon
<1>3. /\ x \in Continuation /\ x.t \in Turn /\ micro \in Seq(Continuation) /\ micro # <<>>
      /\ rest \in Seq(Continuation) /\ waiting \in Seq(Waiter)
  BY Zenon, <1>1, <1>2, TypedParts, ContinuationFacts DEF StartTurnContinues
<1>5. PICK t : t = IF x.r = "ok" THEN x.t ELSE 0 OBVIOUS
<1>7. PICK r : r = Resolved(t) OBVIOUS
<1>8. r \in Seq(Continuation) /\ (Has(r, CancelResumed) => Has(waiting, CancelJoining))
  <2>1. r \in Seq(Continuation) BY <1>3, <1>5, <1>7, ZeroIsTurn, ResolvedTypes
  <2>3. \A k \in DOMAIN r : r[k] \in CancelResumed => waiting[k] \in CancelJoining
    <3> TAKE k \in DOMAIN r
    <3>1. PICK w : w = waiting[k] OBVIOUS
    <3> QED BY <3>1, <2>1, <1>7, <1>3, CancelOf DEF CancelJoining, Waiter, Resolved
  <2> QED BY <2>1, <1>7, <2>3 DEF Has, Resolved
<1>9. PICK last : last = IF x.r = "ok" /\ x.c.op = "next" THEN <<[k |-> "drain"]>> ELSE <<>> BY Zenon
<1>10. last \in Seq(Continuation) /\ ~Has(last, CancelResumed)
  <2>2. PICK d : d = [k |-> "drain"] BY Zenon
  <2> QED BY <2>2, <1>9, NewContinuations, CancelOf, EmptyFacts DEF Has
<1>11. PICK a : a = rest \o r BY Zenon
<1>12. a \in Seq(Continuation) /\ (Has(a, CancelResumed) <=> Has(rest, CancelResumed) \/ Has(r, CancelResumed))
  BY <1>3, <1>8, <1>11, JoinFacts
<1>13. PICK b : b = a \o last BY Zenon
<1>14. Has(b, CancelResumed) <=> Has(a, CancelResumed) BY <1>10, <1>12, <1>13, JoinFacts
<1>15. micro' = b \/ micro' = a
  BY Zenon, <1>1, <1>2, <1>5, <1>7, <1>9, <1>11, <1>13 DEF StartTurnContinues
<1>16. Has(micro', CancelResumed) => Pends
  BY <1>2, <1>3, <1>8, <1>12, <1>14, <1>15, TailFacts DEF Pends
<1> QED
  BY <1>16, EmptyFacts, EarlyKept DEF StartTurnContinues, InSteers, Pends, CancelJoining,
     CancelResumed

(* The first continuation runs, and leaves what is ready.                     *)
LEMMA PendsTaken ==
  ASSUME Typed, micro # <<>>, micro' = Tail(micro), waiting' = waiting PROVE Pends' => Pends
<1> QED BY TypedParts, TailFacts DEF Pends, CancelJoining, CancelResumed

LEMMA EarlyContinues ==
  ASSUME Typed, NEW i \in Inputs, Accounted(i), Early(i),
         DrainContinues \/ SteerResumes \/ SteerContinues \/ InterruptResumes \/ InterruptContinues
  PROVE  Early(i)'
<1>3. i \in gone' \cup cover' => i \in gone \cup cover
  <2>1. CASE DrainContinues \/ SteerResumes \/ SteerContinues
    BY <2>1 DEF DrainContinues, SteerResumes, SteerContinues, history
  <2>2. CASE InterruptResumes \/ InterruptContinues
    BY <2>2 DEF InterruptResumes, InterruptContinues, Superseded
  <2> QED BY <2>1, <2>2
<1>4. CASE ~SteerResumes
  <2> QED
    BY <1>3, <1>4, PendsTaken, SteeredWithout, EarlyKept DEF InSteers, DrainContinues,
       SteerContinues, SteerFalls, InterruptResumes, InterruptContinues, SteerResumes
<1>5. CASE SteerResumes
  <2>1. PICK j : j = Head(micro).i OBVIOUS
  <2>4. Has(Append(steered, j), {i}) => Has(steered, {i}) \/ i = j
    BY <1>5, <2>1, TypedParts, ContinuationFacts, AppendFacts DEF SteerResumes
  <2> QED
    BY <1>3, <1>5, <2>1, <2>4, PendsTaken, TakenFacts, EarlyKept DEF InSteers, Accounted, Covered,
       SteerResumes, DrainContinues, SteerContinues, InterruptResumes, InterruptContinues
<1> QED BY <1>4, <1>5

(* Only answers become ready when lines are taken, a call times out or the    *)
(* connection is lost.                                                        *)
LEMMA EarlyAnswers ==
  ASSUME Typed, NEW i \in Inputs, Early(i), Answered \/ CallTimesOut \/ ConnectionLost PROVE Early(i)'
<1>5. \A c \in Call, r \in Answers, t \in Turn :
        [k |-> "answer", c |-> c, r |-> r, t |-> t] \in Continuation \ CancelResumed
  BY Zenon, NewContinuations, CancelOf
<1>7. Has(micro', CancelResumed) => Has(micro, CancelResumed)
  <2>1. ASSUME Answered PROVE Has(micro', CancelResumed) => Has(micro, CancelResumed)
    <3>1. PICK x : x = [k |-> "answer", c |-> Head(inbox).c, r |-> Head(inbox).r, t |-> Head(inbox).t] BY Zenon
    <3>2. micro' = micro \/ micro' = Append(micro, x) BY <2>1, <3>1 DEF Answered
    <3>4. x \in Continuation \ CancelResumed
      BY <3>1, <2>1, <1>5, TypedLine, OutputFacts DEF Answered
    <3> QED BY <3>2, <3>4, TypedParts, AppendFacts
  <2>2. ASSUME CallTimesOut PROVE ~Has(micro', CancelResumed)
    <3>1. PICK c \in Elems(wait) : micro' = <<[k |-> "answer", c |-> c, r |-> "lost", t |-> 0]>>
      BY <2>2 DEF CallTimesOut
    <3>2. PICK x : x = [k |-> "answer", c |-> c, r |-> "lost", t |-> 0] BY Zenon
    <3> QED BY <3>2, <1>5, <3>1, TypedParts, ZeroIsTurn DEF Has, Answers, Elems
  <2>3. ASSUME ConnectionLost PROVE ~Has(micro', CancelResumed)
    <3>2. \A k \in DOMAIN wait : wait[k] \in Call BY TypedParts
    <3> QED BY <2>3, <3>2, <1>5, ZeroIsTurn DEF Has, Answers, ConnectionLost
  <2> QED BY <2>1, <2>2, <2>3
<1> QED
  BY <1>7, EmptyFacts, EarlyKept DEF Pends, CancelJoining, CancelResumed, Answered, CallTimesOut,
     ConnectionLost, history, InSteers

-----------------------------------------------------------------------------
(* The inductive invariant, and what it says of every input.                  *)

LEMMA InitInv == Init => InputInv
<1> SUFFICES ASSUME Init PROVE InputInv OBVIOUS
<1>4. ASSUME NEW i \in Inputs PROVE Accounted(i) /\ Early(i)
  <2>1. ~InQueue(i) /\ ~InSteers(i) /\ ~Joins(i) /\ ~Resumes(i) /\ ~Asked(i)
    BY EmptyFacts DEF Init, InQueue, InSteers, Joins, Resumes, Asked
  <2> QED BY <2>1, EmptyFacts DEF Accounted, Init, Covered, Early, Lone, Waits, Told
<1> QED BY <1>4, EmptyFacts, TypedInit DEF InputInv, Init, Flow

LEMMA AccountedStep ==
  ASSUME Typed, Flow, NEW i \in Inputs \ fell', Accounted(i), Early(i), [Next]_vars PROVE Accounted(i)'
<1>1. CASE \E j \in Inputs : Submit(j) \/ EnqueueFollowup(j) \/ Remove(j)
  BY <1>1, AccSubmit, AccEnqueue, AccRemove
<1>2. CASE \E cs \in {"user", "interrupt"} : Cancel(cs) BY <1>2, AccCancel
<1>3. CASE InterruptTurn \/ StartTurnContinues \/ DrainContinues \/ SteerResumes \/ SteerContinues
           \/ InterruptResumes \/ InterruptContinues
  BY <1>3, AccInterruptTurn, AccStartTurn, AccDrainContinues, AccSteerResumes, AccSteer,
     AccInterruptResumes, AccInterrupt
<1>4. CASE ForceClose \/ Answered \/ Claim \/ Completed
  BY <1>4, AccForceClose, AccAnswered, AccClaim, AccCompleted
<1>5. CASE CallTimesOut \/ ConnectionLost \/ ConnectionRestored \/ PermanentLoss
  BY <1>5, AccTimesOut, AccLost, AccRestored, AccPermanent
<1>6. CASE Chunk \/ Started \/ ServerStarts \/ ServerRefuses \/ ServerErrs \/ ServerSteers \/ ServerInterrupts
           \/ ServerShows \/ ServerCompletes \/ ServerAborts \/ UNCHANGED vars
  BY <1>6, AccRest
<1> QED BY <1>1, <1>2, <1>3, <1>4, <1>5, <1>6 DEF Next

LEMMA EarlyStep ==
  ASSUME Typed, Flow, NEW i \in Inputs, Accounted(i), Early(i), [Next]_vars PROVE Early(i)'
<1>1. CASE \E j \in Inputs : Submit(j) \/ EnqueueFollowup(j) \/ Remove(j) BY <1>1, EarlySubmit, EarlyStays
<1>2. CASE \E cs \in {"user", "interrupt"} : Cancel(cs) BY <1>2, EarlyCancel
<1>3. CASE InterruptTurn \/ StartTurnContinues \/ DrainContinues \/ SteerResumes \/ SteerContinues
           \/ InterruptResumes \/ InterruptContinues
  BY <1>3, EarlyStays, EarlyStartTurn, EarlyContinues
<1>4. CASE ForceClose \/ Chunk \/ Answered \/ Started \/ Claim \/ Completed \/ CallTimesOut \/ ConnectionLost
  BY <1>4, EarlyStays, EarlyAnswers
<1>5. CASE ConnectionRestored \/ PermanentLoss BY <1>5, EarlyStays
<1>6. CASE ServerStarts \/ ServerRefuses \/ ServerErrs \/ ServerSteers \/ ServerInterrupts
           \/ ServerShows \/ ServerCompletes \/ ServerAborts \/ UNCHANGED vars
  BY <1>6, EarlyStays
<1> QED BY <1>1, <1>2, <1>3, <1>4, <1>5, <1>6 DEF Next

(* That a turn/steer failed is not forgotten.                                 *)
LEMMA FellGrows == ASSUME [Next]_vars PROVE fell \subseteq fell'
<1>1. ASSUME \E i \in Inputs : Submit(i) \/ EnqueueFollowup(i) \/ Remove(i) PROVE fell' = fell
  BY <1>1 DEF Submit, EnqueueFollowup, Remove
<1>2. ASSUME \E cs \in {"user", "interrupt"} : Cancel(cs) PROVE fell' = fell BY <1>2 DEF Cancel
<1>3. ASSUME InterruptTurn \/ StartTurnContinues \/ DrainContinues \/ SteerResumes \/ InterruptResumes \/ InterruptContinues
      PROVE  fell' = fell
  BY Zenon, <1>3 DEF InterruptTurn, StartTurnContinues, DrainContinues, SteerResumes, InterruptResumes,
              InterruptContinues, history
<1>4. ASSUME SteerContinues PROVE fell \subseteq fell' BY <1>4 DEF SteerContinues, SteerFalls
<1>5. ASSUME ForceClose \/ Chunk \/ Answered \/ Started \/ Claim \/ Completed PROVE fell' = fell
  BY Zenon, <1>5 DEF ForceClose, Chunk, Answered, Started, Claim, Completed, history
<1>6. ASSUME CallTimesOut \/ ConnectionLost \/ ConnectionRestored \/ PermanentLoss PROVE fell' = fell
  BY <1>6 DEF CallTimesOut, ConnectionLost, ConnectionRestored, PermanentLoss, history
<1>7. ASSUME \/ ServerStarts \/ ServerRefuses \/ ServerErrs \/ ServerSteers \/ ServerInterrupts
             \/ ServerShows \/ ServerCompletes \/ ServerAborts
      PROVE  fell' = fell
  BY <1>7 DEF ServerStarts, ServerRefuses, ServerErrs, ServerSteers, ServerInterrupts, ServerShows,
              ServerCompletes, ServerAborts, serverLeaves, serverKeeps, history
<1>8. ASSUME UNCHANGED vars PROVE fell' = fell BY <1>8 DEF vars, history
<1> QED BY <1>1, <1>2, <1>3, <1>4, <1>5, <1>6, <1>7, <1>8 DEF Next

LEMMA StepInv == InputInv /\ [Next]_vars => InputInv'
<1> SUFFICES ASSUME InputInv, [Next]_vars PROVE InputInv' OBVIOUS
<1>4. ASSUME NEW i \in Inputs \ fell' PROVE Accounted(i)' /\ Early(i)'
  <2> QED BY FellGrows, AccountedStep, EarlyStep DEF InputInv
<1> QED BY <1>4, FlowStep, TypedStep DEF InputInv

(* Of every input whose turn/steer did not fail: it is in one place at a time *)
(* (new, queued, about to be steered, steered, or asked for with turn/start), *)
(* once; a reported discard or drop leaves it in none; and a cancel(interrupt) *)
(* that covers it leaves it no other place than the turn it stops.            *)
THEOREM InputInvariant == Spec => []InputInv
BY InitInv, StepInv, PTL DEF Spec

(* "a discarded one never will": an input that was reported discarded or      *)
(* dropped is not queued, sent or steered again, unless its turn/steer failed. *)
THEOREM GoneIsGone == Spec => []GoneStaysGone
<1>1. InputInv => GoneStaysGone
  <2> SUFFICES ASSUME InputInv, NEW i \in Held, said[i] \cap {"discarded", "dropped"} # {}, i \notin fell PROVE FALSE
    BY DEF GoneStaysGone
  <2>1. i \in Inputs
    <3> QED BY QueuedTypes DEF Held, InputInv, Typed, TypeOK
  <2> QED BY <2>1, QueuedIs DEF Held, Told, Waits, InputInv, Accounted
<1> QED BY <1>1, InputInvariant, PTL

(* A cancel(interrupt) that was confirmed leaves nothing that its receipt or  *)
(* the discards it reported covered in the queue or sent with turn/start.     *)
THEOREM ConfirmedIsGone == Spec => []ConfirmedGone
<1>1. InputInv => ConfirmedGone
  <2> SUFFICES ASSUME InputInv, NEW i \in gone, i \in Queued \cup started, i \notin fell PROVE FALSE
    BY DEF ConfirmedGone
  <2> QED BY QueuedIs DEF Covered, InputInv, Accounted, Typed, TypeOK
<1> QED BY <1>1, InputInvariant, PTL

-----------------------------------------------------------------------------

(* The empty sequence, and one that gains or loses an end.                    *)
LEMMA NothingBefore ==
  /\ \A H : ~Has(<<>>, H) /\ Once(<<>>, H)
  /\ \A A, B : Before(<<>>, A, B)
BY DEF Has, Once, Before

LEMMA Adding == ASSUME NEW D, NEW s \in Seq(D), NEW e \in D PROVE Adds(s, Append(s, e), e)
<1>1. PICK t : t = Append(s, e) BY Zenon
<1>3. ASSUME NEW A, NEW B, Before(s, A, B), e \in B => ~Has(s, A) PROVE Before(t, A, B)
  <2> SUFFICES ASSUME NEW j \in DOMAIN t, NEW k \in DOMAIN t, t[j] \in A, t[k] \in B PROVE j >= k
    BY DEF Before
  <2>1. CASE k \in DOMAIN s /\ j \in DOMAIN s BY <2>1, <1>1, <1>3 DEF Before
  <2>2. CASE k \in DOMAIN s /\ j \notin DOMAIN s BY <2>2, <1>1
  <2>3. CASE k \notin DOMAIN s
    <3> QED BY <2>3, <1>1, <1>3 DEF Has
  <2> QED BY <2>1, <2>2, <2>3
<1> QED BY <1>1, <1>3, AppendFacts DEF Adds

LEMMA Cutting == ASSUME NEW D, NEW s \in Seq(D), s # <<>> PROVE Cuts(s, Tail(s), Head(s))
<1>1. PICK t : t = Tail(s) BY Zenon
<1>4. ASSUME NEW A, NEW B, Before(s, A, B) PROVE Before(t, A, B) /\ (Head(s) \in A => ~Has(t, B))
  <2>1. ASSUME NEW j \in DOMAIN t, NEW k \in DOMAIN t, t[j] \in A, t[k] \in B PROVE j >= k
    <3> QED BY <2>1, <1>1, <1>4 DEF Before
  <2>2. ASSUME Head(s) \in A, NEW k \in DOMAIN t, t[k] \in B PROVE FALSE
    <3> QED BY <2>2, <1>1, <1>4 DEF Before
  <2> QED BY <2>1, <2>2 DEF Before, Has
<1> QED BY <1>1, <1>4, TailFacts DEF Cuts

(* ... or loses every x.                                                      *)
LEMMA Thinning ==
  ASSUME NEW D, NEW s \in Seq(D), NEW x
  PROVE  /\ Thins(s, Without(s, x)) /\ ~Has(Without(s, x), {x})
         /\ \A H : Has(s, {x}) /\ x \in H /\ Once(s, H) => ~Has(Without(s, x), H)
<1>2. \A H : Has(s, H \cap (Elems(s) \ {x})) => Has(s, H) BY DEF Has
<1>3. ~Has(s, {x} \cap (Elems(s) \ {x})) BY DEF Has
<1>4. \A H : Has(s, {x}) /\ x \in H /\ Once(s, H) => ~Has(s, H \cap (Elems(s) \ {x})) BY DEF Has, Once
<1> QED BY Zenon, <1>2, <1>3, <1>4, KeptFacts DEF Thins, Without

-----------------------------------------------------------------------------

(* Which of these sets a record is in.                                        *)
LEMMA CallOf ==
  ASSUME NEW c \in Call
  PROVE  /\ c \in AnyStart <=> c.op \in {"start", "next"}
         /\ \A i : c \in Steers(i) <=> c.op = "steer" /\ c.i = i
         /\ \A i, t : c \in SteersInto(i, t) <=> c.op = "steer" /\ c.i = i /\ c.t = t
         /\ \A t : c \in Stopping(t) <=> c.op = "interrupt" /\ c.t = t
         /\ \A t : c \in Into(t) <=> c.op \in {"steer", "interrupt"} /\ c.t = t
<1>2. CASE c.op # "interrupt"
  <2> QED BY <1>2, CallFacts DEF AnyStart, Steers, SteersInto, Stopping, Into, Call
<1>3. CASE c.op = "interrupt"
  <2> QED BY <1>3 DEF AnyStart, Steers, SteersInto, Stopping, Into, Call
<1> QED BY <1>2, <1>3

LEMMA ContinuationOf ==
  ASSUME NEW x \in Continuation
  PROVE  /\ x \in AnyStarted <=> x.k = "answer" /\ x.c.op \in {"start", "next"}
         /\ \A t : x \in Named(t) <=> x.k = "answer" /\ x.c.op \in {"start", "next"} /\ x.r = "ok" /\ x.t = t
         /\ \A t : x \in Stopped(t) <=> x.k = "answer" /\ x.c.op = "interrupt" /\ x.c.t = t /\ x.r = "ok"
         /\ \A t : x \in GoingTo(t) <=> x.k = "resume" /\ x.t = t
         /\ \A t : x \in GoingToStop(t) <=> x.k = "resume" /\ x.op = "interrupt" /\ x.t = t
<1>2. CASE x.k = "answer"
  <2> QED
    BY <1>2, CallOf DEF AnyStarted, Named, Answers, Stopped, Continuation, GoingTo, GoingToStop
<1>3. CASE x.k = "resume"
  <2> QED BY <1>3 DEF AnyStarted, Named, Stopped, GoingTo, GoingToStop, Continuation
<1>4. CASE x.k = "drain"
  BY <1>4 DEF AnyStarted, Named, Stopped, GoingTo, GoingToStop
<1> QED BY <1>2, <1>3, <1>4, ContinuationFacts

LEMMA OutputOf ==
  ASSUME NEW o \in Output
  PROVE  /\ o.m \in {"answer", "started", "shown", "completed"} /\ o.t \in Turn
         /\ \A t : o \in Opening(t) <=> o.m = "answer" /\ o.c.op \in {"start", "next"} /\ o.r = "ok" /\ o.t = t
         /\ \A t : o \in Begins(t) <=> o.m = "started" /\ o.t = t
         /\ \A t : o \in Ends(t) <=> o.m = "completed" /\ o.t = t
         /\ \A t : o \in Follows(t) <=> o.m \in {"shown", "completed"} /\ o.t = t
         /\ \A t : o \in News(t) <=> (o.m = "shown" \/ (o.m = "completed" /\ ~o.interrupted)) /\ o.t = t
         /\ \A t : o \in Stops(t) <=> o.m = "answer" /\ o.c.op = "interrupt" /\ o.c.t = t /\ o.r = "ok"
         /\ \A c : o \in AnswersTo(c) <=> o.m = "answer" /\ o.c = c
<1>1. CASE o \in [m : {"answer"}, c : Call, r : Answers, t : Turn]
  <2>3. \A t : o.c \in Stopping(t) <=> o.c.op = "interrupt" /\ o.c.t = t BY <1>1, CallOf
  <2> QED BY <1>1, <2>3, CallOf DEF Begins, Ends, Follows, News, Opening, Stops, AnswersTo
<1>2. CASE o \in [m : {"started"}, t : Turn \ {0}]
  <2> QED BY <1>2 DEF Opening, Ends, Follows, News, Stops, AnswersTo, Begins
<1>3. CASE o \in [m : {"shown"}, t : Turn, i : Inputs \cup {Nothing}]
  <2> QED BY <1>3 DEF Opening, Begins, Ends, Stops, AnswersTo, Follows, News
<1>4. CASE o \in [m : {"completed"}, t : Turn, interrupted : BOOLEAN]
  <2> QED BY <1>4 DEF Opening, Begins, Stops, AnswersTo, Ends, Follows, News
<1> QED BY <1>1, <1>2, <1>3, <1>4 DEF Output

-----------------------------------------------------------------------------

-----------------------------------------------------------------------------

LEMMA Same == ASSUME NEW s PROVE Shorter(s, s)
BY DEF Shorter

LEMMA CutsShorter == ASSUME NEW s, NEW r, NEW e, Cuts(s, r, e) PROVE Shorter(s, r)
BY DEF Cuts, Shorter

(* In terms of what is sent.                                                  *)
LEMMA TalkFacts ==
  ASSUME Typed, Talks, NEW t \in Turns
  PROVE  /\ Has(toSrv', Into(t)) => Has(toSrv, Into(t)) \/ (active = t /\ Quiet) \/ Has(micro, GoingTo(t))
         /\ Has(toSrv', Stopping(t)) => Has(toSrv, Stopping(t)) \/ active = t \/ Has(micro, GoingToStop(t))
<1>1. CASE AsksNothing BY <1>1 DEF AsksNothing
<1>2. CASE AsksStart
  <2>1. PICK c \in AnyStart : Asks(c) BY <1>2 DEF AsksStart
  <2>3. Adds(toSrv, toSrv', c) BY <2>1, Adding, TypedParts DEF Asks, AnyStart, Call
  <2> QED BY <2>1, <2>3, CallOf DEF Adds, AnyStart, Call
<1>3. CASE AsksInto
  <2>1. PICK u \in Turns : \E c \in Into(u) :
          /\ Asks(c) /\ c \in Call
          /\ (active = u /\ Quiet) \/ Has(micro, GoingTo(u))
          /\ c \in Stopping(u) => active = u \/ Has(micro, GoingToStop(u))
    BY <1>3 DEF AsksInto
  <2>2. PICK c \in Into(u) :
          /\ Asks(c) /\ c \in Call
          /\ (active = u /\ Quiet) \/ Has(micro, GoingTo(u))
          /\ c \in Stopping(u) => active = u \/ Has(micro, GoingToStop(u))
    BY <2>1
  <2>3. Adds(toSrv, toSrv', c) BY <2>2, Adding, TypedParts DEF Asks
  <2> QED BY <2>2, <2>3, CallOf DEF Adds
<1> QED BY <1>1, <1>2, <1>3 DEF Talks

LEMMA TalkKnown ==
  ASSUME Typed, Talks, NEW t \in Turns
  PROVE  (Halting(t)' => Halting(t)) /\ (Known(t)' => Known(t) \/ (active = t /\ Quiet))
<1> QED BY TalkFacts DEF Talks, Shorter, Known, Halting, Turns

LEMMA TalkServes == ASSUME Typed, Talks, Serves PROVE Serves'
<1>1. ~Has(toSrv', Into(0))
  <2>1. CASE AsksNothing BY <2>1 DEF AsksNothing, Serves
  <2>2. CASE AsksStart \/ AsksInto
    <3>1. PICK c \in Call : Asks(c) /\ c \notin Into(0)
      <4>1. CASE AsksStart
        <5>1. PICK c \in AnyStart : Asks(c) BY <4>1 DEF AsksStart
        <5> QED BY <5>1, CallOf DEF AnyStart, Call
      <4>2. CASE AsksInto
        <5>1. PICK t \in Turns : \E c \in Into(t) : Asks(c) /\ c \in Call BY <4>2 DEF AsksInto
        <5>2. PICK c \in Into(t) : Asks(c) /\ c \in Call BY <5>1
        <5> QED BY <5>2, <5>1, CallOf DEF Turns
      <4> QED BY <2>2, <4>1, <4>2
    <3> QED BY <3>1, Adding, TypedParts DEF Adds, Serves, Asks
  <2> QED BY <2>1, <2>2 DEF Talks
<1> QED BY <1>1 DEF Serves, Idle, Talks, Shorter

LEMMA TalkOrder ==
  ASSUME Talks, NEW t \in Turns, Ordered(t), Emitted(t) PROVE Ordered(t)' /\ Emitted(t)'
<1> QED BY DEF Talks, Shorter, Ordered, Turns, Turn, Emitted

LEMMA TalkPast ==
  ASSUME Typed, Talks, NEW t \in Turns, Past(t) PROVE Past(t)'
<1> QED BY TalkKnown DEF Talks, Shorter, Past, Turns

LEMMA TalkLatest == ASSUME Typed, Talks, NEW t \in Turns, Latest(t) PROVE Latest(t)'
<1>2. ASSUME NEW u \in Turns, Has(micro', Named(u)), Known(t)' PROVE t <= u
  <2> QED BY <1>2, NothingBefore, TalkKnown DEF Latest, Quiet, Talks, Shorter
<1> QED BY <1>2 DEF Latest, Turns, Turn

LEMMA TalkNotCut ==
  ASSUME Typed, Talks, NEW t \in Turns, NotCut(t) PROVE NotCut(t)'
<1> SUFFICES ASSUME Known(t)', active' # 0, active' < t PROVE ~Halting(active)' BY DEF NotCut
<1>4. ~Halting(active) BY TypedParts, TalkKnown DEF NotCut, Turns, Turn, Talks
<1>5. PICK u \in Turns : u = active BY TypedParts DEF Talks, Turns
<1> QED BY <1>4, <1>5, TypedParts, TalkKnown DEF Halting, Stopped, Stops, Stopping, Talks, Turns

LEMMA TalkSilent ==
  ASSUME Talks, ended' = ended, NEW t \in Turns, Silent(t) PROVE Silent(t)'
BY DEF Talks, Shorter, Silent, Turns

LEMMA TalkAnnounced ==
  ASSUME Talks, NEW t \in Turns, Announced(t), active = t => active' = t \/ t \in ended',
         Has(inbox, Begins(t)) => Has(inbox', Begins(t))
  PROVE  Announced(t)'
BY DEF Talks, Shorter, Announced

LEMMA TalkEntered ==
  ASSUME Typed, Talks, active' = active, NEW t \in Turns, Entered(t) PROVE Entered(t)'
<1> QED BY TalkKnown, TalkFacts DEF Talks, Shorter, Entered, Turns

LEMMA SingleNext ==
  Single' <=>
    /\ Has(wait', AnyStart) \/ Has(micro', AnyStarted) => starting'
    /\ Once(wait', AnyStart) /\ Once(micro', AnyStarted)
    /\ ~(Has(wait', AnyStart) /\ Has(micro', AnyStarted))
<1> QED BY DEF Single, AnyStarted, Answers, Turn, AnyStart

LEMMA TalkSingle == ASSUME Typed, Talks, Single PROVE Single'
<1>1. CASE AsksNothing BY <1>1, SingleNext DEF AsksNothing, Talks, Shorter, Single
<1>2. CASE AsksStart
  <2>1. PICK c \in AnyStart : Asks(c) BY <1>2 DEF AsksStart
  <2>4. Adds(wait, wait', c) BY <2>1, Adding, TypedParts DEF Asks, AnyStart, Call
  <2> QED BY <1>2, <2>4, SingleNext DEF Adds, Talks, Shorter, Single, AsksStart
<1>3. CASE AsksInto
  <2>1. PICK u \in Turns : \E c \in Into(u) : Asks(c) /\ c \in Call /\ starting' = starting
    BY <1>3 DEF AsksInto
  <2>2. PICK c \in Into(u) : Asks(c) /\ c \in Call /\ starting' = starting BY <2>1
  <2> QED BY <2>2, CallOf, Adding, TypedParts, SingleNext DEF Adds, Talks, Shorter, Single, Asks
<1> QED BY <1>1, <1>2, <1>3 DEF Talks

LEMMA BehindNext ==
  ASSUME NEW u \in Turns,
         active' = u \/ (Has(inbox', Begins(u)) /\ u \notin ended') =>
           \A c \in AnyStart : Has(wait', {c}) =>
             /\ Before(toSrv', Stopping(u), {c}) /\ (Has(toSrv', {c}) => ~Halting(u)')
             /\ Before(inbox', Stops(u), AnswersTo(c))
             /\ Has(inbox', AnswersTo(c)) => force' # u /\ ~Has(micro', Stopped(u))
  PROVE  Behind(u)'
<1> QED BY DEF Behind, AnyStart, Turn

(* What a turn/start that is sent now is behind.                              *)
LEMMA TalkBehind ==
  ASSUME Typed, Talks, Single, NEW u \in Turns, Behind(u), Entered(u)' PROVE Behind(u)'
<1> SUFFICES ASSUME active' = u \/ (Has(inbox', Begins(u)) /\ u \notin ended'),
                    NEW c \in AnyStart, Has(wait', {c})
             PROVE  /\ Before(toSrv', Stopping(u), {c}) /\ (Has(toSrv', {c}) => ~Halting(u)')
                    /\ Before(inbox', Stops(u), AnswersTo(c))
                    /\ Has(inbox', AnswersTo(c)) => force' # u /\ ~Has(micro', Stopped(u))
  BY BehindNext
<1>4. ASSUME Has(wait, {c}), Before(toSrv, Stopping(u), {c}) => Before(toSrv', Stopping(u), {c}),
             Has(toSrv', {c}) => Has(toSrv, {c})
      PROVE  /\ Before(toSrv', Stopping(u), {c}) /\ (Has(toSrv', {c}) => ~Halting(u)')
             /\ Before(inbox', Stops(u), AnswersTo(c))
             /\ Has(inbox', AnswersTo(c)) => force' # u /\ ~Has(micro', Stopped(u))
  BY <1>4, TalkKnown DEF Behind, Talks, Shorter, Turns
<1>5. CASE AsksNothing BY <1>4, <1>5 DEF AsksNothing
<1>6. CASE AsksStart
  <2>1. PICK d \in AnyStart : Asks(d) BY <1>6 DEF AsksStart
  <2>5. ~Has(wait, {c})
    <3> QED BY <1>6 DEF Single, Has, AsksStart
  <2> QED BY <1>6 DEF Halting, Turns, Has, Before, Entered, AsksStart
<1>7. CASE AsksInto
  <2>1. PICK v \in Turns : \E d \in Into(v) : Asks(d) /\ d \in Call BY <1>7 DEF AsksInto
  <2>2. PICK d \in Into(v) : Asks(d) /\ d \in Call BY <2>1
  <2>4. d \notin {c} BY <2>2, CallOf
  <2> QED BY <2>2, <2>4, <1>4, Adding, TypedParts DEF Adds, Asks
<1> QED BY <1>5, <1>6, <1>7 DEF Talks

(* Which steps those are.                                                     *)
LEMMA DrainAsks ==
  ASSUME Typed, NEW q \in Seq(Entry), NEW act, NEW kept, Drain(q, act, starting, kept), act = active'
  PROVE  AsksNothing \/ AsksStart
<1>1. CASE ~offline' /\ ~closed' /\ act = 0 /\ ~starting /\ q # <<>>
  <2>1. PICK j : j = Head(q).id OBVIOUS
  <2>2. j \in Inputs
    <3>1. PICK e : e = Head(q) OBVIOUS
    <3>2. e \in Entry BY <1>1, <3>1
    <3> QED BY <2>1, <3>1, <3>2 DEF Entry
  <2>3. PICK c : c = [op |-> "next", i |-> j, t |-> 0] BY Zenon
  <2> QED
    BY <1>1, <2>1, <2>3, <2>2, ZeroIsTurn DEF AsksStart, Drain, StartTurn, Sends, Asks, AnyStart
<1>2. CASE ~(~offline' /\ ~closed' /\ act = 0 /\ ~starting /\ q # <<>>)
  BY <1>2 DEF Drain, SendsNothing, AsksNothing
<1> QED BY <1>1, <1>2

LEMMA InterruptAsks ==
  ASSUME Typed, NEW w \in Who, Interrupt(w), starting' = starting, Quiet PROVE AsksNothing \/ AsksInto
<1>1. CASE active # 0
  <2>2. PICK c : c = [op |-> "interrupt", i |-> w, t |-> active] BY Zenon
  <2> QED
    BY <1>1, <2>2, TypedParts, NewCalls DEF AsksInto, Into, Stopping, Turns, Interrupt, Sends, Asks
<1>2. CASE active = 0 BY <1>2 DEF Interrupt, SendsNothing, AsksNothing
<1> QED BY <1>1, <1>2

LEMMA SteerAsks ==
  ASSUME Typed, NEW i \in Inputs, NEW t \in Turns, Sends([op |-> "steer", i |-> i, t |-> t]), starting' = starting,
         (active = t /\ Quiet) \/ Has(micro, GoingTo(t))
  PROVE  AsksInto
<1>1. PICK c : c = [op |-> "steer", i |-> i, t |-> t] OBVIOUS
<1> QED BY <1>1, NewCalls DEF AsksInto, Into, Turns, Stopping, Sends, Asks

LEMMA CalmIs ==
  ASSUME srv' = srv, turns' = turns, inbox' = inbox, Shorter(micro, micro'),
         active' = active, ended' = ended, force' = force, AsksNothing \/ AsksStart \/ AsksInto
  PROVE  Calm
BY Same DEF Calm, Talks

LEMMA MicroShorter == ASSUME Typed, micro # <<>>, micro' = Tail(micro) PROVE Cuts(micro, micro', Head(micro)) /\ Shorter(micro, micro')
BY Cutting, TypedParts, CutsShorter

(* The calls of the program send what these steps may send.                   *)
LEMMA CalmSubmit == ASSUME Typed, NEW i \in Inputs, Submit(i) PROVE Calm
<1>1. /\ srv' = srv /\ turns' = turns /\ inbox' = inbox /\ micro' = micro /\ Quiet
      /\ active' = active /\ ended' = ended /\ force' = force
  BY DEF Submit, server
<1>2. CASE SubmitIdle(i)
  <2>1. PICK c : c = [op |-> "start", i |-> i, t |-> 0] BY Zenon
  <2> QED
    BY <1>1, <2>1, <1>2, ZeroIsTurn, Same, CalmIs DEF AsksStart, SubmitIdle, StartTurn, Sends, Asks,
       Busy, AnyStart
<1>3. CASE SubmitQueued(i) \/ SubmitRefused(i)
  BY <1>1, <1>3, Same, CalmIs DEF SubmitQueued, SubmitRefused, SendsNothing, AsksNothing
<1>4. CASE SubmitSteer(i)
  <2>1. CASE active # 0
    <3> QED BY <1>1, <1>4, <2>1, TypedParts, SteerAsks, Same, CalmIs DEF SubmitSteer, Turns
  <2>2. CASE active = 0
    BY <1>1, <1>4, <2>2, Same, CalmIs DEF SubmitSteer, SendsNothing, AsksNothing
  <2> QED BY <2>1, <2>2
<1>5. CASE SubmitNow(i)
  <2> QED BY <1>1, <1>5, InterruptAsks, Same, CalmIs DEF SubmitNow, Who
<1> QED BY <1>2, <1>3, <1>4, <1>5 DEF Submit

LEMMA Appended == ASSUME Typed, NEW i \in Inputs PROVE Append(queue, [id |-> i, urgent |-> FALSE]) \in Seq(Entry)
<1>1. PICK e : e = [id |-> i, urgent |-> FALSE] BY Zenon
<1> QED BY <1>1, TypedParts DEF Entry

LEMMA CalmCalls == ASSUME Typed, Calls PROVE Calm
<1>1. queue \in Seq(Entry) BY TypedParts
<1>3. CASE \E i \in Inputs : Submit(i) BY <1>3, CalmSubmit
<1>4. CASE \E i \in Inputs : EnqueueFollowup(i)
  BY Zenon, <1>4, Appended, DrainAsks, Same, CalmIs DEF EnqueueFollowup, server
<1>5. CASE \E i \in Inputs : Remove(i)
  BY <1>5, Same, CalmIs DEF Remove, server, turn, link, AsksNothing
<1>6. CASE \E cs \in {"user", "interrupt"} : Cancel(cs)
  <2>1. PICK cs \in {"user", "interrupt"} : Cancel(cs) BY <1>6
  <2> QED
    BY <2>1, InterruptAsks, Same, CalmIs DEF Cancel, server, turn, SendsNothing, AsksNothing, Who
<1>7. CASE InterruptTurn BY <1>7, InterruptAsks, Same, CalmIs DEF InterruptTurn, server, turn, Who
<1>8. CASE ConnectionRestored
  BY <1>1, <1>8, DrainAsks, Same, CalmIs DEF ConnectionRestored, server
<1>9. CASE PermanentLoss
  BY <1>9, Same, CalmIs DEF PermanentLoss, server, turn, link, AsksNothing
<1>10. CASE UNCHANGED vars
  BY <1>10, Same, CalmIs DEF vars, server, turn, link, AsksNothing
<1> QED BY <1>3, <1>4, <1>5, <1>6, <1>7, <1>8, <1>9, <1>10 DEF Calls

(* So do the continuations of a steer and of an interrupt.                    *)
LEMMA CalmContinues ==
  ASSUME Typed, DrainContinues \/ SteerResumes \/ SteerContinues \/ InterruptResumes \/ InterruptContinues
  PROVE  Calm
<1>1. /\ srv' = srv /\ turns' = turns /\ inbox' = inbox /\ micro # <<>> /\ micro' = Tail(micro)
      /\ active' = active /\ ended' = ended
  BY DEF DrainContinues, SteerResumes, SteerContinues, InterruptResumes, InterruptContinues, server, turn, link
<1>2. PICK x : x = Head(micro) OBVIOUS
<1>3. x \in Continuation /\ Cuts(micro, micro', x) /\ Shorter(micro, micro') BY <1>1, <1>2, TypedParts, MicroShorter
<1>5. CASE DrainContinues BY <1>1, <1>3, <1>5, TypedParts, DrainAsks, CalmIs DEF DrainContinues
<1>6. CASE SteerResumes
  <2>2. CASE x.t = 0
    <3> QED
      BY <1>1, <1>3, <1>2, <1>6, <2>2, ContinuationFacts, Appended, DrainAsks, CalmIs DEF
         SteerResumes
  <2>3. CASE x.t # 0
    <3> QED
      BY <1>1, <1>3, <1>2, <1>6, <2>3, ContinuationFacts, ContinuationOf, SteerAsks, CalmIs DEF
         SteerResumes, Turns, Cuts
  <2> QED BY <2>2, <2>3
<1>7. CASE SteerContinues
  <2> QED
    BY <1>1, <1>3, <1>2, <1>7, ContinuationFacts, CallFacts, Appended, DrainAsks, CalmIs DEF
       SteerContinues, SteerFalls, SendsNothing, AsksNothing
<1>8. CASE InterruptResumes
  <2>2. CASE x.t = 0
    <3> QED
      BY <1>1, <1>3, <1>2, <1>8, <2>2, ContinuationFacts, CalmIs DEF InterruptResumes, SendsNothing,
         AsksNothing, turn
  <2>3. CASE x.t # 0
    <3>4. PICK c : c = [op |-> "interrupt", i |-> x.i, t |-> x.t] BY Zenon
    <3>5. Asks(c) BY <1>2, <1>8, <2>3, <3>4 DEF InterruptResumes, Sends, Asks
    <3>7. AsksInto
      BY <1>2, <1>3, <1>8, <2>3, <3>5, <3>4, ContinuationFacts, NewCalls, ContinuationOf DEF
         AsksInto, Cuts, Into, Stopping, Turns, InterruptResumes, turn
    <3> QED BY <1>1, <1>3, <1>2, <1>8, <3>7, ContinuationFacts, CalmIs DEF InterruptResumes, turn
  <2> QED BY <2>2, <2>3
<1>9. CASE InterruptContinues
  <2>2. force' \in {force, 0} \/ Has(micro, Stopped(force'))
    <3>1. CASE force' = force BY <3>1
    <3>2. CASE force' # force
      <4> QED BY <1>3, <1>2, <1>9, <3>2, ContinuationOf DEF Cuts, InterruptContinues
    <3> QED BY <3>1, <3>2
  <2> QED BY <1>1, <1>3, <1>9, <2>2, Same DEF Calm, Talks, InterruptContinues, AsksNothing, link
<1> QED BY <1>5, <1>6, <1>7, <1>8, <1>9

(* The first line is taken.                                                   *)
LEMMA LineTaken ==
  ASSUME Typed, NEW m, Line(m)
  PROVE  /\ Head(inbox) \in Output /\ Head(inbox).m = m
         /\ Cuts(inbox, inbox', Head(inbox)) /\ Shorter(inbox, inbox')
<1> QED BY TypedParts, Cutting, CutsShorter DEF Line, Typed

LEMMA CalmLine == ASSUME Typed, Chunk \/ Claim PROVE Calm
<1>1. CASE Chunk BY <1>1, Same, CalmIs DEF Chunk, server, turn, AsksNothing
<1>2. CASE Claim
  <2> QED BY <1>2, LineTaken, OutputOf, Same DEF Calm, Talks, Claim, server, AsksNothing, Cuts
<1> QED BY <1>1, <1>2

(* Such steps keep the order of the turns.                                    *)
LEMMA CalmKeeps ==
  ASSUME Typed, Single, Calm, NEW t \in Turns, Sequenced(t) PROVE Sequenced(t)'
<1> QED
  BY TalkNotCut, TalkEntered, TalkPast, TalkLatest, TalkBehind, TalkOrder, TalkSilent, TalkAnnounced
     DEF Sequenced, Calm

LEMMA Including ==
  ASSUME NEW t \in Turns
  PROVE  /\ \A s : Has(s, Ends(t)) \/ Has(s, Begins(t)) \/ Has(s, News(t)) => Has(s, Of(t))
         /\ \A s : \A u \in Turns : t <= u /\ (Has(s, News(t)) \/ Has(s, Begins(t)) \/ Has(s, Ends(t))) => Has(s, Upto(u))
         /\ \A s : \A u \in Turns : t < u /\ (Has(s, News(t)) \/ Has(s, Begins(t)) \/ Has(s, Ends(t))) => Has(s, Under(u))
         /\ \A s : Has(s, GoingToStop(t)) => Has(s, GoingTo(t))
         /\ \A s : Has(s, Stopping(t)) => Has(s, Into(t))
<1>1. ASSUME NEW o, o \in Ends(t) \cup Begins(t) \cup News(t) PROVE o \in Output /\ o.t = t
  BY Zenon, <1>1 DEF Ends, Begins, News, Output, Turns
<1> QED BY <1>1 DEF Has, Of, Upto, Under, GoingToStop, GoingTo, Into, Turns

LEMMA OverAsks ==
  ASSUME Typed, NEW b, TurnOver(b) PROVE active' = 0 /\ force' = 0 /\ (AsksNothing \/ AsksStart)
<1>3. \E q \in Seq(Entry) : Drain(q, 0, starting, {})
  <2>1. PICK q : q \in {Requeued, queue} /\ Drain(q, 0, starting, {}) BY DEF TurnOver
  <2> QED BY <2>1, TypedParts, RequeuedTypes DEF Entry
<1> QED BY <1>3, DrainAsks DEF TurnOver

(* The turn t ends while lines are taken.                                     *)
LEMMA TalkCompleted ==
  ASSUME Typed, Down, Completed
  PROVE  \E t \in Turn :
           /\ Talks /\ ended' = ended \cup {t} /\ micro' = micro
           /\ Head(inbox) \in Ends(t) /\ Head(inbox) \in Output /\ Cuts(inbox, inbox', Head(inbox))
           /\ active' = active \/ (active' = 0 /\ active \in {0, t})
<1>2. PICK t : t = Head(inbox).t OBVIOUS
<1>4. ~closed BY InputAssumption DEF Completed, Line, Down
<1>6. CASE t \in ended \/ (active # 0 /\ active # t)
  <2> QED
    BY <1>2, <1>4, <1>6, LineTaken, OutputOf, Same DEF Talks, Completed, SendsNothing, AsksNothing,
       server
<1>7. CASE ~(t \in ended \/ (active # 0 /\ active # t))
  <2> QED BY <1>2, <1>4, <1>7, LineTaken, OutputOf, Same, OverAsks DEF Talks, Completed, server
<1> QED BY <1>6, <1>7

(* The end of a turn keeps it, reported or forced.                            *)
LEMMA CompletedKeeps ==
  ASSUME Typed, Serves, Single, Down, \A t \in Turns : Sequenced(t), Completed, NEW u \in Turns
  PROVE  Sequenced(u)'
<1>1. PICK t \in Turn :
        /\ Talks /\ ended' = ended \cup {t} /\ micro' = micro
        /\ Head(inbox) \in Ends(t) /\ Head(inbox) \in Output /\ Cuts(inbox, inbox', Head(inbox))
        /\ active' = active \/ (active' = 0 /\ active \in {0, t})
  BY TalkCompleted
<1>2. t \in Turns
  <2>2. t # 0
    <3>1. ASSUME t = 0 PROVE FALSE
      <4> QED BY <1>1, <3>1 DEF Serves, Has, Follows, Cuts
    <3> QED BY <3>1
  <2> QED BY <2>2 DEF Turns
<1>4. Sequenced(t) /\ Sequenced(u) BY <1>2
<1>7. Past(u)' /\ Latest(u)' BY <1>1, <1>4, TalkPast, TalkLatest DEF Sequenced
<1>9. Silent(u)'
  <2>1. CASE u = t
    <3> QED
      BY <1>1, <2>1, <1>2, <1>4, Including DEF Talks, Silent, Turns, Turn, Sequenced, Emitted, Cuts,
         Ordered
  <2>2. CASE u # t
    <3> QED BY <1>1, <1>4, <2>2 DEF Talks, Shorter, Silent, Sequenced, Turns
  <2> QED BY <2>1, <2>2
<1>10. Announced(u)'
  <2>2. Has(inbox, Begins(u)) => Has(inbox', Begins(u))
    <3> QED BY <1>1, OutputOf DEF Cuts
  <2> QED BY <1>1, <1>4, <1>2, <2>2, TalkAnnounced DEF Sequenced, Turns
<1>11. Entered(u)'
  <2>1. CASE active' = active BY <1>1, <1>4, <2>1, TalkEntered DEF Sequenced
  <2>2. CASE active' # active
    <3> SUFFICES ASSUME Has(micro', GoingToStop(u)) \/ Has(toSrv', Stopping(u)) \/ Halting(u)',
                        Has(inbox', Begins(u)), u \notin ended'
                 PROVE  FALSE
      BY DEF Entered
    <3> QED
      BY <1>2, <1>1, <1>4, TalkKnown, Including, TalkFacts DEF Cuts, Turns, Turn, Sequenced, Past,
         Known, Ordered
  <2> QED BY <2>1, <2>2
<1> QED BY <1>1, <1>4, <1>7, <1>9, <1>10, <1>11, TalkNotCut, TalkBehind, TalkOrder DEF Sequenced

LEMMA TalkForceClose == ASSUME Typed, ForceClose PROVE Talks
<1>2. CASE active # force
  <2> QED BY <1>2, Same DEF Talks, ForceClose, SendsNothing, AsksNothing, server
<1>3. CASE active = force
  <2> QED BY <1>3, OverAsks, Same DEF Talks, ForceClose, server
<1> QED BY <1>2, <1>3

LEMMA ForceCloseKeeps ==
  ASSUME Typed, Serves, Single, \A t \in Turns : Sequenced(t), ForceClose, NEW u \in Turns
  PROVE  Sequenced(u)'
<1>1. srv' = srv /\ turns' = turns /\ inbox' = inbox /\ micro' = micro /\ Quiet /\ force # 0
  BY DEF ForceClose, server
<1>2. Sequenced(u) OBVIOUS
<1>3. CASE active # force
  <2>2. Calm BY <1>1, <1>3, Same DEF Calm, Talks, ForceClose, SendsNothing, AsksNothing
  <2> QED BY <1>2, <2>2, CalmKeeps
<1>4. CASE active = force
  <2>1. TurnOver(TRUE) /\ ended' = ended \cup {force} BY Zenon, <1>4 DEF ForceClose
  <2>3. Talks BY <1>1, <2>1, OverAsks, Same DEF Talks
  <2>4. PICK t \in Turns : t = force BY <1>1, <1>4, TypedParts DEF Turns
  <2>7. Past(u)' /\ Latest(u)' BY <1>2, <2>3, TalkPast, TalkLatest DEF Sequenced
  <2>9. Silent(u)'
    <3> QED BY <1>1, <1>2, <2>1, OverAsks DEF Silent, Sequenced, Turns
  <2>10. Announced(u)' BY <1>1, <1>2, <1>4, <2>1, <2>3, TalkAnnounced DEF Sequenced
  <2>11. Entered(u)'
    <3> SUFFICES ASSUME Has(micro', GoingToStop(u)) \/ Has(toSrv', Stopping(u)) \/ Halting(u)',
                        Has(inbox', Begins(u)), u \notin ended'
                 PROVE  FALSE
      BY DEF Entered
    <3>5. Known(u) BY <1>1, <2>3, <2>1, <2>4, <1>4, TalkKnown, TalkFacts, Including DEF Known
    <3>6. ~(u < t)
      <4> QED BY <1>4, <2>4, <1>1, Including DEF Sequenced, Past
    <3> QED BY <1>2, <1>4, <2>4, <3>5, <2>1, <3>6 DEF Halting, Sequenced, NotCut, Turns, Turn
  <2> QED BY <1>2, <2>3, <2>7, <2>9, <2>10, <2>11, TalkNotCut, TalkBehind, TalkOrder DEF Sequenced
<1> QED BY <1>3, <1>4

-----------------------------------------------------------------------------

LEMMA LessensKeeps ==
  ASSUME Typed, Lessens, NEW u \in Turns, Sequenced(u) PROVE Sequenced(u)'
<1>1. (Halting(u)' => Halting(u)) /\ (Known(u)' => Known(u)) BY DEF Lessens, Shorter, Halting, Known
<1>2. Ordered(u)'
  <2> QED BY DEF Lessens, Shorter, Ordered, Turns, Turn, Sequenced
<1>6. Silent(u)'
  <2> QED BY DEF Lessens, Shorter, Sequenced, Silent, Emitted, Past, Known, Halting
<1>8. NotCut(u)'
  <2>1. CASE active = 0 BY <2>1 DEF Lessens, NotCut
  <2>2. CASE active # 0
    <3>2. PICK v \in Turns : v = active /\ active' = v BY <2>2, TypedParts DEF Turns, Lessens
    <3> QED
      BY <1>1, <2>2, <3>2, TypedParts DEF Sequenced, NotCut, Halting, Stopped, Stops, Stopping,
         Lessens, Shorter, Turns
  <2> QED BY <2>1, <2>2
<1>9. Behind(u)'
  <2> SUFFICES ASSUME active' = u \/ (Has(inbox', Begins(u)) /\ u \notin ended'),
                      NEW c \in AnyStart, Has(wait', {c})
               PROVE  /\ Before(toSrv', Stopping(u), {c}) /\ (Has(toSrv', {c}) => ~Halting(u)')
                      /\ Before(inbox', Stops(u), AnswersTo(c))
                      /\ Has(inbox', AnswersTo(c)) => force' # u /\ ~Has(micro', Stopped(u))
    BY Zenon, BehindNext
  <2> QED BY <1>1 DEF Lessens, Shorter, Sequenced, Behind
<1> QED
  BY <1>2, <1>1, <1>6, <1>8, <1>9 DEF Sequenced, Lessens, Shorter, Emitted, Announced, Entered,
     Past, Latest, Turns, Turn

LEMMA ResolvedTurns ==
  ASSUME Typed, NEW t \in Turn
  PROVE  /\ Resolved(t) \in Seq(Continuation)
         /\ \A u \in Turns : /\ ~Has(Resolved(t), Named(u)) /\ ~Has(Resolved(t), Stopped(u))
                             /\ Has(Resolved(t), GoingTo(u)) => u = t
                             /\ Has(Resolved(t), GoingToStop(u)) => u = t
         /\ ~Has(Resolved(t), AnyStarted)
<1>1. PICK r : r = Resolved(t) OBVIOUS
<1>2. r \in Seq(Continuation) BY <1>1, ResolvedTypes, TypedParts
<1>4. \A k \in DOMAIN r : /\ r[k] \notin AnyStarted
                          /\ \A u \in Turns : /\ r[k] \notin Named(u) /\ r[k] \notin Stopped(u)
                                              /\ r[k] \in GoingTo(u) => u = t
                                              /\ r[k] \in GoingToStop(u) => u = t
  <2> TAKE k \in DOMAIN r
  <2> QED BY <1>1, <1>2, ContinuationOf DEF Resolved
<1> QED BY <1>1, <1>2, <1>4 DEF Has

(* What the continuation of a turn/start leaves to run.                       *)
LEMMA StartTaken ==
  ASSUME Typed, StartTurnContinues
  PROVE  \E x \in AnyStarted, t \in Turn :
           /\ x = Head(micro) /\ Has(micro, {x}) /\ x \in Continuation
           /\ (x.r = "ok" /\ t = x.t /\ active' = IF active = 0 THEN t ELSE active) \/ (t = 0 /\ active' = active)
           /\ \A u \in Turns :
                /\ Has(micro', Named(u)) => Has(micro, Named(u))
                /\ Has(micro', Stopped(u)) => Has(micro, Stopped(u))
                /\ Has(micro', GoingTo(u)) => Has(micro, GoingTo(u)) \/ u = t
                /\ Has(micro', GoingToStop(u)) => Has(micro, GoingToStop(u)) \/ u = t
           /\ Once(micro, AnyStarted) => ~Has(micro', AnyStarted)
           /\ x.r = "ok" /\ t = x.t => Has(micro, Named(t))
           /\ \A i \in Inputs : Resumes(i)' <=> Resumes(i) \/ Joins(i)
<1>1. PICK x : x = Head(micro) OBVIOUS
<1>2. micro # <<>> /\ micro \in Seq(Continuation) /\ x.k = "answer" /\ x.c.op \in {"start", "next"}
  BY <1>1, TypedParts DEF StartTurnContinues
<1>3. x \in Continuation BY <1>1, <1>2, TypedParts
<1>4. x \in AnyStarted /\ x.t \in Turn BY <1>2, <1>3, ContinuationOf, ContinuationFacts
<1>5. Cuts(micro, Tail(micro), x) /\ Tail(micro) \in Seq(Continuation) BY <1>1, <1>2, Cutting
<1>7. PICK d : d = [k |-> "drain"] BY Zenon
<1>8. d \in Continuation /\ d.k = "drain" BY <1>7, NewContinuations
<1>9. \A H : Has(<<d>>, H) => d \in H BY DEF Has
<1>11. PICK t \in Turn :
         /\ \/ micro' = Tail(micro) \o Resolved(t) \o <<d>>
            \/ micro' = Tail(micro) \o Resolved(t) \o <<>>
            \/ micro' = Tail(micro) \o Resolved(t)
         /\ (x.r = "ok" /\ t = x.t /\ active' = IF active = 0 THEN t ELSE active) \/ (t = 0 /\ active' = active)
  <2>1. CASE x.r = "ok"
    <3> QED BY <1>4, <2>1, <1>1, <1>7 DEF StartTurnContinues
  <2>2. CASE x.r # "ok"
    <3> QED BY <1>1, <2>2, ZeroIsTurn DEF StartTurnContinues
  <2> QED BY Zenon, <2>1, <2>2
<1>12. \A H : /\ Has(micro', H) => Has(Tail(micro), H) \/ Has(Resolved(t), H) \/ Has(<<d>>, H)
              /\ Has(Tail(micro), H) \/ Has(Resolved(t), H) => Has(micro', H)
  <2> TAKE H
  <2>1. PICK r : r = Resolved(t) OBVIOUS
  <2>3. PICK y, z : y = <<d>> /\ z = <<>> BY Zenon
  <2>4. y \in Seq(Continuation) /\ z \in Seq(Continuation) BY <1>8, <2>3
  <2>5. PICK w : w = Tail(micro) \o r BY Zenon
  <2>6. w \in Seq(Continuation) /\ (Has(w, H) <=> Has(Tail(micro), H) \/ Has(r, H))
    BY <1>5, <2>1, <2>5, ResolvedTurns, JoinFacts
  <2>7. Has(w \o y, H) <=> Has(w, H) \/ Has(y, H) BY <2>4, <2>6, JoinFacts
  <2>8. Has(w \o z, H) <=> Has(w, H) \/ Has(z, H) BY <2>4, <2>6, JoinFacts
  <2> QED BY <2>1, <2>3, <2>6, <2>7, <2>8, <1>11, <2>5, EmptyFacts
<1>14. \A u \in Turns :
          /\ Has(micro', Named(u)) => Has(micro, Named(u))
          /\ Has(micro', Stopped(u)) => Has(micro, Stopped(u))
          /\ Has(micro', GoingTo(u)) => Has(micro, GoingTo(u)) \/ u = t
          /\ Has(micro', GoingToStop(u)) => Has(micro, GoingToStop(u)) \/ u = t
  BY <1>5, <1>8, <1>9, <1>12, ContinuationOf, ResolvedTurns DEF Cuts
<1>15. Once(micro, AnyStarted) => ~Has(micro', AnyStarted)
  BY <1>4, <1>5, <1>8, <1>9, <1>12, ContinuationOf, ResolvedTurns DEF Cuts
<1>16. x.r = "ok" /\ t = x.t => Has(micro, Named(t))
  <2> QED BY <1>2, <1>3, <1>5, ContinuationOf DEF Cuts
<1>17. \A i \in Inputs : Resumes(i)' <=> Resumes(i) \/ Joins(i)
  <2> TAKE i \in Inputs
  <2>1. ~Has(<<d>>, Resumed(i)) /\ x \notin Resumed(i) BY <1>2, <1>3, <1>8, <1>9, AnswerOf
  <2> QED BY <1>12, <2>1, <1>5, ResolvedFacts DEF Resumes, Cuts, Resumed, Turn
<1> QED BY <1>1, <1>3, <1>4, <1>5, <1>11, <1>14, <1>15, <1>16, <1>17 DEF Cuts

(* A turn/start that is answered or fails keeps the order of the turns.       *)
LEMMA StartTurnKeeps ==
  ASSUME Typed, Single, StartTurnContinues, NEW u \in Turns, Sequenced(u)
  PROVE  Sequenced(u)'
<1>1. PICK x \in AnyStarted, t \in Turn :
        /\ x = Head(micro) /\ Has(micro, {x}) /\ x \in Continuation
        /\ (x.r = "ok" /\ t = x.t /\ active' = IF active = 0 THEN t ELSE active) \/ (t = 0 /\ active' = active)
        /\ \A v \in Turns :
             /\ Has(micro', Named(v)) => Has(micro, Named(v))
             /\ Has(micro', Stopped(v)) => Has(micro, Stopped(v))
             /\ Has(micro', GoingTo(v)) => Has(micro, GoingTo(v)) \/ v = t
             /\ Has(micro', GoingToStop(v)) => Has(micro, GoingToStop(v)) \/ v = t
        /\ x.r = "ok" /\ t = x.t => Has(micro, Named(t))
  BY Zenon, StartTaken
<1>2. /\ srv' = srv /\ turns' = turns /\ inbox' = inbox /\ toSrv' = toSrv /\ wait' = wait
      /\ force' = force /\ ended' = ended
  BY DEF StartTurnContinues, server, link
<1>3. CASE t = 0
  <2> QED BY <1>1, <1>2, <1>3, Same, LessensKeeps DEF Lessens, Turns
<1>4. CASE t # 0
  <2>1. t \in Turns /\ Has(micro, Named(t)) /\ active' = IF active = 0 THEN t ELSE active BY <1>1, <1>4 DEF Turns
  <2>2. \A v \in Turns : (Halting(v)' => Halting(v)) /\ (Known(v)' => Known(v))
    BY <1>1, <1>2, <2>1 DEF Halting, Known, Turns
  <2>3. Ordered(u)' /\ Emitted(u)'
    <3> QED BY <1>2 DEF Sequenced, Emitted, Ordered
  <2>4. Past(u)'
    <3> QED BY <1>2, <2>1, <2>2 DEF Sequenced, Past, Known
  <2>7. Announced(u)'
    <3> QED BY <1>2, <2>1 DEF Sequenced, Announced, Turns
  <2>8. NotCut(u)'
    <3>1. CASE active = 0
      <4> QED BY <2>1, <3>1, <2>2 DEF NotCut, Sequenced, Latest, Turns, Turn
    <3>2. CASE active # 0
      <4>1. active \in Turns /\ active' = active BY <2>1, <3>2, TypedParts DEF Turns
      <4>2. PICK v \in Turns : v = active /\ active' = v BY <4>1
      <4> QED BY <2>2, <3>2, <4>1, <4>2 DEF Sequenced, NotCut, Halting, Stopped, Stops, Stopping
    <3> QED BY <3>1, <3>2
  <2>9. Behind(u)'
    <3> QED BY <1>2, <1>1, BehindNext DEF Has, Single
  <2> QED
    BY <2>3, <2>4, <1>1, <2>2, <1>2, <2>7, <2>8, <2>9, <2>1 DEF Sequenced, Silent, Latest, Turns,
       Turn, Entered
<1> QED BY <1>3, <1>4

(* An answer the session awaits goes from the first line to its continuation. *)
LEMMA AnswerTaken ==
  ASSUME Typed, Answered
  PROVE  \E a \in Output :
           /\ a = Head(inbox) /\ a.m = "answer" /\ Cuts(inbox, inbox', a) /\ Shorter(inbox, inbox')
           /\ Thins(wait, wait')
           /\ \A t : Has(inbox, Begins(t)) => Has(inbox', Begins(t))
           /\ \/ wait' = wait /\ micro' = micro
              \/ \E x \in Continuation :
                   /\ Adds(micro, micro', x) /\ Has(wait, {a.c}) /\ a.c \in Call
                   /\ x.k = "answer" /\ x.c = a.c /\ x.r = a.r /\ x.t = a.t
                   /\ \A H : a.c \in H /\ Once(wait, H) => ~Has(wait', H)
<1>1. PICK a : a = Head(inbox) OBVIOUS
<1>2. a \in Output /\ a.m = "answer" /\ Cuts(inbox, inbox', a) /\ Shorter(inbox, inbox')
  BY <1>1, LineTaken DEF Answered
<1>6. CASE a.c \notin Elems(wait)
  <2> QED BY <1>1, <1>2, <1>6, OutputOf DEF Thins, Cuts, Answered
<1>7. CASE a.c \in Elems(wait)
  <2>1. PICK x : x = [k |-> "answer", c |-> a.c, r |-> a.r, t |-> a.t] BY Zenon
  <2>2. x \in Continuation BY <1>2, <2>1, OutputFacts, NewContinuations
  <2>4. Adds(micro, micro', x) BY <2>2, <1>1, <1>7, <2>1, TypedParts, Adding DEF Answered
  <2>6. Thins(wait, wait') /\ \A H : a.c \in H /\ Once(wait, H) => ~Has(wait', H)
    BY <1>1, <1>7, <2>1, TypedParts, Thinning DEF Answered, Has, Elems
  <2> QED BY <1>1, <1>2, <2>1, <2>2, <2>4, <1>7, <2>6, OutputFacts, OutputOf DEF Cuts, Has, Elems
<1> QED BY Zenon, <1>6, <1>7

(* So does an answer that is taken from the lines ...                         *)
LEMMA AnsweredKeeps ==
  ASSUME Typed, Single, \A t \in Turns : Sequenced(t), Answered, NEW u \in Turns
  PROVE  Sequenced(u)'
<1>1. PICK a \in Output :
        /\ a = Head(inbox) /\ a.m = "answer" /\ Cuts(inbox, inbox', a) /\ Shorter(inbox, inbox')
        /\ Thins(wait, wait')
        /\ \A t : Has(inbox, Begins(t)) => Has(inbox', Begins(t))
        /\ \/ wait' = wait /\ micro' = micro
           \/ \E x \in Continuation :
                /\ Adds(micro, micro', x) /\ Has(wait, {a.c}) /\ a.c \in Call
                /\ x.k = "answer" /\ x.c = a.c /\ x.r = a.r /\ x.t = a.t
                /\ \A H : a.c \in H /\ Once(wait, H) => ~Has(wait', H)
  BY AnswerTaken
<1>2. /\ srv' = srv /\ turns' = turns /\ toSrv' = toSrv
      /\ force' = force /\ ended' = ended /\ active' = active
  BY DEF Answered, server, turn
<1>3. Sequenced(u) OBVIOUS
<1>4. CASE wait' = wait /\ micro' = micro
  <2> QED BY <1>3, <1>1, <1>2, <1>4, LessensKeeps DEF Lessens
<1>5. CASE \E x \in Continuation :
             /\ Adds(micro, micro', x) /\ Has(wait, {a.c}) /\ a.c \in Call
             /\ x.k = "answer" /\ x.c = a.c /\ x.r = a.r /\ x.t = a.t
             /\ \A H : a.c \in H /\ Once(wait, H) => ~Has(wait', H)
  <2>1. PICK x \in Continuation :
          /\ Adds(micro, micro', x) /\ Has(wait, {a.c}) /\ a.c \in Call
          /\ x.k = "answer" /\ x.c = a.c /\ x.r = a.r /\ x.t = a.t
          /\ \A H : a.c \in H /\ Once(wait, H) => ~Has(wait', H)
    BY <1>5
  <2>5. CASE \A t \in Turns : a \notin Opening(t)
    <3>2. ASSUME NEW t \in Turns
          PROVE  /\ Has(micro', Stopped(t)) => Has(micro, Stopped(t)) \/ Has(inbox, Stops(t))
                 /\ Has(micro', Stopped(t)) => Has(micro, Stopped(t)) \/ ~Has(inbox', News(t))
                 /\ Has(micro', Stopped(t)) /\ ~Has(micro, Stopped(t)) =>
                       \A c : Before(inbox, Stops(t), AnswersTo(c)) => ~Has(inbox', AnswersTo(c))
      <4> QED BY <1>1, <2>1, ContinuationOf, OutputOf DEF Adds, Cuts, Sequenced, Ordered
    <3>3. Lessens BY <1>1, <1>2, <2>1, <2>5, <3>2, ContinuationOf, OutputOf DEF Lessens, Thins, Adds
    <3> QED BY <1>3, <3>3, LessensKeeps
  <2>6. CASE \E t \in Turns : a \in Opening(t)
    <3>1. PICK t \in Turns : a \in Opening(t) BY <2>6
    <3>3. a.c \in AnyStart /\ a \in AnswersTo(a.c) /\ a \in Of(t)
      BY <1>1, <2>1, <3>1, OutputOf, CallOf DEF Of
    <3>6. \A v \in Turns :
          /\ Has(micro', Named(v)) <=> Has(micro, Named(v)) \/ v = t
          /\ Has(micro', GoingTo(v)) <=> Has(micro, GoingTo(v))
          /\ Has(micro', GoingToStop(v)) <=> Has(micro, GoingToStop(v))
          /\ Has(micro', Stopped(v)) <=> Has(micro, Stopped(v))
      BY <2>1, <1>1, <3>1, OutputOf, ContinuationOf DEF Adds
    <3>8. \A v \in Turns : (Halting(v)' => Halting(v)) /\ (Known(v)' => Known(v) \/ v = t)
      BY <1>1, <1>2, <3>6 DEF Halting, Known, Shorter
    <3>10. \A v \in Turns : Known(v) => v <= t
      <4> SUFFICES ASSUME NEW v \in Turns, Known(v) PROVE v <= t OBVIOUS
      <4>2. ~Has(inbox, Under(v)) BY DEF Sequenced, Past
      <4> QED BY <1>1, <4>2, <3>1, OutputOf DEF Turns, Turn, Under, Cuts
    <3>11. Ordered(u)' /\ Emitted(u)'
      <4>1. Ordered(u)'
        <5> QED BY <1>1, <1>3 DEF Shorter, Ordered, Turns, Turn, Sequenced
      <4> QED BY <1>1, <1>2, <1>3, <4>1 DEF Shorter, Sequenced, Emitted
    <3>12. Past(u)'
      <4>1. CASE u = t
        <5> QED BY <1>2, <1>1, <3>1, <3>3, <4>1 DEF Sequenced, Emitted, Past, Cuts, Ordered
      <4>2. CASE u # t
        <5> QED BY <1>1, <1>2, <1>3, <3>8, <4>2 DEF Shorter, Sequenced, Past
      <4> QED BY <4>1, <4>2
    <3>13. Latest(u)'
      <4>1. ASSUME NEW v \in Turns, Has(micro', Named(v)), Known(u)' PROVE u <= v
        <5>3. Has(micro, Named(v)) => Has(micro, AnyStarted)
          <6>1. ASSUME NEW y, y \in Named(v) PROVE y \in AnyStarted BY <6>1 DEF Named, AnyStarted, Answers, Turns
          <6> QED BY <6>1 DEF Has
        <5> QED BY <3>6, <4>1, <2>1, <3>3, <5>3, <3>8, <3>10 DEF Turns, Turn, Single, Has
      <4> QED BY <4>1 DEF Latest, Turns, Turn
    <3>14. Silent(u)' BY <1>1, <1>2, <1>3, <3>6 DEF Shorter, Sequenced, Silent
    <3>15. Announced(u)' BY <1>1, <1>2, <1>3 DEF Shorter, Sequenced, Announced
    <3>16. NotCut(u)'
      <4> SUFFICES ASSUME Known(u)', active # 0, active < u PROVE ~Halting(active)' BY <1>2 DEF NotCut
      <4>2. PICK v \in Turns : v = active BY TypedParts DEF Turns
      <4>5. CASE Known(u)
        BY <1>3, <3>8, <4>2, <1>2, <4>5 DEF Sequenced, NotCut, Halting, Stopped, Stops, Stopping
      <4>6. CASE u = t
        <5> QED
          BY <1>2, <3>6, <4>2, <2>1, <3>3, <1>1, <3>1, <4>6 DEF Halting, Cuts, Sequenced, Ordered,
             Behind, Stopped, Stops, Stopping
      <4> QED BY <3>8, <4>5, <4>6
    <3>17. Behind(u)'
      <4> SUFFICES ASSUME active' = u \/ (Has(inbox', Begins(u)) /\ u \notin ended'),
                          NEW c \in AnyStart, Has(wait', {c})
                   PROVE  /\ Before(toSrv', Stopping(u), {c}) /\ (Has(toSrv', {c}) => ~Halting(u)')
                          /\ Before(inbox', Stops(u), AnswersTo(c))
                          /\ Has(inbox', AnswersTo(c)) => force' # u /\ ~Has(micro', Stopped(u))
        BY BehindNext
      <4> QED BY <1>1, <1>2, <3>6, <3>8, <1>3 DEF Shorter, Sequenced, Behind, Thins
    <3>18. Entered(u)' BY <1>1, <1>2, <1>3, <3>6, <3>8 DEF Shorter, Sequenced, Entered
    <3> QED BY <3>11, <3>12, <3>13, <3>14, <3>15, <3>16, <3>17, <3>18 DEF Sequenced
  <2> QED BY <2>5, <2>6
<1> QED BY <1>1, <1>4, <1>5

LEMMA AnsweredSingle == ASSUME Typed, Single, Answered PROVE Single'
<1>1. PICK a \in Output :
        /\ Thins(wait, wait')
        /\ \/ wait' = wait /\ micro' = micro
           \/ \E x \in Continuation :
                /\ Adds(micro, micro', x) /\ Has(wait, {a.c}) /\ a.c \in Call
                /\ x.k = "answer" /\ x.c = a.c /\ x.r = a.r /\ x.t = a.t
                /\ \A H : a.c \in H /\ Once(wait, H) => ~Has(wait', H)
  BY Zenon, AnswerTaken
<1>3. CASE wait' = wait /\ micro' = micro BY <1>3, SingleNext DEF Single, Answered, turn
<1>4. CASE \E x \in Continuation :
                /\ Adds(micro, micro', x) /\ Has(wait, {a.c}) /\ a.c \in Call
                /\ x.k = "answer" /\ x.c = a.c /\ x.r = a.r /\ x.t = a.t
                /\ \A H : a.c \in H /\ Once(wait, H) => ~Has(wait', H)
  <2>1. PICK x \in Continuation :
                /\ Adds(micro, micro', x) /\ Has(wait, {a.c}) /\ a.c \in Call
                /\ x.k = "answer" /\ x.c = a.c /\ x.r = a.r /\ x.t = a.t
                /\ \A H : a.c \in H /\ Once(wait, H) => ~Has(wait', H)
    BY <1>4
  <2> QED
    BY <1>1, <2>1, ContinuationOf, CallOf, SingleNext DEF Single, Adds, Thins, Has, Answered, turn
<1> QED BY <1>1, <1>3, <1>4

LEMMA StartTurnSingle == ASSUME Typed, Single, StartTurnContinues PROVE Single'
<1>1. PICK x \in AnyStarted : Has(micro, {x}) /\ (Once(micro, AnyStarted) => ~Has(micro', AnyStarted))
  BY StartTaken
<1> QED BY <1>1, SingleNext DEF Has, Once, Single, StartTurnContinues

(* ... the start of a turn ...                                                *)
LEMMA StartedKeeps ==
  ASSUME Typed, Down, \A t \in Turns : Sequenced(t), Started, NEW u \in Turns
  PROVE  Sequenced(u)'
<1>1. PICK a : a = Head(inbox) OBVIOUS
<1>2. a \in Output /\ a.m = "started" /\ Cuts(inbox, inbox', a) /\ Shorter(inbox, inbox')
  BY <1>1, LineTaken DEF Started
<1>3. PICK t : t = a.t OBVIOUS
<1>4. t \in Turns /\ a \in Begins(t) /\ a \in Of(t) BY <1>2, <1>3, OutputFacts, OutputOf DEF Turns, Of
<1>5. /\ srv' = srv /\ turns' = turns /\ toSrv' = toSrv /\ wait' = wait /\ micro' = micro
      /\ force' = force /\ ended' = ended
  BY DEF Started, server
<1>7. active' = IF t \in ended THEN active ELSE t
  BY <1>1, <1>3, InputAssumption DEF Started, Line, Down
<1>8. Sequenced(u) /\ Sequenced(t) BY <1>4
<1>10. CASE t \in ended
  <2> QED BY <1>8, <1>2, <1>5, <1>7, <1>3, <1>10, OutputOf, LessensKeeps DEF Lessens, Cuts
<1>11. CASE t \notin ended
  <2>1. active' = t BY <1>7, <1>11
  <2>2. Has(inbox, Of(t)) /\ Has(inbox, Begins(t)) BY <1>2, <1>4 DEF Cuts
  <2>3. \A v \in Turns : (Halting(v)' => Halting(v)) /\ (Known(v)' => Known(v))
    BY <1>2, <1>5 DEF Shorter, Halting, Known
  <2>4. ~Has(inbox', Under(t)) BY <1>2, <1>4, <1>8 DEF Cuts, Sequenced, Ordered
  <2>5. \A v \in Turns : Known(v) \/ active = v => v <= t
    <3> SUFFICES ASSUME NEW v \in Turns, Known(v) \/ active = v PROVE v <= t OBVIOUS
    <3> QED BY <1>4, <2>2, Including DEF Turns, Turn, Sequenced, Past
  <2>6. Ordered(u)' /\ Emitted(u)'
    <3>1. Ordered(u)'
      <4> QED BY <1>2, <1>8 DEF Shorter, Ordered, Turns, Turn, Sequenced
    <3> QED BY <1>2, <1>5, <1>8, <3>1 DEF Shorter, Sequenced, Emitted
  <2>7. Past(u)'
    <3>1. CASE u = t BY <1>5, <1>8, <2>2, <2>4, <3>1 DEF Sequenced, Emitted, Past
    <3>2. CASE u # t BY <1>2, <1>5, <1>8, <2>1, <2>3, <3>2 DEF Shorter, Sequenced, Past
    <3> QED BY <3>1, <3>2
  <2>8. Latest(u)' BY <1>5, <1>8, <2>3 DEF Sequenced, Latest, Turns, Turn
  <2>9. Silent(u)' BY <1>2, <1>5, <1>8 DEF Shorter, Sequenced, Silent
  <2>10. Announced(u)'
    <3>1. CASE u = t BY <2>1, <3>1 DEF Announced
    <3>2. CASE u # t
      <4> SUFFICES ASSUME ~Has(inbox', Begins(u)), Has(inbox', Follows(u)) \/ srv.t = u, u \notin ended
                   PROVE  FALSE
        BY <1>5 DEF Announced
      <4>3. active = u BY <1>8, <1>2, <1>3, <3>2, OutputOf DEF Sequenced, Announced, Shorter, Cuts
      <4>5. srv.t # u
        <5> QED BY <2>5, <3>2, <4>3, <1>4, <1>8, <2>2 DEF Turns, Turn, Sequenced, Emitted
      <4>6. Has(inbox', Follows(u)) => Has(inbox', Under(t))
        <5>1. ASSUME NEW o, o \in Follows(u) PROVE o \in Under(t)
          <6> QED BY <5>1, <2>5, <3>2, <4>3, <1>4 DEF Under, Turns, Follows, Ends, Output, Turn
        <5> QED BY <5>1 DEF Has
      <4> QED BY <2>4, <4>5, <4>6
    <3> QED BY <3>1, <3>2
  <2>11. NotCut(u)'
    <3> QED BY <2>1, <1>4, <2>3, <2>5 DEF NotCut, Turns, Turn
  <2>12. Behind(u)'
    <3> SUFFICES ASSUME active' = u \/ (Has(inbox', Begins(u)) /\ u \notin ended'),
                        NEW c \in AnyStart, Has(wait', {c})
                 PROVE  /\ Before(toSrv', Stopping(u), {c}) /\ (Has(toSrv', {c}) => ~Halting(u)')
                        /\ Before(inbox', Stops(u), AnswersTo(c))
                        /\ Has(inbox', AnswersTo(c)) => force' # u /\ ~Has(micro', Stopped(u))
      BY BehindNext
    <3> QED BY <1>2, <1>5, <2>3, <1>8, <1>11, <2>1, <2>2 DEF Shorter, Sequenced, Behind
  <2> QED BY <2>6, <2>7, <2>8, <2>9, <2>10, <2>11, <2>12, <1>4, <2>1 DEF Sequenced, Turns, Entered
<1> QED BY <1>10, <1>11

(* The continuation of a call that was given up stops and names no turn.      *)
LEMMA LostNames ==
  ASSUME NEW c \in Call, NEW x, x = [k |-> "answer", c |-> c, r |-> "lost", t |-> 0]
  PROVE  /\ x \in Continuation
         /\ \A t : x \notin Named(t) /\ x \notin Stopped(t) /\ x \notin GoingTo(t) /\ x \notin GoingToStop(t)
         /\ x \in AnyStarted <=> c \in AnyStart
<1> QED BY NewContinuations, ZeroIsTurn, ContinuationOf, CallOf DEF Answers

LEMMA TimesOut ==
  ASSUME Typed, CallTimesOut
  PROVE  \E c \in Call :
           /\ Has(wait, {c}) /\ Thins(wait, wait') /\ micro = <<>>
           /\ \A H : c \in H /\ Once(wait, H) => ~Has(wait', H)
           /\ \A t : ~Has(micro', Named(t)) /\ ~Has(micro', Stopped(t)) /\ ~Has(micro', GoingTo(t)) /\ ~Has(micro', GoingToStop(t))
           /\ Has(micro', AnyStarted) => c \in AnyStart
           /\ Once(micro', AnyStarted)
<1>1. PICK c \in Elems(wait) :
        /\ wait' = Without(wait, c)
        /\ micro' = <<[k |-> "answer", c |-> c, r |-> "lost", t |-> 0]>>
  BY DEF CallTimesOut
<1>3. c \in Call /\ Has(wait, {c}) BY <1>1, TypedParts DEF Elems, Has
<1>5. PICK x : x = [k |-> "answer", c |-> c, r |-> "lost", t |-> 0] BY Zenon
<1>8. \A H : (Has(micro', H) => x \in H) /\ Once(micro', H) BY <1>1, <1>5 DEF Has, Once
<1> QED BY <1>3, <1>1, <1>5, <1>8, TypedParts, Thinning, LostNames DEF CallTimesOut, Quiet

(* ... a call that times out ...                                              *)
LEMMA TimesOutKeeps ==
  ASSUME Typed, CallTimesOut, NEW u \in Turns, Sequenced(u) PROVE Sequenced(u)'
<1> QED BY TimesOut, Same, LessensKeeps DEF Lessens, Thins, CallTimesOut, server, turn, link

LEMMA TimesOutSingle == ASSUME Typed, Single, CallTimesOut PROVE Single'
<1>2. PICK c \in Call :
           /\ Has(wait, {c}) /\ Thins(wait, wait') /\ micro = <<>>
           /\ \A H : c \in H /\ Once(wait, H) => ~Has(wait', H)
           /\ Has(micro', AnyStarted) => c \in AnyStart
           /\ Once(micro', AnyStarted)
  BY TimesOut
<1> QED BY <1>2, SingleNext DEF Single, Thins, Has, CallTimesOut, turn

(* With the connection everything that was under way is gone.                 *)
LEMMA LostTakes ==
  ASSUME Typed, ConnectionLost
  PROVE  /\ wait' = <<>> /\ toSrv' = <<>> /\ inbox' = <<>> /\ srv' = Idle /\ turns' = turns
         /\ active' = 0 /\ force' = 0 /\ steered' = <<>> /\ ended' = ended /\ starting' = starting /\ micro = <<>>
         /\ offline' /\ chunk' = 0
         /\ \A t : ~Has(micro', Named(t)) /\ ~Has(micro', Stopped(t)) /\ ~Has(micro', GoingTo(t)) /\ ~Has(micro', GoingToStop(t))
         /\ Has(micro', AnyStarted) => Has(wait, AnyStart)
         /\ Once(wait, AnyStart) => Once(micro', AnyStarted)
<1>2. PICK m : m = micro' OBVIOUS
<1>4. wait \in Seq(Call) /\ \A k \in DOMAIN wait : wait[k] \in Call BY TypedParts
<1>5. ASSUME NEW k \in DOMAIN wait
      PROVE  /\ \A t : m[k] \notin Named(t) /\ m[k] \notin Stopped(t) /\ m[k] \notin GoingTo(t) /\ m[k] \notin GoingToStop(t)
             /\ m[k] \in AnyStarted <=> wait[k] \in AnyStart
  <2>1. PICK c : c = wait[k] OBVIOUS
  <2> QED BY <2>1, <1>2, <1>4, LostNames DEF ConnectionLost
<1> QED BY <1>2, <1>5 DEF ConnectionLost, Quiet, Has, Once

(* ... and a connection that is lost.                                         *)
LEMMA LostKeeps ==
  ASSUME Typed, ConnectionLost, NEW u \in Turns, Sequenced(u) PROVE Sequenced(u)'
<1>1. u # 0 /\ 0 # u BY DEF Turns
<1>4. srv'.t = 0 /\ srv'.pend = {} BY LostTakes DEF Idle
<1>9. Announced(u)' BY <1>1, <1>4, LostTakes, NothingBefore DEF Announced
<1>11. Entered(u)' BY LostTakes, NothingBefore DEF Entered
<1> QED
  BY <1>1, <1>4, <1>9, <1>11, LostTakes, NothingBefore, BehindNext DEF Sequenced, Silent, Past,
     Latest, NotCut, Halting, Known, Turns, Ordered, Emitted

LEMMA LostSingle == ASSUME Typed, Single, ConnectionLost PROVE Single'
<1> QED BY LostTakes, NothingBefore, SingleNext DEF Single

-----------------------------------------------------------------------------
(* The server, and what it tells of its turn.                                 *)
(* The server moves while the session is quiet.                               *)
LEMMA Unmoved ==
  ASSUME Quiet, serverKeeps' = serverKeeps
  PROVE  /\ queue' = queue /\ started' = started /\ steered' = steered /\ active' = active /\ starting' = starting
         /\ force' = force /\ seen' = seen /\ ended' = ended /\ cause' = cause /\ offline' = offline /\ closed' = closed
         /\ wait' = wait /\ waiting' = waiting /\ micro' = micro /\ chunk' = chunk /\ new' = new /\ fell' = fell
         /\ \A H : ~Has(micro, H) /\ ~Has(micro', H)
<1> QED BY NothingBefore DEF serverKeeps, turn, history, Quiet

LEMMA UnmovedSingle == ASSUME Single, Quiet, serverKeeps' = serverKeeps PROVE Single'
BY Unmoved, SingleNext DEF Single

(* Two lines are gained, in either order.                                     *)
LEMMA Gaining ==
  ASSUME NEW D, NEW s \in Seq(D), NEW a \in D, NEW b \in D PROVE Gains(s, s \o <<a, b>>, a, b)
<1>1. PICK m : m = Append(s, a) BY Zenon
<1>2. m \in Seq(D) /\ Adds(s, m, a) BY <1>1, Adding
<1>3. PICK r : r = Append(m, b) BY Zenon
<1>4. Adds(m, r, b) BY <1>2, <1>3, Adding
<1>5. s \o <<a, b>> = r
  <2>1. PICK y, z : y = <<a, b>> /\ z = s \o y BY Zenon
  <2>3. z \in Seq(D) /\ Len(z) = Len(s) + 2 /\ Len(s) \in Nat
        /\ \A k \in 1..(Len(s) + 2) : z[k] = IF k <= Len(s) THEN s[k] ELSE y[k - Len(s)] BY <2>1
  <2>4. m \in Seq(D) /\ Len(m) = Len(s) + 1 /\ \A k \in 1..Len(s) : m[k] = s[k] BY <1>1
  <2>6. r \in Seq(D) /\ Len(r) = Len(m) + 1 /\ \A k \in 1..Len(m) : r[k] = m[k] BY <1>3, <2>4
  <2>8. \A k \in 1..(Len(s) + 2) : z[k] = r[k]
    <3> TAKE k \in 1..(Len(s) + 2)
    <3>1. CASE k <= Len(s)
      <4>1. k \in 1..Len(s) /\ k \in 1..Len(m) BY <2>3, <2>4, <3>1
      <4> QED BY <4>1, <2>3, <2>4, <2>6
    <3>2. CASE k = Len(s) + 1
      <4> QED BY <2>3, <2>4, <3>2, <2>1, <1>1, <2>6
    <3>3. CASE k = Len(s) + 2
      <4>1. k = Len(m) + 1 /\ k - Len(s) = 2 /\ ~(k <= Len(s)) BY <2>3, <2>4, <3>3
      <4> QED BY <4>1, <2>1, <2>3, <1>3, <2>4
    <3> QED BY <2>3, <3>1, <3>2, <3>3
  <2>10. z = r BY <2>3, <2>6, <2>8, <2>4
  <2> QED BY <2>1, <2>10
<1> QED BY <1>5, <1>2, <1>4 DEF Adds, Gains

LEMMA OpensFacts ==
  ASSUME Typed, NEW a \in Output, Opens(a)
  PROVE  /\ turns' = turns + 1 /\ turns + 1 \in Turns
         /\ srv'.t = turns + 1 /\ srv'.first = Head(toSrv).i /\ srv'.pend = {} /\ srv'.stopping = FALSE /\ srv'.shown = FALSE
         /\ srv.t = 0 \/ srv.stopping
         /\ \E o \in Output : o \in Begins(turns + 1) /\ Gains(inbox, inbox', a, o)
<1>1. turns + 1 \in Turns /\ turns' = turns + 1 BY ServerParts, InputAssumption DEF Opens, Turn, Turns
<1>3. PICK o : o = [m |-> "started", t |-> turns + 1] BY Zenon
<1>4. o \in Output /\ o \in Begins(turns + 1) BY <1>1, <1>3, NewOutputs DEF Turns, Begins
<1>8. Gains(inbox, inbox', a, o)
  <2>1. CASE inbox' = inbox \o <<a, o>> BY <1>4, <2>1, ServerParts, Gaining
  <2>2. CASE inbox' = inbox \o <<o, a>>
    <3> QED BY <1>4, <2>2, ServerParts, Gaining DEF Gains
  <2> QED BY Zenon, <1>3, <2>1, <2>2 DEF Opens
<1> QED BY <1>1, <1>4, <1>8 DEF Idle, Opens

(* A turn is opened.                                                          *)
LEMMA OpensKeeps ==
  ASSUME Typed, Serves, NEW u \in Turns, Sequenced(u), Quiet, serverKeeps' = serverKeeps,
         NEW c \in Call, c \in AnyStart, c = Head(toSrv), Cuts(toSrv, toSrv', c),
         NEW a \in Output, a.m = "answer", a.c = c, a.t \in {0, turns + 1}, Opens(a)
  PROVE  Sequenced(u)'
<1>0. PICK n : n = turns + 1 OBVIOUS
<1>1. PICK o \in Output :
        /\ n = turns + 1 /\ turns' = n /\ n \in Turns /\ srv'.t = n /\ srv'.pend = {}
        /\ o \in Begins(n) /\ Gains(inbox, inbox', a, o)
  BY Zenon, <1>0, OpensFacts
<1>2. c.op \in {"start", "next"} BY CallOf
<1>4. \A v : a \notin Stops(v) /\ a \notin Ends(v) /\ a \notin News(v) /\ a \notin Follows(v) /\ a \notin Begins(v)
  BY <1>2, OutputOf
<1>5. \A v : o \notin Stops(v) /\ o \notin Ends(v) /\ o \notin News(v) /\ o \notin Follows(v) /\ o \notin Opening(v)
             /\ (o \in Begins(v) <=> v = n) BY <1>1, OutputOf
<1>6. turns \in Nat /\ n \in Nat /\ n > turns /\ u \in Nat BY <1>1, ServerParts DEF Turn, Turns
<1>7. /\ a \in Of(u) \/ o \in Of(u) => u = n
      /\ a \in Under(u) \/ o \in Under(u) => n < u
      /\ a \in Upto(u) \/ o \in Upto(u) => n <= u BY <1>1, OutputOf DEF Of, Under, Upto, Turns
<1>8. /\ \A H : ~Has(micro, H) /\ ~Has(micro', H)
      /\ active' = active /\ force' = force /\ ended' = ended /\ wait' = wait /\ micro' = micro
  BY Unmoved
<1>9. (Has(inbox, Of(u)) => u <= turns) /\ (Has(inbox, Ends(u)) => Has(inbox, Of(u)))
  BY Including DEF Sequenced, Emitted
<1>10. Has(inbox, Follows(u)) => Has(inbox, Of(u))
  <2>1. ASSUME NEW y, y \in Follows(u) PROVE y \in Of(u) BY <2>1 DEF Follows, Ends, Of, Output, Turns
  <2> QED BY <2>1 DEF Has
<1>11. Ordered(u)'
  <2>1. Before(inbox', Of(u), Under(u))
    <3> QED BY <1>1, <1>6, <1>7, <1>9 DEF Gains, Sequenced, Ordered
  <2>2. Before(inbox', Ends(u), Upto(u))
    <3> QED BY <1>1, <1>4, <1>5, <1>6, <1>7, <1>9 DEF Gains, Sequenced, Ordered
  <2>3. Before(inbox', Stops(u), News(u))
    <3> QED BY <1>1, <1>4, <1>5 DEF Gains, Sequenced, Ordered
  <2>4. Before(inbox', Follows(u), Begins(u))
    <3> QED BY <1>1, <1>4, <1>5, <1>6, <1>9, <1>10 DEF Gains, Sequenced, Ordered
  <2>5. ASSUME NEW v \in Turns, v < u PROVE Before(inbox', Opening(u), Stops(v))
    <3> QED BY <1>1, <1>4, <1>5, <2>5 DEF Gains, Sequenced, Ordered
  <2> QED BY <2>1, <2>2, <2>3, <2>4, <2>5 DEF Ordered, Turns, Turn
<1>13. (Halting(u)' => Halting(u)) /\ (Known(u)' => Known(u))
  BY <1>1, <1>8, <1>4, <1>5 DEF Halting, Known, Cuts, Gains
<1>14. (Known(u) => u <= turns) /\ (active = u => u <= turns) BY DEF Sequenced, Past
<1>15. Emitted(u)'
  <2> QED BY <1>1, <1>6, <1>7, <1>9, <1>4, <1>5, <1>14 DEF Emitted, Gains, Known, Halting
<1>16. Past(u)'
  <2> QED BY <1>1, <1>6, <1>8, <1>13, <1>14, <1>7 DEF Past, Gains, Sequenced
<1>18. Silent(u)'
  <2> QED BY <1>1, <1>6, <1>8, <1>4, <1>5 DEF Sequenced, Silent, Gains
<1>19. Announced(u)'
  <2>1. CASE u = n BY <1>1, <1>5, <2>1 DEF Gains, Announced
  <2>2. CASE u # n
    <3> QED BY <1>1, <1>8, <2>2, <1>4, <1>5 DEF Sequenced, Announced, Gains
  <2> QED BY <2>1, <2>2
<1>21. NotCut(u)'
  <2> SUFFICES ASSUME Known(u)', active # 0, active < u PROVE ~Halting(active)' BY <1>8 DEF NotCut
  <2>2. PICK v \in Turns : v = active BY TypedParts DEF Turns
  <2> QED
    BY <1>13, <1>1, <1>4, <1>5, <1>8, <2>2 DEF Sequenced, NotCut, Halting, Gains, Stopped, Stops,
       Stopping
<1>22. Behind(u)'
  <2> SUFFICES ASSUME active' = u \/ (Has(inbox', Begins(u)) /\ u \notin ended'),
                      NEW d \in AnyStart, Has(wait', {d})
               PROVE  /\ Before(toSrv', Stopping(u), {d}) /\ (Has(toSrv', {d}) => ~Halting(u)')
                      /\ Before(inbox', Stops(u), AnswersTo(d))
                      /\ Has(inbox', AnswersTo(d)) => force' # u /\ ~Has(micro', Stopped(u))
    BY Zenon, BehindNext
  <2>1. CASE active = u \/ (Has(inbox, Begins(u)) /\ u \notin ended)
    <3>1. /\ Before(toSrv, Stopping(u), {d}) /\ (Has(toSrv, {d}) => ~Halting(u))
          /\ Before(inbox, Stops(u), AnswersTo(d))
          /\ Has(inbox, AnswersTo(d)) => force # u /\ ~Has(micro, Stopped(u))
      BY <1>8, <2>1 DEF Sequenced, Behind
    <3>3. Has(toSrv, {c})
      <4> QED BY DEF Cuts
    <3> QED BY <1>8, <1>13, <3>1, <1>1, <1>4, <1>5, <3>3, OutputOf DEF Cuts, Gains, Halting
  <2>2. CASE ~(active = u \/ (Has(inbox, Begins(u)) /\ u \notin ended))
    <3> QED
      BY <1>8, <1>6, <1>13, <1>14, <1>1, <1>4, <1>5, <2>2, Including DEF Has, Before, Halting,
         Known, Gains
  <2> QED BY <2>1, <2>2
<1>23. Entered(u)'
  <2> SUFFICES ASSUME Has(micro', GoingToStop(u)) \/ Has(toSrv', Stopping(u)) \/ Halting(u)',
                      Has(inbox', Begins(u)), u \notin ended'
               PROVE  active' # 0
    BY DEF Entered
  <2> QED
    BY <1>8, <1>13, <1>1, <1>4, <1>5, <1>6, <1>14, Including DEF Sequenced, Entered, Cuts, Gains,
       Known
<1> QED BY <1>11, <1>15, <1>16, <1>8, <1>18, <1>19, <1>21, <1>22, <1>23 DEF Sequenced, Latest

(* What holds of the active turn in terms of a turn.                          *)
LEMMA NotCutNext ==
  ASSUME Typed, NEW u \in Turns, active' = active,
         \A v \in Turns : active = v /\ v < u /\ Known(u)' => ~Halting(v)'
  PROVE  NotCut(u)'
<1> SUFFICES ASSUME Known(u)', active # 0, active < u PROVE ~Halting(active)' BY DEF NotCut
<1>2. PICK v \in Turns : v = active BY TypedParts DEF Turns
<1> QED BY <1>2 DEF Halting, Stopped, Stops, Stopping

LEMMA NotCutOf ==
  ASSUME NEW u \in Turns, NotCut(u), NEW v \in Turns, active = v, v < u, Known(u) PROVE ~Halting(v)
BY DEF NotCut, Turns

(* A call is answered that does not open or stop a turn.                      *)
LEMMA NoteKeeps ==
  ASSUME Typed, NEW u \in Turns, Sequenced(u), Quiet, serverKeeps' = serverKeeps,
         NEW c \in Call, Cuts(toSrv, toSrv', c), turns' = turns,
         NEW a \in Output, a.m = "answer", a.c = c, a.t = 0, a.r # "ok" \/ c.op = "steer",
         Adds(inbox, inbox', a), srv'.t = srv.t, srv'.stopping = srv.stopping,
         srv'.pend = srv.pend \/ c \in Into(srv.t)
  PROVE  Sequenced(u)'
<1>1. \A v : /\ a \notin Stops(v) /\ a \notin Ends(v) /\ a \notin News(v) /\ a \notin Follows(v)
             /\ a \notin Begins(v) /\ (v \in Turns => a \notin Opening(v))
  BY OutputOf DEF Turns
<1>3. /\ \A H : ~Has(micro, H) /\ ~Has(micro', H)
      /\ active' = active /\ force' = force /\ ended' = ended /\ wait' = wait /\ micro' = micro
  BY Unmoved
<1>4. \A v \in Turns : Halting(v)' <=> Halting(v) BY <1>1, <1>3 DEF Halting, Adds
<1>5. Known(u)' => Known(u)
  <2>1. Has(toSrv, {c}) /\ (c \in Into(u) => Has(toSrv, Into(u)))
    <3> QED BY DEF Cuts
  <2> QED BY <1>3, <1>4, <2>1 DEF Known, Cuts
<1>6. Ordered(u)'
  <2>2. ASSUME NEW v \in Turns, v < u PROVE Before(inbox', Opening(u), Stops(v))
    <3> QED BY <1>1, <2>2 DEF Adds, Sequenced, Ordered
  <2> QED BY <1>1, <2>2 DEF Ordered, Turns, Turn, Sequenced, Adds, Of, Under, Upto
<1>7. Emitted(u)' BY <1>1 DEF Sequenced, Emitted, Adds, Of, Under, Upto, Turns
<1>8. Past(u)' BY <1>3, <1>5 DEF Sequenced, Past, Adds, Of, Under, Upto, Turns
<1>12. NotCut(u)'
  <2> QED BY <1>3, <1>4, <1>5, NotCutOf, NotCutNext DEF Sequenced
<1>13. Behind(u)'
  <2> SUFFICES ASSUME active' = u \/ (Has(inbox', Begins(u)) /\ u \notin ended'),
                      NEW d \in AnyStart, Has(wait', {d})
               PROVE  /\ Before(toSrv', Stopping(u), {d}) /\ (Has(toSrv', {d}) => ~Halting(u)')
                      /\ Before(inbox', Stops(u), AnswersTo(d))
                      /\ Has(inbox', AnswersTo(d)) => force' # u /\ ~Has(micro', Stopped(u))
    BY Zenon, BehindNext
  <2>3. Has(toSrv, {c})
    <3> QED BY DEF Cuts
  <2> QED BY <1>3, <1>4, <1>1, <2>3, OutputOf DEF Cuts, Adds, Halting, Sequenced, Behind
<1> QED
  BY <1>6, <1>7, <1>8, <1>3, <1>1, <1>12, <1>13, <1>4 DEF Sequenced, Latest, Announced, Adds,
     Entered, Cuts, Silent

(* An interrupt is accepted.                                                  *)
LEMMA InterruptsKeeps ==
  ASSUME Typed, Serves, NEW u \in Turns, Sequenced(u), Quiet, serverKeeps' = serverKeeps,
         NEW c \in Call, Cuts(toSrv, toSrv', c), c.op = "interrupt", c.t = srv.t, srv.t # 0, turns' = turns,
         NEW a \in Output, a.m = "answer", a.c = c, a.t = 0, a.r = "ok",
         Adds(inbox, inbox', a), srv'.t = srv.t, srv'.stopping, srv'.pend = {}
  PROVE  Sequenced(u)'
<1>1. \A v : /\ a \in Stops(v) <=> v = srv.t
             /\ a \notin Ends(v) /\ a \notin News(v) /\ a \notin Follows(v) /\ a \notin Begins(v) /\ a \notin Opening(v)
  BY OutputOf
<1>3. /\ \A H : ~Has(micro, H) /\ ~Has(micro', H)
      /\ active' = active /\ force' = force /\ ended' = ended /\ wait' = wait /\ micro' = micro
  BY Unmoved
<1>4. \A v \in Turns : Halting(v)' <=> Halting(v) \/ v = srv.t BY <1>1, <1>3 DEF Halting, Adds
<1>6. u = srv.t => Has(toSrv, Stopping(u)) /\ Has(toSrv, Into(u))
  <2> QED BY CallOf DEF Cuts, Into
<1>8. Ordered(u)'
  <2>2. ASSUME NEW v \in Turns, v < u PROVE Before(inbox', Opening(u), Stops(v))
    <3>2. v = srv.t => ~Has(inbox, Opening(u))
      <4>1. ASSUME NEW y, y \in Opening(u) PROVE y \in Of(u) BY <4>1 DEF Opening, Of, Output, Turns, AnyStart, Call, Answers
      <4> QED BY <2>2, <4>1 DEF Turns, Turn, Has, Sequenced, Emitted
    <3> QED BY <1>1, <2>2, <3>2 DEF Adds, Sequenced, Ordered
  <2> QED BY <1>1, <2>2 DEF Ordered, Turns, Turn, Sequenced, Adds, Of, Under, Upto
<1>9. Emitted(u)' BY <1>1 DEF Sequenced, Emitted, Adds, Of, Under, Upto, Turns
<1>10. Past(u)' BY <1>3, <1>4, <1>6 DEF Sequenced, Past, Adds, Of, Under, Upto, Turns, Known, Cuts
<1>14. NotCut(u)'
  <2>3. ASSUME NEW v \in Turns, active = v, v < u, Known(u)' PROVE ~Halting(v)'
    <3> QED BY <1>4, <1>3, <1>6, <2>3, NotCutOf DEF Sequenced, Turns, Turn, Past, Known, Cuts
  <2> QED BY <1>3, <2>3, NotCutNext
<1>15. Behind(u)'
  <2> SUFFICES ASSUME active' = u \/ (Has(inbox', Begins(u)) /\ u \notin ended'),
                      NEW d \in AnyStart, Has(wait', {d})
               PROVE  /\ Before(toSrv', Stopping(u), {d}) /\ (Has(toSrv', {d}) => ~Halting(u)')
                      /\ Before(inbox', Stops(u), AnswersTo(d))
                      /\ Has(inbox', AnswersTo(d)) => force' # u /\ ~Has(micro', Stopped(u))
    BY BehindNext
  <2>2. a \notin AnswersTo(d)
    <3> QED BY OutputOf DEF AnyStart
  <2> QED BY <1>3, <1>4, <1>1, <2>2, CallOf DEF Cuts, Adds, Sequenced, Behind
<1> QED
  BY <1>8, <1>9, <1>10, <1>3, <1>1, <1>14, <1>15, <1>4, <1>6 DEF Sequenced, Latest, Silent, Adds,
     Announced, Entered, Cuts

(* A turn shows an input or ends.                                             *)
LEMMA TellsKeeps ==
  ASSUME Typed, Serves, NEW u \in Turns, Sequenced(u), Quiet, serverKeeps' = serverKeeps,
         toSrv' = toSrv, turns' = turns, srv.t # 0,
         NEW a \in Output, a.m \in {"shown", "completed"}, a.t = srv.t, Adds(inbox, inbox', a),
         a.m = "shown" => ~srv.stopping /\ srv'.t = srv.t /\ srv'.stopping = srv.stopping /\ srv'.pend \subseteq srv.pend,
         a.m = "completed" => a.interrupted = srv.stopping /\ srv' = Idle
  PROVE  Sequenced(u)'
<1>1. \A v : /\ a \notin Stops(v) /\ a \notin Begins(v) /\ a \notin Opening(v)
             /\ a \in Follows(v) <=> v = srv.t
             /\ a \in News(v) => v = srv.t /\ ~srv.stopping
             /\ a \in Ends(v) <=> v = srv.t /\ a.m = "completed"
             /\ \A c : a \notin AnswersTo(c)
  BY OutputOf
<1>2. /\ a \in Of(u) <=> u = srv.t
      /\ a \in Under(u) <=> srv.t < u
      /\ a \in Upto(u) <=> srv.t <= u
  BY DEF Of, Under, Upto
<1>3. /\ \A H : ~Has(micro, H) /\ ~Has(micro', H)
      /\ active' = active /\ force' = force /\ ended' = ended /\ wait' = wait /\ micro' = micro
  BY Unmoved
<1>4. \A v \in Turns : Halting(v)' <=> Halting(v) BY <1>1, <1>3 DEF Halting, Adds
<1>6. srv.t \in Turns /\ srv.t \in Nat /\ u \in Nat /\ turns \in Nat /\ srv.t <= turns
  BY ServerParts DEF Turns, Turn, Serves
<1>8. Ordered(u)'
  <2>1. Before(inbox', Of(u), Under(u))
    <3> QED BY <1>2, <1>6 DEF Adds, Sequenced, Ordered, Emitted
  <2>2. Before(inbox', Ends(u), Upto(u))
    <3> QED BY <1>2, <1>6 DEF Adds, Sequenced, Ordered, Emitted
  <2>3. Before(inbox', Stops(u), News(u))
    <3> QED BY <1>1 DEF Adds, Sequenced, Ordered, Emitted
  <2>5. ASSUME NEW v \in Turns, v < u PROVE Before(inbox', Opening(u), Stops(v))
    <3> QED BY <1>1, <2>5 DEF Adds, Sequenced, Ordered
  <2> QED BY <2>1, <2>2, <2>3, <1>1, <2>5 DEF Ordered, Turns, Turn, Sequenced, Adds
<1>9. Emitted(u)'
  <2> QED BY <1>2, <1>6, <1>1 DEF Emitted, Sequenced, Adds, Idle, Turns
<1>10. Past(u)'
  <2> QED BY <1>3, <1>4, <1>2, <1>6 DEF Past, Sequenced, Adds, Known, Idle
<1>12. Silent(u)'
  <2> SUFFICES ASSUME u \in ended \/ force = u
               PROVE  (srv'.t # u \/ srv'.stopping) /\ ~Has(inbox', News(u)) /\ u <= turns
    BY <1>3 DEF Silent
  <2> QED BY <1>1 DEF Adds, Sequenced, Silent, Idle, Turns
<1>13. Announced(u)'
  <2> QED BY <1>1, <1>3 DEF Sequenced, Announced, Adds, Turns, Idle
<1>14. NotCut(u)'
  <2> QED BY <1>3, <1>4, NotCutOf, NotCutNext DEF Sequenced, Known, Idle
<1>15. Behind(u)'
  <2> SUFFICES ASSUME active' = u \/ (Has(inbox', Begins(u)) /\ u \notin ended'),
                      NEW d \in AnyStart, Has(wait', {d})
               PROVE  /\ Before(toSrv', Stopping(u), {d}) /\ (Has(toSrv', {d}) => ~Halting(u)')
                      /\ Before(inbox', Stops(u), AnswersTo(d))
                      /\ Has(inbox', AnswersTo(d)) => force' # u /\ ~Has(micro', Stopped(u))
    BY BehindNext
  <2> QED BY <1>1, <1>3, <1>4 DEF Adds, Sequenced, Behind
<1>16. Entered(u)' BY <1>1, <1>3, <1>4 DEF Sequenced, Entered, Adds
<1> QED BY <1>8, <1>9, <1>10, <1>3, <1>12, <1>13, <1>14, <1>15, <1>16 DEF Sequenced, Latest

-----------------------------------------------------------------------------
(* The order of the turns, for every step.                                    *)
(* An approval that cancels the turn keeps the order of the turns.            *)
LEMMA AbortsKeeps ==
  ASSUME Typed, NEW u \in Turns, Sequenced(u), Quiet, serverKeeps' = serverKeeps,
         toSrv' = toSrv, inbox' = inbox, turns' = turns, srv'.t = srv.t, srv'.stopping, srv'.pend = {}
  PROVE  Sequenced(u)'
<1>1. /\ \A H : ~Has(micro, H) /\ ~Has(micro', H)
      /\ active' = active /\ force' = force /\ ended' = ended /\ wait' = wait /\ micro' = micro
  BY Unmoved
<1>4. Ordered(u)'
  <2> QED BY DEF Ordered, Sequenced
<1>10. NotCut(u)'
  <2> QED BY <1>1, NotCutOf, NotCutNext DEF Known, Sequenced, Halting
<1>11. Behind(u)'
  <2> QED BY <1>1, BehindNext DEF Behind, Sequenced, Halting
<1> QED
  BY <1>4, <1>1, <1>10, <1>11 DEF Sequenced, Announced, Entered, Past, Known, Halting, Silent,
     Emitted, Latest

(* The first request is taken.                                                *)
LEMMA RequestTaken ==
  ASSUME Typed, NEW op, Takes(op)
  PROVE  Head(toSrv) \in Call /\ Head(toSrv).op \in op /\ Cuts(toSrv, toSrv', Head(toSrv)) /\ Quiet
<1> QED BY TypedParts, TakesTypes, Cutting DEF Takes

(* Requests into a turn name one.                                             *)
LEMMA RequestNames ==
  ASSUME Serves, NEW c \in Call, Cuts(toSrv, toSrv', c), c.op \in {"steer", "interrupt"}, srv.t = c.t
  PROVE  c.t # 0
<1> QED BY CallOf DEF Serves, Cuts

LEMMA ServerStays == ASSUME ServerStep PROVE Quiet /\ serverKeeps' = serverKeeps
BY DEF ServerStep, ServerStarts, ServerRefuses, ServerErrs, ServerSteers, ServerInterrupts,
       ServerShows, ServerCompletes, ServerAborts, Takes, serverLeaves

(* Every step of the server keeps the order of the turns.                     *)
LEMMA ServerTurn ==
  ASSUME Typed, Serves, ServerStep, \A t \in Turns : Sequenced(t)
  PROVE  Serves' /\ \A u \in Turns : Sequenced(u)'
<1>1. Quiet /\ serverKeeps' = serverKeeps BY ServerStays
<1>2. PICK c : c = Head(toSrv) OBVIOUS
<1>3. inbox \in Seq(Output) /\ turns \in Nat /\ srv.pend \subseteq Inputs /\ srv.stopping \in BOOLEAN /\ srv.t \in Turn
  BY ServerParts DEF Turn
<1>4. ASSUME NEW a \in Output, inbox' = Append(inbox, a) PROVE Adds(inbox, inbox', a) BY <1>3, <1>4, Adding
<1>5. /\ srv.t <= turns /\ (srv.stopping => srv.pend = {})
      /\ IF srv.t = 0 THEN srv = Idle ELSE srv.first \in Inputs
      /\ ~Has(inbox, Follows(0)) /\ ~Has(toSrv, Into(0))
  BY DEF Serves
<1>6. CASE ServerRefuses \/ ServerErrs \/ ServerStarts
  <2>1. c \in Call /\ Cuts(toSrv, toSrv', c) /\ c.op \in {"start", "next", "steer", "interrupt"}
    BY <1>2, <1>6, RequestTaken DEF ServerRefuses, ServerErrs, ServerStarts
  <2>3. CASE ServerRefuses \/ (ServerErrs /\ ~Opens(Answer(c, "error", 0)))
    <3>1. PICK r \in {"refused", "error"} : inbox' = Append(inbox, Answer(c, r, 0)) /\ srv' = srv /\ turns' = turns
      BY <1>2, <2>3 DEF ServerRefuses, ServerErrs
    <3>2. PICK a : a = Answer(c, r, 0) OBVIOUS
    <3>3. a \in Output /\ a.m = "answer" /\ a.c = c /\ a.t = 0 /\ a.r # "ok"
      BY <2>1, <3>2, NewOutputs, ZeroIsTurn DEF Answers, Answer
    <3> QED
      BY <1>1, <2>1, <3>1, <3>3, <1>4, <3>2, <1>5, OutputOf, NoteKeeps DEF Serves, Adds, Idle, Cuts
  <2>4. CASE ServerStarts \/ (ServerErrs /\ Opens(Answer(c, "error", 0)))
    <3>1. c.op \in {"start", "next"} /\ c.i \in Inputs
      BY <1>2, <2>4, RequestTaken, CallFacts DEF ServerStarts, ServerErrs
    <3>3. PICK a : (a = Answer(c, "ok", turns + 1) \/ a = Answer(c, "error", 0)) /\ Opens(a)
      BY <1>2, <2>4 DEF ServerStarts
    <3>4. turns + 1 \in Turn
      <4> QED BY <1>3, <3>3, InputAssumption DEF Turn, Opens
    <3>5. a \in Output /\ a.m = "answer" /\ a.c = c /\ a.t \in {0, turns + 1}
      BY <2>1, <3>3, <3>4, NewOutputs, ZeroIsTurn DEF Answers, Answer
    <3>6. PICK o \in Output :
            /\ turns' = turns + 1 /\ turns + 1 \in Turns
            /\ srv'.t = turns + 1 /\ srv'.first = c.i /\ srv'.pend = {} /\ o \in Begins(turns + 1)
            /\ Gains(inbox, inbox', a, o)
      BY Zenon, <1>2, <3>3, <3>5, OpensFacts
    <3>10. Serves' BY <1>5, <2>1, <3>1, <3>6, <3>5, <1>3, OutputOf DEF Serves, Turns, Gains, Cuts
    <3> QED BY <1>1, <1>2, <2>1, <3>1, <3>3, <3>5, <3>10, CallOf, OpensKeeps
  <2> QED BY <1>6, <2>3, <2>4
<1>7. CASE ServerSteers \/ ServerInterrupts
  <2>1. c \in Call /\ Cuts(toSrv, toSrv', c) /\ c.op \in {"steer", "interrupt"} /\ srv.t = c.t
    BY <1>2, <1>7, RequestTaken DEF ServerSteers, ServerInterrupts
  <2>2. srv.t # 0 BY <2>1, RequestNames
  <2>3. PICK a : a = Answer(c, "ok", 0) OBVIOUS
  <2>4. a \in Output /\ a.m = "answer" /\ a.c = c /\ a.t = 0 /\ a.r = "ok"
    BY <2>1, <2>3, NewOutputs, ZeroIsTurn DEF Answers, Answer
  <2>5. inbox' = Append(inbox, a) /\ turns' = turns BY <1>2, <1>7, <2>3 DEF ServerSteers, ServerInterrupts
  <2>6. Adds(inbox, inbox', a) BY <1>4, <2>4, <2>5
  <2>7. ~Has(inbox', Follows(0)) /\ ~Has(toSrv', Into(0)) BY <1>5, <2>1, <2>4, <2>6, OutputOf DEF Adds, Cuts
  <2>8. CASE ServerSteers
    <3>2. srv'.t = srv.t /\ srv'.stopping = srv.stopping /\ srv'.first = srv.first
      BY <1>2, <2>8, ServerParts DEF ServerSteers
    <3>3. c.op = "steer" BY <1>2, <2>8, RequestTaken DEF ServerSteers
    <3>4. c \in Into(srv.t) BY <2>1, CallOf
    <3>5. Serves' BY <1>5, <2>2, <2>5, <2>7, <1>2, <2>8, <3>2 DEF Serves, ServerSteers
    <3> QED BY <1>1, <2>1, <2>4, <2>5, <2>6, <3>2, <3>3, <3>4, <3>5, NoteKeeps
  <2>9. CASE ServerInterrupts
    <3>2. srv'.t = srv.t /\ srv'.stopping /\ srv'.pend = {} /\ srv'.first = srv.first
      BY <2>9, ServerParts DEF ServerInterrupts
    <3>3. c.op = "interrupt" BY <1>2, <2>9, RequestTaken DEF ServerInterrupts
    <3>4. Serves' BY <1>5, <2>2, <2>5, <2>7, <3>2 DEF Serves
    <3> QED BY <1>1, <2>1, <2>2, <2>4, <2>5, <2>6, <3>2, <3>3, <3>4, InterruptsKeeps
  <2> QED BY <1>7, <2>8, <2>9
<1>8. CASE ServerShows \/ ServerCompletes
  <2>1. toSrv' = toSrv /\ turns' = turns /\ srv.t # 0 BY <1>8 DEF ServerShows, ServerCompletes
  <2>2. CASE ServerShows
    <3>1. PICK i \in Inputs \cup {Nothing} : inbox' = Append(inbox, [m |-> "shown", t |-> srv.t, i |-> i])
      BY Zenon, <2>2, ServerParts DEF ServerShows
    <3>2. PICK a : a = [m |-> "shown", t |-> srv.t, i |-> i] BY Zenon
    <3>3. a \in Output /\ a.m = "shown" /\ a.t = srv.t BY <1>3, <3>2, NewOutputs
    <3>4. Adds(inbox, inbox', a) BY <1>4, <3>1, <3>2, <3>3
    <3>6. ~Has(inbox', Follows(0)) BY <1>5, <2>1, <3>3, <3>4, OutputOf DEF Adds
    <3> QED
      BY <1>1, <2>1, <3>3, <3>4, <2>2, <1>5, <3>6, ServerParts, TellsKeeps DEF ServerShows, Serves
  <2>3. CASE ServerCompletes
    <3>1. PICK a : a = [m |-> "completed", t |-> srv.t, interrupted |-> srv.stopping] BY Zenon
    <3>6. Serves'
      BY <1>3, <1>5, <2>1, <2>3, <3>1, <1>4, NewOutputs, OutputOf DEF Serves, Idle, Adds,
         ServerCompletes
    <3> QED BY <1>1, <2>1, <1>3, <3>1, <2>3, <1>4, <3>6, NewOutputs, TellsKeeps DEF ServerCompletes
  <2> QED BY <1>8, <2>2, <2>3
<1>9. CASE ServerAborts
  <2> QED BY <1>1, <1>9, <1>5, ServerParts, AbortsKeeps DEF ServerAborts, Serves, Idle
<1> QED BY <1>6, <1>7, <1>8, <1>9 DEF ServerStep

LEMMA Steps ==
  ASSUME [Next]_vars
  PROVE  \/ Calls \/ StartTurnContinues \/ DrainContinues \/ SteerResumes \/ SteerContinues
         \/ InterruptResumes \/ InterruptContinues \/ ForceClose \/ Chunk \/ Answered \/ Started \/ Claim \/ Completed
         \/ CallTimesOut \/ ConnectionLost \/ ServerStep
BY DEF Next, Calls, ServerStep

-----------------------------------------------------------------------------

LEMMA DownIs == (Down <=> (offline \/ closed => Still)) /\ (Down' <=> (offline' \/ closed' => Still'))
BY DEF Down, Still

LEMMA StillKept ==
  ASSUME Still, Shorter(micro, micro'), wait' = wait, toSrv' = toSrv, inbox' = inbox, srv' = srv,
         active' = 0, force' = 0, steered' = <<>>, chunk' = 0
  PROVE  Still'
BY DEF Still, Shorter

LEMMA NoneLeft == ASSUME NEW D, NEW s \in Seq(D), NEW x, s = <<>> PROVE Without(s, x) = <<>>
<1>1. PICK r : r = Without(s, x) OBVIOUS
<1>2. r \in Seq(D) BY Zenon, <1>1, WithoutTypes
<1>4. ~Has(r, D) BY <1>1, NothingBefore, Thinning DEF Thins
<1>5. Len(r) = 0
  <2> QED BY <1>2, <1>4 DEF Has
<1> QED BY <1>1, <1>2, <1>5

LEMMA DrainStill ==
  ASSUME NEW q, NEW act, NEW busy, NEW kept, Drain(q, act, busy, kept), offline' \/ closed'
  PROVE  wait' = wait /\ toSrv' = toSrv
BY DEF Drain, SendsNothing

LEMMA InterruptStill == ASSUME NEW w, Interrupt(w), active = 0 PROVE wait' = wait /\ toSrv' = toSrv
BY DEF Interrupt, SendsNothing

LEMMA StillCalls == ASSUME Typed, Still, offline \/ closed, Calls, offline' \/ closed' PROVE Still'
<1>1. active = 0 /\ force = 0 /\ steered = <<>> /\ chunk = 0 /\ srv.shown = FALSE BY DEF Still, Idle
<1>2. CASE \E i \in Inputs : Submit(i)
  <2> PICK i \in Inputs : Submit(i) BY <1>2
  <2> QED
    BY <1>1, <1>2, Same, StillKept DEF Submit, server, SubmitIdle, SubmitQueued, SubmitSteer,
       SubmitNow, SubmitRefused, SendsNothing
<1>3. CASE \E i \in Inputs : EnqueueFollowup(i) BY <1>1, <1>3 DEF EnqueueFollowup
<1>4. CASE \E i \in Inputs : Remove(i) BY <1>1, <1>4, Same, StillKept DEF Remove, turn, link, server
<1>5. CASE \E cs \in {"user", "interrupt"} : Cancel(cs)
  <2> QED BY <1>1, <1>5, InterruptStill, Same, StillKept DEF Cancel, turn, server, SendsNothing
<1>6. CASE InterruptTurn BY <1>1, <1>6 DEF InterruptTurn
<1>7. CASE ConnectionRestored
  BY <1>1, <1>7, DrainStill, Same, StillKept DEF ConnectionRestored, server
<1>8. CASE PermanentLoss BY <1>1, <1>8, Same, StillKept DEF PermanentLoss, turn, link, server
<1>9. CASE UNCHANGED vars BY <1>1, <1>9, Same, StillKept DEF vars, turn, link, server
<1> QED BY <1>2, <1>3, <1>4, <1>5, <1>6, <1>7, <1>8, <1>9 DEF Calls

LEMMA StillStartTurn == ASSUME Typed, Still, StartTurnContinues PROVE Still'
<1>1. PICK x \in AnyStarted, t \in Turn :
        /\ (x.r = "ok" /\ t = x.t /\ active' = IF active = 0 THEN t ELSE active) \/ (t = 0 /\ active' = active)
        /\ \A v \in Turns :
             /\ Has(micro', Named(v)) => Has(micro, Named(v))
             /\ Has(micro', Stopped(v)) => Has(micro, Stopped(v))
             /\ Has(micro', GoingTo(v)) => Has(micro, GoingTo(v)) \/ v = t
        /\ x.r = "ok" /\ t = x.t => Has(micro, Named(t))
  BY Zenon, StartTaken
<1> QED BY <1>1 DEF Still, Turns, StartTurnContinues, server, link

LEMMA StillContinues ==
  ASSUME Typed, Still, offline \/ closed,
         DrainContinues \/ SteerResumes \/ SteerContinues \/ InterruptResumes \/ InterruptContinues
  PROVE  Still'
<1>1. /\ srv' = srv /\ inbox' = inbox /\ micro # <<>> /\ micro' = Tail(micro) /\ chunk' = chunk /\ active' = active
      /\ offline' = offline /\ closed' = closed
  BY DEF DrainContinues, SteerResumes, SteerContinues, InterruptResumes, InterruptContinues, server, turn, link
<1>2. PICK x : x = Head(micro) OBVIOUS
<1>3. x \in Continuation /\ Cuts(micro, micro', x) /\ Shorter(micro, micro') BY <1>1, <1>2, TypedParts, MicroShorter
<1>4. active = 0 /\ force = 0 /\ steered = <<>> /\ chunk = 0 BY DEF Still
<1>6. CASE DrainContinues BY <1>1, <1>3, <1>4, <1>6, DrainStill, StillKept DEF DrainContinues
<1>7. CASE SteerResumes
  <2>1. x.t = 0
    <3> QED
      BY <1>3, <1>2, <1>7, ContinuationFacts, ContinuationOf DEF Turns, Cuts, Still, SteerResumes
  <2> QED BY <1>1, <1>3, <1>4, <1>7, <1>2, <2>1, DrainStill, StillKept DEF SteerResumes
<1>8. CASE SteerContinues
  <2>1. force' = force BY <1>8 DEF SteerContinues
  <2>2. CASE x.r # "ok"
    <3>1. SteerFalls(x.c.i) BY <1>2, <1>8, <2>2 DEF SteerContinues
    <3> QED
      BY <1>1, <1>3, <1>4, <2>1, <3>1, NoneLeft, TypedParts, DrainStill, StillKept DEF SteerFalls,
         SendsNothing
  <2>3. CASE x.r = "ok"
    <3> QED BY <1>1, <1>3, <1>4, <2>1, <1>2, <1>8, <2>3, StillKept DEF SteerContinues, SendsNothing
  <2> QED BY <2>2, <2>3
<1>9. CASE InterruptResumes
  <2>1. x.t = 0
    <3> QED
      BY <1>3, <1>2, <1>9, ContinuationFacts, ContinuationOf DEF Turns, Cuts, Still,
         InterruptResumes
  <2> QED BY <1>1, <1>3, <1>4, <1>9, <1>2, <2>1, StillKept DEF InterruptResumes, turn, SendsNothing
<1>10. CASE InterruptContinues
  <2>2. force' = 0
    <3>1. CASE x.r = "ok"
      <4> QED
        BY <1>2, <1>4, <1>10, <3>1, <1>3, ContinuationFacts, CallFacts, ContinuationOf DEF
           InterruptContinues, Turns, Cuts, Still
    <3>2. CASE x.r # "ok" BY <1>2, <1>4, <1>10, <3>2 DEF InterruptContinues
    <3> QED BY <3>1, <3>2
  <2> QED BY <1>1, <1>3, <1>4, <1>10, <2>2, StillKept DEF InterruptContinues, link
<1> QED BY <1>6, <1>7, <1>8, <1>9, <1>10

LEMMA StillStops ==
  ASSUME Typed, Still,
         ForceClose \/ Chunk \/ Answered \/ Started \/ Claim \/ Completed \/ CallTimesOut \/ ServerStep
  PROVE  FALSE
<1>1. /\ force = 0 /\ inbox = <<>> /\ chunk = 0 /\ wait = <<>> /\ toSrv = <<>> /\ srv.t = 0 /\ srv.shown = FALSE
  BY DEF Still, Idle
<1>2. ~CallTimesOut
  <2> QED BY <1>1 DEF CallTimesOut, Elems
<1>3. ~ServerStep
  BY <1>1 DEF ServerStep, ServerStarts, ServerRefuses, ServerErrs, ServerSteers, ServerInterrupts,
       ServerShows, ServerCompletes, ServerAborts, Takes
<1> QED BY <1>1, <1>2, <1>3 DEF ForceClose, Chunk, Answered, Started, Claim, Completed, Line

(* Without a connection nothing comes under way.                              *)
LEMMA DownStep == ASSUME Typed, Down, [Next]_vars PROVE Down'
<1>1. CASE ConnectionLost
  <2> QED BY <1>1, LostTakes, DownIs DEF Still
<1>2. CASE ~ConnectionLost
  <2> SUFFICES ASSUME offline' \/ closed' PROVE Still' BY DownIs
  <2>1. offline \/ closed
    <3>1. Calls => offline \/ closed
      <4>5. UNCHANGED vars => offline' = offline /\ closed' = closed BY DEF vars
      <4> QED
        BY <4>5 DEF Calls, Submit, EnqueueFollowup, Remove, Cancel, InterruptTurn,
           ConnectionRestored, PermanentLoss
    <3>3. Chunk \/ Answered \/ Started \/ Claim \/ CallTimesOut => offline' = offline /\ closed' = closed
      BY DEF Chunk, Answered, Started, Claim, CallTimesOut
    <3> QED
      BY <1>2, <3>1, <3>3, ServerStays, Unmoved, Steps DEF StartTurnContinues, DrainContinues,
         SteerResumes, SteerContinues, InterruptResumes, InterruptContinues, ForceClose, Completed,
         TurnOver
  <2>2. Still BY <2>1, DownIs
  <2>3. CASE Calls BY <2>1, <2>2, <2>3, StillCalls
  <2>4. CASE StartTurnContinues BY <2>2, <2>4, StillStartTurn
  <2>5. CASE DrainContinues \/ SteerResumes \/ SteerContinues \/ InterruptResumes \/ InterruptContinues
    BY <2>1, <2>2, <2>5, StillContinues
  <2> QED BY <1>2, <2>3, <2>4, <2>5, <2>2, StillStops, Steps
<1> QED BY <1>1, <1>2

LEMMA ServesKept ==
  ASSUME Serves, srv' = srv, turns' = turns, Shorter(inbox, inbox'), toSrv' = toSrv PROVE Serves'
BY DEF Serves, Shorter, Idle

LEMMA SessionServes ==
  ASSUME Typed, Serves, Down, [Next]_vars, ~ServerStep PROVE Serves'
<1>1. CASE Calls \/ DrainContinues \/ SteerResumes \/ SteerContinues \/ InterruptResumes \/ InterruptContinues
            \/ Chunk \/ Claim
  BY <1>1, CalmCalls, CalmContinues, CalmLine, TalkServes DEF Calm
<1>2. CASE Completed BY <1>2, TalkCompleted, TalkServes
<1>3. CASE ForceClose BY <1>3, TalkForceClose, TalkServes
<1>4. CASE StartTurnContinues \/ CallTimesOut
  BY Zenon, <1>4, Same, ServesKept DEF StartTurnContinues, CallTimesOut, server, link
<1>5. CASE Answered \/ Started
  <2> QED BY <1>5, LineTaken, ServesKept DEF Answered, Started, server
<1>6. CASE ConnectionLost
  <2> QED BY <1>6, ServerParts, LostTakes, NothingBefore DEF Serves, Idle, Turn
<1> QED BY <1>1, <1>2, <1>3, <1>4, <1>5, <1>6, Steps

LEMMA SingleStep ==
  ASSUME Typed, Single, Down, [Next]_vars PROVE Single'
<1>1. CASE Calls \/ DrainContinues \/ SteerResumes \/ SteerContinues \/ InterruptResumes \/ InterruptContinues
            \/ Chunk \/ Claim
  BY <1>1, CalmCalls, CalmContinues, CalmLine, TalkSingle DEF Calm
<1>2. CASE Completed BY <1>2, TalkCompleted, TalkSingle
<1>3. CASE ForceClose BY <1>3, TalkForceClose, TalkSingle
<1>4. CASE StartTurnContinues BY <1>4, StartTurnSingle
<1>5. CASE CallTimesOut BY <1>5, TimesOutSingle
<1>6. CASE Answered BY <1>6, AnsweredSingle
<1>7. CASE Started BY <1>7, SingleNext DEF Started, Single
<1>8. CASE ConnectionLost BY <1>8, LostSingle
<1>9. CASE ServerStep BY <1>9, ServerStays, UnmovedSingle
<1> QED BY <1>1, <1>2, <1>3, <1>4, <1>5, <1>6, <1>7, <1>8, <1>9, Steps

(* Every step of the session keeps the order of the turns.                    *)
LEMMA SessionTurn ==
  ASSUME Typed, TurnInv, [Next]_vars, ~ServerStep, NEW u \in Turns PROVE Sequenced(u)'
<1>1. Serves /\ Single /\ Down /\ (\A t \in Turns : Sequenced(t)) /\ Sequenced(u) BY DEF TurnInv
<1>2. CASE Calls \/ DrainContinues \/ SteerResumes \/ SteerContinues \/ InterruptResumes \/ InterruptContinues
            \/ Chunk \/ Claim
  BY <1>1, <1>2, CalmCalls, CalmContinues, CalmLine, CalmKeeps
<1>3. CASE Completed BY <1>1, <1>3, CompletedKeeps
<1>4. CASE ForceClose BY <1>1, <1>4, ForceCloseKeeps
<1>5. CASE StartTurnContinues BY <1>1, <1>5, StartTurnKeeps
<1>6. CASE CallTimesOut BY <1>1, <1>6, TimesOutKeeps
<1>7. CASE Answered BY <1>1, <1>7, AnsweredKeeps
<1>8. CASE Started BY <1>1, <1>8, StartedKeeps
<1>9. CASE ConnectionLost BY <1>1, <1>9, LostKeeps
<1> QED BY <1>2, <1>3, <1>4, <1>5, <1>6, <1>7, <1>8, <1>9, Steps

(* Every step does; and it holds at first.                                    *)
LEMMA TurnStep == ASSUME Typed, TurnInv, [Next]_vars PROVE TurnInv'
<1>3. Serves' /\ \A u \in Turns : Sequenced(u)'
  <2>1. CASE ServerStep BY <2>1, ServerTurn DEF TurnInv
  <2>2. CASE ~ServerStep BY <2>2, SessionServes, SessionTurn DEF TurnInv
  <2> QED BY <2>1, <2>2
<1> QED BY <1>3, SingleStep, DownStep DEF TurnInv, Turns, Turn

LEMMA TurnInit == Init => TurnInv
<1> SUFFICES ASSUME Init PROVE TurnInv OBVIOUS
<1>1. /\ wait = <<>> /\ toSrv = <<>> /\ inbox = <<>> /\ micro = <<>> /\ srv = Idle /\ turns = 0
      /\ active = 0 /\ force = 0 /\ ended = {} /\ starting = FALSE /\ offline = FALSE /\ closed = FALSE
  BY DEF Init
<1>2. /\ \A H : ~Has(wait, H) /\ ~Has(toSrv, H) /\ ~Has(inbox, H) /\ ~Has(micro, H)
      /\ \A H : Once(wait, H) /\ Once(micro, H)
      /\ \A A, B : Before(toSrv, A, B) /\ Before(inbox, A, B)
  BY <1>1, NothingBefore
<1>7. ASSUME NEW t \in Turns PROVE Sequenced(t)
  <2>3. Ordered(t) /\ Emitted(t) BY <1>2 DEF Ordered, Emitted
  <2>7. Behind(t) BY <1>2 DEF Behind
  <2>8. Entered(t) BY <1>2 DEF Entered
  <2> QED
    BY <2>3, <1>1, <1>2, <2>7, <2>8 DEF Sequenced, Past, Latest, NotCut, Halting, Known, Turns,
       Idle, Announced, Silent
<1> QED BY <1>1, <1>2, <1>7 DEF TurnInv, Single, Serves, Idle, Down

(* The session and the server agree on the order of the turns: which turn the *)
(* lines are about, that only one turn/start is awaited, that a turn whose    *)
(* interrupt was accepted shows nothing more, and that a lost connection leaves *)
(* nothing under way.                                                         *)
THEOREM TurnInvariant == Spec => []TurnInv
<1>1. Init => TurnInv BY TurnInit
<1>2. Typed /\ TurnInv /\ [Next]_vars => TurnInv' BY TurnStep
<1>3. Spec => []Typed BY InputTypes
<1> QED BY <1>1, <1>2, <1>3, PTL DEF Spec

-----------------------------------------------------------------------------

LEMMA SteerOf ==
  ASSUME NEW i, NEW c \in Call
  PROVE  /\ c \in Steers(i) \cup Starts(i) => c.i = i
         /\ c \in Steers(i) => c \notin Starts(i)
         /\ \A t : c \in SteersInto(i, t) => c \in Steers(i)
BY CallOf, StartOf

(* A step of the session that does no more than that.                         *)
LEMMA SessionChance ==
  ASSUME Typed, NEW i, Chance(i), Lone(i)', Hands(i), srv' = srv, ran' = ran,
         InSteers(i)' => \A s \in Turns : Freed(i, s) => Freed(i, s)'
  PROVE  Chance(i)'
<1>1. CASE toSrv' = toSrv
  <2> QED BY <1>1 DEF Chance, Open, Unsent, Hands, Untaken, Turns, Turn, LiveSteer
<1>2. CASE \E c \in Call : Asks(c) /\ (c \in Starts(i) => Open(i)) /\ (c \in Steers(i) => Fresh(i) /\ InSteers(i)')
  <2>1. PICK c \in Call : Asks(c) /\ (c \in Starts(i) => Open(i)) /\ (c \in Steers(i) => Fresh(i) /\ InSteers(i)')
    BY <1>2
  <2>2. Adds(toSrv, toSrv', c) /\ Adds(wait, wait', c) BY <2>1, TypedParts, Adding DEF Asks
  <2>7. LiveSteer(i)' => LiveSteer(i) \/ c \in Steers(i) BY <2>2, SteerOf DEF LiveSteer, Adds
  <2>9. (Fresh(i)' => Fresh(i)) /\ (Unsent(i)' => Open(i)) /\ (InSteers(i)' => InSteers(i) \/ Fresh(i))
    BY DEF Hands, Unsent, Open
  <2>10. c \in Steers(i) => /\ ~Has(toSrv, Steers(i)) /\ ~Has(toSrv, Starts(i)) /\ srv.first # i /\ i \notin srv.pend
                            /\ ran[i] = 0
    BY <2>1 DEF Chance, Unsent, Untaken
  <2>12. /\ Has(toSrv', Starts(i)) <=> Has(toSrv, Starts(i)) \/ c \in Starts(i)
         /\ Has(toSrv', Steers(i)) <=> Has(toSrv, Steers(i)) \/ c \in Steers(i)
         /\ Once(toSrv, Starts(i)) /\ (c \in Starts(i) => ~Has(toSrv, Starts(i))) => Once(toSrv', Starts(i))
         /\ Once(toSrv, Steers(i)) /\ (c \in Steers(i) => ~Has(toSrv, Steers(i))) => Once(toSrv', Steers(i))
    BY <2>2 DEF Adds
  <2>13. Once(toSrv', Starts(i)) /\ Once(toSrv', Steers(i)) BY <2>10, <2>1, <2>12 DEF Chance, Open
  <2>14. Fresh(i)' => ~Has(toSrv', Steers(i))
    BY <2>1, <2>9, <2>12 DEF Chance, Unsent, Lone, Waits, Fresh
  <2>15. Unsent(i)' \/ InSteers(i)' => ~Has(toSrv', Starts(i)) /\ srv'.first # i
    BY <2>2, <2>9, <2>12 DEF Chance, Open, Unsent, Lone, Waits, Fresh, Adds, Asked
  <2>16. Unsent(i)' => Untaken(i)'
    BY <2>1, <2>7, <2>9 DEF Chance, Open, Lone, Waits, Unsent, Fresh, Untaken
  <2>17. Has(toSrv', Starts(i)) => srv'.first # i /\ Untaken(i)'
    BY <2>7, <2>10, <2>1, <2>12, SteerOf DEF Chance, Open, Untaken
  <2>18. srv'.first = i => (~srv'.shown => ran'[i] = 0) /\ i \notin srv'.pend /\ ~LiveSteer(i)'
    BY <2>7, <2>10 DEF Chance
  <2>19. i \in srv'.pend => ran'[i] = 0 /\ ~LiveSteer(i)' BY <2>7, <2>10 DEF Chance
  <2>20. LiveSteer(i)' => ran'[i] = 0 BY <2>7, <2>10 DEF Chance
  <2>21. ran'[i] <= 1 BY DEF Chance
  <2>22. InSteers(i)' /\ ran'[i] # 0 => \E s \in Turns : Freed(i, s)'
    BY <2>9 DEF Chance, Unsent, Untaken
  <2>23. (\E s \in Turns : Freed(i, s)') => (\E s \in Turns : Freed(i, s))' BY DEF Turns, Turn
  <2> QED BY <2>13, <2>14, <2>15, <2>16, <2>17, <2>18, <2>19, <2>20, <2>21, <2>22, <2>23 DEF Chance
<1> QED BY <1>1, <1>2 DEF Hands

(* While lines are only taken, and none of them is the one that lets i go.    *)
LEMMA FreedKept ==
  ASSUME NEW i, NEW s \in Turns, Freed(i, s), Shorter(inbox, inbox'), active' = active,
         \A v \in Turns : Halting(v)' => Halting(v),
         Has(inbox, Release(i, s)) => Has(inbox', Release(i, s))
  PROVE  Freed(i, s)'
BY DEF Freed, Shorter, Turns, Turn

LEMMA DrainSends ==
  ASSUME Typed, NEW q \in Seq(Entry), NEW act, NEW busy, NEW kept, Drain(q, act, busy, kept)
  PROVE  \/ toSrv' = toSrv
         \/ \E c \in Call : /\ Asks(c)
                            /\ \A i : (c \in Starts(i) => Has(q, Entries(i))) /\ c \notin Steers(i)
<1>1. CASE ~offline' /\ ~closed' /\ act = 0 /\ ~busy /\ q # <<>>
  <2>1. PICK e : e = Head(q) OBVIOUS
  <2>2. e \in Entry /\ e = [id |-> e.id, urgent |-> e.urgent] /\ e.urgent \in BOOLEAN /\ e.id \in Inputs
    <3>1. e \in Entry BY <1>1, <2>1
    <3> QED BY <3>1 DEF Entry
  <2>3. PICK c : c = [op |-> "next", i |-> e.id, t |-> 0] BY Zenon
  <2>5. c \in Call BY <2>2, <2>3, NewCalls, ZeroIsTurn
  <2>6. ASSUME NEW i PROVE (c \in Starts(i) => Has(q, Entries(i))) /\ c \notin Steers(i)
    <3>2. i = e.id => e \in Entries(i) BY <2>2, EntryOf
    <3> QED BY <2>3, <2>5, <3>2, <1>1, <2>1, StartOf, TailFacts DEF Steers
  <2> QED BY <1>1, <2>1, <2>3, <2>5, <2>6 DEF Drain, StartTurn, Sends, Asks
<1>2. CASE ~(~offline' /\ ~closed' /\ act = 0 /\ ~busy /\ q # <<>>)
  BY <1>2 DEF Drain, SendsNothing
<1> QED BY <1>1, <1>2

(* ... and so what a step that drains does with i.                            *)
LEMMA DrainHands ==
  ASSUME Typed, NEW i \in Inputs, NEW q \in Seq(Entry), NEW act, NEW busy, NEW kept, Drain(q, act, busy, kept),
         Has(q, Entries(i)) => Open(i), Once(q, Entries(i)),
         Fresh(i)' => Fresh(i), InSteers(i)' => InSteers(i) \/ Fresh(i)
  PROVE  Hands(i)
<1>1. InQueue(i)' => Open(i) BY DrainMoves, TypedParts
<1>2. CASE toSrv' = toSrv BY <1>1, <1>2 DEF Hands
<1>3. CASE \E c \in Call : /\ Asks(c)
                           /\ \A j : (c \in Starts(j) => Has(q, Entries(j))) /\ c \notin Steers(j)
  BY <1>1, <1>3 DEF Hands
<1> QED BY <1>2, <1>3, DrainSends

LEMMA QueueAdds ==
  ASSUME Typed, NEW i \in Inputs, NEW j \in Inputs, NEW b \in BOOLEAN
  PROVE  /\ Append(queue, [id |-> j, urgent |-> b]) \in Seq(Entry)
         /\ <<[id |-> j, urgent |-> b]>> \o queue \in Seq(Entry)
         /\ Has(Append(queue, [id |-> j, urgent |-> b]), Entries(i)) <=> InQueue(i) \/ i = j
         /\ Has(<<[id |-> j, urgent |-> b]>> \o queue, Entries(i)) <=> InQueue(i) \/ i = j
         /\ Once(queue, Entries(i)) /\ (i = j => ~InQueue(i)) => Once(Append(queue, [id |-> j, urgent |-> b]), Entries(i))
<1>1. PICK e : e = [id |-> j, urgent |-> b] BY Zenon
<1>2. e \in Entry /\ (e \in Entries(i) <=> i = j) BY <1>1, EntryOf DEF Entry
<1>4. PICK y : y = <<e>> BY Zenon
<1>5. y \in Seq(Entry) /\ (Has(y, Entries(i)) <=> e \in Entries(i)) BY <1>2, <1>4 DEF Has
<1>6. y \o queue \in Seq(Entry) /\ (Has(y \o queue, Entries(i)) <=> Has(y, Entries(i)) \/ InQueue(i))
  BY <1>5, TypedParts, JoinFacts DEF InQueue
<1> QED BY <1>1, <1>2, <1>4, <1>5, <1>6, TypedParts, AppendFacts DEF InQueue

-----------------------------------------------------------------------------
(* What a step of the session does with an input.                             *)
(* A step of the session that takes no line about the steers.                 *)
LEMMA StaysChance ==
  ASSUME Typed, NEW i, Chance(i), Lone(i)', Hands(i), srv' = srv, ran' = ran, Shorter(inbox, inbox'),
         InSteers(i)' => /\ active' = active /\ \A v \in Turns : Halting(v)' => Halting(v)
                         /\ \A s \in Turns : Has(inbox, Release(i, s)) => Has(inbox', Release(i, s))
  PROVE  Chance(i)'
<1> QED BY FreedKept, SessionChance

(* Nothing is sent, and i goes nowhere.                                       *)
LEMMA StayHands ==
  ASSUME NEW i, new' = new, queue' = queue, waiting' = waiting, toSrv' = toSrv,
         Resumes(i)' => Resumes(i), InSteers(i)' => InSteers(i)
  PROVE  Hands(i)
<1> QED BY DEF Hands, Fresh, Open, Unsent, InQueue, Joins

LEMMA InterruptHands ==
  ASSUME Typed, NEW i \in Inputs, NEW w \in Who, Interrupt(w), micro' = micro, new' \subseteq new,
         InQueue(i)' => Open(i), steered' = steered
  PROVE  Hands(i)
<1>3. CASE active # 0
  <2>1. PICK c : c = [op |-> "interrupt", i |-> w, t |-> active] BY Zenon
  <2>2. c \in Call BY <2>1, TypedParts, NewCalls
  <2> QED
    BY <2>2, <1>3, <2>1, InterruptPlaces, StartOf, CallOf DEF Hands, Fresh, Resumes, InSteers,
       Interrupt, Sends, Asks
<1>4. CASE active = 0
  <2> QED BY <1>4, InterruptPlaces DEF Hands, Fresh, Interrupt, SendsNothing, Resumes, InSteers
<1> QED BY <1>3, <1>4

LEMMA SubmitHands ==
  ASSUME Typed, NEW i \in Inputs, NEW j \in Inputs, Submit(j) PROVE Hands(i)
<1>1. j \in new /\ new' = new \ {j} /\ micro' = micro BY DEF Submit
<1>2. i = j => Fresh(i) BY <1>1 DEF Fresh
<1>3. Fresh(i) \/ InQueue(i) => Open(i) BY DEF Open, Unsent
<1>4. Resumes(i)' = Resumes(i) BY <1>1 DEF Resumes
<1>6. CASE SubmitIdle(j)
  <2>1. PICK c : c = [op |-> "start", i |-> j, t |-> 0] BY Zenon
  <2>3. c \in Call BY <2>1, NewCalls, ZeroIsTurn
  <2> QED
    BY <1>1, <1>2, <1>3, <1>4, <1>6, <2>1, <2>3, StartOf, CallOf DEF Hands, Fresh, InQueue,
       InSteers, Joins, SubmitIdle, StartTurn, Sends, Asks
<1>7. CASE SubmitQueued(j)
  <2> QED
    BY <1>1, <1>2, <1>3, <1>4, <1>7, QueueAdds DEF Hands, Fresh, SubmitQueued, SendsNothing,
       InSteers, Joins, InQueue
<1>8. CASE SubmitSteer(j)
  <2>1. CASE active # 0
    <3>1. PICK c : c = [op |-> "steer", i |-> j, t |-> active] BY Zenon
    <3>2. Asks(c) /\ queue' = queue /\ steered' = Append(steered, j) /\ waiting' = waiting
      BY <1>8, <2>1, <3>1 DEF SubmitSteer, Sends, Asks
    <3>3. c \in Call BY <3>1, TypedParts, NewCalls
    <3>4. c \notin Starts(i) /\ (c \in Steers(i) => i = j) BY <3>1, <3>3, StartOf, CallOf
    <3> QED
      BY <1>1, <1>2, <1>3, <1>4, <3>2, <3>3, <3>4, TypedParts, AppendFacts DEF Hands, Fresh,
         InQueue, Joins, InSteers
  <2>2. CASE active = 0
    <3>1. PICK x : x = [op |-> "steer", i |-> j] BY Zenon
    <3>2. waiting' = Append(waiting, x) /\ steered' = steered /\ toSrv' = toSrv /\ queue' = queue
      BY <1>8, <2>2, <3>1 DEF SubmitSteer, SendsNothing
    <3>3. x \in Waiter /\ (x \in Joining(i) <=> i = j) BY Zenon, <3>1, JoiningOf DEF Waiter
    <3> QED
      BY <1>1, <1>2, <1>3, <1>4, <3>2, <3>3, TypedParts, AppendFacts DEF Hands, Fresh, InQueue,
         InSteers, Joins
  <2> QED BY <2>1, <2>2
<1>9. CASE SubmitNow(j)
  <2> QED BY <1>1, <1>2, <1>3, <1>9, QueueAdds, InterruptHands DEF SubmitNow, InQueue, Who
<1>10. CASE SubmitRefused(j)
  <2> QED
    BY <1>1, <1>3, <1>4, <1>10 DEF Hands, Fresh, InQueue, InSteers, Joins, SubmitRefused,
       SendsNothing
<1> QED BY <1>6, <1>7, <1>8, <1>9, <1>10 DEF Submit

(* drain of the queue as it is, or with j at its end.                         *)
LEMMA QueueHands ==
  ASSUME Typed, NEW i \in Inputs, Lone(i), NEW act, NEW busy, NEW kept, Drain(queue, act, busy, kept),
         new' \subseteq new, waiting' = waiting, Resumes(i)' => Resumes(i), InSteers(i)' => InSteers(i)
  PROVE  Hands(i)
<1> QED BY TypedParts, DrainHands DEF Open, Unsent, InQueue, Joins, Fresh, Lone

LEMMA AddsHands ==
  ASSUME Typed, NEW i \in Inputs, Lone(i), NEW j \in Inputs, i = j => Fresh(i),
         NEW act, NEW busy, NEW kept, Drain(Append(queue, [id |-> j, urgent |-> FALSE]), act, busy, kept),
         new' \subseteq new, waiting' = waiting, Resumes(i)' => Resumes(i), InSteers(i)' => InSteers(i)
  PROVE  Hands(i)
<1>1. PICK q : q = Append(queue, [id |-> j, urgent |-> FALSE]) BY Zenon
<1>3. i = j => ~InQueue(i) BY DEF Lone, Waits, Fresh
<1>4. q \in Seq(Entry) /\ (Has(q, Entries(i)) <=> InQueue(i) \/ i = j) /\ Once(q, Entries(i))
  BY Zenon, <1>1, <1>3, QueuedOnce DEF Lone
<1> QED BY <1>4, <1>1, DrainHands DEF Open, Unsent, Fresh, Joins

LEMMA CallsHands ==
  ASSUME Typed, NEW i \in Inputs, Lone(i), Calls PROVE Hands(i)
<1>1. "user" \in Who /\ "interrupt" \in Who /\ "prompt" \in Who BY DEF Who
<1>2. InQueue(i) => Open(i) BY DEF Open, Unsent
<1>3. CASE \E j \in Inputs : Submit(j) BY <1>3, SubmitHands
<1>4. CASE \E j \in Inputs : EnqueueFollowup(j)
  <2> PICK j \in Inputs : EnqueueFollowup(j) BY <1>4
  <2> QED BY AddsHands DEF Fresh, EnqueueFollowup, InSteers, Resumes
<1>5. CASE \E j \in Inputs : Remove(j)
  <2> PICK j \in Inputs : Remove(j) BY <1>5
  <2>1. PICK k \in DOMAIN queue : queue' = SubSeq(queue, 1, k - 1) \o SubSeq(queue, k + 1, Len(queue))
    BY Zenon DEF Remove
  <2> QED
    BY <1>2, <2>1, TypedParts, CutFacts DEF Hands, Fresh, InSteers, Resumes, Joins, Remove, link,
       InQueue
<1>6. CASE \E cs \in {"user", "interrupt"} : Cancel(cs)
  <2> PICK cs \in {"user", "interrupt"} : Cancel(cs) BY <1>6
  <2>3. CASE Busy
    <3> QED BY <1>1, <1>2, <2>3, EmptyFacts, InterruptHands DEF Cancel, Discards, InQueue
  <2>4. CASE ~Busy
    <3> QED
      BY <1>2, <2>4, EmptyFacts DEF Hands, Fresh, InSteers, Resumes, Joins, Cancel, Discards,
         SendsNothing, InQueue
  <2> QED BY <2>3, <2>4
<1>7. CASE InterruptTurn
  <2> QED BY <1>1, <1>2, <1>7, InterruptHands DEF InterruptTurn, history, InQueue
<1>8. CASE ConnectionRestored
  <2> QED BY <1>8, QueueHands DEF InSteers, Resumes, ConnectionRestored, history
<1>9. CASE PermanentLoss
  <2> QED
    BY <1>9, EmptyFacts DEF Hands, Fresh, InSteers, Resumes, Joins, PermanentLoss, link, InQueue
<1>10. CASE UNCHANGED vars
  <2> QED BY <1>10, StayHands DEF InSteers, Resumes, vars, history, link
<1> QED BY <1>3, <1>4, <1>5, <1>6, <1>7, <1>8, <1>9, <1>10 DEF Calls

LEMMA ContinuesHands ==
  ASSUME Typed, NEW i \in Inputs \ fell', Lone(i),
         DrainContinues \/ SteerResumes \/ SteerContinues \/ InterruptResumes \/ InterruptContinues
  PROVE  Hands(i)
<1>1. micro # <<>> /\ micro' = Tail(micro) /\ waiting' = waiting /\ new' = new
  BY DEF DrainContinues, SteerResumes, SteerContinues, InterruptResumes, InterruptContinues, history
<1>2. PICK x : x = Head(micro) OBVIOUS
<1>3. x \in Continuation BY <1>1, <1>2, TypedParts
<1>4. Resumes(i)' => Resumes(i) BY <1>1, TakenFacts
<1>5. CASE DrainContinues
  <2> QED BY <1>1, <1>4, <1>5, QueueHands DEF DrainContinues, InSteers
<1>6. CASE SteerResumes
  <2>1. x.k = "resume" /\ x.op = "steer" /\ x.i \in Inputs /\ x.t \in Turn
    BY <1>2, <1>3, <1>6, ContinuationFacts DEF SteerResumes
  <2>3. CASE x.t = 0
    <3> QED
      BY <1>1, <1>4, <2>1, <1>2, <1>6, <2>3, TakenFacts, AddsHands DEF Fresh, SteerResumes, InSteers
  <2>4. CASE x.t # 0
    <3>1. PICK c : c = [op |-> "steer", i |-> x.i, t |-> x.t] BY Zenon
    <3>2. Asks(c) /\ steered' = Append(steered, x.i) /\ queue' = queue
      BY <1>2, <1>6, <2>4, <3>1 DEF SteerResumes, Sends, Asks
    <3>3. c \in Call BY <2>1, <3>1, NewCalls
    <3>4. c \notin Starts(i) /\ (c \in Steers(i) => i = x.i) BY <3>1, <3>3, StartOf, CallOf
    <3>6. InSteers(i)' <=> InSteers(i) \/ i = x.i
      BY <2>1, <3>2, TypedParts, AppendFacts DEF InSteers
    <3> QED
      BY <1>1, <1>4, <1>2, <2>1, <3>2, <3>3, <3>4, <3>6, TakenFacts DEF Hands, Fresh, Open, Unsent,
         InQueue, Joins
  <2> QED BY <2>3, <2>4
<1>7. CASE SteerContinues
  <2>1. PICK j : j = x.c.i OBVIOUS
  <2>2. j \in Inputs BY <1>2, <1>3, <1>7, <2>1, ContinuationFacts, CallFacts DEF SteerContinues
  <2>3. CASE x.r # "ok"
    <3>1. SteerFalls(j) BY <1>2, <1>7, <2>1, <2>3 DEF SteerContinues
    <3>4. CASE closed
      <4> QED BY <1>1, <1>4, <3>1, <3>4, SteeredWithout, StayHands DEF SteerFalls, SendsNothing
    <3>5. CASE ~closed
      <4> QED BY <1>1, <1>4, <2>2, <3>1, <3>5, SteeredWithout, AddsHands DEF SteerFalls
    <3> QED BY <3>4, <3>5
  <2>4. CASE x.r = "ok"
    <3> QED BY <1>1, <1>4, <1>2, <1>7, <2>4, StayHands DEF InSteers, SteerContinues, SendsNothing
  <2> QED BY <2>3, <2>4
<1>8. CASE InterruptResumes
  <2>4. CASE x.t = 0
    <3> QED
      BY <1>1, <1>4, <1>2, <1>8, <2>4, StayHands DEF InSteers, InQueue, Joins, InterruptResumes,
         SendsNothing
  <2>5. CASE x.t # 0
    <3>1. PICK c : c = [op |-> "interrupt", i |-> x.i, t |-> x.t] BY Zenon
    <3>3. c \in Call BY <1>3, <1>2, <1>8, <3>1, ContinuationFacts, NewCalls DEF InterruptResumes
    <3> QED
      BY <1>1, <1>4, <1>2, <1>8, <2>5, <3>1, <3>3, StartOf, CallOf DEF Hands, Fresh, Open, Unsent,
         InSteers, InQueue, Joins, InterruptResumes, Sends, Asks
  <2> QED BY <2>4, <2>5
<1>9. CASE InterruptContinues
  <2> QED BY <1>1, <1>4, <1>9, StayHands DEF InSteers, InterruptContinues, link
<1> QED BY <1>5, <1>6, <1>7, <1>8, <1>9

-----------------------------------------------------------------------------
(* ... and its chance, step by step.                                          *)
(* Steps that leave the lines and the turn alone.                             *)
LEMMA CalmChance ==
  ASSUME Typed, NEW i, Chance(i), Lone(i)', Hands(i), Calm, ran' = ran, inbox' = inbox PROVE Chance(i)'
<1> QED BY TalkKnown, Same, StaysChance DEF Calm, Talks

LEMMA CallsChance == ASSUME Typed, NEW i \in Inputs, Chance(i), Lone(i), Lone(i)', Calls PROVE Chance(i)'
<1>1. ran' = ran /\ inbox' = inbox
  <2>1. CASE \E j \in Inputs : Submit(j) \/ EnqueueFollowup(j) \/ Remove(j)
    BY <2>1 DEF Submit, EnqueueFollowup, Remove, server, link
  <2>2. CASE \E cs \in {"user", "interrupt"} : Cancel(cs) BY <2>2 DEF Cancel, server
  <2>3. CASE InterruptTurn \/ ConnectionRestored \/ PermanentLoss \/ UNCHANGED vars
    BY <2>3 DEF InterruptTurn, ConnectionRestored, PermanentLoss, vars, server, link
  <2> QED BY <2>1, <2>2, <2>3 DEF Calls
<1> QED BY <1>1, CallsHands, CalmCalls, CalmChance

LEMMA ContinuesChance ==
  ASSUME Typed, NEW i \in Inputs \ fell', Chance(i), Lone(i), Lone(i)',
         DrainContinues \/ SteerResumes \/ SteerContinues \/ InterruptResumes \/ InterruptContinues
  PROVE  Chance(i)'
<1> QED
  BY ContinuesHands, CalmContinues, CalmChance DEF DrainContinues, SteerResumes, SteerContinues,
     InterruptResumes, InterruptContinues, server, link

LEMMA StartTurnChance ==
  ASSUME Typed, Flow, NEW i \in Inputs, Chance(i), Lone(i)', StartTurnContinues PROVE Chance(i)'
<1>2. PICK x \in AnyStarted, t \in Turn :
        /\ (x.r = "ok" /\ t = x.t /\ active' = IF active = 0 THEN t ELSE active) \/ (t = 0 /\ active' = active)
        /\ \A u \in Turns : Has(micro', Stopped(u)) => Has(micro, Stopped(u))
        /\ \A j \in Inputs : Resumes(j)' => Resumes(j) \/ Joins(j)
  BY Zenon, StartTaken
<1>5. Hands(i)
  BY <1>2, NothingBefore DEF Hands, Fresh, Open, Unsent, InQueue, InSteers, Joins,
     StartTurnContinues, link, server
<1>6. InSteers(i)' => active' = active
  <2> QED BY <1>2 DEF InSteers, Flow, InQueue, Has, StartTurnContinues, link, server
<1> QED BY <1>5, <1>6, <1>2, Same, StaysChance DEF Halting, StartTurnContinues, link, server

LEMMA AnsweredChance ==
  ASSUME Typed, NEW i \in Inputs, Chance(i), Lone(i)', Answered PROVE Chance(i)'
<1>2. PICK a \in Output :
           /\ a.m = "answer" /\ Cuts(inbox, inbox', a) /\ Shorter(inbox, inbox')
           /\ \/ wait' = wait /\ micro' = micro
              \/ \E x \in Continuation :
                   Adds(micro, micro', x) /\ x.k = "answer" /\ x.c = a.c /\ x.r = a.r /\ x.t = a.t
  BY Zenon, AnswerTaken
<1>3. (Has(micro, Resumed(i)))' = Has(micro', Resumed(i)) BY DEF Resumed, Turn
<1>4. (Resumes(i)' => Resumes(i)) /\ \A v \in Turns : Halting(v)' => Halting(v)
  <2>1. CASE wait' = wait /\ micro' = micro
    BY <1>2, <1>3, <2>1 DEF Resumes, Halting, Shorter, Answered, turn, server, history
  <2>2. CASE \E x \in Continuation :
               Adds(micro, micro', x) /\ x.k = "answer" /\ x.c = a.c /\ x.r = a.r /\ x.t = a.t
    <3>1. PICK x \in Continuation :
            Adds(micro, micro', x) /\ x.k = "answer" /\ x.c = a.c /\ x.r = a.r /\ x.t = a.t
      BY <2>2
    <3> QED
      BY <1>2, <1>3, <3>1, AnswerOf, ContinuationOf, OutputOf DEF Resumes, Halting, Adds, Cuts,
         Answered, turn, server, history
  <2> QED BY <1>2, <2>1, <2>2
<1> QED
  BY <1>2, <1>4, StayHands, StaysChance DEF Cuts, Release, InSteers, Answered, turn, server, history

LEMMA QuietLineChance ==
  ASSUME Typed, NEW i \in Inputs, Chance(i), Lone(i)', Chunk \/ CallTimesOut PROVE Chance(i)'
<1>1. UNCHANGED <<queue, steered, waiting, toSrv, new, srv, ran, active, force, inbox>>
  BY DEF Chunk, CallTimesOut, turn, server, history, link
<1>3. (Resumes(i)' => Resumes(i)) /\ \A v \in Turns : Halting(v)' => Halting(v)
  <2>1. CASE Chunk BY <1>1, <2>1 DEF Chunk, Resumes, Halting, Resumed, Turn
  <2>2. CASE CallTimesOut
    <3>1. PICK c \in Elems(wait) : micro' = <<[k |-> "answer", c |-> c, r |-> "lost", t |-> 0]>>
      BY <2>2 DEF CallTimesOut
    <3> QED BY <1>1, <2>2, <3>1, TimesOut DEF Resumes, Halting, Resumed, Turn, Has
  <2> QED BY <2>1, <2>2
<1> QED BY <1>1, <1>3, StayHands, Same, StaysChance DEF InSteers

(* The lines that let i go are news of the turn.                              *)
LEMMA Releases ==
  ASSUME NEW i \in Inputs, NEW s \in Turns
  PROVE  /\ \A o \in Release(i, s) : o \in News(s) /\ o.t = s /\ (o.m = "completed" => o.interrupted = FALSE)
                                     /\ (o.m = "shown" => o.i = i)
         /\ \A q : Has(q, Release(i, s)) => Has(q, News(s))
<1> QED BY DEF Has, Release, News

LEMMA StartedChance ==
  ASSUME Typed, Down, \A t \in Turns : Sequenced(t), NEW i \in Inputs, Chance(i), Lone(i)', Started
  PROVE  Chance(i)'
<1>1. UNCHANGED <<queue, steered, waiting, micro, toSrv, new, srv, ran, force>>
  BY DEF Started, server, history
<1>3. Hands(i) BY <1>1, StayHands DEF Resumes, InSteers
<1>4. PICK a : a = Head(inbox) OBVIOUS
<1>5. a \in Output /\ a.m = "started" /\ Cuts(inbox, inbox', a) /\ Shorter(inbox, inbox')
  BY <1>4, LineTaken DEF Started
<1>6. PICK t : t = a.t OBVIOUS
<1>7. t \in Turns /\ a \in Begins(t) /\ a \in Of(t) BY <1>5, <1>6, OutputFacts, OutputOf DEF Turns, Of
<1>9. active' = IF t \in ended THEN active ELSE t
  BY <1>4, <1>6, InputAssumption DEF Started, Line, Down
<1>13. CASE t \in ended
  BY <1>1, <1>3, <1>5, <1>9, <1>13, StaysChance DEF Cuts, Shorter, Halting, Release
<1>14. CASE t \notin ended
  <2>2. ~Has(inbox', Under(t)) BY <1>5, <1>7 DEF Cuts, Sequenced, Ordered
  <2>3. ASSUME NEW s \in Turns, Freed(i, s) PROVE Freed(i, s)'
    <3>1. Has(inbox', Release(i, s)) /\ ~Has(inbox, Under(s)) BY <1>5, <2>3 DEF Freed, Cuts, Release
    <3>2. ~(t < s)
      <4> QED BY <1>7, <3>1, <1>5, Including DEF Cuts
    <3>3. ~(s < t) BY Zenon, <1>7, <2>2, <3>1, Releases, Including
    <3> QED BY <3>1, <1>5, <2>3, <1>7, <1>9, <1>14, <3>2, <3>3 DEF Freed, Turns, Turn, Shorter
  <2> QED BY <1>1, <1>3, <2>3, SessionChance
<1> QED BY <1>13, <1>14

LEMMA ClaimChance ==
  ASSUME Typed, Down, NEW i \in Inputs, Chance(i), Lone(i), Lone(i)', Claim PROVE Chance(i)'
<1>1. UNCHANGED <<queue, waiting, micro, toSrv, new, srv, ran, force, active>> BY DEF Claim, server
<1>2. ~closed BY InputAssumption DEF Claim, Line, Down
<1>3. PICK a : a = Head(inbox) OBVIOUS
<1>4. a \in Output /\ a.m = "shown" /\ Cuts(inbox, inbox', a) /\ Shorter(inbox, inbox')
  BY <1>3, LineTaken DEF Claim
<1>6. InSteers(i)' => InSteers(i) BY <1>2, <1>3, SteeredWithout DEF InSteers, Claim, Claims
<1>9. InSteers(i)' => a.i # i
  <2>1. CASE a.i \in started BY <1>6, <2>1 DEF Lone, Waits
  <2>2. CASE a.i \notin started BY <1>2, <1>3, <2>2, SteeredWithout DEF Claim, Claims
  <2> QED BY <2>1, <2>2
<1>10. ASSUME InSteers(i)', NEW s \in Turns, Has(inbox, Release(i, s)) PROVE Has(inbox', Release(i, s))
  <2>1. a \notin Release(i, s) BY Zenon, <1>4, <1>9, <1>10, Releases
  <2> QED BY <1>4, <1>10, <2>1 DEF Cuts
<1> QED BY <1>1, <1>4, <1>6, <1>10, StayHands, StaysChance DEF Shorter, Halting, Resumes

-----------------------------------------------------------------------------
(* The end of a turn, and of a connection.                                    *)
(* The end of a turn: what is queued again was not taken.                     *)
LEMMA OverQueue ==
  ASSUME Typed, NEW i \in Inputs, Lone(i), NEW b \in BOOLEAN, TurnOver(b)
  PROVE  /\ \E q \in Seq(Entry) : /\ Drain(q, 0, starting, {}) /\ Once(q, Entries(i))
                                  /\ Has(q, Entries(i)) => InQueue(i) \/ (InSteers(i) /\ b)
         /\ ~InSteers(i)'
<1>1. PICK cz : cz = IF InterruptInFlight /\ ~b THEN "none" ELSE cause OBVIOUS
<1>2. PICK fate : fate = SteeredFate(cz, b) OBVIOUS
<1>3. PICK q : q = IF fate = {} THEN Requeued ELSE queue OBVIOUS
<1>5. fate = {} => b
  <2> QED BY <1>2 DEF SteeredFate
<1>7. q \in Seq(Entry) /\ Once(q, Entries(i)) /\ (Has(q, Entries(i)) => InQueue(i) \/ (InSteers(i) /\ b))
  <2>1. CASE fate = {} BY <1>3, <1>5, <2>1, RequeuedFacts DEF Lone
  <2>2. CASE fate # {} BY <1>3, <2>2, TypedParts DEF InQueue, Lone
  <2> QED BY <2>1, <2>2
<1> QED BY <1>1, <1>2, <1>3, <1>7, EmptyFacts DEF TurnOver, InSteers

LEMMA OverHands ==
  ASSUME Typed, NEW i \in Inputs, Lone(i), NEW b \in BOOLEAN, TurnOver(b), UNCHANGED <<waiting, micro, new>>,
         b /\ InSteers(i) => Untaken(i)
  PROVE  Hands(i) /\ ~InSteers(i)' /\ (i \in started' => Open(i))
<1>1. PICK q \in Seq(Entry) : /\ Drain(q, 0, starting, {}) /\ Once(q, Entries(i))
                              /\ Has(q, Entries(i)) => InQueue(i) \/ (InSteers(i) /\ b)
  BY OverQueue
<1> QED
  BY <1>1, OverQueue, TypedParts, DrainMoves, DrainHands DEF Open, Unsent, Fresh, Joins, Resumes

(* A steer the server has still to take is one of a turn that is known.       *)
LEMMA LiveKnown ==
  ASSUME Typed, Serves, NEW i \in Inputs, i \in srv.pend \/ LiveSteer(i)
  PROVE  \E u \in Turns : srv.t = u /\ ~srv.stopping /\ Known(u)
<1>1. srv.t # 0
  <2> QED BY DEF LiveSteer, Serves, Idle
<1>3. PICK u \in Turns : u = srv.t BY <1>1, ServerParts DEF Turns
<1>5. CASE i \in srv.pend
  <2> QED BY <1>3, <1>5 DEF Known, Serves, LiveSteer
<1>6. CASE LiveSteer(i)
  <2> QED BY <1>3, <1>6 DEF Known, Has, SteersInto, Into, LiveSteer, Serves
<1> QED BY <1>5, <1>6

(* A turn that is forced closed has taken none of its steers ...               *)
LEMMA ForceCloseOver ==
  ASSUME Typed, Serves, \A t \in Turns : Sequenced(t), NEW i \in Inputs, Chance(i), ForceClose, active = force
  PROVE  TurnOver(TRUE) /\ (InSteers(i) => Untaken(i))
<1>2. PICK t \in Turns : t = force /\ active = t BY TypedParts DEF Turns, ForceClose
<1>6. InSteers(i) => ran[i] = 0
  <2> SUFFICES ASSUME InSteers(i), ran[i] # 0 PROVE FALSE OBVIOUS
  <2>1. PICK s \in Turns : Freed(i, s) BY DEF Chance
  <2>3. s = t BY <1>2, <2>1 DEF Freed, Turns, Turn, Halting
  <2> QED BY <1>2, <2>1, <2>3, Releases DEF Sequenced, Silent, Freed
<1>7. ~(i \in srv.pend \/ LiveSteer(i))
  <2> SUFFICES ASSUME i \in srv.pend \/ LiveSteer(i) PROVE FALSE OBVIOUS
  <2>1. PICK u \in Turns : srv.t = u /\ ~srv.stopping /\ Known(u) BY LiveKnown
  <2> QED BY <1>2, <2>1 DEF Sequenced, NotCut, Turns, Turn, Past, Silent, Halting
<1> QED BY Zenon, <1>6, <1>7 DEF Untaken, ForceClose

LEMMA ForceCloseChance ==
  ASSUME Typed, Serves, \A t \in Turns : Sequenced(t), NEW i \in Inputs, Chance(i), Lone(i), Lone(i)', ForceClose
  PROVE  Chance(i)'
<1>2. CASE active # force
  <2> QED
    BY <1>2, StayHands, TalkForceClose, TalkKnown, Same, StaysChance DEF InSteers, Resumes,
       ForceClose, server, SendsNothing
<1>3. CASE active = force
  <2> QED BY <1>3, ForceCloseOver, OverHands, SessionChance DEF ForceClose, server
<1> QED BY <1>2, <1>3

(* ... and of one whose end is taken, every steer it took was shown.          *)
LEMMA CompletedOver ==
  ASSUME Typed, Serves, Down, \A t \in Turns : Sequenced(t), NEW i \in Inputs, Chance(i), Completed,
         ~(Head(inbox).t \in ended \/ (active # 0 /\ active # Head(inbox).t))
  PROVE  /\ TurnOver(Head(inbox).interrupted) /\ Head(inbox).interrupted \in BOOLEAN
         /\ Head(inbox).interrupted /\ InSteers(i) => Untaken(i)
<1>1. ~closed BY InputAssumption DEF Completed, Line, Down
<1>2. PICK a : a = Head(inbox) OBVIOUS
<1>4. PICK t : t = a.t OBVIOUS
<1>5. t \in Turn /\ a \in Ends(t) /\ a \in Follows(t) /\ Has(inbox, Ends(t)) /\ Has(inbox, Follows(t)) /\ a.interrupted \in BOOLEAN
  BY <1>2, <1>4, LineTaken, OutputOf, OutputFacts DEF Cuts, Completed
<1>6. t \in Turns
  <2> QED BY <1>5 DEF Turns, Serves
<1>10. a.interrupted /\ InSteers(i) => ran[i] = 0
  <2> SUFFICES ASSUME a.interrupted, InSteers(i), ran[i] # 0 PROVE FALSE OBVIOUS
  <2>1. PICK s \in Turns : Freed(i, s) BY DEF Chance
  <2> QED BY <1>2, <2>1, <1>5, <1>6, LineTaken, Releases DEF Cuts, Freed, Completed
<1>11. ~(i \in srv.pend \/ LiveSteer(i))
  <2> SUFFICES ASSUME i \in srv.pend \/ LiveSteer(i) PROVE FALSE OBVIOUS
  <2>1. PICK u \in Turns : srv.t = u /\ ~srv.stopping /\ Known(u) BY LiveKnown
  <2> QED BY <1>5, <1>6, <2>1, Including DEF Sequenced, Past, Emitted, Turns
<1> QED BY <1>2, <1>5, <1>1, <1>10, <1>11 DEF Untaken, Completed

LEMMA CompletedChance ==
  ASSUME Typed, Flow, Serves, Down, \A t \in Turns : Sequenced(t), NEW i \in Inputs, Chance(i), Lone(i), Lone(i)',
         Completed
  PROVE  Chance(i)'
<1>1. UNCHANGED <<waiting, micro, new, srv, ran>> BY DEF Completed, server
<1>3. PICK a : a = Head(inbox) OBVIOUS
<1>4. a \in Output /\ a.m = "completed" /\ Cuts(inbox, inbox', a) /\ Shorter(inbox, inbox')
  BY <1>3, LineTaken DEF Completed
<1>5. PICK t : t = a.t OBVIOUS
<1>7. t \in Turns
  <2> QED BY <1>4, <1>5, OutputOf, OutputFacts DEF Turns, Serves, Cuts
<1>9. CASE t \in ended \/ (active # 0 /\ active # t)
  <2>1. UNCHANGED <<queue, steered, toSrv, active, force>>
    BY <1>3, <1>5, <1>9, InputAssumption DEF Completed, SendsNothing, Line, Down
  <2>5. ASSUME NEW s \in Turns, Freed(i, s), a \in Release(i, s) PROVE FALSE
    <3>3. t \notin ended BY <1>7, <1>4, <1>5, <2>5, Releases DEF Sequenced, Silent, Cuts, Release
    <3> QED
      BY <1>9, <3>3, <1>4, <1>5, <1>7, OutputOf, OutputFacts DEF Sequenced, Announced, Cuts, Ordered
  <2>6. ASSUME NEW s \in Turns, Freed(i, s) PROVE Freed(i, s)'
    <3> QED BY <1>4, <2>1, <1>1, <2>6, <2>5, FreedKept DEF Cuts, Shorter, Halting
  <2> QED BY <1>1, <2>1, <2>6, StayHands, SessionChance DEF InSteers, Resumes
<1>10. CASE ~(t \in ended \/ (active # 0 /\ active # t))
  <2>3. Hands(i) /\ ~InSteers(i)'
    BY <1>1, <1>4, <1>5, <1>3, <1>10, OutputOf, OutputFacts, CompletedOver, OverHands DEF Cuts
  <2> QED BY <1>1, <2>3, SessionChance
<1> QED BY <1>9, <1>10

LEMMA LostChance == ASSUME Typed, NEW i \in Inputs, Chance(i), ConnectionLost PROVE Chance(i)'
<1>3. ~Resumes(i)'
  <2> QED BY DEF Has, Resumes, Resumed, Turn, ConnectionLost
<1>5. Unsent(i)' => Unsent(i) BY <1>3 DEF Unsent, Fresh, InQueue, Joins, ConnectionLost
<1> QED
  BY <1>5, LostTakes, InputAssumption, NothingBefore DEF Chance, Steers, Starts, Turn, Untaken,
     InSteers, Idle, LiveSteer, ConnectionLost

(* What the session does gives i no second chance.                            *)
LEMMA SessionKeepsChance ==
  ASSUME Typed, Flow, TurnInv, NEW i \in Inputs \ fell', Chance(i), Lone(i), Lone(i)', [Next]_vars, ~ServerStep
  PROVE  Chance(i)'
<1>2. CASE Calls \/ StartTurnContinues BY <1>2, CallsChance, StartTurnChance
<1>3. CASE DrainContinues \/ SteerResumes \/ SteerContinues \/ InterruptResumes \/ InterruptContinues
  BY <1>3, ContinuesChance
<1>4. CASE Chunk \/ CallTimesOut \/ Answered BY <1>4, QuietLineChance, AnsweredChance
<1>5. CASE Started \/ Claim BY <1>5, StartedChance, ClaimChance DEF TurnInv
<1>6. CASE Completed BY <1>6, CompletedChance DEF TurnInv
<1>7. CASE ForceClose BY <1>7, ForceCloseChance DEF TurnInv
<1>8. CASE ConnectionLost BY <1>8, LostChance
<1> QED BY <1>2, <1>3, <1>4, <1>5, <1>6, <1>7, <1>8, Steps

-----------------------------------------------------------------------------
(* What the server does to the line that lets a steer go.                     *)
(* The server moves: what may go on being freed.                              *)
LEMMA FreedStays ==
  ASSUME NEW i, NEW s \in Turns, Freed(i, s), Quiet, serverKeeps' = serverKeeps,
         \A H : Has(inbox, H) => Has(inbox', H), ~Has(inbox', Under(s)),
         \A t \in Turns : Before(inbox', Ends(t), Release(i, s)),
         \A v \in Turns : active = v /\ v < s /\ Has(inbox', Stops(v)) => Has(inbox, Stops(v))
  PROVE  Freed(i, s)'
<1> QED BY Unmoved DEF Freed, Halting

(* A turn whose release is under way is the server's, or one before it.       *)
LEMMA FreedBefore ==
  ASSUME NEW i \in Inputs, NEW s \in Turns, Freed(i, s), Sequenced(s)
  PROVE  s <= turns /\ (srv.t = 0 \/ s <= srv.t)
<1> QED BY Releases, Including DEF Sequenced, Emitted, Freed

(* An answer, and the start of a turn, free and hold nothing.                 *)
LEMMA NotesFreed ==
  ASSUME Typed, NEW i \in Inputs, NEW s \in Turns, Freed(i, s), Sequenced(s), Quiet, serverKeeps' = serverKeeps,
         NEW a \in Output, a.m = "answer", a.t = 0, Adds(inbox, inbox', a),
         \A v \in Turns : a \in Stops(v) => v = srv.t
  PROVE  Freed(i, s)'
<1>3. ASSUME NEW v \in Turns, v < s, Has(inbox', Stops(v)) PROVE Has(inbox, Stops(v))
  <2> QED BY <1>3, FreedBefore DEF Adds, Turns, Turn
<1> QED BY <1>3, FreedStays DEF Adds, Freed, Under, Release

LEMMA OpensFreed ==
  ASSUME Typed, NEW i \in Inputs, NEW s \in Turns, Freed(i, s), Sequenced(s), Quiet, serverKeeps' = serverKeeps,
         NEW a \in Output, a.m = "answer", a.c.op \in {"start", "next"}, a.t \in {0, turns + 1},
         NEW o \in Output, o \in Begins(turns + 1), Gains(inbox, inbox', a, o)
  PROVE  Freed(i, s)'
<1>4. a \notin Under(s) /\ o \notin Under(s)
  BY OutputOf, ServerParts, FreedBefore DEF Under, Turn, Turns
<1> QED BY <1>4, OutputOf, FreedStays DEF Gains, Freed, Release

(* Nor does what the server's turn tells of itself.                           *)
LEMMA NoEnds ==
  ASSUME \A t \in Turns : Sequenced(t), NEW u \in Turns, srv.t = u, ~Has(inbox, Under(u)), NEW t \in Turns
  PROVE  ~Has(inbox, Ends(t))
<1> SUFFICES ASSUME Has(inbox, Ends(t)) PROVE FALSE OBVIOUS
<1> QED BY Including DEF Sequenced, Emitted, Turns

LEMMA TellsFreed ==
  ASSUME Typed, \A t \in Turns : Sequenced(t), NEW i \in Inputs, NEW s \in Turns, Freed(i, s),
         Quiet, serverKeeps' = serverKeeps,
         NEW a \in Output, a.m \in {"shown", "completed"}, a.t = srv.t, srv.t # 0, Adds(inbox, inbox', a)
  PROVE  Freed(i, s)'
<1>1. PICK u \in Turns : u = srv.t BY ServerParts DEF Turns
<1>6. ~Has(inbox', Under(s)) BY <1>1, FreedBefore DEF Adds, Under, Turns, Turn, Freed
<1> QED BY <1>6, <1>1, OutputOf, NoEnds, FreedStays DEF Adds, Freed, Release

(* The line by which the server's turn lets a steer go.                       *)
LEMMA Frees ==
  ASSUME Typed, Serves, \A t \in Turns : Sequenced(t), NEW i \in Inputs, i \in srv.pend, NEW u \in Turns, u = srv.t,
         Quiet, serverKeeps' = serverKeeps, NEW a \in Output, a \in Release(i, u), Adds(inbox, inbox', a)
  PROVE  Freed(i, u)'
<1>1. Sequenced(u) OBVIOUS
<1>4. a \notin Under(u)
  <2>1. a.t = u BY Zenon DEF Release
  <2> QED BY <2>1 DEF Under, Turns, Turn
<1>10. active <= u
  <2>1. CASE active = 0 BY <2>1 DEF Turns, Turn
  <2>2. CASE active # 0
    <3>1. PICK v \in Turns : v = active BY <2>2, TypedParts DEF Turns
    <3> QED BY <3>1 DEF Sequenced, Past, Turns
  <2> QED BY <2>1, <2>2
<1>11. a \notin Begins(u) /\ \A v : a \notin Stops(v)
  <2> QED BY OutputOf DEF Release
<1>12. ASSUME NEW v \in Turns, active = v, v < u PROVE ~Halting(v)'
  <2> QED BY <1>11, <1>12, Unmoved DEF Halting, Adds, Sequenced, NotCut, Turns, Known
<1> QED BY <1>4, <1>10, <1>12, NoEnds, Unmoved DEF Freed, Adds, Has, Before, Sequenced, Past, Known

-----------------------------------------------------------------------------
(* ... to the chance of an input, when it takes a request,                    *)
(* Where i is the server does not change.                                     *)
LEMMA PlacesStay ==
  ASSUME Quiet, serverKeeps' = serverKeeps, NEW i
  PROVE  (Fresh(i)' <=> Fresh(i)) /\ (Unsent(i)' <=> Unsent(i)) /\ (InSteers(i)' <=> InSteers(i))
<1>2. ~Resumes(i)
  <2> QED BY Unmoved DEF Resumes
<1>3. ~Resumes(i)'
  <2> QED BY Unmoved DEF Resumes
<1> QED BY <1>2, <1>3, Unmoved DEF Fresh, Unsent, InQueue, InSteers, Joins

LEMMA FreedNext == ASSUME NEW i PROVE (\E s \in Turns : Freed(i, s)') => (\E s \in Turns : Freed(i, s))'
OBVIOUS

LEMMA CallSets ==
  ASSUME NEW i PROVE Starts(i)' = Starts(i) /\ Steers(i)' = Steers(i) /\ \A t : SteersInto(i, t)' = SteersInto(i, t)
OBVIOUS

(* A request is taken, or none, and the server's turn gains nothing.          *)
LEMMA LosesChance ==
  ASSUME NEW i, Chance(i), Quiet, serverKeeps' = serverKeeps, ran' = ran,
         toSrv' = toSrv \/ \E c : Cuts(toSrv, toSrv', c),
         srv'.t = srv.t, srv'.first = srv.first, srv'.shown = srv.shown, srv'.pend \subseteq srv.pend,
         srv.stopping => srv'.stopping,
         \A s \in Turns : Freed(i, s) => Freed(i, s)'
  PROVE  Chance(i)'
<1>3. LiveSteer(i)' => LiveSteer(i)
  <2> QED BY DEF LiveSteer, Cuts
<1> QED BY <1>3, PlacesStay DEF Chance, Cuts, Untaken

(* No steer is under way into a turn that opens.                              *)
LEMMA OpensUnsteered ==
  ASSUME Typed, \A t \in Turns : Sequenced(t), NEW i \in Inputs, NEW c, Cuts(toSrv, toSrv', c),
         NEW n \in Turns, n = turns + 1, srv'.t = n
  PROVE  ~LiveSteer(i)' /\ n \notin ended
<1>1. turns \in Nat BY ServerParts DEF Turn
<1>4. ~LiveSteer(i)'
  <2> SUFFICES ASSUME LiveSteer(i)' PROVE FALSE OBVIOUS
  <2>2. \A d \in SteersInto(i, n) : d \in Into(n) BY DEF SteersInto, Into
  <2>3. Has(toSrv, Into(n)) BY <2>2 DEF Has, Cuts, LiveSteer
  <2> QED BY <1>1, <2>3 DEF Sequenced, Past, Known
<1> QED BY <1>1, <1>4 DEF Sequenced, Silent

(* turn/start opens a turn.                                                   *)
LEMMA OpensChance ==
  ASSUME Typed, Serves, \A t \in Turns : Sequenced(t), NEW i \in Inputs, Chance(i), Quiet, serverKeeps' = serverKeeps,
         NEW c \in Call, c \in AnyStart, c = Head(toSrv), Cuts(toSrv, toSrv', c), ran' = ran,
         NEW a \in Output, a.m = "answer", a.c = c, a.t \in {0, turns + 1}, Opens(a)
  PROVE  Chance(i)'
<1>1. PICK n : n = turns + 1 OBVIOUS
<1>2. PICK o \in Output :
        /\ n \in Turns /\ srv'.t = n /\ srv'.first = c.i /\ srv'.pend = {} /\ o \in Begins(n) /\ Gains(inbox, inbox', a, o)
  BY Zenon, <1>1, OpensFacts
<1>4. ~LiveSteer(i)' BY <1>1, <1>2, OpensUnsteered
<1>5. c \in Starts(i) <=> c.i = i BY CallOf, StartOf
<1>6. (Fresh(i)' <=> Fresh(i)) /\ (Unsent(i)' <=> Unsent(i)) /\ (InSteers(i)' <=> InSteers(i)) BY PlacesStay
<1>9. InSteers(i)' /\ ran'[i] # 0 => (\E s \in Turns : Freed(i, s))'
  BY <1>6, <1>1, <1>2, CallOf, OpensFreed, FreedNext DEF Chance
<1>12. Once(toSrv', Starts(i)) /\ Once(toSrv', Steers(i)) /\ (Fresh(i) => ~Has(toSrv', Steers(i)))
  BY DEF Cuts, Chance
<1>13. Unsent(i)' \/ InSteers(i)' => ~Has(toSrv', Starts(i)) /\ srv'.first # i
  BY <1>2, <1>5, <1>6 DEF Chance, Cuts
<1>14. Unsent(i)' => Untaken(i)' BY <1>6, <1>2, <1>4 DEF Chance, Untaken
<1>15. Has(toSrv', Starts(i)) => srv'.first # i /\ Untaken(i)'
  BY <1>2, <1>5, <1>4 DEF Chance, Untaken, Cuts
<1>16. srv'.first = i => ran'[i] = 0 /\ i \notin srv'.pend BY <1>2, <1>5 DEF Chance, Untaken, Cuts
<1>17. ran'[i] <= 1 BY DEF Chance
<1>18. i \notin srv'.pend BY <1>2
<1> QED BY <1>4, <1>6, <1>9, <1>12, <1>13, <1>14, <1>15, <1>16, <1>17, <1>18, CallSets DEF Chance

(* turn/steer is taken: the steer waits in the turn.                          *)
LEMMA SteersChance ==
  ASSUME Typed, NEW i, Chance(i), Quiet, serverKeeps' = serverKeeps, ran' = ran,
         NEW c \in Call, c.op = "steer", srv.t = c.t, srv.t # 0, ~srv.stopping, Cuts(toSrv, toSrv', c),
         srv' = [srv EXCEPT !.pend = @ \cup {c.i}],
         \A s \in Turns : Freed(i, s) => Freed(i, s)'
  PROVE  Chance(i)'
<1>3. CASE c.i # i
  <2> QED BY <1>3, ServerParts, CallSets, PlacesStay, FreedNext DEF Chance, Cuts, Untaken, LiveSteer
<1>4. CASE c.i = i
  <2>3. ~Has(toSrv', Steers(i)) BY <1>4, CallOf DEF Chance, Cuts
  <2>4. ~LiveSteer(i)'
    <3> QED BY <2>3, ServerParts, CallSets DEF LiveSteer, Has, SteersInto, Steers
  <2> QED
    BY <2>3, <2>4, <1>4, ServerParts, CallOf, PlacesStay, CallSets DEF Chance, Cuts, Untaken,
       Unsent, LiveSteer
<1> QED BY <1>3, <1>4

-----------------------------------------------------------------------------
(* ... or when the turn takes its input, or ends.                             *)
(* How often an input has become part of a turn.                              *)
LEMMA RanOf ==
  ASSUME Typed, NEW i \in Inputs, NEW S
  PROVE  Ran(S)[i] = IF i \in S THEN ran[i] + 1 ELSE ran[i]
BY DEF Ran

(* What the turn does not touch of i.                                         *)
LEMMA PassesChance ==
  ASSUME NEW i, Chance(i), Quiet, serverKeeps' = serverKeeps, toSrv' = toSrv, ran'[i] = ran[i],
         (srv'.first = srv.first /\ (srv.shown => srv'.shown)) \/ srv'.first # i,
         i \in srv'.pend => i \in srv.pend, LiveSteer(i)' => LiveSteer(i),
         \A s \in Turns : Freed(i, s) => Freed(i, s)'
  PROVE  Chance(i)'
<1> QED BY PlacesStay, FreedNext, CallSets DEF Chance, Untaken

(* ... and what becomes of i when the turn takes it.                          *)
LEMMA TakesChance ==
  ASSUME NEW i, Chance(i), Quiet, serverKeeps' = serverKeeps, toSrv' = toSrv,
         ran[i] = 0, ran'[i] = 1, i \notin srv'.pend, ~LiveSteer(i)',
         ~Unsent(i), ~Has(toSrv, Starts(i)), srv'.first = i => srv'.shown,
         InSteers(i) => srv'.first # i /\ \E s \in Turns : Freed(i, s)'
  PROVE  Chance(i)'
<1> QED BY PlacesStay, FreedNext, CallSets DEF Chance, Unsent

(* The turn shows its input, or a steer it took.                              *)
LEMMA ShowsChance ==
  ASSUME Typed, Serves, \A t \in Turns : Sequenced(t), NEW i \in Inputs, Chance(i), ServerShows
  PROVE  Chance(i)'
<1>1. Quiet /\ serverKeeps' = serverKeeps /\ toSrv' = toSrv /\ srv.t # 0 /\ ~srv.stopping
  BY DEF ServerShows, serverLeaves
<1>3. PICK u \in Turns : u = srv.t BY <1>1, ServerParts DEF Turns
<1>4. ASSUME NEW x \in Inputs \cup {Nothing}, NEW a, a = [m |-> "shown", t |-> srv.t, i |-> x], inbox' = Append(inbox, a)
      PROVE  a \in Output /\ a.m = "shown" /\ a.t = srv.t /\ Adds(inbox, inbox', a) /\ (x = i => a \in Release(i, u))
  <2> QED BY <1>4, <1>3, ServerParts, NewOutputs, Adding DEF Release
<1>5. \A s \in Turns : Freed(i, s) => Freed(i, s)'
  <2>1. PICK x \in Inputs \cup {Nothing} : inbox' = Append(inbox, [m |-> "shown", t |-> srv.t, i |-> x])
    BY Zenon, ServerParts DEF ServerShows
  <2> QED BY <1>1, <1>4, <2>1, TellsFreed
<1>6. CASE /\ ~srv.shown /\ srv' = [srv EXCEPT !.shown = TRUE] /\ ran' = Ran({srv.first})
  <2>3. CASE srv.first # i
    <3> QED BY <1>1, <1>5, <1>6, <2>3, ServerParts, RanOf, PassesChance DEF LiveSteer
  <2>4. CASE srv.first = i
    <3> QED BY <1>1, <1>6, <2>4, RanOf, ServerParts, TakesChance DEF Chance, LiveSteer
  <2> QED BY <2>3, <2>4
<1>7. ASSUME NEW j \in srv.pend, srv' = [srv EXCEPT !.pend = @ \ {j}], ran' = Ran({j}),
             inbox' = Append(inbox, [m |-> "shown", t |-> srv.t, i |-> j])
      PROVE  Chance(i)'
  <2>3. CASE j # i
    <3> QED BY <1>1, <1>5, <1>7, <2>3, ServerParts, RanOf, PassesChance DEF LiveSteer
  <2>4. CASE j = i
    <3>4. Freed(i, u)'
      <4>1. PICK a : a = [m |-> "shown", t |-> srv.t, i |-> j] BY Zenon
      <4> QED BY <1>1, <1>3, <1>7, <2>4, <1>4, <4>1, ServerParts, Frees
    <3> QED
      BY <1>1, <1>7, <2>4, <3>4, RanOf, ServerParts, TakesChance DEF Chance, Untaken, LiveSteer
  <2> QED BY <2>3, <2>4
<1> QED BY Zenon, <1>6, <1>7 DEF ServerShows

(* The turn ends and records the steers it had not taken.                     *)
LEMMA CompletesChance ==
  ASSUME Typed, Serves, \A t \in Turns : Sequenced(t), NEW i \in Inputs, Chance(i), ServerCompletes
  PROVE  Chance(i)'
<1>1. Quiet /\ serverKeeps' = serverKeeps /\ toSrv' = toSrv /\ srv.t # 0 /\ srv' = Idle
  BY DEF ServerCompletes, serverLeaves
<1>2. /\ inbox \in Seq(Output) /\ srv.t \in Turn /\ srv.pend \subseteq Inputs /\ ran[i] \in Nat
      /\ srv.stopping \in BOOLEAN
  BY ServerParts
<1>3. PICK u \in Turns : u = srv.t BY <1>1, <1>2 DEF Turns
<1>4. PICK a : a = [m |-> "completed", t |-> srv.t, interrupted |-> srv.stopping] BY Zenon
<1>9. CASE ran'[i] = ran[i]
  <2> QED
    BY <1>1, <1>9, <1>2, <1>4, NewOutputs, Adding, InputAssumption, TellsFreed, PassesChance DEF
       LiveSteer, Idle, ServerCompletes
<1>10. CASE ran'[i] # ran[i]
  <2>1. i \in srv.pend /\ ~srv.stopping /\ ran'[i] = ran[i] + 1 BY <1>10, RanOf DEF ServerCompletes
  <2>5. Freed(i, u)'
    BY <1>1, <1>3, <1>2, <1>4, <2>1, NewOutputs, Adding, Frees DEF Release, ServerCompletes
  <2> QED BY <1>1, <2>1, <2>5, InputAssumption, TakesChance DEF Chance, Untaken, LiveSteer, Idle
<1> QED BY <1>9, <1>10

-----------------------------------------------------------------------------
(* Every step.                                                                *)
(* Every step of the server keeps what an input's chance is.                  *)
LEMMA ServerChance ==
  ASSUME Typed, Serves, \A t \in Turns : Sequenced(t), NEW i \in Inputs, Chance(i), ServerStep
  PROVE  Chance(i)'
<1>1. Quiet /\ serverKeeps' = serverKeeps BY ServerStays
<1>2. PICK c : c = Head(toSrv) OBVIOUS
<1>4. ASSUME NEW a \in Output, inbox' = Append(inbox, a) PROVE Adds(inbox, inbox', a)
  BY <1>4, ServerParts, Adding DEF Turn
<1>5. CASE ServerRefuses \/ (ServerErrs /\ ~Opens(Answer(c, "error", 0)))
  <2>1. c \in Call /\ Cuts(toSrv, toSrv', c)
    BY <1>2, <1>5, RequestTaken DEF ServerRefuses, ServerErrs
  <2>2. PICK r \in {"refused", "error"} : inbox' = Append(inbox, Answer(c, r, 0)) /\ srv' = srv /\ ran' = ran
    BY <1>2, <1>5 DEF ServerRefuses, ServerErrs
  <2>3. PICK a : a = Answer(c, r, 0) OBVIOUS
  <2>4. a \in Output /\ a.m = "answer" /\ a.t = 0 /\ a.r # "ok"
    BY <2>1, <2>3, NewOutputs, ZeroIsTurn DEF Answers, Answer
  <2> QED BY <1>1, <2>1, <2>2, <2>4, <1>4, <2>3, OutputOf, NotesFreed, LosesChance
<1>6. CASE ServerStarts \/ (ServerErrs /\ Opens(Answer(c, "error", 0)))
  <2>1. c \in Call /\ Cuts(toSrv, toSrv', c) /\ c.op \in {"start", "next"}
    BY <1>2, <1>6, RequestTaken DEF ServerStarts, ServerErrs
  <2>3. PICK a : (a = Answer(c, "ok", turns + 1) \/ a = Answer(c, "error", 0)) /\ Opens(a) /\ ran' = ran
    BY <1>2, <1>6 DEF ServerStarts, ServerErrs
  <2>4. turns + 1 \in Turn
    <3>1. turns < MaxTurns BY <2>3 DEF Opens
    <3> QED BY <3>1, ServerParts, InputAssumption DEF Turn
  <2> QED
    BY <1>1, <1>2, <2>1, <2>3, <2>4, CallOf, NewOutputs, ZeroIsTurn, OpensChance DEF Answers, Answer
<1>7. CASE ServerSteers \/ ServerInterrupts
  <2>1. c \in Call /\ Cuts(toSrv, toSrv', c) /\ c.op \in {"steer", "interrupt"} /\ srv.t = c.t
    BY <1>2, <1>7, RequestTaken DEF ServerSteers, ServerInterrupts
  <2>2. srv.t # 0 BY <2>1, RequestNames
  <2>3. PICK a : a = Answer(c, "ok", 0) OBVIOUS
  <2>5. inbox' = Append(inbox, a) /\ ran' = ran BY <1>2, <1>7, <2>3 DEF ServerSteers, ServerInterrupts
  <2>7. \A v \in Turns : a \in Stops(v) => v = srv.t
    <3> QED BY <2>1, <2>3, NewOutputs, ZeroIsTurn DEF Stops, Stopping, Answers, Answer
  <2>8. \A s \in Turns : Freed(i, s) => Freed(i, s)'
    BY <1>1, <2>1, <2>3, <1>4, <2>5, <2>7, NewOutputs, ZeroIsTurn, NotesFreed DEF Answers, Answer
  <2>9. CASE ServerSteers
    <3> QED BY <1>1, <2>1, <2>2, <2>5, <2>8, <1>2, <2>9, RequestTaken, SteersChance DEF ServerSteers
  <2>10. CASE ServerInterrupts
    <3> QED BY <1>1, <2>1, <2>5, <2>8, <2>10, ServerParts, LosesChance DEF ServerInterrupts
  <2> QED BY <1>7, <2>9, <2>10
<1>8. CASE ServerShows BY <1>8, ShowsChance
<1>9. CASE ServerCompletes BY <1>9, CompletesChance
<1>10. CASE ServerAborts
  <2>3. ASSUME NEW s \in Turns, Freed(i, s) PROVE Freed(i, s)'
    <3> QED BY <1>1, <2>3, <1>10, FreedStays DEF Freed, ServerAborts
  <2> QED BY <1>1, <1>10, <2>3, ServerParts, LosesChance DEF ServerAborts
<1> QED BY <1>5, <1>6, <1>7, <1>8, <1>9, <1>10 DEF ServerStep

LEMMA ChanceInit == ASSUME Init, NEW i \in Inputs PROVE Chance(i)
<1> QED BY InputAssumption, NothingBefore DEF Chance, Init, LiveSteer, Untaken, Idle

(* Every step keeps it.                                                       *)
LEMMA RunStep == ASSUME RunInv, [Next]_vars PROVE RunInv'
<1>1. InputInv /\ TurnInv /\ Typed /\ Flow /\ Serves /\ \A t \in Turns : Sequenced(t)
  BY DEF RunInv, InputInv, TurnInv
<1>4. ASSUME NEW i \in Inputs \ fell' PROVE Chance(i)'
  <2>2. Chance(i) /\ Lone(i) BY <1>1, FellGrows DEF RunInv, InputInv, Accounted
  <2>3. Lone(i)'
    <3> QED BY <1>1, <1>4, StepInv DEF Accounted, InputInv
  <2>4. CASE ServerStep BY <1>1, <2>2, <2>4, ServerChance
  <2>5. CASE ~ServerStep BY <1>1, <2>2, <2>3, <2>5, SessionKeepsChance
  <2> QED BY <2>4, <2>5
<1> QED BY <1>1, <1>4, StepInv, TurnStep DEF RunInv

(* An input becomes part of a turn at most once, unless its turn/steer failed: *)
(* being sent, steered, queued again at the end of a turn or by a failed      *)
(* start, and answered late, never make the server take it twice.             *)
THEOREM RanOnce == Spec => []RunsOnce
<1>1. Init => RunInv
  <2> SUFFICES ASSUME Init PROVE RunInv OBVIOUS
  <2> QED BY InitInv, TurnInit, ChanceInit DEF RunInv
<1>2. RunInv /\ [Next]_vars => RunInv' BY RunStep
<1>3. RunInv => RunsOnce
  <2> SUFFICES ASSUME RunInv, NEW i \in Inputs, ran[i] > 1 PROVE i \in fell BY DEF RunsOnce
  <2> QED BY ServerParts DEF RunInv, Chance, InputInv
<1> QED BY <1>1, <1>2, <1>3, PTL DEF Spec

-----------------------------------------------------------------------------

LEMMA StartSets ==
  /\ Heard \subseteq AnyStarted /\ HeardRefusals \subseteq Heard /\ Refusals \subseteq StartLines
  /\ \A u \in Turn : Named(u) \subseteq Heard /\ Opening(u) \subseteq StartLines
<1> QED BY DEF Opening, StartLines, Answers, Refusals, Named, Heard, AnyStarted, HeardRefusals

LEMMA StartHas ==
  ASSUME NEW s
  PROVE  /\ Has(s, Heard) => Has(s, AnyStarted)
         /\ Has(s, HeardRefusals) => Has(s, Heard)
         /\ Has(s, Refusals) => Has(s, StartLines)
         /\ \A u \in Turn : (Has(s, Named(u)) => Has(s, Heard)) /\ (Has(s, Opening(u)) => Has(s, StartLines))
BY StartSets DEF Has

LEMMA CurrentNext ==
  ASSUME NEW u
  PROVE  Current(u)' <=>
           u \notin ended' /\ (active' = u \/ srv'.t = u \/ Has(inbox', Begins(u)) \/ Has(inbox', Follows(u)))
BY DEF Current, Begins, Follows, Ends

LEMMA SoloNext ==
  ASSUME \A u, v \in Turns : Current(u)' /\ Current(v)' => u = v,
         \A u \in Turns : Current(u)' => active' = u \/ (starting' /\ active' = 0),
         Has(toSrv', AnyStart) =>
           starting' /\ active' = 0 /\ ~Has(inbox', StartLines) /\ ~Has(micro', Heard) /\ \A u \in Turns : ~Current(u)',
         Once(toSrv', AnyStart) /\ Once(inbox', StartLines),
         Has(inbox', StartLines) => starting',
         Has(micro', Heard) => ~Has(inbox', StartLines),
         Has(inbox', Refusals) \/ Has(micro', HeardRefusals) => \A u \in Turns : ~Current(u)',
         \A u \in Turn, v \in Turns : (Has(inbox', Opening(u)) \/ Has(micro', Named(u))) /\ Current(v)' => v = u
  PROVE  Solo'
<1>1. AnyStart' = AnyStart BY DEF AnyStart, Turn
<1> QED
  BY <1>1 DEF Solo, Opening, Named, StartLines, Refusals, Answers, Turn, Heard, HeardRefusals, Turns

(* Nothing is gained.                                                         *)
LEMMA SoloLess ==
  ASSUME Solo, starting' = starting, active' = active,
         Has(toSrv', AnyStart) => Has(toSrv, AnyStart), Once(toSrv, AnyStart) => Once(toSrv', AnyStart),
         Once(inbox, StartLines) => Once(inbox', StartLines),
         Has(inbox', StartLines) => Has(inbox, StartLines), Has(inbox', Refusals) => Has(inbox, Refusals),
         Has(micro', Heard) => Has(micro, Heard), Has(micro', HeardRefusals) => Has(micro, HeardRefusals),
         \A u \in Turn : Has(inbox', Opening(u)) => Has(inbox, Opening(u)),
         \A u \in Turn : Has(micro', Named(u)) => Has(micro, Named(u)),
         \A u \in Turns : Current(u)' => Current(u)
  PROVE  Solo'
BY SoloNext DEF Solo

LEMMA TalkSolo ==
  ASSUME Typed, Talks, Single, Solo, active' = active \/ active \in ended' \cup {0}
  PROVE  Solo'
<1>3. \A u \in Turns : Current(u)' => active' = u \/ (starting /\ active' = 0)
  <2> TAKE u \in Turns
  <2> QED BY CurrentNext DEF Solo, Turns, Current, Talks, Shorter
<1>4. CASE AsksNothing \/ AsksInto
  <2>2. (Has(toSrv', AnyStart) => Has(toSrv, AnyStart)) /\ (Once(toSrv, AnyStart) => Once(toSrv', AnyStart))
    <3>1. CASE AsksNothing BY <3>1 DEF AsksNothing
    <3>2. CASE AsksInto
      <4>1. PICK t \in Turns : \E c \in Into(t) : Asks(c) /\ c \in Call BY <3>2 DEF AsksInto
      <4>2. PICK c \in Into(t) : Asks(c) /\ c \in Call BY <4>1
      <4> QED BY <4>2, CallOf, TypedParts, Adding DEF Adds, Asks
    <3> QED BY <1>4, <3>1, <3>2
  <2> QED
    BY <1>3, <1>4, <2>2, CurrentNext, SoloNext DEF Solo, AsksNothing, AsksInto, Current, Turns,
       Talks, Shorter
<1>5. CASE AsksStart
  <2>1. PICK c \in AnyStart : Asks(c) /\ starting' /\ ~starting /\ active' = 0 BY <1>5 DEF AsksStart
  <2>2. c \in Call
    <3> QED BY <2>1 DEF Call, AnyStart
  <2>5. \A u \in Turns : ~Current(u)'
    <3> TAKE u \in Turns
    <3> QED BY <1>3, <2>1 DEF Turns
  <2> QED
    BY <2>1, <2>5, <2>2, TypedParts, Adding, StartHas, SoloNext DEF Adds, Solo, Single, Talks,
       Shorter, Asks
<1> QED BY <1>4, <1>5 DEF Talks

-----------------------------------------------------------------------------
(* ... kept by every step of the session,                                     *)
(* Which of these sets a record is in.                                        *)
LEMMA StartLineOf ==
  ASSUME NEW o \in Output
  PROVE  /\ o \in StartLines <=> o.m = "answer" /\ o.c \in AnyStart
         /\ o \in Refusals <=> o.m = "answer" /\ o.c \in AnyStart /\ o.r = "refused"
         /\ \A t : o \in Opening(t) <=> o.m = "answer" /\ o.c \in AnyStart /\ o.r = "ok" /\ o.t = t
<1>1. CASE o \in [m : {"answer"}, c : Call, r : Answers, t : Turn]
  <2> QED BY <1>1 DEF Opening, Refusals, StartLines
<1>2. CASE o \notin [m : {"answer"}, c : Call, r : Answers, t : Turn]
  <2> QED BY <1>2 DEF StartLines, Refusals, Opening, Output
<1> QED BY <1>1, <1>2

LEMMA HeardOf ==
  ASSUME NEW x \in Continuation, x.k = "answer"
  PROVE  /\ x \in Heard <=> x.c \in AnyStart /\ x.r \in {"ok", "refused"}
         /\ x \in HeardRefusals <=> x.c \in AnyStart /\ x.r = "refused"
         /\ \A t : x \in Named(t) <=> x.c \in AnyStart /\ x.r = "ok" /\ x.t = t
<1> QED BY DEF Named, Heard, HeardRefusals, Continuation

LEMMA LostHeard ==
  ASSUME NEW c, NEW x, x = [k |-> "answer", c |-> c, r |-> "lost", t |-> 0] PROVE x \notin Heard
BY DEF Heard

(* The session's start is answered: by the turn it opened, by a refusal, or   *)
(* it is given up.                                                            *)
LEMMA StartTurnSolo ==
  ASSUME Typed, Single, Down, Solo, StartTurnContinues, ~stray'
  PROVE  Solo'
<1>1. PICK x \in AnyStarted, t \in Turn :
        /\ x = Head(micro) /\ Has(micro, {x}) /\ x \in Continuation
        /\ (x.r = "ok" /\ t = x.t /\ active' = IF active = 0 THEN t ELSE active) \/ (t = 0 /\ active' = active)
        /\ Once(micro, AnyStarted) => ~Has(micro', AnyStarted)
        /\ x.r = "ok" /\ t = x.t => Has(micro, Named(t))
  BY Zenon, StartTaken
<1>2. srv' = srv /\ inbox' = inbox /\ toSrv' = toSrv /\ ended' = ended /\ starting' = FALSE
  BY DEF StartTurnContinues, server, link
<1>6. CASE x.r \in {"ok", "refused"}
  <2>1. x \in Heard
    <3> QED BY <1>6, <1>1 DEF Heard, AnyStarted
  <2>5. CASE x.r = "refused"
    <3>1. x \in HeardRefusals
      <4> QED BY <2>5, <1>1 DEF HeardRefusals, AnyStarted
    <3> QED
      BY <1>2, <1>1, <2>1, <3>1, <2>5, StartHas, CurrentNext, SoloNext DEF Solo, Has, Current,
         Single
  <2>6. CASE x.r = "ok"
    <3>1. active' = (IF active = 0 THEN x.t ELSE active) /\ Has(micro, Named(x.t)) /\ x.t \in Turn
      <4>3. x \in Named(x.t) BY Zenon, <1>1, <2>6, ContinuationOf DEF AnyStarted
      <4> QED BY <1>1, <2>6, <4>3 DEF Has, StartTurnContinues, AnyStarted
    <3>4. \A v \in Turns : Current(v)' => active' = v
      <4> TAKE v \in Turns
      <4> QED BY <3>1, <1>2, CurrentNext DEF Current, Solo, Turns
    <3> QED BY <1>2, <1>1, <2>1, <3>4, StartHas, SoloNext DEF Solo, Has, Single
  <2> QED BY <1>6, <2>5, <2>6
<1>7. CASE x.r \notin {"ok", "refused"}
  <2>1. offline BY Zenon, <1>1, <1>7 DEF StartTurnContinues
  <2> QED
    BY <1>1, <1>2, <2>1, <1>7, StartHas, NothingBefore, CurrentNext, SoloNext DEF Turns, Solo, Down,
       Idle, Single
<1> QED BY <1>6, <1>7

LEMMA AnsweredSolo ==
  ASSUME Typed, Single, Solo, Answered PROVE Solo'
<1>1. PICK a \in Output :
        /\ a = Head(inbox) /\ a.m = "answer" /\ Cuts(inbox, inbox', a) /\ Shorter(inbox, inbox')
        /\ Thins(wait, wait')
        /\ \A t : Has(inbox, Begins(t)) => Has(inbox', Begins(t))
        /\ \/ wait' = wait /\ micro' = micro
           \/ \E x \in Continuation :
                /\ Adds(micro, micro', x) /\ Has(wait, {a.c}) /\ a.c \in Call
                /\ x.k = "answer" /\ x.c = a.c /\ x.r = a.r /\ x.t = a.t
                /\ \A H : a.c \in H /\ Once(wait, H) => ~Has(wait', H)
  BY AnswerTaken
<1>5. CASE micro' = micro
  BY <1>1, <1>5, CurrentNext, SoloLess DEF Current, Shorter, Answered, server, turn
<1>6. CASE micro' # micro
  <2>1. PICK x \in Continuation :
          /\ Adds(micro, micro', x) /\ Has(wait, {a.c}) /\ a.c \in Call
          /\ x.k = "answer" /\ x.c = a.c /\ x.r = a.r /\ x.t = a.t
    BY <1>1, <1>6
  <2>3. CASE a.c \notin AnyStart
    BY <1>1, <2>1, <2>3, CurrentNext, HeardOf, SoloLess DEF Adds, Current, Shorter, Answered,
       server, turn
  <2>4. CASE a.c \in AnyStart
    <3>5. x \in HeardRefusals => Has(inbox, Refusals)
      <4> QED BY <1>1, <2>1, HeardOf, StartLineOf DEF Cuts
    <3>6. \A u \in Turn : x \in Named(u) => Has(inbox, Opening(u))
      <4> QED BY <1>1, <2>1, HeardOf, StartLineOf DEF Cuts
    <3> QED
      BY <1>1, <2>4, <2>1, <3>5, <3>6, StartLineOf, CurrentNext, StartHas, SoloNext DEF Solo, Adds,
         Current, Shorter, Answered, server, turn, Cuts
  <2> QED BY <2>3, <2>4
<1> QED BY <1>5, <1>6

LEMMA StartedSolo ==
  ASSUME Typed, Down, Solo, Started PROVE Solo'
<1>1. PICK a : a = Head(inbox) OBVIOUS
<1>3. PICK t : t = a.t OBVIOUS
<1>4. t \in Turns /\ a \in Begins(t)
  BY <1>1, <1>3, LineTaken, OutputFacts, OutputOf DEF Turns, Started
<1>5. srv' = srv /\ toSrv' = toSrv /\ micro' = micro /\ ended' = ended /\ starting' = starting
  BY DEF Started, server
<1>7. active' = IF t \in ended THEN active ELSE t
  BY <1>1, <1>3, InputAssumption DEF Started, Line, Down
<1>8. /\ \A H : Has(inbox', H) => Has(inbox, H)
      /\ \A H : Once(inbox, H) => Once(inbox', H) BY <1>1, LineTaken DEF Shorter, Started
<1>10. CASE t \in ended
  <2> QED BY <1>5, <1>7, <1>8, <1>10, CurrentNext, SoloLess DEF Current
<1>11. CASE t \notin ended
  <2>1. Current(t) BY <1>1, <1>4, <1>11, LineTaken DEF Current, Cuts, Started
  <2>2. \A u \in Turns : Current(u)' => u = t
    <3> QED BY <1>4, <2>1, <1>5, <1>7, <1>8, <1>11, CurrentNext DEF Solo, Current
  <2>3. ~Has(toSrv', AnyStart) BY <1>4, <1>5, <2>1 DEF Solo
  <2>4. ~Has(inbox', Refusals) /\ ~Has(micro', HeardRefusals) BY <1>4, <1>5, <1>8, <2>1 DEF Solo
  <2>5. \A u \in Turn : Has(inbox', Opening(u)) \/ Has(micro', Named(u)) => u = t
    BY <1>4, <1>5, <1>8, <2>1 DEF Solo
  <2> QED BY <1>7, <1>11, <2>2, <2>3, <2>4, <2>5, <1>5, <1>8, SoloNext DEF Solo
<1> QED BY <1>10, <1>11

LEMMA TimesOutSolo == ASSUME Typed, Solo, CallTimesOut PROVE Solo'
<1>2. PICK c, x : x = [k |-> "answer", c |-> c, r |-> "lost", t |-> 0] /\ micro' = <<x>> BY DEF CallTimesOut
<1> QED
  BY <1>2, LostHeard, StartHas, CurrentNext, SoloLess DEF CallTimesOut, server, turn, link, Current,
     Has

LEMMA LostSolo == ASSUME Typed, ConnectionLost PROVE Solo'
<1> QED BY LostTakes, NothingBefore, CurrentNext, SoloNext DEF Turns, Idle

-----------------------------------------------------------------------------
(* ... and by every step of the server.                                       *)
(* The server tells something that is no answer to a turn/start.              *)
LEMMA TellsSolo ==
  ASSUME Solo, Quiet, serverKeeps' = serverKeeps, NEW a, a \notin StartLines, Adds(inbox, inbox', a) \/ inbox' = inbox,
         Has(toSrv', AnyStart) => Has(toSrv, AnyStart), Once(toSrv, AnyStart) => Once(toSrv', AnyStart),
         \A u \in Turns : Current(u)' => Current(u)
  PROVE  Solo'
<1> QED BY StartSets, Unmoved, SoloLess DEF Adds

(* It answers a turn/start without a turn.                                    *)
LEMMA RefusesSolo ==
  ASSUME Typed, Solo, Quiet, serverKeeps' = serverKeeps, NEW c \in AnyStart, Cuts(toSrv, toSrv', c), srv' = srv,
         NEW a \in Output, a.m = "answer", a.c = c, a.r # "ok", Adds(inbox, inbox', a)
  PROVE  Solo'
<1> QED BY OutputOf, Unmoved, CurrentNext, SoloNext DEF Solo, Cuts, Current, Adds

(* It opens a turn.                                                           *)
LEMMA OpensSolo ==
  ASSUME Typed, Solo, Quiet, serverKeeps' = serverKeeps, NEW c \in AnyStart, Cuts(toSrv, toSrv', c),
         NEW a \in Output, a.m = "answer", a.c = c, a.r # "refused", a.r = "ok" => a.t = turns + 1, Opens(a)
  PROVE  Solo'
<1>1. /\ active' = active /\ starting' = starting /\ ended' = ended
      /\ \A H : ~Has(micro', H)
  BY Unmoved
<1>2. PICK n : n = turns + 1 OBVIOUS
<1>3. PICK o \in Output : n \in Turns /\ srv'.t = n /\ o \in Begins(n) /\ Gains(inbox, inbox', a, o)
  BY Zenon, <1>2, OpensFacts
<1>5. starting /\ active = 0 /\ ~Has(inbox, StartLines) /\ \A u \in Turns : ~Current(u)
  BY DEF Solo, Cuts
<1>6. o.m = "started" /\ o.t = n BY <1>3, OutputOf
<1>9. ~Has(inbox', Refusals)
  <2> QED BY <1>3, <1>6, <1>5, StartHas, StartLineOf DEF Gains
<1>10. \A u \in Turn : Has(inbox', Opening(u)) => u = n
  <2> TAKE u \in Turn
  <2> QED BY <1>3, <1>5, <1>2, <1>6, StartHas, StartLineOf DEF Gains
<1>11. \A u \in Turns : Current(u)' => u = n
  <2> TAKE u \in Turns
  <2> QED BY <1>1, <1>3, <1>5, <1>6, OutputOf, CurrentNext DEF Current, Gains
<1> QED BY <1>1, <1>5, <1>3, <1>6, <1>9, <1>10, <1>11, StartLineOf, SoloNext DEF Cuts, Solo, Gains

LEMMA ServerSolo ==
  ASSUME Typed, Serves, Solo, ServerStep PROVE Solo'
<1>1. Quiet /\ serverKeeps' = serverKeeps BY ServerStays
<1>2. PICK c : c = Head(toSrv) OBVIOUS
<1>3. inbox \in Seq(Output) /\ turns \in Nat /\ srv.stopping \in BOOLEAN /\ srv.t \in Turn BY ServerParts DEF Turn
<1>4. ASSUME NEW a \in Output, inbox' = Append(inbox, a) PROVE Adds(inbox, inbox', a) BY <1>3, <1>4, Adding
<1>6. ASSUME srv'.t \in {srv.t, 0}, NEW a \in Output, Adds(inbox, inbox', a),
             a.m = "answer" \/ (srv.t # 0 /\ a.m \in {"shown", "completed"} /\ a.t = srv.t)
      PROVE  \A u \in Turns : Current(u)' => Current(u)
  <2> TAKE u \in Turns
  <2> QED BY <1>1, <1>6, Unmoved, OutputOf, CurrentNext DEF Current, Adds, Turns
<1>7. CASE ServerRefuses \/ (ServerErrs /\ ~Opens(Answer(c, "error", 0)))
  <2>1. c \in Call /\ Cuts(toSrv, toSrv', c)
    BY <1>2, <1>7, RequestTaken DEF ServerRefuses, ServerErrs
  <2>2. PICK r \in {"refused", "error"} : inbox' = Append(inbox, Answer(c, r, 0)) /\ srv' = srv
    BY <1>2, <1>7 DEF ServerRefuses, ServerErrs
  <2>3. PICK a : a = Answer(c, r, 0) OBVIOUS
  <2>4. a \in Output /\ a.m = "answer" /\ a.c = c /\ a.r # "ok"
    BY <2>1, <2>3, NewOutputs, ZeroIsTurn DEF Answers, Answer
  <2>6. CASE c \in AnyStart BY <1>1, <2>1, <2>2, <2>4, <1>4, <2>3, <2>6, RefusesSolo
  <2>7. CASE c \notin AnyStart
    <3>1. a \notin StartLines BY <2>4, <2>7, StartLineOf
    <3> QED BY <1>1, <1>4, <2>2, <2>3, <2>4, <3>1, <1>6, <2>1, TellsSolo DEF Cuts
  <2> QED BY <2>6, <2>7
<1>8. CASE ServerStarts \/ (ServerErrs /\ Opens(Answer(c, "error", 0)))
  <2>1. c \in Call /\ Cuts(toSrv, toSrv', c) /\ c.op \in {"start", "next"}
    BY <1>2, <1>8, RequestTaken DEF ServerStarts, ServerErrs
  <2>3. PICK a : (a = Answer(c, "ok", turns + 1) \/ a = Answer(c, "error", 0)) /\ Opens(a)
    BY <1>2, <1>8 DEF ServerStarts
  <2>4. turns + 1 \in Turn
    <3> QED BY <1>3, <2>3, InputAssumption DEF Turn, Opens
  <2> QED BY <1>1, <2>1, <2>3, <2>4, CallOf, NewOutputs, ZeroIsTurn, OpensSolo DEF Answers, Answer
<1>9. CASE ServerSteers \/ ServerInterrupts
  <2>1. c \in Call /\ Cuts(toSrv, toSrv', c) /\ c.op \in {"steer", "interrupt"}
    BY <1>2, <1>9, RequestTaken DEF ServerSteers, ServerInterrupts
  <2>3. PICK a : a = Answer(c, "ok", 0) OBVIOUS
  <2>4. a \in Output /\ a.m = "answer" /\ a.c = c
    BY <2>1, <2>3, NewOutputs, ZeroIsTurn DEF Answers, Answer
  <2>7. Adds(inbox, inbox', a) BY <1>4, <2>4, <1>2, <1>9, <2>3 DEF ServerSteers, ServerInterrupts
  <2>8. a \notin StartLines BY <2>1, <2>4, CallOf, StartLineOf
  <2> QED
    BY <1>1, <2>7, <2>8, <1>6, <2>4, <1>9, <2>1, ServerParts, TellsSolo DEF Cuts, ServerSteers,
       ServerInterrupts
<1>10. CASE ServerShows \/ ServerCompletes
  <2>2. srv'.t \in {srv.t, 0}
    <3>2. ServerCompletes => srv'.t = 0 BY DEF ServerCompletes, Idle
    <3> QED BY <1>10, <3>2, ServerParts DEF ServerShows
  <2>3. PICK a \in Output : inbox' = Append(inbox, a) /\ a.m \in {"shown", "completed"} /\ a.t = srv.t
    <3>1. CASE ServerShows
      <4>1. PICK i \in Inputs \cup {Nothing} : inbox' = Append(inbox, [m |-> "shown", t |-> srv.t, i |-> i])
        BY Zenon, <3>1, ServerParts DEF ServerShows
      <4> QED BY <1>3, <4>1, NewOutputs
    <3>2. CASE ServerCompletes
      <4>1. PICK a : a = [m |-> "completed", t |-> srv.t, interrupted |-> srv.stopping] BY Zenon
      <4> QED BY <1>3, <4>1, <3>2, NewOutputs DEF ServerCompletes
    <3> QED BY <1>10, <3>1, <3>2
  <2> QED
    BY <1>1, <1>10, <1>4, <2>3, <1>6, <2>2, StartLineOf, TellsSolo DEF ServerShows, ServerCompletes
<1>11. CASE ServerAborts
  <2> QED BY <1>1, <1>11, ServerParts, Unmoved, CurrentNext, SoloLess DEF Current, ServerAborts
<1> QED BY <1>7, <1>8, <1>9, <1>10, <1>11 DEF ServerStep

(* The active turn gives way only when its end is taken.                      *)
LEMMA EndsActive ==
  ASSUME Typed, Down, ForceClose \/ Completed
  PROVE  Talks /\ (active' = active \/ active \in ended' \cup {0})
<1>1. CASE ForceClose
  <2>1. active' = active \/ active \in ended'
    <3>1. CASE active = force BY <1>1, <3>1 DEF ForceClose
    <3>2. CASE active # force BY <1>1, <3>2 DEF ForceClose
    <3> QED BY <3>1, <3>2
  <2> QED BY <1>1, <2>1, TalkForceClose
<1>2. CASE Completed
  <2>1. PICK t \in Turn : Talks /\ ended' = ended \cup {t} /\ (active' = active \/ (active' = 0 /\ active \in {0, t}))
    BY <1>2, TalkCompleted
  <2> QED BY <2>1
<1> QED BY <1>1, <1>2

LEMMA StrayStays ==
  ASSUME Typed, [Next]_vars, ~StartTurnContinues PROVE stray' = stray
<1>1. CASE Calls
  <2> QED
    BY <1>1 DEF Calls, Submit, EnqueueFollowup, Remove, history, InterruptTurn, ConnectionRestored,
       PermanentLoss, Cancel, vars
<1>2. CASE DrainContinues \/ SteerResumes \/ SteerContinues \/ InterruptResumes \/ InterruptContinues
  BY <1>2 DEF DrainContinues, SteerResumes, SteerContinues, InterruptResumes, InterruptContinues, history
<1>3. CASE ForceClose \/ Chunk \/ Answered \/ Started \/ Claim \/ Completed
  BY Zenon, <1>3 DEF ForceClose, Chunk, Answered, Started, Claim, Completed, history
<1>4. CASE CallTimesOut \/ ConnectionLost BY <1>4 DEF CallTimesOut, ConnectionLost, history
<1>5. CASE ServerStep
  <2> QED BY <1>5, ServerStays DEF serverKeeps, history
<1> QED BY <1>1, <1>2, <1>3, <1>4, <1>5, Steps

LEMMA SoloStep ==
  ASSUME Typed, TurnInv, stray \/ Solo, [Next]_vars PROVE stray' \/ Solo'
<1> SUFFICES ASSUME ~stray' PROVE Solo' OBVIOUS
<1>1. Serves /\ Single /\ Down BY DEF TurnInv
<1>2. ~stray
  <2>1. CASE StartTurnContinues BY Zenon, <2>1 DEF StartTurnContinues
  <2>2. CASE ~StartTurnContinues BY <2>2, StrayStays
  <2> QED BY <2>1, <2>2
<1>3. Solo BY <1>2
<1>4. CASE Calls \/ DrainContinues \/ SteerResumes \/ SteerContinues \/ InterruptResumes \/ InterruptContinues
            \/ Chunk \/ Claim
  <2> QED BY <1>1, <1>3, <1>4, CalmCalls, CalmContinues, CalmLine, TalkSolo DEF Calm
<1>5. CASE ForceClose \/ Completed BY <1>1, <1>3, <1>5, EndsActive, TalkSolo
<1>6. CASE StartTurnContinues BY <1>1, <1>3, <1>6, StartTurnSolo
<1>7. CASE Answered BY <1>1, <1>3, <1>7, AnsweredSolo
<1>8. CASE Started BY <1>1, <1>3, <1>8, StartedSolo
<1>9. CASE CallTimesOut BY <1>3, <1>9, TimesOutSolo
<1>10. CASE ConnectionLost BY <1>10, LostSolo
<1>11. CASE ServerStep BY <1>1, <1>3, <1>11, ServerSolo
<1> QED BY <1>4, <1>5, <1>6, <1>7, <1>8, <1>9, <1>10, <1>11, Steps

LEMMA SoloInit == Init => Solo
<1> SUFFICES ASSUME Init PROVE Solo OBVIOUS
<1> QED BY NothingBefore DEF Solo, Init, Current, Turns, Idle

(* A turn is asked for when none runs, or the one that does is being stopped, *)
(* unless a turn/start was given up without knowing.                          *)
THEOREM OneTurnAtATime == Spec => []OneAtATime
<1>1. Init => stray \/ Solo BY SoloInit
<1>2. Typed /\ TurnInv /\ (stray \/ Solo) /\ [Next]_vars => (stray \/ Solo)' BY SoloStep
<1>3. Typed /\ TurnInv /\ (stray \/ Solo) => OneAtATime
  <2> SUFFICES ASSUME Typed, TurnInv, Solo, NEW c \in Elems(toSrv), c.op \in {"start", "next"}, srv.t # 0
               PROVE  srv.stopping
    BY DEF OneAtATime
  <2>5. PICK u \in Turns : u = srv.t BY ServerParts DEF Turns
  <2> QED BY <2>5, TypedParts, CallOf DEF Sequenced, Silent, Current, TurnInv, Solo, Has, Elems
<1> QED BY <1>1, <1>2, <1>3, InputTypes, TurnInvariant, PTL DEF Spec

-----------------------------------------------------------------------------

LEMMA SeeingNext == Seeing' <=> seen' \/ \E n \in Turns : n \notin ended' /\ Has(inbox', Shows(n))
<1> QED BY DEF Seeing, Turns, Turn, Shows

LEMMA DeniedNext ==
  ASSUME NEW i
  PROVE  Denied(i)' <=> Has(micro', HeardDenials(i)) \/ (Has(inbox', Denials(i)) /\ Has(wait', Starts(i)))
<1> QED BY DEF Denied, Denials, HeardDenials, Starts, Turn

(* Which of these sets a record is in.                                        *)
LEMMA DenialOf ==
  ASSUME NEW i
  PROVE  /\ \A o \in Output : o \in Denials(i) <=> o.m = "answer" /\ o.c \in Starts(i) /\ o.r = "refused"
         /\ \A x \in Continuation : x.k = "answer" => (x \in HeardDenials(i) <=> x.c \in Starts(i) /\ x.r = "refused")
         /\ \A x : x \in HeardDenials(i) => x \in StartAnswers(i)
<1>1. ASSUME NEW o \in Output PROVE o \in Denials(i) <=> o.m = "answer" /\ o.c \in Starts(i) /\ o.r = "refused"
  <2>1. CASE o \in [m : {"answer"}, c : Call, r : Answers, t : Turn] BY <2>1 DEF Denials
  <2>2. CASE o \notin [m : {"answer"}, c : Call, r : Answers, t : Turn]
    <3> QED BY <2>2 DEF Denials, Output
  <2> QED BY <2>1, <2>2
<1>2. ASSUME NEW x \in Continuation, x.k = "answer" PROVE x \in HeardDenials(i) <=> x.c \in Starts(i) /\ x.r = "refused"
  <2> QED BY <1>2 DEF HeardDenials, Continuation
<1> QED BY <1>1, <1>2 DEF HeardDenials, StartAnswers, Answers

LEMMA ShownOf ==
  ASSUME NEW o \in Output, NEW t
  PROVE  /\ o \in Shows(t) <=> o.m = "shown" /\ o.t = t
         /\ o \in Shows(t) => o \in Follows(t) /\ o \in News(t)
<1>1. CASE o \in [m : {"shown"}, t : Turn, i : Inputs \cup {Nothing}] BY Zenon, <1>1 DEF Shows, Follows, News
<1>2. CASE o \notin [m : {"shown"}, t : Turn, i : Inputs \cup {Nothing}]
  <2> QED BY <1>2 DEF Shows, Output
<1> QED BY <1>1, <1>2

LEMMA ShowsHas == ASSUME NEW s, NEW t, Has(s, Shows(t)) PROVE Has(s, Follows(t)) /\ Has(s, News(t))
<1> QED BY DEF Has, Shows, Follows, News

(* What was refused or dropped waits nowhere to be sent.                      *)
LEMMA Elsewhere ==
  ASSUME NEW i, Lone(i), Told(i), Denied(i) \/ "dropped" \in said[i] PROVE ~Open(i)
<1>1. CASE Denied(i)
  <2> QED BY <1>1, DenialOf DEF Lone, Waits, Open, Unsent, Fresh, Denied, Asked, Has
<1>2. CASE "dropped" \in said[i]
  <2> QED BY <1>2 DEF Told, Waits, Open, Unsent, Fresh
<1> QED BY <1>1, <1>2

(* A step of the session sends nothing that is not held to be sent.           *)
LEMMA LiveStays ==
  ASSUME Typed, NEW i, Hands(i), srv' = srv, LiveSteer(i)'
  PROVE  LiveSteer(i) \/ (Fresh(i) /\ InSteers(i)')
<1>1. CASE toSrv' = toSrv BY <1>1, CallSets DEF LiveSteer
<1>2. CASE \E c \in Call : Asks(c) /\ (c \in Starts(i) => Open(i)) /\ (c \in Steers(i) => Fresh(i) /\ InSteers(i)')
  <2>1. PICK c \in Call : Asks(c) /\ (c \in Steers(i) => Fresh(i) /\ InSteers(i)') BY <1>2
  <2> QED BY <2>1, TypedParts, Adding, SteerOf, CallSets DEF LiveSteer, Adds, Asks
<1> QED BY <1>1, <1>2 DEF Hands

LEMMA OutStays ==
  ASSUME Typed, NEW i, Hands(i), ~Open(i), srv' = srv, ran' = ran, Out(i) PROVE Out(i)'
<1>2. ~Has(toSrv', Starts(i))
  <2>1. CASE toSrv' = toSrv BY <2>1 DEF Out
  <2>2. CASE \E c \in Call : Asks(c) /\ (c \in Starts(i) => Open(i)) /\ (c \in Steers(i) => Fresh(i) /\ InSteers(i)')
    <3>1. PICK c \in Call : Asks(c) /\ (c \in Starts(i) => Open(i)) BY <2>2
    <3> QED BY <3>1, TypedParts, Adding DEF Adds, Out, Asks
  <2> QED BY <2>1, <2>2 DEF Hands
<1> QED BY <1>2, LiveStays, CallSets DEF Out, Untaken, Open, Unsent

(* A step of the session that does no more than this keeps the fate of i.     *)
LEMMA SessionFate ==
  ASSUME Typed, NEW i, Chance(i), Lone(i), Lone(i)', Told(i), Fate(i), Hands(i), srv' = srv, ran' = ran,
         i \in started' => i \in started \/ Open(i),
         i \in started /\ i \in started' /\ srv.first = i /\ srv.t \notin ended => srv.t \notin ended',
         i \in started /\ i \in started' /\ Seeing => Seeing',
         Denied(i)' => Denied(i),
         "dropped" \in said'[i] => "dropped" \in said[i] \/ Out(i)'
  PROVE  Fate(i)'
<1> QED BY Elsewhere, OutStays, LiveStays DEF Fate, Open, Chance, Untaken, Lone, Waits

-----------------------------------------------------------------------------
(* ... when the session calls the server, or a turn goes on,                  *)
LEMMA SayDrops ==
  ASSUME Typed, NEW i \in Inputs, NEW is, NEW w, said' = Say(is, w), "dropped" \in said'[i]
  PROVE  "dropped" \in said[i] \/ (i \in is /\ w = "dropped")
BY DEF Say

(* Draining starts what was to be sent.                                       *)
LEMMA QueueStarts ==
  ASSUME Typed, NEW i \in Inputs, Lone(i), NEW act, NEW busy, NEW kept, Drain(queue, act, busy, kept), i \in started'
  PROVE  i \in kept \/ Open(i)
<1> QED BY TypedParts, DrainMoves DEF Open, Unsent, InQueue, Lone

LEMMA AddsStarts ==
  ASSUME Typed, NEW i \in Inputs, Lone(i), NEW j \in Inputs, i = j => Fresh(i),
         NEW act, NEW busy, NEW kept, Drain(Append(queue, [id |-> j, urgent |-> FALSE]), act, busy, kept), i \in started'
  PROVE  i \in kept \/ Open(i)
<1>1. PICK q : q = Append(queue, [id |-> j, urgent |-> FALSE]) BY Zenon
<1>2. i = j => ~InQueue(i) BY DEF Lone, Waits, Fresh
<1>5. i \in kept \/ Has(q, Entries(i)) BY <1>1, <1>2, TypedParts, QueuedOnce, DrainMoves DEF Lone
<1> QED BY <1>1, <1>2, <1>5, QueuedOnce DEF Open, Unsent, Lone

LEMMA StartsIn == ASSUME NEW i \in Inputs PROVE Starts(i) \subseteq AnyStart /\ Denials(i) \subseteq Refusals
<1> QED BY DEF Denials, Refusals, Starts, AnyStart

(* No refusal of a turn that was given up reaches one that is asked for.      *)
LEMMA TalkDenied ==
  ASSUME Typed, Talks, Solo, NEW i \in Inputs, Denied(i)' PROVE Denied(i)
<1>3. Has(inbox, Denials(i)) => starting
  <2> QED BY StartsIn, StartHas DEF Solo, Has
<1>4. CASE AsksNothing BY <1>4, DeniedNext DEF AsksNothing, Denied, Talks, Shorter
<1>5. CASE AsksStart
  <2> QED BY <1>3, <1>5, DeniedNext DEF Denied, Talks, Shorter, AsksStart
<1>6. CASE AsksInto
  <2>1. PICK t \in Turns : \E c \in Into(t) : Asks(c) /\ c \in Call BY <1>6 DEF AsksInto
  <2>2. PICK c \in Into(t) : Asks(c) /\ c \in Call BY <2>1
  <2>3. c \notin Starts(i) BY <2>2, CallOf, StartsIn
  <2> QED BY <2>3, <2>2, TypedParts, Adding, DeniedNext DEF Adds, Denied, Talks, Shorter, Asks
<1> QED BY <1>4, <1>5, <1>6 DEF Talks

LEMMA SeeingStays == ASSUME Seeing, seen' = seen, ended' = ended, inbox' = inbox PROVE Seeing'
BY SeeingNext DEF Seeing

(* Nothing that is queued was taken.                                          *)
LEMMA QueuedOut == ASSUME NEW i, Chance(i), Unsent(i), srv' = srv, ran' = ran, toSrv' = toSrv PROVE Out(i)'
<1> QED BY CallSets DEF Out, Untaken, Chance, LiveSteer

LEMMA CallsFate ==
  ASSUME Typed, Solo, NEW i \in Inputs, Chance(i), Lone(i), Lone(i)', Told(i), Fate(i), Calls PROVE Fate(i)'
<1>1. ran' = ran /\ inbox' = inbox /\ seen' = seen
  <2>1. CASE \E j \in Inputs : Submit(j) \/ EnqueueFollowup(j) \/ Remove(j)
    BY <2>1 DEF Submit, EnqueueFollowup, Remove, server, link, turn
  <2>2. CASE \E cs \in {"user", "interrupt"} : Cancel(cs) BY <2>2 DEF Cancel, server, turn
  <2>3. CASE InterruptTurn \/ ConnectionRestored \/ PermanentLoss \/ UNCHANGED vars
    BY <2>3 DEF InterruptTurn, ConnectionRestored, PermanentLoss, vars, server, link, turn
  <2> QED BY <2>1, <2>2, <2>3 DEF Calls
<1>2. Talks /\ srv' = srv /\ ended' = ended BY CalmCalls DEF Calm, Talks
<1>4. i \in started' => i \in started \/ Open(i)
  <2>1. CASE \E j \in Inputs : Submit(j)
    <3>1. PICK j \in Inputs : Submit(j) BY <2>1
    <3> QED
      BY <3>1 DEF Open, Unsent, Fresh, Submit, SubmitIdle, SubmitQueued, SubmitSteer, SubmitNow,
         SubmitRefused
  <2>2. CASE \E j \in Inputs : EnqueueFollowup(j)
    <3>1. PICK j \in Inputs : EnqueueFollowup(j) BY <2>2
    <3> QED BY <3>1, AddsStarts DEF Fresh, EnqueueFollowup
  <2>3. CASE ConnectionRestored BY <2>3, QueueStarts DEF ConnectionRestored
  <2>4. CASE \E j \in Inputs : Remove(j) BY <2>4 DEF Remove
  <2>5. CASE \E cs \in {"user", "interrupt"} : Cancel(cs) BY <2>5 DEF Cancel
  <2>6. CASE InterruptTurn \/ PermanentLoss \/ UNCHANGED vars BY <2>6 DEF InterruptTurn, PermanentLoss, vars
  <2> QED BY <2>1, <2>2, <2>3, <2>4, <2>5, <2>6 DEF Calls
<1>5. "dropped" \in said'[i] => "dropped" \in said[i] \/ Out(i)'
  <2>1. CASE \E is : \E w \in {"refused", "removed", "discarded"} : said' = Say(is, w)
    <3>1. PICK is, w : w \in {"refused", "removed", "discarded"} /\ said' = Say(is, w) BY <2>1
    <3> QED BY <3>1, SayDrops
  <2>2. CASE said' = said BY <2>2
  <2>3. CASE PermanentLoss
    <3> QED BY <1>1, <1>2, <2>3, QueuedIs, SayDrops, QueuedOut DEF Unsent, PermanentLoss, link
  <2>4. CASE \E j \in Inputs : Submit(j) \/ EnqueueFollowup(j) \/ Remove(j)
    <3>1. PICK j \in Inputs : Submit(j) \/ EnqueueFollowup(j) \/ Remove(j) BY <2>4
    <3> QED BY <2>1, <2>2, <3>1 DEF Submit, EnqueueFollowup, Remove
  <2>5. CASE \E cs \in {"user", "interrupt"} : Cancel(cs)
    <3> QED BY <2>1, <2>2, <2>5 DEF Cancel, Discards
  <2>6. CASE InterruptTurn \/ ConnectionRestored \/ UNCHANGED vars
    BY <2>2, <2>6 DEF InterruptTurn, ConnectionRestored, vars, history
  <2> QED BY <2>3, <2>4, <2>5, <2>6 DEF Calls
<1> QED BY <1>1, <1>2, <1>4, <1>5, CallsHands, SeeingStays, TalkDenied, SessionFate

LEMMA ContinuesFate ==
  ASSUME Typed, Solo, NEW i \in Inputs \ fell', Chance(i), Lone(i), Lone(i)', Told(i), Fate(i),
         DrainContinues \/ SteerResumes \/ SteerContinues \/ InterruptResumes \/ InterruptContinues
  PROVE  Fate(i)'
<1>4. micro # <<>>
  BY DEF DrainContinues, SteerResumes, SteerContinues, InterruptResumes, InterruptContinues
<1>5. PICK x : x = Head(micro) OBVIOUS
<1>7. i \in started' => i \in started \/ Open(i)
  <2>1. CASE DrainContinues BY <2>1, QueueStarts DEF DrainContinues
  <2>2. CASE SteerResumes
    <3>3. CASE x.t = 0
      <4> QED
        BY <1>5, <1>4, <2>2, <3>3, TypedParts, ContinuationFacts, TakenFacts, AddsStarts DEF Fresh,
           SteerResumes
    <3>4. CASE x.t # 0 BY <1>5, <2>2, <3>4 DEF SteerResumes
    <3> QED BY <3>3, <3>4
  <2>3. CASE SteerContinues
    <3>1. PICK j : j = x.c.i OBVIOUS
    <3>3. CASE x.r # "ok"
      <4> QED
        BY <1>5, <1>4, <2>3, <3>1, <3>3, TypedParts, ContinuationFacts, CallFacts, AddsStarts DEF
           SteerFalls, SteerContinues
    <3>4. CASE x.r = "ok" BY <1>5, <2>3, <3>4 DEF SteerContinues
    <3> QED BY <3>3, <3>4
  <2>4. CASE InterruptResumes \/ InterruptContinues BY <2>4 DEF InterruptResumes, InterruptContinues
  <2> QED BY <2>1, <2>2, <2>3, <2>4
<1>8. "dropped" \in said'[i] => "dropped" \in said[i]
  <2>1. CASE SteerContinues
    <3>1. said' = said \/ \E j : said' = Say({j}, "refused") BY Zenon, <2>1 DEF SteerContinues, SteerFalls
    <3> QED BY Zenon, <3>1, SayDrops
  <2>2. CASE ~SteerContinues BY <2>2 DEF DrainContinues, SteerResumes, InterruptResumes, InterruptContinues, history
  <2> QED BY <2>1, <2>2
<1> QED
  BY <1>7, <1>8, ContinuesHands, CalmContinues, SeeingStays, TalkDenied, SessionFate DEF
     DrainContinues, SteerResumes, SteerContinues, InterruptResumes, InterruptContinues, server,
     link, turn, Calm, Talks

-----------------------------------------------------------------------------
(* ... when an answer or a line is read, or calls are lost,                   *)
LEMMA DenialStarts == ASSUME NEW i \in Inputs PROVE HeardDenials(i) \subseteq AnyStarted
<1> QED BY DEF HeardDenials, AnyStarted, Answers, Starts, AnyStart

(* The refusal of a queued start that is reported dropped is one of its own.  *)
LEMMA StartTurnFate ==
  ASSUME Typed, Single, NEW i \in Inputs, Chance(i), Lone(i), Lone(i)', Told(i), Fate(i), StartTurnContinues
  PROVE  Fate(i)'
<1>1. /\ UNCHANGED <<queue, steered, new, toSrv, inbox, wait, srv, ran, seen, ended>> /\ waiting' = <<>>
      /\ started' \subseteq started
  BY DEF StartTurnContinues, link, server
<1>2. PICK x \in AnyStarted :
        /\ x = Head(micro) /\ Has(micro, {x}) /\ x \in Continuation
        /\ Once(micro, AnyStarted) => ~Has(micro', AnyStarted)
        /\ \A j \in Inputs : Resumes(j)' => Resumes(j) \/ Joins(j)
  BY StartTaken
<1>5. Hands(i) BY <1>1, <1>2, NothingBefore DEF Hands, Fresh, Open, Unsent, InQueue, InSteers, Joins
<1>6. Denied(i)' => Denied(i)
  <2> QED BY <1>1, <1>2, DenialStarts, DeniedNext DEF Denied, Single, Has
<1>7. "dropped" \in said'[i] => "dropped" \in said[i] \/ Out(i)'
  <2> SUFFICES ASSUME "dropped" \in said'[i], "dropped" \notin said[i] PROVE Out(i)' OBVIOUS
  <2>1. PICK w : said' = Say({x.c.i}, w) /\ (w = "dropped" => x.r = "refused")
    <3> QED BY <1>2 DEF StartTurnContinues
  <2>3. x.k = "answer" /\ x.c \in Starts(i)
    <3> QED BY <2>1, SayDrops DEF AnyStart, Starts, AnyStarted
  <2>5. Denied(i) BY <1>2, <2>1, <2>3, SayDrops, DenialOf DEF Denied, Has
  <2> QED BY <1>1, <1>5, <2>5, Elsewhere, OutStays DEF Fate
<1> QED BY <1>1, <1>5, <1>6, <1>7, SeeingStays, SessionFate

(* An answer becomes a continuation; no line of a turn is taken.              *)
LEMMA AnsweredFate ==
  ASSUME Typed, NEW i \in Inputs, Chance(i), Lone(i), Lone(i)', Told(i), Fate(i), Answered PROVE Fate(i)'
<1>2. PICK a \in Output :
           /\ a.m = "answer" /\ Cuts(inbox, inbox', a) /\ Thins(wait, wait')
           /\ \/ wait' = wait /\ micro' = micro
              \/ \E x \in Continuation :
                   /\ Adds(micro, micro', x) /\ Has(wait, {a.c})
                   /\ x.k = "answer" /\ x.c = a.c /\ x.r = a.r /\ x.t = a.t
  BY AnswerTaken
<1>4. (Resumes(i)' => Resumes(i)) /\ (Denied(i)' => Denied(i))
  <2>1. CASE wait' = wait /\ micro' = micro
    BY <1>2, <2>1, DeniedNext DEF Resumes, Denied, Cuts, Resumed, Turn
  <2>2. CASE \E x \in Continuation :
               /\ Adds(micro, micro', x) /\ Has(wait, {a.c})
               /\ x.k = "answer" /\ x.c = a.c /\ x.r = a.r /\ x.t = a.t
    <3>1. PICK x \in Continuation :
            /\ Adds(micro, micro', x) /\ Has(wait, {a.c})
            /\ x.k = "answer" /\ x.c = a.c /\ x.r = a.r /\ x.t = a.t
      BY <2>2
    <3>5. Denied(i)' => Denied(i)
      BY <1>2, <3>1, DenialOf, DeniedNext DEF Denied, Adds, Cuts, Thins, Has
    <3> QED
      BY <3>1, <3>5, AnswerOf DEF Resumes, Adds, Resumed, Turn, Answered, turn, server, history
  <2> QED BY <1>2, <2>1, <2>2
<1>7. Seeing => Seeing'
  <2> QED BY <1>2, SeeingNext DEF Seeing, Cuts, Shows, Answered, turn, server, history
<1> QED BY <1>4, <1>7, StayHands, SessionFate DEF InSteers, Answered, turn, server, history

LEMMA QuietLineFate ==
  ASSUME Typed, NEW i \in Inputs, Chance(i), Lone(i), Lone(i)', Told(i), Fate(i), Chunk \/ CallTimesOut PROVE Fate(i)'
<1>1. UNCHANGED <<queue, steered, waiting, toSrv, new, srv, ran, seen, ended, started, said, inbox>>
  BY DEF Chunk, CallTimesOut, turn, server, history, link
<1>3. (Resumes(i)' => Resumes(i)) /\ (Denied(i)' => Denied(i))
  <2>1. CASE Chunk BY <1>1, <2>1, DeniedNext DEF Chunk, Resumes, Denied, Resumed, Turn
  <2>2. CASE CallTimesOut
    <3>1. PICK c \in Elems(wait) : micro' = <<[k |-> "answer", c |-> c, r |-> "lost", t |-> 0]>>
      BY <2>2 DEF CallTimesOut
    <3> QED
      BY <1>1, <3>1, <2>2, TimesOut, DeniedNext DEF Resumes, Denied, Thins, Resumed, Turn, Has,
         HeardDenials
  <2> QED BY <2>1, <2>2
<1> QED BY <1>1, <1>3, StayHands, SeeingStays, SessionFate DEF InSteers

LEMMA TakenDenied ==
  ASSUME NEW i \in Inputs, Shorter(inbox, inbox'), wait' = wait, micro' = micro, Denied(i)' PROVE Denied(i)
BY DeniedNext DEF Denied, Shorter

LEMMA BeginsFate ==
  ASSUME Typed, NEW i \in Inputs, Chance(i), Lone(i), Lone(i)', Told(i), Fate(i), Started PROVE Fate(i)'
<1>2. PICK a \in Output : a.m = "started" /\ Cuts(inbox, inbox', a) /\ Shorter(inbox, inbox')
  BY LineTaken DEF Started
<1>5. Seeing => Seeing'
  <2> QED BY <1>2, SeeingNext DEF Seeing, Cuts, Shows, Started, server, history
<1> QED
  BY <1>2, <1>5, StayHands, TakenDenied, SessionFate DEF Started, server, history, Resumes, InSteers

LEMMA ClaimFate ==
  ASSUME Typed, Down, NEW i \in Inputs, Chance(i), Lone(i), Lone(i)', Told(i), Fate(i), Claim PROVE Fate(i)'
<1>3. PICK a : a = Head(inbox) OBVIOUS
<1>8. Hands(i)
  BY <1>3, InputAssumption, SteeredWithout, StayHands DEF Resumes, Claim, server, InSteers, Claims,
     Line, Down
<1> QED
  BY <1>3, <1>8, LineTaken, InputAssumption, SeeingNext, SayDrops, TakenDenied, SessionFate DEF
     Claim, Claims, Line, Down, server

LEMMA LostFate ==
  ASSUME Typed, NEW i \in Inputs, Chance(i), Fate(i), ConnectionLost PROVE Fate(i)'
<1>1. ran' = ran /\ started' = {} /\ (\E is : said' = Say(is, "discarded")) BY DEF ConnectionLost
<1>3. ~Has(micro', HeardDenials(i))
  <2> QED BY DEF Has, HeardDenials, ConnectionLost
<1>6. Out(i) => Out(i)'
  <2> QED
    BY <1>1, LostTakes, NothingBefore, InputAssumption, CallSets DEF Out, Untaken, Idle, LiveSteer
<1> QED BY <1>1, <1>3, <1>6, LostTakes, DeniedNext, NothingBefore, SayDrops DEF Fate

-----------------------------------------------------------------------------
(* ... when a turn ends, or the session is closed,                            *)
(* The end of a turn reports dropped only what it was started with, and only  *)
(* if the session saw no input of it ...                                      *)
LEMMA OverDrops ==
  ASSUME Typed, NEW i \in Inputs, NEW b, TurnOver(b), "dropped" \in said'[i], "dropped" \notin said[i]
  PROVE  i \in started /\ ~seen
<1>1. PICK cz : said' = [j \in Inputs |-> IF j \in Steered THEN Say(started, StartedFate(cz))[j] \cup SteeredFate(cz, b)
                                          ELSE Say(started, StartedFate(cz))[j]]
  BY Zenon DEF TurnOver
<1>2. PICK w : w = StartedFate(cz) OBVIOUS
<1> QED BY <1>2, <1>1 DEF StartedFate, Say, SteeredFate

(* ... and then the turn took none: there is no other it could be part of.    *)
LEMMA OverOut ==
  ASSUME Typed, Solo, Serves, NEW i \in Inputs, Chance(i), Fate(i), i \in started, ~seen,
         NEW t \in Turns, active = t, ~Has(inbox, Shows(t)), srv.t # t \/ srv.stopping
  PROVE  Out(i)
<1>2. ran[i] = 0
  <2> SUFFICES ASSUME ran[i] # 0 PROVE FALSE OBVIOUS
  <2>1. PICK n \in Turns : n \notin ended /\ Has(inbox, Shows(n)) BY DEF Fate, Seeing
  <2> QED BY <2>1, ShowsHas DEF Solo, Turns, Current
<1>3. ~Has(toSrv, Starts(i))
  <2> QED BY StartsIn DEF Solo, Turns, Has
<1>4. srv.first = i => srv.stopping
  <2> SUFFICES ASSUME srv.first = i PROVE srv.stopping OBVIOUS
  <2>2. PICK u \in Turns : u = srv.t BY InputAssumption, ServerParts DEF Turns, Serves, Idle
  <2> QED BY <2>2 DEF Solo, Turns, Fate, Current
<1> QED BY <1>2, <1>3, <1>4 DEF Out, Untaken, Fate

LEMMA OverFate ==
  ASSUME Typed, Solo, Serves, NEW i \in Inputs, Chance(i), Lone(i), Lone(i)', Told(i), Fate(i),
         NEW t \in Turns, active = t, ~Has(inbox, Shows(t)), srv.t # t \/ srv.stopping,
         NEW b \in BOOLEAN, TurnOver(b), b /\ InSteers(i) => Untaken(i),
         UNCHANGED <<waiting, micro, new, srv, ran>>, Denied(i)' => Denied(i)
  PROVE  Fate(i)'
<1>3. i \in started => ~Open(i) BY DEF Lone, Waits, Open, Unsent, Fresh
<1>4. "dropped" \in said'[i] => "dropped" \in said[i] \/ Out(i)'
  <2> SUFFICES ASSUME "dropped" \in said'[i], "dropped" \notin said[i] PROVE Out(i)' OBVIOUS
  <2> QED BY <1>3, OverDrops, OverOut, OverHands, OutStays
<1> QED BY <1>3, <1>4, OverHands, SessionFate

LEMMA ForceCloseFate ==
  ASSUME Typed, Solo, Serves, \A t \in Turns : Sequenced(t), NEW i \in Inputs,
         Chance(i), Lone(i), Lone(i)', Told(i), Fate(i), ForceClose
  PROVE  Fate(i)'
<1>2. Denied(i)' => Denied(i) BY TalkForceClose, TalkDenied
<1>3. CASE active # force
  <2> QED
    BY <1>2, <1>3, StayHands, SeeingStays, SessionFate DEF ForceClose, SendsNothing, InSteers,
       Resumes, server
<1>4. CASE active = force
  <2>2. PICK t \in Turns : t = force /\ active = t BY <1>4, TypedParts DEF Turns, ForceClose, server
  <2> QED
    BY <1>2, <1>4, <2>2, ShowsHas, ForceCloseOver, OverFate DEF Sequenced, Silent, ForceClose,
       server
<1> QED BY <1>3, <1>4

LEMMA CompletedFate ==
  ASSUME Typed, Solo, Serves, Down, \A t \in Turns : Sequenced(t), NEW i \in Inputs,
         Chance(i), Lone(i), Lone(i)', Told(i), Fate(i), Completed
  PROVE  Fate(i)'
<1>1. UNCHANGED <<waiting, micro, new, srv, ran>> BY DEF Completed, server
<1>3. PICK a : a = Head(inbox) OBVIOUS
<1>4. a \in Output /\ a.m = "completed" /\ Cuts(inbox, inbox', a)
  BY <1>3, LineTaken DEF Completed
<1>5. PICK t : t = a.t OBVIOUS
<1>6. t \in Turn /\ a \in Ends(t) /\ a \in Follows(t) /\ Has(inbox, Ends(t)) /\ Has(inbox, Follows(t)) /\ a.interrupted \in BOOLEAN
  BY <1>4, <1>5, OutputOf, OutputFacts DEF Cuts
<1>7. t \in Turns
  <2> QED BY <1>6 DEF Turns, Serves
<1>9. srv.t # t BY <1>6, <1>7 DEF Sequenced, Emitted, Turns, Turn
<1>11. ~Has(inbox, Shows(t))
  <2>2. t <= t BY <1>7 DEF Turns, Turn
  <2> QED BY <1>4, <1>7, <1>6, <2>2, Including, ShowsHas DEF Cuts, Sequenced, Ordered, Shows
<1>12. Denied(i)' => Denied(i) BY TalkCompleted, TalkDenied
<1>13. CASE t \in ended \/ (active # 0 /\ active # t)
  <2>1. UNCHANGED <<queue, started, steered, seen, said, toSrv>> /\ ended' = ended \cup {t}
    BY <1>3, <1>5, <1>13, InputAssumption DEF Completed, SendsNothing, Line, Down
  <2>4. Seeing => Seeing'
    <3> QED BY <2>1, <1>4, <1>11, SeeingNext DEF Seeing, Cuts, Shows
  <2> QED BY <1>1, <1>9, <1>12, <2>1, <2>4, StayHands, SessionFate DEF InSteers, Resumes
<1>14. CASE ~(t \in ended \/ (active # 0 /\ active # t))
  <2>2. TurnOver(a.interrupted) /\ (a.interrupted /\ InSteers(i) => Untaken(i))
    BY <1>3, <1>5, <1>14, CompletedOver
  <2>5. active = t BY <1>6, <1>7, <1>14, <1>4, OutputOf DEF Sequenced, Announced, Cuts, Ordered
  <2> QED BY <1>1, <1>6, <1>7, <1>9, <1>11, <1>12, <2>2, <2>5, OverFate
<1> QED BY <1>13, <1>14

(* What the session does leaves what was refused or dropped out of every turn. *)
LEMMA SessionKeepsFate ==
  ASSUME Typed, TurnInv, Solo, NEW i \in Inputs \ fell', Chance(i), Lone(i), Lone(i)', Told(i), Fate(i),
         [Next]_vars, ~ServerStep
  PROVE  Fate(i)'
<1>1. Serves /\ Single /\ Down /\ \A t \in Turns : Sequenced(t) BY DEF TurnInv
<1>2. CASE Calls BY <1>2, CallsFate
<1>3. CASE DrainContinues \/ SteerResumes \/ SteerContinues \/ InterruptResumes \/ InterruptContinues
  BY <1>3, ContinuesFate
<1>4. CASE StartTurnContinues BY <1>1, <1>4, StartTurnFate
<1>5. CASE Chunk \/ CallTimesOut BY <1>5, QuietLineFate
<1>6. CASE Answered BY <1>6, AnsweredFate
<1>7. CASE Started BY <1>7, BeginsFate
<1>8. CASE Claim BY <1>1, <1>8, ClaimFate
<1>9. CASE Completed BY <1>1, <1>9, CompletedFate
<1>10. CASE ForceClose BY <1>1, <1>10, ForceCloseFate
<1>11. CASE ConnectionLost BY <1>11, LostFate
<1> QED BY <1>2, <1>3, <1>4, <1>5, <1>6, <1>7, <1>8, <1>9, <1>10, <1>11, Steps

-----------------------------------------------------------------------------
(* ... when the server takes a call, or tells of its turn.                    *)
(* The server moves: what a step must not do to what was started, refused or  *)
(* dropped.                                                                   *)
LEMMA ServerFate ==
  ASSUME NEW i \in Inputs, Fate(i), Quiet, serverKeeps' = serverKeeps,
         \A H : Has(inbox, H) => Has(inbox', H), \A H : Has(toSrv', H) => Has(toSrv, H),
         i \in started \/ Out(i) => i \notin srv'.pend /\ ~LiveSteer(i)',
         i \in started /\ srv'.first = i => srv'.t \notin ended,
         Out(i) => (srv'.first = i => srv'.stopping) /\ ran'[i] = ran[i],
         i \in started /\ ran'[i] # 0 => ran[i] # 0 \/ Seeing',
         Denied(i)' => Denied(i) \/ Out(i)'
  PROVE  Fate(i)'
<1>4. Out(i) => Out(i)'
  <2> QED BY CallSets DEF Out, Untaken
<1> QED BY <1>4, Unmoved, SeeingNext DEF Fate, Seeing, serverKeeps, history

(* The turn stays, and takes nothing of i.                                    *)
LEMMA StaysFate ==
  ASSUME NEW i \in Inputs, Fate(i), Quiet, serverKeeps' = serverKeeps,
         \A H : Has(inbox, H) => Has(inbox', H), toSrv' = toSrv \/ \E c : Cuts(toSrv, toSrv', c),
         srv'.t = srv.t, srv'.first = srv.first, i \in srv'.pend => i \in srv.pend, srv.stopping => srv'.stopping,
         Out(i) => ran'[i] = ran[i],
         i \in started /\ ran'[i] # 0 => ran[i] # 0 \/ Seeing',
         Denied(i)' => Denied(i) \/ Out(i)'
  PROVE  Fate(i)'
<1>2. LiveSteer(i)' => LiveSteer(i)
  <2> QED BY CallSets DEF LiveSteer, Cuts
<1> QED BY <1>2, ServerFate DEF Out, Fate, Untaken, Cuts

LEMMA OpensFate ==
  ASSUME Typed, Serves, \A t \in Turns : Sequenced(t), NEW i \in Inputs, Chance(i), Fate(i), Quiet, serverKeeps' = serverKeeps,
         NEW c \in Call, c \in AnyStart, c = Head(toSrv), Cuts(toSrv, toSrv', c), ran' = ran,
         NEW a \in Output, a.m = "answer", a.c = c, a.t \in {0, turns + 1}, a.r # "refused", Opens(a)
  PROVE  Fate(i)'
<1>1. PICK n : n = turns + 1 OBVIOUS
<1>2. PICK o \in Output :
        /\ n \in Turns /\ srv'.t = n /\ srv'.first = c.i /\ srv'.pend = {} /\ o \in Begins(n) /\ Gains(inbox, inbox', a, o)
  BY Zenon, <1>1, OpensFacts
<1>4. ~LiveSteer(i)' /\ n \notin ended BY <1>1, <1>2, OpensUnsteered
<1>7. Denied(i)' => Denied(i)
  <2> QED BY <1>2, OutputOf, Unmoved, DeniedNext DEF Denied, Gains, Denials
<1> QED BY <1>4, <1>2, <1>7, CallOf, StartOf, ServerFate DEF Gains, Cuts, Out

(* A refusal is of what no turn took.                                         *)
LEMMA RefusesFate ==
  ASSUME Typed, NEW i \in Inputs, Chance(i), Fate(i), Quiet, serverKeeps' = serverKeeps, srv' = srv, ran' = ran,
         NEW c \in Call, Cuts(toSrv, toSrv', c),
         NEW a \in Output, a.m = "answer", a.c = c, Adds(inbox, inbox', a)
  PROVE  Fate(i)'
<1>3. Denied(i)' => Denied(i) \/ Out(i)'
  <2>1. CASE a \notin Denials(i) BY <2>1, Unmoved, DeniedNext DEF Denied, Adds
  <2>2. CASE a \in Denials(i)
    <3> QED BY <2>2, DenialOf, CallSets DEF Out, Untaken, Chance, Cuts, LiveSteer
  <2> QED BY <2>1, <2>2
<1> QED BY <1>3, StaysFate DEF Adds

(* The turn shows what it takes: its first input is in it while the session   *)
(* will still see the line.                                                   *)
LEMMA ShowsFate ==
  ASSUME Typed, NEW i \in Inputs, Fate(i), ServerShows PROVE Fate(i)'
<1>1. Quiet /\ serverKeeps' = serverKeeps /\ toSrv' = toSrv /\ srv.t # 0 /\ ~srv.stopping
  BY DEF ServerShows, serverLeaves
<1>3. PICK u \in Turns : u = srv.t BY <1>1, ServerParts DEF Turns
<1>4. PICK x \in Inputs \cup {Nothing} : inbox' = Append(inbox, [m |-> "shown", t |-> srv.t, i |-> x])
  BY Zenon, ServerParts DEF ServerShows
<1>5. PICK a : a = [m |-> "shown", t |-> srv.t, i |-> x] BY Zenon
<1>6. a \in Output /\ a.m = "shown" BY <1>5, ServerParts, NewOutputs
<1>7. Adds(inbox, inbox', a) BY <1>4, <1>5, <1>6, ServerParts, Adding
<1>8. Has(inbox', Shows(u))
  <2> QED BY <1>7, <1>3, <1>5, <1>6, ShownOf DEF Adds
<1>9. Denied(i)' => Denied(i)
  <2> QED BY <1>7, <1>6, <1>1, Unmoved, DeniedNext DEF Denied, Adds, Denials
<1>10. PICK j : /\ srv'.t = srv.t /\ srv'.first = srv.first /\ srv'.stopping = srv.stopping /\ srv'.pend \subseteq srv.pend
                /\ ran' = Ran({j}) /\ (j = srv.first \/ j \in srv.pend)
  BY Zenon, ServerParts DEF ServerShows
<1>13. i \in started /\ ran'[i] # 0 => ran[i] # 0 \/ Seeing'
  <2> SUFFICES ASSUME i \in started, ran'[i] # 0, ran[i] = 0 PROVE Seeing' OBVIOUS
  <2> QED BY <1>3, <1>8, <1>10, <1>1, RanOf, Unmoved, SeeingNext DEF Fate
<1> QED BY <1>1, <1>9, <1>10, <1>13, <1>7, RanOf, StaysFate DEF Adds, Out, Untaken

(* A turn that ends records steers only.                                      *)
LEMMA CompletesFate ==
  ASSUME Typed, NEW i \in Inputs, Fate(i), ServerCompletes PROVE Fate(i)'
<1>3. PICK a : a = [m |-> "completed", t |-> srv.t, interrupted |-> srv.stopping] BY Zenon
<1>9. Denied(i)' => Denied(i)
  <2> QED
    BY <1>3, ServerParts, NewOutputs, Adding, Unmoved, DeniedNext DEF Denied, Adds, Denials,
       ServerCompletes, serverLeaves
<1> QED
  BY <1>9, <1>3, ServerParts, NewOutputs, Adding, RanOf, InputAssumption, ServerFate DEF LiveSteer,
     Idle, Out, Untaken, Fate, Adds, ServerCompletes, serverLeaves

-----------------------------------------------------------------------------
(* Every step, and what was dropped.                                          *)
(* Every step of the server leaves what was refused or dropped out of every   *)
(* turn.                                                                      *)
LEMMA ServerKeepsFate ==
  ASSUME Typed, Serves, \A t \in Turns : Sequenced(t), NEW i \in Inputs, Chance(i), Fate(i), ServerStep
  PROVE  Fate(i)'
<1>1. Quiet /\ serverKeeps' = serverKeeps BY ServerStays
<1>2. PICK c : c = Head(toSrv) OBVIOUS
<1>4. ASSUME NEW a \in Output, inbox' = Append(inbox, a) PROVE Adds(inbox, inbox', a)
  BY <1>4, ServerParts, Adding DEF Turn
<1>5. CASE ServerRefuses \/ (ServerErrs /\ ~Opens(Answer(c, "error", 0)))
  <2>1. c \in Call /\ Cuts(toSrv, toSrv', c)
    BY <1>2, <1>5, RequestTaken DEF ServerRefuses, ServerErrs
  <2>2. PICK r \in {"refused", "error"} : inbox' = Append(inbox, Answer(c, r, 0)) /\ srv' = srv /\ ran' = ran
    BY <1>2, <1>5 DEF ServerRefuses, ServerErrs
  <2>3. PICK a : a = Answer(c, r, 0) OBVIOUS
  <2> QED BY <1>1, <2>1, <2>2, <2>3, <1>4, NewOutputs, ZeroIsTurn, RefusesFate DEF Answers, Answer
<1>6. CASE ServerStarts \/ (ServerErrs /\ Opens(Answer(c, "error", 0)))
  <2>1. c \in Call /\ Cuts(toSrv, toSrv', c) /\ c.op \in {"start", "next"}
    BY <1>2, <1>6, RequestTaken DEF ServerStarts, ServerErrs
  <2>3. PICK a : (a = Answer(c, "ok", turns + 1) \/ a = Answer(c, "error", 0)) /\ Opens(a) /\ ran' = ran
    BY <1>2, <1>6 DEF ServerStarts, ServerErrs
  <2>4. turns + 1 \in Turn
    <3>1. turns < MaxTurns BY <2>3 DEF Opens
    <3> QED BY <3>1, ServerParts, InputAssumption DEF Turn
  <2> QED
    BY <1>1, <1>2, <2>1, <2>3, <2>4, CallOf, NewOutputs, ZeroIsTurn, OpensFate DEF Answers, Answer
<1>7. CASE ServerSteers \/ ServerInterrupts
  <2>1. c \in Call /\ Cuts(toSrv, toSrv', c) /\ srv.t = c.t
    BY <1>2, <1>7, RequestTaken DEF ServerSteers, ServerInterrupts
  <2>2. PICK a : a = Answer(c, "ok", 0) OBVIOUS
  <2>4. inbox' = Append(inbox, a) /\ ran' = ran BY <1>2, <1>7, <2>2 DEF ServerSteers, ServerInterrupts
  <2>5. Adds(inbox, inbox', a) BY <1>4, <2>1, <2>2, <2>4, NewOutputs, ZeroIsTurn DEF Answers, Answer
  <2>6. Denied(i)' => Denied(i)
    <3> QED
      BY <2>5, <2>1, <2>2, <1>1, NewOutputs, ZeroIsTurn, Unmoved, DeniedNext DEF Denied, Adds,
         Denials, Answers, Answer
  <2>8. CASE ServerSteers
    <3>1. srv' = [srv EXCEPT !.pend = @ \cup {c.i}] /\ ~srv.stopping /\ c.op = "steer"
      BY <1>2, <2>8, RequestTaken DEF ServerSteers
    <3>3. CASE c.i # i BY <1>1, <2>1, <2>4, <2>6, <2>5, <3>1, <3>3, ServerParts, StaysFate DEF Adds
    <3>4. CASE c.i = i
      <4>3. LiveSteer(i) BY <2>1, <3>1, <3>4, RequestNames, CallOf DEF LiveSteer, Cuts
      <4> QED BY <4>3, <1>1, <2>6, Unmoved DEF Fate, serverKeeps, history, Out, Untaken
    <3> QED BY <3>3, <3>4
  <2>9. CASE ServerInterrupts
    <3> QED BY <1>1, <2>1, <2>4, <2>6, <2>5, <2>9, ServerParts, StaysFate DEF ServerInterrupts, Adds
  <2> QED BY <1>7, <2>8, <2>9
<1>8. CASE ServerShows BY <1>8, ShowsFate
<1>9. CASE ServerCompletes BY <1>9, CompletesFate
<1>10. CASE ServerAborts
  <2> QED BY <1>1, <1>10, Unmoved, DeniedNext, ServerParts, StaysFate DEF ServerAborts, Denied
<1> QED BY <1>5, <1>6, <1>7, <1>8, <1>9, <1>10 DEF ServerStep

LEMMA FatesInit == Init => Fates
<1> SUFFICES ASSUME Init PROVE Fates OBVIOUS
<1>1. Solo BY SoloInit
<1>2. ASSUME NEW i \in Inputs PROVE Fate(i)
  <2> QED BY NothingBefore DEF Fate, Init, Denied
<1> QED BY <1>1, <1>2 DEF Fates

LEMMA FatesStep == ASSUME RunInv, Fates, [Next]_vars PROVE Fates'
<1> SUFFICES ASSUME ~stray' PROVE Solo' /\ \A i \in Inputs \ fell' : Fate(i)' BY DEF Fates
<1>1. Typed /\ TurnInv /\ InputInv /\ InputInv' BY RunStep DEF RunInv, InputInv
<1>2. ~stray
  <2> QED BY <1>1, StrayStays DEF StartTurnContinues
<1>5. ASSUME NEW i \in Inputs \ fell' PROVE Fate(i)'
  <2>3. Lone(i) /\ Told(i)
    <3> QED BY <1>1, FellGrows DEF Accounted, InputInv
  <2>4. Lone(i)'
    <3> QED BY <1>1, <1>5 DEF Accounted, InputInv
  <2>5. CASE ServerStep
    <3> QED BY <1>1, <1>2, <2>5, FellGrows, ServerKeepsFate DEF TurnInv, RunInv, Fates
  <2>6. CASE ~ServerStep
    BY <1>1, <1>2, <2>3, <2>4, <2>6, FellGrows, SessionKeepsFate DEF Fates, RunInv
  <2> QED BY <2>5, <2>6
<1> QED BY <1>1, <1>2, <1>5, SoloStep DEF Fates

(* What the channel is told was dropped, and so may send again, was not part  *)
(* of a turn, unless its turn/steer failed or a turn/start was given up       *)
(* without knowing.                                                           *)
THEOREM DroppedRanNot == Spec => []DroppedNeverRan
<1>1. Init => RunInv /\ Fates
  <2> SUFFICES ASSUME Init PROVE RunInv /\ Fates OBVIOUS
  <2> QED BY InitInv, TurnInit, ChanceInit, FatesInit DEF RunInv
<1>2. RunInv /\ Fates /\ [Next]_vars => RunInv' /\ Fates' BY RunStep, FatesStep
<1>3. RunInv /\ Fates => DroppedNeverRan BY DEF Fates, DroppedNeverRan, Fate, Out, Untaken
<1> QED BY <1>1, <1>2, <1>3, PTL DEF Spec

-----------------------------------------------------------------------------
(* A filter keeps what it shall; a cut takes no more than one.                *)
LEMMA KeptKeeps ==
  ASSUME NEW D, NEW q \in Seq(D), NEW S, NEW H, Has(q, H \cap S)
  PROVE  Has(Kept(q, S), H)
<1>1. PICK f : KeptOf(q, S, f) /\ Kept(q, S) = f[Len(q)] BY KeptPrefixes
<1>2. PICK a \in DOMAIN q : q[a] \in H \cap S BY DEF Has
<1> DEFINE T == {k \in Nat : k <= Len(q) => f[k] \in Seq(D) /\ (a <= k => Has(f[k], H))}
<1>3. a \in Nat /\ a >= 1 /\ a <= Len(q) /\ Len(q) \in Nat OBVIOUS
<1>4. 0 \in T
  <2>2. f[0] = <<>> BY <1>1, <1>3 DEF KeptOf
  <2>3. f[0] \in Seq(D) /\ ~(a <= 0) BY <1>3, <2>2
  <2> QED BY <2>3
<1>5. ASSUME NEW k \in Nat, k \in T PROVE k + 1 \in T
  <2>1. PICK m : m = k + 1 OBVIOUS
  <2> SUFFICES ASSUME m <= Len(q) PROVE f[m] \in Seq(D) /\ (a <= m => Has(f[m], H)) BY <2>1
  <2>2. PICK g : g = f[k] OBVIOUS
  <2>5. f[m] = IF q[m] \in S THEN Append(g, q[m]) ELSE g BY <1>1, <2>2, <2>1 DEF KeptOf
  <2> QED BY <1>5, <2>1, <2>2, <2>5, <1>3, <1>2, AppendFacts
<1>6. Len(q) \in T
  <2>1. Nat \subseteq T
    <3> HIDE DEF T
    <3> QED BY <1>4, <1>5, Induction
  <2> QED BY <1>3, <2>1
<1> QED BY <1>1, <1>3, <1>6

LEMMA CutKeeps ==
  ASSUME NEW D, NEW s \in Seq(D), NEW k \in DOMAIN s, NEW H, Has(s, H), s[k] \notin H
  PROVE  Has(SubSeq(s, 1, k - 1) \o SubSeq(s, k + 1, Len(s)), H)
<1>1. PICK n \in DOMAIN s : s[n] \in H BY DEF Has
<1>2. n # k /\ n \in 1..Len(s) /\ k \in 1..Len(s) /\ Len(s) \in Nat BY <1>1
<1>3. PICK a : a = SubSeq(s, 1, k - 1) OBVIOUS
<1>4. PICK b : b = SubSeq(s, k + 1, Len(s)) OBVIOUS
<1>5. a \in Seq(D) /\ Len(a) = k - 1 /\ \A j \in 1..(k - 1) : a[j] = s[j] BY <1>2, <1>3
<1>6. b \in Seq(D) /\ Len(b) = Len(s) - k /\ \A j \in 1..(Len(s) - k) : b[j] = s[j + k] BY <1>2, <1>4
<1>7. Has(a, H) \/ Has(b, H)
  <2>1. CASE n < k
    <3> QED BY <1>2, <1>5, <2>1, <1>1 DEF Has
  <2>2. CASE n > k
    <3>2. b[n - k] \in H BY <1>1, <1>6, <1>2, <2>2
    <3> QED BY <1>2, <1>6, <2>2, <3>2 DEF Has
  <2> QED BY <1>2, <2>1, <2>2
<1>8. Has(a \o b, H) <=> Has(a, H) \/ Has(b, H) BY <1>5, <1>6, JoinFacts
<1> QED BY <1>3, <1>4, <1>7, <1>8

LEMMA WithoutKeeps ==
  ASSUME NEW D, NEW s \in Seq(D), NEW x, NEW H, Has(s, H)
  PROVE  Has(Without(s, x), H) \/ x \in H
<1> SUFFICES ASSUME x \notin H PROVE Has(Without(s, x), H) OBVIOUS
<1>1. Has(s, H \cap (Elems(s) \ {x})) BY DEF Has, Elems
<1> QED BY <1>1, KeptKeeps DEF Without

-----------------------------------------------------------------------------

LEMMA PlacedNext ==
  ASSUME NEW i
  PROVE  /\ Placed(i)' <=> i \in new' \/ said'[i] # {} \/ i \in started' \/ InQueue(i)' \/ InSteers(i)' \/ Joins(i)' \/ Resumes(i)'
         /\ queue' = queue => (InQueue(i)' <=> InQueue(i))
         /\ steered' = steered => (InSteers(i)' <=> InSteers(i))
         /\ waiting' = waiting => (Joins(i)' <=> Joins(i))
         /\ micro' = micro => (Resumes(i)' <=> Resumes(i))
BY DEF Placed, Waits, InQueue, Entries, InSteers, Joins, Joining, Resumes, Resumed, Turn

LEMMA SayKeeps ==
  ASSUME Typed, NEW i \in Inputs, NEW is, NEW w, said' = Say(is, w)
  PROVE  said[i] # {} \/ i \in is => said'[i] # {}
BY SayFacts

(* drain sends what is in the queue or leaves it there.                       *)
LEMMA DrainPlaces ==
  ASSUME NEW i \in Inputs, NEW q \in Seq(Entry), NEW act, NEW busy, NEW kept, Drain(q, act, busy, kept),
         i \in kept \/ Has(q, Entries(i))
  PROVE  i \in started' \/ InQueue(i)'
<1>1. CASE started' = kept /\ queue' = q BY <1>1 DEF InQueue, Entries
<1>2. CASE q # <<>> /\ started' = kept \cup {Head(q).id} /\ queue' = Tail(q)
  <2>2. Head(q) \in Entries(i) => Head(q).id = i BY DEF Entries
  <2>3. InQueue(i)' <=> Has(queue', Entries(i)) BY DEF InQueue, Entries
  <2> QED BY <1>2, <2>2, <2>3, TailFacts
<1> QED BY <1>1, <1>2 DEF Drain, StartTurn

(* What a call of the program does with the places of an input.               *)
LEMMA JoinPlaces ==
  ASSUME Typed, NEW i \in Inputs, NEW x \in Waiter, waiting' = waiting \/ waiting' = Append(waiting, x), Joins(i)
  PROVE  Joins(i)'
<1>2. Has(Append(waiting, x), Joining(i)) <=> Has(waiting, Joining(i)) \/ x \in Joining(i) BY TypedParts, AppendFacts
<1> QED BY <1>2 DEF Joins, Joining

LEMMA SubmitPlaces ==
  ASSUME Typed, NEW i \in Inputs, Placed(i), NEW j \in Inputs, Submit(j) PROVE Placed(i)'
<1>1. micro' = micro /\ new' = new \ {j} BY DEF Submit
<1>3. said[i] # {} => said'[i] # {} BY SayKeeps DEF Submit
<1>4. PICK e, y, z : /\ e = [id |-> j, urgent |-> FALSE] /\ y = [op |-> "steer", i |-> j]
                     /\ z = [op |-> "interrupt", i |-> j]
  OBVIOUS
<1>5. y \in Waiter /\ z \in Waiter /\ y \in Joining(j) BY <1>4 DEF Waiter, Who, Joining
<1>7. InQueue(i)' <=> Has(queue', Entries(i)) BY DEF InQueue, Entries
<1>8. InSteers(i)' <=> Has(steered', {i}) BY DEF InSteers
<1>9. Has(Append(steered, j), {i}) <=> InSteers(i) \/ i = j
  <2> QED BY TypedParts, AppendFacts DEF InSteers
<1>10. CASE SubmitIdle(j)
  <2> QED
    BY <1>1, <1>3, <1>7, <1>8, <1>10, <1>5, JoinPlaces, PlacedNext DEF Placed, Waits, InQueue,
       InSteers, SubmitIdle
<1>11. CASE SubmitQueued(j)
  <2>2. Joins(i) => Joins(i)' BY <1>5, <1>4, <1>11, JoinPlaces DEF SubmitQueued
  <2> QED
    BY <1>1, <1>3, <1>4, <1>7, <1>8, <1>11, <2>2, QueueAdds, PlacedNext DEF Placed, Waits, InSteers,
       SubmitQueued
<1>12. CASE SubmitSteer(j)
  <2>1. /\ started' = started /\ queue' = queue
        /\ \/ steered' = Append(steered, j) /\ waiting' = waiting
           \/ steered' = steered /\ waiting' = Append(waiting, y)
    BY <1>4, <1>12 DEF SubmitSteer
  <2>2. Joins(i) => Joins(i)' BY <1>5, <2>1, JoinPlaces
  <2>3. waiting' = Append(waiting, y) /\ i = j => Joins(i)'
    <3>2. Has(Append(waiting, y), Joining(j)) BY <1>5, TypedParts, AppendFacts
    <3> QED BY <3>2 DEF Joins, Joining
  <2> QED
    BY <1>1, <1>3, <1>7, <1>8, <1>9, <2>1, <2>2, <2>3, PlacedNext DEF Placed, Waits, InQueue,
       InSteers
<1>13. CASE SubmitNow(j)
  <2>2. Joins(i) => Joins(i)' BY <1>5, <1>4, <1>13, JoinPlaces DEF SubmitNow, Interrupt
  <2> QED
    BY <1>1, <1>3, <1>4, <1>7, <1>8, <1>13, <2>2, QueueAdds, PlacedNext DEF Placed, Waits, InSteers,
       SubmitNow, Interrupt
<1>14. CASE SubmitRefused(j)
  <2> QED
    BY <1>1, <1>3, <1>7, <1>8, <1>14, <1>5, JoinPlaces, SayKeeps, PlacedNext DEF Placed, Waits,
       InQueue, InSteers, SubmitRefused, Submit
<1> QED BY <1>10, <1>11, <1>12, <1>13, <1>14 DEF Submit

(* The other calls of the program.                                            *)
LEMMA CallsPlaces ==
  ASSUME Typed, NEW i \in Inputs, Placed(i), Calls PROVE Placed(i)'
<1>1. CASE \E j \in Inputs : Submit(j) BY <1>1, SubmitPlaces
<1>2. CASE \E j \in Inputs : EnqueueFollowup(j)
  <2>1. PICK j \in Inputs : EnqueueFollowup(j) BY <1>2
  <2>2. PICK q : q = Append(queue, [id |-> j, urgent |-> FALSE]) OBVIOUS
  <2> QED BY <2>1, <2>2, QueueAdds, DrainPlaces, PlacedNext DEF Placed, Waits, EnqueueFollowup
<1>3. CASE \E j \in Inputs : Remove(j)
  <2>1. PICK j \in Inputs, k \in DOMAIN queue :
          /\ queue[k].id = j /\ said' = Say({j}, "removed")
          /\ queue' = SubSeq(queue, 1, k - 1) \o SubSeq(queue, k + 1, Len(queue))
          /\ started' = started /\ new' = new /\ steered' = steered /\ waiting' = waiting /\ micro' = micro
    BY <1>3 DEF Remove
  <2>2. InQueue(i) => InQueue(i)' \/ i = j
    <3> QED BY <2>1, TypedParts, CutKeeps DEF InQueue, Entries
  <2> QED BY <2>1, <2>2, SayKeeps, PlacedNext DEF Placed, Waits
<1>4. CASE \E cs \in {"user", "interrupt"} : Cancel(cs)
  <2>1. PICK cs \in {"user", "interrupt"} : Cancel(cs) BY <1>4
  <2>2. PICK x : x = [op |-> "interrupt", i |-> cs] OBVIOUS
  <2>7. CASE queue' = queue /\ said' = said
    <3> QED
      BY <2>1, <2>2, <2>7, JoinPlaces, PlacedNext DEF Placed, Waits, Cancel, Interrupt, turn,
         Waiter, Who
  <2>8. CASE said' = Say(Queued, "discarded")
    <3> QED
      BY <2>1, <2>2, <2>8, SayKeeps, QueuedIs, JoinPlaces, PlacedNext DEF Placed, Waits, Cancel,
         Interrupt, turn, Waiter, Who
  <2> QED BY <2>1, <2>7, <2>8 DEF Cancel, Discards
<1>5. CASE InterruptTurn
  <2>1. PICK x : x = [op |-> "interrupt", i |-> "prompt"] OBVIOUS
  <2> QED
    BY <1>5, <2>1, JoinPlaces, PlacedNext DEF Placed, Waits, InterruptTurn, Interrupt, history,
       Waiter, Who
<1>6. CASE ConnectionRestored
  <2> QED
    BY <1>6, TypedParts, DrainPlaces, PlacedNext DEF Placed, Waits, ConnectionRestored, history,
       InQueue
<1>7. CASE PermanentLoss
  <2> QED BY <1>7, SayKeeps, QueuedIs, PlacedNext DEF Placed, Waits, PermanentLoss
<1>8. CASE UNCHANGED vars
  <2> QED BY <1>8, PlacedNext DEF Placed, Waits, vars, history
<1> QED BY <1>1, <1>2, <1>3, <1>4, <1>5, <1>6, <1>7, <1>8 DEF Calls

(* A continuation is taken.                                                   *)
LEMMA ContinuesPlaces ==
  ASSUME Typed, NEW i \in Inputs, Placed(i),
         DrainContinues \/ SteerResumes \/ SteerContinues \/ InterruptResumes \/ InterruptContinues
  PROVE  Placed(i)'
<1>1. micro # <<>> /\ micro' = Tail(micro) /\ waiting' = waiting /\ new' = new
  BY DEF DrainContinues, SteerResumes, SteerContinues, InterruptResumes, InterruptContinues, history
<1>2. Resumes(i) <=> Resumes(i)' \/ (Head(micro).k = "resume" /\ Head(micro).op = "steer" /\ Head(micro).i = i)
  BY <1>1, TakenFacts
<1>4. CASE DrainContinues
  <2> QED
    BY <1>1, <1>2, <1>4, TypedParts, DrainPlaces, PlacedNext DEF Placed, Waits, DrainContinues,
       history, InQueue
<1>5. CASE SteerResumes
  <2>1. PICK j : j = Head(micro).i /\ said' = said BY <1>5 DEF SteerResumes, history
  <2>2. j \in Inputs BY <1>1, <1>5, <2>1, TypedParts, ContinuationFacts DEF SteerResumes
  <2>3. CASE Head(micro).t = 0
    <3>1. PICK q : q = Append(queue, [id |-> j, urgent |-> FALSE]) OBVIOUS
    <3>3. Drain(q, active, starting, started) /\ steered' = steered BY <1>5, <2>1, <2>3, <3>1 DEF SteerResumes
    <3> QED
      BY <1>1, <1>2, <2>1, <2>2, <3>1, <3>3, QueueAdds, DrainPlaces, PlacedNext DEF Placed, Waits
  <2>4. CASE Head(micro).t # 0
    <3>1. queue' = queue /\ started' = started /\ steered' = Append(steered, j)
      BY <1>5, <2>1, <2>4 DEF SteerResumes
    <3>3. InSteers(i) \/ i = j => InSteers(i)' BY <3>1, <2>2, TypedParts, AppendFacts DEF InSteers
    <3> QED BY <1>1, <1>2, <2>1, <3>1, <3>3, PlacedNext DEF Placed, Waits
  <2> QED BY <2>3, <2>4
<1>6. CASE SteerContinues /\ Head(micro).r # "ok"
  <2>1. PICK j : j = Head(micro).c.i OBVIOUS
  <2>2. Head(micro).k = "answer" /\ j \in Inputs
    BY <1>1, <1>6, <2>1, TypedParts, ContinuationFacts, CallFacts DEF SteerContinues
  <2>3. SteerFalls(j) BY <1>6, <2>1 DEF SteerContinues
  <2>4. InSteers(i) => InSteers(i)' \/ i = j
    <3> QED BY <2>3, TypedParts, WithoutKeeps DEF SteerFalls, InSteers
  <2>5. CASE closed
    <3> QED
      BY <1>1, <1>2, <2>2, <2>4, <2>3, <2>5, SayKeeps, PlacedNext DEF Placed, Waits, SteerFalls
  <2>6. CASE ~closed
    <3>1. PICK q : q = Append(queue, [id |-> j, urgent |-> FALSE]) OBVIOUS
    <3>3. Drain(q, active, starting, started) /\ said' = said BY <2>3, <2>6, <3>1 DEF SteerFalls
    <3> QED
      BY <1>1, <1>2, <2>2, <2>4, <3>3, <3>1, QueueAdds, DrainPlaces, PlacedNext DEF Placed, Waits
  <2> QED BY <2>5, <2>6
<1>7. CASE (SteerContinues /\ Head(micro).r = "ok") \/ InterruptResumes \/ InterruptContinues
  <2> QED
    BY <1>1, <1>2, <1>7, PlacedNext DEF Placed, Waits, SteerContinues, InterruptResumes,
       InterruptContinues
<1> QED BY <1>4, <1>5, <1>6, <1>7

(* What is queued again at the end of a turn holds what waited.              *)
LEMMA RequeuedHolds ==
  ASSUME Typed, NEW i \in Inputs PROVE Requeued \in Seq(Entry) /\ (InQueue(i) \/ InSteers(i) => Has(Requeued, Entries(i)))
<1>1. PICK U, V : U = {e \in Elems(queue) : e.urgent} /\ V = {e \in Elems(queue) : ~e.urgent} BY Zenon
<1>2. PICK a, b, c : /\ a = Kept(queue, U) /\ c = Kept(queue, V)
                     /\ b = [k \in DOMAIN steered |-> [id |-> steered[k], urgent |-> FALSE]]
  BY Zenon
<1>4. a \in Seq(Entry) /\ (Has(queue, Entries(i) \cap U) => Has(a, Entries(i)))
  BY <1>2, TypedParts, KeptFacts, KeptKeeps
<1>5. c \in Seq(Entry) /\ (Has(queue, Entries(i) \cap V) => Has(c, Entries(i)))
  BY <1>2, TypedParts, KeptFacts, KeptKeeps
<1>6. InQueue(i) => Has(queue, Entries(i) \cap U) \/ Has(queue, Entries(i) \cap V) BY <1>1 DEF InQueue, Has, Elems
<1>8. PICK d : d = a \o b BY Zenon
<1>11. Requeued = d \o c BY <1>1, <1>2, <1>8 DEF Requeued
<1> QED BY <1>4, <1>5, <1>6, <1>2, <1>8, <1>11, SteersAgain, JoinFacts

(* The end of a turn says of the inputs it was to take what became of them, or *)
(* queues them again.                                                         *)
LEMMA OverPlaces ==
  ASSUME Typed, NEW i \in Inputs, Placed(i), NEW b, TurnOver(b), waiting' = waiting, micro' = micro, new' = new
  PROVE  Placed(i)'
<1>1. PICK cz : cz = IF InterruptInFlight /\ ~b THEN "none" ELSE cause OBVIOUS
<1>2. PICK first : first = Say(started, StartedFate(cz)) OBVIOUS
<1>3. PICK fate : fate = SteeredFate(cz, b) OBVIOUS
<1>4. PICK q : q = IF fate = {} THEN Requeued ELSE queue OBVIOUS
<1>5. said'[i] = (IF InSteers(i) THEN first[i] \cup fate ELSE first[i]) /\ Drain(q, 0, starting, {})
  <2> QED BY <1>1, <1>2, <1>3, <1>4, QueuedIs DEF TurnOver
<1> QED
  BY <1>4, <1>5, <1>2, RequeuedHolds, TypedParts, DrainPlaces, PlacedNext DEF Placed, Waits,
     InQueue, Say

LEMMA SamePlaces ==
  ASSUME NEW i, queue' = queue, steered' = steered, waiting' = waiting, Resumes(i) => Resumes(i)', Waits(i)
  PROVE  Waits(i)'
<1> QED BY DEF Waits, InQueue, Entries, InSteers, Joins, Joining

LEMMA StartTurnPlaces ==
  ASSUME Typed, NEW i \in Inputs, Placed(i), StartTurnContinues PROVE Placed(i)'
<1>4. CASE started' = started /\ said' = said
  BY <1>4, StartTaken, PlacedNext DEF Placed, Waits, StartTurnContinues
<1>5. CASE \E j, w : started' = started \ {j} /\ said' = Say({j}, w)
  <2>1. PICK j, w : started' = started \ {j} /\ said' = Say({j}, w) BY <1>5
  <2> QED BY <2>1, StartTaken, SayKeeps, PlacedNext DEF Placed, Waits, StartTurnContinues
<1> QED BY <1>4, <1>5 DEF StartTurnContinues

(* The lines, and the connection.                                             *)
LEMMA ClaimPlaces == ASSUME Typed, NEW i \in Inputs, Placed(i), Claim PROVE Placed(i)'
<1>3. CASE started' = started /\ steered' = steered /\ said' = said
  BY <1>3, SamePlaces, PlacedNext DEF Placed, Waits, Claim
<1>4. CASE \E j : Claims(j)
  <2>1. PICK j : Claims(j) BY <1>4
  <2>2. i \in started \/ InSteers(i) => i \in started' \/ InSteers(i)' \/ (i = j /\ i \in started \cup Steered)
    <3>2. InSteers(i) => InSteers(i)' \/ i = j
      <4> QED BY <2>1, TypedParts, WithoutKeeps DEF InSteers, Claims
    <3> QED BY <2>1, <3>2, QueuedIs DEF Claims
  <2> QED BY <2>2, <2>1, SayKeeps, PlacedNext DEF Placed, Waits, Claim, Claims
<1> QED BY <1>3, <1>4 DEF Claim

LEMMA LostPlaces == ASSUME Typed, NEW i \in Inputs, Placed(i), ConnectionLost PROVE Placed(i)'
<1> QED
  BY EmptyFacts, SayKeeps, QueuedIs, PlacedNext DEF Placed, Waits, ConnectionLost, Quiet, Resumes

LEMMA StillPlaces ==
  ASSUME Typed, NEW i \in Inputs, Placed(i),
         Chunk \/ Answered \/ Started \/ CallTimesOut \/ (Quiet /\ serverKeeps' = serverKeeps)
  PROVE  Placed(i)'
<1>2. Resumes(i) => Resumes(i)'
  <2>2. CASE micro' = micro BY <2>2 DEF Resumes, Resumed, Turn
  <2>3. CASE Answered
    <3> QED BY <2>3, AnswerTaken DEF Adds, Resumes, Resumed, Turn
  <2>4. CASE Quiet BY <2>4, EmptyFacts DEF Quiet, Resumes
  <2> QED BY <2>2, <2>3, <2>4 DEF Chunk, Started, CallTimesOut
<1> QED
  BY <1>2, Unmoved, SamePlaces, PlacedNext DEF Placed, Waits, Chunk, Answered, Started,
     CallTimesOut, serverKeeps, history

LEMMA PlacesStep == ASSUME Typed, NEW i \in Inputs, Placed(i), [Next]_vars PROVE Placed(i)'
<1>1. CASE Calls BY <1>1, CallsPlaces
<1>2. CASE DrainContinues \/ SteerResumes \/ SteerContinues \/ InterruptResumes \/ InterruptContinues
  BY <1>2, ContinuesPlaces
<1>3. CASE StartTurnContinues BY <1>3, StartTurnPlaces
<1>4. CASE ForceClose
  <2>1. CASE active = force
    <3> QED BY <1>4, <2>1, OverPlaces DEF ForceClose
  <2>2. CASE active # force
    <3> QED BY <1>4, <2>2, SamePlaces, PlacedNext DEF Placed, Waits, ForceClose
  <2> QED BY <2>1, <2>2
<1>5. CASE Completed
  <2>2. CASE \E b : TurnOver(b) BY <1>5, <2>2, OverPlaces DEF Completed
  <2>3. CASE queue' = queue /\ steered' = steered /\ said' = said /\ started' = started
    <3> QED BY <1>5, <2>3, SamePlaces, PlacedNext DEF Placed, Waits, Completed
  <2> QED BY <1>5, <2>2, <2>3 DEF Completed
<1>6. CASE Claim BY <1>6, ClaimPlaces
<1>7. CASE ConnectionLost BY <1>7, LostPlaces
<1>8. CASE Chunk \/ Answered \/ Started \/ CallTimesOut BY <1>8, StillPlaces
<1>9. CASE \/ ServerStarts \/ ServerRefuses \/ ServerErrs \/ ServerSteers \/ ServerInterrupts
           \/ ServerShows \/ ServerCompletes \/ ServerAborts
  <2> QED
    BY <1>9, StillPlaces DEF ServerStarts, ServerRefuses, ServerErrs, ServerSteers,
       ServerInterrupts, ServerShows, ServerCompletes, ServerAborts, Takes, serverLeaves
<1> QED BY <1>1, <1>2, <1>3, <1>4, <1>5, <1>6, <1>7, <1>8, <1>9 DEF Next, Calls

(* An input that was handed in is in a place from which it will be sent, was  *)
(* sent, or its submitter was told what became of it: none is forgotten,      *)
(* whatever the server answers and whatever is lost.                          *)
THEOREM NoneForgotten == Spec => []NoInputForgotten
<1>1. Init => \A i \in Inputs : Placed(i) BY DEF Init, Placed
<1>2. Typed /\ (\A i \in Inputs : Placed(i)) /\ [Next]_vars => (\A i \in Inputs : Placed(i))' BY PlacesStep
<1>3. Typed /\ (\A i \in Inputs : Placed(i)) => NoInputForgotten
  <2> SUFFICES ASSUME Typed, NEW i \in Inputs, Placed(i), i \notin new
               PROVE  \/ said[i] # {} \/ i \in Queued \cup started \cup Steered
                      \/ \E w \in Elems(waiting) : w.op = "steer" /\ w.i = i
                      \/ \E m \in Elems(micro) : m.k = "resume" /\ m.op = "steer" /\ m.i = i
    BY Zenon DEF NoInputForgotten
  <2> QED BY QueuedIs DEF Placed, Waits, Resumes, Resumed, Has, Elems, Joins, Joining
<1>4. Spec => []Typed BY InputTypes
<1> QED BY <1>1, <1>2, <1>3, <1>4, PTL DEF Spec

----------------------------------------------------------------------------
(* A session at rest.                                                         *)

LEMMA SteerSettles ==
  ASSUME SteerContinues, fell' = {}
  PROVE  /\ Head(micro).r = "ok" /\ wait' = wait /\ toSrv' = toSrv
         /\ queue' = queue /\ starting' = starting /\ started' = started /\ steered' = steered /\ said' = said
BY DEF SteerContinues, SteerFalls, SendsNothing

LEMMA SteerAnswerOf ==
  ASSUME NEW i
  PROVE  /\ \A x \in Continuation : x \in SteerAnswers(i) <=> x.k = "answer" /\ x.c.op = "steer" /\ x.c.i = i
         /\ \A x \in Continuation : x \in OkSteered(i) <=> x \in SteerAnswers(i) /\ x.r = "ok"
         /\ \A o \in Output : o \in SteerLines(i) <=> o.m = "answer" /\ o.c.op = "steer" /\ o.c.i = i
         /\ \A o \in Output : o \in OkSteer(i) <=> o \in SteerLines(i) /\ o.r = "ok"
         /\ \A o \in Output : o \in StartLinesOf(i) <=> o.m = "answer" /\ o.c \in Starts(i)
<1>1. \A x \in Continuation : /\ x \in SteerAnswers(i) <=> x.k = "answer" /\ x.c.op = "steer" /\ x.c.i = i
                              /\ x \in OkSteered(i) <=> x \in SteerAnswers(i) /\ x.r = "ok"
  <2> SUFFICES ASSUME NEW x \in Continuation
               PROVE /\ x \in SteerAnswers(i) <=> x.k = "answer" /\ x.c.op = "steer" /\ x.c.i = i
                     /\ x \in OkSteered(i) <=> x \in SteerAnswers(i) /\ x.r = "ok"
    OBVIOUS
  <2>1. x.k = "answer" => x.c \in Call BY ContinuationFacts
  <2> QED BY <2>1, CallOf DEF SteerAnswers, OkSteered, Continuation, Answers, Turn
<1>2. \A o \in Output : /\ o \in SteerLines(i) <=> o.m = "answer" /\ o.c.op = "steer" /\ o.c.i = i
                        /\ o \in OkSteer(i) <=> o \in SteerLines(i) /\ o.r = "ok"
                        /\ o \in StartLinesOf(i) <=> o.m = "answer" /\ o.c \in Starts(i)
  <2> SUFFICES ASSUME NEW o \in Output
               PROVE /\ o \in SteerLines(i) <=> o.m = "answer" /\ o.c.op = "steer" /\ o.c.i = i
                     /\ o \in OkSteer(i) <=> o \in SteerLines(i) /\ o.r = "ok"
                     /\ o \in StartLinesOf(i) <=> o.m = "answer" /\ o.c \in Starts(i)
    OBVIOUS
  <2>1. o.m = "answer" => o.c \in Call BY OutputFacts
  <2> QED BY <2>1, CallOf DEF SteerLines, OkSteer, StartLinesOf, Output, Answers, Turn
<1> QED BY <1>1, <1>2

LEMMA DrainFeeds ==
  ASSUME Typed, NEW q \in Seq(Entry), NEW act, NEW kept, Drain(q, act, starting, kept), act = active',
         kept = {} \/ (kept = started /\ active' = active /\ ended' = ended)
  PROVE  Feeds
<1>1. CASE ~offline' /\ ~closed' /\ act = 0 /\ ~starting /\ q # <<>>
  <2>1. PICK e : e = Head(q) BY Zenon
  <2>2. e \in Entry BY <1>1, <2>1
  <2>3. PICK c : c = [op |-> "next", i |-> e.id, t |-> 0] BY Zenon
  <2>4. Asks(c) /\ starting' /\ c.i = e.id BY <1>1, <2>1, <2>3 DEF Drain, StartTurn, Sends, Asks
  <2>5. started' = kept \cup {e.id} BY <1>1, <2>1 DEF Drain
  <2>6. c \in AnyStart BY <2>2, <2>3, ZeroIsTurn DEF AnyStart, Entry
  <2> QED BY <1>1, <2>4, <2>5, <2>6 DEF Feeds, StartsWith
<1>2. CASE ~(~offline' /\ ~closed' /\ act = 0 /\ ~starting /\ q # <<>>)
  BY <1>2 DEF Drain, SendsNothing, AsksNothing, Feeds
<1> QED BY <1>1, <1>2

LEMMA StillFeeds ==
  ASSUME Talks, starting' = starting, started' \subseteq started, active' = active, ended' = ended PROVE Feeds
BY DEF Talks, AsksStart, Feeds

LEMMA SameSteers == ASSUME NEW i, steered' = steered PROVE Joined(i)
BY DEF Joined, InSteers

LEMMA CalmMoves ==
  ASSUME Typed, Calm, inbox' = inbox, Feeds, Continued, 0 \notin ended, \A i \in Inputs : Hands(i) /\ Joined(i)
  PROVE  Moves
BY DEF Calm, Moves

LEMMA SubmitMoves ==
  ASSUME Typed, NEW j \in Inputs, Submit(j), 0 \notin ended PROVE Moves
<1>1. /\ inbox' = inbox /\ micro' = micro /\ active' = active /\ ended' = ended /\ j \in new
  BY DEF Submit
<1>2. Calm /\ Talks BY CalmSubmit DEF Calm
<1>3. \A i \in Inputs : Hands(i) BY SubmitHands
<1>4. Feeds
  <2>1. CASE SubmitIdle(j)
    <3>1. PICK c : c = [op |-> "start", i |-> j, t |-> 0] BY Zenon
    <3>2. c \in AnyStart /\ c.i = j BY <3>1, ZeroIsTurn DEF AnyStart
    <3>3. Asks(c) /\ starting' /\ ~starting /\ active = 0 /\ started' = started \cup {j}
      BY <2>1, <3>1 DEF SubmitIdle, StartTurn, Sends, Asks, Busy
    <3> QED BY <1>1, <3>2, <3>3 DEF Feeds, StartsWith
  <2>2. CASE ~SubmitIdle(j)
    <3>1. starting' = starting /\ started' = started
      BY <2>2 DEF Submit, SubmitQueued, SubmitSteer, SubmitNow, SubmitRefused
    <3> QED BY <1>1, <1>2, <3>1, StillFeeds
  <2> QED BY <2>1, <2>2
<1>5. ASSUME NEW i \in Inputs PROVE Joined(i)
  <2>1. CASE steered' = steered BY <2>1, SameSteers
  <2>2. CASE steered' # steered
    <3>1. PICK c : c = [op |-> "steer", i |-> j, t |-> active] BY Zenon
    <3>2. active # 0 /\ steered' = Append(steered, j) /\ Asks(c)
      BY <2>2, <3>1 DEF Submit, SubmitIdle, SubmitQueued, SubmitSteer, SubmitNow, SubmitRefused, Sends, Asks
    <3>3. active \in Turns /\ c \in SteersInto(j, active) BY <3>1, <3>2, TypedParts DEF Turns, SteersInto
    <3>4. Has(Append(steered, j), {i}) <=> Has(steered, {i}) \/ j \in {i} BY TypedParts, AppendFacts
    <3>5. InSteers(i)' => InSteers(i) \/ i = j BY <3>2, <3>4 DEF InSteers
    <3>6. Fresh(j) BY <1>1 DEF Fresh
    <3> QED BY <3>2, <3>3, <3>5, <3>6 DEF Joined
  <2> QED BY <2>1, <2>2
<1> QED BY <1>1, <1>2, <1>3, <1>4, <1>5, CalmMoves DEF Continued

LEMMA CallsMoves ==
  ASSUME Typed, \A i \in Inputs : Lone(i), Calls, 0 \notin ended PROVE Moves
<1>1. CASE \E j \in Inputs : Submit(j) BY <1>1, SubmitMoves
<1>2. CASE ~\E j \in Inputs : Submit(j)
  <2>1. Calm /\ Talks BY CalmCalls DEF Calm
  <2>2. \A i \in Inputs : Hands(i) BY CallsHands
  <2>3. inbox' = inbox /\ micro' = micro /\ steered' = steered /\ active' = active /\ ended' = ended
    BY <1>2 DEF Calls, EnqueueFollowup, Remove, Cancel, InterruptTurn, ConnectionRestored, PermanentLoss, vars, turn, link
  <2>4. CASE \E j \in Inputs : EnqueueFollowup(j)
    <3>1. Feeds BY <2>3, <2>4, Appended, DrainFeeds DEF EnqueueFollowup
    <3> QED BY <2>1, <2>2, <2>3, <3>1, SameSteers, CalmMoves DEF Continued
  <2>5. CASE ConnectionRestored
    <3>1. Feeds BY <2>3, <2>5, TypedParts, DrainFeeds DEF ConnectionRestored
    <3> QED BY <2>1, <2>2, <2>3, <3>1, SameSteers, CalmMoves DEF Continued
  <2>6. CASE ~ConnectionRestored /\ ~\E j \in Inputs : EnqueueFollowup(j)
    <3>1. starting' = starting /\ started' = started
      BY <1>2, <2>6 DEF Calls, Remove, Cancel, InterruptTurn, PermanentLoss, vars, turn
    <3>2. Feeds BY <2>1, <2>3, <3>1, StillFeeds
    <3> QED BY <2>1, <2>2, <2>3, <3>2, SameSteers, CalmMoves DEF Continued
  <2> QED BY <2>4, <2>5, <2>6
<1> QED BY <1>1, <1>2

LEMMA ContinuesMoves ==
  ASSUME Typed, \A i \in Inputs : Lone(i), fell' = {}, 0 \notin ended,
         DrainContinues \/ SteerResumes \/ SteerContinues \/ InterruptResumes \/ InterruptContinues
  PROVE  Moves
<1>1. Calm /\ Talks BY CalmContinues DEF Calm
<1>2. ASSUME NEW i \in Inputs PROVE Hands(i)
  <2>1. i \in Inputs \ fell' OBVIOUS
  <2> QED BY <2>1, ContinuesHands
<1>3. inbox' = inbox /\ active' = active /\ ended' = ended /\ micro # <<>> /\ micro' = Tail(micro)
  BY DEF DrainContinues, SteerResumes, SteerContinues, InterruptResumes, InterruptContinues, turn, link
<1>4. PICK x : x = Head(micro) BY Zenon
<1>5. x \in Continuation BY <1>3, <1>4, TypedParts
<1>6. Continued
  <2>1. x \notin AnyStarted
    <3>1. ~(x.k = "answer" /\ x.c.op \in {"start", "next"})
      BY <1>4 DEF DrainContinues, SteerResumes, SteerContinues, InterruptResumes, InterruptContinues
    <3> QED BY <1>5, <3>1, ContinuationOf
  <2>2. ASSUME NEW i \in Inputs, x \in SteerAnswers(i) PROVE x \in OkSteered(i)
    <3>1. x.k = "answer" /\ x.c.op = "steer" BY <1>5, <2>2, SteerAnswerOf
    <3>2. x.r = "ok"
      BY <1>4, <3>1, SteerSettles DEF DrainContinues, SteerResumes, SteerContinues, InterruptResumes, InterruptContinues
    <3> QED BY <1>5, <2>2, <3>2, SteerAnswerOf
  <2>3. Cuts(micro, micro', x) BY <1>3, <1>4, MicroShorter
  <2> QED BY <2>1, <2>2, <2>3 DEF Continued, Cuts
<1>7. CASE DrainContinues
  <2>1. Feeds BY <1>3, <1>7, TypedParts, DrainFeeds DEF DrainContinues
  <2>2. steered' = steered BY <1>7 DEF DrainContinues
  <2> QED BY <1>1, <1>2, <1>3, <1>6, <2>1, <2>2, SameSteers, CalmMoves
<1>8. CASE SteerResumes
  <2>1. x.k = "resume" /\ x.op = "steer" /\ x.i \in Inputs /\ x.t \in Turn
    BY <1>4, <1>5, <1>8, ContinuationFacts DEF SteerResumes
  <2>2. CASE x.t = 0
    <3>1. Drain(Append(queue, [id |-> x.i, urgent |-> FALSE]), active, starting, started) /\ steered' = steered
      BY <1>4, <1>8, <2>2 DEF SteerResumes
    <3>2. Feeds BY <1>3, <2>1, <3>1, Appended, DrainFeeds
    <3> QED BY <1>1, <1>2, <1>3, <1>6, <3>1, <3>2, SameSteers, CalmMoves
  <2>3. CASE x.t # 0
    <3>1. x.t \in Turns BY <2>1, <2>3 DEF Turns
    <3>2. x \in GoingTo(x.t) BY <1>5, <2>1, ContinuationOf
    <3>3. Has(micro, GoingTo(x.t)) BY <1>3, <1>4, <3>2, TypedParts, MicroShorter DEF Cuts
    <3>4. PICK c : c = [op |-> "steer", i |-> x.i, t |-> x.t] BY Zenon
    <3>5. Asks(c) /\ starting' = starting /\ started' = started /\ steered' = Append(steered, x.i)
      BY <1>4, <1>8, <2>3, <3>4 DEF SteerResumes, Sends, Asks
    <3>6. c \in SteersInto(x.i, x.t) BY <3>4 DEF SteersInto
    <3>7. Feeds BY <1>1, <1>3, <3>5, StillFeeds
    <3>8. ASSUME NEW i \in Inputs PROVE Joined(i)
      <4>1. Has(Append(steered, x.i), {i}) <=> Has(steered, {i}) \/ x.i \in {i} BY <2>1, TypedParts, AppendFacts
      <4>2. InSteers(i)' => InSteers(i) \/ i = x.i BY <3>5, <4>1 DEF InSteers
      <4>3. i = x.i => Fresh(i) BY <1>3, <1>4, <2>1, TakenFacts DEF Fresh
      <4> QED BY <3>1, <3>3, <3>5, <3>6, <4>2, <4>3 DEF Joined
    <3> QED BY <1>1, <1>2, <1>3, <1>6, <3>7, <3>8, CalmMoves
  <2> QED BY <2>2, <2>3
<1>9. CASE SteerContinues \/ InterruptResumes \/ InterruptContinues
  <2>1. starting' = starting /\ started' = started /\ steered' = steered
    BY <1>9, SteerSettles DEF InterruptResumes, InterruptContinues, turn
  <2>2. Feeds BY <1>1, <1>3, <2>1, StillFeeds
  <2> QED BY <1>1, <1>2, <1>3, <1>6, <2>1, <2>2, SameSteers, CalmMoves
<1> QED BY <1>7, <1>8, <1>9

LEMMA LineMoves == ASSUME Typed, Chunk \/ Claim, 0 \notin ended PROVE Moves
<1>1. Calm /\ Talks BY CalmLine DEF Calm
<1>2. /\ new' = new /\ queue' = queue /\ waiting' = waiting /\ toSrv' = toSrv /\ micro' = micro
      /\ starting' = starting /\ active' = active /\ ended' = ended
  BY DEF Chunk, Claim, turn, history
<1>3. started' \subseteq started /\ (steered' = steered \/ \E j : steered' = Without(steered, j))
  BY DEF Chunk, Claim, Claims
<1>4. ASSUME NEW i \in Inputs PROVE Hands(i) /\ Joined(i)
  <2>1. InSteers(i)' => InSteers(i)
    <3>1. CASE steered' = steered BY <3>1 DEF InSteers
    <3>2. CASE \E j : steered' = Without(steered, j) BY <3>2, SteeredWithout
    <3> QED BY <1>3, <3>1, <3>2
  <2>2. Resumes(i)' => Resumes(i) BY <1>2 DEF Resumes, Resumed, Turn
  <2> QED BY <1>2, <2>1, <2>2, StayHands DEF Joined
<1>5. Feeds BY <1>1, <1>2, <1>3, StillFeeds
<1>6. ASSUME NEW t \in Turns, Has(inbox, Ends(t)) PROVE Has(inbox', Ends(t))
  <2>1. CASE Chunk BY <1>6, <2>1 DEF Chunk
  <2>2. CASE Claim
    <3>1. Head(inbox).m = "shown" /\ Cuts(inbox, inbox', Head(inbox)) BY <2>2, LineTaken DEF Claim
    <3>2. Head(inbox) \notin Ends(t) BY <3>1 DEF Ends
    <3> QED BY <1>6, <3>1, <3>2 DEF Cuts
  <2> QED BY <2>1, <2>2
<1> QED BY <1>1, <1>2, <1>4, <1>5, <1>6 DEF Moves, Calm, Continued

LEMMA OverMoves ==
  ASSUME Typed, \A i \in Inputs : Lone(i), NEW b \in BOOLEAN, TurnOver(b), UNCHANGED <<waiting, micro, new>>,
         b => \A i \in Inputs : InSteers(i) => Untaken(i)
  PROVE  Feeds /\ Continued /\ (\A i \in Inputs : Hands(i) /\ Joined(i)) /\ active' = 0
<1>1. \A i \in Inputs : Hands(i) /\ ~InSteers(i)' BY OverHands
<1>2. active' = 0 BY DEF TurnOver
<1>3. Feeds
  <2>1. PICK q : q = Requeued BY Zenon
  <2>2. q \in Seq(Entry) /\ queue \in Seq(Entry) BY <2>1, RequeuedTypes, TypedParts
  <2>3. Drain(q, 0, starting, {}) \/ Drain(queue, 0, starting, {}) BY <2>1 DEF TurnOver
  <2> QED BY <1>2, <2>2, <2>3, DrainFeeds
<1> QED BY <1>1, <1>2, <1>3 DEF Joined, Continued

LEMMA CompletedMoves ==
  ASSUME Typed, Serves, Down, \A t \in Turns : Sequenced(t), \A i \in Inputs : Lone(i) /\ Chance(i), Completed, 0 \notin ended
  PROVE  Moves
<1>1. UNCHANGED <<waiting, micro, new>> BY DEF Completed
<1>2. ~closed BY InputAssumption DEF Completed, Line, Down
<1>3. PICK a : a = Head(inbox) OBVIOUS
<1>4. a \in Output /\ a.m = "completed" /\ Cuts(inbox, inbox', a) BY <1>3, LineTaken DEF Completed
<1>5. PICK t : t = a.t OBVIOUS
<1>6. t \in Turn /\ a \in Ends(t) /\ a \in Follows(t) /\ Has(inbox, Follows(t)) /\ a.interrupted \in BOOLEAN
  BY <1>4, <1>5, OutputOf, OutputFacts DEF Cuts
<1>7. t \in Turns
  <2>1. t # 0 BY <1>6 DEF Serves
  <2> QED BY <1>6, <2>1 DEF Turns
<1>8. Talks BY TalkCompleted
<1>9. ended' = ended \cup {t} /\ 0 \notin ended'
  <2>1. ended' = ended \cup {t} BY <1>2, <1>3, <1>5 DEF Completed
  <2> QED BY <1>7, <2>1 DEF Turns
<1>10. ~Has(inbox', Begins(t))
  <2>1. Before(inbox, Follows(t), Begins(t)) BY <1>7 DEF Sequenced, Ordered
  <2> QED BY <1>4, <1>6, <2>1 DEF Cuts
<1>11. ASSUME NEW u \in Turns
       PROVE  /\ Has(inbox, Begins(u)) => Has(inbox', Begins(u))
              /\ Has(inbox, Ends(u)) /\ u \notin ended' => Has(inbox', Ends(u))
              /\ u \in ended' \ ended => ~Has(inbox', Begins(u))
  <2>1. a \notin Begins(u) BY <1>4, OutputOf
  <2>2. u \notin ended' => a \notin Ends(u) BY <1>4, <1>5, <1>9, OutputOf
  <2> QED BY <1>4, <1>9, <1>10, <2>1, <2>2 DEF Cuts
<1>12. CASE t \in ended \/ (active # 0 /\ active # t)
  <2>1. UNCHANGED <<queue, started, steered, toSrv, starting, active>> BY <1>2, <1>3, <1>5, <1>12 DEF Completed, SendsNothing
  <2>2. ASSUME NEW i \in Inputs PROVE Hands(i) /\ Joined(i)
    <3>1. InSteers(i)' = InSteers(i) /\ Resumes(i)' = Resumes(i) BY <1>1, <2>1 DEF InSteers, Resumes
    <3> QED BY <1>1, <2>1, <3>1, StayHands DEF Joined
  <2>3. ended' = ended \/ active # 0 BY <1>9, <1>12
  <2>4. Feeds BY <1>8, <2>1, <2>3 DEF Talks, AsksStart, Feeds
  <2>5. active' \in ended' => active \in ended BY <1>9, <1>12, <2>1
  <2> QED BY <1>1, <1>8, <1>9, <1>11, <2>1, <2>2, <2>4, <2>5 DEF Moves, Continued
<1>13. CASE ~(t \in ended \/ (active # 0 /\ active # t))
  <2>1. ~(Head(inbox).t \in ended \/ (active # 0 /\ active # Head(inbox).t)) BY <1>3, <1>5, <1>13
  <2>2. \A i \in Inputs : TurnOver(a.interrupted) /\ (a.interrupted /\ InSteers(i) => Untaken(i)) BY <1>3, <2>1, CompletedOver
  <2>3. TurnOver(a.interrupted) BY <1>2, <1>3, <1>5, <1>13 DEF Completed
  <2>4. Feeds /\ Continued /\ (\A i \in Inputs : Hands(i) /\ Joined(i)) /\ active' = 0
    BY <1>1, <1>6, <2>2, <2>3, OverMoves
  <2> QED BY <1>8, <1>9, <1>11, <2>4 DEF Moves
<1> QED BY <1>12, <1>13

LEMMA ForceCloseMoves ==
  ASSUME Typed, Serves, \A t \in Turns : Sequenced(t) /\ Opened(t), \A i \in Inputs : Lone(i) /\ Chance(i), ForceClose, 0 \notin ended
  PROVE  Moves
<1>1. UNCHANGED <<waiting, micro, new, inbox>> /\ force # 0 BY DEF ForceClose
<1>2. Talks BY TalkForceClose
<1>3. CASE active = force
  <2>1. TurnOver(TRUE) /\ ended' = ended \cup {force} BY <1>3 DEF ForceClose
  <2>2. \A i \in Inputs : InSteers(i) => Untaken(i) BY <1>3, ForceCloseOver
  <2>3. Feeds /\ Continued /\ (\A i \in Inputs : Hands(i) /\ Joined(i)) /\ active' = 0
    BY <1>1, <2>1, <2>2, OverMoves
  <2>4. ASSUME NEW t \in Turns, t \in ended' \ ended PROVE ~Has(inbox', Begins(t)) BY <1>1, <2>1, <2>4 DEF Opened
  <2> QED BY <1>1, <1>2, <2>1, <2>3, <2>4 DEF Moves
<1>4. CASE active # force
  <2>1. UNCHANGED <<queue, started, steered, toSrv, starting, active, ended>> BY <1>4 DEF ForceClose, SendsNothing
  <2>2. ASSUME NEW i \in Inputs PROVE Hands(i) /\ Joined(i)
    <3>1. InSteers(i)' = InSteers(i) /\ Resumes(i)' = Resumes(i) BY <1>1, <2>1 DEF InSteers, Resumes
    <3> QED BY <1>1, <2>1, <3>1, StayHands DEF Joined
  <2>3. Feeds BY <1>2, <2>1, StillFeeds
  <2> QED BY <1>1, <1>2, <2>1, <2>2, <2>3 DEF Moves, Continued
<1> QED BY <1>3, <1>4

LEMMA DrainQueues ==
  ASSUME NEW q, NEW act, NEW kept, Drain(q, act, starting, kept), act = active', balked' = balked, waiting' = waiting
  PROVE  Queues
BY DEF Drain, StartTurn, SendsNothing, Starved, Queues

LEMMA SameQueues ==
  ASSUME queue' = queue \/ queue' = <<>> \/ queue # <<>>, active' = active, starting' = starting, offline' = offline, closed' = closed \/ closed',
         balked' = balked, waiting' = waiting \/ starting
  PROVE  Queues
BY DEF Starved, Queues

LEMMA QueuesStep ==
  ASSUME Typed, fell' = {},
         \/ Calls \/ DrainContinues \/ SteerResumes \/ SteerContinues \/ InterruptResumes \/ InterruptContinues
         \/ ForceClose \/ Chunk \/ Claim \/ Completed
  PROVE  Queues
<1>1. CASE \E i \in Inputs : Submit(i)
  <2>1. PICK i \in Inputs : Submit(i) BY <1>1
  <2>2. balked' = balked /\ offline' = offline /\ closed' = closed /\ active' = active /\ active \in Turn BY <2>1, TypedParts DEF Submit
  <2>3. CASE SubmitIdle(i) BY <2>2, <2>3 DEF SubmitIdle, StartTurn, Starved, Queues
  <2>4. CASE SubmitQueued(i) \/ SubmitNow(i)
    <3>1. starting' = starting /\ (waiting' = waiting \/ starting) /\ (offline \/ active # 0 \/ starting)
      BY <2>4 DEF SubmitQueued, SubmitNow, Interrupt, Busy
    <3> QED BY <2>2, <3>1 DEF Starved, Queues
  <2>5. CASE SubmitSteer(i) \/ SubmitRefused(i)
    <3>1. starting' = starting /\ (waiting' = waiting \/ starting) /\ queue' = queue
      BY <2>5 DEF SubmitSteer, SubmitRefused, Busy
    <3> QED BY <2>2, <3>1, SameQueues
  <2> QED BY <2>1, <2>3, <2>4, <2>5 DEF Submit
<1>2. CASE \E i \in Inputs : EnqueueFollowup(i) BY <1>2, DrainQueues DEF EnqueueFollowup
<1>3. CASE \E i \in Inputs : Remove(i)
  <2>1. queue # <<>> BY <1>3 DEF Remove
  <2> QED BY <1>3, <2>1, SameQueues DEF Remove, turn
<1>4. CASE \E cs \in {"user", "interrupt"} : Cancel(cs)
  <2>1. /\ queue' = queue \/ queue' = <<>>
        /\ active' = active /\ starting' = starting /\ offline' = offline /\ closed' = closed /\ balked' = balked
    BY <1>4 DEF Cancel, Discards, turn
  <2>2. waiting' = waiting \/ starting BY <1>4 DEF Cancel, Interrupt, Busy
  <2> QED BY <2>1, <2>2, SameQueues
<1>5. CASE InterruptTurn
  <2>1. waiting' = waiting BY <1>5 DEF InterruptTurn, Interrupt
  <2> QED BY <1>5, <2>1, SameQueues DEF InterruptTurn, turn, history
<1>6. CASE ConnectionRestored BY <1>6, DrainQueues DEF ConnectionRestored, history
<1>7. CASE PermanentLoss BY <1>7 DEF PermanentLoss, Starved, Queues
<1>8. CASE UNCHANGED vars BY <1>8, SameQueues DEF vars, turn, history
<1>9. CASE DrainContinues BY <1>9, DrainQueues DEF DrainContinues, history
<1>10. CASE SteerResumes
  <2>1. balked' = balked /\ waiting' = waiting /\ active' = active /\ offline' = offline /\ closed' = closed BY <1>10 DEF SteerResumes, history
  <2>2. CASE Head(micro).t = 0 BY <1>10, <2>1, <2>2, DrainQueues DEF SteerResumes
  <2>3. CASE Head(micro).t # 0 BY <1>10, <2>1, <2>3, SameQueues DEF SteerResumes
  <2> QED BY <2>2, <2>3
<1>11. CASE SteerContinues BY <1>11, SteerSettles, SameQueues DEF SteerContinues
<1>12. CASE InterruptResumes \/ InterruptContinues BY <1>12, SameQueues DEF InterruptResumes, InterruptContinues, turn
<1>13. CASE Chunk \/ Claim BY <1>13, SameQueues DEF Chunk, Claim, turn, history
<1>14. CASE \E b : TurnOver(b) /\ waiting' = waiting /\ balked' = balked
  <2>1. PICK b : TurnOver(b) /\ waiting' = waiting /\ balked' = balked BY <1>14
  <2>2. PICK q : Drain(q, 0, starting, {}) /\ active' = 0 BY <2>1 DEF TurnOver
  <2> QED BY <2>1, <2>2, DrainQueues
<1>15. CASE ForceClose
  <2>1. waiting' = waiting /\ balked' = balked BY <1>15 DEF ForceClose
  <2>2. CASE active = force BY <1>14, <1>15, <2>1, <2>2 DEF ForceClose
  <2>3. CASE active # force BY <1>15, <2>1, <2>3, SameQueues DEF ForceClose
  <2> QED BY <2>2, <2>3
<1>16. CASE Completed
  <2>1. waiting' = waiting /\ balked' = balked BY <1>16 DEF Completed
  <2>2. CASE ~\E b : TurnOver(b)
    <3>1. queue' = queue /\ active' = active /\ starting' = starting /\ offline' = offline /\ closed' = closed
      BY <1>16, <2>2 DEF Completed
    <3> QED BY <2>1, <3>1, SameQueues
  <2> QED BY <1>14, <2>1, <2>2
<1> QED BY <1>1, <1>2, <1>3, <1>4, <1>5, <1>6, <1>7, <1>8, <1>9, <1>10, <1>11, <1>12, <1>13, <1>15, <1>16 DEF Calls

LEMMA MovesStep ==
  ASSUME Typed, Serves, Down, \A t \in Turns : Sequenced(t) /\ Opened(t), \A i \in Inputs : Lone(i) /\ Chance(i),
         fell' = {}, 0 \notin ended,
         \/ Calls \/ DrainContinues \/ SteerResumes \/ SteerContinues \/ InterruptResumes \/ InterruptContinues
         \/ ForceClose \/ Chunk \/ Claim \/ Completed
  PROVE  Moves /\ Queues
BY QueuesStep, CallsMoves, ContinuesMoves, LineMoves, CompletedMoves, ForceCloseMoves

LEMMA SameSets ==
  /\ AnyStart' = AnyStart /\ AnyStarted' = AnyStarted /\ Turns' = Turns /\ Turn' = Turn
  /\ \A t : /\ Named(t)' = Named(t) /\ Opening(t)' = Opening(t) /\ GoingTo(t)' = GoingTo(t) /\ Begins(t)' = Begins(t)
            /\ Ends(t)' = Ends(t) /\ Stops(t)' = Stops(t) /\ Stopped(t)' = Stopped(t)
  /\ \A c : AnswersTo(c)' = AnswersTo(c) /\ \A t : Tells(c, t)' = Tells(c, t)
  /\ \A i : /\ Starts(i)' = Starts(i) /\ StartAnswers(i)' = StartAnswers(i) /\ Steers(i)' = Steers(i)
            /\ StartLinesOf(i)' = StartLinesOf(i) /\ SteerLines(i)' = SteerLines(i) /\ SteerAnswers(i)' = SteerAnswers(i)
            /\ OkSteer(i)' = OkSteer(i) /\ OkSteered(i)' = OkSteered(i) /\ \A t : SteersInto(i, t)' = SteersInto(i, t)
<1>1. AnyStart' = AnyStart /\ Turns' = Turns /\ Turn' = Turn BY DEF AnyStart, Turns, Turn
<1>2. \A i : Starts(i)' = Starts(i) /\ Steers(i)' = Steers(i) /\ \A t : Stopping(t)' = Stopping(t) BY <1>1 DEF Starts, Steers, Stopping, Who
<1>3. \A t : /\ Named(t)' = Named(t) /\ Opening(t)' = Opening(t) /\ Begins(t)' = Begins(t)
             /\ Ends(t)' = Ends(t) /\ Stops(t)' = Stops(t) /\ Stopped(t)' = Stopped(t)
  BY <1>1, <1>2 DEF Named, Opening, Begins, Ends, Stops, Stopped
<1>4. \A t : GoingTo(t)' = GoingTo(t) BY DEF GoingTo, Who
<1>5. AnyStarted' = AnyStarted /\ \A c : AnswersTo(c)' = AnswersTo(c) /\ \A t : Tells(c, t)' = Tells(c, t)
  BY <1>1 DEF AnyStarted, AnswersTo, Tells, Answers
<1>6. \A i : /\ StartAnswers(i)' = StartAnswers(i)
            /\ StartLinesOf(i)' = StartLinesOf(i) /\ SteerLines(i)' = SteerLines(i) /\ SteerAnswers(i)' = SteerAnswers(i)
            /\ OkSteer(i)' = OkSteer(i) /\ OkSteered(i)' = OkSteered(i) /\ \A t : SteersInto(i, t)' = SteersInto(i, t)
  BY <1>1, <1>2 DEF StartAnswers, StartLinesOf, SteerLines, SteerAnswers, OkSteer, OkSteered, SteersInto, Answers
<1> QED BY <1>1, <1>2, <1>3, <1>4, <1>5, <1>6

LEMMA LatelyNext ==
  ASSUME NEW t
  PROVE  /\ Lately(t)' <=> Has(micro', Named(t)) \/ \E c \in AnyStart : Has(wait', {c}) /\ Has(inbox', Tells(c, t))
         /\ Will(t)' <=> srv'.t = t \/ Has(inbox', Ends(t))
BY SameSets DEF Lately, Will

(* A turn/start is sent: its input was not asked for.                         *)
LEMMA StartsWithFacts ==
  ASSUME Typed, Single, NEW c \in AnyStart, StartsWith(c), Moves, Rest, \A i \in Inputs : Chance(i)
  PROVE  /\ Adds(wait, wait', c) /\ Adds(toSrv, toSrv', c) /\ ~Has(wait, AnyStart) /\ ~Has(micro, AnyStarted)
         /\ c.i \in Inputs /\ c \in Starts(c.i) /\ c \in Call
         /\ ~Has(toSrv, Starts(c.i)) /\ ~Has(inbox, StartLinesOf(c.i))
<1>1. c.i \in Inputs /\ c \in Starts(c.i) /\ c \in Call BY DEF AnyStart, Starts, Call
<1>2. Adds(wait, wait', c) /\ Adds(toSrv, toSrv', c) BY <1>1, TypedParts, Adding DEF StartsWith, Asks
<1>3. Open(c.i)
  <2>1. Hands(c.i) BY <1>1 DEF Moves
  <2>2. toSrv \in Seq(Call) /\ toSrv' = Append(toSrv, c) BY TypedParts DEF StartsWith, Asks
  <2>3. toSrv' # toSrv BY <1>1, <2>2
  <2>4. ASSUME NEW d \in Call, Asks(d) PROVE d = c
    <3>1. Append(toSrv, d)[Len(toSrv) + 1] = d /\ Append(toSrv, c)[Len(toSrv) + 1] = c BY <1>1, <2>2
    <3> QED BY <2>2, <2>4, <3>1 DEF Asks
  <2> QED BY <1>1, <2>1, <2>3, <2>4 DEF Hands
<1>4. Unsent(c.i) \/ InSteers(c.i) BY <1>3 DEF Open
<1>5. Chance(c.i) /\ Unheard(c.i) BY <1>1 DEF Rest
<1> QED BY <1>1, <1>2, <1>4, <1>5 DEF StartsWith, Single, Chance, Unheard

(* ... or none is.                                                            *)
LEMMA NoStartFacts ==
  ASSUME Typed, Moves, ~\E c \in AnyStart : StartsWith(c)
  PROVE  /\ starting' = starting /\ started' \subseteq started
         /\ started' = {} \/ (active' = active /\ (ended' = ended \/ active # 0))
         /\ \/ wait' = wait /\ toSrv' = toSrv
            \/ \E e \in Call \ AnyStart : Asks(e) /\ Adds(wait, wait', e) /\ Adds(toSrv, toSrv', e)
<1>1. (AsksNothing \/ AsksInto) /\ started' \subseteq started
      /\ (started' = {} \/ (active' = active /\ (ended' = ended \/ active # 0)))
  BY DEF Moves, Feeds
<1>2. CASE AsksInto
  <2>1. PICK t \in Turns : \E e \in Into(t) : Asks(e) /\ starting' = starting /\ e \in Call BY <1>2 DEF AsksInto
  <2>2. PICK e \in Into(t) : Asks(e) /\ starting' = starting /\ e \in Call BY <2>1
  <2>3. e \notin AnyStart BY <2>2, CallOf
  <2> QED BY <1>1, <2>2, <2>3, TypedParts, Adding DEF Asks
<1> QED BY <1>1, <1>2 DEF AsksNothing

LEMMA MovesAsking ==
  ASSUME Typed, Single, Flow', Moves, Queues, Rest, \A i \in Inputs : Chance(i)
  PROVE  Asking'
<1>1. Asking BY DEF Rest
<1>2. /\ \A H : Has(inbox', H) => Has(inbox, H)
      /\ \A H : Has(micro', H) => Has(micro, H)
      /\ Has(micro, AnyStarted) => Has(micro', AnyStarted)
  BY DEF Moves, Talks, Shorter, Continued
<1>3. 0 \notin ended' /\ (active' \in ended' => active \in ended /\ active' = active) BY DEF Moves
<1>4. Starved' => balked' BY <1>1 DEF Asking, Queues
<1>5. ~Has(inbox', Opening(0)) /\ ~Has(micro', Named(0)) BY <1>1, <1>2 DEF Asking
<1>6. CASE \E c \in AnyStart : StartsWith(c)
  <2>1. PICK c \in AnyStart : StartsWith(c) BY <1>6
  <2>2. starting' /\ active' = 0 /\ Has(wait', AnyStart) BY <2>1, StartsWithFacts DEF StartsWith, Adds
  <2>3. \A t \in Turns : ~Has(micro', GoingTo(t))
    <3>1. ~Has(micro', GoingInto) BY <2>2 DEF Flow, GoingInto, Going, Turn, Who
    <3>2. \A t \in Turns : GoingTo(t) \subseteq GoingInto BY DEF GoingTo, GoingInto, Going, Turns
    <3> QED BY <3>1, <3>2 DEF Has
  <2> QED BY <1>3, <1>4, <1>5, <2>2, <2>3, SameSets DEF Asking
<1>7. CASE ~\E c \in AnyStart : StartsWith(c)
  <2>1. /\ starting' = starting /\ started' \subseteq started
        /\ started' = {} \/ (active' = active /\ (ended' = ended \/ active # 0))
        /\ Has(wait, AnyStart) => Has(wait', AnyStart)
    BY <1>7, NoStartFacts DEF Adds
  <2>2. waiting' # <<>> => starting' BY <1>1, <2>1 DEF Asking, Queues
  <2>3. starting' => (Has(wait', AnyStart) \/ Has(micro', AnyStarted)) /\ active' \notin ended' BY <1>1, <1>2, <1>3, <2>1 DEF Asking
  <2>4. \A t \in Turns : Has(micro', GoingTo(t)) => ~starting' BY <1>1, <1>2, <2>1 DEF Asking
  <2>5. started' # {} /\ ~starting' => active' # 0 /\ active' \notin ended' BY <1>1, <1>3, <2>1 DEF Asking
  <2> QED BY <1>3, <1>4, <1>5, <2>2, <2>3, <2>4, <2>5, SameSets DEF Asking
<1> QED BY <1>6, <1>7

LEMMA MovesAskedFor ==
  ASSUME Typed, Single, Moves, Rest, NEW i \in Inputs, \A j \in Inputs : Chance(j) PROVE AskedFor(i)'
<1>1. Asking /\ AskedFor(i) BY DEF Rest
<1>2. \A H : Has(micro', H) => Has(micro, H) BY DEF Moves, Talks, Shorter
<1>3. Asked(i)' <=> Has(wait', Starts(i)) \/ Has(micro', StartAnswers(i)) BY SameSets DEF Asked
<1>4. CASE \E c \in AnyStart : StartsWith(c)
  <2>1. PICK c \in AnyStart : StartsWith(c) BY <1>4
  <2>2. Adds(wait, wait', c) /\ ~Has(wait, AnyStart) /\ ~Has(micro, AnyStarted) BY <2>1, StartsWithFacts
  <2>3. Starts(i) \subseteq AnyStart /\ StartAnswers(i) \subseteq AnyStarted BY DEF Starts, AnyStart, StartAnswers, AnyStarted
  <2>4. Asked(i)' => c \in Starts(i) BY <1>2, <1>3, <2>2, <2>3 DEF Adds, Has
  <2>5. Asked(i)' => c.i = i BY <2>4 DEF Starts
  <2>6. started' \subseteq {c.i} BY <1>1, <2>1 DEF StartsWith, Asking
  <2> QED BY <2>5, <2>6 DEF AskedFor
<1>5. CASE ~\E c \in AnyStart : StartsWith(c)
  <2>1. started' \subseteq started /\ (started' = {} \/ active' = active) BY <1>5, NoStartFacts
  <2>2. Starts(i) \subseteq AnyStart BY DEF Starts, AnyStart
  <2>3. Has(wait', Starts(i)) => Has(wait, Starts(i)) BY <1>5, <2>2, NoStartFacts DEF Adds
  <2> QED BY <1>1, <1>2, <1>3, <2>1, <2>3 DEF AskedFor, Asked
<1> QED BY <1>4, <1>5

LEMMA MovesSole ==
  ASSUME Typed, Single, Moves, Rest, NEW c \in AnyStart, \A i \in Inputs : Chance(i) PROVE Sole(c)'
<1>1. Sole(c) BY DEF Rest
<1>2. \A H : Has(inbox', H) => Has(inbox, H) BY DEF Moves, Talks, Shorter
<1> SUFFICES ASSUME Has(wait', {c})
             PROVE  Before(toSrv', {c}, AnyStart) /\ (Has(inbox', AnswersTo(c)) => ~Has(toSrv', AnyStart))
  BY SameSets DEF Sole
<1>3. CASE \E d \in AnyStart : StartsWith(d)
  <2>1. PICK d \in AnyStart : StartsWith(d) BY <1>3
  <2>2. /\ Adds(wait, wait', d) /\ Adds(toSrv, toSrv', d) /\ ~Has(wait, AnyStart)
        /\ d \in Starts(d.i) /\ ~Has(toSrv, Starts(d.i)) /\ ~Has(inbox, StartLinesOf(d.i))
    BY <2>1, StartsWithFacts
  <2>3. c = d BY <2>2 DEF Adds, Has
  <2>4. ~Has(toSrv, {c}) BY <2>2, <2>3 DEF Has
  <2>5. ~Has(inbox, AnswersTo(c)) BY <2>2, <2>3 DEF Has, AnswersTo, StartLinesOf
  <2>6. Before(toSrv, {c}, AnyStart) BY <2>4 DEF Before, Has
  <2> QED BY <1>2, <2>2, <2>4, <2>5, <2>6 DEF Adds
<1>4. CASE ~\E d \in AnyStart : StartsWith(d)
  <2>1. Has(wait, {c}) /\ (Before(toSrv, {c}, AnyStart) => Before(toSrv', {c}, AnyStart)) /\ (Has(toSrv', AnyStart) => Has(toSrv, AnyStart))
    BY <1>4, NoStartFacts DEF Adds
  <2> QED BY <1>1, <1>2, <2>1 DEF Sole
<1> QED BY <1>3, <1>4

LEMMA MovesLately ==
  ASSUME Typed, Single, Moves, Rest, NEW t \in Turns, \A i \in Inputs : Chance(i), Lately(t)'
  PROVE  Lately(t) /\ starting
<1>1. /\ \A H : Has(inbox', H) => Has(inbox, H)
      /\ \A H : Has(micro', H) => Has(micro, H)
  BY DEF Moves, Talks, Shorter
<1>2. CASE Has(micro', Named(t))
  <2>1. Has(micro, Named(t)) /\ Named(t) \subseteq AnyStarted BY <1>1, <1>2 DEF Named, AnyStarted, Turns, Answers
  <2> QED BY <2>1 DEF Lately, Single, Has
<1>3. CASE \E c \in AnyStart : Has(wait', {c}) /\ Has(inbox', Tells(c, t))
  <2>1. PICK c \in AnyStart : Has(wait', {c}) /\ Has(inbox, Tells(c, t)) BY <1>1, <1>3
  <2>2. Has(wait, {c})
    <3>1. CASE \E d \in AnyStart : StartsWith(d)
      <4>1. PICK d \in AnyStart : StartsWith(d) BY <3>1
      <4>2. Adds(wait, wait', d) /\ d \in Starts(d.i) /\ ~Has(inbox, StartLinesOf(d.i)) BY <4>1, StartsWithFacts
      <4>3. Tells(d, t) \subseteq StartLinesOf(d.i) BY <4>2 DEF Tells, StartLinesOf, Answers, Turns
      <4>4. c # d BY <2>1, <4>2, <4>3 DEF Has
      <4> QED BY <2>1, <4>2, <4>4 DEF Adds
    <3>2. CASE ~\E d \in AnyStart : StartsWith(d)
      <4>1. wait' = wait \/ \E e \in Call \ AnyStart : Adds(wait, wait', e) BY <3>2, NoStartFacts
      <4> QED BY <2>1, <4>1 DEF Adds
    <3> QED BY <3>1, <3>2
  <2> QED BY <2>1, <2>2 DEF Lately, Single, Has
<1> QED BY <1>2, <1>3, LatelyNext

LEMMA MovesLasts ==
  ASSUME Typed, Single, Moves, Rest, NEW t \in Turns, \A i \in Inputs : Chance(i) PROVE Lasts(t)'
<1>1. Lasts(t) BY DEF Rest
<1>2. /\ \A H : Has(inbox', H) => Has(inbox, H)
      /\ \A H : Has(micro', H) => Has(micro, H)
      /\ srv' = srv /\ active' \in {active, 0} /\ ended \subseteq ended'
      /\ \A u \in Turns : /\ Has(inbox, Begins(u)) => Has(inbox', Begins(u))
                          /\ Has(inbox, Ends(u)) /\ u \notin ended' => Has(inbox', Ends(u))
      /\ active' \in ended' => active \in ended /\ active' = active
  BY DEF Moves, Talks, Shorter
<1>3. t \in ended \/ Will(t) => t \in ended' \/ Will(t)' BY <1>2, LatelyNext DEF Will
<1>4. t # 0 BY DEF Turns
<1>5. Lately(t)' => Lately(t) /\ starting BY MovesLately
<1>6. active' = t \/ Has(inbox', Begins(t)) => t \in ended' \/ Will(t)' \/ \E u \in Turns : t < u /\ Has(inbox', Begins(u))
  BY <1>1, <1>2, <1>3, <1>4 DEF Lasts
<1>7. Has(micro', Named(t)) => ~Has(toSrv', AnyStart)
  <2> SUFFICES ASSUME Has(micro', Named(t)) PROVE ~Has(toSrv', AnyStart) OBVIOUS
  <2>1. starting BY <1>5, LatelyNext
  <2>2. ~Has(toSrv, AnyStart) BY <1>1, <1>2 DEF Lasts
  <2> QED BY <2>1, <2>2, NoStartFacts DEF Adds, StartsWith
<1>8. Lately(t)' /\ t \in ended' /\ active' = 0 => started' = {}
  <2> SUFFICES ASSUME Lately(t)', t \in ended', active' = 0 PROVE started' = {} OBVIOUS
  <2>1. Lately(t) /\ starting BY <1>5
  <2>2. started' \subseteq started /\ (started' = {} \/ (active' = active /\ (ended' = ended \/ active # 0)))
    BY <2>1, NoStartFacts DEF StartsWith
  <2> QED BY <1>1, <2>1, <2>2 DEF Lasts
<1>9. active' \in ended' /\ Has(micro', GoingTo(t)) => t = active' BY <1>1, <1>2 DEF Lasts
<1> QED BY <1>1, <1>3, <1>5, <1>6, <1>7, <1>8, <1>9, SameSets DEF Lasts

LEMMA MovesOpened ==
  ASSUME Typed, Moves, Rest, NEW t \in Turns PROVE Opened(t)'
<1>1. Opened(t) BY DEF Rest
<1>2. /\ \A H : Has(inbox', H) => Has(inbox, H)
      /\ \A A, B : Before(inbox, A, B) => Before(inbox', A, B)
      /\ \A H : Has(micro', H) => Has(micro, H)
      /\ force' \in {force, 0} \/ Has(micro, Stopped(force'))
      /\ t \in ended' \ ended => ~Has(inbox', Begins(t))
  BY DEF Moves, Talks, Shorter
<1>3. t # 0 BY DEF Turns
<1>4. Before(inbox', Stops(t), Begins(t)) BY <1>1, <1>2 DEF Opened
<1>5. force' = t \/ Has(micro', Stopped(t)) \/ t \in ended' => ~Has(inbox', Begins(t)) BY <1>1, <1>2, <1>3 DEF Opened
<1> QED BY <1>4, <1>5, SameSets DEF Opened

LEMMA MovesUnheard ==
  ASSUME Typed, Moves, Rest, NEW i \in Inputs, Lone(i)' PROVE Unheard(i)'
<1>1. Unheard(i) /\ Hands(i) BY DEF Rest, Moves
<1>2. /\ \A H : Has(inbox', H) => Has(inbox, H)
      /\ \A H : Has(micro', H) => Has(micro, H)
  BY DEF Moves, Talks, Shorter
<1>3. (Unsent(i)' \/ InSteers(i)' => Unsent(i) \/ InSteers(i)) /\ (Fresh(i)' => Fresh(i)) BY <1>1 DEF Hands, Unsent, Open
<1>4. Fresh(i)' => ~Has(wait', Steers(i))
  <2> SUFFICES ASSUME Fresh(i)', Has(wait', Steers(i)) PROVE FALSE OBVIOUS
  <2>1. ~Has(wait, Steers(i)) BY <1>1, <1>3 DEF Unheard
  <2>2. wait' # wait /\ (AsksNothing \/ AsksStart \/ AsksInto) BY <2>1 DEF Moves, Talks
  <2>3. PICK e \in Call : Asks(e) BY <2>2, CallOf DEF AsksNothing, AsksStart, AsksInto, AnyStart, Call
  <2>4. Adds(wait, wait', e) /\ toSrv \in Seq(Call) BY <2>3, TypedParts, Adding DEF Asks
  <2>5. e \in Steers(i) BY <2>1, <2>4 DEF Adds
  <2>6. ASSUME NEW d \in Call, Asks(d) PROVE d = e
    <3>1. Append(toSrv, d)[Len(toSrv) + 1] = d /\ Append(toSrv, e)[Len(toSrv) + 1] = e BY <2>4
    <3> QED BY <2>3, <2>6, <3>1 DEF Asks
  <2>7. toSrv' # toSrv BY <2>3, <2>4 DEF Asks
  <2>8. InSteers(i)' BY <1>1, <2>5, <2>6, <2>7 DEF Hands
  <2> QED BY <2>8 DEF Lone, Waits, Fresh
<1> QED BY <1>1, <1>2, <1>3, <1>4, SameSets DEF Unheard

LEMMA MovesDoomed ==
  ASSUME Typed, Moves, Rest, NEW i \in Inputs, Lone(i), Lone(i)', Chance(i) PROVE Doomed(i)'
<1>1. Unheard(i) /\ Doomed(i) /\ Hands(i) /\ Joined(i) BY DEF Rest, Moves
<1>2. /\ \A H : Has(inbox', H) => Has(inbox, H)
      /\ \A H : Has(micro', H) => Has(micro, H)
  BY DEF Moves, Talks, Shorter
<1> SUFFICES ASSUME InSteers(i)', active' \in ended'
             PROVE  /\ ~Has(inbox', OkSteer(i)) /\ ~Has(micro', OkSteered(i))
                    /\ Has(wait', Steers(i)) \/ Has(micro', SteerAnswers(i))
                    /\ \A s \in Turns : Has(toSrv', SteersInto(i, s)) => s = active'
  BY SameSets DEF Doomed
<1>3. active \in ended /\ active' = active BY DEF Moves
<1>4. \A t \in Turns : Has(micro, GoingTo(t)) => t = active BY <1>3 DEF Rest, Lasts
<1>5. ASSUME NEW e \in Call, Asks(e) PROVE Adds(wait, wait', e) /\ Adds(toSrv, toSrv', e)
  BY <1>5, TypedParts, Adding DEF Asks
<1>6. CASE InSteers(i)
  <2>1. Has(wait, Steers(i)) => Has(wait', Steers(i))
    <3>1. wait' = wait \/ \E e \in Call : Asks(e) BY DEF Moves, Talks, AsksNothing, AsksStart, AsksInto, AnyStart, Call
    <3> QED BY <1>5, <3>1 DEF Adds
  <2>2. Has(micro, SteerAnswers(i)) => Has(micro', SteerAnswers(i)) BY <1>1, <1>3, <1>6 DEF Moves, Continued, Doomed
  <2>3. \A s : Has(toSrv', SteersInto(i, s)) => Has(toSrv, SteersInto(i, s))
    <3>1. ~Fresh(i) BY <1>6 DEF Lone, Waits, Fresh
    <3>2. \A s : SteersInto(i, s) \cap Call \subseteq Steers(i) BY CallOf
    <3> QED BY <1>1, <1>5, <3>1, <3>2 DEF Hands, Adds
  <2> QED BY <1>1, <1>2, <1>3, <1>6, <2>1, <2>2, <2>3 DEF Doomed
<1>7. CASE ~InSteers(i)
  <2>1. PICK t \in Turns : \E c \in SteersInto(i, t) : Asks(c) /\ Fresh(i) /\ (active = t \/ Has(micro, GoingTo(t)))
    BY <1>1, <1>7 DEF Joined
  <2>2. PICK c \in SteersInto(i, t) : Asks(c) /\ Fresh(i) /\ t = active BY <1>4, <2>1
  <2>3. c \in Steers(i) /\ c \in Call /\ c.t = t BY <2>2 DEF SteersInto, Steers, Call, Turns
  <2>4. Adds(wait, wait', c) /\ Adds(toSrv, toSrv', c) BY <1>5, <2>2, <2>3
  <2>5. Has(wait', Steers(i)) BY <2>3, <2>4 DEF Adds
  <2>6. OkSteer(i) \subseteq SteerLines(i) /\ OkSteered(i) \subseteq SteerAnswers(i)
    BY DEF OkSteer, OkSteered, SteerLines, SteerAnswers, Answers
  <2>7. ~Has(inbox', OkSteer(i)) /\ ~Has(micro', OkSteered(i)) BY <1>1, <1>2, <2>2, <2>6 DEF Unheard, Has
  <2>8. ASSUME NEW s \in Turns, Has(toSrv', SteersInto(i, s)) PROVE s = active'
    <3>1. ~Has(toSrv, SteersInto(i, s))
      <4>1. SteersInto(i, s) \subseteq Steers(i) BY DEF SteersInto, Steers, Turns
      <4>2. ~Has(toSrv, Steers(i)) BY <2>2 DEF Chance
      <4> QED BY <4>1, <4>2 DEF Has
    <3>2. c \in SteersInto(i, s) BY <2>4, <2>8, <3>1 DEF Adds
    <3> QED BY <1>3, <2>2, <2>3, <3>2 DEF SteersInto
  <2> QED BY <2>5, <2>7, <2>8
<1> QED BY <1>6, <1>7

(* Such a step keeps all of it.                                               *)
LEMMA MovesRest ==
  ASSUME Typed, Single, Flow', \A i \in Inputs : Lone(i) /\ Lone(i)' /\ Chance(i), Rest, Moves, Queues
  PROVE  Rest'
<1>1. Asking' /\ (\A c \in AnyStart : Sole(c)') BY MovesAsking, MovesSole
<1>2. \A t \in Turns : Lasts(t)' /\ Opened(t)' BY MovesLasts, MovesOpened
<1>3. \A i \in Inputs : AskedFor(i)' /\ Unheard(i)' /\ Doomed(i)' BY MovesAskedFor, MovesUnheard, MovesDoomed
<1> QED BY <1>1, <1>2, <1>3, SameSets DEF Rest

(* A turn/start that goes on: what was sent for it is done, or given up.      *)
LEMMA StartTurnMicro ==
  ASSUME Typed, StartTurnContinues, NEW H, Has(micro', H)
  PROVE  Has(micro, H) \/ \E z \in Continuation : z \in H /\ z.k # "answer"
<1>1. PICK d : d = [k |-> "drain"] BY Zenon
<1>2. d \in Continuation /\ d.k # "answer" BY <1>1, NewContinuations
<1>3. micro # <<>> /\ micro \in Seq(Continuation) BY TypedParts DEF StartTurnContinues
<1>4. Cuts(micro, Tail(micro), Head(micro)) /\ Tail(micro) \in Seq(Continuation) /\ Head(micro) \in Continuation BY <1>3, Cutting
<1>5. PICK t \in Turn :
        \/ micro' = Tail(micro) \o Resolved(t) \o <<d>>
        \/ micro' = Tail(micro) \o Resolved(t) \o <<>>
        \/ micro' = Tail(micro) \o Resolved(t)
  <2>1. Head(micro).t \in Turn BY <1>4, ContinuationFacts DEF StartTurnContinues
  <2> QED BY Zenon, <1>1, <2>1, ZeroIsTurn DEF StartTurnContinues
<1>6. PICK r, y, z : r = Resolved(t) /\ y = <<d>> /\ z = <<>> BY Zenon
<1>7. r \in Seq(Continuation) BY <1>6, ResolvedTurns
<1>8. y \in Seq(Continuation) /\ z \in Seq(Continuation) /\ (Has(y, H) => d \in H) /\ ~Has(z, H) BY <1>2, <1>6 DEF Has
<1>9. Has(r, H) => \E x \in Continuation : x \in H /\ x.k # "answer"
  <2> SUFFICES ASSUME NEW n \in DOMAIN r, r[n] \in H PROVE \E x \in Continuation : x \in H /\ x.k # "answer" BY DEF Has
  <2>1. r[n] \in Continuation /\ DOMAIN r = DOMAIN waiting BY <1>6, <1>7 DEF Resolved
  <2>2. r[n].k = "resume" BY <1>6, <2>1 DEF Resolved
  <2> QED BY <2>1, <2>2
<1>10. PICK w : w = Tail(micro) \o r BY Zenon
<1>11. w \in Seq(Continuation) /\ (Has(w, H) <=> Has(Tail(micro), H) \/ Has(r, H)) BY Zenon, <1>4, <1>7, <1>10, JoinFacts
<1>12. (Has(w \o y, H) <=> Has(w, H) \/ Has(y, H)) /\ (Has(w \o z, H) <=> Has(w, H) \/ Has(z, H)) BY <1>8, <1>11, JoinFacts
<1>13. micro' \in {w, w \o y, w \o z} BY Zenon, <1>5, <1>6, <1>10
<1> QED BY <1>2, <1>4, <1>8, <1>9, <1>11, <1>12, <1>13 DEF Cuts

LEMMA StartTurnRest ==
  ASSUME Typed, Single, Flow, StartTurnContinues, Rest PROVE Rest'
<1>1. /\ ~starting' /\ waiting' = <<>> /\ wait' = wait /\ toSrv' = toSrv /\ inbox' = inbox /\ srv' = srv /\ ended' = ended
      /\ queue' = queue /\ steered' = steered /\ force' = force /\ new' = new /\ balked' = (Head(micro).r # "ok")
  BY DEF StartTurnContinues, link, server
<1>2. PICK x \in AnyStarted, n \in Turn :
        /\ x = Head(micro) /\ Has(micro, {x}) /\ x \in Continuation
        /\ (x.r = "ok" /\ n = x.t /\ active' = IF active = 0 THEN n ELSE active) \/ (n = 0 /\ active' = active)
        /\ \A u \in Turns :
             /\ Has(micro', Stopped(u)) => Has(micro, Stopped(u))
             /\ Has(micro', GoingTo(u)) => Has(micro, GoingTo(u)) \/ u = n
        /\ Once(micro, AnyStarted) => ~Has(micro', AnyStarted)
        /\ x.r = "ok" /\ n = x.t => Has(micro, Named(n))
        /\ \A i \in Inputs : Resumes(i)' <=> Resumes(i) \/ Joins(i)
  BY StartTaken
<1>3. Has(micro, AnyStarted) BY <1>2 DEF Has
<1>4. starting /\ ~Has(wait', AnyStart) /\ ~Has(micro', AnyStarted) BY <1>1, <1>2, <1>3 DEF Single
<1>5. Asking /\ active \notin ended BY <1>4 DEF Rest, Asking
<1>6. \A u \in Turn : ~Has(micro', Named(u))
  <2>1. \A u \in Turn : Named(u) \subseteq AnyStarted BY DEF Named, AnyStarted, Answers
  <2> QED BY <1>4, <2>1 DEF Has
<1>7. \A c \in AnyStart : ~Has(wait', {c}) BY <1>4 DEF Has
<1>8. x.r = "ok" => x.t \in Turns /\ Has(micro, Named(x.t)) /\ Lately(x.t)
  <2> SUFFICES ASSUME x.r = "ok" PROVE x.t \in Turns /\ Has(micro, Named(x.t)) /\ Lately(x.t) OBVIOUS
  <2>1. x.t \in Turn /\ x \in Named(x.t) BY <1>2, ContinuationOf, ContinuationFacts DEF AnyStarted
  <2>2. Has(micro, Named(x.t)) BY <1>2, <2>1 DEF Has
  <2> QED BY <1>5, <2>1, <2>2 DEF Asking, Turns, Lately
<1>9. /\ x.r = "ok" => started' = started /\ active' = IF active = 0 THEN x.t ELSE active
      /\ x.r # "ok" => started' = started \ {x.c.i} /\ active' = active
  BY <1>2 DEF StartTurnContinues
<1>10. Asking'
  <2>1. x.r = "ok" => active' # 0 BY <1>8, <1>9 DEF Turns
  <2>2. Starved' => balked' BY <1>1, <1>2, <2>1 DEF Starved
  <2>3. ~Has(inbox', Opening(0)) /\ ~Has(micro', Named(0)) /\ 0 \notin ended' BY <1>1, <1>5, <1>6, ZeroIsTurn DEF Asking
  <2>4. started' # {} => active' # 0 /\ active' \notin ended'
    <3>1. CASE active # 0 BY <1>1, <1>5, <1>9, <3>1
    <3>2. CASE active = 0 /\ x.r = "ok"
      <4>1. Lasts(x.t) BY <1>8, <3>2 DEF Rest
      <4> QED BY <1>1, <1>8, <1>9, <2>1, <3>2, <4>1 DEF Lasts
    <3>3. CASE active = 0 /\ x.r # "ok"
      <4>1. x.c.i \in Inputs /\ x \in StartAnswers(x.c.i) BY <1>2, AnswerOf DEF AnyStarted, AnyStart
      <4>2. Asked(x.c.i) /\ AskedFor(x.c.i) BY <1>2, <4>1 DEF Asked, Has, Rest
      <4> QED BY <1>9, <3>3, <4>2 DEF AskedFor
    <3> QED BY <3>1, <3>2, <3>3
  <2> QED BY <1>1, <2>2, <2>3, <2>4, SameSets DEF Asking
<1>11. ASSUME NEW u \in Turns PROVE Lasts(u)' /\ Opened(u)'
  <2>1. ~Lately(u)' /\ (Will(u)' <=> Will(u)) BY <1>1, <1>6, <1>7, LatelyNext DEF Will, Turns
  <2>2. Lasts(u) /\ Opened(u) BY DEF Rest
  <2>3. active' = u => active = u \/ Lately(u) BY <1>8, <1>9
  <2>4. active' = u \/ Has(inbox', Begins(u)) => u \in ended' \/ Will(u)' \/ \E v \in Turns : u < v /\ Has(inbox', Begins(v))
    BY <1>1, <2>1, <2>2, <2>3 DEF Lasts
  <2>5. active' \in ended' /\ Has(micro', GoingTo(u)) => u = active'
    <3> SUFFICES ASSUME active' \in ended', Has(micro', GoingTo(u)) PROVE u = active' OBVIOUS
    <3>1. ~Has(micro, GoingTo(u)) BY <1>4, <1>5 DEF Asking
    <3>2. u = n /\ n # 0 BY <1>2, <3>1 DEF Turns
    <3> QED BY <1>1, <1>2, <1>5, <3>2
  <2>6. Lasts(u)' BY <1>6, <2>1, <2>4, <2>5, SameSets DEF Lasts, Turns
  <2>7. Opened(u)' BY <1>1, <1>2, <2>2, SameSets DEF Opened
  <2> QED BY <2>6, <2>7
<1>12. ASSUME NEW c \in AnyStart PROVE Sole(c)' BY <1>7, SameSets DEF Sole
<1>13. ASSUME NEW i \in Inputs PROVE AskedFor(i)' /\ Unheard(i)' /\ Doomed(i)'
  <2>1. ~Asked(i)'
    <3>1. Starts(i) \subseteq AnyStart /\ StartAnswers(i) \subseteq AnyStarted BY DEF Starts, AnyStart, StartAnswers, AnyStarted
    <3> QED BY <1>4, <3>1, SameSets DEF Asked, Has
  <2>2. (Fresh(i)' => Fresh(i)) /\ (InQueue(i)' <=> InQueue(i)) /\ (InSteers(i)' <=> InSteers(i))
    <3>1. ~Joins(i)' BY <1>1, EmptyFacts DEF Joins
    <3> QED BY <1>1, <1>2, <3>1, PlacedNext DEF Fresh
  <2>3. Has(micro', SteerAnswers(i)) => Has(micro, SteerAnswers(i))
    <3>1. \A z \in SteerAnswers(i) : z.k = "answer" BY DEF SteerAnswers
    <3> QED BY <3>1, StartTurnMicro
  <2>4. Unheard(i) BY DEF Rest
  <2>5. Unheard(i)' BY <1>1, <2>2, <2>3, <2>4, SameSets DEF Unheard, Unsent
  <2>6. ~(InSteers(i)' /\ active' \in ended')
    <3> SUFFICES ASSUME InSteers(i) PROVE active' \notin ended' BY <2>2
    <3>1. active # 0 BY DEF Flow, InSteers, Has
    <3> QED BY <1>1, <1>5, <1>9, <3>1
  <2> QED BY <2>1, <2>5, <2>6, SameSets DEF AskedFor, Doomed
<1> QED BY <1>10, <1>11, <1>12, <1>13, SameSets DEF Rest

(* A call that is awaited is answered: the line goes to its continuation.     *)
LEMMA AnsweredRest ==
  ASSUME Typed, Answered, Rest PROVE Rest'
<1>1. /\ starting' = starting /\ waiting' = waiting /\ toSrv' = toSrv /\ srv' = srv /\ ended' = ended /\ active' = active
      /\ queue' = queue /\ steered' = steered /\ started' = started /\ force' = force /\ new' = new /\ balked' = balked
      /\ offline' = offline /\ closed' = closed
      /\ wait' = wait \/ wait' = Without(wait, Head(inbox).c)
  BY DEF Answered, turn, server, history
<1>2. PICK a \in Output :
        /\ a = Head(inbox) /\ a.m = "answer" /\ Cuts(inbox, inbox', a) /\ Thins(wait, wait')
        /\ \A t : Has(inbox, Begins(t)) => Has(inbox', Begins(t))
        /\ \/ wait' = wait /\ micro' = micro
           \/ \E x \in Continuation :
                /\ Adds(micro, micro', x) /\ Has(wait, {a.c}) /\ a.c \in Call
                /\ x.k = "answer" /\ x.c = a.c /\ x.r = a.r /\ x.t = a.t
  BY AnswerTaken
<1>3. \A H : (Has(inbox', H) => Has(inbox, H)) /\ (Has(wait', H) => Has(wait, H)) /\ (Has(inbox, H) => Has(inbox', H) \/ a \in H)
  BY <1>2 DEF Cuts, Thins
<1>4. \A t : a \notin Ends(t) BY <1>2, OutputOf
<1>5. ASSUME NEW G, NEW H,
             \A x \in Continuation : x.k = "answer" /\ x.c = a.c /\ x.r = a.r /\ x.t = a.t /\ x \in H => a \in G
      PROVE  Has(micro', H) => Has(micro, H) \/ (a \in G /\ Has(inbox, G) /\ Has(wait, {a.c}) /\ a.c \in Call)
  BY <1>2, <1>5 DEF Adds, Cuts
<1>6. ASSUME NEW H \in SUBSET Call, NEW G,
             \A x \in Continuation : x.k = "answer" /\ x.c = a.c /\ a.c \in H => x \in G
      PROVE  Has(wait, H) \/ Has(micro, G) => Has(wait', H) \/ Has(micro', G)
  <2>1. wait \in Seq(Call) BY TypedParts
  <2>2. Has(wait, H) => Has(wait', H) \/ (a.c \in H /\ wait' # wait) BY <1>1, <1>2, <2>1, WithoutKeeps
  <2> QED BY <1>2, <1>6, <2>2 DEF Adds
<1>7. \A t : Has(micro', GoingTo(t)) => Has(micro, GoingTo(t))
  <2> TAKE t
  <2>1. \A x \in GoingTo(t) : x.k # "answer" BY DEF GoingTo
  <2> QED BY <1>2, <2>1 DEF Adds
<1>8. \A t : Has(micro', Named(t)) => Has(micro, Named(t)) \/
               (a \in Opening(t) /\ a \in Tells(a.c, t) /\ Has(wait, {a.c}) /\ a.c \in AnyStart)
  <2> TAKE t
  <2>1. ASSUME NEW x \in Continuation, x.k = "answer", x.c = a.c, x.r = a.r, x.t = a.t, x \in Named(t)
        PROVE a \in {o \in Opening(t) : o \in Tells(o.c, t) /\ o.c \in AnyStart}
    <3>1. a.c \in Call BY <1>2, OutputFacts
    <3>2. a.c \in AnyStart /\ a.r = "ok" /\ a.t = t /\ a \in Opening(t) BY <1>2, <2>1, <3>1, ContinuationOf, CallOf, OutputOf
    <3>3. a \in Tells(a.c, t) BY <1>2, <3>2 DEF Tells, Opening
    <3> QED BY <3>2, <3>3
  <2>2. Has(micro', Named(t)) => Has(micro, Named(t)) \/
          (a \in {o \in Opening(t) : o \in Tells(o.c, t) /\ o.c \in AnyStart} /\ Has(wait, {a.c}))
    BY <1>5, <2>1
  <2> QED BY <2>2
<1>9. Asking /\ Asking'
  <2>1. Asking BY DEF Rest
  <2>2. Has(wait, AnyStart) \/ Has(micro, AnyStarted) => Has(wait', AnyStart) \/ Has(micro', AnyStarted)
    <3>1. AnyStart \subseteq Call BY DEF AnyStart, Call
    <3>2. \A x \in Continuation : x.k = "answer" /\ x.c = a.c /\ a.c \in AnyStart => x \in AnyStarted
      BY ContinuationOf DEF AnyStart
    <3> QED BY <1>6, <3>1, <3>2
  <2>3. ~Has(micro', Named(0))
    <3>1. a \in Opening(0) => Has(inbox, Opening(0)) BY <1>2 DEF Cuts
    <3> QED BY <1>8, <2>1, <3>1 DEF Asking
  <2>4. Starved' => balked' BY <1>1, <2>1 DEF Starved, Asking
  <2> QED BY <1>1, <1>3, <1>7, <2>1, <2>2, <2>3, <2>4, SameSets DEF Asking
<1>10. \A c \in AnyStart : Sole(c) /\ Sole(c)'
  <2> TAKE c \in AnyStart
  <2>1. Sole(c) BY DEF Rest
  <2> QED BY <1>1, <1>3, <2>1, SameSets DEF Sole
<1>11. ASSUME NEW t \in Turns PROVE Lasts(t)' /\ Opened(t)'
  <2>1. Lasts(t) /\ Opened(t) BY DEF Rest
  <2>2. Will(t)' <=> Will(t) BY <1>1, <1>2, <1>4, LatelyNext DEF Will, Cuts
  <2>3. Lately(t)' => Lately(t)
    <3>1. a \in Tells(a.c, t) => Has(inbox, Tells(a.c, t)) BY <1>2 DEF Cuts
    <3> QED BY <1>3, <1>8, <3>1, LatelyNext DEF Lately
  <2>4. Has(micro', Named(t)) => ~Has(toSrv, AnyStart)
    <3>1. a.c \in AnyStart => a \in AnswersTo(a.c) BY <1>2, OutputOf
    <3>2. a.c \in AnyStart => Has(inbox, AnswersTo(a.c)) BY <1>2, <3>1 DEF Cuts
    <3> QED BY <1>8, <1>10, <2>1, <3>2 DEF Sole, Lasts
  <2>5. active' = t \/ Has(inbox', Begins(t)) => t \in ended' \/ Will(t)' \/ \E u \in Turns : t < u /\ Has(inbox', Begins(u))
    BY <1>1, <1>2, <1>3, <2>1, <2>2 DEF Lasts
  <2>6. Lasts(t)' BY <1>1, <1>7, <2>1, <2>2, <2>3, <2>4, <2>5, SameSets DEF Lasts
  <2>7. Has(micro', Stopped(t)) => Has(micro, Stopped(t)) \/ a \in Stops(t)
    <3>1. ASSUME NEW x \in Continuation, x.k = "answer", x.c = a.c, x.r = a.r, x.t = a.t, x \in Stopped(t) PROVE a \in Stops(t)
      BY <1>2, <3>1, ContinuationOf, OutputOf
    <3> QED BY <1>5, <3>1
  <2>8. Before(inbox', Stops(t), Begins(t)) /\ (a \in Stops(t) => ~Has(inbox', Begins(t))) BY <1>2, <2>1 DEF Opened, Cuts
  <2>9. Opened(t)' BY <1>1, <1>3, <2>1, <2>7, <2>8, SameSets DEF Opened
  <2> QED BY <2>6, <2>9
<1>12. ASSUME NEW i \in Inputs PROVE AskedFor(i)' /\ Unheard(i)' /\ Doomed(i)'
  <2>1. AskedFor(i) /\ Unheard(i) /\ Doomed(i) BY DEF Rest
  <2>2. Asked(i)' => Asked(i)
    <3>1. ASSUME NEW x \in Continuation, x.k = "answer", x.c = a.c, x.r = a.r, x.t = a.t, x \in StartAnswers(i)
          PROVE a \in {o \in Output : o.c \in Starts(i)}
      BY <3>1 DEF StartAnswers
    <3>2. Has(micro', StartAnswers(i)) => Has(micro, StartAnswers(i)) \/ (a.c \in Starts(i) /\ Has(wait, {a.c})) BY <1>5, <3>1
    <3>3. a.c \in Starts(i) /\ Has(wait, {a.c}) => Has(wait, Starts(i)) BY DEF Has
    <3> QED BY <1>3, <3>2, <3>3, SameSets DEF Asked
  <2>3. (Fresh(i)' <=> Fresh(i)) /\ (InQueue(i)' <=> InQueue(i)) /\ (InSteers(i)' <=> InSteers(i))
    <3>1. \A x \in Resumed(i) : x.k # "answer" BY DEF Resumed
    <3>2. Resumes(i)' <=> Resumes(i) BY <1>2, <3>1, PlacedNext DEF Adds, Resumes, Resumed, Turn
    <3> QED BY <1>1, <3>2, PlacedNext DEF Fresh
  <2>4. Has(micro', SteerAnswers(i)) => Has(micro, SteerAnswers(i)) \/ Has(inbox, SteerLines(i))
    <3>1. ASSUME NEW x \in Continuation, x.k = "answer", x.c = a.c, x.r = a.r, x.t = a.t, x \in SteerAnswers(i) PROVE a \in SteerLines(i)
      BY <1>2, <3>1, SteerAnswerOf
    <3> QED BY <1>5, <3>1
  <2>5. Has(micro', OkSteered(i)) => Has(micro, OkSteered(i)) \/ Has(inbox, OkSteer(i))
    <3>1. ASSUME NEW x \in Continuation, x.k = "answer", x.c = a.c, x.r = a.r, x.t = a.t, x \in OkSteered(i) PROVE a \in OkSteer(i)
      BY <1>2, <3>1, SteerAnswerOf
    <3> QED BY <1>5, <3>1
  <2>6. Has(wait, Steers(i)) \/ Has(micro, SteerAnswers(i)) => Has(wait', Steers(i)) \/ Has(micro', SteerAnswers(i))
    <3>1. Steers(i) \subseteq Call BY DEF Steers, Call
    <3>2. \A x \in Continuation : x.k = "answer" /\ x.c = a.c /\ a.c \in Steers(i) => x \in SteerAnswers(i)
      BY SteerAnswerOf DEF Steers
    <3> QED BY <1>6, <3>1, <3>2
  <2> QED BY <1>1, <1>3, <2>1, <2>2, <2>3, <2>4, <2>5, <2>6, SameSets DEF AskedFor, Unheard, Unsent, Doomed
<1> QED BY <1>9, <1>10, <1>11, <1>12, SameSets DEF Rest

(* The start of a turn is taken: that turn is not over.                       *)
LEMMA StartedRest ==
  ASSUME Typed, Down, \A t \in Turns : Sequenced(t), Started, Rest PROVE Rest'
<1>1. /\ starting' = starting /\ waiting' = waiting /\ toSrv' = toSrv /\ srv' = srv /\ ended' = ended
      /\ queue' = queue /\ steered' = steered /\ started' = started /\ force' = force /\ new' = new
      /\ wait' = wait /\ micro' = micro
  BY DEF Started, server, history
<1>2. PICK a \in Output : a = Head(inbox) /\ a.m = "started" /\ Cuts(inbox, inbox', a) /\ Shorter(inbox, inbox')
  BY LineTaken DEF Started
<1>3. PICK n : n = a.t OBVIOUS
<1>4. n \in Turns /\ n # 0 /\ a \in Begins(n) /\ a \in Of(n) /\ Has(inbox, Begins(n))
  BY <1>2, <1>3, OutputFacts, OutputOf DEF Turns, Of, Cuts
<1>5. ~closed BY InputAssumption DEF Started, Line, Down
<1>6. n \notin ended /\ active' = n
  <2>1. Opened(n) BY <1>4 DEF Rest
  <2> QED BY <1>2, <1>3, <1>4, <1>5, <2>1 DEF Opened, Started
<1>7. \A H : Has(inbox', H) => Has(inbox, H) BY <1>2 DEF Cuts
<1>8. ~Has(inbox', Under(n)) BY <1>2, <1>4 DEF Cuts, Sequenced, Ordered
<1>9. Asking'
  <2>1. Asking BY DEF Rest
  <2> QED BY <1>1, <1>4, <1>6, <1>7, <2>1, SameSets DEF Asking, Starved
<1>10. \A c \in AnyStart : Sole(c)'
  <2>1. \A c \in AnyStart : Sole(c) BY DEF Rest
  <2> QED BY <1>1, <1>7, <2>1, SameSets DEF Sole
<1>11. ASSUME NEW t \in Turns PROVE Lasts(t)' /\ Opened(t)'
  <2>1. Lasts(t) /\ Opened(t) /\ Lasts(n) BY <1>4 DEF Rest
  <2>2. (Will(t)' <=> Will(t)) /\ (Lately(t)' => Lately(t))
    <3>1. a \notin Ends(t) BY <1>2, OutputOf
    <3> QED BY <1>1, <1>2, <1>7, <3>1, LatelyNext DEF Will, Lately, Cuts
  <2>3. \A u \in Turns : Has(inbox, Begins(u)) /\ u # n => Has(inbox', Begins(u)) BY <1>2, <1>3, OutputOf DEF Cuts
  <2>4. Has(inbox', Begins(t)) => ~(t < n) BY <1>4, <1>8, Including
  <2>5. active' = t \/ Has(inbox', Begins(t)) => t \in ended' \/ Will(t)' \/ \E u \in Turns : t < u /\ Has(inbox', Begins(u))
    <3>1. CASE t = n
      <4>1. ~(n < n) BY <1>4 DEF Turns, Turn
      <4> QED BY <1>1, <1>4, <2>1, <2>2, <2>3, <3>1, <4>1 DEF Lasts
    <3>2. CASE t # n BY <1>1, <1>6, <1>7, <2>1, <2>2, <2>3, <2>4, <3>2 DEF Lasts
    <3> QED BY <3>1, <3>2
  <2>6. Lasts(t)' BY <1>1, <1>4, <1>6, <2>1, <2>2, <2>5, SameSets DEF Lasts
  <2>7. Opened(t)' BY <1>1, <1>2, <1>7, <2>1, SameSets DEF Opened, Shorter
  <2> QED BY <2>6, <2>7
<1>12. ASSUME NEW i \in Inputs PROVE AskedFor(i)' /\ Unheard(i)' /\ Doomed(i)'
  <2>1. AskedFor(i) /\ Unheard(i) BY DEF Rest
  <2>2. (Fresh(i)' <=> Fresh(i)) /\ (InQueue(i)' <=> InQueue(i)) /\ (InSteers(i)' <=> InSteers(i))
    BY <1>1, PlacedNext DEF Fresh
  <2> QED BY <1>1, <1>4, <1>6, <1>7, <2>1, <2>2, SameSets DEF AskedFor, Unheard, Unsent, Doomed
<1> QED BY <1>9, <1>10, <1>11, <1>12, SameSets DEF Rest

(* A call is given up.                                                        *)
LEMMA TimesOutRest ==
  ASSUME Typed, CallTimesOut, Rest PROVE Rest'
<1>1. /\ starting' = starting /\ waiting' = waiting /\ toSrv' = toSrv /\ inbox' = inbox /\ srv' = srv /\ ended' = ended
      /\ queue' = queue /\ steered' = steered /\ started' = started /\ force' = force /\ new' = new /\ active' = active
      /\ balked' = balked /\ offline' = offline /\ closed' = closed
      /\ micro = <<>>
  BY DEF CallTimesOut, Quiet, server, history, turn, link
<1>2. PICK c \in Elems(wait) :
          wait' = Without(wait, c) /\ micro' = <<[k |-> "answer", c |-> c, r |-> "lost", t |-> 0]>>
  BY Zenon DEF CallTimesOut
<1>2a. PICK x : x = [k |-> "answer", c |-> c, r |-> "lost", t |-> 0] /\ micro' = <<x>> BY <1>2, Zenon
<1>3. c \in Call /\ wait \in Seq(Call) BY <1>2, TypedParts DEF Elems
<1>4. x \in Continuation /\ x.k = "answer" /\ x.c = c /\ x.r = "lost"
      /\ (\A t : x \notin Named(t) /\ x \notin Stopped(t) /\ x \notin GoingTo(t)) /\ (x \in AnyStarted <=> c \in AnyStart)
  BY <1>2a, <1>3, LostNames
<1>5. \A H : (Has(micro', H) <=> x \in H) /\ ~Has(micro, H) BY <1>1, <1>2a DEF Has
<1>6. \A H : (Has(wait', H) => Has(wait, H)) /\ (Has(wait, H) => Has(wait', H) \/ c \in H)
  BY <1>2, <1>3, Thinning, WithoutKeeps DEF Thins
<1>7. \A H : c \in H => Has(wait, H) BY <1>2 DEF Elems, Has
<1>8. Asking'
  <2>1. Asking BY DEF Rest
  <2>2. Starved' => balked' BY <1>1, <2>1 DEF Starved, Asking
  <2>3. Has(wait, AnyStart) \/ Has(micro, AnyStarted) => Has(wait', AnyStart) \/ Has(micro', AnyStarted) BY <1>4, <1>5, <1>6
  <2> QED BY <1>1, <1>4, <1>5, <2>1, <2>2, <2>3, SameSets DEF Asking
<1>9. \A d \in AnyStart : Sole(d)'
  <2>1. \A d \in AnyStart : Sole(d) BY DEF Rest
  <2> QED BY <1>1, <1>6, <2>1, SameSets DEF Sole
<1>10. ASSUME NEW t \in Turns PROVE Lasts(t)' /\ Opened(t)'
  <2>1. Lasts(t) /\ Opened(t) BY DEF Rest
  <2>2. (Will(t)' <=> Will(t)) /\ (Lately(t)' => Lately(t)) BY <1>1, <1>4, <1>5, <1>6, LatelyNext DEF Will, Lately
  <2>3. Lasts(t)' BY <1>1, <1>4, <1>5, <2>1, <2>2, SameSets DEF Lasts
  <2>4. Opened(t)' BY <1>1, <1>4, <1>5, <2>1, SameSets DEF Opened
  <2> QED BY <2>3, <2>4
<1>11. ASSUME NEW i \in Inputs PROVE AskedFor(i)' /\ Unheard(i)' /\ Doomed(i)'
  <2>1. AskedFor(i) /\ Unheard(i) /\ Doomed(i) BY DEF Rest
  <2>2. (Fresh(i)' => Fresh(i)) /\ (InQueue(i)' <=> InQueue(i)) /\ (InSteers(i)' <=> InSteers(i))
    <3>1. \A z \in Resumed(i) : z.k # "answer" BY DEF Resumed
    <3>2. ~Resumes(i)' BY <1>4, <1>5, <3>1 DEF Resumes, Resumed, Turn
    <3> QED BY <1>1, <3>2, PlacedNext DEF Fresh
  <2>3. Asked(i)' => Asked(i)
    <3>1. x \in StartAnswers(i) => c \in Starts(i) BY <1>4 DEF StartAnswers
    <3> QED BY <1>5, <1>6, <1>7, <3>1, SameSets DEF Asked
  <2>4. x \in SteerAnswers(i) <=> c \in Steers(i) BY <1>3, <1>4, SteerAnswerOf, CallOf
  <2>5. x \notin OkSteered(i) BY <1>4 DEF OkSteered
  <2> QED BY <1>1, <1>5, <1>6, <1>7, <2>1, <2>2, <2>3, <2>4, <2>5, SameSets DEF AskedFor, Unheard, Unsent, Doomed
<1> QED BY <1>8, <1>9, <1>10, <1>11, SameSets DEF Rest

(* With the connection every call, line and turn is gone.                     *)
LEMMA LostRest ==
  ASSUME Typed, ConnectionLost, Rest PROVE Rest'
<1>1. /\ wait' = <<>> /\ toSrv' = <<>> /\ inbox' = <<>> /\ active' = 0 /\ force' = 0 /\ steered' = <<>> /\ ended' = ended
      /\ starting' = starting /\ micro = <<>> /\ offline'
      /\ \A t : ~Has(micro', Named(t)) /\ ~Has(micro', Stopped(t)) /\ ~Has(micro', GoingTo(t))
  BY LostTakes
<1>2. waiting' = waiting /\ queue' = queue /\ new' = new /\ started' = {} BY DEF ConnectionLost
<1>3. \A H : ~Has(wait', H) /\ ~Has(toSrv', H) /\ ~Has(inbox', H) /\ ~Has(steered', H) /\ ~Has(micro, H) BY <1>1, EmptyFacts
<1>4. \A A, B : Before(toSrv', A, B) /\ Before(inbox', A, B) BY <1>1, NothingBefore
<1>5. Asking /\ Asking'
  <2>1. Asking BY DEF Rest
  <2>2. Has(wait, AnyStart) => Has(micro', AnyStarted)
    <3> SUFFICES ASSUME NEW k \in DOMAIN wait, wait[k] \in AnyStart PROVE Has(micro', AnyStarted) BY DEF Has
    <3>1. micro' = [m \in DOMAIN wait |-> [k |-> "answer", c |-> wait[m], r |-> "lost", t |-> 0]] BY DEF ConnectionLost
    <3>2. k \in DOMAIN micro' /\ micro'[k] = [k |-> "answer", c |-> wait[k], r |-> "lost", t |-> 0] BY <3>1
    <3>3. micro'[k] \in AnyStarted BY <3>2, ZeroIsTurn DEF AnyStarted, Answers
    <3> QED BY <3>2, <3>3 DEF Has
  <2>3. starting' => (Has(wait', AnyStart) \/ Has(micro', AnyStarted)) BY <1>1, <1>3, <2>1, <2>2 DEF Asking
  <2> QED BY <1>1, <1>2, <1>3, <2>1, <2>3, SameSets DEF Asking, Starved
<1>6. \A c \in AnyStart : Sole(c)' BY <1>3, SameSets DEF Sole
<1>7. ASSUME NEW t \in Turns PROVE Lasts(t)' /\ Opened(t)'
  <2>1. ~Lately(t)' BY <1>1, <1>3, LatelyNext
  <2>2. Lasts(t)' BY <1>1, <1>3, <2>1, SameSets DEF Lasts, Turns
  <2> QED BY <1>1, <1>3, <1>4, <2>2, SameSets DEF Opened, Turns
<1>8. ASSUME NEW i \in Inputs PROVE AskedFor(i)' /\ Unheard(i)' /\ Doomed(i)'
  <2>1. Unheard(i) BY DEF Rest
  <2>2. ~InSteers(i)' BY <1>3 DEF InSteers
  <2>3. (Fresh(i)' => Fresh(i)) /\ (Has(micro', SteerAnswers(i)) => Has(wait, Steers(i)))
    <3>1. DOMAIN micro' = DOMAIN wait /\ \A m \in DOMAIN wait : micro'[m] = [k |-> "answer", c |-> wait[m], r |-> "lost", t |-> 0]
      BY DEF ConnectionLost
    <3>2. Has(micro', SteerAnswers(i)) => Has(wait, Steers(i)) BY <3>1 DEF Has, SteerAnswers
    <3>3. ~Resumes(i)' BY <3>1 DEF Resumes, Resumed, Has
    <3> QED BY <1>2, <3>2, <3>3, PlacedNext DEF Fresh
  <2> QED BY <1>2, <1>3, <2>1, <2>2, <2>3, SameSets DEF AskedFor, Unheard, Doomed
<1> QED BY <1>5, <1>6, <1>7, <1>8, SameSets DEF Rest

(* The server moves: what a step of it must not do.                           *)
LEMMA ServerRest ==
  ASSUME Rest, Quiet, serverKeeps' = serverKeeps,
         ~Has(inbox', Opening(0)), \A c \in AnyStart : Sole(c)',
         \A t \in Turns : /\ Will(t) => Will(t)' \/ Has(inbox', Ends(t)) \/ \E u \in Turns : t < u /\ Has(inbox', Begins(u))
                          /\ Has(inbox, Begins(t)) => Has(inbox', Begins(t))
                          /\ Lately(t)' => (Lately(t) /\ (Will(t) => Will(t)')) \/ (Will(t)' /\ t \notin ended)
                          /\ Has(inbox', Begins(t)) => Has(inbox, Begins(t)) \/ Will(t)'
                          /\ Opened(t)',
         \A i \in Inputs : Unheard(i)' /\ Doomed(i)'
  PROVE  Rest'
<1>1. /\ queue' = queue /\ started' = started /\ steered' = steered /\ active' = active /\ starting' = starting
      /\ ended' = ended /\ offline' = offline /\ closed' = closed /\ balked' = balked
      /\ wait' = wait /\ waiting' = waiting /\ micro' = micro
      /\ \A H : ~Has(micro, H) /\ ~Has(micro', H)
  BY Unmoved DEF serverKeeps, history
<1>2. Asking'
  <2>1. Asking BY DEF Rest
  <2> QED BY <1>1, <2>1, SameSets DEF Asking, Starved
<1>3. ASSUME NEW t \in Turns PROVE Lasts(t)'
  <2>1. Lasts(t) BY DEF Rest
  <2>2. Will(t)' <=> srv'.t = t \/ Has(inbox', Ends(t)) BY LatelyNext
  <2>3. Lately(t)' => t \in ended' \/ Will(t)' BY <1>1, <2>1 DEF Lasts
  <2>4. active' = t \/ Has(inbox', Begins(t)) => t \in ended' \/ Will(t)' \/ \E u \in Turns : t < u /\ Has(inbox', Begins(u))
    BY <1>1, <2>1, <2>2 DEF Lasts
  <2>5. Lately(t)' /\ t \in ended' /\ active' = 0 => started' = {} BY <1>1, <2>1 DEF Lasts
  <2> QED BY <1>1, <2>3, <2>4, <2>5, SameSets DEF Lasts
<1>4. ASSUME NEW i \in Inputs PROVE AskedFor(i)'
  <2>1. AskedFor(i) BY DEF Rest
  <2> QED BY <1>1, <2>1, SameSets DEF AskedFor, Asked
<1> QED BY <1>2, <1>3, <1>4, SameSets DEF Rest

(* What it does to the awaited turn/start, when it takes c and answers it.    *)
LEMMA AnswersSole ==
  ASSUME Rest, Quiet, serverKeeps' = serverKeeps, NEW c, Cuts(toSrv, toSrv', c),
         \A d \in AnyStart : Has(inbox', AnswersTo(d)) => Has(inbox, AnswersTo(d)) \/ d = c
  PROVE  \A d \in AnyStart : Sole(d)'
<1> TAKE d \in AnyStart
<1>1. Sole(d) /\ wait' = wait BY Unmoved DEF Rest
<1>2. /\ \A A, B : Before(toSrv, A, B) => Before(toSrv', A, B) /\ (c \in A => ~Has(toSrv', B))
      /\ \A H : Has(toSrv', H) => Has(toSrv, H)
  BY DEF Cuts
<1> QED BY <1>1, <1>2, SameSets DEF Sole

(* ... and to the inputs.                                                     *)
LEMMA AnswersInputs ==
  ASSUME Typed, Serves, \A t \in Turns : Sequenced(t), Rest, Quiet, serverKeeps' = serverKeeps,
         NEW i \in Inputs, Chance(i), NEW c \in Call, Cuts(toSrv, toSrv', c),
         NEW a \in Output, a.m = "answer", a.c = c,
         a.r = "ok" /\ c.op = "steer" => srv.t = c.t /\ ~srv.stopping,
         \A H \in SUBSET [m : {"answer"}, c : Call, r : Answers, t : Turn] : Has(inbox', H) => Has(inbox, H) \/ a \in H
  PROVE  Unheard(i)' /\ Doomed(i)'
<1>1. Unheard(i) /\ Doomed(i) BY DEF Rest
<1>2. /\ active' = active /\ ended' = ended /\ wait' = wait /\ micro' = micro
      /\ (Fresh(i)' <=> Fresh(i)) /\ (Unsent(i)' <=> Unsent(i)) /\ (InSteers(i)' <=> InSteers(i))
      /\ \A H : ~Has(micro, H) /\ ~Has(micro', H)
  BY Unmoved, PlacesStay
<1>4. \A H : (Has(toSrv', H) => Has(toSrv, H)) /\ (c \in H => Has(toSrv, H)) BY DEF Cuts
<1>5. /\ StartLinesOf(i) \subseteq [m : {"answer"}, c : Call, r : Answers, t : Turn]
      /\ SteerLines(i) \subseteq [m : {"answer"}, c : Call, r : Answers, t : Turn]
      /\ OkSteer(i) \subseteq [m : {"answer"}, c : Call, r : Answers, t : Turn]
  BY DEF StartLinesOf, SteerLines, OkSteer, Starts, Steers, Call, Answers
<1>6. /\ a \in StartLinesOf(i) => c \in Starts(i)
      /\ a \in SteerLines(i) => c \in Steers(i)
      /\ a \in OkSteer(i) => c \in Steers(i) /\ a.r = "ok"
  BY DEF StartLinesOf, SteerLines, OkSteer
<1>7. \A G \in {StartLinesOf(i), SteerLines(i), OkSteer(i)} : Has(inbox', G) => Has(inbox, G) \/ a \in G BY <1>5
<1>8. Unheard(i)' BY <1>1, <1>2, <1>4, <1>6, <1>7, SameSets DEF Unheard, Chance, Unsent
<1>9. Doomed(i)'
  <2> SUFFICES ASSUME InSteers(i), active \in ended
               PROVE  /\ ~Has(inbox', OkSteer(i)) /\ Has(wait, Steers(i))
                      /\ \A s \in Turns : Has(toSrv', SteersInto(i, s)) => s = active
    BY <1>2, SameSets DEF Doomed
  <2>1. ~Has(inbox, OkSteer(i)) /\ Has(wait, Steers(i)) /\ \A s \in Turns : Has(toSrv, SteersInto(i, s)) => s = active
    BY <1>1, <1>2 DEF Doomed
  <2>2. a \notin OkSteer(i)
    <3> SUFFICES ASSUME a \in OkSteer(i) PROVE FALSE OBVIOUS
    <3>1. c \in Steers(i) /\ c.op = "steer" /\ c.i = i /\ srv.t = c.t /\ ~srv.stopping BY <1>6, CallOf
    <3>2. c.t # 0 /\ c.t \in Turn BY <3>1, RequestNames, CallFacts
    <3>3. c.t \in Turns /\ c \in SteersInto(i, c.t) BY <3>1, <3>2, CallOf DEF Turns
    <3>4. c.t = active BY <1>4, <2>1, <3>3
    <3> QED BY <3>1, <3>3, <3>4 DEF Sequenced, Silent
  <2> QED BY <1>4, <1>7, <2>1, <2>2
<1> QED BY <1>8, <1>9

(* A request is answered that opens no turn.                                  *)
LEMMA AnswersRest ==
  ASSUME Typed, Serves, \A t \in Turns : Sequenced(t), Rest, Quiet, serverKeeps' = serverKeeps,
         \A i \in Inputs : Chance(i), NEW c \in Call, Cuts(toSrv, toSrv', c),
         NEW a \in Output, a.m = "answer", a.c = c, Adds(inbox, inbox', a), srv'.t = srv.t,
         a.r = "ok" => c \notin AnyStart /\ (c.op = "steer" => srv.t = c.t /\ ~srv.stopping)
  PROVE  Rest'
<1>1. a \notin Opening(0) /\ (\A t : a \notin Begins(t) /\ a \notin Ends(t)) /\ \A d \in AnyStart : \A t : a \notin Tells(d, t)
  BY OutputOf DEF Opening, Tells
<1>2. ~Has(inbox', Opening(0)) BY <1>1 DEF Adds, Rest, Asking
<1>3. \A d \in AnyStart : Sole(d)'
  <2>1. \A d \in AnyStart : a \in AnswersTo(d) => d = c BY OutputOf
  <2> QED BY <2>1, AnswersSole DEF Adds
<1>4. ASSUME NEW t \in Turns
      PROVE  /\ Will(t)' <=> Will(t)
             /\ Has(inbox', Begins(t)) <=> Has(inbox, Begins(t))
             /\ Lately(t)' => Lately(t)
             /\ Opened(t)'
  <2>1. (Will(t)' <=> Will(t)) /\ (Has(inbox', Begins(t)) <=> Has(inbox, Begins(t))) BY <1>1, LatelyNext DEF Will, Adds
  <2>2. wait' = wait /\ micro' = micro /\ force' = force /\ ended' = ended BY Unmoved
  <2>3. Lately(t)' => Lately(t) BY <1>1, <2>2, LatelyNext DEF Lately, Adds
  <2>4. Before(inbox', Stops(t), Begins(t)) BY <1>1 DEF Adds, Rest, Opened
  <2>5. Opened(t)' BY <2>1, <2>2, <2>4, SameSets DEF Opened, Rest
  <2> QED BY <2>1, <2>3, <2>5
<1>5. ASSUME NEW i \in Inputs PROVE Unheard(i)' /\ Doomed(i)'
  <2>1. \A H : Has(inbox', H) => Has(inbox, H) \/ a \in H BY DEF Adds
  <2> QED BY <2>1, AnswersInputs
<1> QED BY <1>2, <1>3, <1>4, <1>5, ServerRest

(* A turn is opened.                                                          *)
LEMMA OpensRest ==
  ASSUME Typed, Serves, \A t \in Turns : Sequenced(t), Rest, Quiet, serverKeeps' = serverKeeps,
         \A i \in Inputs : Chance(i), NEW c \in Call, c \in AnyStart, Cuts(toSrv, toSrv', c),
         NEW a \in Output, a.m = "answer", a.c = c, a.r = "ok" => a.t = turns + 1, Opens(a)
  PROVE  Rest'
<1>1. PICK n \in Turns, o \in Output : n = turns + 1 /\ srv'.t = n /\ o \in Begins(n) /\ Gains(inbox, inbox', a, o)
  BY OpensFacts
<1>2. o.m = "started" /\ o.t = n /\ n # 0 BY <1>1 DEF Begins, Turns
<1>3. n \notin ended BY <1>1, OpensUnsteered DEF AnyStart
<1>4. ~Has(inbox, Stops(n)) /\ force # n
  <2>1. Past(n) /\ turns \in Nat BY <1>1, ServerParts DEF Sequenced, Turn
  <2>2. ~(n <= turns) BY <1>1, <2>1
  <2> QED BY <2>1, <2>2 DEF Past, Known, Halting
<1>5. Has(toSrv, AnyStart) BY DEF Cuts
<1>6. /\ \A H : Has(inbox', H) <=> Has(inbox, H) \/ a \in H \/ o \in H
      /\ \A t : /\ a \notin Begins(t) /\ a \notin Ends(t) /\ a \notin Stops(t) /\ o \notin Ends(t)
                /\ o \in Begins(t) => t = n
                /\ o \notin Opening(t) /\ \A d : o \notin Tells(d, t) /\ (a \in Tells(d, t) => t = n)
      /\ a \notin Opening(0)
      /\ \A d : o \notin AnswersTo(d)
  <2>1. \A H : Has(inbox', H) <=> Has(inbox, H) \/ a \in H \/ o \in H BY <1>1 DEF Gains
  <2>2. c.op \in {"start", "next"} BY CallOf
  <2>3. \A t : /\ a \notin Begins(t) /\ a \notin Ends(t) /\ a \notin Stops(t) /\ o \notin Ends(t)
               /\ o \in Begins(t) => t = n
               /\ o \notin Opening(t)
    BY <1>2, <2>2, OutputOf
  <2>4. \A t, d : o \notin Tells(d, t) /\ (a \in Tells(d, t) => t = n) BY <1>1, <1>2 DEF Tells
  <2>5. a \notin Opening(0) BY <1>1, <1>2, OutputOf
  <2>6. \A d : o \notin AnswersTo(d) BY <1>2 DEF AnswersTo
  <2> QED BY <2>1, <2>3, <2>4, <2>5, <2>6
<1>7. ~Has(inbox', Opening(0)) BY <1>6 DEF Rest, Asking
<1>8. \A d \in AnyStart : Sole(d)'
  <2>1. \A d \in AnyStart : a \in AnswersTo(d) => d = c BY OutputOf
  <2> QED BY <1>6, <2>1, AnswersSole
<1>9. ASSUME NEW t \in Turns
      PROVE  /\ Will(t) => Will(t)' \/ Has(inbox', Ends(t)) \/ \E u \in Turns : t < u /\ Has(inbox', Begins(u))
             /\ Has(inbox, Begins(t)) => Has(inbox', Begins(t))
             /\ Lately(t)' => Will(t)' /\ t \notin ended
             /\ Has(inbox', Begins(t)) => Has(inbox, Begins(t)) \/ Will(t)'
             /\ Opened(t)'
  <2>1. Has(inbox', Begins(n)) /\ (Will(n)' <=> TRUE) BY <1>1, <1>6, LatelyNext
  <2>2. wait' = wait /\ micro' = micro /\ force' = force /\ ended' = ended /\ \A H : ~Has(micro', H) BY Unmoved
  <2>3. srv.t = t => t < n
    <3>1. srv.t <= turns /\ turns \in Nat /\ srv.t \in Nat BY ServerParts DEF Serves, Turn
    <3> QED BY <1>1, <3>1
  <2>4. Will(t) => Has(inbox', Ends(t)) \/ \E u \in Turns : t < u /\ Has(inbox', Begins(u))
    BY <1>1, <1>6, <2>1, <2>3 DEF Will
  <2>5. Lately(t)' => t = n
    <3> SUFFICES ASSUME NEW d \in AnyStart, Has(wait, {d}), Has(inbox', Tells(d, t)) PROVE t = n BY <2>2, LatelyNext
    <3>1. ~Has(inbox, AnswersTo(d)) BY <1>5 DEF Rest, Sole
    <3>2. Tells(d, t) \subseteq AnswersTo(d) BY DEF Tells, AnswersTo, Answers, Turns
    <3>3. ~Has(inbox, Tells(d, t)) BY <3>1, <3>2 DEF Has
    <3> QED BY <1>6, <3>3
  <2>6. Before(inbox', Stops(t), Begins(t))
    <3>1. Before(inbox, Stops(t), Begins(t)) BY DEF Rest, Opened
    <3> QED BY <1>1, <1>4, <1>6, <3>1 DEF Gains
  <2>7. Opened(t)' BY <1>3, <1>4, <1>6, <2>2, <2>6, SameSets DEF Opened, Rest
  <2> QED BY <1>3, <1>6, <2>1, <2>4, <2>5, <2>7
<1>10. ASSUME NEW i \in Inputs PROVE Unheard(i)' /\ Doomed(i)'
  <2>1. \A H \in SUBSET [m : {"answer"}, c : Call, r : Answers, t : Turn] : o \notin H BY <1>2
  <2>2. c.op # "steer" BY CallOf
  <2> QED BY <1>6, <2>1, <2>2, AnswersInputs
<1> QED BY <1>7, <1>8, <1>9, <1>10, ServerRest

(* The turn shows an input, is interrupted, or ends.                          *)
LEMMA TellsRest ==
  ASSUME Rest, Quiet, serverKeeps' = serverKeeps, \A i \in Inputs : Chance(i), toSrv' = toSrv,
         inbox' = inbox \/ \E a \in Output : a.m \in {"shown", "completed"} /\ Adds(inbox, inbox', a),
         srv'.t = srv.t \/ Has(inbox', Ends(srv.t))
  PROVE  Rest'
<1>1. /\ \A H : Has(inbox, H) => Has(inbox', H)
      /\ \A H : (\A a \in H \cap Output : a.m \notin {"shown", "completed"}) => (Has(inbox', H) => Has(inbox, H))
      /\ \A A, B : (\A a \in B \cap Output : a.m \notin {"shown", "completed"}) => (Before(inbox, A, B) => Before(inbox', A, B))
  BY DEF Adds
<1>2. /\ wait' = wait /\ micro' = micro /\ force' = force /\ ended' = ended /\ active' = active
      /\ \A i : (Fresh(i)' <=> Fresh(i)) /\ (Unsent(i)' <=> Unsent(i)) /\ (InSteers(i)' <=> InSteers(i))
  BY Unmoved, PlacesStay
<1>3. ~Has(inbox', Opening(0))
  <2>1. \A o \in Opening(0) : o.m = "answer" BY DEF Opening
  <2> QED BY <1>1, <2>1 DEF Rest, Asking
<1>4. ASSUME NEW c \in AnyStart PROVE Sole(c)'
  <2>1. \A o \in AnswersTo(c) : o.m = "answer" BY DEF AnswersTo
  <2>2. Sole(c) BY DEF Rest
  <2> QED BY <1>1, <1>2, <2>1, <2>2, SameSets DEF Sole
<1>5. ASSUME NEW t \in Turns
      PROVE  /\ Will(t) => Will(t)'
             /\ Has(inbox', Begins(t)) <=> Has(inbox, Begins(t))
             /\ Lately(t)' => Lately(t)
             /\ Opened(t)'
  <2>1. \A o \in Begins(t) : o.m = "started" BY DEF Begins
  <2>2. \A c : \A o \in Tells(c, t) : o.m = "answer" BY DEF Tells
  <2>3. Will(t) => Will(t)' BY <1>1, LatelyNext DEF Will
  <2>4. Lately(t)' => Lately(t) BY <1>1, <1>2, <2>2, LatelyNext DEF Lately
  <2>5. Has(inbox', Begins(t)) <=> Has(inbox, Begins(t)) BY <1>1, <2>1
  <2>6. Opened(t) BY DEF Rest
  <2>7. Before(inbox', Stops(t), Begins(t)) BY <1>1, <2>1, <2>6 DEF Opened
  <2>8. Opened(t)' BY <1>2, <2>5, <2>6, <2>7, SameSets DEF Opened
  <2> QED BY <2>3, <2>4, <2>5, <2>8
<1>6. ASSUME NEW i \in Inputs PROVE Unheard(i)' /\ Doomed(i)'
  <2>1. \A o \in StartLinesOf(i) \cup SteerLines(i) \cup OkSteer(i) : o.m = "answer" BY DEF StartLinesOf, SteerLines, OkSteer
  <2>2. \A G \in {StartLinesOf(i), SteerLines(i), OkSteer(i)} : Has(inbox', G) => Has(inbox, G) BY <1>1, <2>1
  <2>3. Unheard(i) /\ Doomed(i) BY DEF Rest
  <2> QED BY <1>2, <2>2, <2>3, SameSets DEF Unheard, Doomed
<1> QED BY <1>3, <1>4, <1>5, <1>6, ServerRest

LEMMA ServerStepRest ==
  ASSUME Typed, Serves, \A t \in Turns : Sequenced(t), \A i \in Inputs : Chance(i), Rest, ServerStep PROVE Rest'
<1>1. Quiet /\ serverKeeps' = serverKeeps BY ServerStays
<1>2. PICK c : c = Head(toSrv) OBVIOUS
<1>3. inbox \in Seq(Output) /\ turns \in Nat /\ srv.stopping \in BOOLEAN /\ srv.t \in Turn BY ServerParts DEF Turn
<1>4. ASSUME NEW a \in Output, inbox' = Append(inbox, a) PROVE Adds(inbox, inbox', a) BY <1>3, <1>4, Adding
<1>5. CASE ServerRefuses \/ (ServerErrs /\ ~Opens(Answer(c, "error", 0)))
  <2>1. c \in Call /\ Cuts(toSrv, toSrv', c)
    BY <1>2, <1>5, RequestTaken DEF ServerRefuses, ServerErrs
  <2>2. PICK r \in {"refused", "error"} : inbox' = Append(inbox, Answer(c, r, 0)) /\ srv' = srv
    BY <1>2, <1>5 DEF ServerRefuses, ServerErrs
  <2>3. PICK a : a = Answer(c, r, 0) OBVIOUS
  <2>4. a \in Output /\ a.m = "answer" /\ a.c = c /\ a.r # "ok"
    BY <2>1, <2>3, NewOutputs, ZeroIsTurn DEF Answers, Answer
  <2>5. Adds(inbox, inbox', a) BY <1>4, <2>2, <2>3, <2>4
  <2> QED BY <1>1, <2>1, <2>2, <2>4, <2>5, AnswersRest
<1>6. CASE ServerStarts \/ (ServerErrs /\ Opens(Answer(c, "error", 0)))
  <2>1. c \in Call /\ Cuts(toSrv, toSrv', c) /\ c.op \in {"start", "next"}
    BY <1>2, <1>6, RequestTaken DEF ServerStarts, ServerErrs
  <2>2. c \in AnyStart BY <2>1, CallOf
  <2>3. PICK a : (a = Answer(c, "ok", turns + 1) \/ a = Answer(c, "error", 0)) /\ Opens(a)
    BY <1>2, <1>6 DEF ServerStarts
  <2>4. turns + 1 \in Turn
    <3>1. turns < MaxTurns BY <2>3 DEF Opens
    <3> QED BY <1>3, <3>1, InputAssumption DEF Turn
  <2>5. a \in Output /\ a.m = "answer" /\ a.c = c
    BY <2>1, <2>3, <2>4, NewOutputs, ZeroIsTurn DEF Answers, Answer
  <2>6. a.r = "ok" => a.t = turns + 1 BY <2>3 DEF Answer
  <2> QED BY <1>1, <2>1, <2>2, <2>3, <2>5, <2>6, OpensRest
<1>7. CASE ServerSteers \/ ServerInterrupts
  <2>1. c \in Call /\ Cuts(toSrv, toSrv', c) /\ c.op \in {"steer", "interrupt"}
    BY <1>2, <1>7, RequestTaken DEF ServerSteers, ServerInterrupts
  <2>2. PICK a : a = Answer(c, "ok", 0) OBVIOUS
  <2>3. a \in Output /\ a.m = "answer" /\ a.c = c BY <2>1, <2>2, NewOutputs, ZeroIsTurn DEF Answers, Answer
  <2>4. inbox' = Append(inbox, a) /\ (c.op = "steer" => srv.t = c.t /\ ~srv.stopping)
    BY <1>2, <1>7, <2>1, <2>2, RequestTaken DEF ServerSteers, ServerInterrupts
  <2>5. srv'.t = srv.t
    <3>1. srv \in [t : Turn, first : Inputs \cup {Nothing}, shown : BOOLEAN, pend : SUBSET Inputs, stopping : BOOLEAN]
      BY ServerParts
    <3> QED BY <1>7, <3>1 DEF ServerSteers, ServerInterrupts
  <2>6. c \notin AnyStart BY <2>1, CallOf
  <2> QED BY <1>1, <1>4, <2>1, <2>3, <2>4, <2>5, <2>6, AnswersRest
<1>8. CASE ServerShows \/ ServerCompletes \/ ServerAborts
  <2>1. srv \in [t : Turn, first : Inputs \cup {Nothing}, shown : BOOLEAN, pend : SUBSET Inputs, stopping : BOOLEAN]
    BY ServerParts
  <2>2. toSrv' = toSrv BY <1>8 DEF ServerShows, ServerCompletes, ServerAborts
  <2>3. CASE ServerAborts
    <3>1. inbox' = inbox /\ srv'.t = srv.t BY <2>1, <2>3 DEF ServerAborts
    <3> QED BY <1>1, <2>2, <3>1, TellsRest
  <2>4. CASE ServerShows
    <3>1. PICK i \in Inputs \cup {Nothing} : inbox' = Append(inbox, [m |-> "shown", t |-> srv.t, i |-> i])
      BY <2>1, <2>4 DEF ServerShows
    <3>2. srv'.t = srv.t BY <2>1, <2>4 DEF ServerShows
    <3>3. PICK a : a = [m |-> "shown", t |-> srv.t, i |-> i] OBVIOUS
    <3>4. a \in Output /\ a.m = "shown" BY <1>3, <3>1, <3>3, NewOutputs
    <3> QED BY <1>1, <1>4, <2>2, <3>1, <3>2, <3>3, <3>4, TellsRest
  <2>5. CASE ServerCompletes
    <3>1. PICK a : a = [m |-> "completed", t |-> srv.t, interrupted |-> srv.stopping] OBVIOUS
    <3>2. a \in Output /\ a.m = "completed" /\ a.t = srv.t BY <1>3, <3>1, NewOutputs
    <3>3. Adds(inbox, inbox', a) BY <1>4, <2>5, <3>1, <3>2 DEF ServerCompletes
    <3>4. Has(inbox', Ends(srv.t)) BY <3>2, <3>3, OutputOf DEF Adds
    <3> QED BY <1>1, <2>2, <3>2, <3>3, <3>4, TellsRest
  <2> QED BY <1>8, <2>3, <2>4, <2>5
<1> QED BY <1>5, <1>6, <1>7, <1>8 DEF ServerStep

LEMMA RestInit == Init => Rest
<1> SUFFICES ASSUME Init PROVE Rest OBVIOUS
<1>1. /\ queue = <<>> /\ steered = <<>> /\ active = 0 /\ ~starting /\ started = {} /\ ended = {} /\ wait = <<>> /\ waiting = <<>>
      /\ micro = <<>> /\ toSrv = <<>> /\ inbox = <<>> /\ srv = Idle /\ force = 0
  BY DEF Init
<1>2. \A H : ~Has(wait, H) /\ ~Has(micro, H) /\ ~Has(inbox, H) /\ ~Has(toSrv, H) /\ ~Has(steered, H) BY <1>1, EmptyFacts
<1>3. \A A, B : Before(inbox, A, B) BY <1>1, NothingBefore
<1>4. Asking BY <1>1, <1>2 DEF Asking, Starved
<1>5. \A c \in AnyStart : Sole(c) BY <1>2 DEF Sole
<1>6. \A t \in Turns : Lasts(t) /\ Opened(t) BY <1>1, <1>2, <1>3 DEF Lasts, Opened, Lately, Turns
<1>7. \A i \in Inputs : AskedFor(i) /\ Unheard(i) /\ Doomed(i) BY <1>1, <1>2 DEF AskedFor, Unheard, Doomed, InSteers
<1> QED BY <1>4, <1>5, <1>6, <1>7 DEF Rest

LEMMA RestStep == ASSUME RunInv, RunInv', Rests, [Next]_vars PROVE Rests'
<1> SUFFICES ASSUME fell' = {} PROVE Rest' BY DEF Rests
<1>1. fell = {} BY FellGrows
<1>2. Typed /\ Flow /\ Flow' /\ TurnInv /\ (\A i \in Inputs : Lone(i) /\ Chance(i)) BY <1>1 DEF RunInv, InputInv, Accounted
<1>3. \A i \in Inputs : Lone(i)'
  <2>1. \A i \in Inputs \ fell' : Accounted(i)' BY DEF RunInv, InputInv
  <2> QED BY <2>1 DEF Accounted
<1>4. Serves /\ Single /\ Down /\ \A t \in Turns : Sequenced(t) BY <1>2 DEF TurnInv
<1>5. Rest /\ 0 \notin ended /\ \A t \in Turns : Opened(t) BY <1>1 DEF Rests, Rest, Asking
<1>6. CASE \/ Calls \/ DrainContinues \/ SteerResumes \/ SteerContinues \/ InterruptResumes \/ InterruptContinues
           \/ ForceClose \/ Chunk \/ Claim \/ Completed
  <2>1. Moves /\ Queues BY <1>2, <1>4, <1>5, <1>6, MovesStep
  <2> QED BY <1>2, <1>3, <1>4, <1>5, <2>1, MovesRest
<1>7. CASE StartTurnContinues BY <1>2, <1>4, <1>5, <1>7, StartTurnRest
<1>8. CASE Answered BY <1>2, <1>5, <1>8, AnsweredRest
<1>9. CASE Started BY <1>2, <1>4, <1>5, <1>9, StartedRest
<1>10. CASE CallTimesOut BY <1>2, <1>5, <1>10, TimesOutRest
<1>11. CASE ConnectionLost BY <1>2, <1>5, <1>11, LostRest
<1>12. CASE ServerStep BY <1>2, <1>4, <1>5, <1>12, ServerStepRest
<1> QED BY <1>6, <1>7, <1>8, <1>9, <1>10, <1>11, <1>12, Steps

LEMMA RestSettles ==
  ASSUME Typed, Flow, Rest, \A i \in Inputs : Placed(i) PROVE RestIsSettled
<1> SUFFICES ASSUME AtRest, NEW i \in Inputs \ new, said[i] = {} PROVE i \in Queued /\ Stalled BY DEF RestIsSettled
<1>1. /\ Quiet /\ ~offline /\ ~closed /\ srv.t = 0
      /\ wait = <<>> /\ toSrv = <<>> /\ inbox = <<>> /\ micro = <<>>
  BY DEF AtRest, Quiet
<1>2. \A H : ~Has(wait, H) /\ ~Has(micro, H) /\ ~Has(inbox, H) BY <1>1, EmptyFacts
<1>3. Asking /\ Unheard(i) /\ Doomed(i) BY DEF Rest
<1>4. ~starting /\ waiting = <<>> BY <1>2, <1>3 DEF Asking
<1>5. active # 0 => active \in ended
  <2> SUFFICES ASSUME active # 0 PROVE active \in ended OBVIOUS
  <2>1. active \in Turns BY TypedParts DEF Turns
  <2>2. Lasts(active) BY <2>1 DEF Rest
  <2> QED BY <1>1, <1>2, <2>1, <2>2 DEF Lasts, Will, Turns
<1>6. started = {} BY <1>3, <1>4, <1>5 DEF Asking
<1>7. ~Joins(i) /\ ~Resumes(i) BY <1>2, <1>4, EmptyFacts DEF Joins, Resumes
<1>8. ~InSteers(i)
  <2> SUFFICES ASSUME InSteers(i) PROVE FALSE OBVIOUS
  <2>1. active # 0 BY DEF Flow, InSteers, Has
  <2> QED BY <1>2, <1>3, <1>5, <2>1 DEF Doomed
<1>9. InQueue(i) BY <1>6, <1>7, <1>8 DEF Placed, Waits
<1>10. active = 0 => balked
  <2>1. queue # <<>> BY <1>9, EmptyFacts DEF InQueue
  <2> QED BY <1>1, <1>3, <1>4, <2>1 DEF Asking, Starved
<1> QED BY <1>1, <1>4, <1>5, <1>9, <1>10, QueuedIs DEF Stalled

(* Once nothing is under way any more, every input that was handed in was     *)
(* reported upon, or is in the queue of a session whose last turn/start       *)
(* failed or that holds an ended turn for running: none waits for a turn that *)
(* ended, or for an answer or a line that will not come. For a session none   *)
(* of whose turn/steer failed.                                                *)
THEOREM RestSettled == Spec => [](fell = {} => RestIsSettled)
<1>1. Init => Rests BY RestInit DEF Rests
<1>2. RunInv /\ RunInv' /\ Rests /\ [Next]_vars => Rests' BY RestStep
<1>3. Init => \A i \in Inputs : Placed(i) BY DEF Init, Placed
<1>4. Typed /\ (\A i \in Inputs : Placed(i)) /\ [Next]_vars => (\A i \in Inputs : Placed(i))' BY PlacesStep
<1>5. RunInv /\ Rests /\ (\A i \in Inputs : Placed(i)) => (fell = {} => RestIsSettled)
  BY RestSettles DEF Rests, RunInv, InputInv
<1>6. Init => RunInv BY InitInv, TurnInit, ChanceInit DEF RunInv
<1>7. RunInv /\ [Next]_vars => RunInv' BY RunStep
<1>8. RunInv => Typed BY DEF RunInv, InputInv
<1> QED BY <1>1, <1>2, <1>3, <1>4, <1>5, <1>6, <1>7, <1>8, PTL DEF Spec

=============================================================================

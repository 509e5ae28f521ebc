---------------------------- MODULE PicksProofs ----------------------------
(***************************************************************************)
(* What Picked makes of a sequence, that numbers in a rising sequence have *)
(* but one order, what sequences give when they are laid one after the     *)
(* other, and what is left of a conversation that is cut: the facts on     *)
(* which the proofs about Workbench, WorkspaceFolder, ModelTurns and the   *)
(* functions of MCParts build.                                             *)
(***************************************************************************)
EXTENDS Picks, Remembering, Integers, FiniteSetTheorems, WellFoundedInduction, SequenceTheorems, TLAPS

LEMMA FromZero ==
  ASSUME NEW L \in Nat, NEW T \in SUBSET (0..L), 0 \in T,
         \A n \in 0..L : n \in T /\ n < L => n + 1 \in T
  PROVE  T = 0..L
<1> DEFINE U == (0..L) \ T
<1>1. SUFFICES ASSUME U # {} PROVE FALSE
  OBVIOUS
<1>2. PICK R : R = {ss \in Nat \X Nat : ss[1] < ss[2]} /\ IsWellFoundedOn(R, Nat)
  BY NatLessThanWellFounded DEF OpToRel
<1>3. U \subseteq Nat
  OBVIOUS
<1>4. PICK x \in U : \A y \in U : ~(<<y, x>> \in R)
  BY <1>1, <1>2, <1>3, WFMin
<1>5. \A y \in U : ~(y < x)
  BY <1>2, <1>3, <1>4
<1>6. x # 0 /\ x - 1 \in 0..L /\ x - 1 < L /\ x - 1 < x
  OBVIOUS
<1>7. x - 1 \in T
  BY <1>5, <1>6
<1>8. QED
  BY <1>6, <1>7

LEMMA AppendIs ==
  ASSUME NEW S, NEW r \in Seq(S), NEW v \in S
  PROVE  /\ Append(r, v) \in Seq(S) /\ Len(r) \in Nat /\ Len(Append(r, v)) = Len(r) + 1
         /\ \A k \in 1..Len(r) : Append(r, v)[k] = r[k]
         /\ Append(r, v)[Len(r) + 1] = v
  OBVIOUS

\* The positions that were picked, in their order.
Picks(q, P, r, n, g) ==
  /\ g \in [1..Len(r) -> P \cap (1..n)]
  /\ \A k \in 1..Len(r) : r[k] = q[g[k]]
  /\ \A j, k \in 1..Len(r) : j < k => g[j] < g[k]
  /\ \A i \in P \cap (1..n) : \E k \in 1..Len(r) : g[k] = i

LEMMA PicksGrow ==
  ASSUME NEW S, NEW q \in Seq(S), NEW P, NEW n \in Nat, n + 1 \in 1..Len(q),
         NEW r \in Seq(S), NEW g, Picks(q, P, r, n, g),
         NEW t, t = IF n + 1 \in P THEN Append(r, q[n + 1]) ELSE r
  PROVE  t \in Seq(S) /\ \E h : Picks(q, P, t, n + 1, h)
<1>1. CASE n + 1 \in P
  <2>1. PICK l \in Nat : l = Len(r)
    OBVIOUS
  <2>2. /\ Len(t) = l + 1 /\ t[l + 1] = q[n + 1] /\ t \in Seq(S)
        /\ \A k \in 1..l : t[k] = r[k]
    <3>1. q[n + 1] \in S
      OBVIOUS
    <3>2. t = Append(r, q[n + 1])
      BY <1>1
    <3>3. QED
      BY <2>1, <3>1, <3>2, AppendIs
  <2>3. /\ g \in [1..l -> P \cap (1..n)]
        /\ \A k \in 1..l : r[k] = q[g[k]]
        /\ \A j, k \in 1..l : j < k => g[j] < g[k]
        /\ \A i \in P \cap (1..n) : \E k \in 1..l : g[k] = i
    BY <2>1 DEF Picks
  <2>4. g \in [1..l -> Nat] /\ \A k \in 1..l : g[k] \in P /\ g[k] <= n
    <3>1. PICK D : D = P \cap (1..n)
      OBVIOUS
    <3>2. g \in [1..l -> D]
      BY <2>3, <3>1
    <3>3. \A d \in D : d \in Nat /\ d \in P /\ d <= n
      BY <3>1
    <3>4. \A k \in 1..l : g[k] \in D
      BY <3>2
    <3>5. QED
      BY ONLY <3>2, <3>3, <3>4
  <2>5. PICK h : h = [k \in 1..(l + 1) |-> IF k = l + 1 THEN n + 1 ELSE g[k]]
    OBVIOUS
  <2>6. /\ h \in [1..(l + 1) -> Nat] /\ h[l + 1] = n + 1
        /\ \A k \in 1..l : k \in 1..(l + 1) /\ h[k] = g[k]
        /\ \A k \in 1..(l + 1) : k \in 1..l \/ k = l + 1
    BY <2>4, <2>5
  <2>7. \A k \in 1..(l + 1) : h[k] \in P \cap (1..(n + 1)) /\ t[k] = q[h[k]]
    <3>1. SUFFICES ASSUME NEW k \in 1..(l + 1) PROVE h[k] \in P \cap (1..(n + 1)) /\ t[k] = q[h[k]]
      OBVIOUS
    <3>2. CASE k = l + 1
      BY <1>1, <2>2, <2>6, <3>2
    <3>3. CASE k \in 1..l
      BY <2>2, <2>3, <2>6, <3>3
    <3>4. QED
      BY <2>6, <3>2, <3>3
  <2>8. \A j, k \in 1..(l + 1) : j < k => h[j] < h[k]
    <3>1. SUFFICES ASSUME NEW j \in 1..(l + 1), NEW k \in 1..(l + 1), j < k PROVE h[j] < h[k]
      OBVIOUS
    <3>2. j \in 1..l
      BY <3>1
    <3>3. CASE k = l + 1
      <4>1. g[j] \in Nat /\ g[j] <= n /\ h[j] = g[j] /\ h[k] = n + 1
        BY ONLY <2>4, <2>6, <3>2, <3>3
      <4>2. QED
        BY ONLY <4>1, n \in Nat
    <3>4. CASE k \in 1..l
      BY <2>3, <2>6, <3>1, <3>2, <3>4
    <3>5. QED
      BY <2>6, <3>3, <3>4
  <2>9. ASSUME NEW i \in P \cap (1..(n + 1)) PROVE \E k \in 1..(l + 1) : h[k] = i
    <3>1. CASE i = n + 1
      BY <2>6, <3>1
    <3>2. CASE i # n + 1
      <4>1. i \in P \cap (1..n)
        BY <3>2
      <4>2. PICK k \in 1..l : g[k] = i
        BY <2>3, <4>1
      <4>3. QED
        BY <2>6, <4>2
    <3>3. QED
      BY <3>1, <3>2
  <2>10. Picks(q, P, t, n + 1, h)
    <3>1. h \in [1..(l + 1) -> P \cap (1..(n + 1))]
      BY <2>6, <2>7
    <3>2. QED
      BY <2>2, <3>1, <2>7, <2>8, <2>9 DEF Picks
  <2>11. QED
    BY <2>2, <2>10
<1>2. CASE n + 1 \notin P
  <2>1. P \cap (1..(n + 1)) = P \cap (1..n)
    BY <1>2
  <2>2. Picks(q, P, r, n + 1, g)
    BY <2>1, Zenon DEF Picks
  <2>3. t = r
    BY <1>2
  <2>4. QED
    BY <2>2, <2>3
<1>3. QED
  BY <1>1, <1>2

LEMMA PickedIs ==
  ASSUME NEW S, NEW q \in Seq(S), NEW P
  PROVE  Picked(q, P) \in Seq(S) /\ \E g : Picks(q, P, Picked(q, P), Len(q), g)
<1> DEFINE L == Len(q)
           Next1(f, n) == IF n = 0 THEN <<>>
                          ELSE IF n \in P THEN Append(f[n - 1], q[n]) ELSE f[n - 1]
           Upto(n) == \E f \in [0..n -> Seq(S)] : \A i \in 0..n : f[i] = Next1(f, i)
           T == {n \in 0..L : Upto(n)}
<1>1. L \in Nat /\ \A n \in 1..L : q[n] \in S
  OBVIOUS
<1>2. 0 \in T
  <2>1. PICK e : e = [i \in 0..0 |-> <<>>]
    OBVIOUS
  <2>2. e \in [0..0 -> Seq(S)]
    BY <2>1
  <2>3. \A i \in 0..0 : e[i] = Next1(e, i)
    BY <2>1
  <2>4. Upto(0)
    BY <2>2, <2>3
  <2> HIDE DEF Upto
  <2>5. QED
    BY <1>1, <2>4
<1>3. ASSUME NEW n \in 0..L, n \in T, n < L PROVE n + 1 \in T
  <2>1. PICK f \in [0..n -> Seq(S)] : \A i \in 0..n : f[i] = Next1(f, i)
    BY <1>3
  <2>2. PICK e : e = IF n + 1 \in P THEN Append(f[n], q[n + 1]) ELSE f[n]
    OBVIOUS
  <2>3. e \in Seq(S)
    BY <2>1, <2>2, <1>1, <1>3
  <2>4. PICK h : h = [i \in 0..(n + 1) |-> IF i = n + 1 THEN e ELSE f[i]]
    OBVIOUS
  <2>5. h \in [0..(n + 1) -> Seq(S)]
    BY <2>1, <2>3, <2>4, <1>1
  <2>6. ASSUME NEW i \in 0..(n + 1) PROVE h[i] = Next1(h, i)
    <3>1. CASE i = n + 1
      <4>1. i # 0 /\ i - 1 = n /\ h[i] = e /\ h[n] = f[n]
        BY <2>4, <3>1, <1>1
      <4>2. QED
        BY <2>2, <3>1, <4>1
    <3>2. CASE i \in 1..n
      <4>1. i # 0 /\ h[i] = f[i] /\ h[i - 1] = f[i - 1] /\ i \in 0..n
        BY <2>4, <3>2, <1>1
      <4>2. QED
        BY <2>1, <4>1
    <3>3. CASE i = 0
      <4>1. h[0] = f[0] /\ 0 \in 0..n
        BY <2>4, <3>3, <1>1
      <4>2. QED
        BY <2>1, <3>3, <4>1
    <3>4. QED
      BY <3>1, <3>2, <3>3
  <2>7. Upto(n + 1)
    BY <2>5, <2>6
  <2> HIDE DEF Upto
  <2>8. QED
    BY <2>7, <1>1, <1>3
<1>4. Upto(L)
  <2> HIDE DEF Upto
  <2>1. T = 0..L
    BY <1>1, <1>2, <1>3, FromZero
  <2>2. QED
    BY <2>1, <1>1
<1>5. PICK whole : whole = [n \in 0..L |-> Next1(whole, n)]
  BY <1>4
<1>6. PICK f : f = [n \in 0..L |-> Next1(f, n)] /\ Picked(q, P) = f[L]
  <2>1. Picked(q, P) = (CHOOSE f : f = [n \in 0..L |-> Next1(f, n)])[L]
    BY Zenon DEF Picked
  <2>2. QED
    BY <1>5, <2>1
<1>7. \A n \in 0..L : f[n] = Next1(f, n)
  BY <1>6
<1> DEFINE Good(n) == f[n] \in Seq(S) /\ \E g : Picks(q, P, f[n], n, g)
           G == {n \in 0..L : Good(n)}
<1>8. 0 \in G
  <2>1. f[0] = <<>>
    BY <1>1, <1>7
  <2>2. Picks(q, P, <<>>, 0, [k \in {} |-> 0])
    BY DEF Picks
  <2>3. Good(0)
    BY <1>1, <2>1, <2>2
  <2> HIDE DEF Good
  <2>4. QED
    BY <1>1, <2>3
<1>9. ASSUME NEW n \in 0..L, n \in G, n < L PROVE n + 1 \in G
  <2>1. PICK r \in Seq(S) : r = f[n]
    BY <1>9
  <2>2. PICK g : Picks(q, P, r, n, g)
    BY <1>9, <2>1
  <2>3. n \in Nat /\ n + 1 \in 0..L /\ n + 1 \in 1..L /\ n + 1 - 1 = n /\ n + 1 # 0 /\ q[n + 1] \in S
    BY <1>1, <1>9
  <2>4. f[n + 1] = IF n + 1 \in P THEN Append(r, q[n + 1]) ELSE r
    <3>1. f[n + 1] = Next1(f, n + 1)
      <4> HIDE DEF Next1
      <4>1. QED
        BY <1>7, <2>3
    <3>2. Next1(f, n + 1) = IF n + 1 \in P THEN Append(f[n + 1 - 1], q[n + 1]) ELSE f[n + 1 - 1]
      BY ONLY <2>3
    <3>3. QED
      BY ONLY <2>1, <2>3, <3>1, <3>2
  <2>5. f[n + 1] \in Seq(S) /\ \E h : Picks(q, P, f[n + 1], n + 1, h)
    <3>1. PICK t : t = f[n + 1]
      OBVIOUS
    <3>2. t = IF n + 1 \in P THEN Append(r, q[n + 1]) ELSE r
      BY ONLY <2>4, <3>1
    <3>3. t \in Seq(S) /\ \E h : Picks(q, P, t, n + 1, h)
      BY ONLY q \in Seq(S), r \in Seq(S), <2>2, <2>3, <3>2, PicksGrow
    <3>4. QED
      BY ONLY <3>1, <3>3
  <2>6. Good(n + 1)
    BY <2>5
  <2> HIDE DEF Good
  <2>7. QED
    BY <2>3, <2>6
<1>10. Good(L)
  <2> HIDE DEF Good
  <2>1. G = 0..L
    BY <1>1, <1>8, <1>9, FromZero
  <2>2. QED
    BY <2>1, <1>1
<1>11. QED
  BY <1>6, <1>10

-----------------------------------------------------------------------------
(* Rising sequences *)

Rising(q) == \A j, k \in DOMAIN q : j < k => q[j] < q[k]
Elements(q) == {q[n] : n \in DOMAIN q}

LEMMA ElementsIs ==
  ASSUME NEW q, NEW m
  PROVE  m \in Elements(q) <=> \E n \in DOMAIN q : q[n] = m
BY Zenon DEF Elements

LEMMA SeqIs ==
  ASSUME NEW S, NEW q \in Seq(S)
  PROVE  DOMAIN q = 1..Len(q) /\ Len(q) \in Nat /\ \A k \in 1..Len(q) : q[k] \in S
OBVIOUS

LEMMA SeqGrows ==
  ASSUME NEW S, NEW T, S \subseteq T, NEW q \in Seq(S)
  PROVE  q \in Seq(T)
<1>1. PICK n \in Nat : q \in [1..n -> S]
  BY DEF Seq
<1>2. q \in [1..n -> T]
  BY ONLY <1>1, S \subseteq T
<1>3. QED
  BY ONLY <1>2, n \in Nat DEF Seq

\* Where two of them were equal so far, neither has skipped what the other has.
LEMMA RisingMeet ==
  ASSUME NEW q \in Seq(Nat), NEW t \in Seq(Nat), Rising(q), Rising(t),
         Elements(q) \subseteq Elements(t),
         NEW n \in DOMAIN q, \A k \in DOMAIN q : k < n => k \in DOMAIN t /\ q[k] = t[k]
  PROVE  n \in DOMAIN t /\ t[n] <= q[n]
<1>1. /\ DOMAIN q = 1..Len(q) /\ DOMAIN t = 1..Len(t) /\ Len(q) \in Nat /\ Len(t) \in Nat
      /\ \A k \in 1..Len(q) : q[k] \in Nat
      /\ \A k \in 1..Len(t) : t[k] \in Nat
  BY ONLY q \in Seq(Nat), t \in Seq(Nat), SeqIs
<1>2. PICK k \in DOMAIN t : q[n] = t[k]
  BY DEF Elements
<1>3. ~(k < n)
  <2>1. SUFFICES ASSUME k < n PROVE FALSE
    OBVIOUS
  <2>2. k \in DOMAIN q
    BY ONLY <1>1, <2>1, n \in DOMAIN q, k \in DOMAIN t
  <2>3. q[k] < q[n] /\ q[k] = t[k]
    BY <2>1, <2>2 DEF Rising
  <2>4. QED
    BY ONLY <1>1, <1>2, <2>2, <2>3, n \in DOMAIN q
<1>4. n \in DOMAIN t
  BY ONLY <1>1, <1>3, n \in DOMAIN q, k \in DOMAIN t
<1>5. CASE k = n
  BY ONLY <1>1, <1>2, <1>4, <1>5
<1>6. CASE n < k
  <2>1. t[n] < t[k]
    BY <1>4, <1>6 DEF Rising
  <2>2. t[n] \in Nat /\ t[k] \in Nat
    BY ONLY <1>1, <1>4, k \in DOMAIN t
  <2>3. \A a, b \in Nat : a < b => a <= b
    OBVIOUS
  <2>4. t[n] <= t[k]
    BY ONLY <2>1, <2>2, <2>3, Zenon
  <2>5. QED
    BY ONLY <1>2, <1>4, <2>4, Zenon
<1>7. QED
  BY ONLY <1>1, <1>3, <1>4, <1>5, <1>6, n \in DOMAIN q, k \in DOMAIN t

LEMMA RisingSame ==
  ASSUME NEW q \in Seq(Nat), NEW t \in Seq(Nat), Rising(q), Rising(t),
         Elements(q) = Elements(t)
  PROVE  q = t
<1>1. /\ DOMAIN q = 1..Len(q) /\ DOMAIN t = 1..Len(t) /\ Len(q) \in Nat /\ Len(t) \in Nat
      /\ \A k \in 1..Len(q) : q[k] \in Nat
      /\ \A k \in 1..Len(t) : t[k] \in Nat
  BY ONLY q \in Seq(Nat), t \in Seq(Nat), SeqIs
<1> DEFINE U == {n \in Nat \ {0} : (n \in DOMAIN q \/ n \in DOMAIN t)
                                   /\ ~(n \in DOMAIN q /\ n \in DOMAIN t /\ q[n] = t[n])}
<1>2. U = {}
  <2>1. SUFFICES ASSUME U # {} PROVE FALSE
    OBVIOUS
  <2>2. PICK R : R = {ss \in Nat \X Nat : ss[1] < ss[2]} /\ IsWellFoundedOn(R, Nat)
    BY NatLessThanWellFounded DEF OpToRel
  <2>3. PICK n \in U : \A k \in U : ~(<<k, n>> \in R)
    <3>1. U \subseteq Nat
      OBVIOUS
    <3> HIDE DEF U
    <3>2. QED
      BY <2>1, <2>2, <3>1, WFMin
  <2>4. \A k \in 1..(n - 1) : k \notin U
    <3>1. U \subseteq Nat /\ n \in Nat
      OBVIOUS
    <3> HIDE DEF U
    <3>2. \A k \in U : ~(k < n)
      BY ONLY <2>2, <2>3, <3>1
    <3>3. QED
      BY ONLY <3>1, <3>2
  <2>5. /\ \A k \in DOMAIN q : k < n => k \in DOMAIN t /\ q[k] = t[k]
        /\ \A k \in DOMAIN t : k < n => k \in DOMAIN q /\ t[k] = q[k]
    BY <1>1, <2>3, <2>4
  <2>6. Elements(q) \subseteq Elements(t) /\ Elements(t) \subseteq Elements(q)
    OBVIOUS
  <2>7. /\ n \in DOMAIN q => n \in DOMAIN t /\ t[n] <= q[n]
        /\ n \in DOMAIN t => n \in DOMAIN q /\ q[n] <= t[n]
    BY ONLY <2>5, <2>6, q \in Seq(Nat), t \in Seq(Nat), Rising(q), Rising(t), RisingMeet
  <2>8. QED
    BY <1>1, <2>3, <2>7
<1>3. Len(q) = Len(t)
  <2>1. PICK a, b : a = Len(q) /\ b = Len(t)
    OBVIOUS
  <2> a \in Nat /\ b \in Nat
    BY <1>1, <2>1, Zenon
  <2>2. \A n \in Nat \ {0} : n \in DOMAIN q <=> n \in DOMAIN t
    BY <1>2
  <2>3. (\A n \in 1..a : n \in 1..b) /\ (\A n \in 1..b : n \in 1..a)
    <3>1. DOMAIN q = 1..a /\ DOMAIN t = 1..b
      BY <1>1, <2>1, Zenon
    <3>2. \A n : n \in 1..a \/ n \in 1..b => n \in Nat \ {0}
      BY a \in Nat, b \in Nat
    <3>3. QED
      BY <2>2, <3>1, <3>2, Zenon
  <2>4. (a # 0 => a <= b) /\ (b # 0 => b <= a)
    <3>1. (a # 0 => a \in 1..a) /\ (b # 0 => b \in 1..b)
      BY ONLY a \in Nat, b \in Nat
    <3>2. (a \in 1..b => a <= b) /\ (b \in 1..a => b <= a)
      BY ONLY a \in Nat, b \in Nat
    <3>3. QED
      BY <2>3, <3>1, <3>2, Zenon
  <2>5. a = b
    BY ONLY <2>4, a \in Nat, b \in Nat
  <2>6. QED
    BY <2>1, <2>5, Zenon
<1>4. \A k \in 1..Len(q) : q[k] = t[k]
  BY <1>1, <1>2
<1>5. QED
  BY <1>1, <1>3, <1>4, q \in [1..Len(q) -> Nat], t \in [1..Len(q) -> Nat]

\* Every element that was picked, and in the order in which they were.
LEMMA PickedElements ==
  ASSUME NEW S, NEW q \in Seq(S), NEW P, NEW p, p = Picked(q, P)
  PROVE  /\ p \in Seq(S)
         /\ \A k \in DOMAIN p : \E n \in DOMAIN q : n \in P /\ p[k] = q[n]
         /\ \A n \in DOMAIN q : n \in P => \E k \in DOMAIN p : p[k] = q[n]
         /\ \A j, k \in DOMAIN p : j < k =>
              \E m, n \in DOMAIN q : m \in P /\ n \in P /\ m < n /\ p[j] = q[m] /\ p[k] = q[n]
<1>1. p \in Seq(S) /\ \E g : Picks(q, P, p, Len(q), g)
  BY PickedIs
<1>2. PICK g : Picks(q, P, p, Len(q), g)
  BY <1>1
<1>3. DOMAIN q = 1..Len(q) /\ DOMAIN p = 1..Len(p)
  BY ONLY <1>1, q \in Seq(S), SeqIs
<1>4. PICK D : D = P \cap (1..Len(q))
  OBVIOUS
<1>5. /\ g \in [DOMAIN p -> D]
      /\ \A k \in DOMAIN p : p[k] = q[g[k]]
      /\ \A j, k \in DOMAIN p : j < k => g[j] < g[k]
      /\ \A n \in D : \E k \in DOMAIN p : g[k] = n
  BY ONLY <1>2, <1>3, <1>4, Zenon DEF Picks
<1>6. \A n : n \in D <=> n \in P /\ n \in DOMAIN q
  BY ONLY <1>3, <1>4, Zenon
<1>7. \A k \in DOMAIN p : g[k] \in D
  BY ONLY <1>5, Zenon
<1>8. \A k \in DOMAIN p : g[k] \in DOMAIN q /\ g[k] \in P
  BY ONLY <1>6, <1>7, Zenon
<1>9. \A k \in DOMAIN p : \E n \in DOMAIN q : n \in P /\ p[k] = q[n]
  BY ONLY <1>5, <1>8, Zenon
<1>10. ASSUME NEW n \in DOMAIN q, n \in P PROVE \E k \in DOMAIN p : p[k] = q[n]
  <2>1. n \in D
    BY ONLY <1>6, <1>10, Zenon
  <2>2. PICK k \in DOMAIN p : g[k] = n
    BY ONLY <1>5, <2>1, Zenon
  <2>3. p[k] = q[n]
    BY ONLY <1>5, <2>2, Zenon
  <2>4. QED
    BY ONLY <2>2, <2>3, Zenon
<1>11. \A j, k \in DOMAIN p : j < k =>
         \E m, n \in DOMAIN q : m \in P /\ n \in P /\ m < n /\ p[j] = q[m] /\ p[k] = q[n]
  BY ONLY <1>5, <1>8, Zenon
<1>12. QED
  BY <1>1, <1>9, <1>10, <1>11, Zenon

-----------------------------------------------------------------------------
(* Sequences one after the other *)

LEMMA SeqExt ==
  ASSUME NEW S, NEW q \in Seq(S), NEW t \in Seq(S), Len(q) = Len(t),
         \A k \in 1..Len(q) : q[k] = t[k]
  PROVE  q = t
<1>1. PICK l \in Nat : l = Len(q)
  OBVIOUS
<1>2. q \in [1..l -> S] /\ t \in [1..l -> S]
  BY <1>1
<1>3. QED
  BY <1>1, <1>2

LEMMA JoinedIs ==
  ASSUME NEW S, NEW q \in Seq(S), NEW t \in Seq(S)
  PROVE  /\ q \o t \in Seq(S) /\ Len(q \o t) = Len(q) + Len(t) /\ Len(q) \in Nat /\ Len(t) \in Nat
         /\ \A k \in 1..Len(q) : (q \o t)[k] = q[k]
         /\ \A k \in 1..Len(t) : (q \o t)[Len(q) + k] = t[k]
OBVIOUS

LEMMA JoinAppend ==
  ASSUME NEW S, NEW q \in Seq(S), NEW t \in Seq(S), NEW v \in S
  PROVE  q \o Append(t, v) = Append(q \o t, v) /\ q \o t \in Seq(S)
OBVIOUS

LEMMA JoinJoin ==
  ASSUME NEW S, NEW q \in Seq(S), NEW t \in Seq(S), NEW u \in Seq(S)
  PROVE  (q \o t) \o u = q \o (t \o u)
OBVIOUS

LEMMA JoinNil ==
  ASSUME NEW S, NEW q \in Seq(S)
  PROVE  q \o <<>> = q /\ <<>> \o q = q /\ <<>> \in Seq(S)
<1>1. <<>> \in Seq(S)
  OBVIOUS
<1>2. q \o <<>> = q
  <2>1. q \o <<>> \in Seq(S) /\ Len(q \o <<>>) = Len(q) /\ \A k \in 1..Len(q) : (q \o <<>>)[k] = q[k]
    OBVIOUS
  <2>2. QED
    BY ONLY <2>1, q \in Seq(S), SeqExt
<1>3. <<>> \o q = q
  <2>1. <<>> \o q \in Seq(S) /\ Len(<<>> \o q) = Len(q) /\ \A k \in 1..Len(q) : (<<>> \o q)[k] = q[k]
    OBVIOUS
  <2>2. QED
    BY ONLY <2>1, q \in Seq(S), SeqExt
<1>4. QED
  BY <1>1, <1>2, <1>3

LEMMA NilIs ==
  ASSUME NEW S, NEW q \in Seq(S), Len(q) = 0
  PROVE  q = <<>>
OBVIOUS

\* The equation of FlattenSeq has a solution for every number of sequences.
Solves(f, seqs, n) ==
  \A i \in 1..n : f[i] = IF i = 1 THEN seqs[i] ELSE f[i - 1] \o seqs[i]

LEMMA FlatSolved ==
  ASSUME NEW S, NEW s \in Seq(Seq(S)), NEW n \in 0..Len(s)
  PROVE  \E f \in [1..n -> Seq(S)] : Solves(f, s, n)
<1> DEFINE L == Len(s)
           Upto(m) == \E f \in [1..m -> Seq(S)] : Solves(f, s, m)
           T == {m \in 0..L : Upto(m)}
<1>1. L \in Nat /\ \A m \in 1..L : s[m] \in Seq(S)
  OBVIOUS
<1>2. 0 \in T
  <2>1. [i \in 1..0 |-> <<>>] \in [1..0 -> Seq(S)]
    OBVIOUS
  <2>2. Solves([i \in 1..0 |-> <<>>], s, 0)
    BY DEF Solves
  <2>3. Upto(0)
    BY <2>1, <2>2
  <2> HIDE DEF Upto
  <2>4. QED
    BY <1>1, <2>3
<1>3. ASSUME NEW m \in 0..L, m \in T, m < L PROVE m + 1 \in T
  <2>1. PICK f \in [1..m -> Seq(S)] : Solves(f, s, m)
    BY <1>3
  <2>2. m \in Nat /\ m + 1 \in 1..L /\ m + 1 \in 0..L /\ s[m + 1] \in Seq(S)
    BY <1>1, <1>3
  <2>3. PICK e : e = IF m = 0 THEN s[m + 1] ELSE f[m] \o s[m + 1]
    OBVIOUS
  <2>4. e \in Seq(S)
    <3>1. CASE m = 0
      BY <2>2, <2>3, <3>1
    <3>2. CASE m # 0
      <4>1. f[m] \in Seq(S)
        BY <2>1, <2>2, <3>2
      <4>2. f[m] \o s[m + 1] \in Seq(S)
        BY ONLY <2>2, <4>1
      <4>3. QED
        BY <2>3, <3>2, <4>2
    <3>3. QED
      BY <3>1, <3>2
  <2>5. PICK h : h = [i \in 1..(m + 1) |-> IF i = m + 1 THEN e ELSE f[i]]
    OBVIOUS
  <2>6. h \in [1..(m + 1) -> Seq(S)]
    BY <2>1, <2>2, <2>4, <2>5
  <2>7. ASSUME NEW i \in 1..(m + 1)
        PROVE  h[i] = IF i = 1 THEN s[i] ELSE h[i - 1] \o s[i]
    <3>1. CASE i = m + 1
      <4>1. h[i] = e /\ (m # 0 => h[i - 1] = f[m]) /\ (i = 1 <=> m = 0)
        BY <2>2, <2>5, <3>1
      <4>2. QED
        BY <2>3, <3>1, <4>1
    <3>2. CASE i # m + 1
      <4>1. i \in 1..m /\ h[i] = f[i] /\ (i # 1 => h[i - 1] = f[i - 1])
        BY <2>2, <2>5, <3>2
      <4>2. QED
        BY <2>1, <4>1 DEF Solves
    <3>3. QED
      BY <3>1, <3>2
  <2>8. Solves(h, s, m + 1)
    BY <2>7 DEF Solves
  <2>9. QED
    BY <2>2, <2>6, <2>8
<1>4. T = 0..L
  <2> HIDE DEF Upto
  <2>1. QED
    BY <1>1, <1>2, <1>3, FromZero
<1>5. n \in T
  BY <1>4
<1>6. QED
  BY <1>5

\* It has one: the first place where two of them differ could not be.
LEMMA SolvedOnce ==
  ASSUME NEW s, NEW n \in Nat, NEW m \in Nat, n <= m,
         NEW f, Solves(f, s, n), NEW g, Solves(g, s, m)
  PROVE  \A i \in 1..n : f[i] = g[i]
<1> DEFINE T == {i \in 0..n : i = 0 \/ f[i] = g[i]}
<1>1. 0 \in T
  OBVIOUS
<1>2. ASSUME NEW i \in 0..n, i \in T, i < n PROVE i + 1 \in T
  <2>1. PICK j : j = i + 1
    OBVIOUS
  <2>2. i \in Nat /\ j \in 1..n /\ j \in 1..m /\ j - 1 = i /\ (j = 1 <=> i = 0) /\ j \in 0..n
    BY <1>2, <2>1
  <2>3. f[j] = IF j = 1 THEN s[j] ELSE f[j - 1] \o s[j]
    BY <2>2 DEF Solves
  <2>4. g[j] = IF j = 1 THEN s[j] ELSE g[j - 1] \o s[j]
    BY <2>2 DEF Solves
  <2>5. i = 0 \/ f[j - 1] = g[j - 1]
    BY <1>2, <2>2
  <2>6. f[j] = g[j]
    BY ONLY <2>2, <2>3, <2>4, <2>5
  <2>7. QED
    BY <2>1, <2>2, <2>6
<1>3. T = 0..n
  BY <1>1, <1>2, FromZero
<1>4. QED
  BY <1>3

\* What is defined by it is the last value of any solution.
LEMMA FlatIs ==
  ASSUME NEW S, NEW s \in Seq(Seq(S)), Len(s) # 0
  PROVE  \E f \in [1..Len(s) -> Seq(S)] : Solves(f, s, Len(s)) /\ FlattenSeq(s) = f[Len(s)]
<1> DEFINE L == Len(s)
           Flat(f, i) == IF i = 1 THEN s[i] ELSE f[i - 1] \o s[i]
<1>1. L \in Nat /\ L \in 0..L
  OBVIOUS
<1>2. PICK g \in [1..L -> Seq(S)] : Solves(g, s, L)
  BY <1>1, FlatSolved
<1>3. g = [i \in 1..L |-> Flat(g, i)]
  BY <1>2 DEF Solves
<1>4. PICK f : f = [i \in 1..L |-> Flat(f, i)] /\ FlattenSeq(s) = f[L]
  <2>1. FlattenSeq(s) = (CHOOSE f : f = [i \in 1..L |-> Flat(f, i)])[L]
    BY Zenon DEF FlattenSeq
  <2>2. QED
    BY <1>3, <2>1
<1>5. \A i \in 1..L : f[i] = Flat(f, i)
  BY <1>4
<1>6. Solves(f, s, L)
  BY <1>5 DEF Solves
<1>7. f = g
  <2>1. \A i \in 1..L : f[i] = g[i]
    <3>1. L <= L
      BY <1>1
    <3>2. QED
      BY ONLY <1>1, <1>2, <1>6, <3>1, SolvedOnce
  <2>2. f = [i \in 1..L |-> f[i]]
    BY <1>4
  <2>3. QED
    BY ONLY <1>2, <2>1, <2>2
<1>8. QED
  BY <1>2, <1>4, <1>6, <1>7

LEMMA FlatNil == FlattenSeq(<<>>) = <<>>
BY DEF FlattenSeq

LEMMA FlatTyped ==
  ASSUME NEW S, NEW s \in Seq(Seq(S))
  PROVE  FlattenSeq(s) \in Seq(S)
<1>1. CASE Len(s) = 0
  <2>1. s = <<>>
    BY <1>1
  <2>2. <<>> \in Seq(S)
    OBVIOUS
  <2>3. QED
    BY <2>1, <2>2, FlatNil, Zenon
<1>2. CASE Len(s) # 0
  <2>1. PICK f \in [1..Len(s) -> Seq(S)] : FlattenSeq(s) = f[Len(s)]
    BY <1>2, FlatIs
  <2>2. Len(s) \in 1..Len(s)
    BY <1>2
  <2>3. QED
    BY <2>1, <2>2
<1>3. QED
  BY <1>1, <1>2

LEMMA FlatAppend ==
  ASSUME NEW S, NEW s \in Seq(Seq(S)), NEW x \in Seq(S)
  PROVE  FlattenSeq(Append(s, x)) = FlattenSeq(s) \o x
<1>1. PICK l \in Nat : l = Len(s)
  OBVIOUS
<1>2. PICK t : t = Append(s, x)
  OBVIOUS
<1>3. /\ t \in Seq(Seq(S)) /\ Len(t) = l + 1 /\ t[l + 1] = x
      /\ \A k \in 1..l : t[k] = s[k]
  BY <1>1, <1>2, AppendIs
<1>4. PICK g \in [1..(l + 1) -> Seq(S)] : Solves(g, t, l + 1) /\ FlattenSeq(t) = g[l + 1]
  <2>1. Len(t) # 0
    BY <1>1, <1>3
  <2>2. QED
    BY <1>3, <2>1, FlatIs
<1>5. g[l + 1] = IF l + 1 = 1 THEN x ELSE g[l + 1 - 1] \o x
  <2>1. \A k \in 1..(l + 1) : g[k] = IF k = 1 THEN t[k] ELSE g[k - 1] \o t[k]
    BY <1>4, Zenon DEF Solves
  <2>2. PICK j : j = l + 1
    OBVIOUS
  <2>3. j \in 1..j
    BY <1>1, <2>2
  <2>4. g[j] = IF j = 1 THEN x ELSE g[j - 1] \o x
    BY ONLY <1>3, <2>1, <2>2, <2>3
  <2>5. QED
    BY ONLY <2>2, <2>4
<1>6. CASE l = 0
  <2>1. s = <<>>
    BY ONLY <1>1, <1>6, s \in Seq(Seq(S)), NilIs
  <2>2. g[l + 1] = x
    BY <1>5, <1>6
  <2>3. <<>> \o x = x
    OBVIOUS
  <2>4. QED
    BY <1>2, <1>4, <2>1, <2>2, <2>3, FlatNil
<1>7. CASE l # 0
  <2>1. PICK f \in [1..l -> Seq(S)] : Solves(f, s, l) /\ FlattenSeq(s) = f[l]
    BY <1>1, <1>7, FlatIs
  <2>2. Solves(g, s, l)
    <3>1. \A k \in 1..l : k \in 1..(l + 1)
      BY <1>1
    <3>2. \A k \in 1..l : g[k] = IF k = 1 THEN t[k] ELSE g[k - 1] \o t[k]
      BY <1>4, <3>1, Zenon DEF Solves
    <3>3. QED
      BY ONLY <1>3, <3>2, Zenon DEF Solves
  <2>3. f[l] = g[l]
    <3>1. l <= l /\ l \in 1..l
      BY <1>1, <1>7
    <3>2. QED
      BY ONLY <1>1, <2>1, <2>2, <3>1, SolvedOnce
  <2>4. l + 1 # 1 /\ l + 1 - 1 = l
    BY <1>1, <1>7
  <2>5. QED
    BY <1>2, <1>4, <1>5, <2>1, <2>3, <2>4
<1>8. QED
  BY <1>6, <1>7

LEMMA FlatOne ==
  ASSUME NEW S, NEW x \in Seq(S)
  PROVE  FlattenSeq(<<x>>) = x
<1>1. <<x>> = Append(<<>>, x) /\ <<>> \in Seq(Seq(S)) /\ <<>> \o x = x
  OBVIOUS
<1>2. QED
  BY <1>1, FlatAppend, FlatNil

\* The first elements of a sequence.
LEMMA First ==
  ASSUME NEW S, NEW t \in Seq(S), NEW n \in 0..Len(t)
  PROVE  /\ SubSeq(t, 1, n) \in Seq(S) /\ Len(SubSeq(t, 1, n)) = n
         /\ \A k \in 1..n : SubSeq(t, 1, n)[k] = t[k]
         /\ n < Len(t) => /\ t[n + 1] \in S
                          /\ SubSeq(t, 1, n + 1) = Append(SubSeq(t, 1, n), t[n + 1])
OBVIOUS

LEMMA WholeFirst ==
  ASSUME NEW S, NEW t \in Seq(S)
  PROVE  SubSeq(t, 1, 0) = <<>> /\ SubSeq(t, 1, Len(t)) = t /\ Len(t) \in 0..Len(t) /\ 0 \in 0..Len(t)
OBVIOUS

LEMMA FlatJoin ==
  ASSUME NEW S, NEW s \in Seq(Seq(S)), NEW t \in Seq(Seq(S))
  PROVE  FlattenSeq(s \o t) = FlattenSeq(s) \o FlattenSeq(t)
<1> DEFINE L == Len(t)
           To(n) == SubSeq(t, 1, n)
           Good(n) == FlattenSeq(s \o To(n)) = FlattenSeq(s) \o FlattenSeq(To(n))
           T == {n \in 0..L : Good(n)}
<1>1. L \in Nat /\ FlattenSeq(s) \in Seq(S)
  BY FlatTyped
<1>2. 0 \in T
  <2>1. To(0) = <<>> /\ 0 \in 0..L /\ s \o <<>> = s /\ FlattenSeq(s) \o <<>> = FlattenSeq(s)
    BY <1>1
  <2>2. Good(0)
    BY <2>1, FlatNil
  <2> HIDE DEF Good
  <2>3. QED
    BY <2>1, <2>2
<1>3. ASSUME NEW n \in 0..L, n \in T, n < L PROVE n + 1 \in T
  <2>1. PICK a \in Seq(Seq(S)) : a = To(n)
    BY <1>3, First
  <2>2. PICK x \in Seq(S) : x = t[n + 1]
    BY <1>3, First
  <2>3. To(n + 1) = Append(a, x) /\ n + 1 \in 0..L
    BY <1>1, <1>3, <2>1, <2>2, First
  <2>4. s \o Append(a, x) = Append(s \o a, x) /\ s \o a \in Seq(Seq(S))
    BY JoinAppend
  <2>5. FlattenSeq(Append(s \o a, x)) = FlattenSeq(s \o a) \o x
    BY <2>4, FlatAppend
  <2>6. FlattenSeq(Append(a, x)) = FlattenSeq(a) \o x /\ FlattenSeq(a) \in Seq(S)
    BY FlatAppend, FlatTyped
  <2>7. FlattenSeq(s \o a) = FlattenSeq(s) \o FlattenSeq(a)
    BY <1>3, <2>1
  <2>8. (FlattenSeq(s) \o FlattenSeq(a)) \o x = FlattenSeq(s) \o (FlattenSeq(a) \o x)
    <3>1. PICK p \in Seq(S), q \in Seq(S) : p = FlattenSeq(s) /\ q = FlattenSeq(a)
      BY <1>1, <2>6
    <3>2. (p \o q) \o x = p \o (q \o x)
      BY JoinJoin
    <3>3. QED
      BY ONLY <3>1, <3>2, Zenon
  <2>9. Good(n + 1)
    BY <2>3, <2>4, <2>5, <2>6, <2>7, <2>8
  <2> HIDE DEF Good
  <2>10. QED
    BY <2>3, <2>9
<1>4. Good(L)
  <2> HIDE DEF Good
  <2>1. T = 0..L
    BY <1>1, <1>2, <1>3, FromZero
  <2>2. QED
    BY <1>1, <2>1
<1>5. QED
  BY <1>4, WholeFirst

LEMMA FlatSingles ==
  ASSUME NEW S, NEW s \in Seq(S)
  PROVE  FlattenSeq([i \in 1..Len(s) |-> <<s[i]>>]) = s
<1> DEFINE L == Len(s)
           Upto(n) == [i \in 1..n |-> <<s[i]>>]
           Good(n) == FlattenSeq(Upto(n)) = SubSeq(s, 1, n)
           T == {n \in 0..L : Good(n)}
<1>1. L \in Nat
  OBVIOUS
<1>2. 0 \in T
  <2>1. Upto(0) = <<>> /\ 0 \in 0..L /\ SubSeq(s, 1, 0) = <<>>
    BY <1>1
  <2>2. Good(0)
    BY <2>1, FlatNil
  <2> HIDE DEF Good
  <2>3. QED
    BY <2>1, <2>2
<1>3. ASSUME NEW n \in 0..L, n \in T, n < L PROVE n + 1 \in T
  <2>1. Upto(n) \in Seq(Seq(S)) /\ n + 1 \in 0..L /\ <<s[n + 1]>> \in Seq(S) /\ s[n + 1] \in S
    BY <1>1, <1>3
  <2>2. Upto(n + 1) = Append(Upto(n), <<s[n + 1]>>)
    BY <1>1, <1>3
  <2>3. FlattenSeq(Upto(n + 1)) = FlattenSeq(Upto(n)) \o <<s[n + 1]>>
    <3> HIDE DEF Upto
    <3>1. QED
      BY <2>1, <2>2, FlatAppend
  <2>4. SubSeq(s, 1, n) \o <<s[n + 1]>> = SubSeq(s, 1, n + 1)
    BY <1>3, <2>1
  <2>5. Good(n + 1)
    <3> HIDE DEF Upto
    <3>1. QED
      BY <1>3, <2>3, <2>4
  <2> HIDE DEF Good
  <2>6. QED
    BY <2>1, <2>5
<1>4. Good(L)
  <2> HIDE DEF Good
  <2>1. T = 0..L
    BY <1>1, <1>2, <1>3, FromZero
  <2>2. QED
    BY <1>1, <2>1
<1>5. QED
  BY <1>4, WholeFirst

\* A sequence is the beginning of another if something follows it there.
LEMMA PrefixIs ==
  ASSUME NEW S, NEW s \in Seq(S), NEW t \in Seq(S)
  PROVE  IsPrefix(s, t) <=> \E u \in Seq(S) : t = s \o u
<1>1. ASSUME NEW u \in Seq(S), t = s \o u PROVE IsPrefix(s, t)
  BY <1>1 DEF IsPrefix
<1>2. ASSUME IsPrefix(s, t) PROVE \E u \in Seq(S) : t = s \o u
  <2>1. PICK l \in Nat, m \in Nat : l = Len(s) /\ m = Len(t)
    OBVIOUS
  <2>2. l <= m /\ \A k \in 1..l : s[k] = t[k]
    <3>1. l <= m /\ SubSeq(s, 1, l) = SubSeq(t, 1, l)
      BY <1>2, <2>1 DEF IsPrefix
    <3>2. QED
      BY <2>1, <3>1, First
  <2>3. PICK u : u = [k \in 1..(m - l) |-> t[l + k]]
    OBVIOUS
  <2>4. u \in Seq(S) /\ Len(u) = m - l /\ \A k \in 1..(m - l) : u[k] = t[l + k]
    BY <2>1, <2>2, <2>3
  <2>5. s \o u \in Seq(S) /\ Len(s \o u) = m /\ \A k \in 1..m : (s \o u)[k] = t[k]
    <3>1. s \o u \in Seq(S) /\ Len(s \o u) = m
      BY <2>1, <2>2, <2>4
    <3>2. ASSUME NEW k \in 1..m PROVE (s \o u)[k] = t[k]
      <4>1. CASE k \in 1..l
        BY <2>1, <2>2, <2>4, <4>1, JoinedIs
      <4>2. CASE k \notin 1..l
        <5>1. PICK j : j = k - l
          OBVIOUS
        <5>2. j \in 1..(m - l) /\ k = l + j
          BY <2>1, <2>2, <4>2, <5>1
        <5>3. (s \o u)[l + j] = u[j]
          BY <2>1, <2>4, <5>2, JoinedIs
        <5>4. QED
          BY <2>4, <5>2, <5>3
      <4>3. QED
        BY <4>1, <4>2
    <3>3. QED
      BY <3>1, <3>2
  <2>6. t = s \o u
    BY ONLY <2>1, <2>5, t \in Seq(S), SeqExt
  <2>7. QED
    BY <2>4, <2>6
<1>3. QED
  BY <1>1, <1>2

\* What Each is of the elements' images under a function.
Through(g, q) == FlattenSeq([i \in 1..Len(q) |-> g[q[i]]])

LEMMA ThroughTyped ==
  ASSUME NEW X, NEW S, NEW g \in [X -> Seq(S)], NEW q \in Seq(X)
  PROVE  /\ [i \in 1..Len(q) |-> g[q[i]]] \in Seq(Seq(S))
         /\ Through(g, q) \in Seq(S)
<1>1. \A i \in 1..Len(q) : g[q[i]] \in Seq(S)
  OBVIOUS
<1>2. PICK l \in Nat : l = Len(q)
  OBVIOUS
<1>3. [i \in 1..l |-> g[q[i]]] \in [1..l -> Seq(S)]
  BY <1>1, <1>2
<1>4. [i \in 1..Len(q) |-> g[q[i]]] \in Seq(Seq(S))
  BY <1>2, <1>3
<1>5. QED
  BY <1>4, FlatTyped DEF Through

LEMMA ThroughNil ==
  ASSUME NEW g
  PROVE  Through(g, <<>>) = <<>>
<1>1. [i \in 1..Len(<<>>) |-> g[(<<>>)[i]]] = <<>>
  OBVIOUS
<1>2. QED
  BY <1>1, FlatNil DEF Through

LEMMA ThroughOne ==
  ASSUME NEW X, NEW S, NEW g \in [X -> Seq(S)], NEW x \in X
  PROVE  Through(g, <<x>>) = g[x]
<1>1. [i \in 1..Len(<<x>>) |-> g[(<<x>>)[i]]] = <<g[x]>> /\ g[x] \in Seq(S)
  OBVIOUS
<1>2. QED
  BY <1>1, FlatOne DEF Through

LEMMA ThroughJoin ==
  ASSUME NEW X, NEW S, NEW g \in [X -> Seq(S)], NEW q \in Seq(X), NEW t \in Seq(X)
  PROVE  Through(g, q \o t) = Through(g, q) \o Through(g, t)
<1> DEFINE Images(r) == [i \in 1..Len(r) |-> g[r[i]]]
<1>1. Images(q) \in Seq(Seq(S)) /\ Images(t) \in Seq(Seq(S)) /\ Images(q \o t) \in Seq(Seq(S))
  <2>1. q \o t \in Seq(X)
    OBVIOUS
  <2>2. QED
    BY <2>1, ThroughTyped
<1>2. PICK l \in Nat, m \in Nat : l = Len(q) /\ m = Len(t)
  OBVIOUS
<1>3. Len(Images(q)) = l /\ Len(Images(t)) = m /\ Len(Images(q \o t)) = l + m
  BY <1>2
<1>4. \A k \in 1..(l + m) : Images(q \o t)[k] = (Images(q) \o Images(t))[k]
  <2>1. SUFFICES ASSUME NEW k \in 1..(l + m) PROVE Images(q \o t)[k] = (Images(q) \o Images(t))[k]
    OBVIOUS
  <2>2. Images(q \o t)[k] = g[(q \o t)[k]]
    BY <1>2
  <2>3. CASE k \in 1..l
    <3>1. (q \o t)[k] = q[k]
      BY <1>2, <2>3, JoinedIs
    <3>2. Images(q)[k] = g[q[k]]
      BY <1>2, <2>3
    <3>3. (Images(q) \o Images(t))[k] = Images(q)[k]
      <4> HIDE DEF Images
      <4>1. QED
        BY <1>1, <1>3, <2>3, JoinedIs
    <3>4. QED
      BY <2>2, <3>1, <3>2, <3>3
  <2>4. CASE k \notin 1..l
    <3>1. PICK j : j = k - l
      OBVIOUS
    <3>2. j \in 1..m /\ k = l + j
      BY <1>2, <2>4, <3>1
    <3>3. (q \o t)[l + j] = t[j]
      BY <1>2, <3>2, JoinedIs
    <3>4. Images(t)[j] = g[t[j]]
      BY <1>2, <3>2
    <3>5. (Images(q) \o Images(t))[l + j] = Images(t)[j]
      <4>1. PICK a \in Seq(Seq(S)), b \in Seq(Seq(S)) : a = Images(q) /\ b = Images(t)
        BY <1>1
      <4> HIDE DEF Images
      <4>2. Len(a) = l /\ Len(b) = m
        BY <1>3, <4>1
      <4>3. (a \o b)[l + j] = b[j]
        <5>1. \A i \in 1..Len(b) : (a \o b)[Len(a) + i] = b[i]
          BY JoinedIs
        <5>2. j \in 1..Len(b)
          BY <3>2, <4>2
        <5>3. QED
          BY ONLY <4>2, <5>1, <5>2, Zenon
      <4>4. QED
        BY ONLY <4>1, <4>3, Zenon
    <3>6. QED
      BY <2>2, <3>2, <3>3, <3>4, <3>5
  <2>5. QED
    BY <2>3, <2>4
<1>5. Images(q \o t) = Images(q) \o Images(t)
  <2> HIDE DEF Images
  <2>1. Images(q) \o Images(t) \in Seq(Seq(S)) /\ Len(Images(q) \o Images(t)) = l + m
    <3>1. PICK a \in Seq(Seq(S)), b \in Seq(Seq(S)) : a = Images(q) /\ b = Images(t)
      BY <1>1
    <3>2. Len(a) = l /\ Len(b) = m
      BY <1>3, <3>1
    <3>3. a \o b \in Seq(Seq(S)) /\ Len(a \o b) = l + m
      BY <3>2, JoinedIs
    <3>4. QED
      BY ONLY <3>1, <3>3, Zenon
  <2>2. QED
    BY ONLY <1>1, <1>3, <1>4, <2>1, SeqExt
<1>6. FlattenSeq(Images(q) \o Images(t)) = FlattenSeq(Images(q)) \o FlattenSeq(Images(t))
  <2> HIDE DEF Images
  <2>1. QED
    BY <1>1, FlatJoin
<1>7. QED
  BY <1>5, <1>6, Zenon DEF Through

\* Of elements without an image nothing is left.
LEMMA ThroughNone ==
  ASSUME NEW X, NEW S, NEW g \in [X -> Seq(S)], NEW q \in Seq(X), \A x \in X : g[x] = <<>>
  PROVE  Through(g, q) = <<>>
<1>1. g \in [X -> Seq({})]
  <2>1. <<>> \in Seq({})
    OBVIOUS
  <2>2. QED
    BY <2>1
<1>2. Through(g, q) \in Seq({})
  BY <1>1, ThroughTyped
<1>3. QED
  BY <1>2

LEMMA PrefixBasics ==
  ASSUME NEW S, NEW s \in Seq(S)
  PROVE  /\ IsPrefix(<<>>, s) /\ IsPrefix(s, s)
         /\ \A u \in Seq(S) : IsPrefix(s, s \o u)
         /\ \A t, u \in Seq(S) : IsPrefix(s, t) /\ IsPrefix(t, u) => IsPrefix(s, u)
<1>1. IsPrefix(<<>>, s) /\ IsPrefix(s, s)
  <2>1. <<>> \in Seq(S) /\ s = <<>> \o s /\ s = s \o <<>>
    BY JoinNil
  <2>2. QED
    BY <2>1, PrefixIs
<1>2. ASSUME NEW u \in Seq(S) PROVE IsPrefix(s, s \o u)
  <2>1. s \o u \in Seq(S)
    OBVIOUS
  <2>2. QED
    BY <2>1, PrefixIs
<1>3. ASSUME NEW t \in Seq(S), NEW u \in Seq(S), IsPrefix(s, t), IsPrefix(t, u)
      PROVE  IsPrefix(s, u)
  <2>1. PICK a \in Seq(S) : t = s \o a
    BY <1>3, PrefixIs
  <2>2. PICK b \in Seq(S) : u = t \o b
    BY <1>3, PrefixIs
  <2>3. u = s \o (a \o b) /\ a \o b \in Seq(S)
    BY <2>1, <2>2, JoinJoin
  <2>4. QED
    BY <2>3, PrefixIs
<1>4. QED
  BY <1>1, <1>2, <1>3

\* What was made of a beginning is a beginning of what was made of the whole.
LEMMA ThroughPrefix ==
  ASSUME NEW X, NEW S, NEW g \in [X -> Seq(S)], NEW q \in Seq(X), NEW t \in Seq(X), IsPrefix(q, t)
  PROVE  IsPrefix(Through(g, q), Through(g, t))
<1>1. PICK u \in Seq(X) : t = q \o u
  BY PrefixIs
<1>2. Through(g, t) = Through(g, q) \o Through(g, u)
  BY <1>1, ThroughJoin
<1>3. Through(g, q) \in Seq(S) /\ Through(g, u) \in Seq(S)
  BY ThroughTyped
<1>4. QED
  BY <1>2, <1>3, PrefixBasics

\* What is repeated a number of times can be followed from turn to turn.
Rounds(N, S, base, step, f) ==
  f \in [0..N -> S] /\ f[0] = base /\ \A n \in 1..N : f[n] = step[n][f[n - 1]]

LEMMA Iterated ==
  ASSUME NEW N \in Nat, NEW S, NEW base \in S, NEW step \in [1..N -> [S -> S]]
  PROVE  \E f : Rounds(N, S, base, step, f)
<1> DEFINE Upto(m) == \E f \in [0..m -> S] : f[0] = base /\ \A n \in 1..m : f[n] = step[n][f[n - 1]]
           T == {m \in 0..N : Upto(m)}
<1>1. 0 \in T
  <2>1. PICK f : f = [i \in 0..0 |-> base]
    OBVIOUS
  <2>2. f \in [0..0 -> S] /\ f[0] = base /\ \A n \in 1..0 : f[n] = step[n][f[n - 1]]
    BY <2>1
  <2>3. QED
    BY <2>2
<1>2. ASSUME NEW m \in 0..N, m \in T, m < N PROVE m + 1 \in T
  <2>1. PICK f \in [0..m -> S] : f[0] = base /\ \A n \in 1..m : f[n] = step[n][f[n - 1]]
    BY <1>2
  <2>2. m + 1 \in 1..N /\ step[m + 1] \in [S -> S] /\ m \in 0..m /\ m \in Nat
    BY <1>2
  <2>3. PICK v \in S : v = step[m + 1][f[m]]
    BY <2>2
  <2>4. PICK h : h = [i \in 0..(m + 1) |-> IF i = m + 1 THEN v ELSE f[i]]
    OBVIOUS
  <2>5. h \in [0..(m + 1) -> S]
    BY <2>2, <2>3, <2>4
  <2>6. h[0] = base
    BY <2>1, <2>2, <2>4
  <2>7. ASSUME NEW n \in 1..(m + 1) PROVE h[n] = step[n][h[n - 1]]
    <3>1. CASE n = m + 1
      <4>1. h[n] = v /\ h[n - 1] = f[m]
        BY <2>2, <2>4, <3>1
      <4>2. QED
        BY <2>3, <3>1, <4>1
    <3>2. CASE n # m + 1
      <4>1. n \in 1..m /\ h[n] = f[n] /\ h[n - 1] = f[n - 1]
        BY <2>2, <2>4, <3>2
      <4>2. QED
        BY <2>1, <4>1
    <3>3. QED
      BY <3>1, <3>2
  <2>8. Upto(m + 1)
    BY <2>5, <2>6, <2>7
  <2> HIDE DEF Upto
  <2>9. QED
    BY <2>2, <2>8
<1>3. QED
  <2> HIDE DEF Upto
  <2>1. T = 0..N
    BY <1>1, <1>2, FromZero
  <2>2. Upto(N)
    BY <2>1
  <2>3. QED
    BY <2>2 DEF Upto, Rounds

-----------------------------------------------------------------------------
(* Beginnings, and what is laid one after the other, with their lengths    *)
(* and elements told at once.                                              *)

Cut(S, q, n, t) == t \in Seq(S) /\ t = SubSeq(q, 1, n) /\ Len(t) = n /\ \A k \in 1..n : t[k] = q[k]

LEMMA CutIs ==
  ASSUME NEW S, NEW q \in Seq(S), NEW n \in 0..Len(q)
  PROVE  \E t : Cut(S, q, n, t)
<1>1. PICK t : t = SubSeq(q, 1, n)
  OBVIOUS
<1>2. t \in Seq(S) /\ Len(t) = n /\ \A k \in 1..n : t[k] = q[k]
  BY <1>1
<1>3. QED
  BY <1>1, <1>2 DEF Cut

Joined(S, s, t, q) ==
  /\ q \in Seq(S) /\ q = s \o t /\ Len(q) = Len(s) + Len(t)
  /\ \A k \in 1..Len(s) : q[k] = s[k]
  /\ \A k \in 1..Len(t) : q[Len(s) + k] = t[k]

LEMMA JoinedSo ==
  ASSUME NEW S, NEW s \in Seq(S), NEW t \in Seq(S)
  PROVE  \E q : Joined(S, s, t, q)
<1>1. PICK q : q = s \o t
  OBVIOUS
<1>2. q \in Seq(S) /\ Len(q) = Len(s) + Len(t)
  BY <1>1
<1>3. \A k \in 1..Len(s) : q[k] = s[k]
  BY <1>1
<1>4. \A k \in 1..Len(t) : q[Len(s) + k] = t[k]
  BY <1>1
<1>5. QED
  BY <1>1, <1>2, <1>3, <1>4 DEF Joined

LEMMA SameSo ==
  ASSUME NEW S, NEW s \in Seq(S), NEW t \in Seq(S), Len(s) = Len(t),
         \A k \in 1..Len(s) : s[k] = t[k]
  PROVE  s = t
BY SeqExt

LEMMA UnderCut ==
  ASSUME NEW S, NEW base \in Seq(S), NEW sub \in Seq(S), NEW n \in 0..Len(sub)
  PROVE  SubSeq(base \o sub, 1, Len(base) + n) = base \o SubSeq(sub, 1, n)
<1>1. PICK q : Joined(S, base, sub, q)
  BY JoinedSo
<1>2. PICK m : m = Len(base) + n
  OBVIOUS
<1>3. Len(base) \in Nat /\ Len(sub) \in Nat /\ n \in Nat
  OBVIOUS
<1>4. q \in Seq(S) /\ m \in 0..Len(q)
  BY <1>1, <1>2, <1>3 DEF Joined
<1>5. PICK u : Cut(S, q, m, u)
  BY ONLY <1>4, CutIs
<1>6. PICK t : Cut(S, sub, n, t)
  BY ONLY sub \in Seq(S), n \in 0..Len(sub), CutIs
<1>7. t \in Seq(S)
  BY <1>6 DEF Cut
<1>8. PICK w : Joined(S, base, t, w)
  BY ONLY base \in Seq(S), <1>7, JoinedSo
<1>9. u \in Seq(S) /\ Len(u) = m /\ w \in Seq(S) /\ Len(w) = m
  BY <1>2, <1>5, <1>6, <1>8 DEF Cut, Joined
<1>10. ASSUME NEW k \in 1..m PROVE u[k] = w[k]
  <2>1. CASE k \in 1..Len(base)
    <3>1. u[k] = q[k]
      BY ONLY <1>5, <1>10 DEF Cut
    <3>2. q[k] = base[k] /\ w[k] = base[k]
      BY ONLY <1>1, <1>8, <2>1 DEF Joined
    <3>3. QED
      BY <3>1, <3>2
  <2>2. CASE k \notin 1..Len(base)
    <3>1. PICK j \in 1..n : k = Len(base) + j
      <4>1. k - Len(base) \in 1..n /\ k = Len(base) + (k - Len(base))
        BY <1>2, <1>3, <2>2
      <4>2. QED
        BY <4>1
    <3>2. u[k] = q[k]
      BY ONLY <1>5, <1>10 DEF Cut
    <3>3. Len(t) = n /\ t[j] = sub[j]
      BY ONLY <1>6, <3>1 DEF Cut
    <3>4. j \in 1..Len(sub) /\ j \in 1..Len(t)
      BY <1>3, <3>3
    <3>5. q[Len(base) + j] = sub[j]
      BY ONLY <1>1, <3>4 DEF Joined
    <3>6. w[Len(base) + j] = t[j]
      BY ONLY <1>8, <3>4 DEF Joined
    <3>7. QED
      BY ONLY <3>1, <3>2, <3>3, <3>5, <3>6
  <2>3. QED
    BY <2>1, <2>2
<1>11. u = w
  BY ONLY <1>9, <1>10, SameSo
<1>12. QED
  BY ONLY <1>1, <1>2, <1>5, <1>6, <1>8, <1>11 DEF Cut, Joined

LEMMA UnderOnce ==
  ASSUME NEW S, NEW base \in Seq(S), NEW sub \in Seq(S), NEW other \in Seq(S),
         base \o other = base \o sub
  PROVE  other = sub
<1>1. PICK q : Joined(S, base, sub, q)
  BY JoinedSo
<1>2. PICK r : Joined(S, base, other, r)
  BY JoinedSo
<1>3. q = r
  BY <1>1, <1>2 DEF Joined
<1>4. Len(base) \in Nat /\ Len(sub) \in Nat /\ Len(other) \in Nat
  OBVIOUS
<1>5. Len(other) = Len(sub)
  <2>1. Len(q) = Len(base) + Len(sub) /\ Len(r) = Len(base) + Len(other)
    BY <1>1, <1>2 DEF Joined
  <2>2. QED
    BY <1>3, <1>4, <2>1
<1>6. ASSUME NEW k \in 1..Len(other) PROVE other[k] = sub[k]
  <2>1. q[Len(base) + k] = sub[k]
    BY ONLY <1>1, <1>5, <1>6 DEF Joined
  <2>2. r[Len(base) + k] = other[k]
    BY ONLY <1>2, <1>6 DEF Joined
  <2>3. QED
    BY <1>3, <2>1, <2>2
<1>7. QED
  BY ONLY other \in Seq(S), sub \in Seq(S), <1>5, <1>6, SameSo

\* The end of a path cut off twice.
LEMMA CutTwice ==
  ASSUME NEW S, NEW q \in Seq(S), NEW n \in 0..Len(q), NEW m \in 0..n
  PROVE  SubSeq(SubSeq(q, 1, n), 1, m) = SubSeq(q, 1, m)
<1>1. PICK u : Cut(S, q, n, u)
  BY ONLY q \in Seq(S), n \in 0..Len(q), CutIs
<1>2. u \in Seq(S) /\ m \in 0..Len(u) /\ m \in 0..Len(q) /\ m \in Nat /\ n \in Nat
  BY <1>1 DEF Cut
<1>3. PICK v : Cut(S, u, m, v)
  BY ONLY <1>2, CutIs
<1>4. PICK x : Cut(S, q, m, x)
  BY ONLY <1>2, q \in Seq(S), CutIs
<1>5. ASSUME NEW k \in 1..m PROVE v[k] = x[k]
  <2>1. v[k] = u[k] /\ x[k] = q[k]
    BY ONLY <1>3, <1>4, <1>5 DEF Cut
  <2>2. k \in 1..n
    BY <1>2
  <2>3. u[k] = q[k]
    BY ONLY <1>1, <2>2 DEF Cut
  <2>4. QED
    BY <2>1, <2>3
<1>6. v \in Seq(S) /\ x \in Seq(S) /\ Len(v) = m /\ Len(x) = m
  BY ONLY <1>3, <1>4 DEF Cut
<1>7. v = x
  BY ONLY <1>5, <1>6, SameSo
<1>8. QED
  BY ONLY <1>1, <1>3, <1>4, <1>7 DEF Cut

Prepended(S, x, q, t) ==
  /\ t \in Seq(S) /\ t = <<x>> \o q /\ Len(t) = Len(q) + 1 /\ t[1] = x
  /\ \A k \in 1..Len(q) : t[k + 1] = q[k]
  /\ \A i \in 1..Len(t) : i = 1 \/ \E k \in 1..Len(q) : i = k + 1

LEMMA PrependedSo ==
  ASSUME NEW S, NEW x \in S, NEW q \in Seq(S)
  PROVE  \E t : Prepended(S, x, q, t)
<1>1. PICK s : s = <<x>>
  OBVIOUS
<1>2. s \in Seq(S) /\ Len(s) = 1 /\ s[1] = x
  BY <1>1
<1>3. PICK t : Joined(S, s, q, t)
  BY ONLY <1>2, q \in Seq(S), JoinedSo
<1>4. PICK l \in Nat : l = Len(q)
  OBVIOUS
<1>5. t \in Seq(S) /\ t = <<x>> \o q /\ Len(t) = 1 + l
  BY ONLY <1>1, <1>2, <1>3, <1>4 DEF Joined
<1>6. t[1] = x
  <2>1. 1 \in 1..Len(s)
    BY <1>2
  <2>2. QED
    BY ONLY <1>2, <1>3, <2>1 DEF Joined
<1>7. \A k \in 1..l : t[1 + k] = q[k]
  BY ONLY <1>2, <1>3, <1>4 DEF Joined
<1>8. \A k \in 1..l : 1 + k = k + 1
  OBVIOUS
<1>9. \A k \in 1..l : t[k + 1] = q[k]
  BY ONLY <1>7, <1>8
<1>10. \A i \in 1..(1 + l) : i = 1 \/ \E k \in 1..l : i = k + 1
  <2>1. ASSUME NEW i \in 1..(1 + l), i # 1 PROVE \E k \in 1..l : i = k + 1
    <3>1. i - 1 \in 1..l /\ i = (i - 1) + 1
      BY <2>1
    <3>2. QED
      BY <3>1
  <2>2. QED
    BY <2>1
<1>11. 1 + l = l + 1
  OBVIOUS
<1>12. QED
  BY ONLY <1>4, <1>5, <1>6, <1>9, <1>10, <1>11 DEF Prepended

-----------------------------------------------------------------------------
(* Numbers, first elements, heads and ends                                *)

LEMMA SomeIsFirst ==
  ASSUME NEW mine, mine # {}, NEW order, \A t \in mine : order[t] \in Nat
  PROVE  \E t \in mine : \A r \in mine : order[t] <= order[r]
<1> DEFINE T == {order[t] : t \in mine}
<1>1. T \subseteq Nat /\ T # {}
  OBVIOUS
<1>2. PICK R : R = {ss \in Nat \X Nat : ss[1] < ss[2]} /\ IsWellFoundedOn(R, Nat)
  BY NatLessThanWellFounded DEF OpToRel
<1>3. PICK x \in T : \A y \in T : ~(<<y, x>> \in R)
  BY <1>1, <1>2, WFMin
<1>4. \A y \in T : ~(y < x)
  BY <1>1, <1>2, <1>3
<1>5. QED
  BY <1>1, <1>4

LEMMA NumbersJoin ==
  ASSUME NEW a \in Seq(Nat), NEW b \in Seq(Nat), NEW c \in Seq(Nat)
  PROVE  (a \o b) \o c = a \o (b \o c) /\ a \o b \in Seq(Nat)
<1>1. PICK N : N = Nat
  OBVIOUS
<1>2. a \in Seq(N) /\ b \in Seq(N) /\ c \in Seq(N)
  BY <1>1
<1>3. (a \o b) \o c = a \o (b \o c) /\ a \o b \in Seq(N)
  BY ONLY <1>2, JoinJoin, JoinedIs
<1>4. QED
  BY <1>1, <1>3

LEMMA NumbersNil ==
  ASSUME NEW a \in Seq(Nat)
  PROVE  a \o <<>> = a /\ <<>> \o a = a /\ <<>> \in Seq(Nat)
<1>1. PICK N : N = Nat
  OBVIOUS
<1>2. a \in Seq(N)
  BY <1>1
<1>3. a \o <<>> = a /\ <<>> \o a = a /\ <<>> \in Seq(N)
  BY ONLY <1>2, JoinNil
<1>4. QED
  BY <1>1, <1>3

LEMMA NumbersPrefix ==
  ASSUME NEW a \in Seq(Nat), NEW b \in Seq(Nat)
  PROVE  /\ IsPrefix(<<>>, a) /\ IsPrefix(a, a) /\ IsPrefix(a, a \o b)
         /\ \A c \in Seq(Nat) : IsPrefix(a, b) /\ IsPrefix(b, c) => IsPrefix(a, c)
<1>1. PICK N : N = Nat
  OBVIOUS
<1>2. a \in Seq(N) /\ b \in Seq(N)
  BY <1>1
<1>3. /\ IsPrefix(<<>>, a) /\ IsPrefix(a, a) /\ IsPrefix(a, a \o b)
      /\ \A c \in Seq(N) : IsPrefix(a, b) /\ IsPrefix(b, c) => IsPrefix(a, c)
  BY ONLY <1>2, PrefixBasics
<1>4. QED
  BY <1>1, <1>3

LEMMA HeadTail ==
  ASSUME NEW S, NEW q \in Seq(S), q # <<>>
  PROVE  /\ Head(q) \in S /\ Tail(q) \in Seq(S) /\ q = <<Head(q)>> \o Tail(q)
         /\ Len(q) \in Nat /\ Len(q) # 0 /\ Len(Tail(q)) = Len(q) - 1
         /\ \A n \in 1..(Len(q) - 1) : Tail(q)[n] = q[n + 1]
         /\ q[1] = Head(q)
<1>1. Len(q) # 0 /\ Len(q) \in Nat
  BY NilIs
<1>2. /\ Head(q) \in S /\ Tail(q) \in Seq(S) /\ q[1] = Head(q) /\ Len(Tail(q)) = Len(q) - 1
      /\ \A n \in 1..(Len(q) - 1) : Tail(q)[n] = q[n + 1]
  BY <1>1
<1>3. PICK h \in S, t \in Seq(S), l \in Nat : h = Head(q) /\ t = Tail(q) /\ l = Len(q)
  BY <1>1, <1>2, Zenon
<1>4. <<h>> \o t = q
  <2>1. <<h>> \in Seq(S) /\ Len(<<h>>) = 1 /\ <<h>>[1] = h
    OBVIOUS
  <2>2. <<h>> \o t \in Seq(S) /\ Len(<<h>> \o t) = 1 + (l - 1) /\ (<<h>> \o t)[1] = h
        /\ \A n \in 1..Len(t) : (<<h>> \o t)[1 + n] = t[n]
    <3>1. \A n \in 1..Len(t) : (<<h>> \o t)[Len(<<h>>) + n] = t[n]
      BY ONLY <2>1, t \in Seq(S), JoinedIs
    <3>2. <<h>> \o t \in Seq(S) /\ Len(<<h>> \o t) = Len(<<h>>) + Len(t)
          /\ \A n \in 1..Len(<<h>>) : (<<h>> \o t)[n] = <<h>>[n]
      BY ONLY <2>1, t \in Seq(S), JoinedIs
    <3>3. 1 \in 1..Len(<<h>>)
      BY <2>1
    <3>4. (<<h>> \o t)[1] = h
      BY ONLY <2>1, <3>2, <3>3, Zenon
    <3>5. Len(t) = l - 1
      BY <1>2, <1>3
    <3>6. QED
      BY ONLY <2>1, <3>1, <3>2, <3>4, <3>5, Zenon
  <2>3. ASSUME NEW n \in 1..l PROVE (<<h>> \o t)[n] = q[n]
    <3>1. CASE n = 1
      BY <1>2, <1>3, <2>2, <3>1
    <3>2. CASE n # 1
      <4>1. PICK k : k = n - 1
        OBVIOUS
      <4>2. k \in 1..(l - 1) /\ k \in 1..Len(t) /\ n = 1 + k /\ n = k + 1
        BY <1>2, <1>3, <3>2, <4>1
      <4>3. (<<h>> \o t)[1 + k] = t[k]
        BY <2>2, <4>2
      <4>4. t[k] = q[k + 1]
        BY <1>2, <1>3, <4>2
      <4>5. QED
        BY ONLY <4>2, <4>3, <4>4, Zenon
    <3>3. QED
      BY <3>1, <3>2
  <2>4. Len(<<h>> \o t) = Len(q)
    BY <1>3, <2>2
  <2>5. QED
    BY ONLY <1>3, <2>2, <2>3, <2>4, q \in Seq(S), SeqExt
<1>5. QED
  BY <1>1, <1>2, <1>3, <1>4

LEMMA OneOf == \A s : (CHOOSE x \in {s} : TRUE) = s
  OBVIOUS

\* What was laid after another sequence.
LEMMA TailIs ==
  ASSUME NEW S, NEW base \in Seq(S), NEW sub \in Seq(S)
  PROVE  SubSeq(base \o sub, Len(base) + 1, Len(base \o sub)) = sub
<1>1. PICK q : Joined(S, base, sub, q)
  BY JoinedSo
<1>2. /\ q \in Seq(S) /\ q = base \o sub /\ Len(q) = Len(base) + Len(sub)
      /\ \A k \in 1..Len(sub) : q[Len(base) + k] = sub[k]
  BY <1>1 DEF Joined
<1>3. PICK b : b = Len(base)
  OBVIOUS
<1>4. PICK l : l = Len(sub)
  OBVIOUS
<1>5. b \in Nat /\ l \in Nat
  BY <1>3, <1>4
<1>6. PICK w : w = SubSeq(q, b + 1, b + l)
  OBVIOUS
<1>7. w \in Seq(S) /\ Len(w) = l /\ \A k \in 1..l : w[k] = q[b + k]
  <2>1. Len(q) = b + l /\ b + 1 \in 1..(Len(q) + 1)
    BY <1>2, <1>3, <1>4, <1>5
  <2>2. Len(w) = l
    BY ONLY <1>2, <1>5, <1>6, <2>1
  <2>3. \A k \in 1..l : w[k] = q[b + k]
    <3>1. ASSUME NEW k \in 1..l PROVE w[k] = q[b + k]
      <4>1. w[k] = q[(b + 1) + k - 1]
        BY ONLY <1>2, <1>5, <1>6, <2>1, <2>2, <3>1
      <4>2. (b + 1) + k - 1 = b + k
        BY <1>5
      <4>3. QED
        BY <4>1, <4>2
    <3>2. QED
      BY <3>1
  <2>4. w \in Seq(S)
    <3>1. \A k \in (b + 1)..(b + l) : k \in 1..Len(q)
      BY ONLY <1>5, <2>1
    <3>2. \A k \in (b + 1)..(b + l) : q[k] \in S
      BY ONLY <1>2, <3>1
    <3>3. b + 1 \in Int /\ b + l \in Int
      BY ONLY <1>5
    <3>4. QED
      BY ONLY <1>6, <3>2, <3>3, SubSeqProperties
  <2>5. QED
    BY <2>2, <2>3, <2>4
<1>8. w = sub
  <2>1. Len(w) = Len(sub) /\ w \in Seq(S) /\ sub \in Seq(S) /\ \A k \in 1..Len(w) : w[k] = sub[k]
    BY <1>2, <1>3, <1>4, <1>7
  <2>2. QED
    BY ONLY <2>1, SameSo
<1>9. QED
  BY <1>2, <1>3, <1>4, <1>6, <1>8

\* The n-th position from the end, and the one before it.
Behind(N, n, p) == p \in 1..N /\ p = N + 1 - (n + 1) /\ p = N - n /\ p - 1 = N - (n + 1)

LEMMA Backwards ==
  ASSUME NEW N \in Nat, NEW n \in 0..N, n < N
  PROVE  \E p : Behind(N, n, p)
<1>1. PICK p : p = N - n
  OBVIOUS
<1>2. p \in 1..N /\ p = N + 1 - (n + 1) /\ p - 1 = N - (n + 1)
  BY <1>1
<1>3. QED
  BY <1>1, <1>2 DEF Behind

\* One sequence is the end of another.
IsEnd(s, t) == Len(s) <= Len(t) /\ \A i \in 1..Len(s) : s[i] = t[(Len(t) - Len(s)) + i]

LEMMA SufSelf ==
  ASSUME NEW S, NEW s \in Seq(S)
  PROVE  IsEnd(s, s)
<1>1. PICK l \in Nat : l = Len(s)
  OBVIOUS
<1>2. l <= l /\ \A i \in 1..l : (l - l) + i = i
  OBVIOUS
<1>3. QED
  BY ONLY <1>1, <1>2 DEF IsEnd

LEMMA SufTail ==
  ASSUME NEW S, NEW x, NEW q \in Seq(S), NEW t, Prepended(S, x, q, t),
         NEW w \in Seq(S), IsEnd(t, w)
  PROVE  IsEnd(q, w)
<1>1. PICK l \in Nat : l = Len(q)
  OBVIOUS
<1>2. PICK m \in Nat : m = Len(w)
  OBVIOUS
<1>3. Len(t) = l + 1 /\ \A k \in 1..l : t[k + 1] = q[k]
  BY ONLY <1>1, Prepended(S, x, q, t) DEF Prepended
<1>4. l + 1 <= m /\ \A i \in 1..(l + 1) : t[i] = w[(m - (l + 1)) + i]
  BY ONLY <1>2, <1>3, IsEnd(t, w) DEF IsEnd
<1>5. ASSUME NEW i \in 1..l PROVE q[i] = w[(m - l) + i]
  <2>1. i + 1 \in 1..(l + 1) /\ (m - (l + 1)) + (i + 1) = (m - l) + i
    BY <1>1
  <2>2. t[i + 1] = w[(m - (l + 1)) + (i + 1)]
    BY ONLY <1>4, <2>1
  <2>3. QED
    BY ONLY <1>3, <2>1, <2>2, i \in 1..l
<1>6. l <= m
  BY ONLY <1>4, l \in Nat, m \in Nat
<1>7. QED
  BY ONLY <1>1, <1>2, <1>5, <1>6 DEF IsEnd

\* A sequence with one element before it.
LEMMA ConsIs ==
  ASSUME NEW S, NEW label \in S, NEW r \in Seq(S)
  PROVE  /\ <<label>> \o r \in Seq(S) /\ <<label>> \o r # <<>>
         /\ (<<label>> \o r)[1] = label /\ Tail(<<label>> \o r) = r
         /\ \A x \in S : Append(<<label>> \o r, x) = <<label>> \o Append(r, x)
<1>1. PICK s : s = <<label>>
  OBVIOUS
<1>2. s \in Seq(S) /\ Len(s) = 1 /\ s[1] = label /\ 1 \in 1..Len(s)
  BY <1>1
<1>3. PICK q : Joined(S, s, r, q)
  BY ONLY <1>2, r \in Seq(S), JoinedSo
<1>4. PICK l \in Nat : l = Len(r)
  OBVIOUS
<1>5. q \in Seq(S) /\ q = s \o r /\ Len(q) = 1 + l /\ q[1] = label /\ \A k \in 1..l : q[1 + k] = r[k]
  BY ONLY <1>2, <1>3, <1>4 DEF Joined
<1>6. q # <<>>
  <2>1. Len(q) # 0
    BY ONLY <1>5, l \in Nat
  <2>2. QED
    BY ONLY <2>1
<1>7. Tail(q) = r
  <2>1. PICK t : t = Tail(q)
    OBVIOUS
  <2>2. t \in Seq(S) /\ Len(t) = l /\ \A k \in 1..l : t[k] = q[k + 1]
    BY ONLY <1>5, <1>6, <2>1, l \in Nat
  <2>3. \A k \in 1..Len(t) : t[k] = r[k]
    <3>1. \A k \in 1..l : 1 + k = k + 1
      OBVIOUS
    <3>2. QED
      BY ONLY <1>5, <2>2, <3>1
  <2>4. t = r
    BY ONLY <1>4, <2>2, <2>3, r \in Seq(S), SameSo
  <2>5. QED
    BY <2>1, <2>4
<1>8. ASSUME NEW x \in S PROVE Append(s \o r, x) = s \o Append(r, x)
  <2>1. PICK y : y = s
    OBVIOUS
  <2>2. y \in Seq(S)
    BY <1>2, <2>1
  <2>3. y \o Append(r, x) = Append(y \o r, x)
    BY ONLY <2>2, r \in Seq(S), x \in S, JoinAppend
  <2>4. QED
    BY <2>1, <2>3
<1>9. QED
  BY ONLY <1>1, <1>5, <1>6, <1>7, <1>8

-----------------------------------------------------------------------------
(* What is left of a conversation when it is restored *)

SaidMessages == [type : History!Types, length : Nat]
QuotedParts == [of : Nat, length : Nat]

LEMMA CharactersGrow ==
  ASSUME NEW p \in Nat, NEW l \in Nat, NEW x, x = [of |-> p, length |-> l],
         NEW kept \in Seq(QuotedParts), NEW t, Prepended(QuotedParts, x, kept, t),
         IsFiniteSet(History!Characters(kept)), \A i \in 1..Len(kept) : kept[i].of > p
  PROVE  /\ IsFiniteSet(History!Characters(t))
         /\ Cardinality(History!Characters(t)) = l + Cardinality(History!Characters(kept))
<1> DEFINE of(q, i) == {q[i].of} \X (1..q[i].length)
           fresh == {p} \X (1..l)
           C == History!Characters(kept)
<1>1. DOMAIN t = 1..Len(t) /\ DOMAIN kept = 1..Len(kept) /\ Len(kept) \in Nat /\ 1 \in 1..Len(t)
  BY DEF Prepended
<1>2. /\ t[1].of = p /\ t[1].length = l
      /\ \A k \in 1..Len(kept) : k + 1 \in 1..Len(t) /\ t[k + 1] = kept[k]
      /\ \A i \in 1..Len(t) : i = 1 \/ \E k \in 1..Len(kept) : i = k + 1
  BY <1>1 DEF Prepended
<1>3. History!Characters(t) = UNION {of(t, i) : i \in 1..Len(t)}
  BY <1>1 DEF History!Characters
<1>4. C = UNION {of(kept, k) : k \in 1..Len(kept)}
  BY <1>1 DEF History!Characters
<1>5. of(t, 1) = fresh /\ \A k \in 1..Len(kept) : of(t, k + 1) = of(kept, k)
  BY <1>2
<1>6. C \cap fresh = {}
  <2>1. SUFFICES ASSUME NEW c \in C, c \in fresh PROVE FALSE
    OBVIOUS
  <2>2. PICK k \in 1..Len(kept) : c \in of(kept, k)
    BY <1>4
  <2>3. c[1] = kept[k].of /\ c[1] = p
    BY <2>1, <2>2
  <2>4. kept[k].of > p
    OBVIOUS
  <2>5. QED
    BY ONLY <2>3, <2>4, p \in Nat
<1> HIDE DEF of, C, fresh
<1>7. History!Characters(t) = C \cup fresh
  <2>1. ASSUME NEW c, c \in C \cup fresh PROVE \E i \in 1..Len(t) : c \in of(t, i)
    <3>1. CASE c \in fresh
      BY ONLY <1>1, <1>5, <3>1
    <3>2. CASE c \in C
      <4>1. PICK k \in 1..Len(kept) : c \in of(kept, k)
        BY ONLY <1>4, <3>2
      <4>2. QED
        BY ONLY <1>2, <1>5, <4>1
    <3>3. QED
      BY <2>1, <3>1, <3>2
  <2>2. ASSUME NEW i \in 1..Len(t) PROVE of(t, i) \subseteq C \cup fresh
    <3>1. CASE i = 1
      BY ONLY <1>5, <3>1
    <3>2. CASE i # 1
      <4>1. PICK k \in 1..Len(kept) : i = k + 1
        BY ONLY <1>2, <2>2, <3>2
      <4>2. of(t, i) = of(kept, k)
        BY ONLY <1>5, <4>1
      <4>3. QED
        BY ONLY <1>4, <4>2
    <3>3. QED
      BY <3>1, <3>2
  <2>3. QED
    BY ONLY <1>3, <2>1, <2>2
<1>8. IsFiniteSet(fresh) /\ Cardinality(fresh) = l
  <2>1. IsFiniteSet(1..l) /\ Cardinality(1..l) = l
    <3>1. 1 \in Int /\ l \in Int
      OBVIOUS
    <3>2. IsFiniteSet(1..l) /\ Cardinality(1..l) = IF 1 > l THEN 0 ELSE l - 1 + 1
      BY ONLY <3>1, FS_Interval
    <3>3. QED
      BY <3>2
  <2>2. IsFiniteSet({p}) /\ Cardinality({p}) = 1
    BY FS_Singleton
  <2>3. IsFiniteSet({p} \X (1..l)) /\ Cardinality({p} \X (1..l)) = Cardinality({p}) * Cardinality(1..l)
    BY ONLY <2>1, <2>2, FS_Product
  <2>4. QED
    BY <2>1, <2>2, <2>3 DEF fresh
<1>9. /\ IsFiniteSet(C \cup fresh)
      /\ Cardinality(C \cup fresh) = Cardinality(C) + Cardinality(fresh) - Cardinality(C \cap fresh)
  <2>1. IsFiniteSet(C)
    BY DEF C
  <2>2. QED
    BY ONLY <1>8, <2>1, FS_Union
<1>10. Cardinality(C) \in Nat /\ Cardinality({}) = 0
  BY FS_CardinalityType, FS_EmptySet DEF C
<1>11. IsFiniteSet(C \cup fresh) /\ Cardinality(C \cup fresh) = l + Cardinality(C)
  <2>1. Cardinality(C \cap fresh) = 0
    BY ONLY <1>6, <1>10
  <2>2. PICK n \in Nat : n = Cardinality(C)
    BY ONLY <1>10
  <2>3. Cardinality(C \cup fresh) = n + l - 0
    BY ONLY <1>8, <1>9, <2>1, <2>2
  <2>4. QED
    BY ONLY <1>9, <2>2, <2>3, l \in Nat
<1>12. QED
  BY ONLY <1>7, <1>11 DEF C

\* What is kept of the messages after p, with so much space left.
Counted(talk, types, m) == talk[m].type \in types /\ talk[m].length > 0
Fits(talk, types, max, p, rem, kept) ==
  /\ rem \in Nat /\ kept \in Seq(QuotedParts)
  /\ \A i \in 1..Len(kept) : /\ kept[i].of \in (p + 1)..Len(talk)
                             /\ talk[kept[i].of].type \in types
                             /\ kept[i].length <= talk[kept[i].of].length
                             /\ kept[i].length = 0 => talk[kept[i].of].length = 0
  /\ \A i \in 1..Len(kept) : i # 1 => /\ kept[i].of > kept[i - 1].of
                                      /\ kept[i].length = talk[kept[i].of].length
  /\ IsFiniteSet(History!Characters(kept))
  /\ Cardinality(History!Characters(kept)) + rem = max
  /\ rem # 0 => /\ \A m \in (p + 1)..Len(talk) :
                     Counted(talk, types, m) => \E i \in 1..Len(kept) : kept[i].of = m
                /\ Len(kept) # 0 => kept[1].length = talk[kept[1].of].length
  /\ rem = 0 => /\ Len(kept) # 0
                /\ \A m \in (p + 1)..Len(talk) :
                     Counted(talk, types, m) /\ m >= kept[1].of => \E i \in 1..Len(kept) : kept[i].of = m

LEMMA FitsFirst ==
  ASSUME NEW talk \in Seq(SaidMessages), NEW types, NEW max \in Nat \ {0}
  PROVE  Fits(talk, types, max, Len(talk), max, <<>>)
<1>1. Len(talk) \in Nat /\ (Len(talk) + 1)..Len(talk) = {} /\ <<>> \in Seq(QuotedParts) /\ Len(<<>>) = 0
  OBVIOUS
<1>2. History!Characters(<<>>) = {}
  BY DEF History!Characters
<1>3. IsFiniteSet({}) /\ Cardinality({}) = 0
  BY FS_EmptySet
<1>4. PICK none : none = <<>>
  OBVIOUS
<1>5. none \in Seq(QuotedParts) /\ Len(none) = 0 /\ History!Characters(none) = {}
  BY <1>1, <1>2, <1>4
<1>6. 1..Len(none) = {}
  BY <1>5
<1>7. max \in Nat /\ max # 0 /\ 0 + max = max
  OBVIOUS
<1>8. Fits(talk, types, max, Len(talk), max, none)
  BY ONLY <1>1, <1>3, <1>5, <1>6, <1>7 DEF Fits
<1>9. QED
  BY ONLY <1>4, <1>8

LEMMA FitsSkip ==
  ASSUME NEW talk \in Seq(SaidMessages), NEW types, NEW max \in Nat \ {0},
         NEW p \in 1..Len(talk), NEW rem, NEW kept, Fits(talk, types, max, p, rem, kept),
         rem = 0 \/ ~Counted(talk, types, p)
  PROVE  Fits(talk, types, max, p - 1, rem, kept)
<1>1. /\ p \in Nat /\ Len(talk) \in Nat /\ (p - 1) + 1 = p
      /\ \A m \in p..Len(talk) : m = p \/ m \in (p + 1)..Len(talk)
      /\ \A m \in (p + 1)..Len(talk) : m \in p..Len(talk) /\ m > p
  <2>1. PICK L \in Nat : L = Len(talk)
    OBVIOUS
  <2>2. p \in 1..L
    BY <2>1
  <2>3. p \in Nat /\ (p - 1) + 1 = p
    BY ONLY <2>2
  <2>4. \A m \in p..L : m = p \/ m \in (p + 1)..L
    BY ONLY <2>1, <2>2
  <2>5. \A m \in (p + 1)..L : m \in p..L /\ m > p
    BY ONLY <2>1, <2>2
  <2>6. QED
    BY ONLY <2>1, <2>3, <2>4, <2>5
<1>2. /\ rem \in Nat /\ kept \in Seq(QuotedParts) /\ Len(kept) \in Nat
      /\ \A i \in 1..Len(kept) : kept[i].of \in (p + 1)..Len(talk)
  <2>1. /\ rem \in Nat /\ kept \in Seq(QuotedParts)
        /\ \A i \in 1..Len(kept) : kept[i].of \in (p + 1)..Len(talk)
    BY ONLY Fits(talk, types, max, p, rem, kept) DEF Fits
  <2>2. Len(kept) \in Nat
    BY ONLY <2>1
  <2>3. QED
    BY ONLY <2>1, <2>2
<1>3. rem # 0 => \A m \in p..Len(talk) :
                   Counted(talk, types, m) => \E i \in 1..Len(kept) : kept[i].of = m
  <2>1. rem # 0 => ~Counted(talk, types, p)
    OBVIOUS
  <2>2. rem # 0 => \A m \in (p + 1)..Len(talk) :
                     Counted(talk, types, m) => \E i \in 1..Len(kept) : kept[i].of = m
    BY ONLY Fits(talk, types, max, p, rem, kept) DEF Fits
  <2>3. QED
    BY ONLY <1>1, <2>1, <2>2
<1>4. rem = 0 => \A m \in p..Len(talk) :
                   Counted(talk, types, m) /\ m >= kept[1].of => \E i \in 1..Len(kept) : kept[i].of = m
  <2>1. SUFFICES ASSUME rem = 0, NEW m \in p..Len(talk), Counted(talk, types, m), m >= kept[1].of
                 PROVE  \E i \in 1..Len(kept) : kept[i].of = m
    OBVIOUS
  <2>2. Len(kept) # 0
    BY <2>1 DEF Fits
  <2>3. kept[1].of \in (p + 1)..Len(talk)
    BY <1>2, <2>2
  <2>4. m \in (p + 1)..Len(talk)
    BY <1>1, <2>1, <2>3
  <2>5. QED
    BY <2>1, <2>4 DEF Fits
<1>5. QED
  BY <1>1, <1>2, <1>3, <1>4 DEF Fits

LEMMA FitsTake ==
  ASSUME NEW talk \in Seq(SaidMessages), NEW types, NEW max \in Nat \ {0},
         NEW p \in 1..Len(talk), NEW rem, NEW kept, Fits(talk, types, max, p, rem, kept),
         rem # 0, talk[p].type \in types,
         NEW l, l = History!Lesser(talk[p].length, rem),
         NEW x, x = [of |-> p, length |-> l], NEW t, Prepended(QuotedParts, x, kept, t)
  PROVE  Fits(talk, types, max, p - 1, rem - l, t)
<1> DEFINE L == Len(talk)
           K == Len(kept)
           len(m) == talk[m].length
<1>1. rem \in Nat /\ kept \in Seq(QuotedParts) /\ K \in Nat /\ \A k \in 1..K : kept[k] \in QuotedParts
  BY DEF Fits
<1>2. /\ p \in Nat /\ L \in Nat /\ (p - 1) + 1 = p /\ p \in p..L
      /\ \A m \in p..L : m = p \/ m \in (p + 1)..L
      /\ \A m \in (p + 1)..L : m \in p..L /\ m > p /\ m \in Nat
  OBVIOUS
<1>3. len(p) \in Nat
  <2>1. talk[p] \in SaidMessages
    OBVIOUS
  <2>2. QED
    BY ONLY <2>1 DEF SaidMessages
<1>4. l \in Nat /\ l <= rem /\ l <= len(p) /\ (l = len(p) \/ l = rem) /\ rem - l \in Nat
  BY <1>1, <1>3 DEF History!Lesser
<1>5. rem - l # 0 => l = len(p)
  BY <1>1, <1>4
<1>6. x.of = p /\ x.length = l
  OBVIOUS
<1>7. /\ t \in Seq(QuotedParts) /\ Len(t) = K + 1 /\ t[1] = x
      /\ \A k \in 1..K : t[k + 1] = kept[k]
      /\ \A i \in 1..Len(t) : i = 1 \/ \E k \in 1..K : i = k + 1
  BY DEF Prepended
<1>8. Len(t) # 0 /\ 1 \in 1..Len(t) /\ \A k \in 1..K : k + 1 \in 1..Len(t) /\ k \in Nat /\ (k + 1) - 1 = k
  BY ONLY <1>1, <1>7
<1>9. \A k \in 1..K : /\ kept[k].of \in (p + 1)..L
                      /\ talk[kept[k].of].type \in types
                      /\ kept[k].length <= len(kept[k].of)
                      /\ kept[k].length = 0 => len(kept[k].of) = 0
  BY DEF Fits
<1>10. \A k \in 1..K : k # 1 => kept[k].of > kept[k - 1].of /\ kept[k].length = len(kept[k].of)
  BY DEF Fits
<1>11. \A m \in (p + 1)..L : Counted(talk, types, m) => \E k \in 1..K : kept[k].of = m
  BY DEF Fits
<1>12. K # 0 => kept[1].length = len(kept[1].of)
  BY DEF Fits
<1>13. /\ IsFiniteSet(History!Characters(t))
       /\ Cardinality(History!Characters(t)) = l + Cardinality(History!Characters(kept))
  <2>1. IsFiniteSet(History!Characters(kept))
    BY DEF Fits
  <2>2. \A k \in 1..K : kept[k].of > p
    BY ONLY <1>2, <1>9
  <2>3. QED
    BY ONLY <1>1, <1>2, <1>4, <2>1, <2>2, x = [of |-> p, length |-> l],
            Prepended(QuotedParts, x, kept, t), CharactersGrow
<1>14. Cardinality(History!Characters(t)) + (rem - l) = max
  <2>1. Cardinality(History!Characters(kept)) + rem = max /\ Cardinality(History!Characters(kept)) \in Nat
    BY FS_CardinalityType DEF Fits
  <2>2. QED
    BY ONLY <1>1, <1>4, <1>13, <2>1
<1>15. ASSUME NEW i \in 1..Len(t)
       PROVE  /\ t[i].of \in p..L /\ talk[t[i].of].type \in types /\ t[i].length <= len(t[i].of)
              /\ t[i].length = 0 => len(t[i].of) = 0
  <2>1. CASE i = 1
    BY ONLY <1>2, <1>4, <1>6, <1>7, <2>1, talk[p].type \in types, rem # 0
  <2>2. CASE i # 1
    <3>1. PICK k \in 1..K : i = k + 1
      BY ONLY <1>7, <1>15, <2>2
    <3>2. QED
      BY ONLY <1>2, <1>7, <1>9, <3>1
  <2>3. QED
    BY <2>1, <2>2
<1>16. ASSUME NEW i \in 1..Len(t), i # 1 PROVE t[i].of > t[i - 1].of /\ t[i].length = len(t[i].of)
  <2>1. PICK k \in 1..K : i = k + 1
    BY ONLY <1>7, <1>16
  <2>2. t[i] = kept[k] /\ i - 1 = k
    BY ONLY <1>7, <1>8, <2>1
  <2>3. CASE k = 1
    <3>1. t[i - 1].of = p /\ kept[1].of \in (p + 1)..L /\ K # 0
      BY ONLY <1>1, <1>6, <1>7, <1>9, <2>1, <2>2, <2>3
    <3>2. QED
      BY ONLY <1>2, <1>12, <2>2, <2>3, <3>1
  <2>4. CASE k # 1
    <3>1. k - 1 \in 1..K /\ (k - 1) + 1 = k
      BY ONLY <1>1, <2>4, k \in 1..K
    <3>2. t[i - 1] = kept[k - 1]
      BY ONLY <1>7, <2>2, <3>1
    <3>3. QED
      BY ONLY <1>10, <2>2, <2>4, <3>2, k \in 1..K
  <2>5. QED
    BY <2>3, <2>4
<1>17. ASSUME NEW m \in p..L, Counted(talk, types, m) PROVE \E i \in 1..Len(t) : t[i].of = m
  <2>1. CASE m = p
    BY ONLY <1>6, <1>7, <1>8, <2>1
  <2>2. CASE m # p
    <3>1. m \in (p + 1)..L
      BY ONLY <1>2, <1>17, <2>2
    <3>2. PICK k \in 1..K : kept[k].of = m
      BY ONLY <1>11, <1>17, <3>1
    <3>3. QED
      BY ONLY <1>7, <1>8, <3>2
  <2>3. QED
    BY <2>1, <2>2
<1>18. rem - l # 0 => t[1].length = len(t[1].of)
  BY ONLY <1>5, <1>6, <1>7
<1>19. QED
  BY ONLY <1>2, <1>4, <1>7, <1>8, <1>13, <1>14, <1>15, <1>16, <1>17, <1>18 DEF Fits

\* How far the quoting is.
Quotings == [remaining : Nat, kept : Seq(QuotedParts), over : BOOLEAN]
TakesNext(talk, state, n, next) ==
  LET l == History!Lesser(talk[n].length, state.remaining)
  IN /\ state.remaining # 0 /\ next.remaining = state.remaining - l
     /\ Prepended(QuotedParts, [of |-> n, length |-> l], state.kept, next.kept)

LEMMA LastIs ==
  ASSUME NEW talk \in Seq(SaidMessages), NEW n \in 1..Len(talk), NEW state \in Quotings,
         NEW l, l = History!LastOf(talk[n].length, state.remaining)
  PROVE  /\ talk[n].length \in Nat /\ l \in Nat
         /\ state.remaining # 0 => /\ l = History!Lesser(talk[n].length, state.remaining)
                                   /\ state.remaining - l \in Nat
                                   /\ talk[n].length > 0 => l > 0
                                   /\ talk[n].length = 0 => l = 0
         /\ \E t : Prepended(QuotedParts, [of |-> n, length |-> l], state.kept, t)
<1>1. talk[n] \in SaidMessages
  OBVIOUS
<1>2. talk[n].length \in Nat /\ state.remaining \in Nat /\ state.kept \in Seq(QuotedParts)
  BY ONLY <1>1, state \in Quotings DEF SaidMessages, Quotings
<1>3. PICK a \in Nat : a = talk[n].length
  BY ONLY <1>2
<1>4. PICK b \in Nat : b = state.remaining
  BY ONLY <1>2
<1>5. l = History!LastOf(a, b)
  BY ONLY <1>3, <1>4, l = History!LastOf(talk[n].length, state.remaining)
<1>6. l \in Nat /\ (b # 0 => /\ l = History!Lesser(a, b) /\ b - l \in Nat
                             /\ a > 0 => l > 0
                             /\ a = 0 => l = 0)
  BY ONLY <1>5, a \in Nat, b \in Nat DEF History!LastOf, History!Lesser
<1>7. \E t : Prepended(QuotedParts, [of |-> n, length |-> l], state.kept, t)
  <2>1. [of |-> n, length |-> l] \in QuotedParts
    <3>1. n \in Nat
      OBVIOUS
    <3>2. QED
      BY ONLY <1>6, <3>1 DEF QuotedParts
  <2>2. QED
    BY ONLY <1>2, <2>1, PrependedSo
<1>8. QED
  BY ONLY <1>3, <1>4, <1>6, <1>7

LEMMA QuoteIs ==
  ASSUME NEW talk \in Seq(SaidMessages), NEW n \in 1..Len(talk), NEW state \in Quotings,
         NEW next, next = History!Quote(talk, state, n), ~state.over
  PROVE  /\ next \in Quotings /\ ~next.over
         /\ talk[n].type \in History!Quoted /\ state.remaining # 0 => TakesNext(talk, state, n, next)
         /\ ~(talk[n].type \in History!Quoted /\ state.remaining # 0) => next = state
<1>1. PICK l : l = History!LastOf(talk[n].length, state.remaining)
  OBVIOUS
<1>2. /\ l \in Nat
      /\ state.remaining # 0 => /\ l = History!Lesser(talk[n].length, state.remaining)
                                /\ state.remaining - l \in Nat
  BY ONLY <1>1, talk \in Seq(SaidMessages), n \in 1..Len(talk), state \in Quotings, LastIs
<1>3. PICK t : Prepended(QuotedParts, [of |-> n, length |-> l], state.kept, t)
  BY ONLY <1>1, talk \in Seq(SaidMessages), n \in 1..Len(talk), state \in Quotings, LastIs
<1>4. t \in Seq(QuotedParts) /\ t = <<[of |-> n, length |-> l]>> \o state.kept
  BY ONLY <1>3 DEF Prepended
<1>5. CASE talk[n].type \in History!Quoted /\ state.remaining # 0
  <2>1. next = [remaining |-> state.remaining - l, kept |-> t, over |-> FALSE]
    BY <1>1, <1>4, <1>5 DEF History!Quote
  <2>2. next \in Quotings /\ ~next.over /\ next.remaining = state.remaining - l /\ next.kept = t
    BY ONLY <1>2, <1>4, <1>5, <2>1 DEF Quotings
  <2>3. TakesNext(talk, state, n, next)
    BY ONLY <1>2, <1>3, <1>5, <2>2 DEF TakesNext
  <2>4. QED
    BY <1>5, <2>2, <2>3
<1>6. CASE ~(talk[n].type \in History!Quoted /\ state.remaining # 0)
  <2>1. next = state
    BY <1>6 DEF History!Quote
  <2>2. QED
    BY <1>6, <2>1
<1>7. QED
  BY <1>5, <1>6

LEMMA RestoreIs ==
  ASSUME NEW talk \in Seq(SaidMessages), NEW n \in 1..Len(talk), NEW state \in Quotings,
         NEW next, next = History!Restore(talk, state, n), state.over <=> state.remaining = 0
  PROVE  /\ next \in Quotings /\ (next.over <=> next.remaining = 0)
         /\ state.remaining # 0 /\ Counted(talk, History!Spoken, n) => TakesNext(talk, state, n, next)
         /\ ~(state.remaining # 0 /\ Counted(talk, History!Spoken, n)) =>
               next.remaining = state.remaining /\ next.kept = state.kept
<1>1. PICK l : l = History!LastOf(talk[n].length, state.remaining)
  OBVIOUS
<1>2. /\ l \in Nat /\ talk[n].length \in Nat
      /\ state.remaining # 0 => /\ l = History!Lesser(talk[n].length, state.remaining)
                                /\ state.remaining - l \in Nat
                                /\ talk[n].length > 0 => l > 0
                                /\ talk[n].length = 0 => l = 0
  BY ONLY <1>1, talk \in Seq(SaidMessages), n \in 1..Len(talk), state \in Quotings, LastIs
<1>3. PICK t : Prepended(QuotedParts, [of |-> n, length |-> l], state.kept, t)
  BY ONLY <1>1, talk \in Seq(SaidMessages), n \in 1..Len(talk), state \in Quotings, LastIs
<1>4. t \in Seq(QuotedParts) /\ t = <<[of |-> n, length |-> l]>> \o state.kept
  BY ONLY <1>3 DEF Prepended
<1>5. state.kept \in Seq(QuotedParts) /\ state.remaining \in Nat
  BY ONLY state \in Quotings DEF Quotings
<1>6. CASE ~(talk[n].type \in History!Spoken /\ state.remaining # 0)
  <2>1. next = state
    BY <1>6 DEF History!Restore
  <2>2. ~(state.remaining # 0 /\ Counted(talk, History!Spoken, n))
    BY <1>6 DEF Counted
  <2>3. QED
    BY <2>1, <2>2
<1>7. CASE talk[n].type \in History!Spoken /\ state.remaining # 0
  <2>1. next = [remaining |-> state.remaining - l, over |-> state.remaining - l = 0,
                kept |-> IF l = 0 THEN state.kept ELSE t]
    BY <1>1, <1>4, <1>7 DEF History!Restore
  <2>2. /\ next \in Quotings /\ next.remaining = state.remaining - l
        /\ next.kept = (IF l = 0 THEN state.kept ELSE t) /\ (next.over <=> next.remaining = 0)
    BY ONLY <1>2, <1>4, <1>5, <1>7, <2>1 DEF Quotings
  <2>3. CASE Counted(talk, History!Spoken, n)
    <3>1. l # 0
      BY ONLY <1>2, <1>7, <2>3 DEF Counted
    <3>2. TakesNext(talk, state, n, next)
      BY ONLY <1>2, <1>3, <1>7, <2>2, <3>1 DEF TakesNext
    <3>3. QED
      BY <1>7, <2>2, <2>3, <3>2
  <2>4. CASE ~Counted(talk, History!Spoken, n)
    <3>1. talk[n].length = 0
      BY ONLY <1>2, <1>7, <2>4 DEF Counted
    <3>2. l = 0 /\ state.remaining - l = state.remaining
      BY ONLY <1>2, <1>5, <1>7, <3>1
    <3>3. QED
      BY <2>2, <2>4, <3>2
  <2>5. QED
    BY <2>3, <2>4
<1>8. QED
  BY <1>6, <1>7

LEMMA StartIs ==
  ASSUME NEW max \in Nat \ {0}
  PROVE  /\ History!Start(max) \in Quotings /\ ~History!Start(max).over
         /\ History!Start(max).remaining = max /\ History!Start(max).kept = <<>>
<1>1. <<>> \in Seq(QuotedParts)
  OBVIOUS
<1>2. QED
  BY <1>1 DEF History!Start, Quotings

OpenQuotings == {state \in Quotings : ~state.over}
LeftQuotings == {state \in Quotings : state.over <=> state.remaining = 0}

LEMMA QuotesAre ==
  ASSUME NEW talk \in Seq(SaidMessages), NEW max \in Nat \ {0}
  PROVE  \E f : /\ f \in [0..Len(talk) -> OpenQuotings] /\ f[0] = History!Start(max)
                /\ \A n \in 1..Len(talk) :
                     f[n] = History!Quote(talk, f[n - 1], Len(talk) + 1 - n)
                /\ History!RestoreTextHistory(talk, max) = f[Len(talk)].kept
<1> DEFINE N == Len(talk)
           Next1(f, n) == IF n = 0 THEN History!Start(max)
                          ELSE History!Quote(talk, f[n - 1], N + 1 - n)
           step == [n \in 1..N |-> [state \in OpenQuotings |-> History!Quote(talk, state, N + 1 - n)]]
<1>1. History!Start(max) \in OpenQuotings
  BY StartIs DEF OpenQuotings
<1>2. N \in Nat /\ \A n \in 1..N : n \in 0..N /\ n # 0 /\ n - 1 \in 0..N /\ N + 1 - n \in 1..N
  OBVIOUS
<1>3. ASSUME NEW state \in OpenQuotings, NEW n \in 1..N PROVE History!Quote(talk, state, n) \in OpenQuotings
  <2>1. state \in Quotings /\ ~state.over
    BY ONLY <1>3 DEF OpenQuotings
  <2>2. PICK next : next = History!Quote(talk, state, n)
    OBVIOUS
  <2>3. next \in Quotings /\ ~next.over
    BY ONLY <2>1, <2>2, talk \in Seq(SaidMessages), n \in 1..Len(talk), QuoteIs
  <2>4. QED
    BY ONLY <2>2, <2>3 DEF OpenQuotings
<1>4. step \in [1..N -> [OpenQuotings -> OpenQuotings]]
  BY ONLY <1>2, <1>3
<1>5. \A n \in 1..N : \A state \in OpenQuotings : step[n][state] = History!Quote(talk, state, N + 1 - n)
  OBVIOUS
<1> HIDE DEF step, N
<1>6. PICK g : Rounds(N, OpenQuotings, History!Start(max), step, g)
  BY <1>1, <1>2, <1>4, Iterated
<1>7. g \in [0..N -> OpenQuotings] /\ \A n \in 0..N : g[n] = Next1(g, n)
  BY <1>2, <1>5, <1>6 DEF Rounds
<1>8. g = [n \in 0..N |-> Next1(g, n)]
  BY <1>7
<1>9. PICK f : /\ f = [n \in 0..N |-> Next1(f, n)]
               /\ History!RestoreTextHistory(talk, max) = f[N].kept
  <2> DEFINE whole == CHOOSE h : h = [n \in 0..N |-> Next1(h, n)]
  <2>1. whole = [n \in 0..N |-> Next1(whole, n)]
    BY <1>8, Zenon
  <2>2. History!RestoreTextHistory(talk, max) = whole[N].kept
    BY Zenon DEF History!RestoreTextHistory, N
  <2> HIDE DEF whole
  <2>3. QED
    BY <2>1, <2>2
<1>10. \A n \in 0..N : f[n] = Next1(f, n)
  BY <1>9
<1>11. f[0] = History!Start(max)
       /\ \A n \in 1..N : f[n] = History!Quote(talk, f[n - 1], N + 1 - n)
  BY <1>2, <1>10
<1>12. \A n \in 0..N : f[n] \in OpenQuotings
  <2> DEFINE T == {n \in 0..N : f[n] \in OpenQuotings}
  <2>1. 0 \in T
    BY <1>1, <1>2, <1>11
  <2>2. ASSUME NEW n \in 0..N, n \in T, n < N PROVE n + 1 \in T
    <3>1. n + 1 \in 1..N /\ (n + 1) - 1 = n /\ n + 1 \in 0..N
      BY <1>2, <2>2
    <3>2. PICK k \in 1..N : k = N + 1 - (n + 1)
      BY <1>2, <3>1
    <3>3. f[n + 1] = History!Quote(talk, f[n], k)
      BY ONLY <1>11, <3>1, <3>2
    <3>4. QED
      BY <1>3, <2>2, <3>1, <3>3
  <2>3. T = 0..N
    BY ONLY <1>2, <2>1, <2>2, T \in SUBSET (0..N), FromZero
  <2>4. QED
    BY <2>3
<1>13. f \in [0..N -> OpenQuotings]
  BY <1>9, <1>12
<1>14. QED
  BY <1>9, <1>11, <1>13 DEF N


LEMMA RestoresAre ==
  ASSUME NEW talk \in Seq(SaidMessages), NEW max \in Nat \ {0}
  PROVE  \E f : /\ f \in [0..Len(talk) -> LeftQuotings] /\ f[0] = History!Start(max)
                /\ \A n \in 1..Len(talk) :
                     f[n] = History!Restore(talk, f[n - 1], Len(talk) + 1 - n)
                /\ History!RestoreHistory(talk, max) = f[Len(talk)].kept
<1> DEFINE N == Len(talk)
           Next1(f, n) == IF n = 0 THEN History!Start(max)
                          ELSE History!Restore(talk, f[n - 1], N + 1 - n)
           step == [n \in 1..N |-> [state \in LeftQuotings |-> History!Restore(talk, state, N + 1 - n)]]
<1>1. History!Start(max) \in LeftQuotings
  BY StartIs DEF LeftQuotings
<1>2. N \in Nat /\ \A n \in 1..N : n \in 0..N /\ n # 0 /\ n - 1 \in 0..N /\ N + 1 - n \in 1..N
  OBVIOUS
<1>3. ASSUME NEW state \in LeftQuotings, NEW n \in 1..N PROVE History!Restore(talk, state, n) \in LeftQuotings
  <2>1. state \in Quotings /\ (state.over <=> state.remaining = 0)
    BY ONLY <1>3 DEF LeftQuotings
  <2>2. PICK next : next = History!Restore(talk, state, n)
    OBVIOUS
  <2>3. next \in Quotings /\ (next.over <=> next.remaining = 0)
    BY ONLY <2>1, <2>2, talk \in Seq(SaidMessages), n \in 1..Len(talk), RestoreIs
  <2>4. QED
    BY ONLY <2>2, <2>3 DEF LeftQuotings
<1>4. step \in [1..N -> [LeftQuotings -> LeftQuotings]]
  BY ONLY <1>2, <1>3
<1>5. \A n \in 1..N : \A state \in LeftQuotings : step[n][state] = History!Restore(talk, state, N + 1 - n)
  OBVIOUS
<1> HIDE DEF step, N
<1>6. PICK g : Rounds(N, LeftQuotings, History!Start(max), step, g)
  BY <1>1, <1>2, <1>4, Iterated
<1>7. g \in [0..N -> LeftQuotings] /\ \A n \in 0..N : g[n] = Next1(g, n)
  BY <1>2, <1>5, <1>6 DEF Rounds
<1>8. g = [n \in 0..N |-> Next1(g, n)]
  BY <1>7
<1>9. PICK f : /\ f = [n \in 0..N |-> Next1(f, n)]
               /\ History!RestoreHistory(talk, max) = f[N].kept
  <2> DEFINE whole == CHOOSE h : h = [n \in 0..N |-> Next1(h, n)]
  <2>1. whole = [n \in 0..N |-> Next1(whole, n)]
    BY <1>8, Zenon
  <2>2. History!RestoreHistory(talk, max) = whole[N].kept
    BY Zenon DEF History!RestoreHistory, N
  <2> HIDE DEF whole
  <2>3. QED
    BY <2>1, <2>2
<1>10. \A n \in 0..N : f[n] = Next1(f, n)
  BY <1>9
<1>11. f[0] = History!Start(max)
       /\ \A n \in 1..N : f[n] = History!Restore(talk, f[n - 1], N + 1 - n)
  BY <1>2, <1>10
<1>12. \A n \in 0..N : f[n] \in LeftQuotings
  <2> DEFINE T == {n \in 0..N : f[n] \in LeftQuotings}
  <2>1. 0 \in T
    BY <1>1, <1>2, <1>11
  <2>2. ASSUME NEW n \in 0..N, n \in T, n < N PROVE n + 1 \in T
    <3>1. n + 1 \in 1..N /\ (n + 1) - 1 = n /\ n + 1 \in 0..N
      BY <1>2, <2>2
    <3>2. PICK k \in 1..N : k = N + 1 - (n + 1)
      BY <1>2, <3>1
    <3>3. f[n + 1] = History!Restore(talk, f[n], k)
      BY ONLY <1>11, <3>1, <3>2
    <3>4. QED
      BY <1>3, <2>2, <3>1, <3>3
  <2>3. T = 0..N
    BY ONLY <1>2, <2>1, <2>2, T \in SUBSET (0..N), FromZero
  <2>4. QED
    BY <2>3
<1>13. f \in [0..N -> LeftQuotings]
  BY <1>9, <1>12
<1>14. QED
  BY <1>9, <1>11, <1>13 DEF N


\* The n-th message from the end, and the one before it.
LEMMA QuotesFit ==
  ASSUME NEW talk \in Seq(SaidMessages), NEW max \in Nat \ {0},
         NEW f, f \in [0..Len(talk) -> OpenQuotings], f[0] = History!Start(max),
         \A n \in 1..Len(talk) : f[n] = History!Quote(talk, f[n - 1], Len(talk) + 1 - n)
  PROVE  \A n \in 0..Len(talk) :
           Fits(talk, History!Quoted, max, Len(talk) - n, f[n].remaining, f[n].kept)
<1> DEFINE N == Len(talk)
           Right(n) == Fits(talk, History!Quoted, max, N - n, f[n].remaining, f[n].kept)
           T == {n \in 0..N : Right(n)}
<1>1. N \in Nat /\ 0 \in 0..N /\ N - 0 = N
  OBVIOUS
<1>2. 0 \in T
  <2>1. Fits(talk, History!Quoted, max, N, max, <<>>)
    BY ONLY talk \in Seq(SaidMessages), max \in Nat \ {0}, FitsFirst
  <2>2. f[0].remaining = max /\ f[0].kept = <<>>
    BY StartIs
  <2>3. Right(0)
    BY ONLY <1>1, <2>1, <2>2
  <2>4. QED
    BY ONLY <1>1, <2>3
<1>3. ASSUME NEW n \in 0..N, n \in T, n < N PROVE n + 1 \in T
  <2>1. n + 1 \in 1..N /\ (n + 1) - 1 = n /\ n + 1 \in 0..N
    BY <1>1, <1>3
  <2>2. PICK p : Behind(N, n, p)
    BY ONLY <1>1, <1>3, Backwards
  <2>3. p \in 1..N /\ p = N - n /\ p - 1 = N - (n + 1) /\ p = N + 1 - (n + 1)
    BY ONLY <2>2 DEF Behind
  <2>4. PICK state \in OpenQuotings : state = f[n]
    BY <1>3
  <2>5. PICK next : next = f[n + 1]
    OBVIOUS
  <2>6. next = History!Quote(talk, state, p)
    BY <2>1, <2>3, <2>4, <2>5
  <2>7. state \in Quotings /\ ~state.over
    BY ONLY state \in OpenQuotings DEF OpenQuotings
  <2>8. PICK rem : rem = state.remaining
    OBVIOUS
  <2>9. PICK kept : kept = state.kept
    OBVIOUS
  <2>10. Fits(talk, History!Quoted, max, p, rem, kept)
    BY ONLY <1>3, <2>3, <2>4, <2>8, <2>9
  <2>11. CASE talk[p].type \in History!Quoted /\ rem # 0
    <3>1. TakesNext(talk, state, p, next)
      BY ONLY <2>6, <2>7, <2>8, <2>11, talk \in Seq(SaidMessages), <2>3, QuoteIs
    <3>2. PICK l : l = History!Lesser(talk[p].length, rem)
      OBVIOUS
    <3>3. PICK x : x = [of |-> p, length |-> l]
      OBVIOUS
    <3>4. next.remaining = rem - l /\ Prepended(QuotedParts, x, kept, next.kept) /\ rem # 0
      BY ONLY <2>8, <2>9, <3>1, <3>2, <3>3 DEF TakesNext
    <3>5. PICK t : t = next.kept
      OBVIOUS
    <3>6. talk[p].type \in History!Quoted
      BY <2>11 DEF Counted
    <3>7. Fits(talk, History!Quoted, max, p - 1, rem - l, t)
      BY ONLY <2>10, <3>2, <3>3, <3>4, <3>5, <3>6, talk \in Seq(SaidMessages), max \in Nat \ {0},
              <2>3, FitsTake
    <3>8. Right(n + 1)
      BY ONLY <2>3, <2>5, <3>4, <3>5, <3>7
    <3>9. QED
      BY ONLY <2>1, <3>8
  <2>12. CASE ~(talk[p].type \in History!Quoted /\ rem # 0)
    <3>1. next.remaining = rem /\ next.kept = kept
      <4>1. next = state
        BY ONLY <2>6, <2>7, <2>8, <2>12, talk \in Seq(SaidMessages), <2>3, QuoteIs
      <4>2. QED
        BY ONLY <2>8, <2>9, <4>1
    <3>2. rem = 0 \/ ~Counted(talk, History!Quoted, p)
      BY ONLY <2>12 DEF Counted
    <3>3. Fits(talk, History!Quoted, max, p - 1, rem, kept)
      BY ONLY <2>10, <3>2, talk \in Seq(SaidMessages), max \in Nat \ {0},
              <2>3, FitsSkip
    <3>4. Right(n + 1)
      BY ONLY <2>3, <2>5, <3>1, <3>3
    <3>5. QED
      BY ONLY <2>1, <3>4
  <2>13. QED
    BY <2>11, <2>12
<1> HIDE DEF Right
<1>4. T = 0..N
  BY ONLY <1>1, <1>2, <1>3, T \in SUBSET (0..N), FromZero
<1>5. QED
  BY <1>4 DEF Right


LEMMA RestoresFit ==
  ASSUME NEW talk \in Seq(SaidMessages), NEW max \in Nat \ {0},
         NEW f, f \in [0..Len(talk) -> LeftQuotings], f[0] = History!Start(max),
         \A n \in 1..Len(talk) : f[n] = History!Restore(talk, f[n - 1], Len(talk) + 1 - n)
  PROVE  \A n \in 0..Len(talk) :
           Fits(talk, History!Spoken, max, Len(talk) - n, f[n].remaining, f[n].kept)
<1> DEFINE N == Len(talk)
           Right(n) == Fits(talk, History!Spoken, max, N - n, f[n].remaining, f[n].kept)
           T == {n \in 0..N : Right(n)}
<1>1. N \in Nat /\ 0 \in 0..N /\ N - 0 = N
  OBVIOUS
<1>2. 0 \in T
  <2>1. Fits(talk, History!Spoken, max, N, max, <<>>)
    BY ONLY talk \in Seq(SaidMessages), max \in Nat \ {0}, FitsFirst
  <2>2. f[0].remaining = max /\ f[0].kept = <<>>
    BY StartIs
  <2>3. Right(0)
    BY ONLY <1>1, <2>1, <2>2
  <2>4. QED
    BY ONLY <1>1, <2>3
<1>3. ASSUME NEW n \in 0..N, n \in T, n < N PROVE n + 1 \in T
  <2>1. n + 1 \in 1..N /\ (n + 1) - 1 = n /\ n + 1 \in 0..N
    BY <1>1, <1>3
  <2>2. PICK p : Behind(N, n, p)
    BY ONLY <1>1, <1>3, Backwards
  <2>3. p \in 1..N /\ p = N - n /\ p - 1 = N - (n + 1) /\ p = N + 1 - (n + 1)
    BY ONLY <2>2 DEF Behind
  <2>4. PICK state \in LeftQuotings : state = f[n]
    BY <1>3
  <2>5. PICK next : next = f[n + 1]
    OBVIOUS
  <2>6. next = History!Restore(talk, state, p)
    BY <2>1, <2>3, <2>4, <2>5
  <2>7. state \in Quotings /\ (state.over <=> state.remaining = 0)
    BY ONLY state \in LeftQuotings DEF LeftQuotings
  <2>8. PICK rem : rem = state.remaining
    OBVIOUS
  <2>9. PICK kept : kept = state.kept
    OBVIOUS
  <2>10. Fits(talk, History!Spoken, max, p, rem, kept)
    BY ONLY <1>3, <2>3, <2>4, <2>8, <2>9
  <2>11. CASE rem # 0 /\ Counted(talk, History!Spoken, p)
    <3>1. TakesNext(talk, state, p, next)
      BY ONLY <2>6, <2>7, <2>8, <2>11, talk \in Seq(SaidMessages), <2>3, RestoreIs
    <3>2. PICK l : l = History!Lesser(talk[p].length, rem)
      OBVIOUS
    <3>3. PICK x : x = [of |-> p, length |-> l]
      OBVIOUS
    <3>4. next.remaining = rem - l /\ Prepended(QuotedParts, x, kept, next.kept) /\ rem # 0
      BY ONLY <2>8, <2>9, <3>1, <3>2, <3>3 DEF TakesNext
    <3>5. PICK t : t = next.kept
      OBVIOUS
    <3>6. talk[p].type \in History!Spoken
      BY <2>11 DEF Counted
    <3>7. Fits(talk, History!Spoken, max, p - 1, rem - l, t)
      BY ONLY <2>10, <3>2, <3>3, <3>4, <3>5, <3>6, talk \in Seq(SaidMessages), max \in Nat \ {0},
              <2>3, FitsTake
    <3>8. Right(n + 1)
      BY ONLY <2>3, <2>5, <3>4, <3>5, <3>7
    <3>9. QED
      BY ONLY <2>1, <3>8
  <2>12. CASE ~(rem # 0 /\ Counted(talk, History!Spoken, p))
    <3>1. next.remaining = rem /\ next.kept = kept
      <4>1. next.remaining = state.remaining /\ next.kept = state.kept
        BY ONLY <2>6, <2>7, <2>8, <2>12, talk \in Seq(SaidMessages), <2>3, RestoreIs
      <4>2. QED
        BY ONLY <2>8, <2>9, <4>1
    <3>2. rem = 0 \/ ~Counted(talk, History!Spoken, p)
      BY ONLY <2>12 DEF Counted
    <3>3. Fits(talk, History!Spoken, max, p - 1, rem, kept)
      BY ONLY <2>10, <3>2, talk \in Seq(SaidMessages), max \in Nat \ {0},
              <2>3, FitsSkip
    <3>4. Right(n + 1)
      BY ONLY <2>3, <2>5, <3>1, <3>3
    <3>5. QED
      BY ONLY <2>1, <3>4
  <2>13. QED
    BY <2>11, <2>12
<1> HIDE DEF Right
<1>4. T = 0..N
  BY ONLY <1>1, <1>2, <1>3, T \in SUBSET (0..N), FromZero
<1>5. QED
  BY <1>4 DEF Right


\* What is left of a conversation, whichever loop cuts it.
LEMMA LeftFits ==
  ASSUME NEW talk \in Seq(SaidMessages), NEW max \in Nat \ {0}
  PROVE  /\ \E rem : Fits(talk, History!Quoted, max, 0, rem, History!RestoreTextHistory(talk, max))
         /\ \E rem : Fits(talk, History!Spoken, max, 0, rem, History!RestoreHistory(talk, max))
<1>1. Len(talk) \in Nat /\ Len(talk) \in 0..Len(talk) /\ Len(talk) - Len(talk) = 0
  OBVIOUS
<1>2. \E rem : Fits(talk, History!Quoted, max, 0, rem, History!RestoreTextHistory(talk, max))
  <2>1. PICK f : /\ f \in [0..Len(talk) -> OpenQuotings] /\ f[0] = History!Start(max)
                 /\ \A n \in 1..Len(talk) :
                      f[n] = History!Quote(talk, f[n - 1], Len(talk) + 1 - n)
                 /\ History!RestoreTextHistory(talk, max) = f[Len(talk)].kept
    BY QuotesAre
  <2>2. \A n \in 0..Len(talk) :
          Fits(talk, History!Quoted, max, Len(talk) - n, f[n].remaining, f[n].kept)
    BY <2>1, QuotesFit
  <2>3. Fits(talk, History!Quoted, max, 0, f[Len(talk)].remaining, f[Len(talk)].kept)
    BY ONLY <1>1, <2>2
  <2>4. QED
    BY ONLY <2>1, <2>3
<1>3. \E rem : Fits(talk, History!Spoken, max, 0, rem, History!RestoreHistory(talk, max))
  <2>1. PICK f : /\ f \in [0..Len(talk) -> LeftQuotings] /\ f[0] = History!Start(max)
                 /\ \A n \in 1..Len(talk) :
                      f[n] = History!Restore(talk, f[n - 1], Len(talk) + 1 - n)
                 /\ History!RestoreHistory(talk, max) = f[Len(talk)].kept
    BY RestoresAre
  <2>2. \A n \in 0..Len(talk) :
          Fits(talk, History!Spoken, max, Len(talk) - n, f[n].remaining, f[n].kept)
    BY <2>1, RestoresFit
  <2>3. Fits(talk, History!Spoken, max, 0, f[Len(talk)].remaining, f[Len(talk)].kept)
    BY ONLY <1>1, <2>2
  <2>4. QED
    BY ONLY <2>1, <2>3
<1>4. QED
  BY <1>2, <1>3

\* Numbers that rise from one to the next rise altogether.
LEMMA StepsRise ==
  ASSUME NEW q \in Seq(Nat), \A i \in 1..Len(q) : i # 1 => q[i] > q[i - 1]
  PROVE  Rising(q)
<1>1. DOMAIN q = 1..Len(q) /\ Len(q) \in Nat /\ \A k \in 1..Len(q) : q[k] \in Nat
  BY SeqIs
<1> DEFINE K == Len(q)
           T == {i \in 0..K : \A j \in 1..i : j < i => q[j] < q[i]}
<1>2. 0 \in T
  BY <1>1
<1>3. ASSUME NEW i \in 0..K, i \in T, i < K PROVE i + 1 \in T
  <2>1. i + 1 \in 1..K /\ (i + 1) - 1 = i /\ i + 1 \in 0..K
    BY <1>1, <1>3
  <2>2. ASSUME NEW j \in 1..(i + 1), j < i + 1 PROVE q[j] < q[i + 1]
    <3>1. j \in 1..K /\ i \in 1..K /\ j \in 1..i
      BY <1>1, <1>3, <2>2
    <3>2. i + 1 # 1
      BY <3>1
    <3>3. q[i] < q[i + 1]
      BY <1>1, <2>1, <3>1, <3>2
    <3>4. j = i \/ q[j] < q[i]
      BY <1>3, <3>1
    <3>5. q[j] \in Nat /\ q[i] \in Nat /\ q[i + 1] \in Nat
      BY <1>1, <2>1, <3>1
    <3>6. QED
      BY ONLY <3>3, <3>4, <3>5
  <2>3. QED
    BY <2>1, <2>2
<1>4. T = 0..K
  BY ONLY <1>1, <1>2, <1>3, T \in SUBSET (0..K), FromZero
<1>5. ASSUME NEW j \in 1..K, NEW k \in 1..K, j < k PROVE q[j] < q[k]
  <2>1. k \in 0..K /\ j \in 1..k
    BY ONLY <1>1, <1>5
  <2>2. k \in T
    BY ONLY <1>4, <2>1
  <2>3. QED
    BY <1>5, <2>1, <2>2
<1>6. QED
  BY <1>1, <1>5 DEF Rising

\* If every message counts, the end of the conversation is left, its first
\* message perhaps without its beginning.
EndKept(talk, kept, max) ==
  /\ kept \in Seq(QuotedParts) /\ Len(kept) <= Len(talk) /\ Len(kept) \in Nat
  /\ \A i \in 1..Len(kept) :
       /\ kept[i].of = (Len(talk) - Len(kept)) + i /\ kept[i].of \in 1..Len(talk)
       /\ i # 1 => kept[i].length = talk[kept[i].of].length
       /\ kept[i].length \in 1..talk[kept[i].of].length
  /\ \/ /\ Len(kept) = Len(talk)
        /\ \A i \in 1..Len(kept) : kept[i].length = talk[kept[i].of].length
     \/ Cardinality(History!Characters(kept)) = max

LEMMA KeptIsEnd ==
  ASSUME NEW talk \in Seq(SaidMessages), NEW types, NEW max \in Nat \ {0}, NEW rem, NEW kept,
         Fits(talk, types, max, 0, rem, kept),
         \A m \in 1..Len(talk) : Counted(talk, types, m)
  PROVE  EndKept(talk, kept, max)
<1> DEFINE L == Len(talk)
           K == Len(kept)
           q == [i \in 1..K |-> kept[i].of]
<1>1. /\ rem \in Nat /\ kept \in Seq(QuotedParts) /\ K \in Nat /\ L \in Nat /\ 0 + 1 = 1
      /\ \A i \in 1..K : kept[i] \in QuotedParts
  BY DEF Fits
<1>2. \A i \in 1..K : /\ kept[i].of \in 1..L /\ kept[i].length <= talk[kept[i].of].length
                      /\ kept[i].length = 0 => talk[kept[i].of].length = 0
                      /\ i # 1 => /\ kept[i].of > kept[i - 1].of
                                  /\ kept[i].length = talk[kept[i].of].length
  BY <1>1 DEF Fits
<1>3. \A m \in 1..L : talk[m].length > 0 /\ talk[m].length \in Nat
  <2>1. \A m \in 1..L : talk[m] \in SaidMessages
    BY SeqIs
  <2>2. QED
    BY <2>1 DEF Counted, SaidMessages
<1>4. \A i \in 1..K : kept[i].length \in 1..talk[kept[i].of].length
  <2>1. SUFFICES ASSUME NEW i \in 1..K PROVE kept[i].length \in 1..talk[kept[i].of].length
    OBVIOUS
  <2>2. PICK n : n = kept[i].length
    OBVIOUS
  <2>3. PICK m : m = talk[kept[i].of].length
    OBVIOUS
  <2>4. n \in Nat
    BY <1>1, <2>2 DEF QuotedParts
  <2>5. m \in Nat /\ m > 0 /\ n <= m /\ (n = 0 => m = 0)
    BY <1>2, <1>3, <2>2, <2>3
  <2>6. n \in 1..m
    BY ONLY <2>4, <2>5
  <2>7. QED
    BY ONLY <2>2, <2>3, <2>6
<1>5. q \in Seq(Nat) /\ Len(q) = K /\ DOMAIN q = 1..K /\ \A i \in 1..K : q[i] = kept[i].of
  BY <1>1, <1>2
<1>6. Rising(q)
  <2>1. \A i \in 1..K : i # 1 => i - 1 \in 1..K
    BY <1>1
  <2>2. \A i \in 1..K : i # 1 => q[i] > q[i - 1]
    BY <1>2, <1>5, <2>1
  <2> HIDE DEF q
  <2>3. QED
    BY ONLY <1>5, <2>2, StepsRise
<1>7. rem # 0 => \A m \in 1..L : \E i \in 1..K : kept[i].of = m
  BY <1>1 DEF Fits
<1>8. rem = 0 => K # 0 /\ \A m \in 1..L : m >= kept[1].of => \E i \in 1..K : kept[i].of = m
  BY <1>1 DEF Fits
<1>9. rem = 0 => Cardinality(History!Characters(kept)) = max
  <2>1. Cardinality(History!Characters(kept)) \in Nat /\ Cardinality(History!Characters(kept)) + rem = max
    BY FS_CardinalityType DEF Fits
  <2>2. QED
    BY <1>1, <2>1
<1>10. CASE K = 0
  <2>1. rem # 0
    BY <1>8, <1>10
  <2>2. 1..K = {}
    BY <1>10
  <2>3. L = 0
    <3>1. 1 \notin 1..L
      BY <1>7, <2>1, <2>2
    <3>2. QED
      BY <1>1, <3>1
  <2>4. QED
    BY <1>1, <1>10, <2>2, <2>3 DEF EndKept
<1>11. CASE K # 0
  <2>1. 1 \in 1..K
    BY <1>1, <1>11
  <2>2. PICK from : from = kept[1].of
    OBVIOUS
  <2>3. from \in 1..L /\ from \in Nat
    BY <1>1, <1>2, <2>1, <2>2
  <2>4. \A i \in 1..K : kept[i].of >= from
    <3>1. SUFFICES ASSUME NEW i \in 1..K, i # 1 PROVE kept[i].of >= from
      BY <2>2, <2>3
    <3>2. q[1] < q[i]
      BY <1>1, <1>5, <1>6, <2>1, <3>1 DEF Rising
    <3>3. q[1] = from /\ q[i] = kept[i].of /\ kept[i].of \in 1..L
      BY <1>2, <1>5, <2>1, <2>2
    <3>4. QED
      BY ONLY <2>3, <3>2, <3>3, <1>1
  <2>5. \A m \in 1..L : m >= from => \E i \in 1..K : kept[i].of = m
    BY <1>7, <1>8, <2>2
  <2>6. PICK t : t = [i \in 1..(L - from + 1) |-> (from - 1) + i]
    OBVIOUS
  <2>7. L - from + 1 \in Nat
    BY <1>1, <2>3
  <2>8. /\ t \in Seq(Nat) /\ Len(t) = L - from + 1 /\ DOMAIN t = 1..(L - from + 1)
        /\ \A i \in 1..(L - from + 1) : t[i] = (from - 1) + i
    BY <2>3, <2>6, <2>7
  <2>9. Rising(t)
    <3>1. \A j, k \in 1..(L - from + 1) : j < k => (from - 1) + j < (from - 1) + k
      BY ONLY <2>3
    <3>2. QED
      BY ONLY <2>8, <3>1 DEF Rising
  <2>10. Elements(q) = Elements(t)
    <3>1. ASSUME NEW m \in Elements(q) PROVE m \in Elements(t)
      <4>1. PICK i \in 1..K : m = kept[i].of
        BY <1>5, <3>1, ElementsIs
      <4>2. m \in 1..L /\ m >= from
        BY <1>2, <2>4, <4>1
      <4>3. m - from + 1 \in 1..(L - from + 1) /\ (from - 1) + (m - from + 1) = m
        BY ONLY <1>1, <2>3, <4>2
      <4>4. m - from + 1 \in DOMAIN t /\ t[m - from + 1] = m
        BY ONLY <2>8, <4>3
      <4>5. QED
        BY ONLY <4>4, ElementsIs
    <3>2. ASSUME NEW m \in Elements(t) PROVE m \in Elements(q)
      <4>1. PICK i \in 1..(L - from + 1) : m = (from - 1) + i
        BY <2>8, <3>2, ElementsIs
      <4>2. m \in 1..L /\ m >= from
        BY ONLY <1>1, <2>3, <4>1
      <4>3. PICK k \in 1..K : kept[k].of = m
        BY <2>5, <4>2
      <4>4. k \in DOMAIN q /\ q[k] = m
        BY <1>5, <4>3
      <4> HIDE DEF q
      <4>5. QED
        BY ONLY <4>4, ElementsIs
    <3> HIDE DEF q
    <3>3. QED
      BY <3>1, <3>2
  <2>11. q = t
    <3> HIDE DEF q
    <3>1. QED
      BY ONLY <1>5, <1>6, <2>8, <2>9, <2>10, RisingSame
  <2>12. K = L - from + 1 /\ \A i \in 1..K : kept[i].of = (from - 1) + i
    <3>1. K = L - from + 1
      BY <1>5, <2>8, <2>11
    <3>2. \A i \in 1..K : q[i] = kept[i].of
      BY <1>5
    <3> HIDE DEF q
    <3>3. QED
      BY ONLY <2>8, <2>11, <3>1, <3>2
  <2>13. L - K = from - 1 /\ K <= L
    BY ONLY <1>1, <2>3, <2>12
  <2>14. rem # 0 => K = L /\ \A i \in 1..K : kept[i].length = talk[kept[i].of].length
    <3>1. SUFFICES ASSUME rem # 0 PROVE K = L /\ kept[1].length = talk[kept[1].of].length
      BY <1>2
    <3>2. kept[1].length = talk[kept[1].of].length
      BY <1>11, <3>1 DEF Fits
    <3>3. PICK i \in 1..K : kept[i].of = 1
      <4>1. 1 \in 1..L
        BY <1>1, <2>3
      <4>2. QED
        BY <1>7, <3>1, <4>1
    <3>4. from = 1
      BY ONLY <2>3, <2>4, <3>3
    <3>5. QED
      BY ONLY <1>1, <2>13, <3>2, <3>4
  <2>15. \A i \in 1..K : kept[i].of = (L - K) + i
    BY <2>12, <2>13
  <2>16. QED
    BY <1>1, <1>2, <1>4, <1>9, <2>13, <2>14, <2>15 DEF EndKept
<1>12. QED
  BY <1>10, <1>11

-----------------------------------------------------------------------------
(* What an agent remembers, through cuts *)

Memories == [type : {"user", "assistant", "tool"}, turn : Nat, text : Seq(Nat)]

LEMMA MemoryIs ==
  ASSUME NEW items \in Seq(Memories), NEW i \in 1..Len(items)
  PROVE  /\ items[i] \in Memories /\ items[i].text \in Seq(Nat) /\ Len(items[i].text) \in Nat
         /\ items[i].type \in {"user", "assistant", "tool"}
<1>1. items[i] \in Memories
  OBVIOUS
<1>2. QED
  BY ONLY <1>1 DEF Memories

\* There are as many characters in the messages as in what is kept, wherever
\* that was.
LEMMA CharactersCount ==
  ASSUME NEW items \in Seq(Memories), NEW kept \in Seq(QuotedParts), Len(items) = Len(kept),
         NEW d \in Nat,
         \A i \in 1..Len(kept) : kept[i].of = d + i /\ Len(items[i].text) = kept[i].length,
         IsFiniteSet(History!Characters(kept))
  PROVE  Cardinality(Characters(items)) = Cardinality(History!Characters(kept))
<1> DEFINE K == Len(kept)
           S == History!Characters(kept)
           T == Characters(items)
           f == [c \in S |-> <<c[1] - d, c[2]>>]
<1>1. K \in Nat /\ DOMAIN kept = 1..K /\ DOMAIN items = 1..K
  OBVIOUS
<1>2. \A i \in 1..K : Len(items[i].text) = kept[i].length /\ kept[i].of = d + i /\ i \in Nat
  BY <1>1
<1>3. S = UNION {{d + i} \X (1..kept[i].length) : i \in 1..K}
  BY <1>1, <1>2 DEF History!Characters
<1>4. T = UNION {{i} \X (1..kept[i].length) : i \in 1..K}
  BY <1>1, <1>2 DEF Characters
<1>5. \A c \in S : \E i, n : i \in 1..K /\ n \in 1..kept[i].length /\ c = <<d + i, n>>
  BY <1>3
<1>6. \A c \in T : \E i, n : i \in 1..K /\ n \in 1..kept[i].length /\ c = <<i, n>>
  BY <1>4
<1>7. \A i \in 1..K : \A n \in 1..kept[i].length : <<d + i, n>> \in S /\ <<i, n>> \in T
  BY <1>3, <1>4
<1>8. \A i \in 1..K : (d + i) - d = i
  BY <1>1
<1> HIDE DEF S, T
<1>9. \A i \in 1..K : \A n \in 1..kept[i].length : f[<<d + i, n>>] = <<i, n>>
  BY <1>7, <1>8
<1>10. ASSUME NEW c \in S PROVE f[c] \in T
  <2>1. PICK i, n : i \in 1..K /\ n \in 1..kept[i].length /\ c = <<d + i, n>>
    BY ONLY <1>5, c \in S
  <2>2. f[c] = <<i, n>>
    BY <1>9, <2>1
  <2>3. QED
    BY <1>7, <2>1, <2>2
<1>11. ASSUME NEW c \in S, NEW e \in S, f[c] = f[e] PROVE c = e
  <2>1. PICK i, n : i \in 1..K /\ n \in 1..kept[i].length /\ c = <<d + i, n>>
    BY ONLY <1>5, c \in S
  <2>2. PICK j, m : j \in 1..K /\ m \in 1..kept[j].length /\ e = <<d + j, m>>
    BY ONLY <1>5, e \in S
  <2>3. <<i, n>> = <<j, m>>
    BY <1>9, <1>11, <2>1, <2>2
  <2>4. QED
    BY ONLY <2>1, <2>2, <2>3
<1>12. ASSUME NEW e \in T PROVE \E c \in S : f[c] = e
  <2>1. PICK i, n : i \in 1..K /\ n \in 1..kept[i].length /\ e = <<i, n>>
    BY ONLY <1>6, e \in T
  <2>2. QED
    BY <1>7, <1>9, <2>1
<1>13. f \in [S -> T]
  BY <1>10
<1> HIDE DEF f
<1>14. f \in Bijection(S, T)
  BY <1>11, <1>12, <1>13 DEF Bijection, Injection, Surjection, IsInjective
<1>15. IsFiniteSet(S)
  BY DEF S
<1>16. Cardinality(T) = Cardinality(S)
  BY ONLY <1>14, <1>15, FS_Bijection DEF ExistsBijection
<1>17. QED
  BY <1>16 DEF S, T

\* A further message takes no characters away.
LEMMA CharactersRise ==
  ASSUME NEW items \in Seq(Memories), NEW m \in Memories
  PROVE  /\ Cardinality(Characters(items)) \in Nat /\ Cardinality(Characters(Append(items, m))) \in Nat
         /\ Cardinality(Characters(items)) <= Cardinality(Characters(Append(items, m)))
<1>1. ASSUME NEW q \in Seq(Memories) PROVE IsFiniteSet(Characters(q))
  <2> DEFINE parts == [i \in 1..Len(q) |-> {i} \X (1..Len(q[i].text))]
             all == {parts[i] : i \in 1..Len(q)}
  <2>1. DOMAIN q = 1..Len(q) /\ Len(q) \in Int /\ 1 \in Int
    OBVIOUS
  <2>2. IsFiniteSet(1..Len(q))
    BY ONLY <2>1, FS_Interval
  <2>3. parts \in [1..Len(q) -> all] /\ \A T \in all : \E i \in 1..Len(q) : parts[i] = T
    OBVIOUS
  <2>4. Characters(q) = UNION all
    BY <2>1 DEF Characters
  <2>5. ASSUME NEW T \in all PROVE IsFiniteSet(T)
    <3>1. PICK i \in 1..Len(q) : T = {i} \X (1..Len(q[i].text))
      OBVIOUS
    <3>2. PICK n \in Nat : n = Len(q[i].text)
      BY MemoryIs
    <3>3. 1 \in Int /\ n \in Int
      OBVIOUS
    <3>4. IsFiniteSet(1..n)
      BY ONLY <3>3, FS_Interval
    <3>5. IsFiniteSet({i})
      BY FS_Singleton
    <3>6. IsFiniteSet({i} \X (1..n))
      BY ONLY <3>4, <3>5, FS_Product
    <3>7. QED
      BY <3>1, <3>2, <3>6
  <2> HIDE DEF parts, all
  <2>6. parts \in Surjection(1..Len(q), all)
    BY <2>3 DEF Surjection
  <2>7. IsFiniteSet(all)
    BY ONLY <2>2, <2>6, FS_Surjection DEF ExistsSurjection
  <2>8. IsFiniteSet(UNION all)
    BY ONLY <2>5, <2>7, FS_UNION
  <2>9. QED
    BY <2>4, <2>8
<1>2. PICK more : more = Append(items, m)
  OBVIOUS
<1>3. /\ more \in Seq(Memories) /\ DOMAIN items \subseteq DOMAIN more
      /\ \A i \in DOMAIN items : more[i] = items[i]
  BY <1>2
<1>4. Characters(items) \subseteq Characters(more)
  BY <1>3 DEF Characters
<1>5. IsFiniteSet(Characters(items)) /\ IsFiniteSet(Characters(more))
  BY <1>1, <1>3
<1>6. /\ Cardinality(Characters(items)) \in Nat /\ Cardinality(Characters(more)) \in Nat
      /\ Cardinality(Characters(items)) <= Cardinality(Characters(more))
  BY ONLY <1>4, <1>5, FS_Subset, FS_CardinalityType
<1>7. QED
  BY <1>2, <1>6

\* The last words of the last words are the last words.
LEMMA LastWordsAre ==
  ASSUME NEW text \in Seq(Nat), NEW n \in 1..Len(text)
  PROVE  /\ LastWords(text, n) \in Seq(Nat) /\ Len(LastWords(text, n)) = n
         /\ LastWords(text, Len(text)) = text
         /\ \A k \in 1..n : LastWords(LastWords(text, n), k) = LastWords(text, k)
<1>1. PICK L \in Nat : L = Len(text)
  OBVIOUS
<1>2. ASSUME NEW q \in Seq(Nat), NEW k \in 1..Len(q)
      PROVE  /\ LastWords(q, k) \in Seq(Nat) /\ Len(LastWords(q, k)) = k
             /\ \A i \in 1..k : LastWords(q, k)[i] = q[Len(q) - k + i]
  <2>1. PICK l \in Nat : l = Len(q)
    OBVIOUS
  <2>2. k \in 1..l /\ l - k + 1 \in 1..l
    BY <2>1
  <2>3. PICK s : s = SubSeq(q, l - k + 1, l)
    OBVIOUS
  <2>4. s \in Seq(Nat) /\ Len(s) = l - (l - k + 1) + 1 /\ \A i \in 1..k : s[i] = q[(l - k + 1) + i - 1]
    <3>1. /\ l - k + 1 \in 1..(Len(q) + 1) /\ l \in ((l - k + 1) - 1)..Len(q)
          /\ l - (l - k + 1) + 1 = k
      BY ONLY <2>1, <2>2
    <3>2. PICK a : a = l - k + 1
      OBVIOUS
    <3>3. /\ SubSeq(q, a, l) \in Seq(Nat) /\ Len(SubSeq(q, a, l)) = l - a + 1
          /\ \A i \in 1..(l - a + 1) : SubSeq(q, a, l)[i] = q[a + i - 1]
      BY ONLY <3>1, <3>2, q \in Seq(Nat), SubSeqProperties
    <3>4. QED
      BY ONLY <2>3, <3>1, <3>2, <3>3
  <2>5. l - (l - k + 1) + 1 = k /\ \A i \in 1..k : (l - k + 1) + i - 1 = l - k + i
    BY ONLY <2>1, <2>2
  <2>6. QED
    BY <2>1, <2>3, <2>4, <2>5 DEF LastWords
<1>3. n \in 1..L /\ L \in 1..L /\ n \in Nat
  BY <1>1
<1>4. LastWords(text, L) = text
  <2>1. PICK s : s = LastWords(text, L)
    OBVIOUS
  <2>2. s \in Seq(Nat) /\ Len(s) = L /\ \A i \in 1..L : s[i] = text[L - L + i]
    BY <1>1, <1>2, <1>3, <2>1
  <2>3. \A i \in 1..L : L - L + i = i
    BY ONLY <1>1
  <2>4. \A i \in 1..Len(s) : s[i] = text[i]
    BY ONLY <2>2, <2>3
  <2>5. QED
    BY ONLY <1>1, <2>1, <2>2, <2>4, text \in Seq(Nat), SeqExt
<1>5. ASSUME NEW k \in 1..n PROVE LastWords(LastWords(text, n), k) = LastWords(text, k)
  <2>1. PICK s : s = LastWords(text, n)
    OBVIOUS
  <2>2. s \in Seq(Nat) /\ Len(s) = n /\ \A i \in 1..n : s[i] = text[L - n + i]
    BY <1>1, <1>2, <1>3, <2>1
  <2>3. k \in 1..Len(s) /\ k \in 1..L /\ k \in Nat
    BY ONLY <1>1, <1>3, <2>2, k \in 1..n
  <2>4. PICK a : a = LastWords(s, k)
    OBVIOUS
  <2>5. PICK b : b = LastWords(text, k)
    OBVIOUS
  <2>6. a \in Seq(Nat) /\ Len(a) = k /\ \A i \in 1..k : a[i] = s[n - k + i]
    BY <1>2, <2>2, <2>3, <2>4
  <2>7. b \in Seq(Nat) /\ Len(b) = k /\ \A i \in 1..k : b[i] = text[L - k + i]
    BY <1>1, <1>2, <2>3, <2>5
  <2>8. \A i \in 1..k : n - k + i \in 1..n /\ L - n + (n - k + i) = L - k + i
    BY ONLY <1>1, <1>3, <2>3, k \in 1..n
  <2>9. \A i \in 1..Len(a) : a[i] = b[i]
    <3>1. SUFFICES ASSUME NEW i \in 1..k PROVE a[i] = b[i]
      BY <2>6
    <3>2. PICK j : j = n - k + i
      OBVIOUS
    <3>3. j \in 1..n /\ L - n + j = L - k + i
      BY ONLY <2>8, <3>2, i \in 1..k
    <3>4. a[i] = s[j] /\ s[j] = text[L - n + j] /\ b[i] = text[L - k + i]
      BY ONLY <2>2, <2>6, <2>7, <3>2, <3>3, i \in 1..k
    <3>5. QED
      BY ONLY <3>3, <3>4
  <2>10. a = b
    BY ONLY <2>6, <2>7, <2>9, SeqExt
  <2>11. QED
    BY <2>1, <2>4, <2>5, <2>10
<1>6. LastWords(text, n) \in Seq(Nat) /\ Len(LastWords(text, n)) = n
  BY <1>2
<1>7. QED
  BY <1>1, <1>4, <1>5, <1>6

\* What ends with a part ends with the ends of that part.
EndsAlike(c, m, n) ==
  \A k \in 1..n : [c EXCEPT !.text = LastWords(@, k)] = [m EXCEPT !.text = LastWords(@, k)]

\* A message of which the end is kept.
LEMMA CutMemory ==
  ASSUME NEW m \in Memories, NEW n \in 1..Len(m.text), NEW c,
         c = [m EXCEPT !.text = LastWords(@, n)]
  PROVE  /\ c \in Memories /\ c.type = m.type /\ c.turn = m.turn
         /\ c.text = LastWords(m.text, n) /\ Len(c.text) = n
         /\ n = Len(m.text) => c = m
         /\ EndsAlike(c, m, n)
<1>1. /\ m = [type |-> m.type, turn |-> m.turn, text |-> m.text]
      /\ m.type \in {"user", "assistant", "tool"} /\ m.turn \in Nat /\ m.text \in Seq(Nat)
  BY DEF Memories
<1>2. PICK text : text = LastWords(m.text, n)
  OBVIOUS
<1>3. /\ text \in Seq(Nat) /\ Len(text) = n /\ (n = Len(m.text) => text = m.text)
      /\ \A k \in 1..n : LastWords(text, k) = LastWords(m.text, k)
  BY <1>1, <1>2, LastWordsAre
<1>4. c = [type |-> m.type, turn |-> m.turn, text |-> text]
  BY <1>1, <1>2
<1>5. c \in Memories
  BY <1>1, <1>3, <1>4 DEF Memories
<1>6. ASSUME NEW k \in 1..n
      PROVE  [c EXCEPT !.text = LastWords(@, k)] = [m EXCEPT !.text = LastWords(@, k)]
  <2>1. [c EXCEPT !.text = LastWords(@, k)]
          = [type |-> m.type, turn |-> m.turn, text |-> LastWords(text, k)]
    BY ONLY <1>4
  <2>2. [m EXCEPT !.text = LastWords(@, k)]
          = [type |-> m.type, turn |-> m.turn, text |-> LastWords(m.text, k)]
    BY ONLY <1>1
  <2>3. QED
    BY ONLY <1>3, <2>1, <2>2, k \in 1..n
<1>7. n = Len(m.text) => c = m
  BY ONLY <1>1, <1>3, <1>4
<1>8. EndsAlike(c, m, n)
  BY ONLY <1>6 DEF EndsAlike
<1>9. QED
  BY <1>2, <1>3, <1>4, <1>5, <1>7, <1>8

\* The messages have something to say, each of its kind.
Speaking(items, types) ==
  \A i \in 1..Len(items) : items[i].type \in types /\ Len(items[i].text) > 0

\* What is left of what an agent remembers is its end.
LEMMA CutIsNewest ==
  ASSUME NEW items \in Seq(Memories), NEW types, Speaking(items, types), NEW max \in Nat \ {0},
         NEW rem, NEW kept, Fits(Lengths(items), types, max, 0, rem, kept),
         NEW q, q = Trimmed(items, kept)
  PROVE  q \in Seq(Memories) /\ Speaking(q, types) /\ IsNewestOf(q, items, max)
<1> DEFINE L == Len(items)
           K == Len(kept)
           gone == L - K
<1>1. PICK talk : talk = Lengths(items)
  OBVIOUS
<1>2. /\ L \in Nat /\ DOMAIN items = 1..L
      /\ talk = [i \in 1..L |-> [type |-> items[i].type, length |-> Len(items[i].text)]]
  BY <1>1 DEF Lengths
<1>3. \A i \in 1..L : /\ items[i] \in Memories /\ items[i].text \in Seq(Nat)
                      /\ Len(items[i].text) \in Nat /\ Len(items[i].text) > 0
                      /\ items[i].type \in types /\ items[i].type \in History!Types
  <2>1. SUFFICES ASSUME NEW i \in 1..L
                 PROVE  /\ items[i] \in Memories /\ items[i].text \in Seq(Nat)
                        /\ Len(items[i].text) \in Nat /\ Len(items[i].text) > 0
                        /\ items[i].type \in types /\ items[i].type \in History!Types
    OBVIOUS
  <2>2. /\ items[i] \in Memories /\ items[i].text \in Seq(Nat) /\ Len(items[i].text) \in Nat
        /\ items[i].type \in {"user", "assistant", "tool"}
    BY MemoryIs
  <2>3. QED
    BY <2>2 DEF Speaking, History!Types
<1>4. talk \in Seq(SaidMessages) /\ Len(talk) = L
  <2>1. \A i \in 1..L : [type |-> items[i].type, length |-> Len(items[i].text)] \in SaidMessages
    BY <1>3 DEF SaidMessages
  <2>2. QED
    BY ONLY <1>2, <2>1
<1>5. \A i \in 1..L : talk[i].type = items[i].type /\ talk[i].length = Len(items[i].text)
  BY ONLY <1>2
<1>6. \A i \in 1..Len(talk) : Counted(talk, types, i)
  BY ONLY <1>3, <1>4, <1>5 DEF Counted
<1>7. /\ kept \in Seq(QuotedParts) /\ K <= L /\ K \in Nat
      /\ \A i \in 1..K :
           /\ kept[i].of = gone + i /\ kept[i].of \in 1..L
           /\ i # 1 => kept[i].length = talk[kept[i].of].length
           /\ kept[i].length \in 1..talk[kept[i].of].length
      /\ \/ /\ K = L
            /\ \A i \in 1..K : kept[i].length = talk[kept[i].of].length
         \/ Cardinality(History!Characters(kept)) = max
  <2>1. Fits(talk, types, max, 0, rem, kept)
    BY <1>1
  <2>2. EndKept(talk, kept, max)
    BY ONLY <1>4, <1>6, <2>1, max \in Nat \ {0}, KeptIsEnd
  <2>3. QED
    BY ONLY <1>4, <2>2 DEF EndKept
<1>8. gone \in Nat
  BY <1>2, <1>7
<1> HIDE DEF gone
<1>9. \A i \in 1..K : /\ gone + i \in 1..L /\ items[gone + i] \in Memories
                      /\ kept[i].length \in 1..Len(items[gone + i].text)
                      /\ i # 1 => kept[i].length = Len(items[gone + i].text)
  BY ONLY <1>3, <1>5, <1>7
<1>10. DOMAIN kept = 1..K
  BY ONLY <1>7
<1>11. q = [i \in 1..K |-> [items[kept[i].of] EXCEPT !.text = LastWords(@, kept[i].length)]]
  BY <1>10 DEF Trimmed
<1>12. \A i \in 1..K : q[i] = [items[gone + i] EXCEPT !.text = LastWords(@, kept[i].length)]
  BY ONLY <1>7, <1>11
<1>13. \A i \in 1..K : /\ q[i] \in Memories /\ q[i].type = items[gone + i].type
                       /\ Len(q[i].text) = kept[i].length
                       /\ kept[i].length = Len(items[gone + i].text) => q[i] = items[gone + i]
  <2>1. SUFFICES ASSUME NEW i \in 1..K
                 PROVE  /\ q[i] \in Memories /\ q[i].type = items[gone + i].type
                        /\ Len(q[i].text) = kept[i].length
                        /\ kept[i].length = Len(items[gone + i].text) => q[i] = items[gone + i]
    OBVIOUS
  <2>2. PICK m : m = items[gone + i]
    OBVIOUS
  <2>3. PICK n : n = kept[i].length
    OBVIOUS
  <2>4. PICK c : c = q[i]
    OBVIOUS
  <2>5. m \in Memories /\ n \in 1..Len(m.text) /\ c = [m EXCEPT !.text = LastWords(@, n)]
    BY <1>9, <1>12, <2>2, <2>3, <2>4
  <2>6. c \in Memories /\ c.type = m.type /\ Len(c.text) = n /\ (n = Len(m.text) => c = m)
    BY ONLY <2>5, CutMemory
  <2>7. QED
    BY ONLY <2>2, <2>3, <2>4, <2>6
<1>14. q \in Seq(Memories) /\ Len(q) = K
  BY ONLY <1>7, <1>11, <1>13
<1>15. Speaking(q, types)
  <2>1. ASSUME NEW i \in 1..K PROVE q[i].type \in types /\ Len(q[i].text) > 0
    <3>1. PICK j : j = gone + i
      OBVIOUS
    <3>2. q[i].type = items[j].type /\ Len(q[i].text) = kept[i].length
      BY ONLY <1>13, <3>1, i \in 1..K
    <3>3. j \in 1..L /\ kept[i].length \in 1..Len(items[j].text)
      BY ONLY <1>9, <3>1, i \in 1..K
    <3>4. items[j].type \in types
      BY ONLY <1>3, <3>3
    <3>5. kept[i].length > 0
      BY ONLY <3>3
    <3>6. QED
      BY ONLY <3>2, <3>4, <3>5
  <2>2. QED
    BY ONLY <1>14, <2>1 DEF Speaking
<1>16. \A i \in 2..K : q[i] = items[gone + i]
  <2>1. \A i \in 2..K : i \in 1..K /\ i # 1
    BY ONLY <1>7
  <2>2. QED
    BY ONLY <1>9, <1>13, <2>1
<1>17. q # <<>> => \E n \in 1..Len(items[gone + 1].text) :
         q[1] = [items[gone + 1] EXCEPT !.text = LastWords(@, n)]
  <2>1. q # <<>> => 1 \in 1..K
    BY ONLY <1>7, <1>14
  <2>2. QED
    BY ONLY <1>9, <1>12, <2>1
<1>18. q # items => Cardinality(Characters(q)) >= max
  <2>1. SUFFICES ASSUME q # items PROVE Cardinality(Characters(q)) >= max
    OBVIOUS
  <2>2. CASE Cardinality(History!Characters(kept)) = max
    <3>1. IsFiniteSet(History!Characters(kept))
      BY DEF Fits
    <3>2. \A i \in 1..Len(kept) : kept[i].of = gone + i /\ Len(q[i].text) = kept[i].length
      BY ONLY <1>7, <1>13
    <3>3. Cardinality(Characters(q)) = Cardinality(History!Characters(kept))
      BY ONLY <1>7, <1>8, <1>14, <3>1, <3>2, CharactersCount
    <3>4. QED
      BY ONLY <2>2, <3>3, max \in Nat \ {0}
  <2>3. CASE K = L /\ \A i \in 1..K : kept[i].length = talk[kept[i].of].length
    <3>1. gone = 0
      BY <1>2, <2>3 DEF gone
    <3>2. \A i \in 1..K : gone + i = i
      BY ONLY <1>7, <3>1
    <3>3. \A i \in 1..K : kept[i].length = Len(items[gone + i].text)
      BY ONLY <1>5, <1>7, <2>3
    <3>4. \A i \in 1..Len(q) : q[i] = items[i]
      BY ONLY <1>13, <1>14, <3>2, <3>3
    <3>5. q = items
      BY ONLY <1>14, <2>3, <3>4, items \in Seq(Memories), SeqExt
    <3>6. QED
      BY <2>1, <3>5
  <2>4. QED
    BY ONLY <1>7, <2>2, <2>3
<1>19. IsNewestOf(q, items, max)
  <2>1. gone = Len(items) - Len(q)
    BY <1>14 DEF gone
  <2>2. K <= L
    BY <1>7
  <2>3. QED
    BY ONLY <1>14, <1>16, <1>17, <1>18, <2>1, <2>2 DEF IsNewestOf
<1>20. QED
  BY <1>14, <1>15, <1>19

LEMMA NothingIsNewest ==
  ASSUME NEW max \in Nat \ {0}
  PROVE  IsNewestOf(<<>>, <<>>, max)
<1>1. PICK q : q = <<>>
  OBVIOUS
<1>2. Len(q) = 0 /\ 2..0 = {}
  BY <1>1
<1>3. IsNewestOf(q, q, max)
  BY <1>1, <1>2 DEF IsNewestOf
<1>4. QED
  BY <1>1, <1>3

\* What the agent remembers last is what was said last.
LEMMA NewestEnds ==
  ASSUME NEW items \in Seq(Memories), NEW newest \in Seq(Memories), NEW max \in Nat \ {0},
         IsNewestOf(newest, items, max), Len(items) # 0
  PROVE  Len(newest) # 0 /\ newest[Len(newest)].type = items[Len(items)].type
<1>1. PICK L \in Nat : L = Len(items)
  OBVIOUS
<1>2. PICK K \in Nat : K = Len(newest)
  OBVIOUS
<1>3. K # 0
  <2>1. SUFFICES ASSUME K = 0 PROVE FALSE
    OBVIOUS
  <2>2. newest # items
    BY ONLY <1>1, <1>2, <2>1, Len(items) # 0
  <2>3. Cardinality(Characters(newest)) >= max
    BY <2>2 DEF IsNewestOf
  <2>4. Characters(newest) = {}
    <3>1. DOMAIN newest = 1..K /\ 1..0 = {}
      BY ONLY <1>2, newest \in Seq(Memories)
    <3>2. QED
      BY <2>1, <3>1 DEF Characters
  <2>5. Cardinality({}) = 0
    BY FS_EmptySet
  <2>6. QED
    BY <2>3, <2>4, <2>5
<1>4. L - K + K = L /\ K \in 1..K
  BY <1>3
<1>5. CASE K = 1
  <2>1. newest # <<>>
    BY <1>2, <1>3
  <2>2. PICK n \in 1..Len(items[(L - K) + 1].text) :
          newest[1] = [items[(L - K) + 1] EXCEPT !.text = LastWords(@, n)]
    BY <1>1, <1>2, <2>1 DEF IsNewestOf
  <2>3. (L - K) + 1 = L /\ L \in 1..L
    BY <1>1, <1>5, Len(items) # 0
  <2>4. PICK m : m = items[L]
    OBVIOUS
  <2>5. m \in Memories
    BY <1>1, <2>3, <2>4
  <2>6. PICK c : c = newest[1]
    OBVIOUS
  <2>7. n \in 1..Len(m.text) /\ c = [m EXCEPT !.text = LastWords(@, n)]
    BY ONLY <2>2, <2>3, <2>4, <2>6, n \in 1..Len(items[(L - K) + 1].text)
  <2>8. c.type = m.type
    BY ONLY <2>5, <2>7, CutMemory
  <2>9. QED
    BY <1>1, <1>2, <1>3, <1>5, <2>4, <2>6, <2>8
<1>6. CASE K # 1
  <2>1. K \in 2..K
    BY <1>3, <1>6
  <2>2. newest[K] = items[(L - K) + K]
    BY <1>1, <1>2, <2>1 DEF IsNewestOf
  <2>3. QED
    BY <1>1, <1>2, <1>3, <1>4, <2>2
<1>7. QED
  BY <1>5, <1>6

\* A message that both get is the last of both.
LEMMA NewestGrows ==
  ASSUME NEW items \in Seq(Memories), NEW newest \in Seq(Memories), NEW max \in Nat \ {0},
         IsNewestOf(newest, items, max), NEW m \in Memories, Len(m.text) > 0
  PROVE  IsNewestOf(Append(newest, m), Append(items, m), max)
<1>1. PICK L \in Nat : L = Len(items)
  OBVIOUS
<1>2. PICK K \in Nat : K = Len(newest)
  OBVIOUS
<1>3. PICK q : q = Append(newest, m)
  OBVIOUS
<1>4. PICK t : t = Append(items, m)
  OBVIOUS
<1>5. /\ q \in Seq(Memories) /\ Len(q) = K + 1 /\ q[K + 1] = m /\ \A i \in 1..K : q[i] = newest[i]
      /\ t \in Seq(Memories) /\ Len(t) = L + 1 /\ t[L + 1] = m /\ \A i \in 1..L : t[i] = items[i]
  BY <1>1, <1>2, <1>3, <1>4, AppendIs
<1>6. PICK gone : gone = L - K
  OBVIOUS
<1>7. K <= L /\ gone \in Nat /\ (L + 1) - (K + 1) = gone /\ gone + K = L
  <2>1. K <= L
    BY <1>1, <1>2 DEF IsNewestOf
  <2>2. QED
    BY ONLY <1>1, <1>2, <1>6, <2>1
<1>8. \A i \in 2..(K + 1) : q[i] = t[gone + i]
  <2>1. SUFFICES ASSUME NEW i \in 2..(K + 1) PROVE q[i] = t[gone + i]
    OBVIOUS
  <2>2. CASE i = K + 1
    <3>1. gone + i = L + 1
      BY ONLY <1>1, <1>2, <1>7, <2>2
    <3>2. QED
      BY <1>5, <2>2, <3>1
  <2>3. CASE i # K + 1
    <3>1. i \in 2..K /\ i \in 1..K /\ gone + i \in 1..L
      BY ONLY <1>1, <1>2, <1>7, <2>3, i \in 2..(K + 1)
    <3>2. newest[i] = items[gone + i]
      BY <1>1, <1>2, <1>6, <3>1 DEF IsNewestOf
    <3>3. QED
      BY <1>5, <3>1, <3>2
  <2>4. QED
    BY <2>2, <2>3
<1>9. \E n \in 1..Len(t[gone + 1].text) : q[1] = [t[gone + 1] EXCEPT !.text = LastWords(@, n)]
  <2>1. CASE K = 0
    <3>1. gone + 1 = L + 1 /\ K + 1 = 1
      BY ONLY <1>1, <1>2, <1>7, <2>1
    <3>2. q[1] = m /\ t[gone + 1] = m
      BY <1>5, <3>1
    <3>3. PICK n : n = Len(m.text)
      OBVIOUS
    <3>4. n \in 1..Len(m.text)
      <4>1. m.text \in Seq(Nat)
        BY DEF Memories
      <4>2. QED
        BY <3>3, <4>1
    <3>5. PICK c : c = [m EXCEPT !.text = LastWords(@, n)]
      OBVIOUS
    <3>6. c = m
      BY ONLY <3>3, <3>4, <3>5, m \in Memories, CutMemory
    <3>7. QED
      BY ONLY <3>2, <3>4, <3>5, <3>6
  <2>2. CASE K # 0
    <3>1. newest # <<>> /\ 1 \in 1..K /\ gone + 1 \in 1..L
      BY <1>1, <1>2, <1>7, <2>2
    <3>2. \E n \in 1..Len(items[gone + 1].text) :
            newest[1] = [items[gone + 1] EXCEPT !.text = LastWords(@, n)]
      BY <1>1, <1>2, <1>6, <3>1 DEF IsNewestOf
    <3>3. q[1] = newest[1] /\ t[gone + 1] = items[gone + 1]
      BY <1>5, <3>1
    <3>4. QED
      BY ONLY <3>2, <3>3
  <2>3. QED
    BY <2>1, <2>2
<1>10. q # t => Cardinality(Characters(q)) >= max
  <2>1. SUFFICES ASSUME q # t PROVE Cardinality(Characters(q)) >= max
    OBVIOUS
  <2>2. newest # items
    BY <1>3, <1>4, <2>1
  <2>3. Cardinality(Characters(newest)) >= max
    BY <2>2 DEF IsNewestOf
  <2>4. PICK a : a = Cardinality(Characters(newest))
    OBVIOUS
  <2>5. PICK b : b = Cardinality(Characters(q))
    OBVIOUS
  <2>6. a \in Nat /\ b \in Nat /\ a <= b
    BY <1>3, <2>4, <2>5, CharactersRise
  <2>7. b >= max
    BY ONLY <2>3, <2>4, <2>6, max \in Nat \ {0}
  <2>8. QED
    BY <2>5, <2>7
<1>11. Len(q) <= Len(t) /\ Len(t) - Len(q) = gone
  BY ONLY <1>1, <1>2, <1>5, <1>7
<1>12. IsNewestOf(q, t, max)
  BY ONLY <1>5, <1>8, <1>9, <1>10, <1>11 DEF IsNewestOf
<1>13. QED
  BY <1>3, <1>4, <1>12

LEMMA LengthsAre ==
  ASSUME NEW items \in Seq(Memories)
  PROVE  Lengths(items) \in Seq(SaidMessages)
<1>1. PICK l \in Nat : l = Len(items) /\ DOMAIN items = 1..l
  BY SeqIs
<1>2. Lengths(items) = [i \in 1..l |-> [type |-> items[i].type, length |-> Len(items[i].text)]]
  BY <1>1 DEF Lengths
<1>3. \A i \in 1..l : [type |-> items[i].type, length |-> Len(items[i].text)] \in SaidMessages
  <2>1. SUFFICES ASSUME NEW i \in 1..l
                 PROVE  [type |-> items[i].type, length |-> Len(items[i].text)] \in SaidMessages
    OBVIOUS
  <2>2. Len(items[i].text) \in Nat /\ items[i].type \in {"user", "assistant", "tool"}
    BY <1>1, MemoryIs
  <2>3. QED
    BY <2>2 DEF SaidMessages, History!Types
<1>4. QED
  BY ONLY <1>2, <1>3

\* Nothing is cut off what is whole.
LEMMA NewestSelf ==
  ASSUME NEW items \in Seq(Memories), NEW max \in Nat \ {0},
         \A i \in 1..Len(items) : Len(items[i].text) > 0
  PROVE  IsNewestOf(items, items, max)
<1>1. PICK L \in Nat : L = Len(items)
  OBVIOUS
<1>2. L - L = 0 /\ L <= L /\ \A i \in 1..L : 0 + i = i
  OBVIOUS
<1>3. items # <<>> => \E n \in 1..Len(items[1].text) : items[1] = [items[1] EXCEPT !.text = LastWords(@, n)]
  <2>1. SUFFICES ASSUME items # <<>>
                 PROVE  \E n \in 1..Len(items[1].text) : items[1] = [items[1] EXCEPT !.text = LastWords(@, n)]
    OBVIOUS
  <2>2. 1 \in 1..L
    <3>1. L # 0
      BY <1>1, <2>1
    <3>2. QED
      BY <3>1
  <2>3. PICK m : m = items[1]
    OBVIOUS
  <2>4. m \in Memories /\ Len(m.text) \in Nat /\ Len(m.text) > 0
    BY <1>1, <2>2, <2>3, MemoryIs
  <2>5. PICK n : n = Len(m.text) /\ n \in 1..Len(m.text)
    BY ONLY <2>4
  <2>6. PICK c : c = [m EXCEPT !.text = LastWords(@, n)]
    OBVIOUS
  <2>7. c = m
    BY ONLY <2>4, <2>5, <2>6, CutMemory
  <2>8. QED
    BY ONLY <2>3, <2>5, <2>6, <2>7
<1>4. \A i \in 2..L : items[i] = items[0 + i]
  BY <1>1, <1>2
<1>5. QED
  BY ONLY <1>1, <1>2, <1>3, <1>4 DEF IsNewestOf

\* The newest of the newest is the newest: cuts add up to one.
LEMMA NewestAgain ==
  ASSUME NEW items \in Seq(Memories), NEW newest \in Seq(Memories), NEW q \in Seq(Memories),
         NEW max \in Nat \ {0}, IsNewestOf(newest, items, max), IsNewestOf(q, newest, max)
  PROVE  IsNewestOf(q, items, max)
<1>1. PICK L \in Nat : L = Len(items)
  OBVIOUS
<1>2. PICK K \in Nat : K = Len(newest)
  OBVIOUS
<1>3. PICK J \in Nat : J = Len(q)
  OBVIOUS
<1>4. PICK a : a = L - K
  OBVIOUS
<1>5. PICK b : b = K - J
  OBVIOUS
<1>6. K <= L /\ J <= K
  BY <1>1, <1>2, <1>3 DEF IsNewestOf
<1>7. a \in Nat /\ b \in Nat /\ L - J = a + b /\ J <= L
  BY ONLY <1>1, <1>2, <1>3, <1>4, <1>5, <1>6
<1>8. /\ \A i \in 2..K : newest[i] = items[a + i]
      /\ newest # <<>> => \E n \in 1..Len(items[a + 1].text) :
           newest[1] = [items[a + 1] EXCEPT !.text = LastWords(@, n)]
      /\ newest # items => Cardinality(Characters(newest)) >= max
  BY <1>1, <1>2, <1>4 DEF IsNewestOf
<1>9. /\ \A i \in 2..J : q[i] = newest[b + i]
      /\ q # <<>> => \E n \in 1..Len(newest[b + 1].text) :
           q[1] = [newest[b + 1] EXCEPT !.text = LastWords(@, n)]
      /\ q # newest => Cardinality(Characters(q)) >= max
  BY <1>2, <1>3, <1>5 DEF IsNewestOf
<1>10. \A i \in 2..J : q[i] = items[(a + b) + i]
  <2>1. SUFFICES ASSUME NEW i \in 2..J PROVE q[i] = items[(a + b) + i]
    OBVIOUS
  <2>2. b + i \in 2..K /\ a + (b + i) = (a + b) + i
    BY ONLY <1>2, <1>3, <1>5, <1>6, <1>7, i \in 2..J
  <2>3. QED
    BY ONLY <1>8, <1>9, <2>2, i \in 2..J
<1>11. ASSUME q # <<>>
       PROVE  \E n \in 1..Len(items[(a + b) + 1].text) :
                q[1] = [items[(a + b) + 1] EXCEPT !.text = LastWords(@, n)]
  <2>1. PICK k \in 1..Len(newest[b + 1].text) :
          q[1] = [newest[b + 1] EXCEPT !.text = LastWords(@, k)]
    BY ONLY <1>9, <1>11
  <2>2. J # 0
    BY <1>3, <1>11
  <2>3. CASE b = 0
    <3>1. newest # <<>> /\ a + 1 \in 1..L /\ b + 1 = 1 /\ (a + b) + 1 = a + 1
      BY <1>1, <1>2, <1>3, <1>4, <1>6, <1>7, <2>2, <2>3
    <3>2. PICK n \in 1..Len(items[a + 1].text) :
            newest[1] = [items[a + 1] EXCEPT !.text = LastWords(@, n)]
      BY ONLY <1>8, <3>1
    <3>3. PICK m : m = items[a + 1]
      OBVIOUS
    <3>4. m \in Memories /\ m.text \in Seq(Nat) /\ Len(m.text) \in Nat
      BY <1>1, <3>1, <3>3, MemoryIs
    <3>5. PICK c : c = newest[1]
      OBVIOUS
    <3>6. n \in 1..Len(m.text) /\ c = [m EXCEPT !.text = LastWords(@, n)]
      BY ONLY <3>2, <3>3, <3>5, n \in 1..Len(items[a + 1].text)
    <3>7. Len(c.text) = n /\ EndsAlike(c, m, n)
      <4>1. m \in Memories /\ n \in 1..Len(m.text)
        BY ONLY <3>4, <3>6
      <4>2. c = [m EXCEPT !.text = LastWords(@, n)]
        BY ONLY <3>6
      <4>3. Len(c.text) = n
        BY ONLY <4>1, <4>2, CutMemory
      <4>4. EndsAlike(c, m, n)
        BY ONLY <4>1, <4>2, CutMemory
      <4>5. QED
        BY ONLY <4>3, <4>4
    <3>8. k \in 1..Len(c.text) /\ q[1] = [c EXCEPT !.text = LastWords(@, k)]
      BY ONLY <2>1, <3>1, <3>5, k \in 1..Len(newest[b + 1].text)
    <3>9. k \in 1..n /\ k \in 1..Len(m.text)
      <4>1. PICK u \in Nat : u = Len(m.text)
        BY ONLY <3>4
      <4>2. n \in 1..u /\ k \in 1..n
        BY ONLY <3>6, <3>7, <3>8, <4>1
      <4>3. k \in 1..u
        BY ONLY <4>2
      <4>4. QED
        BY ONLY <4>1, <4>2, <4>3
    <3>10. q[1] = [m EXCEPT !.text = LastWords(@, k)]
      BY ONLY <3>7, <3>8, <3>9 DEF EndsAlike
    <3>11. QED
      BY ONLY <3>1, <3>3, <3>9, <3>10
  <2>4. CASE b # 0
    <3>1. b + 1 \in 2..K /\ a + (b + 1) = (a + b) + 1
      BY ONLY <1>2, <1>3, <1>5, <1>6, <1>7, <2>2, <2>4
    <3>2. newest[b + 1] = items[(a + b) + 1]
      BY ONLY <1>8, <3>1
    <3>3. QED
      BY ONLY <2>1, <3>2
  <2>5. QED
    BY <2>3, <2>4
<1>12. q # items => Cardinality(Characters(q)) >= max
  BY ONLY <1>8, <1>9
<1>13. Len(q) <= Len(items) /\ Len(items) - Len(q) = a + b
  BY ONLY <1>1, <1>3, <1>7
<1>14. QED
  BY ONLY <1>3, <1>10, <1>11, <1>12, <1>13 DEF IsNewestOf
=============================================================================

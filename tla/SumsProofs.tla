------------------------------ MODULE SumsProofs ------------------------------
(***************************************************************************)
(* Lemmas about sums of any number of rows: what a sum is and how it       *)
(* changes with a row more.  The inductions take the least number at which *)
(* a claim would fail.                                                     *)
(***************************************************************************)
EXTENDS Sums, SequencesExt, FiniteSetTheorems, WellFoundedInduction, TLAPS

\* f holds the sums of the first rows.
Sums(f, s) == f = [i \in 0..Len(s) |-> IF i = 0 THEN 0 ELSE f[i - 1] + s[i]]

LEMMA Least ==
  ASSUME NEW S, S \subseteq Nat, S # {}
  PROVE  \E n \in S : \A m \in S : n <= m
<1>1. PICK n \in S : \A m \in S : <<m, n>> \notin OpToRel(<, Nat)
  BY NatLessThanWellFounded, WFMin
<1>2. ASSUME NEW m \in S PROVE n <= m
  <2>1. m \in Nat /\ n \in Nat
    OBVIOUS
  <2>2. ~(m < n)
    BY <1>1, <2>1 DEF OpToRel
  <2> QED  BY <2>1, <2>2
<1> QED  BY <1>2

\* And of numbers with a bound there is a greatest.
LEMMA Greatest ==
  ASSUME NEW S, S \subseteq Nat, S # {}, NEW bound \in Nat, \A m \in S : m <= bound
  PROVE  \E n \in S : \A m \in S : m <= n
<1> DEFINE B == {n \in Nat : \A m \in S : m <= n}
<1>1. PICK n \in B : \A k \in B : n <= k
  <2>1. B \subseteq Nat /\ bound \in B
    OBVIOUS
  <2>2. B # {}
    BY <2>1
  <2> HIDE DEF B
  <2> QED  BY <2>1, <2>2, Least, Zenon
<1>2. n \in Nat /\ \A m \in S : m \in Nat /\ m <= n
  BY <1>1
<1>3. n \in S
  <2>1. SUFFICES ASSUME n \notin S PROVE FALSE
    OBVIOUS
  <2>2. \A m \in S : m <= n - 1
    BY <1>2, <2>1
  <2>3. n - 1 \in Nat
    <3>1. PICK m \in S : TRUE
      OBVIOUS
    <3>2. m \in Nat /\ m <= n - 1
      BY <1>2, <2>2, <3>1
    <3> QED  BY <1>2, <3>2
  <2>4. n - 1 \in B
    BY <2>2, <2>3
  <2> QED  BY <1>1, <1>2, <2>4
<1> QED  BY <1>2, <1>3

LEMMA SumsExist ==
  ASSUME NEW s \in Seq(Int)
  PROVE  \E f \in [0..Len(s) -> Int] : Sums(f, s)
<1> DEFINE Upto(n, f) == f = [i \in 0..n |-> IF i = 0 THEN 0 ELSE f[i - 1] + s[i]]
           Short == {n \in 0..Len(s) : ~ \E f \in [0..n -> Int] : Upto(n, f)}
<1>1. SUFFICES Short = {}
  <2>1. Len(s) \in 0..Len(s) /\ \A f : Upto(Len(s), f) => Sums(f, s)
    BY DEF Sums
  <2>2. Len(s) \notin Short => \E f \in [0..Len(s) -> Int] : Upto(Len(s), f)
    BY <2>1
  <2> HIDE DEF Short, Upto
  <2> QED  BY <2>1, <2>2
<1>2. SUFFICES ASSUME Short # {} PROVE FALSE
  OBVIOUS
<1>3. PICK n \in Short : \A m \in Short : n <= m
  <2>1. Short \subseteq Nat
    OBVIOUS
  <2> HIDE DEF Short
  <2> QED  BY <1>2, <2>1, Least
<1>4. n \in 0..Len(s) /\ Len(s) \in Nat
  OBVIOUS
<1>5. n # 0
  <2>1. Upto(0, [i \in 0..0 |-> 0])
    OBVIOUS
  <2>2. [i \in 0..0 |-> 0] \in [0..0 -> Int]
    OBVIOUS
  <2> QED  BY <2>1, <2>2
<1>6. n - 1 \in 0..Len(s) /\ n - 1 \notin Short
  <2>1. n - 1 \in 0..Len(s) /\ ~(n <= n - 1)
    BY <1>4, <1>5
  <2> HIDE DEF Short
  <2> QED  BY <1>3, <2>1
<1>7. PICK f \in [0..n - 1 -> Int] : Upto(n - 1, f)
  BY <1>6
<1> DEFINE g == [i \in 0..n |-> IF i = n THEN f[n - 1] + s[n] ELSE f[i]]
<1>8. n - 1 \in 0..n - 1 /\ s[n] \in Int /\ f[n - 1] \in Int
  BY <1>4, <1>5
<1>9. g \in [0..n -> Int]
  <2>1. \A i \in 0..n : i # n => i \in 0..n - 1
    BY <1>4
  <2> QED  BY <1>8, <2>1
<1>10. Upto(n, g)
  <2>1. ASSUME NEW i \in 0..n PROVE g[i] = IF i = 0 THEN 0 ELSE g[i - 1] + s[i]
    <3>1. CASE i = 0
      BY <1>4, <1>5, <1>7, <3>1
    <3>2. CASE i # 0 /\ i # n
      <4>1. i \in 0..n - 1 /\ i - 1 \in 0..n /\ i - 1 # n
        BY <1>4, <3>2
      <4> QED  BY <1>7, <3>2, <4>1
    <3>3. CASE i = n
      <4>1. n - 1 \in 0..n /\ n - 1 # n
        BY <1>4, <1>5
      <4> QED  BY <1>5, <3>3, <4>1
    <3> QED  BY <3>1, <3>2, <3>3
  <2>2. g = [i \in 0..n |-> g[i]]
    OBVIOUS
  <2> HIDE DEF g
  <2> QED  BY <2>1, <2>2
<1> QED  BY <1>3, <1>9, <1>10

\* Sums have one meaning.
LEMMA SumsAgree ==
  ASSUME NEW s \in Seq(Int), NEW f, NEW g, Sums(f, s), Sums(g, s)
  PROVE  f = g
<1> DEFINE Differ == {i \in 0..Len(s) : f[i] # g[i]}
<1>1. SUFFICES Differ = {}
  <2>1. f = [i \in 0..Len(s) |-> f[i]] /\ g = [i \in 0..Len(s) |-> g[i]]
    BY DEF Sums
  <2> QED  BY <2>1
<1>2. SUFFICES ASSUME Differ # {} PROVE FALSE
  OBVIOUS
<1>3. PICK i \in Differ : \A j \in Differ : i <= j
  <2>1. Differ \subseteq Nat
    OBVIOUS
  <2> HIDE DEF Differ
  <2> QED  BY <1>2, <2>1, Least
<1>4. i \in 0..Len(s) /\ Len(s) \in Nat
  OBVIOUS
<1>5. /\ f[i] = IF i = 0 THEN 0 ELSE f[i - 1] + s[i]
      /\ g[i] = IF i = 0 THEN 0 ELSE g[i - 1] + s[i]
  BY <1>4 DEF Sums
<1>6. i # 0 => f[i - 1] = g[i - 1]
  BY <1>3, <1>4
<1> QED  BY <1>3, <1>5, <1>6

LEMMA TotalIsLastSum ==
  ASSUME NEW s \in Seq(Int), NEW f, Sums(f, s)
  PROVE  Total(s) = f[Len(s)]
<1> DEFINE upTo == CHOOSE g : g = [i \in 0..Len(s) |-> IF i = 0 THEN 0 ELSE g[i - 1] + s[i]]
<1>1. Sums(upTo, s)
  BY DEF Sums
<1>2. upTo = f
  BY <1>1, SumsAgree
<1> QED  BY <1>2 DEF Total

\* One row more, and its value more.
LEMMA TotalOfOneMore ==
  ASSUME NEW s \in Seq(Int), NEW n \in Int
  PROVE  /\ Total(<<>>) = 0 /\ Total(s) \in Int
         /\ Append(s, n) \in Seq(Int) /\ Total(Append(s, n)) = Total(s) + n
<1>1. PICK f \in [0..Len(s) -> Int] : Sums(f, s)
  BY SumsExist
<1>2. Total(s) = f[Len(s)] /\ f[Len(s)] \in Int
  BY <1>1, TotalIsLastSum
<1> DEFINE t == Append(s, n)
<1>3. t \in Seq(Int) /\ Len(t) = Len(s) + 1 /\ t[Len(s) + 1] = n /\ \A i \in 1..Len(s) : t[i] = s[i]
  OBVIOUS
<1> HIDE DEF t
<1>4. PICK g \in [0..Len(t) -> Int] : Sums(g, t)
  BY <1>3, SumsExist
<1>5. Total(t) = g[Len(t)]
  BY <1>3, <1>4, TotalIsLastSum
<1> DEFINE h == [i \in 0..Len(s) |-> g[i]]
<1>6. Len(s) \in Nat
  OBVIOUS
<1>7. Sums(h, s)
  <2>1. ASSUME NEW i \in 0..Len(s) PROVE h[i] = IF i = 0 THEN 0 ELSE h[i - 1] + s[i]
    <3>1. i \in 0..Len(t) /\ (i # 0 => i - 1 \in 0..Len(s) /\ i \in 1..Len(s))
      BY <1>3, <1>6
    <3>2. g[i] = IF i = 0 THEN 0 ELSE g[i - 1] + t[i]
      BY <1>4, <3>1 DEF Sums
    <3> QED  BY <1>3, <3>1, <3>2
  <2>2. h = [i \in 0..Len(s) |-> h[i]]
    OBVIOUS
  <2> HIDE DEF h
  <2> QED  BY <2>1, <2>2 DEF Sums
<1>8. h = f
  BY <1>1, <1>7, SumsAgree
<1>9. g[Len(t)] = g[Len(s)] + n
  <2>1. Len(t) \in 0..Len(t) /\ Len(t) # 0 /\ Len(t) - 1 = Len(s)
    BY <1>3, <1>6
  <2>2. g[Len(t)] = g[Len(t) - 1] + t[Len(t)]
    BY <1>4, <2>1 DEF Sums
  <2> QED  BY <1>3, <2>1, <2>2
<1>10. g[Len(s)] = f[Len(s)]
  BY <1>6, <1>8
<1>11. Total(<<>>) = 0
  <2>1. <<>> \in Seq(Int) /\ Len(<<>>) = 0
    OBVIOUS
  <2>2. Sums([i \in 0..0 |-> 0], <<>>)
    BY DEF Sums
  <2> QED  BY <2>1, <2>2, TotalIsLastSum
<1> QED  BY <1>2, <1>3, <1>5, <1>9, <1>10, <1>11 DEF t

\* What is not negative adds up to what is not negative.
LEMMA SumsOfNats ==
  ASSUME NEW s \in Seq(Nat), NEW f, Sums(f, s)
  PROVE  f \in [0..Len(s) -> Nat]
<1> DEFINE Wrong == {i \in 0..Len(s) : f[i] \notin Nat}
<1>1. SUFFICES Wrong = {}
  <2>1. f = [i \in 0..Len(s) |-> f[i]]
    BY DEF Sums
  <2> QED  BY <2>1
<1>2. SUFFICES ASSUME Wrong # {} PROVE FALSE
  OBVIOUS
<1>3. PICK i \in Wrong : \A j \in Wrong : i <= j
  <2>1. Wrong \subseteq Nat
    OBVIOUS
  <2> HIDE DEF Wrong
  <2> QED  BY <1>2, <2>1, Least
<1>4. i \in 0..Len(s) /\ Len(s) \in Nat
  OBVIOUS
<1>5. f[i] = IF i = 0 THEN 0 ELSE f[i - 1] + s[i]
  BY <1>4 DEF Sums
<1>6. i # 0 => f[i - 1] \in Nat /\ s[i] \in Nat
  BY <1>3, <1>4
<1> QED  BY <1>3, <1>5, <1>6

\* A longer column of which the first is the beginning adds up to no less.
LEMMA TotalOfLonger ==
  ASSUME NEW s \in Seq(Nat), NEW t \in Seq(Nat), Len(s) <= Len(t),
         \A i \in 1..Len(s) : t[i] = s[i]
  PROVE  Total(s) \in Nat /\ Total(t) \in Nat /\ Total(s) <= Total(t)
<1>1. Len(s) \in Nat /\ Len(t) \in Nat /\ s \in Seq(Int) /\ t \in Seq(Int)
  OBVIOUS
<1>2. PICK f \in [0..Len(s) -> Int] : Sums(f, s)
  BY <1>1, SumsExist
<1>3. PICK g \in [0..Len(t) -> Int] : Sums(g, t)
  BY <1>1, SumsExist
<1>4. /\ f \in [0..Len(s) -> Nat] /\ g \in [0..Len(t) -> Nat]
      /\ Total(s) = f[Len(s)] /\ Total(t) = g[Len(t)]
  BY <1>1, <1>2, <1>3, SumsOfNats, TotalIsLastSum
<1>5. [i \in 0..Len(s) |-> g[i]] = f
  <2> DEFINE h == [i \in 0..Len(s) |-> g[i]]
  <2>1. ASSUME NEW i \in 0..Len(s) PROVE h[i] = IF i = 0 THEN 0 ELSE h[i - 1] + s[i]
    <3>1. i \in 0..Len(t) /\ (i # 0 => i - 1 \in 0..Len(s) /\ i \in 1..Len(s))
      <4> DEFINE m == Len(s)
                 n == Len(t)
      <4>1. m \in Nat /\ n \in Nat /\ m <= n /\ i \in 0..m
        BY <1>1
      <4> HIDE DEF h, m, n
      <4>2. i \in 0..n /\ (i # 0 => i - 1 \in 0..m /\ i \in 1..m)
        BY <4>1
      <4> QED  BY <4>2 DEF m, n
    <3>2. g[i] = IF i = 0 THEN 0 ELSE g[i - 1] + t[i]
      BY <1>3, <3>1 DEF Sums
    <3> QED  BY <3>1, <3>2
  <2>2. h = [i \in 0..Len(s) |-> h[i]]
    OBVIOUS
  <2>3. Sums(h, s)
    <3> HIDE DEF h
    <3> QED  BY <2>1, <2>2 DEF Sums
  <2> QED  BY <1>1, <1>2, <2>3, SumsAgree
<1> DEFINE Less == {i \in Len(s)..Len(t) : g[i] < g[Len(s)]}
<1>6. Less = {}
  <2>1. SUFFICES ASSUME Less # {} PROVE FALSE
    OBVIOUS
  <2>2. PICK i \in Less : \A j \in Less : i <= j
    <3>1. Less \subseteq Nat
      BY <1>1
    <3> HIDE DEF Less
    <3> QED  BY <2>1, <3>1, Least
  <2>3. i \in Len(s)..Len(t) /\ g[i] < g[Len(s)] /\ i # Len(s)
    BY <1>1, <1>4
  <2>4. i \in 0..Len(t) /\ i - 1 \in 0..Len(t) /\ i - 1 \in Len(s)..Len(t) /\ i \in 1..Len(t)
        /\ i # 0 /\ ~(i <= i - 1) /\ Len(s) \in 0..Len(t)
    BY <1>1, <2>3
  <2>5. g[i] = g[i - 1] + t[i] /\ t[i] \in Nat /\ g[i - 1] \in Nat /\ g[Len(s)] \in Nat
    <3>1. g[i] = g[i - 1] + t[i]
      BY <1>3, <2>4 DEF Sums
    <3>2. t[i] \in Nat
      BY <2>4
    <3> QED  BY <1>4, <2>4, <3>1, <3>2
  <2>6. ~(g[i - 1] < g[Len(s)])
    <3>1. i - 1 \notin Less
      <4> HIDE DEF Less
      <4> QED  BY <2>2, <2>4
    <3> QED  BY <2>4, <3>1
  <2> QED  BY <2>3, <2>5, <2>6
<1>7. Len(t) \in Len(s)..Len(t) /\ Len(s) \in 0..Len(s) /\ Len(s) \in 0..Len(t)
      /\ Len(t) \in 0..Len(t)
  BY <1>1
<1>8. g[Len(s)] <= g[Len(t)]
  <2>1. ~(g[Len(t)] < g[Len(s)])
    BY <1>6, <1>7
  <2>2. g[Len(t)] \in Nat /\ g[Len(s)] \in Nat
    BY <1>4, <1>7
  <2> QED  BY <2>1, <2>2
<1>9. g[Len(s)] = f[Len(s)]
  BY <1>5, <1>7
<1> QED  BY <1>4, <1>7, <1>8, <1>9

LEMMA TotalIsNat ==
  ASSUME NEW s \in Seq(Nat)
  PROVE  Total(s) \in Nat
BY TotalOfLonger

LEMMA TotalOfZeros ==
  ASSUME NEW s \in Seq(Int), \A i \in 1..Len(s) : s[i] = 0
  PROVE  Total(s) = 0
<1> DEFINE f == [i \in 0..Len(s) |-> 0]
<1>1. Len(s) \in Nat
  OBVIOUS
<1>2. ASSUME NEW i \in 0..Len(s) PROVE f[i] = IF i = 0 THEN 0 ELSE f[i - 1] + s[i]
  <2>1. i # 0 => i - 1 \in 0..Len(s) /\ i \in 1..Len(s)
    BY <1>1
  <2> QED  BY <2>1
<1>3. f = [i \in 0..Len(s) |-> f[i]] /\ f[Len(s)] = 0
  BY <1>1
<1> HIDE DEF f
<1> QED  BY <1>2, <1>3, TotalIsLastSum DEF Sums

\* One value of a column is another, and the total differs by as much.
LEMMA TotalOfOneChanged ==
  ASSUME NEW s \in Seq(Int), NEW t \in Seq(Int), Len(t) = Len(s), NEW k \in 1..Len(s),
         \A i \in 1..Len(s) : i # k => t[i] = s[i]
  PROVE  Total(s) \in Int /\ Total(t) = Total(s) + t[k] - s[k]
<1>1. Len(s) \in Nat /\ t[k] \in Int /\ s[k] \in Int
  OBVIOUS
<1>2. PICK f \in [0..Len(s) -> Int] : Sums(f, s)
  BY SumsExist
<1>3. Total(s) = f[Len(s)] /\ f[Len(s)] \in Int
  BY <1>1, <1>2, TotalIsLastSum
<1> DEFINE g == [i \in 0..Len(s) |-> IF i < k THEN f[i] ELSE f[i] + t[k] - s[k]]
<1>4. ASSUME NEW i \in 0..Len(t) PROVE g[i] = IF i = 0 THEN 0 ELSE g[i - 1] + t[i]
  <2>1. i \in 0..Len(s) /\ f[i] \in Int
    BY <1>2
  <2>2. f[i] = IF i = 0 THEN 0 ELSE f[i - 1] + s[i]
    BY <1>2, <2>1 DEF Sums
  <2>3. CASE i = 0
    BY <1>1, <2>1, <2>2, <2>3
  <2>4. CASE i # 0
    <3>1. i - 1 \in 0..Len(s) /\ i \in 1..Len(s) /\ f[i - 1] \in Int /\ t[i] \in Int /\ s[i] \in Int
      <4>1. i - 1 \in 0..Len(s) /\ i \in 1..Len(s)
        BY <1>1, <2>1, <2>4
      <4>2. t[i] \in Int /\ s[i] \in Int
        BY <4>1
      <4> HIDE DEF g
      <4> QED  BY <1>2, <4>1, <4>2
    <3>2. g[i] = (IF i < k THEN f[i] ELSE f[i] + t[k] - s[k])
          /\ g[i - 1] = (IF i - 1 < k THEN f[i - 1] ELSE f[i - 1] + t[k] - s[k])
      BY <2>1, <3>1
    <3> HIDE DEF g
    <3>3. CASE i = k
      <4>1. ~(i < k) /\ i - 1 < k
        BY <1>1, <3>1, <3>3
      <4> QED  BY <1>1, <2>1, <2>2, <2>4, <3>1, <3>2, <3>3, <4>1
    <3>4. CASE i < k
      BY <1>1, <2>1, <2>2, <2>4, <3>1, <3>2, <3>4
    <3>5. CASE i > k
      <4>1. ~(i < k) /\ ~(i - 1 < k) /\ t[i] = s[i]
        BY <1>1, <3>1, <3>5
      <4>2. g[i] = f[i] + t[k] - s[k] /\ g[i - 1] = f[i - 1] + t[k] - s[k]
        BY <3>2, <4>1
      <4>3. f[i] = f[i - 1] + s[i]
        BY <2>2, <2>4
      <4> DEFINE before == f[i - 1]
                 now == f[i]
                 row == s[i]
                 new == t[k]
                 old == s[k]
      <4>4. before \in Int /\ row \in Int /\ new \in Int /\ old \in Int /\ now = before + row
        BY <1>1, <3>1, <4>3
      <4>5. g[i] = now + new - old /\ g[i - 1] = before + new - old /\ t[i] = row
        BY <4>1, <4>2
      <4> HIDE DEF before, now, row, new, old
      <4> QED  BY <2>4, <4>4, <4>5
    <3> QED  BY <1>1, <3>1, <3>3, <3>4, <3>5
  <2> QED  BY <2>3, <2>4
<1>5. g = [i \in 0..Len(t) |-> g[i]] /\ g[Len(t)] = f[Len(s)] + t[k] - s[k]
  BY <1>1
<1> HIDE DEF g
<1>6. Sums(g, t)
  BY <1>4, <1>5 DEF Sums
<1> QED  BY <1>3, <1>5, <1>6, TotalIsLastSum

\* A column that differs from another by what a number rises from row to row: its
\* total differs by the rise from the first row to the last.
LEMMA TotalOfRises ==
  ASSUME NEW s \in Seq(Int), NEW t \in Seq(Int), Len(t) = Len(s), NEW g \in [0..Len(s) -> Int],
         \A i \in 1..Len(s) : t[i] = s[i] + g[i] - g[i - 1]
  PROVE  Total(s) \in Int /\ Total(t) = Total(s) + g[Len(s)] - g[0]
<1>1. Len(s) \in Nat /\ 0 \in 0..Len(s) /\ Len(s) \in 0..Len(s)
  OBVIOUS
<1>2. PICK f \in [0..Len(s) -> Int] : Sums(f, s)
  BY SumsExist
<1>3. Total(s) = f[Len(s)] /\ f[Len(s)] \in Int
  BY <1>1, <1>2, TotalIsLastSum
<1> DEFINE h == [i \in 0..Len(s) |-> f[i] + g[i] - g[0]]
<1>4. \A i \in 0..Len(s) : h[i] = f[i] + g[i] - g[0]
  OBVIOUS
<1>5. h = [i \in 0..Len(s) |-> h[i]]
  OBVIOUS
<1> HIDE DEF h
<1>6. ASSUME NEW i \in 0..Len(s) PROVE h[i] = IF i = 0 THEN 0 ELSE h[i - 1] + t[i]
  <2>1. f[i] = IF i = 0 THEN 0 ELSE f[i - 1] + s[i]
    BY <1>2 DEF Sums
  <2>2. g[0] \in Int
    BY <1>1
  <2>3. CASE i = 0
    BY <1>4, <2>1, <2>2, <2>3
  <2>4. CASE i # 0
    <3>1. i - 1 \in 0..Len(s) /\ i \in 1..Len(s)
      BY <1>1, <2>4
    <3> DEFINE before == f[i - 1]
               now == f[i]
               row == s[i]
               low == g[i - 1]
               high == g[i]
               first == g[0]
    <3>2. before \in Int /\ row \in Int /\ low \in Int /\ high \in Int /\ first \in Int
      <4>1. f[i - 1] \in Int /\ g[i - 1] \in Int /\ g[i] \in Int
        BY <1>2, <3>1
      <4>2. s[i] \in Int
        BY <3>1
      <4> QED  BY <2>2, <4>1, <4>2
    <3>3. now = before + row /\ t[i] = row + high - low
      BY <2>1, <2>4, <3>1
    <3>4. h[i] = now + high - first /\ h[i - 1] = before + low - first
      BY <1>4, <3>1
    <3> HIDE DEF before, now, row, low, high, first
    <3> QED  BY <2>4, <3>2, <3>3, <3>4
  <2> QED  BY <2>3, <2>4
<1>7. Sums(h, t)
  BY <1>5, <1>6 DEF Sums
<1>8. Total(t) = h[Len(s)]
  BY <1>7, TotalIsLastSum
<1> QED  BY <1>1, <1>3, <1>4, <1>8

\* A column nowhere less than another adds up to no less.
LEMMA TotalIsMonotone ==
  ASSUME NEW s \in Seq(Int), NEW t \in Seq(Int), Len(t) = Len(s), \A i \in 1..Len(s) : s[i] <= t[i]
  PROVE  Total(s) \in Int /\ Total(t) \in Int /\ Total(s) <= Total(t)
<1> DEFINE d == [i \in 1..Len(s) |-> t[i] - s[i]]
<1>1. Len(s) \in Nat /\ \A i \in 1..Len(s) : s[i] \in Int /\ t[i] \in Int /\ t[i] - s[i] \in Nat
  OBVIOUS
<1>2. d \in [1..Len(s) -> Nat] /\ \A i \in 1..Len(s) : d[i] = t[i] - s[i]
  BY <1>1
<1> HIDE DEF d
<1>3. d \in Seq(Nat) /\ d \in Seq(Int) /\ Len(d) = Len(s)
  <2> DEFINE n == Len(s)
  <2>1. d \in [1..n -> Nat] /\ n \in Nat
    BY <1>1, <1>2
  <2> HIDE DEF n
  <2>2. d \in Seq(Nat) /\ d \in Seq(Int) /\ Len(d) = n
    <3>1. d \in Seq(Nat) /\ Len(d) = n
      BY <2>1
    <3> QED  BY <3>1
  <2> QED  BY <2>2 DEF n
<1>4. PICK g \in [0..Len(s) -> Int] : Sums(g, d)
  BY <1>3, SumsExist
<1>5. g \in [0..Len(s) -> Nat]
  BY <1>3, <1>4, SumsOfNats
<1>6. g[0] = 0 /\ \A i \in 1..Len(s) : g[i] = g[i - 1] + d[i]
  <2>1. g = [i \in 0..Len(s) |-> IF i = 0 THEN 0 ELSE g[i - 1] + d[i]]
    BY <1>3, <1>4 DEF Sums
  <2>2. 0 \in 0..Len(s) /\ \A i \in 1..Len(s) : i \in 0..Len(s) /\ i # 0
    BY <1>1
  <2>3. \A i \in 0..Len(s) : g[i] = IF i = 0 THEN 0 ELSE g[i - 1] + d[i]
    BY <2>1, Zenon
  <2> QED  BY <2>2, <2>3
<1>7. ASSUME NEW i \in 1..Len(s) PROVE t[i] = s[i] + g[i] - g[i - 1]
  <2>1. i \in 0..Len(s) /\ i - 1 \in 0..Len(s)
    BY <1>1
  <2>2. g[i] \in Nat /\ g[i - 1] \in Nat /\ g[i] = g[i - 1] + (t[i] - s[i])
    BY <1>2, <1>5, <1>6, <2>1
  <2> DEFINE old == s[i]
             new == t[i]
             low == g[i - 1]
             high == g[i]
  <2>3. old \in Int /\ new \in Int /\ low \in Nat /\ high \in Nat /\ high = low + (new - old)
    BY <1>1, <2>2
  <2> HIDE DEF old, new, low, high
  <2>4. new = old + high - low
    BY <2>3
  <2> QED  BY <2>4 DEF old, new, low, high
<1>8. Total(s) \in Int /\ Total(t) = Total(s) + g[Len(s)] - g[0]
  BY <1>4, <1>7, TotalOfRises
<1>9. g[Len(s)] \in Nat
  BY <1>1, <1>5
<1> QED  BY <1>6, <1>8, <1>9

\* A column that no row of which is more, or less, than what a number rises by there.
LEMMA TotalWithinRises ==
  ASSUME NEW c \in Seq(Int), NEW g \in [0..Len(c) -> Int]
  PROVE  /\ Total(c) \in Int
         /\ (\A i \in 1..Len(c) : c[i] <= g[i] - g[i - 1]) => Total(c) <= g[Len(c)] - g[0]
         /\ (\A i \in 1..Len(c) : g[i] - g[i - 1] <= c[i]) => g[Len(c)] - g[0] <= Total(c)
<1> DEFINE n == Len(c)
           z == [i \in 1..n |-> 0]
           r == [i \in 1..n |-> g[i] - g[i - 1]]
<1>1. n \in Nat /\ 0 \in 0..n /\ n \in 0..n
  OBVIOUS
<1>2. \A i \in 1..n : g[i] - g[i - 1] \in Int
  <2>1. ASSUME NEW i \in 1..n PROVE g[i] - g[i - 1] \in Int
    <3>1. i \in 0..n /\ i - 1 \in 0..n
      BY <1>1
    <3>2. g[i] \in Int /\ g[i - 1] \in Int
      BY <3>1
    <3> QED  BY <3>2
  <2> QED  BY <2>1
<1>3. z \in [1..n -> Int] /\ r \in [1..n -> Int]
      /\ \A i \in 1..n : z[i] = 0 /\ r[i] = g[i] - g[i - 1]
  BY <1>2
<1>4. g[0] \in Int /\ g[n] \in Int
  BY <1>1
<1> HIDE DEF z, r
<1>5. z \in Seq(Int) /\ Len(z) = n /\ r \in Seq(Int) /\ Len(r) = n
  <2> HIDE DEF n
  <2>1. z \in Seq(Int) /\ Len(z) = n
    BY <1>1, <1>3
  <2>2. r \in Seq(Int) /\ Len(r) = n
    BY <1>1, <1>3
  <2> QED  BY <2>1, <2>2
<1>6. Total(z) = 0
  BY <1>3, <1>5, TotalOfZeros
<1>7. Total(r) = g[n] - g[0]
  <2>1. g \in [0..Len(z) -> Int]
    BY <1>5
  <2>2. \A i \in 1..Len(z) : r[i] = z[i] + g[i] - g[i - 1]
    <3>1. ASSUME NEW i \in 1..n PROVE r[i] = z[i] + g[i] - g[i - 1]
      <4>1. i \in 0..n /\ i - 1 \in 0..n
        BY <1>1
      <4>2. g[i] \in Int /\ g[i - 1] \in Int /\ z[i] = 0 /\ r[i] = g[i] - g[i - 1]
        BY <1>3, <4>1
      <4> QED  BY <4>2
    <3> QED  BY <1>5, <3>1
  <2>3. Total(r) = Total(z) + g[Len(z)] - g[0]
    BY <1>5, <2>1, <2>2, TotalOfRises
  <2> QED  BY <1>4, <1>5, <1>6, <2>3
<1>8. Total(c) \in Int
  BY TotalOfOneMore
<1>9. ASSUME \A i \in 1..n : c[i] <= g[i] - g[i - 1] PROVE Total(c) <= g[n] - g[0]
  <2>1. \A i \in 1..Len(c) : c[i] <= r[i]
    BY <1>3, <1>9
  <2>2. Total(c) <= Total(r)
    BY <1>5, <2>1, TotalIsMonotone, Zenon
  <2> QED  BY <1>7, <2>2
<1>10. ASSUME \A i \in 1..n : g[i] - g[i - 1] <= c[i] PROVE g[n] - g[0] <= Total(c)
  <2>1. \A i \in 1..Len(r) : r[i] <= c[i]
    BY <1>3, <1>5, <1>10
  <2>2. Total(r) <= Total(c)
    BY <1>5, <2>1, TotalIsMonotone, Zenon
  <2> QED  BY <1>7, <2>2
<1> QED  BY <1>8, <1>9, <1>10

\* No row is more than the total.
LEMMA RowAtMostTotal ==
  ASSUME NEW s \in Seq(Nat), NEW k \in 1..Len(s)
  PROVE  Total(s) \in Nat /\ s[k] <= Total(s)
<1> DEFINE t == [s EXCEPT ![k] = 0]
<1>1. s \in Seq(Int) /\ t \in Seq(Nat) /\ t \in Seq(Int) /\ Len(t) = Len(s) /\ t[k] = 0
      /\ s[k] \in Nat /\ \A i \in 1..Len(s) : i # k => t[i] = s[i]
  OBVIOUS
<1> HIDE DEF t
<1>2. Total(s) \in Int /\ Total(t) = Total(s) + t[k] - s[k]
  BY <1>1, TotalOfOneChanged
<1>3. Total(t) \in Nat /\ Total(s) \in Nat
  BY <1>1, TotalOfLonger
<1> QED  BY <1>1, <1>2, <1>3

LEMMA TotalIsPositive ==
  ASSUME NEW s \in Seq(Nat), NEW k \in 1..Len(s), s[k] > 0
  PROVE  Total(s) > 0
<1> DEFINE t == [s EXCEPT ![k] = 0]
<1>1. s \in Seq(Int) /\ t \in Seq(Nat) /\ t \in Seq(Int) /\ Len(t) = Len(s) /\ t[k] = 0
      /\ s[k] \in Nat /\ \A i \in 1..Len(s) : i # k => t[i] = s[i]
  OBVIOUS
<1> HIDE DEF t
<1>2. Total(s) \in Int /\ Total(t) = Total(s) + t[k] - s[k]
  BY <1>1, TotalOfOneChanged
<1>3. Total(t) \in Nat
  BY <1>1, TotalOfLonger
<1> QED  BY <1>1, <1>2, <1>3

\* A column with one value at some places and nothing elsewhere.
LEMMA TotalOfEqualRows ==
  ASSUME NEW s \in Seq(Int), NEW P, NEW n \in Int,
         \A i \in 1..Len(s) : s[i] = IF i \in P THEN n ELSE 0
  PROVE  /\ Cardinality({i \in 1..Len(s) : i \in P}) \in Nat
         /\ Total(s) = Cardinality({i \in 1..Len(s) : i \in P}) * n
<1> DEFINE Upto(i) == {j \in 1..i : j \in P}
           Number(i) == Cardinality(Upto(i))
           f == [i \in 0..Len(s) |-> Number(i) * n]
<1>1. Len(s) \in Nat
  OBVIOUS
<1>2. ASSUME NEW i \in 0..Len(s) PROVE IsFiniteSet(Upto(i)) /\ Number(i) \in Nat
  <2>1. IsFiniteSet(1..i) /\ Upto(i) \subseteq 1..i
    BY <1>1, FS_Interval
  <2>2. IsFiniteSet(Upto(i))
    BY <2>1, FS_Subset
  <2> QED  BY <2>2, FS_CardinalityType
<1>3. Number(0) = 0
  <2>1. Upto(0) = {}
    OBVIOUS
  <2> QED  BY <2>1, FS_EmptySet
<1>4. ASSUME NEW i \in 1..Len(s)
      PROVE  i - 1 \in 0..Len(s) /\ Number(i) = Number(i - 1) + (IF i \in P THEN 1 ELSE 0)
  <2>1. i - 1 \in 0..Len(s)
    BY <1>1
  <2>2. CASE i \in P
    <3>1. Upto(i) = Upto(i - 1) \cup {i} /\ i \notin Upto(i - 1)
      BY <1>1, <2>2
    <3>2. IsFiniteSet(Upto(i - 1))
      BY <1>2, <2>1
    <3> HIDE DEF Upto
    <3>3. Cardinality(Upto(i)) = Cardinality(Upto(i - 1)) + 1
      BY <3>1, <3>2, FS_AddElement
    <3> QED  BY <2>1, <2>2, <3>3
  <2>3. CASE i \notin P
    <3>1. Upto(i) = Upto(i - 1)
      BY <1>1, <2>3
    <3>2. Number(i - 1) \in Nat
      BY <1>2, <2>1
    <3> HIDE DEF Upto
    <3> QED  BY <2>1, <2>3, <3>1, <3>2
  <2> QED  BY <2>2, <2>3
<1>5. \A i \in 0..Len(s) : Number(i) \in Nat
  BY <1>2
<1> HIDE DEF Number, Upto
<1>6. ASSUME NEW i \in 0..Len(s) PROVE f[i] = IF i = 0 THEN 0 ELSE f[i - 1] + s[i]
  <2>1. CASE i = 0
    <3>1. 0 * n = 0
      OBVIOUS
    <3>2. f[i] = Number(i) * n
      OBVIOUS
    <3> HIDE DEF f
    <3> QED  BY <1>3, <2>1, <3>1, <3>2
  <2>2. CASE i # 0
    <3>1. i \in 1..Len(s)
      BY <1>1, <2>2
    <3>2. i - 1 \in 0..Len(s) /\ Number(i) = Number(i - 1) + (IF i \in P THEN 1 ELSE 0)
          /\ Number(i - 1) \in Nat
      BY <1>4, <1>5, <3>1
    <3>3. \A m \in Nat : (m + 1) * n = m * n + n /\ m * n + 0 = m * n /\ m * n \in Int
      OBVIOUS
    <3>4. Number(i) * n = Number(i - 1) * n + s[i]
      <4>1. CASE i \in P
        BY <3>1, <3>2, <3>3, <4>1
      <4>2. CASE i \notin P
        BY <3>1, <3>2, <3>3, <4>2
      <4> QED  BY <4>1, <4>2
    <3>5. f[i] = Number(i) * n /\ f[i - 1] = Number(i - 1) * n
      BY <3>2
    <3> HIDE DEF f
    <3> QED  BY <2>2, <3>4, <3>5
  <2> QED  BY <2>1, <2>2
<1>7. f = [i \in 0..Len(s) |-> f[i]] /\ f[Len(s)] = Number(Len(s)) * n /\ Number(Len(s)) \in Nat
  BY <1>1, <1>5
<1> HIDE DEF f
<1>8. Sums(f, s)
  BY <1>6, <1>7 DEF Sums
<1> QED  BY <1>7, <1>8, TotalIsLastSum DEF Number, Upto

-----------------------------------------------------------------------------
\* SetToSeq lists the elements of a finite set, each once.
LEMMA Listed ==
  ASSUME NEW S, IsFiniteSet(S)
  PROVE  /\ SetToSeq(S) \in Seq(S)
         /\ \A x \in S : \E k \in 1..Len(SetToSeq(S)) : SetToSeq(S)[k] = x
         /\ \A j, k \in 1..Len(SetToSeq(S)) : SetToSeq(S)[j] = SetToSeq(S)[k] => j = k
<1> DEFINE n == Cardinality(S)
           s == SetToSeq(S)
<1>1. n \in Nat /\ IsFiniteSet(1..n) /\ Cardinality(1..n) = n
  <2>1. n \in Nat
    BY FS_CardinalityType
  <2>2. IsFiniteSet(1..n) /\ Cardinality(1..n) = IF 1 > n THEN 0 ELSE n - 1 + 1
    BY <2>1, FS_Interval
  <2> QED  BY <2>1, <2>2
<1>2. ExistsBijection(1..n, S)
  BY <1>1, FS_SameCardinalityBij
<1>3. \E f \in [1..n -> S] : IsInjective(f)
  BY <1>2 DEF ExistsBijection, Bijection, Injection
<1>4. s \in [1..n -> S] /\ IsInjective(s)
  BY <1>3 DEF SetToSeq
<1> HIDE DEF n, s
<1>5. Len(s) = n /\ s \in Seq(S)
  BY <1>1, <1>4
<1>6. \A j, k \in 1..n : s[j] = s[k] => j = k
  BY <1>4 DEF IsInjective
<1>7. s \in Injection(1..n, S)
  BY <1>4, <1>6 DEF Injection, IsInjective
<1>8. s \in Surjection(1..n, S)
  <2>1. Cardinality(1..n) = Cardinality(S) /\ IsFiniteSet(1..n)
    BY <1>1 DEF n
  <2> QED  BY <1>7, <2>1, FS_Injection
<1>9. \A x \in S : \E k \in 1..n : s[k] = x
  BY <1>8 DEF Surjection
<1> QED  BY <1>5, <1>6, <1>9 DEF s

\* Places of a list are finitely many.
LEMMA Places ==
  ASSUME NEW n \in Nat, NEW S, S \subseteq 1..n
  PROVE  IsFiniteSet(S) /\ Cardinality(S) \in Nat /\ Cardinality(S) <= n
<1>1. IsFiniteSet(1..n) /\ Cardinality(1..n) = n
  BY FS_Interval
<1>2. IsFiniteSet(S) /\ Cardinality(S) <= n
  BY <1>1, FS_Subset
<1> QED  BY <1>2, FS_CardinalityType

LEMMA MorePlaces ==
  ASSUME NEW n \in Nat, NEW S, NEW T, S \subseteq T, T \subseteq 1..n
  PROVE  Cardinality(S) <= Cardinality(T)
<1>1. IsFiniteSet(T)
  BY Places
<1> QED  BY <1>1, FS_Subset

\* A quotient rounded down keeps to whole bounds.
LEMMA DivisionBounds ==
  ASSUME NEW x \in Int, NEW n \in Nat \ {0}, NEW b \in Int
  PROVE  /\ x \div n \in Int
         /\ b * n <= x => b <= x \div n
         /\ x <= b * n => x \div n <= b
         /\ x \div n >= b => b * n <= x
<1> DEFINE q == x \div n
<1>1. q \in Int /\ q * n <= x /\ x < q * n + n /\ q * n \in Int /\ b * n \in Int
  OBVIOUS
<1> HIDE DEF q
<1>2. ASSUME q < b PROVE q * n + n <= b * n
  <2>1. b - q - 1 \in Nat
    BY <1>1, <1>2
  <2>2. (b - q - 1) * n \in Nat
    BY <2>1
  <2>3. (b - q - 1) * n = b * n - q * n - n
    BY <1>1
  <2> QED  BY <1>1, <2>2, <2>3
<1>3. ASSUME b < q PROVE b * n + n <= q * n
  <2>1. q - b - 1 \in Nat
    BY <1>1, <1>3
  <2>2. (q - b - 1) * n \in Nat
    BY <2>1
  <2>3. (q - b - 1) * n = q * n - b * n - n
    BY <1>1
  <2> QED  BY <1>1, <2>2, <2>3
<1>4. b * n <= x => b <= q
  BY <1>1, <1>2
<1>5. x <= b * n => q <= b
  BY <1>1, <1>3
<1>6. q >= b => b * n <= x
  BY <1>1, <1>3
<1> QED  BY <1>1, <1>4, <1>5, <1>6 DEF q

\* The sum of two columns, and of a column that is the same everywhere.
IsSum(u, s, t) ==
  /\ s \in Seq(Int) /\ t \in Seq(Int) /\ u \in Seq(Int)
  /\ Len(t) = Len(s) /\ Len(u) = Len(s) /\ \A i \in 1..Len(s) : u[i] = s[i] + t[i]

LEMMA TotalOfSum ==
  ASSUME NEW u, NEW s, NEW t, IsSum(u, s, t)
  PROVE  /\ Total(s) \in Int /\ Total(t) \in Int /\ Total(u) = Total(s) + Total(t)
<1>0. /\ s \in Seq(Int) /\ t \in Seq(Int) /\ u \in Seq(Int)
      /\ Len(t) = Len(s) /\ Len(u) = Len(s) /\ \A i \in 1..Len(s) : u[i] = s[i] + t[i]
  BY DEF IsSum
<1>1. PICK f \in [0..Len(t) -> Int] : Sums(f, t)
  BY <1>0, SumsExist
<1>2. Total(t) = f[Len(t)]
  BY <1>0, <1>1, TotalIsLastSum
<1>3. Len(s) \in Nat
  BY <1>0
<1>4. /\ f[0] = 0 /\ \A i \in 1..Len(s) : f[i] = f[i - 1] + t[i]
      /\ f[Len(s)] \in Int /\ \A i \in 0..Len(s) : f[i] \in Int
  <2>1. f = [i \in 0..Len(s) |-> IF i = 0 THEN 0 ELSE f[i - 1] + t[i]]
    BY <1>0, <1>1 DEF Sums
  <2>2. \A i \in 0..Len(s) : f[i] = IF i = 0 THEN 0 ELSE f[i - 1] + t[i]
    BY <2>1
  <2>3. 0 \in 0..Len(s) /\ Len(s) \in 0..Len(s) /\ \A i \in 0..Len(s) : f[i] \in Int
    <3>1. 0 \in 0..Len(s) /\ Len(s) \in 0..Len(s)
      BY <1>3
    <3>2. \A i \in 0..Len(s) : f[i] \in Int
      BY <1>0, <1>1
    <3> QED  BY <3>1, <3>2
  <2>4. \A i \in 1..Len(s) : i \in 0..Len(s) /\ i # 0
    BY <1>3
  <2>5. f[0] = 0 /\ \A i \in 1..Len(s) : f[i] = f[i - 1] + t[i]
    BY <2>2, <2>3, <2>4
  <2> QED  BY <2>3, <2>5
<1>5. ASSUME NEW i \in 1..Len(s) PROVE u[i] = s[i] + f[i] - f[i - 1]
  <2>1. i \in 0..Len(s) /\ i - 1 \in 0..Len(s)
    BY <1>3
  <2>2. s[i] \in Int /\ t[i] \in Int /\ u[i] = s[i] + t[i]
    BY <1>0
  <2>3. f[i] \in Int /\ f[i - 1] \in Int /\ f[i] = f[i - 1] + t[i]
    BY <1>4, <2>1
  <2> DEFINE a == f[i]
             b == f[i - 1]
             c == s[i]
             d == t[i]
             e == u[i]
  <2>4. a \in Int /\ b \in Int /\ c \in Int /\ d \in Int /\ e = c + d /\ a = b + d
    BY <2>2, <2>3
  <2> HIDE DEF a, b, c, d, e
  <2>5. e = c + a - b
    BY <2>4
  <2> QED  BY <2>5 DEF a, b, c, d, e
<1>6. f \in [0..Len(s) -> Int]
  BY <1>0, <1>1
<1>7. Total(s) \in Int /\ Total(u) = Total(s) + f[Len(s)] - f[0]
  BY <1>0, <1>5, <1>6, TotalOfRises
<1> QED  BY <1>0, <1>2, <1>4, <1>7

LEMMA TotalOfConstant ==
  ASSUME NEW n \in Nat, NEW c \in Int, NEW s \in Seq(Int), Len(s) = n, \A i \in 1..n : s[i] = c
  PROVE  Total(s) = n * c
<1>1. \A i \in 1..Len(s) : s[i] = IF i \in 1..n THEN c ELSE 0
  OBVIOUS
<1>2. Total(s) = Cardinality({i \in 1..Len(s) : i \in 1..n}) * c
  BY <1>1, TotalOfEqualRows
<1>3. {i \in 1..Len(s) : i \in 1..n} = 1..n /\ Cardinality(1..n) = n
  BY FS_Interval
<1> QED  BY <1>2, <1>3

\* A column multiplied adds up to the product.
LEMMA TotalOfMultiple ==
  ASSUME NEW s \in Seq(Int), NEW t \in Seq(Int), Len(t) = Len(s), NEW k \in Int,
         \A i \in 1..Len(s) : t[i] = s[i] * k
  PROVE  Total(s) \in Int /\ Total(t) = Total(s) * k
<1>1. Len(s) \in Nat /\ \A i \in 1..Len(s) : s[i] \in Int
  OBVIOUS
<1>2. PICK f \in [0..Len(s) -> Int] : Sums(f, s)
  BY SumsExist
<1>3. Total(s) = f[Len(s)] /\ f[Len(s)] \in Int
  BY <1>1, <1>2, TotalIsLastSum
<1> DEFINE g == [i \in 0..Len(t) |-> f[i] * k]
<1>4. \A i \in 0..Len(s) : g[i] = f[i] * k /\ f[i] \in Int
  BY <1>2
<1>5. ASSUME NEW i \in 0..Len(s)
      PROVE  g[i] = IF i = 0 THEN 0 ELSE g[i - 1] + t[i]
  <2>1. f[i] = IF i = 0 THEN 0 ELSE f[i - 1] + s[i]
    BY <1>2 DEF Sums
  <2>2. CASE i = 0
    BY <1>4, <2>1, <2>2
  <2>3. CASE i # 0
    <3>1. i - 1 \in 0..Len(s) /\ i \in 1..Len(s)
      BY <1>1, <2>3
    <3> DEFINE a == f[i - 1]
               b == s[i]
    <3>2. a \in Int /\ b \in Int /\ f[i] = a + b /\ g[i - 1] = a * k /\ t[i] = b * k /\ g[i] = (a + b) * k
      BY <1>1, <1>4, <2>1, <2>3, <3>1
    <3> HIDE DEF a, b, g
    <3>3. (a + b) * k = a * k + b * k
      BY <3>2
    <3> QED  BY <2>3, <3>2, <3>3
  <2> QED  BY <2>2, <2>3
<1>6. Sums(g, t)
  BY <1>5 DEF Sums
<1>7. Total(t) = g[Len(t)]
  <2> HIDE DEF g
  <2> QED  BY <1>6, TotalIsLastSum
<1>8. g[Len(t)] = f[Len(s)] * k
  BY <1>1, <1>4
<1> QED  BY <1>3, <1>7, <1>8

\* A product is no less than a factor, if the other one is positive.
LEMMA ProductIsNoLess ==
  ASSUME NEW x \in Nat \ {0}, NEW y \in Nat
  PROVE  x * y \in Nat /\ y <= x * y
<1>1. x - 1 \in Nat
  OBVIOUS
<1> DEFINE z == x - 1
<1>2. z \in Nat /\ x = z + 1
  BY <1>1
<1> HIDE DEF z
<1>3. z * y \in Nat
  BY <1>2
<1>4. (z + 1) * y = z * y + y
  BY <1>2
<1> QED  BY <1>2, <1>3, <1>4

\* A multiple is divided exactly.
LEMMA ExactQuotient ==
  ASSUME NEW n \in Nat \ {0}, NEW k \in Int
  PROVE  (n * k) \div n = k
<1>1. n * k \in Int /\ k * n = n * k
  OBVIOUS
<1> DEFINE x == n * k
           q == x \div n
<1>2. x \in Int /\ k * n <= x /\ x <= k * n
  BY <1>1
<1> HIDE DEF x
<1>3. q \in Int /\ k <= q /\ q <= k
  BY <1>2, DivisionBounds
<1> HIDE DEF q
<1>4. q = k
  BY <1>3
<1> QED  BY <1>4 DEF q, x

\* Of two columns with one sum, neither is above the other throughout.
LEMMA SomeAbove ==
  ASSUME NEW n \in Nat \ {0}, NEW s \in Seq(Int), NEW t \in Seq(Int), Len(s) = n, Len(t) = n,
         Total(s) = Total(t)
  PROVE  /\ \E i \in 1..n : s[i] <= t[i]
         /\ \E j \in 1..n : s[j] >= t[j]
<1>1. ASSUME NEW u \in Seq(Int), NEW w \in Seq(Int), Len(u) = n, Len(w) = n, \A i \in 1..n : u[i] > w[i]
      PROVE  Total(u) \in Int /\ Total(w) \in Int /\ Total(u) > Total(w)
  <2> DEFINE d == [i \in 1..n |-> u[i] - w[i]]
  <2>1. /\ d \in Seq(Nat) /\ Len(d) = n /\ \A i \in 1..n : d[i] = u[i] - w[i] /\ d[i] > 0
    <3>1. \A i \in 1..n : u[i] - w[i] \in Nat /\ u[i] - w[i] > 0
      <4>1. ASSUME NEW i \in 1..n PROVE u[i] - w[i] \in Nat /\ u[i] - w[i] > 0
        <5> DEFINE a == u[i]
                   b == w[i]
        <5>1. a \in Int /\ b \in Int /\ a > b
          BY <1>1
        <5> HIDE DEF a, b
        <5>2. a - b \in Nat /\ a - b > 0
          BY <5>1
        <5> QED  BY <5>2 DEF a, b
      <4> QED  BY <4>1
    <3>2. d \in [1..n -> Nat]
      BY <3>1
    <3> QED  BY <3>1, <3>2
  <2> HIDE DEF d
  <2>2. Total(d) \in Nat /\ Total(d) > 0
    <3>1. 1 \in 1..Len(d)
      BY <2>1
    <3> QED  BY <2>1, <3>1, TotalIsPositive, TotalIsNat
  <2>3. d \in Seq(Int) /\ \A i \in 1..n : u[i] = w[i] + d[i]
    <3>1. ASSUME NEW i \in 1..n PROVE u[i] = w[i] + d[i]
      <4> DEFINE a == u[i]
                 b == w[i]
                 c == d[i]
      <4>1. a \in Int /\ b \in Int /\ c = a - b
        BY <1>1, <2>1
      <4> HIDE DEF a, b, c
      <4>2. a = b + c
        BY <4>1
      <4> QED  BY <4>2 DEF a, b, c
    <3>2. d \in Seq(Int)
      BY <2>1
    <3> QED  BY <3>1, <3>2
  <2>4. IsSum(u, w, d)
    BY <1>1, <2>1, <2>3 DEF IsSum
  <2>5. Total(w) \in Int /\ Total(u) = Total(w) + Total(d)
    BY <2>4, TotalOfSum
  <2> QED  BY <2>2, <2>5
<1>2. ASSUME \A i \in 1..n : ~(s[i] <= t[i]) PROVE FALSE
  <2>1. \A i \in 1..n : s[i] > t[i]
    BY <1>2
  <2>2. Total(s) \in Int /\ Total(t) \in Int /\ Total(s) > Total(t)
    BY <1>1, <2>1
  <2> QED  BY <2>2
<1>3. ASSUME \A i \in 1..n : ~(s[i] >= t[i]) PROVE FALSE
  <2>1. \A i \in 1..n : t[i] > s[i]
    BY <1>3
  <2>2. Total(s) \in Int /\ Total(t) \in Int /\ Total(t) > Total(s)
    BY <1>1, <2>1
  <2> QED  BY <2>2
<1> QED  BY <1>2, <1>3

\* Every number has a root, rounded down.
LEMMA SquareRoot ==
  ASSUME NEW v \in Nat
  PROVE  \E root \in 0..v : root * root <= v /\ v < (root + 1) * (root + 1)
<1> DEFINE R == {r \in 0..v : r * r <= v}
<1>1. R \subseteq Nat /\ 0 \in R /\ \A m \in R : m <= v
  OBVIOUS
<1>2. PICK r \in R : \A m \in R : m <= r
  <2> HIDE DEF R
  <2>1. R # {}
    BY <1>1
  <2> QED  BY <1>1, <2>1, Greatest
<1>3. r \in 0..v /\ r * r <= v /\ r + 1 \in Nat \ {0} /\ r + 1 \notin R
  BY <1>2
<1>4. v < (r + 1) * (r + 1)
  <2>1. (r + 1) * (r + 1) \in Nat /\ r + 1 <= (r + 1) * (r + 1)
    <3> DEFINE x == r + 1
    <3>1. x \in Nat \ {0} /\ x \in Nat
      BY <1>3
    <3> HIDE DEF x
    <3>2. x * x \in Nat /\ x <= x * x
      BY <3>1, ProductIsNoLess
    <3> QED  BY <3>2 DEF x
  <2>2. CASE r + 1 \in 0..v
    <3>1. ~((r + 1) * (r + 1) <= v)
      BY <1>3, <2>2
    <3> QED  BY <2>1, <3>1
  <2>3. CASE r + 1 \notin 0..v
    <3>1. v < r + 1
      BY <1>3, <2>3
    <3> QED  BY <1>3, <2>1, <3>1
  <2> QED  BY <2>2, <2>3
<1> QED  BY <1>3, <1>4

\* A finite set is counted by its two parts.
LEMMA Parts ==
  ASSUME NEW A, NEW B, IsFiniteSet(A \cup B), A \cap B = {}
  PROVE  /\ IsFiniteSet(A) /\ IsFiniteSet(B)
         /\ Cardinality(A) \in Nat /\ Cardinality(B) \in Nat
         /\ Cardinality(A \cup B) = Cardinality(A) + Cardinality(B)
<1>1. IsFiniteSet(A) /\ IsFiniteSet(B)
  <2>1. A \subseteq A \cup B /\ B \subseteq A \cup B
    OBVIOUS
  <2> QED  BY <2>1, FS_Subset
<1>2. Cardinality(A) \in Nat /\ Cardinality(B) \in Nat
  BY <1>1, FS_CardinalityType
<1>3. Cardinality(A \cup B) = Cardinality(A) + Cardinality(B) - Cardinality(A \cap B)
  BY <1>1, FS_Union
<1>4. Cardinality(A \cap B) = 0
  BY FS_EmptySet
<1> QED  BY <1>1, <1>2, <1>3, <1>4

\* Indicators of two sets of places add up to their sizes.
LEMMA TotalOfPlaces ==
  ASSUME NEW n \in Nat, NEW S, S \subseteq 1..n
  PROVE  LET c == [i \in 1..n |-> IF i \in S THEN 1 ELSE 0]
         IN c \in Seq(Int) /\ Len(c) = n /\ Total(c) = Cardinality(S)
<1> DEFINE c == [i \in 1..n |-> IF i \in S THEN 1 ELSE 0]
<1>1. c \in Seq(Int) /\ Len(c) = n /\ \A i \in 1..n : c[i] = IF i \in S THEN 1 ELSE 0
  <2>1. c \in [1..n -> Int]
    OBVIOUS
  <2> QED  BY <2>1
<1> HIDE DEF c
<1>2. /\ Cardinality({i \in 1..Len(c) : i \in S}) \in Nat
      /\ Total(c) = Cardinality({i \in 1..Len(c) : i \in S}) * 1
  <2>1. 1 \in Int /\ \A i \in 1..Len(c) : c[i] = IF i \in S THEN 1 ELSE 0
    BY <1>1
  <2> QED  BY <1>1, <2>1, TotalOfEqualRows
<1>3. {i \in 1..Len(c) : i \in S} = S
  BY <1>1
<1>4. Total(c) = Cardinality(S)
  <2>1. Cardinality(S) \in Nat /\ Total(c) = Cardinality(S) * 1
    BY <1>2, <1>3
  <2> QED  BY <2>1
<1> QED  BY <1>1, <1>4 DEF c
=============================================================================

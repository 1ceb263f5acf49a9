------------------------------ MODULE Sums_proofs ------------------------------
(***************************************************************************)
(* Lemmas about Total. Induction is on the least number for which a claim   *)
(* fails.                                                                  *)
(***************************************************************************)
EXTENDS Sums, SequenceTheorems, WellFoundedInduction, TLAPS

\* Every set of natural numbers has a least one.
LEMMA LeastNumber ==
    ASSUME NEW T, T \subseteq Nat, T # {}
    PROVE  \E m \in T : \A x \in T : m <= x
  <1> DEFINE R == {ss \in Nat \X Nat : ss[1] < ss[2]}
  <1>1. IsWellFoundedOn(R, Nat)
    BY NatLessThanWellFounded DEF OpToRel
  <1>2. PICK m \in T : \A y \in T : ~ (<<y, m>> \in R)
    BY <1>1, WFMin
  <1>3. \A y \in T : ~(y < m)
    BY <1>2
  <1> QED BY <1>2, <1>3

LEMMA LargestOfSet ==
    ASSUME NEW S, NEW n \in S, \A x \in S : n >= x, S \subseteq Int
    PROVE  Max(S) = n
  <1>1. \A x \in S : (\A y \in S : x >= y) => x = n
    OBVIOUS
  <1>2. Max(S) \in S /\ \A y \in S : Max(S) >= y
    BY DEF Max
  <1> QED BY <1>1, <1>2

\* What FoldLeft adds up, for every set of positions.
LEMMA SumsExist ==
    ASSUME NEW q, NEW n \in Nat
    PROVE  \E g : g = [s \in SUBSET (1 .. n) |->
                         IF s = {} THEN 0 ELSE g[s \ {Max(s)}] + q[Max(s)]]
  <1> DEFINE P(k) == \E g : g = [s \in SUBSET (1 .. k) |->
                         IF s = {} THEN 0 ELSE g[s \ {Max(s)}] + q[Max(s)]]
  <1>1. P(0)
    <2> DEFINE g == [s \in SUBSET (1 .. 0) |-> 0]
    <2>1. \A s \in SUBSET (1 .. 0) : s = {}
      OBVIOUS
    <2>2. g = [s \in SUBSET (1 .. 0) |-> IF s = {} THEN 0 ELSE g[s \ {Max(s)}] + q[Max(s)]]
      BY <2>1
    <2> QED BY <2>2
  <1>2. ASSUME NEW k \in Nat, P(k) PROVE P(k + 1)
    <2>1. PICK g : g = [s \in SUBSET (1 .. k) |->
                         IF s = {} THEN 0 ELSE g[s \ {Max(s)}] + q[Max(s)]]
      BY <1>2
    <2> DEFINE D == SUBSET (1 .. k + 1)
               h == [s \in D |-> IF k + 1 \in s THEN g[s \ {k + 1}] + q[k + 1] ELSE g[s]]
    <2>2. ASSUME NEW s \in D
          PROVE  h[s] = IF s = {} THEN 0 ELSE h[s \ {Max(s)}] + q[Max(s)]
      <3>1. CASE k + 1 \in s
        <4>1. Max(s) = k + 1
          <5>1. k + 1 \in s /\ s \subseteq Int /\ \A x \in s : k + 1 >= x
            BY <3>1
          <5> QED BY <5>1, LargestOfSet
        <4>2. s \ {k + 1} \in SUBSET (1 .. k) /\ s \ {k + 1} \in D
          OBVIOUS
        <4>3. h[s \ {k + 1}] = g[s \ {k + 1}]
          BY <4>2
        <4> QED BY <3>1, <4>1, <4>3
      <3>2. CASE k + 1 \notin s
        <4>1. s \in SUBSET (1 .. k)
          BY <3>2
        <4>2. s \ {Max(s)} \in SUBSET (1 .. k) /\ s \ {Max(s)} \in D /\ k + 1 \notin s \ {Max(s)}
          <5> DEFINE x == Max(s)
          <5> HIDE DEF x
          <5>1. s \ {x} \subseteq 1 .. k
            BY <4>1
          <5>2. s \ {x} \in SUBSET (1 .. k) /\ s \ {x} \in D /\ k + 1 \notin s \ {x}
            BY <5>1
          <5> QED BY <5>2 DEF x
        <4>3. h[s] = g[s] /\ h[s \ {Max(s)}] = g[s \ {Max(s)}]
          BY <3>2, <4>2
        <4>4. g[s] = IF s = {} THEN 0 ELSE g[s \ {Max(s)}] + q[Max(s)]
          BY <2>1, <4>1
        <4> QED BY <4>3, <4>4
      <3> QED BY <3>1, <3>2
    <2>3. h = [s \in D |-> IF s = {} THEN 0 ELSE h[s \ {Max(s)}] + q[Max(s)]]
      BY <2>2
    <2> QED BY <2>3
  <1> HIDE DEF P
  <1>3. {k \in Nat : ~P(k)} = {}
    <2> DEFINE T == {k \in Nat : ~P(k)}
    <2> SUFFICES ASSUME T # {} PROVE FALSE
      OBVIOUS
    <2>1. PICK m \in T : \A x \in T : m <= x
      BY LeastNumber
    <2>2. m # 0 /\ m - 1 \in Nat
      BY <1>1
    <2>3. P(m - 1)
      BY <2>1, <2>2
    <2>4. P((m - 1) + 1)
      BY <1>2, <2>2, <2>3
    <2> QED BY <2>4
  <1> QED BY <1>3 DEF P

\* A function with the partial sums of a sequence ends with its total.
LEMMA TotalOfPrefixes ==
    ASSUME NEW q \in Seq(Int), NEW p \in [0 .. Len(q) -> Int],
           p[0] = 0, \A i \in 1 .. Len(q) : p[i] = p[i - 1] + q[i]
    PROVE  Total(q) = p[Len(q)]
  <1> DEFINE n == Len(q)
             iter == CHOOSE g : g = [s \in SUBSET (1 .. n) |->
                         IF s = {} THEN 0 ELSE g[s \ {Max(s)}] + q[Max(s)]]
  <1>1. n \in Nat /\ DOMAIN q = 1 .. n
    OBVIOUS
  <1>2. Total(q) = iter[1 .. n]
    BY <1>1 DEF Total, FoldLeft, MapThenFoldSet
  <1>3. iter = [s \in SUBSET (1 .. n) |-> IF s = {} THEN 0 ELSE iter[s \ {Max(s)}] + q[Max(s)]]
    BY <1>1, SumsExist
  <1> HIDE DEF iter
  <1>4. iter[1 .. 0] = p[0]
    BY <1>1, <1>3
  <1>5. ASSUME NEW i \in 1 .. n, iter[1 .. i - 1] = p[i - 1]
        PROVE  iter[1 .. i] = p[i]
    <2> DEFINE s == 1 .. i
    <2>1. i \in s /\ s \subseteq Int /\ (\A x \in s : i >= x) /\ s \in SUBSET (1 .. n)
      BY <1>1
    <2>2. Max(s) = i
      BY <2>1, LargestOfSet
    <2>3. iter[s] = iter[s \ {i}] + q[i]
      BY <1>3, <2>1, <2>2
    <2>4. s \ {i} = 1 .. i - 1
      BY <1>1
    <2> QED BY <1>5, <2>3, <2>4
  <1>6. {i \in 0 .. n : iter[1 .. i] # p[i]} = {}
    <2> DEFINE T == {i \in 0 .. n : iter[1 .. i] # p[i]}
    <2> SUFFICES ASSUME T # {} PROVE FALSE
      OBVIOUS
    <2>1. PICK m \in T : \A x \in T : m <= x
      <3>1. T \subseteq Nat
        OBVIOUS
      <3> QED BY <3>1, LeastNumber
    <2>2. m \in 1 .. n
      BY <1>1, <1>4
    <2>3. m - 1 \in 0 .. n /\ m - 1 \notin T
      BY <1>1, <2>1, <2>2
    <2> QED BY <1>5, <2>2, <2>3
  <1> QED BY <1>1, <1>2, <1>6

\* Every sequence of numbers has its partial sums.
LEMMA PrefixesExist ==
    ASSUME NEW S \in {Nat, Int}, NEW q \in Seq(S)
    PROVE  \E p \in [0 .. Len(q) -> S] :
               p[0] = 0 /\ \A i \in 1 .. Len(q) : p[i] = p[i - 1] + q[i]
  <1> DEFINE n == Len(q)
             Sums(k, p) == p[0] = 0 /\ \A i \in 1 .. k : p[i] = p[i - 1] + q[i]
             P(k) == \E p \in [0 .. k -> S] : Sums(k, p)
  <1>1. n \in Nat /\ \A i \in 1 .. n : q[i] \in S
    OBVIOUS
  <1>2. P(0)
    <2> DEFINE p == [i \in 0 .. 0 |-> 0]
    <2>1. p \in [0 .. 0 -> S] /\ Sums(0, p)
      OBVIOUS
    <2> QED BY <2>1
  <1>3. ASSUME NEW k \in 0 .. n - 1, P(k) PROVE P(k + 1)
    <2>1. PICK p \in [0 .. k -> S] : Sums(k, p)
      BY <1>3
    <2> DEFINE r == [i \in 0 .. k + 1 |-> IF i = k + 1 THEN p[k] + q[k + 1] ELSE p[i]]
    <2>2. r \in [0 .. k + 1 -> S]
      BY <1>1
    <2>3. \A i \in 1 .. k + 1 : r[i] = r[i - 1] + q[i]
      BY <1>1, <2>1
    <2>4. r[0] = 0
      BY <1>1, <2>1
    <2> QED BY <2>2, <2>3, <2>4
  <1> HIDE DEF P
  <1>4. {k \in 0 .. n : ~P(k)} = {}
    <2> DEFINE T == {k \in 0 .. n : ~P(k)}
    <2> SUFFICES ASSUME T # {} PROVE FALSE
      OBVIOUS
    <2>1. PICK m \in T : \A x \in T : m <= x
      <3>1. T \subseteq Nat
        OBVIOUS
      <3> QED BY <3>1, LeastNumber
    <2>2. m \in 1 .. n
      BY <1>1, <1>2
    <2>3. P(m - 1)
      BY <1>1, <2>1, <2>2
    <2>4. m - 1 \in 0 .. n - 1 /\ (m - 1) + 1 = m
      BY <1>1, <2>2
    <2>5. P((m - 1) + 1)
      BY <1>3, <2>3, <2>4
    <2> QED BY <2>4, <2>5
  <1>5. P(n)
    BY <1>1, <1>4
  <1> QED BY <1>5 DEF P

LEMMA TotalEmpty == Total(<<>>) = 0
  <1> DEFINE p == [i \in 0 .. 0 |-> 0]
             q == <<>>
  <1>1. q \in Seq(Int) /\ Len(q) = 0 /\ p \in [0 .. Len(q) -> Int] /\ p[0] = 0
    OBVIOUS
  <1>2. \A i \in 1 .. Len(q) : p[i] = p[i - 1] + q[i]
    BY <1>1
  <1>3. Total(q) = p[Len(q)]
    BY <1>1, <1>2, TotalOfPrefixes
  <1> QED BY <1>1, <1>3

LEMMA TotalType ==
    ASSUME NEW S \in {Nat, Int}, NEW q \in Seq(S)
    PROVE  Total(q) \in S
  <1>1. PICK p \in [0 .. Len(q) -> S] :
               p[0] = 0 /\ \A i \in 1 .. Len(q) : p[i] = p[i - 1] + q[i]
    BY PrefixesExist
  <1>2. q \in Seq(Int) /\ p \in [0 .. Len(q) -> Int]
    OBVIOUS
  <1>3. Total(q) = p[Len(q)]
    BY <1>1, <1>2, TotalOfPrefixes
  <1> QED BY <1>3

\* The total of a part and of the rest.
LEMMA TotalSplit ==
    ASSUME NEW q \in Seq(Int), NEW k \in 0 .. Len(q)
    PROVE  Total(q) = Total(SubSeq(q, 1, k)) + Total(SubSeq(q, k + 1, Len(q)))
  <1>1. PICK p \in [0 .. Len(q) -> Int] :
               p[0] = 0 /\ \A i \in 1 .. Len(q) : p[i] = p[i - 1] + q[i]
    BY PrefixesExist
  <1> DEFINE front == SubSeq(q, 1, k)
             rest  == SubSeq(q, k + 1, Len(q))
             pf == [i \in 0 .. k |-> p[i]]
             pr == [i \in 0 .. Len(q) - k |-> p[k + i] - p[k]]
  <1>2. /\ front \in Seq(Int) /\ Len(front) = k /\ \A i \in 1 .. k : front[i] = q[i]
        /\ rest \in Seq(Int) /\ Len(rest) = Len(q) - k
        /\ \A i \in 1 .. Len(q) - k : rest[i] = q[k + i]
    OBVIOUS
  <1>3. Total(q) = p[Len(q)]
    BY <1>1, TotalOfPrefixes
  <1>4. Total(front) = p[k]
    <2>1. pf \in [0 .. Len(front) -> Int] /\ pf[0] = 0
      BY <1>1, <1>2
    <2>2. \A i \in 1 .. Len(front) : pf[i] = pf[i - 1] + front[i]
      BY <1>1, <1>2
    <2>3. Total(front) = pf[Len(front)]
      BY <1>2, <2>1, <2>2, TotalOfPrefixes
    <2> QED BY <1>2, <2>3
  <1>5. Total(rest) = p[Len(q)] - p[k]
    <2> HIDE DEF front, rest, pf, pr
    <2>0. /\ rest \in Seq(Int) /\ Len(rest) = Len(q) - k /\ Len(q) \in Nat /\ k \in 0 .. Len(q)
          /\ \A j \in 0 .. Len(q) : p[j] \in Int
      <3>1. \A j \in 0 .. Len(q) : p[j] \in Int
        BY <1>1
      <3>2. rest \in Seq(Int) /\ Len(rest) = Len(q) - k
        BY <1>2
      <3> QED BY <3>1, <3>2
    <2>1. \A i \in 0 .. Len(rest) : k + i \in 0 .. Len(q) /\ pr[i] = p[k + i] - p[k]
      BY <2>0 DEF pr
    <2>2. pr \in [0 .. Len(rest) -> Int] /\ pr[0] = 0
      <3>1. \A i \in 0 .. Len(rest) : p[k + i] - p[k] \in Int
        BY <2>0, <2>1
      <3>2. pr = [i \in 0 .. Len(rest) |-> p[k + i] - p[k]]
        BY <2>0, Zenon DEF pr
      <3>3. pr[0] = p[k + 0] - p[k] /\ k + 0 = k /\ p[k] \in Int
        BY <2>0, <2>1
      <3> QED BY <3>1, <3>2, <3>3
    <2>3. ASSUME NEW i \in 1 .. Len(rest) PROVE pr[i] = pr[i - 1] + rest[i]
      <3>1. k + i \in 1 .. Len(q) /\ i \in 0 .. Len(rest) /\ i - 1 \in 0 .. Len(rest)
            /\ k + (i - 1) = (k + i) - 1
        BY <2>0
      <3>2. p[k + i] = p[k + (i - 1)] + q[k + i]
        BY <1>1, <3>1
      <3>3. pr[i] = p[k + i] - p[k] /\ pr[i - 1] = p[k + (i - 1)] - p[k]
        BY <2>1, <3>1
      <3>4. p[k + i] \in Int /\ p[k + (i - 1)] \in Int /\ p[k] \in Int
        <4>1. k + i \in 0 .. Len(q) /\ k + (i - 1) \in 0 .. Len(q)
          BY <2>1, <3>1
        <4> QED BY <2>0, <4>1
      <3>5. q[k + i] \in Int
        BY <3>1
      <3>6. rest[i] = q[k + i]
        BY <1>2, <2>0
      <3> DEFINE here == p[k + i]
                 before == p[k + (i - 1)]
                 first == p[k]
                 item == q[k + i]
      <3>7. /\ here = before + item /\ pr[i] = here - first /\ pr[i - 1] = before - first
            /\ rest[i] = item /\ {here, before, first, item} \subseteq Int
        BY <3>2, <3>3, <3>4, <3>5, <3>6
      <3> HIDE DEF here, before, first, item
      <3> QED BY <3>7
    <2>4. Total(rest) = pr[Len(rest)]
      BY <2>0, <2>2, <2>3, TotalOfPrefixes
    <2>5. Len(rest) \in 0 .. Len(rest) /\ k + Len(rest) = Len(q)
      BY <2>0
    <2> QED BY <2>1, <2>4, <2>5
  <1> QED BY <1>3, <1>4, <1>5

LEMMA OneElement ==
    ASSUME NEW t \in Seq(Int), Len(t) = 1, NEW x, t[1] = x
    PROVE  t = <<x>>
  <1>1. <<x>> \in Seq(Int) /\ Len(<<x>>) = 1 /\ <<x>>[1] = x
    OBVIOUS
  <1> QED BY <1>1, SeqEqual

LEMMA TotalOfOne ==
    ASSUME NEW x \in Int
    PROVE  Total(<<x>>) = x
  <1> DEFINE p == [i \in 0 .. 1 |-> IF i = 0 THEN 0 ELSE x]
             q == <<x>>
  <1>1. q \in Seq(Int) /\ Len(q) = 1 /\ q[1] = x /\ p \in [0 .. 1 -> Int]
    OBVIOUS
  <1>2. p[0] = 0 /\ \A i \in 1 .. Len(q) : p[i] = p[i - 1] + q[i]
    BY <1>1
  <1>3. Total(q) = p[Len(q)]
    BY <1>1, <1>2, TotalOfPrefixes
  <1> QED BY <1>1, <1>3

LEMMA TotalAppend ==
    ASSUME NEW q \in Seq(Int), NEW x \in Int
    PROVE  Total(Append(q, x)) = Total(q) + x
  <1> DEFINE r == Append(q, x)
  <1>1. r \in Seq(Int) /\ Len(r) = Len(q) + 1 /\ Len(q) \in 0 .. Len(r)
    OBVIOUS
  <1>2. SubSeq(r, 1, Len(q)) = q
    OBVIOUS
  <1>3. SubSeq(r, Len(q) + 1, Len(r)) = <<x>>
    <2> DEFINE t == SubSeq(r, Len(q) + 1, Len(r))
    <2>1. t \in Seq(Int) /\ Len(t) = 1 /\ t[1] = x
      BY <1>1
    <2> HIDE DEF t
    <2>2. t = <<x>>
      BY <2>1, OneElement
    <2> QED BY <2>2 DEF t
  <1> HIDE DEF r
  <1>4. Total(r) = Total(SubSeq(r, 1, Len(q))) + Total(SubSeq(r, Len(q) + 1, Len(r)))
    BY <1>1, TotalSplit
  <1>5. Total(<<x>>) = x
    BY TotalOfOne
  <1>6. Total(r) = Total(q) + Total(<<x>>)
    BY <1>2, <1>3, <1>4, Zenon
  <1> QED BY <1>5, <1>6 DEF r

LEMMA TotalTail ==
    ASSUME NEW q \in Seq(Int), q # <<>>
    PROVE  Total(q) = Head(q) + Total(Tail(q))
  <1>1. Len(q) >= 1 /\ Head(q) = q[1] /\ q[1] \in Int
    OBVIOUS
  <1>2. SubSeq(q, 1, 1) = <<q[1]>>
    <2> DEFINE t == SubSeq(q, 1, 1)
    <2>1. t \in Seq(Int) /\ Len(t) = 1 /\ t[1] = q[1]
      BY <1>1
    <2> HIDE DEF t
    <2>2. t = <<q[1]>>
      BY <2>1, OneElement
    <2> QED BY <2>2 DEF t
  <1>3. SubSeq(q, 2, Len(q)) = Tail(q)
    BY TailIsSubSeq
  <1>4. Total(q) = Total(SubSeq(q, 1, 1)) + Total(SubSeq(q, 2, Len(q)))
    <2>1. 1 \in 0 .. Len(q) /\ 1 + 1 = 2
      BY <1>1
    <2> QED BY <2>1, TotalSplit
  <1>5. Total(<<q[1]>>) = q[1]
    BY <1>1, TotalOfOne
  <1> QED BY <1>1, <1>2, <1>3, <1>4, <1>5
================================================================================

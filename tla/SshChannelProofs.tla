-------------------------- MODULE SshChannelProofs --------------------------
(***************************************************************************)
(* Proofs about SshChannel: what goes out keeps to the protocol, the       *)
(* windows of both sides agree, no byte is lost, and a read that returns   *)
(* none tells an end.                                                      *)
(*                                                                         *)
(* None of the properties is inductive.  That no data, end of file or      *)
(* close is ever in the way of another packet needs to know which call a   *)
(* half-sent packet belongs to and where that call can be; that data after *)
(* a close is never sent, in which calls a close is under way; that the    *)
(* other end's window is not overrun, that what is to be sent still fits   *)
(* into the window after the adjustments that are under way; that data is  *)
(* cut only after an adjustment could not be sent, since the window is     *)
(* otherwise never smaller than what is on its way; and that a read tells  *)
(* only an end, what jump1 stands for (ReadInv) and that nothing follows   *)
(* an end of file or a close (EndInv).                                     *)
(***************************************************************************)
EXTENDS SshChannel, WellFoundedInduction, TLAPS

-----------------------------------------------------------------------------
(***************************************************************************)
(* Sums over sequences.                                                    *)
(***************************************************************************)
\* Induction over the naturals, for a set.
LEMMA Induction ==
    ASSUME NEW S, 0 \in S, \A n \in Nat : n \in S => n + 1 \in S
    PROVE  Nat \subseteq S
<1> SUFFICES ASSUME NEW k \in Nat, k \notin S PROVE FALSE
  OBVIOUS
<1> DEFINE T == {n \in Nat : n \notin S}
<1>1. T \subseteq Nat /\ T # {}
  OBVIOUS
<1>2. PICK x \in T : \A y \in T : ~(<<y, x>> \in OpToRel(<, Nat))
  BY <1>1, NatLessThanWellFounded, WFMin, ZenonT(30)
<1>3. OpToRel(<, Nat) = {ss \in Nat \X Nat : ss[1] < ss[2]}
  BY DEF OpToRel
<1>4. \A y \in T : ~(<<y, x>> \in {ss \in Nat \X Nat : ss[1] < ss[2]})
  BY <1>2, <1>3, ZenonT(30)
<1>5. x # 0 /\ x - 1 \in Nat /\ x - 1 < x /\ (x - 1) + 1 = x
  OBVIOUS
<1>6. x - 1 \in T
  BY <1>5
<1> QED
  BY <1>4, <1>5, <1>6

\* The same over an initial part of the naturals.
LEMMA InductionUpTo ==
    ASSUME NEW S, NEW k \in Nat, 0 \in S, \A n \in 0..(k - 1) : n \in S => n + 1 \in S
    PROVE  0..k \subseteq S
<1> DEFINE T == {n \in Nat : n <= k => n \in S}
<1>1. 0 \in T
  OBVIOUS
<1>2. \A n \in Nat : n \in T => n + 1 \in T
  OBVIOUS
<1> HIDE DEF T
<1>3. Nat \subseteq T
  BY <1>1, <1>2, Induction
<1> QED
  BY <1>3 DEF T

-----------------------------------------------------------------------------
(***************************************************************************)
(* Sums.                                                                   *)
(***************************************************************************)
\* f is what Sums is meant to be for the first n numbers of w.
Adds(f, w, n) ==
    /\ f \in [0..n -> Int]
    /\ f[0] = 0
    /\ \A i \in 1..n : f[i] = f[i - 1] + w[i]

\* There is such a function.
LEMMA SumsExist ==
    ASSUME NEW w \in Seq(Int)
    PROVE  \E f : Adds(f, w, Len(w))
<1> DEFINE S == {n \in Nat : n <= Len(w) => \E f : Adds(f, w, n)}
<1>1. 0 \in S
  <2>1. Adds([i \in 0..0 |-> 0], w, 0)
    BY DEF Adds
  <2> QED
    BY <2>1
<1>2. ASSUME NEW n \in Nat, n \in S PROVE n + 1 \in S
  <2> SUFFICES ASSUME n + 1 <= Len(w) PROVE \E f : Adds(f, w, n + 1)
    OBVIOUS
  <2>1. PICK f : Adds(f, w, n)
    BY <1>2
  <2>2. w[n + 1] \in Int /\ f[n] \in Int
    BY <2>1 DEF Adds
  <2> DEFINE g == [i \in 0..(n + 1) |-> IF i <= n THEN f[i] ELSE f[n] + w[n + 1]]
  <2>3. g \in [0..(n + 1) -> Int] /\ g[0] = 0
    BY <2>1, <2>2 DEF Adds
  <2>4. ASSUME NEW i \in 1..(n + 1) PROVE g[i] = g[i - 1] + w[i]
    <3>1. CASE i <= n
      BY <2>1, <3>1 DEF Adds
    <3>2. CASE i = n + 1
      BY <2>1, <3>2 DEF Adds
    <3> QED
      BY <3>1, <3>2
  <2> HIDE DEF g
  <2> QED
    BY <2>3, <2>4 DEF Adds
<1> HIDE DEF S
<1>3. Len(w) \in S
  BY <1>1, <1>2, Induction
<1> QED
  BY <1>3 DEF S

\* There is only one.
LEMMA SumsUnique ==
    ASSUME NEW w, NEW n \in Nat, NEW f, NEW g, Adds(f, w, n), Adds(g, w, n)
    PROVE  f[n] = g[n]
<1> DEFINE S == {i \in 0..n : f[i] = g[i]}
<1>1. 0 \in S
  BY DEF Adds
<1>2. ASSUME NEW i \in 0..(n - 1), i \in S PROVE i + 1 \in S
  BY <1>2 DEF Adds
<1> HIDE DEF S
<1>3. 0..n \subseteq S
  BY <1>1, <1>2, InductionUpTo
<1> QED
  BY <1>3 DEF S

\* Sums adds up every initial part of a sequence.
LEMMA SumsAdd ==
    ASSUME NEW w \in Seq(Int)
    PROVE  Adds(Sums(w), w, Len(w))
<1> DEFINE Is(f) == f = [i \in 0..Len(w) |-> IF i = 0 THEN 0 ELSE f[i - 1] + w[i]]
<1>1. PICK f : Adds(f, w, Len(w))
  BY SumsExist
<1>2. Is(f)
  BY <1>1 DEF Adds
<1>3. Is(Sums(w))
  BY <1>2, Zenon DEF Sums
<1> DEFINE S == {i \in 0..Len(w) : Sums(w)[i] \in Int}
<1>4. 0 \in S
  BY <1>3
<1>5. ASSUME NEW i \in 0..(Len(w) - 1), i \in S PROVE i + 1 \in S
  <2>1. Sums(w)[i + 1] = Sums(w)[i] + w[i + 1]
    BY <1>3
  <2>2. w[i + 1] \in Int /\ Sums(w)[i] \in Int
    BY <1>5
  <2> QED
    BY <2>1, <2>2
<1> HIDE DEF S
<1>6. 0..Len(w) \subseteq S
  <2>1. Len(w) \in Nat
    OBVIOUS
  <2> QED
    BY <1>4, <1>5, <2>1, InductionUpTo
<1>7. \A i \in 0..Len(w) : Sums(w)[i] \in Int
  BY <1>6 DEF S
<1>8. Sums(w) \in [0..Len(w) -> Int]
  <2>1. Sums(w) = [i \in 0..Len(w) |-> Sums(w)[i]]
    BY <1>3
  <2> QED
    BY <1>7, <2>1
<1>9. \A i \in 1..Len(w) : Sums(w)[i] = Sums(w)[i - 1] + w[i]
  <2> DEFINE s == Sums(w)
  <2>1. s = [i \in 0..Len(w) |-> IF i = 0 THEN 0 ELSE s[i - 1] + w[i]]
    BY <1>3
  <2>2. Len(w) \in Nat
    OBVIOUS
  <2> HIDE DEF s
  <2>3. \A i \in 1..Len(w) : s[i] = s[i - 1] + w[i]
    BY <2>1, <2>2
  <2> QED
    BY <2>3 DEF s
<1>10. Sums(w)[0] = 0
  BY <1>3
<1> QED
  BY <1>8, <1>9, <1>10 DEF Adds

\* Whatever adds up the numbers of w ends with their total.
LEMMA TotalIs ==
    ASSUME NEW w \in Seq(Int), NEW f, Adds(f, w, Len(w))
    PROVE  Total(w) = f[Len(w)]
  BY SumsAdd, SumsUnique DEF Total

\* A sum of integers is an integer.
LEMMA TotalInt ==
    ASSUME NEW w \in Seq(Int)
    PROVE  Total(w) \in Int
  BY SumsAdd DEF Total, Adds

\* An empty sequence sums to nothing.
LEMMA TotalEmpty == Total(<<>>) = 0
<1>1. <<>> \in Seq(Int) /\ Len(<<>>) = 0
  OBVIOUS
<1>2. Adds(Sums(<<>>), <<>>, Len(<<>>))
  BY <1>1, SumsAdd, Zenon
<1> QED
  BY <1>1, <1>2 DEF Total, Adds

\* Appending adds to the sum.
LEMMA TotalAppend ==
    ASSUME NEW w \in Seq(Int), NEW x \in Int
    PROVE  Total(Append(w, x)) = Total(w) + x
<1> DEFINE v == Append(w, x)
           n == Len(w)
           f == Sums(v)
<1>1. v \in Seq(Int) /\ Len(v) = n + 1 /\ v[n + 1] = x /\ \A i \in 1..n : v[i] = w[i]
  OBVIOUS
<1> HIDE DEF v
<1>2. Adds(f, v, n + 1)
  BY <1>1, SumsAdd
<1> DEFINE g == [i \in 0..n |-> f[i]]
<1>3. n \in Nat
  OBVIOUS
<1> HIDE DEF f, n
<1>4. Adds(g, w, n)
  <2>1. /\ g \in [0..n -> Int]
        /\ \A i \in 0..n : g[i] = f[i]
        /\ f[0] = 0 /\ \A i \in 1..(n + 1) : f[i] = f[i - 1] + v[i]
    BY <1>2, <1>3 DEF Adds
  <2> HIDE DEF g
  <2>2. ASSUME NEW i \in 1..n PROVE g[i] = g[i - 1] + w[i]
    <3>1. i \in 0..n /\ i - 1 \in 0..n /\ i \in 1..(n + 1)
      BY <1>3
    <3>2. g[i] = f[i] /\ g[i - 1] = f[i - 1] /\ f[i] = f[i - 1] + v[i] /\ v[i] = w[i]
      BY <1>1, <2>1, <3>1, Zenon
    <3> QED
      BY <3>2
  <2> QED
    BY <1>3, <2>1, <2>2 DEF Adds
<1>5. Total(w) = f[n]
  <2>1. g[n] = f[n]
    BY <1>3
  <2> HIDE DEF g
  <2>2. Adds(g, w, Len(w))
    BY <1>4 DEF n
  <2> QED
    BY <2>1, <2>2, TotalIs DEF n
<1>6. f[n + 1] = f[n] + x
  BY <1>1, <1>2, <1>3 DEF Adds
<1> QED
  BY <1>1, <1>5, <1>6 DEF Total, f, v

\* The sum without the first element.
LEMMA TotalTail ==
    ASSUME NEW w \in Seq(Int), w # <<>>
    PROVE  Total(w) = w[1] + Total(Tail(w))
<1> DEFINE v == Tail(w)
           n == Len(v)
           f == Sums(w)
<1>1. /\ v \in Seq(Int) /\ Len(w) = n + 1 /\ n \in Nat /\ w[1] \in Int
      /\ \A i \in 1..n : v[i] = w[i + 1]
  OBVIOUS
<1> HIDE DEF v
<1>2. Adds(f, w, n + 1)
  BY <1>1, SumsAdd
<1> HIDE DEF f, n
<1> DEFINE g == [i \in 0..n |-> f[i + 1] - w[1]]
<1>3. f[1] = w[1]
  BY <1>1, <1>2 DEF Adds
<1>4. g \in [0..n -> Int] /\ g[0] = 0
  BY <1>1, <1>2, <1>3 DEF Adds
<1>5. ASSUME NEW i \in 1..n PROVE g[i] = g[i - 1] + v[i]
  <2>1. f[i + 1] = f[i] + w[i + 1]
    BY <1>1, <1>2 DEF Adds
  <2>2. f[i] \in Int /\ w[i + 1] \in Int
    <3>1. i \in 0..(n + 1) /\ i + 1 \in 1..Len(w)
      BY <1>1
    <3> QED
      BY <1>2, <3>1 DEF Adds
  <2>3. g[i] = f[i + 1] - w[1] /\ g[i - 1] = f[i] - w[1] /\ v[i] = w[i + 1]
    BY <1>1
  <2> HIDE DEF g
  <2> QED
    BY <1>1, <2>1, <2>2, <2>3
<1>6. Adds(g, v, n)
  BY <1>4, <1>5 DEF Adds
<1>7. Total(v) = f[n + 1] - w[1]
  <2>1. g[n] = f[n + 1] - w[1]
    BY <1>1
  <2> HIDE DEF g
  <2>2. Adds(g, v, Len(v))
    BY <1>6 DEF n
  <2> QED
    BY <1>1, <2>1, <2>2, TotalIs DEF n
<1>8. f[n + 1] \in Int
  BY <1>1, <1>2 DEF Adds
<1> QED
  BY <1>1, <1>7, <1>8 DEF Total, f, v

\* Two sequences of numbers that are added one by one.
LEMMA TotalPlus ==
    ASSUME NEW u \in Seq(Int), NEW v \in Seq(Int), NEW w \in Seq(Int),
           Len(u) = Len(w), Len(v) = Len(w), \A i \in 1..Len(w) : w[i] = u[i] + v[i]
    PROVE  Total(w) = Total(u) + Total(v)
<1> DEFINE n == Len(w)
           f == Sums(u)
           g == Sums(v)
           h == [i \in 0..n |-> f[i] + g[i]]
<1>1. Adds(f, u, n) /\ Adds(g, v, n) /\ n \in Nat
  BY SumsAdd
<1> HIDE DEF f, g, n
<1>2. h \in [0..n -> Int] /\ h[0] = 0
  BY <1>1 DEF Adds
<1>3. ASSUME NEW i \in 1..n PROVE h[i] = h[i - 1] + w[i]
  <2>1. f[i] = f[i - 1] + u[i] /\ g[i] = g[i - 1] + v[i]
    BY <1>1 DEF Adds
  <2>2. f[i - 1] \in Int /\ g[i - 1] \in Int
    <3>1. i - 1 \in 0..n
      BY <1>1
    <3> QED
      BY <1>1, <3>1 DEF Adds
  <2>3. u[i] \in Int /\ v[i] \in Int /\ w[i] = u[i] + v[i]
    BY DEF n
  <2>4. h[i] = f[i] + g[i] /\ h[i - 1] = f[i - 1] + g[i - 1]
    BY <1>1
  <2> HIDE DEF h
  <2>5. \A a, b, c, d \in Int : (a + c) + (b + d) = (a + b) + (c + d)
    OBVIOUS
  <2>6. h[i] = (f[i - 1] + u[i]) + (g[i - 1] + v[i])
    BY <2>1, <2>4
  <2>7. h[i] = (f[i - 1] + g[i - 1]) + (u[i] + v[i])
    BY <2>2, <2>3, <2>5, <2>6, Zenon
  <2> QED
    BY <2>3, <2>4, <2>7, Zenon
<1>4. Adds(h, w, n)
  BY <1>2, <1>3 DEF Adds
<1>5. Total(w) = h[n]
  BY <1>4, TotalIs DEF n
<1> QED
  BY <1>1, <1>5 DEF Total, f, g, n

\* A sum of naturals is a natural.
LEMMA TotalNat ==
    ASSUME NEW w \in Seq(Nat)
    PROVE  Total(w) \in Nat
<1> DEFINE n == Len(w)
           f == Sums(w)
           S == {i \in 0..n : f[i] \in Nat}
<1>1. Adds(f, w, n) /\ n \in Nat
  BY SumsAdd
<1> HIDE DEF f, n
<1>2. 0 \in S
  BY <1>1 DEF Adds
<1>3. ASSUME NEW i \in 0..(n - 1), i \in S PROVE i + 1 \in S
  <2>1. f[i + 1] = f[i] + w[i + 1] /\ w[i + 1] \in Nat
    BY <1>1 DEF Adds, n
  <2> QED
    BY <1>1, <1>3, <2>1
<1> HIDE DEF S
<1>4. 0..n \subseteq S
  BY <1>1, <1>2, <1>3, InductionUpTo
<1> QED
  BY <1>1, <1>4 DEF S, Total, f, n
-----------------------------------------------------------------------------
(***************************************************************************)
(* Parts of a sequence.                                                    *)
(***************************************************************************)
\* f is what the recursion in Only is meant to be for the first n elements of q.
Picks(f, q, set, T, n) ==
    /\ f \in [0..n -> Seq(T)]
    /\ f[0] = <<>>
    /\ \A i \in 1..n : f[i] = IF i \in set THEN Append(f[i - 1], q[i]) ELSE f[i - 1]

\* The chosen positions of a sequence can be counted off in order.
LEMMA PicksExist ==
    ASSUME NEW T, NEW q, NEW set, NEW m \in Nat, \A i \in 1..m : i \in set => q[i] \in T
    PROVE  \E f : Picks(f, q, set, T, m)
<1> DEFINE S == {n \in Nat : n <= m => \E f : Picks(f, q, set, T, n)}
<1>1. 0 \in S
  <2>1. Picks([i \in 0..0 |-> <<>>], q, set, T, 0)
    BY DEF Picks
  <2> QED
    BY <2>1
<1>2. ASSUME NEW n \in Nat, n \in S PROVE n + 1 \in S
  <2> SUFFICES ASSUME n + 1 <= m PROVE \E f : Picks(f, q, set, T, n + 1)
    OBVIOUS
  <2>1. PICK f : Picks(f, q, set, T, n)
    BY <1>2
  <2>2. f[n] \in Seq(T) /\ (n + 1 \in set => q[n + 1] \in T)
    BY <2>1 DEF Picks
  <2> DEFINE x == IF n + 1 \in set THEN Append(f[n], q[n + 1]) ELSE f[n]
             g == [i \in 0..(n + 1) |-> IF i <= n THEN f[i] ELSE x]
  <2>3. x \in Seq(T)
    BY <2>2
  <2> HIDE DEF x
  <2>4. g \in [0..(n + 1) -> Seq(T)] /\ g[0] = <<>>
    BY <2>1, <2>3 DEF Picks
  <2>5. /\ \A i \in 0..n : g[i] = f[i]
        /\ g[n + 1] = x
    OBVIOUS
  <2> HIDE DEF g
  <2>6. ASSUME NEW i \in 1..(n + 1)
        PROVE  g[i] = IF i \in set THEN Append(g[i - 1], q[i]) ELSE g[i - 1]
    <3>1. CASE i <= n
      <4>1. i \in 0..n /\ i - 1 \in 0..n /\ i \in 1..n
        BY <3>1
      <4> QED
        BY <2>1, <2>5, <4>1, Zenon DEF Picks
    <3>2. CASE i = n + 1
      <4>1. i - 1 = n /\ n \in 0..n
        BY <3>2
      <4> QED
        BY <2>5, <3>2, <4>1, Zenon DEF x
    <3> QED
      BY <3>1, <3>2
  <2> QED
    BY <2>4, <2>6 DEF Picks
<1> HIDE DEF S
<1>3. m \in S
  BY <1>1, <1>2, Induction
<1> QED
  BY <1>3 DEF S

\* The recursion does what it is meant to do.
LEMMA OnlyPicks ==
    ASSUME NEW T, NEW q, NEW set, Len(q) \in Nat, \A i \in 1..Len(q) : i \in set => q[i] \in T
    PROVE  \E f : Picks(f, q, set, T, Len(q)) /\ Only(q, set) = f[Len(q)]
<1> DEFINE m == Len(q)
           Step(f, i) == IF i \in set THEN Append(f[i - 1], q[i]) ELSE f[i - 1]
           Is(f) == f = [i \in 0..m |-> IF i = 0 THEN <<>> ELSE Step(f, i)]
           g == CHOOSE f : Is(f)
<1>1. PICK f : Picks(f, q, set, T, m)
  BY PicksExist
<1>2. Is(f)
  <2>1. m \in Nat
    OBVIOUS
  <2> HIDE DEF m
  <2>2. \A i \in 0..m : f[i] = IF i = 0 THEN <<>> ELSE Step(f, i)
    <3>1. f[0] = <<>> /\ \A i \in 1..m : f[i] = Step(f, i)
      BY <1>1, Zenon DEF Picks
    <3>2. \A i \in 0..m : i # 0 => i \in 1..m
      BY <2>1
    <3> HIDE DEF Step
    <3> QED
      BY <3>1, <3>2, Zenon
  <2>3. f = [i \in 0..m |-> f[i]]
    BY <1>1 DEF Picks
  <2> HIDE DEF Step
  <2> QED
    BY <2>2, <2>3, Zenon
<1>3. Is(g)
  BY <1>2, Zenon
<1>4. Only(q, set) = g[m]
  BY Zenon DEF Only
<1>5. m \in Nat /\ \A i \in 1..m : i \in set => q[i] \in T
  OBVIOUS
<1> HIDE DEF g, m
<1>6. g[0] = <<>> /\ g = [i \in 0..m |-> g[i]] /\ \A i \in 1..m : g[i] = Step(g, i)
  <2>1. \A i \in 0..m : g[i] = IF i = 0 THEN <<>> ELSE Step(g, i)
    BY <1>3, Zenon
  <2>2. g = [i \in 0..m |-> g[i]]
    <3> HIDE DEF Step
    <3> QED
      BY <1>3
  <2>3. 0 \in 0..m /\ \A i \in 1..m : i \in 0..m /\ i # 0
    BY <1>5
  <2> HIDE DEF Step
  <2> QED
    BY <2>1, <2>2, <2>3, Zenon
<1> DEFINE S == {i \in 0..m : g[i] \in Seq(T)}
<1>7. 0 \in S
  <2>1. 0 \in 0..m /\ <<>> \in Seq(T)
    BY <1>5
  <2> HIDE DEF Step
  <2> QED
    BY <1>6, <2>1, Zenon
<1>8. ASSUME NEW i \in 0..(m - 1), i \in S PROVE i + 1 \in S
  <2>1. i + 1 \in 1..m /\ (i + 1) - 1 = i /\ i + 1 \in 0..m
    BY <1>5
  <2>2. g[i + 1] = IF i + 1 \in set THEN Append(g[i], q[i + 1]) ELSE g[i]
    BY <1>6, <2>1
  <2>3. g[i] \in Seq(T) /\ (i + 1 \in set => q[i + 1] \in T)
    BY <1>5, <1>8, <2>1
  <2>4. g[i + 1] \in Seq(T)
    BY <2>2, <2>3
  <2> QED
    BY <2>1, <2>4
<1> HIDE DEF S
<1>10. 0..m \subseteq S
  BY <1>5, <1>7, <1>8, InductionUpTo
<1>12. g \in [0..m -> Seq(T)]
  BY <1>6, <1>10 DEF S
<1>13. Picks(g, q, set, T, m)
  BY <1>6, <1>12 DEF Picks
<1> QED
  BY <1>4, <1>13 DEF m

\* What the elements of q weigh.
Weigh(W, q) == [i \in 1..Len(q) |-> W[q[i]]]
\* The same, where those outside of set weigh nothing.
WeighIn(W, q, set) == [i \in 1..Len(q) |-> IF i \in set THEN W[q[i]] ELSE 0]

\* The elements of q in set are in T.
Within(q, set, T) == Len(q) \in Nat /\ \A i \in 1..Len(q) : i \in set => q[i] \in T

\* What was picked weighs as much as it did in its place.
LEMMA OnlyWeighs ==
    ASSUME NEW T, NEW q, NEW set, NEW W \in [T -> Int], Within(q, set, T)
    PROVE  /\ Only(q, set) \in Seq(T)
           /\ Total(Weigh(W, Only(q, set))) = Total(WeighIn(W, q, set))
<1> DEFINE m == Len(q)
           v == [i \in 1..m |-> IF i \in set THEN W[q[i]] ELSE 0]
<1>1. PICK f : Picks(f, q, set, T, m) /\ Only(q, set) = f[m]
  BY OnlyPicks DEF Within
<1>2. v \in Seq(Int) /\ Len(v) = m /\ m \in Nat
  BY DEF Within
<1>3. Adds(Sums(v), v, m)
  BY <1>2, SumsAdd
<1>4. \A i \in 1..m : i \in set => q[i] \in T
  BY DEF Within
<1>5. \A i \in 1..m : v[i] = IF i \in set THEN W[q[i]] ELSE 0
  OBVIOUS
<1> DEFINE S == {i \in 0..m : Total(Weigh(W, f[i])) = Sums(v)[i]}
<1> HIDE DEF v, m
<1>6. 0 \in S
  <2>1. Weigh(W, <<>>) = <<>>
    BY DEF Weigh
  <2> QED
    BY <1>1, <1>2, <1>3, <2>1, TotalEmpty DEF Picks, Adds
<1>7. ASSUME NEW i \in 0..(m - 1), i \in S PROVE i + 1 \in S
  <2>1. i + 1 \in 1..m /\ (i + 1) - 1 = i /\ i + 1 \in 0..m /\ i \in 0..m
    BY <1>2
  <2>2. f[i + 1] = IF i + 1 \in set THEN Append(f[i], q[i + 1]) ELSE f[i]
    BY <1>1, <2>1 DEF Picks
  <2>3. Sums(v)[i + 1] = Sums(v)[i] + v[i + 1] /\ Sums(v)[i] \in Int
    BY <1>3, <2>1 DEF Adds
  <2>4. f[i] \in Seq(T)
    BY <1>1, <2>1 DEF Picks
  <2>5. Total(Weigh(W, f[i])) = Sums(v)[i]
    BY <1>7
  <2>6. CASE i + 1 \in set
    <3>1. q[i + 1] \in T /\ W[q[i + 1]] \in Int /\ v[i + 1] = W[q[i + 1]]
      BY <1>4, <1>5, <2>1, <2>6
    <3>2. Weigh(W, f[i]) \in Seq(Int)
      BY <2>4 DEF Weigh
    <3>3. Weigh(W, Append(f[i], q[i + 1])) = Append(Weigh(W, f[i]), W[q[i + 1]])
      BY <2>4, <3>1 DEF Weigh
    <3>4. Total(Append(Weigh(W, f[i]), W[q[i + 1]])) = Total(Weigh(W, f[i])) + W[q[i + 1]]
      BY <3>1, <3>2, TotalAppend
    <3> QED
      BY <2>1, <2>2, <2>3, <2>5, <2>6, <3>1, <3>3, <3>4
  <2>7. CASE i + 1 \notin set
    <3>1. v[i + 1] = 0
      BY <1>5, <2>1, <2>7
    <3> QED
      BY <2>1, <2>2, <2>3, <2>5, <2>7, <3>1
  <2> QED
    BY <2>6, <2>7
<1> HIDE DEF S
<1>8. 0..m \subseteq S
  BY <1>2, <1>6, <1>7, InductionUpTo
<1>9. Total(Weigh(W, f[m])) = Total(v)
  BY <1>2, <1>8 DEF S, Total
<1>10. f[m] \in Seq(T)
  BY <1>1, <1>2 DEF Picks
<1> QED
  BY <1>1, <1>9, <1>10, Zenon DEF v, m, WeighIn

-----------------------------------------------------------------------------

(***************************************************************************)
(* The invariant.                                                          *)
(***************************************************************************)
Channel ==
    [live : BOOLEAN, lwin : Nat, leof : BOOLEAN, lclose : BOOLEAN,
     rwin : Nat, reof : BOOLEAN, rclose : BOOLEAN, mode : Modes,
     queue : Nat, adjusting : BOOLEAN, amount : Nat, slipped : Int, stalled : BOOLEAN,
     jump1 : BOOLEAN,
     writing : {"idle", "allocated", "created"}, bufwrote : Int, bufwrite : Int,
     flushing : BOOLEAN, refund : Int, closing : {"idle", "created", "sent"}]

Counts == [Streams -> Int]

Peer ==
    [window : Int, grant : Nat, sent : Counts, got : Int, eof : BOOLEAN, close : BOOLEAN,
     eofs : Nat, closes : Nat, refused : SUBSET PacketKinds]

Account == [read : Counts, dropped : Counts, lost : [Streams -> Nat], ignored : Nat, wrote : Int]

Piece == [c : Chans, s : Streams, size : Nat, len : Nat \ {0}]

Message ==
    {m \in [kind : {"data", "eof", "close", "adjust", "request", "disconnect"},
            c : Chans, s : Streams, n : Nat] : m.kind = "data" => m.n > 0}

\* A packet that waits for its answer, and one that is half sent.
Answers == {m \in Message : m.kind \in {"data", "request"}}
Pendings == {NoPacket} \cup (PacketKinds \X Chans)

Positions ==
    {"idle", "enter", "select", "EAGAIN", "zero", "adjust", "drain", "split", "send",
     "loop", "await", "closed", "closedFail", "cleanup"}

Execution ==
    [op : CallNames \cup {"none"}, c : Chans \cup {0}, arg : {o[2] : o \in Ops} \cup {<<0, 0>>},
     at : Positions, n : Counts]

Types ==
    /\ ch \in [Chans -> Channel]
    /\ peer \in [Chans -> Peer]
    /\ app \in [Chans -> Account]
    /\ brigade \in Seq(Piece)
    /\ inbound \in Seq(Message)
    /\ net \in {"up", "disconnected", "broken"}
    /\ call \in Execution
    /\ add \in Answers \cup {NoAnswer}
    /\ pend \in Pendings

\* The bytes of data on stream s, and the window, that a packet brings to channel c.
DataOf(p, c, s) == IF p.kind = "data" /\ p.c = c /\ p.s = s THEN p.n ELSE 0
GrantOf(p, c) == IF p.kind = "adjust" /\ p.c = c THEN p.n ELSE 0

Flying(q, c, s) == Total([i \in 1..Len(q) |-> DataOf(q[i], c, s)])
Granted(q, c) == Total([i \in 1..Len(q) |-> GrantOf(q[i], c)])

\* What a channel in state r has left to send fits into the window of its peer p, even
\* before the adjustments g that are under way.
LocalOK(r, p, g) ==
    /\ r.lwin + g <= p.window
    /\ r.writing = "created" => r.bufwrite <= r.lwin

\* What the peer p may still send and the data f that is under way are the window of the
\* channel r, but for what slipped and was ignored; unless an adjustment of the window
\* could not be sent, nothing slipped and nothing is lost; and only an adjustment or a
\* reply that was half sent has been in the way of another packet.
RemoteOK(r, p, a, f, state) ==
    /\ r.live => r.rwin + r.slipped = p.grant + f + a.ignored
    /\ r.adjusting \/ r.slipped # 0 \/ a.lost # Zero => r.stalled
    /\ state = "up" => p.refused \subseteq {"adjust", "failure"}

\* Whether a close was sent.
CloseOK(r, p) ==
    /\ p.closes <= 1
    /\ p.closes = 1 => r.lclose \/ r.closing = "sent"
    /\ r.closing = "created" => ~r.lclose
    /\ r.writing = "created" => ~r.lclose

\* What is under way on channel c, in state r, belongs to the call k.
HeldBy(c, r, k) ==
    /\ r.writing = "created" => k.op = "write" /\ k.c = c /\ k.at \in {"send", "select", "enter"}
    /\ r.live /\ r.closing = "sent" /\ ~r.lclose => k.op \in {"close", "free"} /\ k.c = c

\* Where a call can be, with its channel in state r.
PlaceOK(k, r) ==
    /\ r.live
    /\ \E o \in Ops : k.op = o[1] /\ k.arg = o[2]
    /\ k.at # "idle"
    /\ k.op = "read" => k.at \in {"enter", "select", "EAGAIN", "zero", "adjust"}
    /\ k.op = "read" => k.n = Zero \/ (k.at = "adjust" /\ k.n \in [Streams -> Nat])
    /\ k.op = "write" => k.at \in {"enter", "select", "drain", "split", "send"}
    /\ k.op = "write" /\ k.at \in {"drain", "split", "send"} => ~r.lclose
    /\ k.op = "write" /\ k.at = "send" => r.writing = "created"
    /\ k.op \in {"close", "free"} =>
         /\ k.at = "send" => ~r.lclose /\ r.closing # "sent"
         /\ k.at \in {"await", "closed", "closedFail"} => r.closing = "sent"

\* Nothing is half sent, or an adjustment or a reply to the peer.
Loose(sending) == sending = NoPacket \/ sending[1] \in {"adjust", "failure"}

\* Any other packet that is half sent belongs to the call k, which goes on with it before
\* it reads or sends anything else.
PendOK(sending, k, r) ==
    \/ Loose(sending)
    \/ /\ sending = <<"data", k.c>> /\ k.op = "write"
       /\ k.at \in {"select", "enter", "send"} /\ r.writing = "created"
    \/ sending = <<"eof", k.c>> /\ k.op = "eof" /\ k.at \in {"select", "enter"}
    \/ /\ sending = <<"close", k.c>> /\ k.op \in {"close", "free"}
       /\ k.at \in {"select", "enter", "send"} /\ r.closing = "created"

CallInv ==
    /\ call # Idle => call.c \in Chans /\ PlaceOK(call, ch[call.c])
    /\ net = "up" => IF call = Idle THEN Loose(pend) ELSE PendOK(pend, call, ch[call.c])

ChannelInv ==
    \A c \in Chans :
        /\ LocalOK(ch[c], peer[c], Granted(inbound, c))
        /\ RemoteOK(ch[c], peer[c], app[c], Flying(inbound, c, 0) + Flying(inbound, c, 1), net)
        /\ CloseOK(ch[c], peer[c])
        /\ HeldBy(c, ch[c], call)

\* What has become of the bytes of stream s, but for those in the buffer of a read.
Known(c, s) ==
    Flying(inbound, c, s) + Bytes(brigade, c, s) + app[c].read[s] + app[c].dropped[s]
    + app[c].lost[s]

BytesInv ==
    \A c \in Chans, s \in Streams : peer[c].sent[s] = Known(c, s) + InBuffer(c, s)

IInv == Types /\ CallInv /\ ChannelInv /\ BytesInv

-----------------------------------------------------------------------------
(***************************************************************************)
(* Queues of packets.                                                      *)
(***************************************************************************)
\* The data and the adjustments under way, when a packet is added or taken.
LEMMA FlyingSteps ==
    ASSUME NEW q \in Seq(Message), NEW c \in Chans, NEW s \in Streams
    PROVE  /\ Flying(q, c, s) \in Nat
           /\ \A p \in Message : Flying(Append(q, p), c, s) = Flying(q, c, s) + DataOf(p, c, s)
           /\ q # <<>> => Flying(q, c, s) = DataOf(Head(q), c, s) + Flying(Tail(q), c, s)
<1> DEFINE w(u) == [i \in 1..Len(u) |-> DataOf(u[i], c, s)]
<1>1. \A p \in Message : DataOf(p, c, s) \in Nat
  BY DEF DataOf, Message
<1>2. \A u \in Seq(Message) : w(u) \in Seq(Nat) /\ Flying(u, c, s) = Total(w(u))
  BY <1>1 DEF Flying
<1>3. Flying(q, c, s) \in Nat
  BY <1>2, TotalNat
<1>4. ASSUME NEW p \in Message
      PROVE  Flying(Append(q, p), c, s) = Flying(q, c, s) + DataOf(p, c, s)
  <2>1. Append(q, p) \in Seq(Message)
    OBVIOUS
  <2>2. w(Append(q, p)) = Append(w(q), DataOf(p, c, s))
    BY <1>1
  <2>3. w(q) \in Seq(Int) /\ DataOf(p, c, s) \in Int
    BY <1>1, <1>2
  <2>4. Total(Append(w(q), DataOf(p, c, s))) = Total(w(q)) + DataOf(p, c, s)
    BY <2>3, TotalAppend
  <2> QED
    BY <1>2, <2>1, <2>2, <2>4
<1>5. ASSUME q # <<>>
      PROVE  Flying(q, c, s) = DataOf(Head(q), c, s) + Flying(Tail(q), c, s)
  <2>1. Tail(q) \in Seq(Message) /\ Head(q) = q[1] /\ Len(q) > 0
    BY <1>5
  <2>2. w(Tail(q)) = Tail(w(q)) /\ w(q) # <<>> /\ w(q)[1] = DataOf(q[1], c, s)
    BY <1>1, <1>5
  <2>3. w(q) \in Seq(Int)
    BY <1>1
  <2>4. Total(w(q)) = w(q)[1] + Total(Tail(w(q)))
    BY <2>2, <2>3, TotalTail
  <2> QED
    BY <1>2, <2>1, <2>2, <2>4
<1> QED
  BY <1>3, <1>4, <1>5

\* What a queue grants, as packets come and go.
LEMMA GrantedSteps ==
    ASSUME NEW q \in Seq(Message), NEW c \in Chans
    PROVE  /\ Granted(q, c) \in Nat
           /\ \A p \in Message : Granted(Append(q, p), c) = Granted(q, c) + GrantOf(p, c)
           /\ q # <<>> => Granted(q, c) = GrantOf(Head(q), c) + Granted(Tail(q), c)
<1> DEFINE w(u) == [i \in 1..Len(u) |-> GrantOf(u[i], c)]
<1>1. \A p \in Message : GrantOf(p, c) \in Nat
  BY DEF GrantOf, Message
<1>2. \A u \in Seq(Message) : w(u) \in Seq(Nat) /\ Granted(u, c) = Total(w(u))
  BY <1>1 DEF Granted
<1>3. Granted(q, c) \in Nat
  BY <1>2, TotalNat
<1>4. ASSUME NEW p \in Message
      PROVE  Granted(Append(q, p), c) = Granted(q, c) + GrantOf(p, c)
  <2>1. Append(q, p) \in Seq(Message)
    OBVIOUS
  <2>2. w(Append(q, p)) = Append(w(q), GrantOf(p, c))
    BY <1>1
  <2>3. w(q) \in Seq(Int) /\ GrantOf(p, c) \in Int
    BY <1>1, <1>2
  <2>4. Total(Append(w(q), GrantOf(p, c))) = Total(w(q)) + GrantOf(p, c)
    BY <2>3, TotalAppend
  <2> QED
    BY <1>2, <2>1, <2>2, <2>4
<1>5. ASSUME q # <<>>
      PROVE  Granted(q, c) = GrantOf(Head(q), c) + Granted(Tail(q), c)
  <2>1. Tail(q) \in Seq(Message) /\ Head(q) = q[1] /\ Len(q) > 0
    BY <1>5
  <2>2. w(Tail(q)) = Tail(w(q)) /\ w(q) # <<>> /\ w(q)[1] = GrantOf(q[1], c)
    BY <1>1, <1>5
  <2>3. w(q) \in Seq(Int)
    BY <1>1
  <2>4. Total(w(q)) = w(q)[1] + Total(Tail(w(q)))
    BY <2>2, <2>3, TotalTail
  <2> QED
    BY <1>2, <2>1, <2>2, <2>4
<1> QED
  BY <1>3, <1>4, <1>5

\* The same when the packet m in front of q is taken.
LEMMA TailSteps ==
    ASSUME NEW q \in Seq(Message), q # <<>>, NEW m \in Message, m = Head(q), NEW c \in Chans
    PROVE  /\ Tail(q) \in Seq(Message)
           /\ \A s \in Streams :
                /\ Flying(q, c, s) = DataOf(m, c, s) + Flying(Tail(q), c, s)
                /\ Flying(Tail(q), c, s) \in Nat /\ DataOf(m, c, s) \in Nat
           /\ Granted(q, c) = GrantOf(m, c) + Granted(Tail(q), c)
           /\ Granted(Tail(q), c) \in Nat /\ GrantOf(m, c) \in Nat
<1>1. Tail(q) \in Seq(Message)
  OBVIOUS
<1>2. ASSUME NEW s \in Streams
      PROVE  /\ Flying(q, c, s) = DataOf(m, c, s) + Flying(Tail(q), c, s)
             /\ Flying(Tail(q), c, s) \in Nat /\ DataOf(m, c, s) \in Nat
  <2>1. Flying(q, c, s) = DataOf(m, c, s) + Flying(Tail(q), c, s)
    BY FlyingSteps
  <2>2. Flying(Tail(q), c, s) \in Nat
    BY <1>1, FlyingSteps
  <2>3. DataOf(m, c, s) \in Nat
    BY DEF DataOf, Message
  <2> QED
    BY <2>1, <2>2, <2>3
<1>3. Granted(q, c) = GrantOf(m, c) + Granted(Tail(q), c)
  BY GrantedSteps
<1>4. Granted(Tail(q), c) \in Nat
  BY <1>1, GrantedSteps
<1>5. GrantOf(m, c) \in Nat
  BY DEF GrantOf, Message
<1> QED
  BY <1>1, <1>2, <1>3, <1>4, <1>5

\* The bytes of a packet of the brigade that belong to stream s of channel c.
LenOf(p, c, s) == IF p.c = c /\ p.s = s THEN p.len ELSE 0

\* What the brigade holds of a stream, as packets are added.
LEMMA BytesSteps ==
    ASSUME NEW q \in Seq(Piece), NEW c \in Chans, NEW s \in Streams
    PROVE  /\ Bytes(q, c, s) \in Nat
           /\ \A p \in Piece : Bytes(Append(q, p), c, s) = Bytes(q, c, s) + LenOf(p, c, s)
<1> DEFINE w(u) == [i \in DOMAIN u |-> LenOf(u[i], c, s)]
<1>1. \A p \in Piece : LenOf(p, c, s) \in Nat
  BY DEF LenOf, Piece
<1>2. \A u : Bytes(u, c, s) = Total(w(u))
  BY DEF Bytes, LenOf
<1>3. \A u \in Seq(Piece) : w(u) \in Seq(Nat)
  BY <1>1
<1>4. ASSUME NEW p \in Piece
      PROVE  Bytes(Append(q, p), c, s) = Bytes(q, c, s) + LenOf(p, c, s)
  <2>1. w(Append(q, p)) = Append(w(q), LenOf(p, c, s))
    BY <1>1
  <2>2. w(q) \in Seq(Int) /\ LenOf(p, c, s) \in Int
    BY <1>1, <1>3
  <2>3. Total(Append(w(q), LenOf(p, c, s))) = Total(w(q)) + LenOf(p, c, s)
    BY <2>2, TotalAppend
  <2> QED
    BY <1>2, <2>1, <2>3
<1> QED
  BY <1>2, <1>3, <1>4, TotalNat

\* Numbers taken from the packets of the brigade, between nothing and all.
Parts(q) == {t \in [1..Len(q) -> Nat] : \A i \in 1..Len(q) : t[i] <= q[i].len}

\* What is taken from stream s of channel c.
TakenFrom(q, t, c, s) == Total([i \in 1..Len(q) |-> IF q[i].c = c /\ q[i].s = s THEN t[i] ELSE 0])

\* What is left of the brigade and what was taken from it are all of it.
LEMMA RestBytes ==
    ASSUME NEW q \in Seq(Piece), brigade = q, NEW t \in Parts(q)
    PROVE  /\ Rest(t) \in Seq(Piece)
           /\ \A c \in Chans, s \in Streams :
                /\ TakenFrom(q, t, c, s) \in Int
                /\ Bytes(Rest(t), c, s) + TakenFrom(q, t, c, s) = Bytes(q, c, s)
<1> DEFINE left == [i \in 1..Len(q) |-> [q[i] EXCEPT !.len = @ - t[i]]]
           set == {i \in 1..Len(q) : left[i].len > 0}
<1>1. Rest(t) = Only(left, set)
  <2>1. DOMAIN q = 1..Len(q)
    OBVIOUS
  <2> QED
    BY <2>1, Zenon DEF Rest
<1>2. \A i \in 1..Len(q) : q[i] \in Piece /\ t[i] \in Nat /\ t[i] <= q[i].len
  BY DEF Parts
<1>3. \A i \in 1..Len(q) :
        /\ left[i].c = q[i].c /\ left[i].s = q[i].s /\ left[i].len = q[i].len - t[i]
        /\ left[i] \in [c : Chans, s : Streams, size : Nat, len : Nat]
  <2> TAKE i \in 1..Len(q)
  <2>1. PICK n \in Nat : n = q[i].len - t[i]
    BY <1>2 DEF Piece
  <2>2. left[i] = [q[i] EXCEPT !.len = n]
    BY <2>1
  <2>3. q[i] \in Piece
    BY <1>2
  <2> HIDE DEF left
  <2> QED
    BY <2>1, <2>2, <2>3 DEF Piece
<1>4. Len(left) = Len(q) /\ Len(q) \in Nat
  OBVIOUS
<1>4a. Len(left) \in Nat
  BY <1>4
<1>5. \A i \in 1..Len(left) : i \in set => left[i] \in Piece
  <2> HIDE DEF left
  <2> QED
    BY <1>3, <1>4 DEF Piece
<1>5a. Within(left, set, Piece)
  BY <1>4a, <1>5, Zenon DEF Within
<1> HIDE DEF left
<1>6. ASSUME NEW c \in Chans, NEW s \in Streams
      PROVE  /\ Rest(t) \in Seq(Piece)
             /\ TakenFrom(q, t, c, s) \in Int
             /\ Bytes(Rest(t), c, s) + TakenFrom(q, t, c, s) = Bytes(q, c, s)
  <2> DEFINE W == [p \in Piece |-> LenOf(p, c, s)]
             u == [i \in 1..Len(q) |-> IF i \in set THEN W[left[i]] ELSE 0]
             v == [i \in 1..Len(q) |-> IF q[i].c = c /\ q[i].s = s THEN t[i] ELSE 0]
             w == [i \in 1..Len(q) |-> LenOf(q[i], c, s)]
  <2>1. W \in [Piece -> Int]
    BY DEF LenOf, Piece
  <2>2. /\ Only(left, set) \in Seq(Piece)
        /\ Total(Weigh(W, Only(left, set))) = Total(u)
    <3> HIDE DEF W, set
    <3>1. /\ Only(left, set) \in Seq(Piece)
          /\ Total(Weigh(W, Only(left, set))) = Total(WeighIn(W, left, set))
      BY <1>5a, <2>1, OnlyWeighs, SMT
    <3> QED
      BY <1>4, <3>1, Zenon DEF WeighIn
  <2>3. Bytes(Only(left, set), c, s) = Total(Weigh(W, Only(left, set)))
    <3>1. PICK o \in Seq(Piece) : o = Only(left, set)
      BY <2>2
    <3>2. Weigh(W, o) = [i \in DOMAIN o |-> IF o[i].c = c /\ o[i].s = s THEN o[i].len ELSE 0]
      BY DEF Weigh, LenOf
    <3> QED
      BY <3>1, <3>2, Zenon DEF Bytes
  <2>4. Bytes(q, c, s) = Total(w)
    <3>1. DOMAIN q = 1..Len(q)
      OBVIOUS
    <3> QED
      BY <3>1, Zenon DEF Bytes, LenOf
  <2>5. TakenFrom(q, t, c, s) = Total(v)
    BY DEF TakenFrom
  <2>6. ASSUME NEW i \in 1..Len(q)
        PROVE  u[i] \in Int /\ v[i] \in Int /\ w[i] \in Int /\ w[i] = u[i] + v[i]
    <3>1. /\ q[i].len \in Nat /\ t[i] \in Nat /\ t[i] <= q[i].len
          /\ left[i].c = q[i].c /\ left[i].s = q[i].s /\ left[i].len = q[i].len - t[i]
      BY <1>2, <1>3 DEF Piece
    <3>2. u[i] = IF i \in set THEN LenOf(left[i], c, s) ELSE 0
      BY <1>4, <1>5
    <3>3. i \in set <=> q[i].len - t[i] > 0
      BY <3>1
    <3>4. v[i] = IF q[i].c = c /\ q[i].s = s THEN t[i] ELSE 0
      OBVIOUS
    <3>5. w[i] = LenOf(q[i], c, s)
      OBVIOUS
    <3> HIDE DEF u, v, w, set
    <3> QED
      BY <3>1, <3>2, <3>3, <3>4, <3>5 DEF LenOf
  <2>7. u \in Seq(Int) /\ v \in Seq(Int) /\ w \in Seq(Int)
    <3>1. \A i \in 1..Len(q) : u[i] \in Int /\ v[i] \in Int /\ w[i] \in Int
      BY <2>6
    <3>2. Len(q) \in Nat
      OBVIOUS
    <3>3. u = [i \in 1..Len(q) |-> u[i]] /\ v = [i \in 1..Len(q) |-> v[i]]
          /\ w = [i \in 1..Len(q) |-> w[i]]
      OBVIOUS
    <3> HIDE DEF u, v, w
    <3> QED
      BY <3>1, <3>2, <3>3
  <2>8. Len(u) = Len(w) /\ Len(v) = Len(w) /\ Len(w) = Len(q)
    OBVIOUS
  <2>9. \A i \in 1..Len(w) : w[i] = u[i] + v[i]
    BY <2>6, <2>8
  <2> HIDE DEF u, v, w, W, set
  <2>10. Total(w) = Total(u) + Total(v)
    BY <2>7, <2>8, <2>9, TotalPlus
  <2> QED
    BY <1>1, <2>2, <2>3, <2>4, <2>5, <2>7, <2>10, TotalInt
<1>7. Rest(t) \in Seq(Piece)
  <2> DEFINE W == [p \in Piece |-> 0]
  <2>1. W \in [Piece -> Int]
    OBVIOUS
  <2> HIDE DEF W, set
  <2> QED
    BY <1>1, <1>5a, <2>1, OnlyWeighs, ZenonT(30)
<1> QED
  BY <1>6, <1>7

\* What is taken from the packets of channel c only.
PartsOf(q, c) == {t \in Parts(q) : \A i \in 1..Len(q) : q[i].c # c => t[i] = 0}

\* A read takes bytes of its own channel.
LEMMA TakenParts ==
    ASSUME NEW q \in Seq(Piece), brigade = q, NEW c \in Chans, NEW s, NEW want \in Nat
    PROVE  Taken(c, s, want) \in PartsOf(q, c)
<1> DEFINE M(i) == Matches(c, s, q[i])
           size == [i \in 1..Len(q) |-> IF M(i) THEN q[i].len ELSE 0]
           before == Sums(size)
           least(a, b) == IF a < b THEN a ELSE b
           t == [i \in 1..Len(q) |->
                    IF before[i - 1] >= want THEN 0 ELSE least(size[i], want - before[i - 1])]
<1>1. Taken(c, s, want) = t
  <2>1. DOMAIN q = 1..Len(q)
    OBVIOUS
  <2> QED
    BY <2>1, Zenon DEF Taken
<1>2. \A i \in 1..Len(q) : q[i].len \in Nat
  <2>1. \A i \in 1..Len(q) : q[i] \in Piece
    OBVIOUS
  <2> QED
    BY <2>1 DEF Piece
<1>3. \A i \in 1..Len(q) : M(i) => q[i].c = c
  BY DEF Matches
<1> HIDE DEF M
<1>4. size \in Seq(Int) /\ Len(size) = Len(q) /\ Len(q) \in Nat
  BY <1>2
<1>5. \A i \in 1..Len(q) : size[i] \in Nat /\ size[i] <= q[i].len /\ (q[i].c # c => size[i] = 0)
  BY <1>2, <1>3
<1> HIDE DEF size
<1>6. \A i \in 1..Len(q) : before[i - 1] \in Int
  <2>1. Adds(before, size, Len(q))
    BY <1>4, SumsAdd
  <2>2. \A i \in 1..Len(q) : i - 1 \in 0..Len(q)
    BY <1>4
  <2> HIDE DEF before
  <2> QED
    BY <2>1, <2>2 DEF Adds
<1> HIDE DEF before
<1>7. ASSUME NEW i \in 1..Len(q)
      PROVE  t[i] \in Nat /\ t[i] <= q[i].len /\ (q[i].c # c => t[i] = 0)
  <2>1. t[i] = IF before[i - 1] >= want THEN 0 ELSE least(size[i], want - before[i - 1])
    OBVIOUS
  <2>2. PICK b \in Int : b = before[i - 1]
    BY <1>6
  <2>3. PICK m \in Nat : m = size[i] /\ m <= q[i].len /\ (q[i].c # c => m = 0)
    BY <1>5
  <2>4. t[i] = IF b >= want THEN 0 ELSE IF m < want - b THEN m ELSE want - b
    BY <2>1, <2>2, <2>3
  <2>5. t[i] \in Nat /\ t[i] <= m
    <3> HIDE DEF t
    <3> QED
      BY <2>4
  <2> HIDE DEF t
  <2>6. q[i].len \in Nat
    BY <1>2
  <2> QED
    BY <2>3, <2>5, <2>6
<1>8. t = [i \in 1..Len(q) |-> t[i]]
  OBVIOUS
<1> HIDE DEF t
<1>9. t \in [1..Len(q) -> Nat]
  BY <1>7, <1>8
<1> QED
  BY <1>1, <1>7, <1>9 DEF Parts, PartsOf

\* A flush and a free take whole packets of their channel.
LEMMA WholeParts ==
    ASSUME NEW q \in Seq(Piece), NEW c \in Chans, NEW set,
           \A i \in 1..Len(q) : i \in set => q[i].c = c
    PROVE  [i \in 1..Len(q) |-> IF i \in set THEN q[i].len ELSE 0] \in PartsOf(q, c)
<1> DEFINE t == [i \in 1..Len(q) |-> IF i \in set THEN q[i].len ELSE 0]
<1>1. \A i \in 1..Len(q) : q[i].len \in Nat
  <2>1. \A i \in 1..Len(q) : q[i] \in Piece
    OBVIOUS
  <2> QED
    BY <2>1 DEF Piece
<1>2. t \in [1..Len(q) -> Nat]
  BY <1>1
<1>3. \A i \in 1..Len(q) : t[i] = IF i \in set THEN q[i].len ELSE 0
  OBVIOUS
<1> HIDE DEF t
<1>4. t \in PartsOf(q, c)
  BY <1>1, <1>2, <1>3 DEF Parts, PartsOf
<1> QED
  BY <1>4 DEF t

\* Nothing is a total of nothings.
LEMMA TotalZero ==
    ASSUME NEW w \in Seq(Int), \A i \in 1..Len(w) : w[i] = 0
    PROVE  Total(w) = 0
<1>1. \A i \in 1..Len(w) : w[i] = w[i] + w[i]
  OBVIOUS
<1>2. Total(w) = Total(w) + Total(w)
  BY <1>1, TotalPlus
<1> QED
  BY <1>2, TotalInt

\* What is taken per stream, of the channel and of the others.
LEMMA PerStreamParts ==
    ASSUME NEW q \in Seq(Piece), brigade = q, NEW c \in Chans, NEW t \in PartsOf(q, c)
    PROVE  /\ PerStream(t) \in [Streams -> Nat] /\ PerStream(t) \in Counts
           /\ \A s \in Streams : PerStream(t)[s] = TakenFrom(q, t, c, s)
           /\ \A d \in Chans \ {c}, s \in Streams : TakenFrom(q, t, d, s) = 0
<1> DEFINE v(d, s) == [i \in 1..Len(q) |-> IF q[i].c = d /\ q[i].s = s THEN t[i] ELSE 0]
           w(s) == [i \in 1..Len(q) |-> IF q[i].s = s THEN t[i] ELSE 0]
<1>1. \A i \in 1..Len(q) : t[i] \in Nat /\ (q[i].c # c => t[i] = 0)
  BY DEF PartsOf, Parts
<1>2. \A d, s : v(d, s) \in Seq(Int) /\ v(d, s) \in Seq(Nat) /\ Len(v(d, s)) = Len(q)
  BY <1>1
<1>3. \A s : w(s) = v(c, s)
  BY <1>1
<1>4. PerStream(t) = [s \in Streams |-> Total(w(s))]
  <2>1. DOMAIN q = 1..Len(q)
    OBVIOUS
  <2> QED
    BY <2>1, Zenon DEF PerStream
<1>5. \A d, s : TakenFrom(q, t, d, s) = Total(v(d, s))
  BY DEF TakenFrom
<1>6. ASSUME NEW d \in Chans \ {c}, NEW s \in Streams PROVE TakenFrom(q, t, d, s) = 0
  <2>1. \A i \in 1..Len(q) : v(d, s)[i] = 0
    BY <1>1
  <2> HIDE DEF v
  <2> QED
    BY <1>2, <1>5, <2>1, TotalZero
<1> HIDE DEF v, w
<1>7. \A s : Total(w(s)) \in Nat
  BY <1>2, <1>3, TotalNat
<1>8. /\ PerStream(t) \in [Streams -> Nat] /\ PerStream(t) \in Counts
      /\ \A s \in Streams : PerStream(t)[s] = Total(w(s))
  BY <1>4, <1>7 DEF Counts
<1> QED
  BY <1>3, <1>5, <1>6, <1>8, Zenon

-----------------------------------------------------------------------------
(***************************************************************************)
(* Writing.                                                                *)
(***************************************************************************)
\* How the peer changes from a to b when a packet is written with result rc.
Delivered(kind, n, rc, a, b) ==
    /\ b.sent = a.sent
    /\ b.closes = a.closes + (IF rc = "NONE" /\ kind = "close" THEN 1 ELSE 0)
    /\ b.window = a.window - (IF rc = "NONE" /\ kind = "data" THEN n ELSE 0)
    /\ b.grant = a.grant + (IF rc = "NONE" /\ kind = "adjust" THEN n ELSE 0)

\* What the peer makes of a packet is what Delivered says of one written whole.
LEMMA ReceivedIsDelivered ==
    ASSUME NEW a \in Peer, NEW kind, NEW n \in Int, kind = "adjust" => n \in Nat
    PROVE  /\ Received(a, kind, n) \in Peer
           /\ Delivered(kind, n, "NONE", a, Received(a, kind, n))
           /\ Received(a, kind, n).refused = a.refused
<1>0. PICK b : b = Received(a, kind, n)
  OBVIOUS
<1>a. a.closes \in Nat /\ a.window \in Int /\ a.grant \in Nat
  BY DEF Peer
<1>1. CASE kind = "adjust"
  <2>1. PICK g \in Nat : g = a.grant + n
    BY <1>1 DEF Peer
  <2>3. b = [a EXCEPT !.grant = g]
    BY <1>1, <2>1, <1>0 DEF Received
  <2>4. b \in Peer
    BY <2>3 DEF Peer
  <2>5. b.sent = a.sent /\ b.closes = a.closes /\ b.window = a.window /\ b.grant = g /\ b.refused = a.refused
    BY <2>3 DEF Peer
  <2> QED
    BY <1>1, <1>0, <1>a, <2>1, <2>4, <2>5 DEF Delivered
<1>2. CASE kind = "data"
  <2>1. PICK g \in Int : g = a.got + n
    BY DEF Peer
  <2>2. PICK w \in Int : w = a.window - n
    BY DEF Peer
  <2>3. b = [a EXCEPT !.got = g, !.window = w]
    BY <1>2, <2>1, <2>2, <1>0 DEF Received
  <2>4. b \in Peer
    BY <2>3 DEF Peer
  <2>5. b.sent = a.sent /\ b.closes = a.closes /\ b.window = w /\ b.grant = a.grant /\ b.refused = a.refused
    BY <2>3 DEF Peer
  <2> QED
    BY <1>2, <1>0, <1>a, <2>1, <2>2, <2>4, <2>5 DEF Delivered
<1>3. CASE kind = "eof"
  <2>1. PICK g \in Nat : g = a.eofs + 1
    BY DEF Peer
  <2>3. b = [a EXCEPT !.eofs = g]
    BY <1>3, <2>1, <1>0 DEF Received
  <2>4. b \in Peer
    BY <2>3 DEF Peer
  <2>5. b.sent = a.sent /\ b.closes = a.closes /\ b.window = a.window /\ b.grant = a.grant /\ b.refused = a.refused
    BY <2>3 DEF Peer
  <2> QED
    BY <1>3, <1>0, <1>a, <2>1, <2>4, <2>5 DEF Delivered
<1>4. CASE kind = "close"
  <2>1. PICK g \in Nat : g = a.closes + 1
    BY DEF Peer
  <2>3. b = [a EXCEPT !.closes = g]
    BY <1>4, <2>1, <1>0 DEF Received
  <2>4. b \in Peer
    BY <2>3 DEF Peer
  <2>5. b.sent = a.sent /\ b.closes = g /\ b.window = a.window /\ b.grant = a.grant /\ b.refused = a.refused
    BY <2>3 DEF Peer
  <2> QED
    BY <1>4, <1>0, <1>a, <2>1, <2>4, <2>5 DEF Delivered
<1>5. CASE kind \notin {"adjust", "data", "eof", "close"}
  <2>1. b = a
    BY <1>0, <1>5 DEF Received
  <2> QED
    BY <1>0, <1>5, <1>a, <2>1 DEF Delivered
<1> QED
  BY <1>1, <1>2, <1>3, <1>4, <1>5

\* The kinds of packets that may have stood in the way of another.
Stood(a, b) ==
    /\ a.refused \subseteq b.refused
    /\ b.refused \subseteq a.refused \cup {"adjust", "failure"}

\* _libssh2_transport_write, unless data, an end of file or a close is half sent.
LEMMA Sends ==
    ASSUME Types, NEW c \in Chans, NEW kind \in PacketKinds, NEW n \in Int,
           kind = "adjust" => n \in Nat,
           NEW rc, Send(kind, c, n, rc), net = "up" => Loose(pend) \/ pend = <<kind, c>>
    PROVE  /\ rc \in {"NONE", "EAGAIN", "FAIL"}
           /\ rc = "NONE" => pend' = NoPacket
           /\ rc = "EAGAIN" => pend' = <<kind, c>>
           /\ rc = "FAIL" => pend' = pend
           /\ rc = "FAIL" /\ net = "up" => Loose(pend)
           /\ pend' \in Pendings
           /\ \E p \in Peer :
                /\ peer' = [peer EXCEPT ![c] = p]
                /\ Delivered(kind, n, rc, peer[c], p)
                /\ net = "up" => Stood(peer[c], p)
<1> DEFINE a == peer[c]
<1>1. a \in Peer /\ peer \in [Chans -> Peer] /\ pend \in Pendings
  BY DEF Types
<1>2. peer = [peer EXCEPT ![c] = a]
  BY <1>1
<1>3. \A res : res # "NONE" => Delivered(kind, n, res, a, a)
  BY <1>1 DEF Delivered, Peer
<1>0. NoPacket \in Pendings /\ <<kind, c>> \in Pendings
  BY DEF Pendings
<1>00. Stood(a, a)
  BY <1>1 DEF Stood, Peer
<1>4. CASE pend \notin {NoPacket, <<kind, c>>}
  <2>1. rc = "FAIL" /\ peer' = [peer EXCEPT ![c].refused = @ \cup {pend[1]}] /\ pend' = pend
    BY <1>4 DEF Send
  <2>0. pend[1] \in PacketKinds
    BY <1>1, <1>4 DEF Pendings
  <2>4. PICK t \in SUBSET PacketKinds : t = a.refused \cup {pend[1]}
    BY <1>1, <2>0 DEF Peer
  <2>2. PICK p : p = [a EXCEPT !.refused = t]
    OBVIOUS
  <2>3. peer' = [peer EXCEPT ![c] = p]
    BY <2>1, <2>2, <2>4
  <2> HIDE DEF a
  <2>6. p \in Peer /\ p.refused = t
    BY <1>1, <2>2 DEF Peer
  <2>7. p.sent = a.sent /\ p.closes = a.closes /\ p.window = a.window /\ p.grant = a.grant
    BY <1>1, <2>2 DEF Peer
  <2>8. a.closes \in Nat /\ a.window \in Int /\ a.grant \in Nat
    BY <1>1 DEF Peer
  <2>9. Delivered(kind, n, rc, a, p)
    BY <2>1, <2>7, <2>8 DEF Delivered
  <2>10. net = "up" => Loose(pend)
    BY <1>4
  <2>11. net = "up" => pend[1] \in {"adjust", "failure"}
    BY <1>4, <2>10 DEF Loose
  <2>12. net = "up" => Stood(a, p)
    BY <2>4, <2>6, <2>11 DEF Stood
  <2> QED
    BY <1>1, <2>1, <2>3, <2>6, <2>9, <2>10, <2>12 DEF a
<1>5. CASE rc = "NONE" /\ net # "broken" /\ pend' = NoPacket
           /\ peer' = [peer EXCEPT ![c] = Received(@, kind, n)]
  <2>1. PICK p \in Peer : p = Received(a, kind, n)
    BY <1>1, ReceivedIsDelivered
  <2>2. peer' = [peer EXCEPT ![c] = p]
    BY <1>5, <2>1
  <2>3. Delivered(kind, n, rc, a, p) /\ p.refused = a.refused
    BY <1>1, <1>5, <2>1, ReceivedIsDelivered
  <2>4. Stood(a, p)
    BY <2>3, <1>00 DEF Stood
  <2> QED
    BY <1>5, <1>0, <2>2, <2>3, <2>4
<1>6. CASE rc = "EAGAIN" /\ kind \in Blocking /\ pend' = <<kind, c>> /\ peer' = peer
  BY <1>0, <1>00, <1>1, <1>2, <1>3, <1>6
<1>7. CASE rc = "FAIL" /\ net # "up" /\ pend' = pend /\ peer' = peer
  BY <1>00, <1>1, <1>2, <1>3, <1>7
<1> QED
  BY <1>4, <1>5, <1>6, <1>7 DEF Send

\* A channel that changes in what _libssh2_channel_receive_window_adjust writes only.
SameBut(a, b) ==
    /\ b.live = a.live /\ b.lwin = a.lwin /\ b.lclose = a.lclose
    /\ b.reof = a.reof /\ b.rclose = a.rclose /\ b.jump1 = a.jump1
    /\ b.mode = a.mode /\ b.writing = a.writing /\ b.bufwrite = a.bufwrite
    /\ b.closing = a.closing

\* Nothing slips, and no adjustment waits to be completed, but after one that stalled.
Slips(a) == a.adjusting \/ a.slipped # 0 => a.stalled

\* The state a window adjustment leaves: what the other end is granted goes to the window
\* or slips.
LEMMA AdjustedChannel ==
    ASSUME Types, NEW c \in Chans, NEW n \in Nat, NEW force \in BOOLEAN, NEW rc
    PROVE  /\ Adjusted(c, n, force, rc) \in Channel
           /\ SameBut(ch[c], Adjusted(c, n, force, rc))
           /\ ch[c].stalled => Adjusted(c, n, force, rc).stalled
           /\ Slips(ch[c]) => Slips(Adjusted(c, n, force, rc))
           /\ ~AdjustSends(c, n, force) \/ rc # "NONE" =>
                /\ Adjusted(c, n, force, rc).rwin = ch[c].rwin
                /\ Adjusted(c, n, force, rc).slipped = ch[c].slipped
           /\ AdjustSends(c, n, force) /\ rc # "NONE" => Adjusted(c, n, force, rc).stalled
           /\ AdjustSends(c, n, force) /\ rc = "NONE" =>
                Adjusted(c, n, force, rc).rwin + Adjusted(c, n, force, rc).slipped
                  = ch[c].rwin + ch[c].slipped
                      + (IF ch[c].adjusting THEN ch[c].amount ELSE n + ch[c].queue)
<1>1. PICK s \in Channel : s = ch[c]
  BY DEF Types
<1>2. PICK total \in Nat : total = IF s.adjusting THEN n ELSE n + s.queue
  BY DEF Channel
<1>3. PICK amount \in Nat : amount = IF s.adjusting THEN s.amount ELSE total
  BY DEF Channel
<1>4. PICK window \in Nat : window = s.rwin + total
  BY DEF Channel
<1>4a. PICK slip \in Int : slip = s.slipped + amount - total
  BY DEF Channel
<1>5. PICK r : r = Adjusted(c, n, force, rc)
  OBVIOUS
<1>6. CASE ~AdjustSends(c, n, force)
  <2>1. r = [s EXCEPT !.queue = total]
    BY <1>1, <1>2, <1>5, <1>6, Zenon DEF Adjusted
  <2>2. r \in Channel
    BY <2>1 DEF Channel
  <2>3. SameBut(s, r) /\ r.rwin = s.rwin /\ r.adjusting = s.adjusting
        /\ r.stalled = s.stalled /\ r.slipped = s.slipped
    BY <2>1 DEF Channel, SameBut
  <2> QED
    BY <1>1, <1>5, <1>6, <2>2, <2>3 DEF Slips
<1>7. CASE AdjustSends(c, n, force) /\ rc = "NONE"
  <2>1. PICK f \in BOOLEAN, z \in Nat : f = FALSE /\ z = 0
    OBVIOUS
  <2>2. r = [s EXCEPT !.queue = z, !.adjusting = f, !.amount = z, !.rwin = window, !.slipped = slip]
    BY <1>1, <1>2, <1>3, <1>4, <1>4a, <1>5, <1>7, <2>1 DEF Adjusted
  <2>3. r \in Channel
    BY <2>2 DEF Channel
  <2>4. SameBut(s, r) /\ r.rwin = window /\ r.adjusting = f
        /\ r.stalled = s.stalled /\ r.slipped = slip
    BY <2>2 DEF Channel, SameBut
  <2>5. PICK u \in Nat, v \in Int : u = s.rwin /\ v = s.slipped
    BY DEF Channel
  <2>6. window + slip = u + v + amount
    BY <1>4, <1>4a, <2>5
  <2>7. ~s.adjusting => slip = v
    BY <1>3, <1>4a, <2>5
  <2>8. Slips(s) => Slips(r)
    <3>1. s.adjusting \in BOOLEAN /\ s.stalled \in BOOLEAN
      BY DEF Channel
    <3> QED
      BY <2>1, <2>4, <2>5, <2>7, <3>1 DEF Slips
  <2>9. amount = IF s.adjusting THEN s.amount ELSE n + s.queue
    BY <1>2, <1>3
  <2> QED
    BY <1>1, <1>5, <1>7, <2>3, <2>4, <2>5, <2>6, <2>8, <2>9
<1>8. CASE AdjustSends(c, n, force) /\ rc # "NONE"
  <2>1. PICK t \in BOOLEAN, m \in Nat : t = TRUE /\ m = IF rc = "EAGAIN" THEN 0 ELSE total
    OBVIOUS
  <2>2. r = [s EXCEPT !.queue = m, !.adjusting = t, !.amount = amount, !.stalled = t]
    <3>1. CASE rc = "EAGAIN"
      BY <1>1, <1>2, <1>3, <1>5, <1>8, <2>1, <3>1 DEF Adjusted
    <3>2. CASE rc # "EAGAIN"
      BY <1>1, <1>2, <1>3, <1>5, <1>8, <2>1, <3>2 DEF Adjusted
    <3> QED
      BY <3>1, <3>2
  <2>3. r \in Channel
    BY <2>2 DEF Channel
  <2>4. SameBut(s, r) /\ r.rwin = s.rwin /\ r.stalled = t /\ r.slipped = s.slipped
    BY <2>2 DEF Channel, SameBut
  <2> QED
    BY <1>1, <1>5, <1>8, <2>1, <2>3, <2>4 DEF Slips
<1> QED
  BY <1>6, <1>7, <1>8

\* A channel s and its peer a after a window adjustment or a reply, as r and p: what the
\* peer is granted is in the window or has slipped.
Widened(s, r, a, p, state) ==
    /\ SameBut(s, r)
    /\ s.stalled => r.stalled
    /\ Slips(s) => Slips(r)
    /\ p.window = a.window /\ p.closes = a.closes /\ p.sent = a.sent
    /\ p.grant + s.rwin + s.slipped = a.grant + r.rwin + r.slipped
    /\ state = "up" => Stood(a, p)

\* _libssh2_channel_receive_window_adjust.
LEMMA Adjusts ==
    ASSUME Types, NEW c \in Chans, NEW n \in Nat, NEW force \in BOOLEAN, NEW rc,
           Adjust(c, n, force, rc), net = "up" => Loose(pend)
    PROVE  /\ rc \in {"NONE", "EAGAIN", "FAIL"}
           /\ net = "up" => Loose(pend')
           /\ pend' \in Pendings
           /\ \E r \in Channel, p \in Peer :
                /\ peer' = [peer EXCEPT ![c] = p]
                /\ r = Adjusted(c, n, force, rc)
                /\ Widened(ch[c], r, peer[c], p, net)
                /\ rc = "EAGAIN" => r.stalled
<1>1. PICK a \in Peer : a = peer[c]
  BY DEF Types
<1>2. PICK s \in Channel : s = ch[c]
  BY DEF Types
<1>3. PICK r \in Channel : r = Adjusted(c, n, force, rc)
  BY AdjustedChannel
<1>4. /\ a.grant \in Nat /\ a.closes \in Nat /\ a.window \in Int
      /\ s.rwin \in Nat /\ r.rwin \in Nat /\ s.queue \in Nat /\ s.amount \in Nat
      /\ s.slipped \in Int /\ r.slipped \in Int
  BY DEF Peer, Channel
<1>5. SameBut(s, r) /\ (s.stalled => r.stalled) /\ (Slips(s) => Slips(r))
  BY <1>2, <1>3, AdjustedChannel
<1>7. CASE ~AdjustSends(c, n, force)
  <2>1. rc = "NONE" /\ pend' = pend /\ peer' = peer
    BY <1>7 DEF Adjust
  <2>2. r.rwin = s.rwin /\ r.slipped = s.slipped
    BY <1>2, <1>3, <1>7, AdjustedChannel
  <2>3. peer' = [peer EXCEPT ![c] = a]
    BY <1>1, <2>1 DEF Types
  <2>4. Stood(a, a)
    BY DEF Stood
  <2>5. Widened(s, r, a, a, net)
    BY <1>4, <1>5, <2>2, <2>4 DEF Widened
  <2>6. pend' \in Pendings
    BY <2>1 DEF Types
  <2> QED
    BY <1>1, <1>2, <1>3, <2>1, <2>3, <2>5, <2>6
<1>8. CASE AdjustSends(c, n, force)
  <2>1. PICK m \in Nat : m = IF s.adjusting THEN s.amount ELSE n + s.queue
    BY <1>4
  <2>2. Send("adjust", c, m, rc)
    BY <1>2, <1>8, <2>1 DEF Adjust
  <2>3. net = "up" => Loose(pend) \/ pend = <<"adjust", c>>
    OBVIOUS
  <2>3a. m \in Int /\ "adjust" \in PacketKinds
    BY DEF PacketKinds
  <2>4. /\ rc \in {"NONE", "EAGAIN", "FAIL"}
        /\ rc = "NONE" => pend' = NoPacket
        /\ rc = "EAGAIN" => pend' = <<"adjust", c>>
        /\ rc = "FAIL" => pend' = pend
        /\ pend' \in Pendings
    BY <2>2, <2>3, <2>3a, Sends, Zenon
  <2>5a. PICK p \in Peer :
           /\ peer' = [peer EXCEPT ![c] = p]
           /\ Delivered("adjust", m, rc, peer[c], p)
           /\ net = "up" => Stood(peer[c], p)
    BY <2>2, <2>3, <2>3a, Sends, Zenon
  <2>5. /\ peer' = [peer EXCEPT ![c] = p]
        /\ Delivered("adjust", m, rc, a, p)
        /\ net = "up" => Stood(a, p)
    BY <1>1, <2>5a
  <2>7. p.window = a.window /\ p.closes = a.closes /\ p.sent = a.sent
        /\ p.grant = a.grant + (IF rc = "NONE" THEN m ELSE 0)
    BY <1>4, <2>5 DEF Delivered
  <2>8. rc = "NONE" => r.rwin + r.slipped = s.rwin + s.slipped + m
    BY <1>2, <1>3, <1>8, <2>1, AdjustedChannel
  <2>9. rc # "NONE" => r.rwin = s.rwin /\ r.slipped = s.slipped /\ r.stalled
    BY <1>2, <1>3, <1>8, AdjustedChannel
  <2>10. p.grant + s.rwin + s.slipped = a.grant + r.rwin + r.slipped
    <3>1. CASE rc = "NONE"
      BY <1>4, <2>7, <2>8, <3>1
    <3>2. CASE rc # "NONE"
      BY <1>4, <2>7, <2>9, <3>2
    <3> QED
      BY <3>1, <3>2
  <2>11. Widened(s, r, a, p, net)
    BY <1>5, <2>5, <2>7, <2>10 DEF Widened
  <2>12. net = "up" => Loose(pend')
    BY <2>4 DEF Loose, NoPacket
  <2> QED
    BY <1>1, <1>2, <1>3, <2>4, <2>5, <2>9, <2>11, <2>12
<1> QED
  BY <1>7, <1>8

-----------------------------------------------------------------------------
(***************************************************************************)
(* Reading.                                                                *)
(***************************************************************************)
\* A channel that changes from a to b, and its peer from x to y, as a read may change
\* them: what calls under way rely on stays.
Keeps(a, b, x, y) ==
    /\ b.live = a.live /\ b.lclose = a.lclose /\ b.closing = a.closing /\ b.writing = a.writing
    /\ b.jump1 = a.jump1 /\ (a.stalled => b.stalled)
    /\ y.closes = x.closes /\ y.sent = x.sent

\* What is lost is never found again, as an account changes from x to y.
Loses(x, y) == \A s \in Streams : x.lost[s] <= y.lost[s]

\* What a read leaves in order.
ReadTypes ==
    /\ ch' \in [Chans -> Channel] /\ peer' \in [Chans -> Peer] /\ app' \in [Chans -> Account]
    /\ brigade' \in Seq(Piece) /\ inbound' \in Seq(Message)
    /\ net' \in {"up", "disconnected", "broken"}
    /\ add' \in Answers \cup {NoAnswer} /\ pend' \in Pendings

ReadChannels ==
    \A d \in Chans :
        /\ LocalOK(ch'[d], peer'[d], Granted(inbound', d))
        /\ RemoteOK(ch'[d], peer'[d], app'[d],
                    Flying(inbound', d, 0) + Flying(inbound', d, 1), net')
        /\ Keeps(ch[d], ch'[d], peer[d], peer'[d])
        /\ Loses(app[d], app'[d])

ReadBytes == \A d \in Chans, s \in Streams : Known(d, s)' = Known(d, s)

\* An account loses nothing if what is lost stays.
LEMMA LosesNothing ==
    ASSUME NEW x \in Account, NEW y \in Account, y.lost = x.lost
    PROVE  Loses(x, y)
<1>1. x.lost \in [Streams -> Nat]
  BY DEF Account
<1> QED
  BY <1>1 DEF Loses

\* Nothing was read.
LEMMA ReadNothing ==
    ASSUME Types, ChannelInv, UNCHANGED <<ch, brigade, inbound, pend, add, peer, app>>,
           net' = net
    PROVE  ReadTypes /\ ReadChannels /\ ReadBytes
<1>1. ReadTypes
  BY DEF Types, ReadTypes
<1>2. ReadChannels
  <2>1. \A d \in Chans : Loses(app[d], app[d])
    BY LosesNothing DEF Types
  <2> QED
    BY <2>1 DEF ChannelInv, ReadChannels, Keeps
<1>3. ReadBytes
  BY DEF ReadBytes, Known, Bytes
<1> QED
  BY <1>1, <1>2, <1>3

\* The packets on their way of every channel but c are those in the queue q.
Untouched(q, c) ==
    \A d \in Chans : d # c =>
        /\ Flying(q, d, 0) = Flying(inbound, d, 0) /\ Flying(q, d, 1) = Flying(inbound, d, 1)
        /\ Granted(q, d) = Granted(inbound, d)

\* A packet of channel c is dealt with, and changes that channel, its peer and its account.
LEMMA ReadFrame ==
    ASSUME Types, ChannelInv,
           NEW q \in Seq(Message), inbound' = q, NEW c \in Chans, Untouched(q, c),
           NEW r \in Channel, NEW p \in Peer, NEW a \in Account,
           NEW x \in {"up", "disconnected", "broken"},
           ch' = [ch EXCEPT ![c] = r], peer' = [peer EXCEPT ![c] = p],
           app' = [app EXCEPT ![c] = a], net' = x, x \in {net, "disconnected"},
           brigade' \in Seq(Piece), add' \in Answers \cup {NoAnswer}, pend' \in Pendings,
           Keeps(ch[c], r, peer[c], p), Loses(app[c], a),
           LocalOK(r, p, Granted(q, c)),
           RemoteOK(r, p, a, Flying(q, c, 0) + Flying(q, c, 1), x)
    PROVE  ReadTypes /\ ReadChannels
<1>1. ch \in [Chans -> Channel] /\ peer \in [Chans -> Peer] /\ app \in [Chans -> Account]
  BY DEF Types
<1>3. ReadTypes
  BY <1>1 DEF ReadTypes
<1>4. ASSUME NEW d \in Chans
      PROVE  /\ LocalOK(ch'[d], peer'[d], Granted(q, d))
             /\ RemoteOK(ch'[d], peer'[d], app'[d], Flying(q, d, 0) + Flying(q, d, 1), x)
             /\ Keeps(ch[d], ch'[d], peer[d], peer'[d])
             /\ Loses(app[d], app'[d])
  <2>1. CASE d = c
    BY <1>1, <2>1
  <2>2. CASE d # c
    <3>1. ch'[d] = ch[d] /\ peer'[d] = peer[d] /\ app'[d] = app[d]
      BY <1>1, <2>2
    <3>4. /\ Flying(inbound, d, 0) = Flying(q, d, 0) /\ Flying(inbound, d, 1) = Flying(q, d, 1)
          /\ Granted(inbound, d) = Granted(q, d)
      BY <2>2 DEF Untouched
    <3>5. /\ LocalOK(ch[d], peer[d], Granted(inbound, d))
          /\ RemoteOK(ch[d], peer[d], app[d], Flying(inbound, d, 0) + Flying(inbound, d, 1), net)
      BY DEF ChannelInv
    <3>6. RemoteOK(ch[d], peer[d], app[d], Flying(inbound, d, 0) + Flying(inbound, d, 1), x)
      BY <3>5 DEF RemoteOK
    <3>7. Loses(app[d], app[d])
      BY <1>1, LosesNothing
    <3> QED
      BY <3>1, <3>4, <3>5, <3>6, <3>7 DEF Keeps
  <2> QED
    BY <2>1, <2>2
<1> QED
  BY <1>3, <1>4 DEF ReadChannels

\* The packet m in front of the queue q is taken.
Takes(q, m) ==
    q \in Seq(Message) /\ q # <<>> /\ m = Head(q) /\ inbound = q /\ inbound' = Tail(q)

\* It is of no other channel.
LEMMA TakesUntouched ==
    ASSUME NEW q, NEW m \in Message, Takes(q, m)
    PROVE  Untouched(Tail(q), m.c)
<1>0. q \in Seq(Message) /\ q # <<>> /\ m = Head(q) /\ inbound = q
  BY DEF Takes
<1> SUFFICES ASSUME NEW d \in Chans, d # m.c
             PROVE  /\ Flying(Tail(q), d, 0) = Flying(inbound, d, 0)
                    /\ Flying(Tail(q), d, 1) = Flying(inbound, d, 1)
                    /\ Granted(Tail(q), d) = Granted(inbound, d)
  BY DEF Untouched
<1>2. DataOf(m, d, 0) = 0 /\ DataOf(m, d, 1) = 0 /\ GrantOf(m, d) = 0
  BY DEF DataOf, GrantOf
<1>3. 0 \in Streams /\ 1 \in Streams
  BY DEF Streams
<1>4. /\ \A s \in Streams : /\ Flying(q, d, s) = DataOf(m, d, s) + Flying(Tail(q), d, s)
                            /\ Flying(Tail(q), d, s) \in Nat
      /\ Granted(q, d) = GrantOf(m, d) + Granted(Tail(q), d)
      /\ Granted(Tail(q), d) \in Nat
  BY <1>0, TailSteps
<1> QED
  BY <1>0, <1>2, <1>3, <1>4

-----------------------------------------------------------------------------
\* The bytes of stream s that have reached their end, in account a.
Booked(a, s) == a.read[s] + a.dropped[s] + a.lost[s]

\* Of packet m, of channel m.c, what is not in the brigade is in the new account a.
Filed(m, a) ==
    \A d \in Chans, s \in Streams :
        Bytes(brigade', d, s) + (IF d = m.c THEN Booked(a, s) ELSE Booked(app[d], s))
          = Bytes(brigade, d, s) + Booked(app[d], s) + DataOf(m, d, s)

\* The same, with the account and the brigade in order; of the packet i bytes are ignored.
Files(m, a, i) ==
    /\ app' = [app EXCEPT ![m.c] = a]
    /\ brigade' \in Seq(Piece)
    /\ Filed(m, a)
    /\ a.ignored = app[m.c].ignored + i
    /\ Loses(app[m.c], a)

\* The accounts.
LEMMA Accounts ==
    ASSUME Types, NEW d \in Chans, NEW s \in Streams
    PROVE  /\ app[d] \in Account
           /\ app[d].read[s] \in Int /\ app[d].dropped[s] \in Int /\ app[d].lost[s] \in Nat
           /\ Booked(app[d], s) \in Int
           /\ Bytes(brigade, d, s) \in Nat
<1>1. app[d] \in Account
  BY DEF Types
<1>2. app[d].read[s] \in Int /\ app[d].dropped[s] \in Int /\ app[d].lost[s] \in Nat
  BY <1>1 DEF Account, Counts
<1>3. Bytes(brigade, d, s) \in Nat
  BY BytesSteps DEF Types
<1>4. Booked(app[d], s) \in Int
  BY <1>2 DEF Booked
<1> QED
  BY <1>1, <1>2, <1>3, <1>4

\* A packet that was read is accounted for if it was filed.
LEMMA ReadAccount ==
    ASSUME Types, NEW q, NEW m \in Message, Takes(q, m), NEW a \in Account,
           NEW i, Files(m, a, i)
    PROVE  ReadBytes
<1>0. q \in Seq(Message) /\ q # <<>> /\ m = Head(q) /\ inbound = q /\ inbound' = Tail(q)
  BY DEF Takes
<1>1. Tail(q) \in Seq(Message) /\ m.c \in Chans
  BY <1>0 DEF Message
<1> SUFFICES ASSUME NEW d \in Chans, NEW s \in Streams
             PROVE  Known(d, s)' = Known(d, s)
  BY DEF ReadBytes
<1>2. /\ Flying(q, d, s) = DataOf(m, d, s) + Flying(Tail(q), d, s)
      /\ Flying(Tail(q), d, s) \in Nat /\ DataOf(m, d, s) \in Nat
  BY <1>0, TailSteps
<1>3. PICK z \in Account : z = app'[d] /\ z = IF d = m.c THEN a ELSE app[d]
  BY <1>1, Accounts DEF Files, Types
<1>4. Bytes(brigade', d, s) + Booked(z, s) = Bytes(brigade, d, s) + Booked(app[d], s) + DataOf(m, d, s)
  BY <1>3 DEF Files, Filed
<1>5. Bytes(brigade', d, s) \in Nat
  BY BytesSteps DEF Files
<1>6. PICK f \in Nat, g \in Nat, h \in Nat, k \in Nat :
        f = Flying(Tail(q), d, s) /\ g = DataOf(m, d, s) /\ h = Bytes(brigade', d, s)
        /\ k = Bytes(brigade, d, s)
  BY <1>2, <1>5, Accounts
<1>7. PICK u \in Int, v \in Int, w \in Int :
        u = z.read[s] /\ v = z.dropped[s] /\ w = z.lost[s]
  BY DEF Account, Counts
<1>8. PICK u0 \in Int, v0 \in Int, w0 \in Int :
        u0 = app[d].read[s] /\ v0 = app[d].dropped[s] /\ w0 = app[d].lost[s]
  BY Accounts
<1>9. Known(d, s)' = f + h + u + v + w
  BY <1>0, <1>3, <1>6, <1>7 DEF Known
<1>10. Known(d, s) = (g + f) + k + u0 + v0 + w0
  BY <1>0, <1>2, <1>6, <1>8 DEF Known
<1>11. h + (u + v + w) = k + (u0 + v0 + w0) + g
  BY <1>4, <1>6, <1>7, <1>8 DEF Booked
<1>12. f + h + u + v + w = (g + f) + k + u0 + v0 + w0
  BY <1>11
<1> QED
  BY <1>9, <1>10, <1>12

\* Count f of stream s grows by n to g.
GrowsTo(f, s, n, g) ==
    /\ g = [f EXCEPT ![s] = @ + n]
    /\ \A t \in Streams : g[t] = f[t] + (IF t = s THEN n ELSE 0)

\* A count that grows.
LEMMA CountMore ==
    ASSUME NEW f \in [Streams -> Int], NEW s \in Streams, NEW n \in Int
    PROVE  \E g \in [Streams -> Int] : GrowsTo(f, s, n, g)
<1>1. \A t \in Streams : f[t] + n \in Int /\ f[t] \in Int
  OBVIOUS
<1>2. PICK g : g = [f EXCEPT ![s] = @ + n]
  OBVIOUS
<1>3. g \in [Streams -> Int]
  BY <1>1, <1>2
<1>4. \A t \in Streams : g[t] = f[t] + (IF t = s THEN n ELSE 0)
  BY <1>1, <1>2
<1> QED
  BY <1>2, <1>3, <1>4 DEF GrowsTo

\* The same, of a count that is never negative.
LEMMA LostMore ==
    ASSUME NEW f \in [Streams -> Nat], NEW s \in Streams, NEW n \in Nat
    PROVE  \E g \in [Streams -> Nat] : GrowsTo(f, s, n, g)
<1>1. \A t \in Streams : f[t] + n \in Nat /\ f[t] \in Int
  OBVIOUS
<1>2. PICK g : g = [f EXCEPT ![s] = @ + n]
  OBVIOUS
<1>3. g \in [Streams -> Nat]
  BY <1>1, <1>2
<1>4. \A t \in Streams : g[t] = f[t] + (IF t = s THEN n ELSE 0)
  BY <1>1, <1>2
<1> QED
  BY <1>2, <1>3, <1>4 DEF GrowsTo

\* A packet goes to the brigade as it is.
LEMMA FilesWhole ==
    ASSUME Types, NEW m \in Message, m.kind = "data", app' = app,
           brigade' = Append(brigade, [c |-> m.c, s |-> m.s, size |-> m.n, len |-> m.n])
    PROVE  Files(m, app[m.c], 0)
<1>1. /\ m.c \in Chans /\ m.s \in Streams /\ m.n \in Nat /\ m.n > 0
  BY DEF Message
<1>2. PICK z \in Piece : z = [c |-> m.c, s |-> m.s, size |-> m.n, len |-> m.n]
  BY <1>1 DEF Piece
<1>3. brigade \in Seq(Piece) /\ app \in [Chans -> Account] /\ brigade' = Append(brigade, z)
  BY <1>2 DEF Types
<1>4. ASSUME NEW d \in Chans, NEW s \in Streams
      PROVE  Bytes(brigade', d, s) = Bytes(brigade, d, s) + DataOf(m, d, s)
  <2>1. LenOf(z, d, s) = DataOf(m, d, s)
    BY <1>2 DEF LenOf, DataOf
  <2> QED
    BY <1>3, <2>1, BytesSteps
<1>5. Filed(m, app[m.c])
  <2> SUFFICES ASSUME NEW d \in Chans, NEW s \in Streams
               PROVE  Bytes(brigade', d, s) + (IF d = m.c THEN Booked(app[m.c], s) ELSE Booked(app[d], s))
                        = Bytes(brigade, d, s) + Booked(app[d], s) + DataOf(m, d, s)
    BY DEF Filed
  <2>1. PICK b \in Int, k \in Nat, g \in Nat :
          b = Booked(app[d], s) /\ k = Bytes(brigade, d, s) /\ g = DataOf(m, d, s)
    BY <1>1, Accounts DEF DataOf
  <2>2. (k + g) + b = k + b + g
    OBVIOUS
  <2> QED
    BY <1>4, <2>1, <2>2
<1>6. app' = [app EXCEPT ![m.c] = app[m.c]] /\ app[m.c] \in Account
  BY <1>1, <1>3
<1>7. app[m.c].ignored = app[m.c].ignored + 0
  BY <1>6 DEF Account
<1>8. Loses(app[m.c], app[m.c])
  BY <1>6, LosesNothing
<1>9. brigade' \in Seq(Piece)
  BY <1>3
<1> QED
  BY <1>5, <1>6, <1>7, <1>8, <1>9 DEF Files

\* A packet that is no data leaves both as they are.
LEMMA FilesNone ==
    ASSUME Types, NEW m \in Message, m.kind # "data", app' = app, brigade' = brigade
    PROVE  Files(m, app[m.c], 0)
<1>1. m.c \in Chans /\ brigade \in Seq(Piece) /\ app \in [Chans -> Account]
  BY DEF Message, Types
<1>5. Filed(m, app[m.c])
  <2> SUFFICES ASSUME NEW d \in Chans, NEW s \in Streams
               PROVE  Bytes(brigade, d, s) + (IF d = m.c THEN Booked(app[m.c], s) ELSE Booked(app[d], s))
                        = Bytes(brigade, d, s) + Booked(app[d], s) + DataOf(m, d, s)
    BY DEF Filed
  <2>1. PICK b \in Int, k \in Nat :
          b = Booked(app[d], s) /\ k = Bytes(brigade, d, s) /\ DataOf(m, d, s) = 0
    BY <1>1, Accounts DEF DataOf
  <2> QED
    BY <2>1
<1>6. app' = [app EXCEPT ![m.c] = app[m.c]] /\ app[m.c] \in Account
  BY <1>1
<1>7. app[m.c].ignored = app[m.c].ignored + 0
  BY <1>6 DEF Account
<1>8. Loses(app[m.c], app[m.c])
  BY <1>6, LosesNothing
<1> QED
  BY <1>1, <1>5, <1>6, <1>7, <1>8 DEF Files

\* Of the n bytes of packet m, of stream m.s, k go to the brigade and the others are
\* booked in account a.
LEMMA FilesPart ==
    ASSUME Types, NEW m \in Message, m.kind = "data", NEW a \in Account,
           app' = [app EXCEPT ![m.c] = a], NEW k \in Nat, k <= m.n,
           brigade' = IF k = 0 THEN brigade
                      ELSE Append(brigade, [c |-> m.c, s |-> m.s, size |-> k, len |-> k]),
           \A s \in Streams : Booked(a, s) = Booked(app[m.c], s) + (IF s = m.s THEN m.n - k ELSE 0)
    PROVE  Filed(m, a) /\ brigade' \in Seq(Piece)
<1>1. /\ m.c \in Chans /\ m.s \in Streams /\ m.n \in Nat
  BY DEF Message
<1>2. brigade \in Seq(Piece)
  BY DEF Types
<1>3. ASSUME k # 0 PROVE [c |-> m.c, s |-> m.s, size |-> k, len |-> k] \in Piece
  BY <1>1, <1>3 DEF Piece
<1>4. brigade' \in Seq(Piece)
  BY <1>2, <1>3
<1>5. ASSUME NEW d \in Chans, NEW s \in Streams
      PROVE  Bytes(brigade', d, s) = Bytes(brigade, d, s) + (IF m.c = d /\ m.s = s THEN k ELSE 0)
  <2>1. CASE k = 0
    BY <1>2, <2>1, Accounts
  <2>2. CASE k # 0
    <3>1. PICK z \in Piece : z = [c |-> m.c, s |-> m.s, size |-> k, len |-> k]
      BY <1>3, <2>2
    <3>2. LenOf(z, d, s) = IF m.c = d /\ m.s = s THEN k ELSE 0
      BY <3>1 DEF LenOf
    <3>3. brigade' = Append(brigade, z)
      BY <2>2, <3>1
    <3> QED
      BY <1>2, <3>2, <3>3, BytesSteps
  <2> QED
    BY <2>1, <2>2
<1>6. ASSUME NEW d \in Chans, NEW s \in Streams
      PROVE  Bytes(brigade', d, s) + (IF d = m.c THEN Booked(a, s) ELSE Booked(app[d], s))
               = Bytes(brigade, d, s) + Booked(app[d], s) + DataOf(m, d, s)
  <2>1. PICK b \in Int, w \in Nat, n \in Nat :
          b = Booked(app[d], s) /\ w = Bytes(brigade, d, s) /\ n = m.n
    BY <1>1, Accounts
  <2>2. CASE d = m.c /\ s = m.s
    <3>1. DataOf(m, d, s) = n /\ Booked(a, s) = b + (n - k) /\ Bytes(brigade', d, s) = w + k
      BY <1>5, <2>1, <2>2 DEF DataOf
    <3>2. (w + k) + (b + (n - k)) = w + b + n
      OBVIOUS
    <3> QED
      BY <2>1, <2>2, <3>1, <3>2
  <2>3. CASE d = m.c /\ s # m.s
    <3>1. DataOf(m, d, s) = 0 /\ Booked(a, s) = b + 0 /\ Bytes(brigade', d, s) = w + 0
      BY <1>5, <2>1, <2>3 DEF DataOf
    <3> QED
      BY <2>1, <2>3, <3>1
  <2>4. CASE d # m.c
    <3>1. DataOf(m, d, s) = 0 /\ Bytes(brigade', d, s) = w + 0
      BY <1>5, <2>1, <2>4 DEF DataOf
    <3> QED
      BY <2>1, <2>4, <3>1
  <2> QED
    BY <2>2, <2>3, <2>4
<1> QED
  BY <1>4, <1>6 DEF Filed

\* A packet of which k bytes go to the brigade, while the others are lost.
LEMMA FilesCut ==
    ASSUME Types, NEW m \in Message, m.kind = "data", NEW k \in Nat, k < m.n,
           Lost(m.c, m.s, m.n - k),
           brigade' = IF k = 0 THEN brigade
                      ELSE Append(brigade, [c |-> m.c, s |-> m.s, size |-> k, len |-> k])
    PROVE  \E a \in Account : Files(m, a, 0)
<1>1. /\ m.c \in Chans /\ m.s \in Streams /\ m.n \in Nat /\ app \in [Chans -> Account]
  BY DEF Message, Types
<1>2. PICK y \in Account : y = app[m.c]
  BY <1>1
<1>3. y.lost \in [Streams -> Nat] /\ y.ignored \in Nat
  BY DEF Account
<1>4. PICK j \in Nat : j = m.n - k
  BY <1>1
<1>5b. \E g \in [Streams -> Nat] : GrowsTo(y.lost, m.s, j, g)
  BY <1>1, <1>3, <1>4, LostMore, Zenon
<1>5. PICK g \in [Streams -> Nat] :
        /\ g = [y.lost EXCEPT ![m.s] = @ + j]
        /\ \A t \in Streams : g[t] = y.lost[t] + (IF t = m.s THEN j ELSE 0)
  BY <1>5b, Zenon DEF GrowsTo
<1>6. PICK a : a = [y EXCEPT !.lost = g]
  OBVIOUS
<1>7. a \in Account /\ a.lost = g /\ a.read = y.read /\ a.dropped = y.dropped /\ a.ignored = y.ignored
  BY <1>6 DEF Account
<1>8. app' = [app EXCEPT ![m.c] = a]
  BY <1>1, <1>2, <1>4, <1>5, <1>6 DEF Lost
<1>9. Loses(y, a)
  BY <1>3, <1>5, <1>7 DEF Loses
<1>10. ASSUME NEW s \in Streams
       PROVE  Booked(a, s) = Booked(app[m.c], s) + (IF s = m.s THEN m.n - k ELSE 0)
  <2>1. PICK u \in Int, v \in Int, w \in Int :
          u = y.read[s] /\ v = y.dropped[s] /\ w = y.lost[s]
    BY DEF Account, Counts
  <2>2. a.lost[s] = w + (IF s = m.s THEN j ELSE 0)
    BY <1>5, <1>7, <2>1
  <2>3. u + v + (w + (IF s = m.s THEN j ELSE 0)) = (u + v + w) + (IF s = m.s THEN j ELSE 0)
    OBVIOUS
  <2> QED
    BY <1>2, <1>4, <1>7, <2>1, <2>2, <2>3 DEF Booked
<1>10a. k <= m.n
  BY <1>1
<1>11. Filed(m, a) /\ brigade' \in Seq(Piece)
  BY <1>7, <1>8, <1>10, <1>10a, FilesPart
<1>12. a.ignored = app[m.c].ignored + 0
  BY <1>2, <1>3, <1>7
<1> QED
  BY <1>2, <1>7, <1>8, <1>9, <1>11, <1>12 DEF Files

\* A packet that is dropped; if its stream is ignored, i bytes of it count as such.
LEMMA FilesDropped ==
    ASSUME Types, NEW m \in Message, m.kind = "data", brigade' = brigade,
           NEW i \in Nat,
           \/ i = 0 /\ Dropped(m.c, m.s, m.n)
           \/ i = m.n /\ m.s = 1 /\ Ignored(m.c, m.n)
    PROVE  \E a \in Account : Files(m, a, i) /\ a.lost = app[m.c].lost
<1>1. /\ m.c \in Chans /\ m.s \in Streams /\ m.n \in Nat /\ app \in [Chans -> Account]
  BY DEF Message, Types
<1>2. PICK y \in Account : y = app[m.c]
  BY <1>1
<1>3. y.dropped \in [Streams -> Int] /\ y.ignored \in Nat
  BY DEF Account, Counts
<1>4. PICK n \in Int : n = m.n
  BY <1>1
<1>5b. \E g \in [Streams -> Int] : GrowsTo(y.dropped, m.s, n, g)
  BY <1>1, <1>3, <1>4, CountMore, Zenon
<1>5. PICK g \in [Streams -> Int] :
        /\ g = [y.dropped EXCEPT ![m.s] = @ + n]
        /\ \A t \in Streams : g[t] = y.dropped[t] + (IF t = m.s THEN n ELSE 0)
  BY <1>5b, Zenon DEF GrowsTo
<1>5a. PICK h \in Nat : h = y.ignored + i
  BY <1>3
<1>6. \E a \in Account :
        /\ app' = [app EXCEPT ![m.c] = a]
        /\ a.lost = y.lost /\ a.read = y.read /\ a.dropped = g /\ a.ignored = h
  <2>1. CASE i = 0 /\ Dropped(m.c, m.s, m.n)
    <3>1. PICK a : a = [y EXCEPT !.dropped = g]
      OBVIOUS
    <3>2. a \in Account /\ a.lost = y.lost /\ a.read = y.read /\ a.dropped = g /\ a.ignored = y.ignored
      BY <3>1 DEF Account, Counts
    <3>3. app' = [app EXCEPT ![m.c] = a]
      BY <1>1, <1>2, <1>4, <1>5, <2>1, <3>1 DEF Dropped
    <3>4. h = y.ignored
      BY <1>3, <1>5a, <2>1
    <3> QED
      BY <3>2, <3>3, <3>4
  <2>2. CASE i = m.n /\ m.s = 1 /\ Ignored(m.c, m.n)
    <3>1. PICK a : a = [y EXCEPT !.dropped = g, !.ignored = h]
      OBVIOUS
    <3>2. a \in Account /\ a.lost = y.lost /\ a.read = y.read /\ a.dropped = g /\ a.ignored = h
      BY <3>1 DEF Account, Counts
    <3>3. app' = [app EXCEPT ![m.c] = a]
      BY <1>1, <1>2, <1>4, <1>5, <1>5a, <2>2, <3>1 DEF Ignored
    <3> QED
      BY <3>2, <3>3
  <2> QED
    BY <2>1, <2>2
<1>7. PICK a \in Account :
        /\ app' = [app EXCEPT ![m.c] = a]
        /\ a.lost = y.lost /\ a.read = y.read /\ a.dropped = g /\ a.ignored = h
  BY <1>6
<1>9. Loses(y, a)
  BY <1>7, LosesNothing
<1>10. ASSUME NEW s \in Streams
       PROVE  Booked(a, s) = Booked(app[m.c], s) + (IF s = m.s THEN m.n - 0 ELSE 0)
  <2>1. PICK u \in Int, v \in Int, w \in Int :
          u = y.read[s] /\ v = y.dropped[s] /\ w = y.lost[s]
    BY DEF Account, Counts
  <2>2. a.dropped[s] = v + (IF s = m.s THEN n ELSE 0)
    BY <1>5, <1>7, <2>1
  <2>3. u + (v + (IF s = m.s THEN n ELSE 0)) + w = (u + v + w) + (IF s = m.s THEN n - 0 ELSE 0)
    OBVIOUS
  <2> QED
    BY <1>2, <1>4, <1>7, <2>1, <2>2, <2>3 DEF Booked
<1>11. Filed(m, a) /\ brigade' \in Seq(Piece)
  <2>1. PICK k \in Nat : k = 0
    OBVIOUS
  <2>2. k <= m.n /\ brigade' = IF k = 0 THEN brigade
                     ELSE Append(brigade, [c |-> m.c, s |-> m.s, size |-> k, len |-> k])
    BY <1>1, <2>1
  <2>3. \A s \in Streams : Booked(a, s) = Booked(app[m.c], s) + (IF s = m.s THEN m.n - k ELSE 0)
    BY <1>10, <2>1
  <2> QED
    BY <1>7, <2>2, <2>3, FilesPart
<1> QED
  BY <1>2, <1>5a, <1>7, <1>9, <1>11 DEF Files

\* Packet m was read: its channel, the peer and the account of that change to r, p and a.
LEMMA ReadChange ==
    ASSUME Types, ChannelInv, NEW q, NEW m \in Message, Takes(q, m),
           NEW c \in Chans, c = m.c,
           NEW r \in Channel, NEW p \in Peer, NEW x \in {"up", "disconnected", "broken"},
           NEW a \in Account, NEW i, Files(m, a, i),
           ch' = [ch EXCEPT ![c] = r], peer' = [peer EXCEPT ![c] = p],
           net' = x, x \in {net, "disconnected"},
           add' \in Answers \cup {NoAnswer}, pend' \in Pendings,
           Keeps(ch[c], r, peer[c], p),
           LocalOK(r, p, Granted(Tail(q), c)),
           RemoteOK(r, p, a, Flying(Tail(q), c, 0) + Flying(Tail(q), c, 1), x)
    PROVE  ReadTypes /\ ReadChannels /\ ReadBytes
<1>1. Tail(q) \in Seq(Message) /\ inbound' = Tail(q)
  BY DEF Takes
<1>2. Untouched(Tail(q), c)
  BY TakesUntouched
<1>3. app' = [app EXCEPT ![c] = a] /\ brigade' \in Seq(Piece) /\ Loses(app[c], a)
  BY DEF Files
<1>4. ReadTypes /\ ReadChannels
  BY <1>1, <1>2, <1>3, ReadFrame
<1>5. ReadBytes
  BY ReadAccount
<1> QED
  BY <1>4, <1>5

\* What holds of the channel of the packet in front.
LEMMA BeforeRead ==
    ASSUME Types, ChannelInv, NEW q \in Seq(Message), q # <<>>, inbound = q,
           NEW m \in Message, m = Head(q), NEW c \in Chans, c = m.c
    PROVE  /\ Granted(Tail(q), c) \in Nat
           /\ Flying(Tail(q), c, 0) + Flying(Tail(q), c, 1) \in Nat
           /\ LocalOK(ch[c], peer[c], GrantOf(m, c) + Granted(Tail(q), c))
           /\ RemoteOK(ch[c], peer[c], app[c], Flying(Tail(q), c, 0) + Flying(Tail(q), c, 1)
                                         + (IF m.kind = "data" THEN m.n ELSE 0), net)
<1>1. /\ LocalOK(ch[c], peer[c], Granted(q, c))
      /\ RemoteOK(ch[c], peer[c], app[c], Flying(q, c, 0) + Flying(q, c, 1), net)
  BY DEF ChannelInv
<1>2. 0 \in Streams /\ 1 \in Streams /\ m.s \in Streams /\ m.n \in Nat
  BY DEF Streams, Message
<1>3. /\ \A s \in Streams :
           /\ Flying(q, c, s) = DataOf(m, c, s) + Flying(Tail(q), c, s)
           /\ Flying(Tail(q), c, s) \in Nat /\ DataOf(m, c, s) \in Nat
      /\ Granted(q, c) = GrantOf(m, c) + Granted(Tail(q), c)
      /\ Granted(Tail(q), c) \in Nat
  BY TailSteps
<1>4. DataOf(m, c, 0) + DataOf(m, c, 1) = IF m.kind = "data" THEN m.n ELSE 0
  BY <1>2 DEF DataOf, Streams
<1>5. PICK f0 \in Nat, f1 \in Nat, d0 \in Nat, d1 \in Nat, d \in Nat :
        /\ f0 = Flying(Tail(q), c, 0) /\ f1 = Flying(Tail(q), c, 1)
        /\ d0 = DataOf(m, c, 0) /\ d1 = DataOf(m, c, 1)
        /\ d = IF m.kind = "data" THEN m.n ELSE 0
  BY <1>2, <1>3
<1>6. (d0 + f0) + (d1 + f1) = f0 + f1 + d
  BY <1>4, <1>5
<1>7. Flying(q, c, 0) = d0 + f0 /\ Flying(q, c, 1) = d1 + f1
  BY <1>2, <1>3, <1>5
<1>8. RemoteOK(ch[c], peer[c], app[c], f0 + f1 + d, net)
  BY <1>1, <1>6, <1>7
<1>9. f0 + f1 \in Nat
  OBVIOUS
<1>10. LocalOK(ch[c], peer[c], GrantOf(m, c) + Granted(Tail(q), c))
  BY <1>1, <1>3, Zenon
<1> QED
  BY <1>3, <1>5, <1>8, <1>9, <1>10

\* A reply or a window adjustment keeps the channel in order.
LEMMA WidenedInOrder ==
    ASSUME NEW s \in Channel, NEW r \in Channel, NEW a \in Peer, NEW p \in Peer, NEW x,
           NEW y \in Account, NEW f \in Nat, NEW g \in Nat,
           Widened(s, r, a, p, x), LocalOK(s, a, g), RemoteOK(s, a, y, f, x)
    PROVE  LocalOK(r, p, g) /\ RemoteOK(r, p, y, f, x) /\ Keeps(s, r, a, p)
<1>1. LocalOK(r, p, g)
  BY DEF LocalOK, Widened, SameBut
<1>2. Keeps(s, r, a, p)
  BY DEF Keeps, Widened, SameBut
<1>3. /\ s.live = r.live
      /\ p.grant + s.rwin + s.slipped = a.grant + r.rwin + r.slipped
      /\ s.live => s.rwin + s.slipped = a.grant + f + y.ignored
  BY DEF Widened, SameBut, RemoteOK
<1>4. PICK g0 \in Nat, w0 \in Nat, l0 \in Int, g1 \in Nat, w1 \in Nat, l1 \in Int, i \in Nat :
        /\ g0 = a.grant /\ w0 = s.rwin /\ l0 = s.slipped
        /\ g1 = p.grant /\ w1 = r.rwin /\ l1 = r.slipped /\ i = y.ignored
  BY DEF Channel, Peer, Account
<1>5. g1 + w0 + l0 = g0 + w1 + l1 /\ w0 + l0 = g0 + f + i => w1 + l1 = g1 + f + i
  OBVIOUS
<1>6. r.live => r.rwin + r.slipped = p.grant + f + y.ignored
  BY <1>3, <1>4, <1>5
<1>7. Slips(s)
  BY DEF RemoteOK, Slips
<1>8. Slips(r) /\ (s.stalled => r.stalled)
  BY <1>7 DEF Widened
<1>9. r.adjusting \/ r.slipped # 0 \/ y.lost # Zero => r.stalled
  BY <1>8 DEF Slips, RemoteOK
<1>10. x = "up" => p.refused \subseteq {"adjust", "failure"}
  BY DEF RemoteOK, Widened, Stood
<1>11. RemoteOK(r, p, y, f, x)
  BY <1>6, <1>9, <1>10 DEF RemoteOK
<1> QED
  BY <1>1, <1>2, <1>11

\* The answer to a packet.
LEMMA AnswerSends ==
    ASSUME Types, NEW m \in Answers, NEW rc, Answer(m, rc), net = "up" => Loose(pend),
           NEW c \in Chans, c = m.c
    PROVE  /\ rc \in {"packet", "EAGAIN"}
           /\ add' \in Answers \cup {NoAnswer} /\ pend' \in Pendings
           /\ net = "up" => Loose(pend')
           /\ brigade' = brigade /\ net' = net
           /\ \E r \in Channel, p \in Peer :
                /\ ch' = [ch EXCEPT ![c] = r] /\ peer' = [peer EXCEPT ![c] = p]
                /\ Widened(ch[c], r, peer[c], p, net)
<1>1. m.n \in Nat /\ m.kind \in {"data", "request"}
  BY DEF Answers, Message
<1>2. PICK w \in {"NONE", "EAGAIN", "FAIL"} :
        /\ \/ /\ m.kind = "data"
              /\ Adjust(c, m.n, FALSE, w)
              /\ ch' = [ch EXCEPT ![c] = Adjusted(c, m.n, FALSE, w)]
           \/ /\ m.kind = "request"
              /\ Send("failure", c, 0, w)
              /\ UNCHANGED ch
        /\ rc = IF w = "EAGAIN" THEN w ELSE "packet"
        /\ add' = IF w = "EAGAIN" THEN m ELSE NoAnswer
  BY Zenon DEF Answer
<1>3. rc \in {"packet", "EAGAIN"} /\ add' \in Answers \cup {NoAnswer}
  BY <1>2
<1>4. brigade' = brigade /\ net' = net
  BY DEF Answer
<1>5. CASE /\ m.kind = "data"
           /\ Adjust(c, m.n, FALSE, w)
           /\ ch' = [ch EXCEPT ![c] = Adjusted(c, m.n, FALSE, w)]
  <2>3. PICK n \in Nat, force \in BOOLEAN : n = m.n /\ force = FALSE
    BY <1>1
  <2>4. Adjust(c, n, force, w)
    BY <1>5, <2>3, Zenon
  <2>5. /\ net = "up" => Loose(pend')
        /\ pend' \in Pendings
        /\ \E r \in Channel, p \in Peer :
                /\ peer' = [peer EXCEPT ![c] = p]
                /\ r = Adjusted(c, n, force, w)
                /\ Widened(ch[c], r, peer[c], p, net)
    BY <2>4, Adjusts
  <2>6. PICK r \in Channel, p \in Peer :
                /\ peer' = [peer EXCEPT ![c] = p]
                /\ r = Adjusted(c, n, force, w)
                /\ Widened(ch[c], r, peer[c], p, net)
    BY <2>5
  <2>7. ch' = [ch EXCEPT ![c] = r]
    BY <1>5, <2>3, <2>6, Zenon
  <2> QED
    BY <1>3, <1>4, <2>5, <2>6, <2>7
<1>6. CASE m.kind = "request" /\ Send("failure", c, 0, w) /\ UNCHANGED ch
  <2>1. PICK n \in Int, kind \in PacketKinds : n = 0 /\ kind = "failure"
    BY DEF PacketKinds
  <2>2. Send(kind, c, n, w)
    BY <1>6, <2>1, Zenon
  <2>3. kind # "adjust" /\ kind # "data" /\ kind # "close"
    BY <2>1
  <2>4. /\ w = "NONE" => pend' = NoPacket
        /\ w = "EAGAIN" => pend' = <<kind, c>>
        /\ w = "FAIL" => pend' = pend
        /\ pend' \in Pendings
    BY <2>2, <2>3, Sends, Zenon
  <2>5. PICK p \in Peer :
          /\ peer' = [peer EXCEPT ![c] = p]
          /\ Delivered(kind, n, w, peer[c], p)
          /\ net = "up" => Stood(peer[c], p)
    BY <2>2, <2>3, Sends, Zenon
  <2>6. net = "up" => Loose(pend')
    BY <2>1, <2>4, <1>2 DEF Loose
  <2>7. PICK s \in Channel, a \in Peer : s = ch[c] /\ a = peer[c]
    BY DEF Types
  <2>8. ch' = [ch EXCEPT ![c] = s]
    BY <1>6, <2>7 DEF Types
  <2>9. /\ a.window \in Int /\ a.closes \in Nat /\ a.grant \in Nat
        /\ s.rwin \in Nat /\ s.slipped \in Int
    BY DEF Peer, Channel
  <2>10. p.window = a.window /\ p.closes = a.closes /\ p.sent = a.sent /\ p.grant = a.grant
    BY <2>3, <2>5, <2>7, <2>9 DEF Delivered
  <2>11. Widened(s, s, a, p, net)
    BY <2>5, <2>7, <2>9, <2>10 DEF Widened, SameBut
  <2> QED
    BY <1>3, <1>4, <2>4, <2>5, <2>6, <2>7, <2>8, <2>11
<1> QED
  BY <1>2, <1>5, <1>6

\* One packet is dealt with (_libssh2_packet_add).  Data is cut only if something slipped:
\* otherwise it fits into the window, with all that is still under way.
LEMMA ReadPacket ==
    ASSUME Types, ChannelInv, net = "up" => Loose(pend), net # "disconnected",
           NEW q, NEW m \in Message, Takes(q, m), NEW rc, PacketAdd(m, rc)
    PROVE  /\ ReadTypes /\ ReadChannels /\ ReadBytes
           /\ net' = "up" => net = "up" /\ Loose(pend')
           /\ rc \in {"packet", "EAGAIN", "FAIL"}
           /\ rc = "FAIL" => net' = "disconnected"
           /\ net' # net => rc = "FAIL"
<1>1. PICK c \in Chans : c = m.c
  BY DEF Message
<1>2. m.s \in Streams /\ m.n \in Nat /\ (m.kind = "data" => m.n > 0)
  BY DEF Message
<1>3. PICK s \in Channel : s = ch[c]
  BY DEF Types
<1>4. PICK a \in Peer : a = peer[c]
  BY DEF Types
<1>4a. PICK t \in Account : t = app[c]
  BY DEF Types
<1>5. PICK x \in {"up", "disconnected", "broken"} : x = net
  BY DEF Types
<1>6. PICK G \in Nat, F \in Nat :
        G = Granted(Tail(q), c) /\ F = Flying(Tail(q), c, 0) + Flying(Tail(q), c, 1)
  BY <1>1, BeforeRead DEF Takes
<1>7. LocalOK(s, a, GrantOf(m, c) + G)
  BY <1>1, <1>3, <1>4, <1>6, BeforeRead DEF Takes
<1>8. RemoteOK(s, a, t, F + (IF m.kind = "data" THEN m.n ELSE 0), x)
  BY <1>1, <1>3, <1>4, <1>4a, <1>5, <1>6, BeforeRead DEF Takes
<1>9. /\ ch = [ch EXCEPT ![c] = s] /\ peer = [peer EXCEPT ![c] = a]
  BY <1>3, <1>4 DEF Types
<1>10. /\ s.lwin \in Nat /\ s.rwin \in Nat /\ s.slipped \in Int /\ s.live \in BOOLEAN
       /\ s.stalled \in BOOLEAN /\ s.adjusting \in BOOLEAN /\ s.reof \in BOOLEAN
       /\ a.window \in Int /\ a.grant \in Nat /\ t.ignored \in Nat
  BY DEF Channel, Peer, Account
<1>11. Keeps(s, s, a, a)
  BY DEF Keeps
<1>12. ASSUME m.kind # "adjust" PROVE LocalOK(s, a, G)
  BY <1>6, <1>7, <1>12 DEF GrantOf
<1>13. ASSUME NEW r \in Channel, NEW p \in Peer, NEW y \in {"up", "disconnected", "broken"},
              NEW z \in Account, NEW i, Files(m, z, i),
              ch' = [ch EXCEPT ![c] = r], peer' = [peer EXCEPT ![c] = p],
              net' = y, y \in {x, "disconnected"},
              add' \in Answers \cup {NoAnswer}, pend' \in Pendings,
              Keeps(s, r, a, p), LocalOK(r, p, G), RemoteOK(r, p, z, F, y)
       PROVE  ReadTypes /\ ReadChannels /\ ReadBytes
  BY <1>1, <1>3, <1>4, <1>5, <1>6, <1>13, ReadChange
<1>14. add \in Answers \cup {NoAnswer} /\ pend \in Pendings
  BY DEF Types
<1>15. CASE /\ m.kind = "disconnect" /\ net' = "disconnected" /\ rc = "FAIL"
            /\ UNCHANGED <<ch, brigade, pend, add, peer, app>>
  <2>1. RemoteOK(s, a, t, F, "disconnected")
    BY <1>6, <1>8, <1>15 DEF RemoteOK
  <2>2. Files(m, t, 0)
    BY <1>1, <1>4a, <1>15, FilesNone
  <2>3. LocalOK(s, a, G)
    BY <1>12, <1>15
  <2>4. ch' = [ch EXCEPT ![c] = s] /\ peer' = [peer EXCEPT ![c] = a]
    BY <1>9, <1>15
  <2> QED
    BY <1>11, <1>13, <1>14, <1>15, <2>1, <2>2, <2>3, <2>4
<1>16. CASE /\ m.kind \notin {"disconnect", "request"} /\ ~ch[c].live /\ rc = "packet"
            /\ IF m.kind = "data" THEN Dropped(c, m.s, m.n) ELSE UNCHANGED app
            /\ UNCHANGED <<ch, brigade, net, pend, add, peer>>
  <2>1. ~s.live
    BY <1>3, <1>16
  <2>3. PICK z \in Account, i \in Nat : Files(m, z, i) /\ z.lost = t.lost
    <3>1. CASE m.kind = "data"
      <4>1. PICK i \in Nat : i = 0
        OBVIOUS
      <4>2. \E z \in Account : Files(m, z, i) /\ z.lost = app[m.c].lost
        BY <1>1, <1>16, <3>1, <4>1, FilesDropped
      <4> QED
        BY <1>1, <1>4a, <4>2
    <3>2. CASE m.kind # "data"
      <4>1. Files(m, t, 0)
        BY <1>1, <1>4a, <1>16, <3>2, FilesNone
      <4> QED
        BY <4>1
    <3> QED
      BY <3>1, <3>2
  <2>2. RemoteOK(s, a, z, F, x)
    BY <1>8, <2>1, <2>3 DEF RemoteOK
  <2>4. LocalOK(s, a, G)
    <3>1. PICK n \in Nat : n = GrantOf(m, c)
      BY <1>2 DEF GrantOf
    <3>2. s.lwin + (n + G) <= a.window /\ (s.writing = "created" => s.bufwrite <= s.lwin)
      BY <1>7, <3>1 DEF LocalOK
    <3>3. PICK u \in Nat, v \in Int : u = s.lwin /\ v = a.window
      BY <1>10
    <3>4. u + G <= v
      BY <3>2, <3>3
    <3> QED
      BY <3>2, <3>3, <3>4 DEF LocalOK
  <2>5. ch' = [ch EXCEPT ![c] = s] /\ peer' = [peer EXCEPT ![c] = a]
    BY <1>9, <1>16
  <2> QED
    BY <1>5, <1>11, <1>13, <1>14, <1>16, <2>2, <2>3, <2>4, <2>5
<1>17. CASE /\ m.kind = "data" /\ ch[c].live /\ rc = "packet"
            /\ KeepData(c, m.s, m.n)
            /\ UNCHANGED <<net, pend, add, peer>>
  <2>0. PICK n \in Nat : n = m.n
    BY <1>2
  <2>1. PICK u \in Nat, g \in Nat, l \in Int, i \in Nat :
          u = s.rwin /\ g = a.grant /\ l = s.slipped /\ i = t.ignored
    BY <1>10
  <2>2. RemoteOK(s, a, t, F + n, x)
    BY <1>8, <1>17, <2>0
  <2>3. u + l = g + (F + n) + i /\ n > 0
    BY <1>2, <1>3, <1>17, <2>0, <2>1, <2>2 DEF RemoteOK
  <2>4. LocalOK(s, a, G)
    BY <1>12, <1>17
  <2>5. peer' = [peer EXCEPT ![c] = a] /\ net' = x /\ add' \in Answers \cup {NoAnswer}
        /\ pend' \in Pendings /\ pend' = pend
    BY <1>5, <1>9, <1>14, <1>17
  <2>6. CASE /\ m.n <= ch[c].rwin
             /\ brigade' = Append(brigade, [c |-> c, s |-> m.s, size |-> m.n, len |-> m.n])
             /\ ch' = [ch EXCEPT ![c].reof = FALSE, ![c].rwin = @ - m.n]
             /\ UNCHANGED app
    <3>1. n <= u
      BY <1>3, <2>0, <2>1, <2>6
    <3>2a. u - n \in Nat
      BY <2>0, <2>1, <3>1
    <3>2. PICK w \in Nat, f \in BOOLEAN : w = u - n /\ f = FALSE
      BY <3>2a, Zenon
    <3>3. PICK r : r = [s EXCEPT !.reof = f, !.rwin = w]
      OBVIOUS
    <3>4. ch' = [ch EXCEPT ![c] = r]
      BY <1>3, <2>0, <2>1, <2>6, <3>2, <3>3 DEF Types
    <3>5. r \in Channel
      BY <3>3 DEF Channel
    <3>6. /\ r.live = s.live /\ r.lclose = s.lclose /\ r.closing = s.closing /\ r.writing = s.writing
          /\ r.lwin = s.lwin /\ r.bufwrite = s.bufwrite /\ r.adjusting = s.adjusting
          /\ r.slipped = s.slipped /\ r.stalled = s.stalled /\ r.jump1 = s.jump1 /\ r.rwin = w
      BY <3>3 DEF Channel
    <3>7. Keeps(s, r, a, a)
      BY <3>6 DEF Keeps
    <3>8. LocalOK(r, a, G)
      BY <2>4, <3>6 DEF LocalOK
    <3>9. w + l = g + F + i
      BY <2>3, <3>2
    <3>10. RemoteOK(r, a, t, F, x)
      BY <2>1, <2>2, <3>6, <3>9 DEF RemoteOK
    <3>11. Files(m, t, 0)
      BY <1>1, <1>4a, <1>17, <2>6, FilesWhole
    <3> QED
      BY <1>13, <1>17, <2>5, <3>4, <3>5, <3>7, <3>8, <3>10, <3>11
  <2>7. CASE /\ ch[c].rwin < m.n
             /\ Lost(c, m.s, m.n - ch[c].rwin)
             /\ brigade' = IF ch[c].rwin = 0 THEN brigade
                           ELSE Append(brigade, [c |-> c, s |-> m.s,
                                                 size |-> ch[c].rwin, len |-> ch[c].rwin])
             /\ ch' = [ch EXCEPT ![c].reof = @ /\ ch[c].rwin = 0, ![c].slipped = @ - m.n]
    <3>1. u < n
      BY <1>3, <2>0, <2>1, <2>7
    <3>2a. l - n \in Int
      BY <2>0, <2>1
    <3>2. PICK w \in Int, f \in BOOLEAN : w = l - n /\ f = (s.reof /\ s.rwin = 0)
      BY <3>2a, Zenon
    <3>3. PICK r : r = [s EXCEPT !.reof = f, !.slipped = w]
      OBVIOUS
    <3>4. ch' = [ch EXCEPT ![c] = r]
      BY <1>3, <2>0, <2>1, <2>7, <3>2, <3>3 DEF Types
    <3>5. r \in Channel
      BY <3>3 DEF Channel
    <3>6. /\ r.live = s.live /\ r.lclose = s.lclose /\ r.closing = s.closing /\ r.writing = s.writing
          /\ r.lwin = s.lwin /\ r.bufwrite = s.bufwrite /\ r.adjusting = s.adjusting
          /\ r.slipped = w /\ r.stalled = s.stalled /\ r.jump1 = s.jump1 /\ r.rwin = s.rwin
      BY <3>3 DEF Channel
    <3>7. Keeps(s, r, a, a)
      BY <3>6 DEF Keeps
    <3>8. LocalOK(r, a, G)
      BY <2>4, <3>6 DEF LocalOK
    <3>9. u + w = g + F + i /\ l # 0
      BY <2>3, <3>1, <3>2
    <3>10. s.stalled
      BY <2>1, <2>2, <3>9 DEF RemoteOK
    <3>11. PICK z \in Account : Files(m, z, 0)
      <4>1. /\ u < m.n /\ Lost(m.c, m.s, m.n - u)
            /\ brigade' = IF u = 0 THEN brigade
                          ELSE Append(brigade, [c |-> m.c, s |-> m.s, size |-> u, len |-> u])
        BY <1>1, <1>3, <2>1, <2>7
      <4> QED
        BY <1>17, <4>1, FilesCut
    <3>12. z.ignored = i
      BY <1>1, <1>4a, <2>1, <3>11 DEF Files
    <3>13. RemoteOK(r, a, z, F, x)
      BY <2>1, <2>2, <3>6, <3>9, <3>10, <3>12 DEF RemoteOK
    <3> QED
      BY <1>13, <1>17, <2>5, <3>4, <3>5, <3>7, <3>8, <3>11, <3>13
  <2> QED
    BY <1>17, <2>6, <2>7 DEF KeepData
<1>21. ASSUME m \in Answers, Answer(m, rc), NEW z \in Account, NEW i, Files(m, z, i),
              m.kind # "adjust", RemoteOK(s, a, z, F, x)
       PROVE  /\ ReadTypes /\ ReadChannels /\ ReadBytes
              /\ net' = "up" => net = "up" /\ Loose(pend')
              /\ rc \in {"packet", "EAGAIN"}
              /\ net' = net
  <2>1. /\ rc \in {"packet", "EAGAIN"}
        /\ add' \in Answers \cup {NoAnswer} /\ pend' \in Pendings
        /\ net = "up" => Loose(pend')
        /\ net' = net
    BY <1>1, <1>21, AnswerSends
  <2>2. PICK r \in Channel, p \in Peer :
                /\ ch' = [ch EXCEPT ![c] = r] /\ peer' = [peer EXCEPT ![c] = p]
                /\ Widened(ch[c], r, peer[c], p, net)
    BY <1>1, <1>21, AnswerSends
  <2>3. Widened(s, r, a, p, x)
    BY <1>3, <1>4, <1>5, <2>2
  <2>4. LocalOK(s, a, G)
    BY <1>12, <1>21
  <2>5. LocalOK(r, p, G) /\ RemoteOK(r, p, z, F, x) /\ Keeps(s, r, a, p)
    BY <1>21, <2>3, <2>4, WidenedInOrder
  <2> QED
    BY <1>5, <1>13, <1>21, <2>1, <2>2, <2>5
<1>18. CASE /\ m.kind = "data" /\ ch[c].live /\ m.s = 1 /\ ch[c].mode = "ignore"
            /\ Ignored(c, m.n) /\ Answer(m, rc)
  <2>0. PICK n \in Nat : n = m.n
    BY <1>2
  <2>1. m \in Answers
    BY <1>18 DEF Answers
  <2>2. brigade' = brigade
    BY <1>18 DEF Answer
  <2>3. \E z \in Account : Files(m, z, n) /\ z.lost = app[m.c].lost
    BY <1>1, <1>18, <2>0, <2>2, FilesDropped
  <2>4. PICK z \in Account : Files(m, z, n) /\ z.lost = app[m.c].lost
    BY <2>3
  <2>5. z.ignored = t.ignored + n /\ z.lost = t.lost
    BY <1>1, <1>4a, <2>4 DEF Files
  <2>6. RemoteOK(s, a, t, F + n, x)
    BY <1>8, <1>18, <2>0
  <2>7. s.live => s.rwin + s.slipped = a.grant + F + z.ignored
    <3>1. PICK u \in Nat, g \in Nat, l \in Int, i \in Nat :
            u = s.rwin /\ g = a.grant /\ l = s.slipped /\ i = t.ignored
      BY <1>10
    <3>2. u + l = g + (F + n) + i => u + l = g + F + (i + n)
      OBVIOUS
    <3> QED
      BY <2>5, <2>6, <3>1, <3>2 DEF RemoteOK
  <2>8. RemoteOK(s, a, z, F, x)
    BY <2>5, <2>6, <2>7 DEF RemoteOK
  <2> QED
    BY <1>18, <1>21, <2>1, <2>4, <2>8
<1>19. CASE m.kind = "request" /\ Answer(m, rc) /\ UNCHANGED app
  <2>1. m \in Answers
    BY <1>19 DEF Answers
  <2>2. brigade' = brigade
    BY <1>19 DEF Answer
  <2>3. Files(m, t, 0)
    BY <1>1, <1>4a, <1>19, <2>2, FilesNone
  <2>4. RemoteOK(s, a, t, F, x)
    BY <1>6, <1>8, <1>19
  <2> QED
    BY <1>19, <1>21, <2>1, <2>3, <2>4
<1>20. CASE /\ m.kind \in {"eof", "close", "adjust"} /\ ch[c].live /\ rc = "packet"
            /\ ch' = [ch EXCEPT ![c] = Told(@, m)]
            /\ UNCHANGED <<brigade, net, pend, add, peer, app>>
  <2>1. PICK r : r = Told(s, m)
    OBVIOUS
  <2>2. ch' = [ch EXCEPT ![c] = r]
    BY <1>3, <1>20, <2>1, Zenon
  <2>3. /\ r \in Channel
        /\ r.live = s.live /\ r.lclose = s.lclose /\ r.closing = s.closing /\ r.writing = s.writing
        /\ r.bufwrite = s.bufwrite /\ r.adjusting = s.adjusting
        /\ r.slipped = s.slipped /\ r.stalled = s.stalled /\ r.jump1 = s.jump1
        /\ r.mode = s.mode /\ r.rwin = s.rwin
        /\ r.lwin = s.lwin + (IF m.kind = "adjust" THEN m.n ELSE 0)
    <3>1. PICK b \in BOOLEAN : b = TRUE
      OBVIOUS
    <3>2. PICK n \in Nat : n = s.lwin + m.n
      BY <1>2, <1>10
    <3>3. CASE m.kind = "eof"
      <4>1. r = [s EXCEPT !.reof = b]
        BY <2>1, <3>1, <3>3 DEF Told
      <4>2. r \in Channel
        BY <4>1 DEF Channel
      <4>3. /\ r.live = s.live /\ r.lclose = s.lclose /\ r.closing = s.closing /\ r.writing = s.writing
            /\ r.bufwrite = s.bufwrite /\ r.adjusting = s.adjusting
            /\ r.slipped = s.slipped /\ r.stalled = s.stalled /\ r.jump1 = s.jump1
            /\ r.mode = s.mode /\ r.rwin = s.rwin /\ r.lwin = s.lwin
        BY <4>1 DEF Channel
      <4> QED
        BY <1>10, <3>3, <4>2, <4>3
    <3>4. CASE m.kind = "close"
      <4>1. r = [s EXCEPT !.reof = b, !.rclose = b]
        BY <2>1, <3>1, <3>4 DEF Told
      <4>2. r \in Channel
        BY <4>1 DEF Channel
      <4>3. /\ r.live = s.live /\ r.lclose = s.lclose /\ r.closing = s.closing /\ r.writing = s.writing
            /\ r.bufwrite = s.bufwrite /\ r.adjusting = s.adjusting
            /\ r.slipped = s.slipped /\ r.stalled = s.stalled /\ r.jump1 = s.jump1
            /\ r.mode = s.mode /\ r.rwin = s.rwin /\ r.lwin = s.lwin
        BY <4>1 DEF Channel
      <4> QED
        BY <1>10, <3>4, <4>2, <4>3
    <3>5. CASE m.kind = "adjust"
      <4>1. r = [s EXCEPT !.lwin = n]
        BY <2>1, <3>2, <3>5 DEF Told
      <4>2. r \in Channel
        BY <4>1 DEF Channel
      <4>3. /\ r.live = s.live /\ r.lclose = s.lclose /\ r.closing = s.closing /\ r.writing = s.writing
            /\ r.bufwrite = s.bufwrite /\ r.adjusting = s.adjusting
            /\ r.slipped = s.slipped /\ r.stalled = s.stalled /\ r.jump1 = s.jump1
            /\ r.mode = s.mode /\ r.rwin = s.rwin /\ r.lwin = n
        BY <4>1 DEF Channel
      <4> QED
        BY <3>2, <3>5, <4>2, <4>3
    <3> QED
      BY <1>20, <3>3, <3>4, <3>5
  <2>4. Keeps(s, r, a, a)
    BY <2>3 DEF Keeps
  <2>5. LocalOK(r, a, G)
    <3>1. GrantOf(m, c) = IF m.kind = "adjust" THEN m.n ELSE 0
      BY <1>1 DEF GrantOf
    <3>2. s.bufwrite \in Int
      BY DEF Channel
    <3>3. s.lwin + ((IF m.kind = "adjust" THEN m.n ELSE 0) + G) <= a.window
          /\ (s.writing = "created" => s.bufwrite <= s.lwin)
      BY <1>7, <3>1 DEF LocalOK
    <3>4a. PICK n \in Nat : n = IF m.kind = "adjust" THEN m.n ELSE 0
      BY <1>2
    <3>4b. PICK u \in Nat, v \in Int, e \in Int : u = s.lwin /\ v = a.window /\ e = s.bufwrite
      BY <1>10, <3>2
    <3>4c. PICK w \in Nat : w = u + n
      OBVIOUS
    <3>4. /\ n = IF m.kind = "adjust" THEN m.n ELSE 0
          /\ u = s.lwin /\ v = a.window /\ w = u + n /\ e = s.bufwrite
      BY <3>4a, <3>4b, <3>4c
    <3>5. w + G <= v /\ u <= w /\ r.lwin = w /\ r.bufwrite = e /\ r.writing = s.writing
      BY <2>3, <3>3, <3>4
    <3>6. r.writing = "created" => e <= w
      BY <3>3, <3>4, <3>5
    <3> QED
      BY <3>4, <3>5, <3>6 DEF LocalOK
  <2>6. RemoteOK(r, a, t, F, x)
    <3>1. RemoteOK(s, a, t, F, x)
      BY <1>6, <1>8, <1>20
    <3> QED
      BY <2>3, <3>1 DEF RemoteOK
  <2>7. Files(m, t, 0)
    BY <1>1, <1>4a, <1>20, FilesNone
  <2>8. /\ peer' = [peer EXCEPT ![c] = a] /\ net' = x
        /\ add' \in Answers \cup {NoAnswer} /\ pend' \in Pendings /\ pend' = pend
    BY <1>5, <1>9, <1>14, <1>20
  <2> QED
    BY <1>13, <1>20, <2>2, <2>3, <2>4, <2>5, <2>6, <2>7, <2>8
<1> QED
  BY <1>1, <1>15, <1>16, <1>17, <1>18, <1>19, <1>20, Zenon DEF PacketAdd

\* The packet that waited for its answer gets it.
LEMMA AnswerReads ==
    ASSUME Types, ChannelInv, net = "up" => Loose(pend), add # NoAnswer,
           NEW rc, Answer(add, rc), UNCHANGED <<inbound, app>>
    PROVE  /\ ReadTypes /\ ReadChannels /\ ReadBytes
           /\ net' = net /\ (net = "up" => Loose(pend'))
           /\ rc \in {"packet", "EAGAIN"}
<1>1. PICK m \in Answers : m = add
  BY DEF Types
<1>2. PICK c \in Chans : c = m.c
  BY DEF Answers, Message
<1>3. /\ rc \in {"packet", "EAGAIN"}
      /\ add' \in Answers \cup {NoAnswer} /\ pend' \in Pendings
      /\ net = "up" => Loose(pend')
      /\ brigade' = brigade /\ net' = net
      /\ \E r \in Channel, p \in Peer :
           /\ ch' = [ch EXCEPT ![c] = r] /\ peer' = [peer EXCEPT ![c] = p]
           /\ Widened(ch[c], r, peer[c], p, net)
  BY <1>1, <1>2, AnswerSends
<1>4. PICK r \in Channel, p \in Peer :
           /\ ch' = [ch EXCEPT ![c] = r] /\ peer' = [peer EXCEPT ![c] = p]
           /\ Widened(ch[c], r, peer[c], p, net)
  BY <1>3
<1>5. PICK q \in Seq(Message) : q = inbound
  BY DEF Types
<1>6. PICK s \in Channel, a \in Peer, t \in Account, x \in {"up", "disconnected", "broken"} :
        s = ch[c] /\ a = peer[c] /\ t = app[c] /\ x = net
  BY DEF Types
<1>7. 0 \in Streams /\ 1 \in Streams
  BY DEF Streams
<1>8. PICK G \in Nat, f0 \in Nat, f1 \in Nat :
        G = Granted(q, c) /\ f0 = Flying(q, c, 0) /\ f1 = Flying(q, c, 1)
  BY <1>7, FlyingSteps, GrantedSteps
<1>9. f0 + f1 \in Nat
  OBVIOUS
<1>10. LocalOK(s, a, G) /\ RemoteOK(s, a, t, f0 + f1, x)
  BY <1>5, <1>6, <1>8 DEF ChannelInv
<1>11. LocalOK(r, p, G) /\ RemoteOK(r, p, t, f0 + f1, x) /\ Keeps(s, r, a, p)
  BY <1>4, <1>6, <1>9, <1>10, WidenedInOrder
<1>12. Untouched(q, c)
  BY <1>5 DEF Untouched
<1>13. app' = [app EXCEPT ![c] = t] /\ brigade' \in Seq(Piece) /\ Loses(t, t)
  BY <1>3, <1>6, LosesNothing DEF Types
<1>14. ReadTypes /\ ReadChannels
  BY <1>3, <1>4, <1>5, <1>6, <1>8, <1>11, <1>12, <1>13, ReadFrame
<1>15. ReadBytes
  BY <1>3 DEF ReadBytes, Known, Bytes
<1> QED
  BY <1>3, <1>14, <1>15

\* One call of _libssh2_transport_read, while no data, end of file or close is half sent.
LEMMA TransportReads ==
    ASSUME Types, ChannelInv, net = "up" => Loose(pend), NEW rc, TransportRead(rc)
    PROVE  /\ ReadTypes /\ ReadChannels /\ ReadBytes
           /\ net' = "up" => net = "up" /\ Loose(pend')
           /\ rc \in {"packet", "EAGAIN", "zero", "FAIL"}
           /\ rc \in {"zero", "FAIL"} => net' # "up"
<1>1. CASE add # NoAnswer /\ Answer(add, rc) /\ UNCHANGED <<inbound, app>>
  BY <1>1, AnswerReads
<1>2. CASE net = "disconnected" /\ rc = "zero" /\ UNCHANGED <<session, app>>
  <2>1. UNCHANGED <<ch, brigade, inbound, pend, add, peer, app>> /\ net' = net
    BY <1>2 DEF session
  <2> QED
    BY <1>2, <2>1, ReadNothing
<1>3. CASE net # "disconnected" /\ rc = (IF net = "broken" THEN "FAIL" ELSE "EAGAIN")
           /\ UNCHANGED <<session, app>>
  <2>1. UNCHANGED <<ch, brigade, inbound, pend, add, peer, app>> /\ net' = net
    BY <1>3 DEF session
  <2> QED
    BY <1>3, <2>1, ReadNothing
<1>4. CASE net # "disconnected" /\ inbound # <<>> /\ PacketAdd(Head(inbound), rc)
           /\ inbound' = Tail(inbound)
  <2>1. PICK q \in Seq(Message) : q = inbound
    BY DEF Types
  <2>2. PICK m \in Message : m = Head(inbound)
    BY <1>4, <2>1
  <2>3. Takes(q, m)
    BY <1>4, <2>1, <2>2, Zenon DEF Takes
  <2>4. PacketAdd(m, rc)
    BY <1>4, <2>2, Zenon
  <2>5. /\ ReadTypes /\ ReadChannels /\ ReadBytes
        /\ net' = "up" => net = "up" /\ Loose(pend')
        /\ rc \in {"packet", "EAGAIN", "FAIL"}
        /\ rc = "FAIL" => net' = "disconnected"
    BY <1>4, <2>3, <2>4, ReadPacket, Zenon
  <2> QED
    BY <2>5
<1> QED
  BY <1>1, <1>2, <1>3, <1>4, Zenon DEF TransportRead

\* A call k0 that reads a packet, and goes on as k.
LEMMA CallReads ==
    ASSUME IInv, NEW k0 \in Execution, call = k0, k0 # Idle,
           NEW k \in Execution, call' = k, NEW rc, TransportRead(rc),
           net = "up" => Loose(pend),
           k # Idle => k.op = k0.op /\ k.c = k0.c /\ PlaceOK(k, ch[k0.c]),
           k.op = "read" => k0.op = "read" /\ k.n = Zero,
           k0.op = "read" => k0.n = Zero,
           \A d \in Chans, r \in Channel : HeldBy(d, r, k0) => HeldBy(d, r, k)
    PROVE  IInv'
<1>1. /\ ReadTypes /\ ReadChannels /\ ReadBytes
      /\ net' = "up" => net = "up" /\ Loose(pend')
  BY TransportReads DEF IInv
<1>2. Types'
  BY <1>1 DEF ReadTypes, Types
<1>3. CallInv'
  <2>1. ASSUME k # Idle PROVE k.c \in Chans /\ PlaceOK(k, ch'[k.c])
    <3>1. PICK c \in Chans : c = k0.c
      BY DEF IInv, CallInv
    <3>2. PlaceOK(k, ch[c]) /\ k.c = c
      BY <2>1, <3>1
    <3>3. /\ ch'[c].live = ch[c].live /\ ch'[c].lclose = ch[c].lclose
          /\ ch'[c].closing = ch[c].closing /\ ch'[c].writing = ch[c].writing
      BY <1>1 DEF ReadChannels, Keeps
    <3>4. PlaceOK(k, ch'[c])
      BY <3>2, <3>3 DEF PlaceOK
    <3> QED
      BY <3>2, <3>4
  <2>2. net' = "up" => Loose(pend')
    BY <1>1
  <2> QED
    BY <2>1, <2>2 DEF CallInv, PendOK
<1>4. ChannelInv'
  <2> SUFFICES ASSUME NEW d \in Chans
               PROVE  /\ LocalOK(ch'[d], peer'[d], Granted(inbound', d))
                      /\ RemoteOK(ch'[d], peer'[d], app'[d], Flying(inbound', d, 0) + Flying(inbound', d, 1), net')
                      /\ CloseOK(ch'[d], peer'[d])
                      /\ HeldBy(d, ch'[d], k)
    BY DEF ChannelInv
  <2>1. /\ LocalOK(ch'[d], peer'[d], Granted(inbound', d))
        /\ RemoteOK(ch'[d], peer'[d], app'[d], Flying(inbound', d, 0) + Flying(inbound', d, 1), net')
        /\ Keeps(ch[d], ch'[d], peer[d], peer'[d])
    BY <1>1 DEF ReadChannels
  <2>2. CloseOK(ch[d], peer[d]) /\ HeldBy(d, ch[d], k0)
    BY DEF IInv, ChannelInv
  <2>3. CloseOK(ch'[d], peer'[d])
    BY <2>1, <2>2 DEF CloseOK, Keeps
  <2>4. HeldBy(d, ch'[d], k0)
    BY <2>1, <2>2 DEF HeldBy, Keeps
  <2>5. ch'[d] \in Channel
    BY <1>1 DEF ReadTypes
  <2>6. HeldBy(d, ch'[d], k)
    BY <2>4, <2>5
  <2> QED
    BY <2>1, <2>3, <2>6
<1>5. BytesInv'
  <2> SUFFICES ASSUME NEW d \in Chans, NEW s \in Streams
               PROVE  peer'[d].sent[s] = Known(d, s)' + InBuffer(d, s)'
    BY DEF BytesInv
  <2>1. peer'[d].sent = peer[d].sent
    BY <1>1 DEF ReadChannels, Keeps
  <2>2. Known(d, s)' = Known(d, s)
    BY <1>1 DEF ReadBytes
  <2>3. InBuffer(d, s) = 0 /\ InBuffer(d, s)' = 0
    BY DEF InBuffer, Zero
  <2>4. peer[d].sent[s] = Known(d, s) + InBuffer(d, s)
    BY DEF IInv, BytesInv
  <2> QED
    BY <2>1, <2>2, <2>3, <2>4, Zenon
<1> QED
  BY <1>2, <1>3, <1>4, <1>5 DEF IInv

-----------------------------------------------------------------------------
(***************************************************************************)
(* The calls that read.                                                    *)
(***************************************************************************)
LEMMA ZeroCounts == Zero \in Counts
  BY DEF Zero, Counts

\* No call is an execution too.
LEMMA IdleCall == Idle \in Execution /\ Idle.op = "none" /\ Idle.n = Zero /\ Idle.at = "idle"
  BY ZeroCounts DEF Idle, Execution, Positions

\* A call that goes to another place.
LEMMA Moves ==
    ASSUME NEW k0 \in Execution, NEW x \in Positions, NEW k, k = [k0 EXCEPT !.at = x]
    PROVE  /\ k \in Execution /\ k.op = k0.op /\ k.c = k0.c /\ k.arg = k0.arg
           /\ k.n = k0.n /\ k.at = x
<1>1. k \in Execution
  BY DEF Execution
<1>2. k.at = x /\ k.op = k0.op /\ k.c = k0.c /\ k.arg = k0.arg /\ k.n = k0.n
  BY DEF Execution
<1> QED
  BY <1>1, <1>2

\* The same, with another count.
MovedTo(k, k0, x, z) == k = [k0 EXCEPT !.at = x, !.n = z]

\* A call that goes to another place with other counts.
LEMMA MovesWith ==
    ASSUME NEW k0 \in Execution, NEW x \in Positions, NEW z \in Counts,
           NEW k, MovedTo(k, k0, x, z)
    PROVE  /\ k \in Execution /\ k.op = k0.op /\ k.c = k0.c /\ k.arg = k0.arg
           /\ k.n = z /\ k.at = x
<1>1. k \in Execution
  BY DEF Execution, MovedTo
<1>2. k.at = x /\ k.op = k0.op /\ k.c = k0.c /\ k.arg = k0.arg /\ k.n = z
  BY DEF Execution, MovedTo
<1> QED
  BY <1>1, <1>2

\* What is known of the call that is executed.
LEMMA Executes ==
    ASSUME IInv, call.op # "none"
    PROVE  /\ call \in Execution /\ call # Idle /\ call.c \in Chans
           /\ PlaceOK(call, ch[call.c])
           /\ net = "up" => PendOK(pend, call, ch[call.c])
<1>1. call # Idle /\ call \in Execution
  BY IdleCall DEF IInv, Types
<1> QED
  BY <1>1 DEF IInv, CallInv

\* How a call k0 that reads may go on: to return, or to another place, with channel r.
Resumes(k, k0, r) ==
    \/ k = Idle
    \/ /\ k.op = k0.op /\ k.c = k0.c /\ k.arg = k0.arg /\ k.n \in {k0.n, Zero}
       /\ k.at # "idle" /\ k.op # "none"
       /\ PlaceOK(k, r)

\* The same, for a call that holds nothing.
LEMMA LooseReads ==
    ASSUME IInv, NEW rc, TransportRead(rc), NEW k \in Execution, call' = k,
           Resumes(k, call, ch[call.c]),
           \/ call.op \in {"waitEof", "waitClosed"}
           \/ call.op = "write" /\ call.at = "drain"
           \/ call.op = "read" /\ call.at # "adjust"
           \/ call.op \in {"close", "free"} /\ call.at = "await" /\ k # Idle
    PROVE  IInv'
<1>1. PICK k0 \in Execution : k0 = call
  BY DEF IInv, Types
<1>2. /\ k0 # Idle /\ k0.c \in Chans /\ PlaceOK(k0, ch[k0.c])
      /\ net = "up" => PendOK(pend, k0, ch[k0.c])
  BY <1>1, Executes
<1>3. net = "up" => Loose(pend)
  BY <1>1, <1>2 DEF PendOK
<1>4. k # Idle => k.op = k0.op /\ k.c = k0.c /\ PlaceOK(k, ch[k0.c])
  BY <1>1 DEF Resumes
<1>5. k0.op = "read" => k0.n = Zero
  BY <1>1, <1>2 DEF PlaceOK
<1>6. k.op = "read" => k0.op = "read" /\ k.n = Zero
  BY <1>1, <1>5, IdleCall DEF Resumes
<1>7. ASSUME NEW d \in Chans, NEW r \in Channel, HeldBy(d, r, k0) PROVE HeldBy(d, r, k)
  <2>1. r.writing # "created"
    BY <1>1, <1>7 DEF HeldBy
  <2>2. CASE k0.op \in {"close", "free"} /\ k # Idle
    BY <1>4, <1>7, <2>1, <2>2 DEF HeldBy
  <2>3. CASE k0.op \notin {"close", "free"}
    BY <1>7, <2>1, <2>3 DEF HeldBy
  <2> QED
    BY <1>1, <2>2, <2>3
<1> QED
  BY <1>1, <1>2, <1>3, <1>4, <1>5, <1>6, <1>7, CallReads

\* The results of _libssh2_transport_read.
LEMMA ReadResults ==
    ASSUME IInv, NEW rc, TransportRead(rc), net = "up" => Loose(pend)
    PROVE  rc \in {"packet", "EAGAIN", "zero", "FAIL"}
  BY TransportReads DEF IInv

\* Nothing is half sent, in a call that reads.
LEMMA NothingPends ==
    ASSUME IInv, call.op # "none",
           \/ call.op \in {"waitEof", "waitClosed", "read"}
           \/ call.op = "write" /\ call.at = "drain"
           \/ call.op \in {"close", "free"} /\ call.at = "await"
    PROVE  net = "up" => Loose(pend)
<1>1. net = "up" => PendOK(pend, call, ch[call.c])
  BY Executes
<1> QED
  BY <1>1 DEF PendOK

\* Entering a read keeps the invariant.
LEMMA ReadEntersStep ==
    ASSUME IInv, ReadEnters
    PROVE  IInv'
<1>1. call.op = "read" /\ call.at = "enter"
  BY DEF ReadEnters, Running
<1>2. PICK rc \in Rcs :
        /\ TransportRead(rc)
        /\ call' = CASE rc = "packet" -> call
                     [] rc = "FAIL"   -> Idle
                     [] OTHER -> [call EXCEPT !.at = IF ch[call.c].jump1 THEN "adjust" ELSE rc]
  BY Zenon DEF ReadEnters
<1>3. PICK k0 \in Execution : k0 = call
  BY DEF IInv, Types
<1>4. k0.op = "read" /\ k0.at = "enter" /\ PlaceOK(k0, ch[k0.c])
  BY <1>1, <1>3, Executes
<1>5. rc \in {"packet", "EAGAIN", "zero", "FAIL"}
  BY <1>1, <1>2, ReadResults, NothingPends
<1>6. PICK x \in {"adjust", "EAGAIN", "zero", "FAIL", "packet"} :
        x = IF ch[k0.c].jump1 THEN "adjust" ELSE rc
  BY <1>5
<1>7. \E k \in Execution : call' = k /\ Resumes(k, k0, ch[k0.c])
  <2>1. CASE rc = "packet"
    <3>1. call' = k0
      BY <1>2, <1>3, <2>1
    <3>2. Resumes(k0, k0, ch[k0.c])
      BY <1>4 DEF Resumes
    <3> QED
      BY <3>1, <3>2
  <2>2. CASE rc = "FAIL"
    <3>1. call' = Idle
      BY <1>2, <2>2
    <3> QED
      BY <3>1, IdleCall DEF Resumes
  <2>3. CASE rc \in {"EAGAIN", "zero"}
    <3>1. PICK k : k = [k0 EXCEPT !.at = x]
      OBVIOUS
    <3>2. call' = k
      BY <1>2, <1>3, <1>6, <2>3, <3>1
    <3>3. x \in Positions /\ x \in {"adjust", "EAGAIN", "zero"}
      BY <1>6, <2>3 DEF Positions
    <3>4. k \in Execution /\ k.op = k0.op /\ k.c = k0.c /\ k.arg = k0.arg /\ k.n = k0.n /\ k.at = x
      BY <3>1, <3>3, Moves
    <3>5. PlaceOK(k, ch[k0.c])
      BY <1>4, <3>3, <3>4 DEF PlaceOK
    <3>6. Resumes(k, k0, ch[k0.c])
      BY <1>4, <3>3, <3>4, <3>5 DEF Resumes
    <3> QED
      BY <3>2, <3>4, <3>6
  <2> QED
    BY <1>5, <2>1, <2>2, <2>3
<1> QED
  BY <1>1, <1>2, <1>3, <1>7, LooseReads

\* The reads before a write keep the invariant.
LEMMA WriteDrainsStep ==
    ASSUME IInv, WriteDrains
    PROVE  IInv'
<1>1. call.op = "write" /\ call.at = "drain"
  BY DEF WriteDrains, Running
<1>2. PICK rc \in Rcs : TransportRead(rc) /\ Goto(IF rc = "packet" THEN "drain" ELSE "split")
  BY Zenon DEF WriteDrains
<1>3. PICK k0 \in Execution : k0 = call
  BY DEF IInv, Types
<1>4. k0.op = "write" /\ k0.at = "drain" /\ PlaceOK(k0, ch[k0.c])
  BY <1>1, <1>3, Executes
<1>5. PICK x \in {"drain", "split"} : x = IF rc = "packet" THEN "drain" ELSE "split"
  OBVIOUS
<1>6. PICK k : k = [k0 EXCEPT !.at = x]
  OBVIOUS
<1>7. call' = k
  BY <1>2, <1>3, <1>5, <1>6 DEF Goto
<1>8. x \in Positions
  BY DEF Positions
<1>9. k \in Execution /\ k.op = k0.op /\ k.c = k0.c /\ k.arg = k0.arg /\ k.n = k0.n /\ k.at = x
  BY <1>6, <1>8, Moves
<1>10. PlaceOK(k, ch[k0.c])
  BY <1>4, <1>9 DEF PlaceOK
<1>11. Resumes(k, k0, ch[k0.c])
  BY <1>4, <1>9, <1>10 DEF Resumes
<1> QED
  BY <1>1, <1>2, <1>3, <1>7, <1>9, <1>11, LooseReads

\* The same call, somewhere else, with its count reset: for calls without places of
\* their own.
LEMMA Elsewhere ==
    ASSUME NEW k0 \in Execution, NEW r \in Channel, PlaceOK(k0, r), k0.op # "none",
           NEW x \in Positions, x # "idle",
           NEW z \in Counts, z \in {k0.n, Zero},
           k0.op = "read" /\ k0.at = "adjust" => z = Zero,
           \/ k0.op \in {"flush", "adjust", "mode", "eof", "waitEof", "waitClosed"}
           \/ x \in {"enter", "select"},
           NEW k, MovedTo(k, k0, x, z)
    PROVE  Resumes(k, k0, r) /\ k \in Execution
<1>3. k \in Execution /\ k.op = k0.op /\ k.c = k0.c /\ k.arg = k0.arg /\ k.n = z /\ k.at = x
  BY MovesWith
<1>4. k.op = "read" /\ k.at # "adjust" => k.n = Zero
  <2>1. CASE k0.op = "read" /\ k0.at # "adjust"
    BY <1>3, <2>1 DEF PlaceOK
  <2>2. CASE k0.op = "read" /\ k0.at = "adjust"
    BY <1>3, <2>2
  <2> QED
    BY <1>3, <2>1, <2>2
<1>5. PlaceOK(k, r)
  BY <1>3, <1>4 DEF PlaceOK
<1> QED
  BY <1>3, <1>5 DEF Resumes

\* EAGAIN: the call is to be repeated.
LEMMA Repeats ==
    ASSUME IInv, NEW k0 \in Execution, k0 = call, k0.op # "none", Again
    PROVE  \E k \in Execution : /\ call' = k /\ Resumes(k, k0, ch[k0.c]) /\ k # Idle
                                /\ k.at = "select" /\ k.n = Zero /\ k.op = k0.op /\ k.c = k0.c
<1>1. PICK x \in Positions, z \in Counts : x = "select" /\ z = Zero
  BY ZeroCounts DEF Positions
<1>2. PICK k : MovedTo(k, k0, x, z)
  BY DEF MovedTo
<1>3. call' = k
  BY <1>1, <1>2 DEF Again, MovedTo
<1>4. PlaceOK(k0, ch[k0.c]) /\ ch[k0.c] \in Channel
  BY Executes DEF IInv, Types
<1>5. PICK r \in Channel : r = ch[k0.c] /\ PlaceOK(k0, r)
  BY <1>4
<1>6. Resumes(k, k0, r) /\ k \in Execution
  <2>1. x # "idle" /\ x \in {"enter", "select"} /\ z = Zero /\ z \in {k0.n, Zero}
    BY <1>1
  <2> QED
    BY <1>2, <1>5, <2>1, Elsewhere, Zenon
<1>7. k.at = "select" /\ k.n = Zero /\ k.op = k0.op /\ k.c = k0.c
  <2>1. k.op = k0.op /\ k.c = k0.c /\ k.n = z /\ k.at = x
    BY <1>2, MovesWith
  <2> QED
    BY <1>1, <2>1
<1> QED
  BY <1>3, <1>5, <1>6, <1>7, IdleCall

\* Waiting for the end of file keeps the invariant.
LEMMA WaitEofStep ==
    ASSUME IInv, WaitEof, ~ch[call.c].reof
    PROVE  IInv'
<1>1. call.op = "waitEof" /\ call.at = "enter"
  BY DEF WaitEof, Running
<1>2. PICK rc \in Rcs :
        /\ TransportRead(rc)
        /\ CASE rc = "EAGAIN" -> Again
             [] rc = "FAIL" -> Return
             [] OTHER -> UNCHANGED call
  BY Zenon DEF WaitEof
<1>3. PICK k0 \in Execution : k0 = call
  BY DEF IInv, Types
<1>4. k0.op = "waitEof" /\ k0.at = "enter" /\ PlaceOK(k0, ch[k0.c])
  BY <1>1, <1>3, Executes
<1>5. \E k \in Execution : call' = k /\ Resumes(k, k0, ch[k0.c])
  <2>1. CASE rc = "EAGAIN"
    BY <1>2, <1>3, <1>4, <2>1, Repeats
  <2>2. CASE rc = "FAIL"
    BY <1>2, <2>2, IdleCall DEF Return, Resumes
  <2>3. CASE rc \notin {"EAGAIN", "FAIL"}
    <3>1. call' = k0
      BY <1>2, <1>3, <2>3
    <3>2. Resumes(k0, k0, ch[k0.c])
      BY <1>4 DEF Resumes
    <3> QED
      BY <3>1, <3>2
  <2> QED
    BY <2>1, <2>2, <2>3
<1> QED
  BY <1>1, <1>2, <1>3, <1>5, LooseReads

\* Waiting for the peer's close keeps the invariant.
LEMMA WaitClosedStep ==
    ASSUME IInv, call.op = "waitClosed", NEW rc \in Rcs, TransportRead(rc),
           CASE rc = "packet" -> Goto("loop")
             [] rc = "EAGAIN" -> Again
             [] OTHER -> Return
    PROVE  IInv'
<1>1. PICK k0 \in Execution : k0 = call
  BY DEF IInv, Types
<1>2. k0.op = "waitClosed" /\ PlaceOK(k0, ch[k0.c])
  BY <1>1, Executes
<1>3. \E k \in Execution : call' = k /\ Resumes(k, k0, ch[k0.c])
  <2>1. CASE rc = "packet"
    <3>1. PICK x \in Positions : x = "loop"
      BY DEF Positions
    <3>2. PICK k : k = [k0 EXCEPT !.at = x]
      OBVIOUS
    <3>3. call' = k
      BY <1>1, <2>1, <3>1, <3>2 DEF Goto
    <3>4. k \in Execution /\ k.op = k0.op /\ k.c = k0.c /\ k.arg = k0.arg /\ k.n = k0.n /\ k.at = x
      BY <3>2, Moves
    <3>5. PlaceOK(k, ch[k0.c])
      BY <1>2, <3>1, <3>4 DEF PlaceOK
    <3>6. Resumes(k, k0, ch[k0.c])
      BY <1>2, <3>1, <3>4, <3>5 DEF Resumes
    <3> QED
      BY <3>3, <3>4, <3>6
  <2>2. CASE rc = "EAGAIN"
    BY <1>1, <1>2, <2>2, Repeats
  <2>3. CASE rc \notin {"packet", "EAGAIN"}
    BY <2>3, IdleCall DEF Return, Resumes
  <2> QED
    BY <2>1, <2>2, <2>3
<1> QED
  BY <1>1, <1>3, LooseReads

\* Waiting for the peer's close in a close or free keeps the invariant.
LEMMA CloseAwaitsStep ==
    ASSUME IInv, call.op \in {"close", "free"}, call.at = "await",
           NEW rc \in Rcs, TransportRead(rc),
           CASE rc = "EAGAIN" -> Again
             [] rc = "zero" -> UNCHANGED call
             [] rc = "packet" -> Goto("closed")
             [] OTHER -> Goto("closedFail")
    PROVE  IInv'
<1>1. PICK k0 \in Execution : k0 = call
  BY DEF IInv, Types
<1>2. k0.op \in {"close", "free"} /\ k0.at = "await" /\ k0 # Idle /\ PlaceOK(k0, ch[k0.c])
  BY <1>1, Executes
<1>3. \E k \in Execution : call' = k /\ Resumes(k, k0, ch[k0.c]) /\ k # Idle
  <2>1. CASE rc = "EAGAIN"
    BY <1>1, <1>2, <2>1, Repeats
  <2>2. CASE rc = "zero"
    <3>1. call' = k0
      BY <1>1, <2>2
    <3>2. Resumes(k0, k0, ch[k0.c])
      BY <1>2 DEF Resumes
    <3> QED
      BY <1>2, <3>1, <3>2
  <2>3. CASE rc \notin {"EAGAIN", "zero"}
    <3>1. PICK x \in Positions : x = IF rc = "packet" THEN "closed" ELSE "closedFail"
      BY DEF Positions
    <3>2. PICK k : k = [k0 EXCEPT !.at = x]
      OBVIOUS
    <3>3. call' = k
      BY <1>1, <2>3, <3>1, <3>2 DEF Goto
    <3>4. k \in Execution /\ k.op = k0.op /\ k.c = k0.c /\ k.arg = k0.arg /\ k.n = k0.n /\ k.at = x
      BY <3>2, Moves
    <3>5. x \in {"closed", "closedFail"}
      BY <3>1
    <3>6. PlaceOK(k, ch[k0.c])
      BY <1>2, <3>4, <3>5 DEF PlaceOK
    <3>7. Resumes(k, k0, ch[k0.c])
      BY <1>2, <3>4, <3>5, <3>6 DEF Resumes
    <3> QED
      BY <1>2, <3>3, <3>4, <3>7, IdleCall
  <2> QED
    BY <2>1, <2>2, <2>3
<1> QED
  BY <1>1, <1>2, <1>3, LooseReads

-----------------------------------------------------------------------------
(***************************************************************************)
(* The steps of a call on its own channel.                                 *)
(***************************************************************************)
\* The call k of channel c: the channel r, its peer p, the account y, the brigade b, the
\* window G and the data F under way, the connection x and the packet e that is half sent.
Before(k, c, r, p, y, b, G, F, x, e) ==
    /\ call = k /\ k # Idle /\ k.op # "none" /\ k.c = c
    /\ ch[c] = r /\ peer[c] = p /\ app[c] = y /\ brigade = b
    /\ G = Granted(inbound, c) /\ F = Flying(inbound, c, 0) + Flying(inbound, c, 1)
    /\ net = x /\ pend = e /\ e \in Pendings

Changed(k, c, r, p, y, b, e) ==
    /\ call' = k
    /\ ch' = [ch EXCEPT ![c] = r] /\ peer' = [peer EXCEPT ![c] = p]
    /\ app' = [app EXCEPT ![c] = y] /\ brigade' = b
    /\ pend' = e /\ e \in Pendings /\ UNCHANGED <<inbound, net, add>>

InOrder(k, c, r, p, y, G, F, x, e) ==
    /\ LocalOK(r, p, G) /\ RemoteOK(r, p, y, F, x) /\ CloseOK(r, p) /\ HeldBy(c, r, k)
    /\ k # Idle => k.c = c /\ PlaceOK(k, r)
    /\ x = "up" => IF k = Idle THEN Loose(e) ELSE PendOK(e, k, r)

\* The bytes a call has in its buffer.
Buffered(k, s) == IF k.op = "read" THEN k.n[s] ELSE 0

\* That is a number.
LEMMA BufferedIsInt ==
    ASSUME NEW k \in Execution, NEW s \in Streams
    PROVE  Buffered(k, s) \in Int
<1>1. k.n \in Counts
  BY DEF Execution
<1>2. k.n[s] \in Int
  BY <1>1 DEF Counts
<1> QED
  BY <1>2 DEF Buffered

\* No byte of channel c gets lost.
SameBytes(c, k0, p0, y0, b0, k, p, y, b) ==
    /\ p.sent = p0.sent
    /\ \A d \in Chans \ {c}, s \in Streams : Bytes(b, d, s) = Bytes(b0, d, s)
    /\ \A s \in Streams :
         Bytes(b, c, s) + y.read[s] + y.dropped[s] + y.lost[s] + Buffered(k, s)
           = Bytes(b0, c, s) + y0.read[s] + y0.dropped[s] + y0.lost[s] + Buffered(k0, s)

\* The parts of a state a call starts from, by name.
LEMMA Starts ==
    ASSUME IInv, call.op # "none"
    PROVE  \E k \in Execution, c \in Chans, r \in Channel, p \in Peer, y \in Account,
              b \in Seq(Piece), G \in Nat, F \in Nat, x \in {"up", "disconnected", "broken"}, e \in {pend} :
             Before(k, c, r, p, y, b, G, F, x, e) /\ InOrder(k, c, r, p, y, G, F, x, e)
<1>1. PICK k \in Execution : k = call
  BY DEF IInv, Types
<1>2. k # Idle /\ k.op # "none" /\ PlaceOK(k, ch[k.c]) /\ (net = "up" => PendOK(pend, k, ch[k.c]))
  BY <1>1, Executes
<1>3. PICK c \in Chans : c = k.c
  BY <1>1, Executes
<1>4. PICK r \in Channel, p \in Peer, y \in Account :
        r = ch[c] /\ p = peer[c] /\ y = app[c]
  BY DEF IInv, Types
<1>5. PICK b \in Seq(Piece) : b = brigade
  BY DEF IInv, Types
<1>6. Granted(inbound, c) \in Nat /\ Flying(inbound, c, 0) + Flying(inbound, c, 1) \in Nat
  <2>1. PICK q \in Seq(Message) : q = inbound
    BY DEF IInv, Types
  <2>2. 0 \in Streams /\ 1 \in Streams
    BY DEF Streams
  <2>3. Granted(q, c) \in Nat /\ Flying(q, c, 0) \in Nat /\ Flying(q, c, 1) \in Nat
    BY <2>2, GrantedSteps, FlyingSteps
  <2>4. \A f, g \in Nat : f + g \in Nat
    OBVIOUS
  <2> QED
    BY <2>1, <2>3, <2>4
<1>7. PICK G \in Nat, F \in Nat :
        G = Granted(inbound, c) /\ F = Flying(inbound, c, 0) + Flying(inbound, c, 1)
  BY <1>6
<1>8. PICK x \in {"up", "disconnected", "broken"}, e \in {pend} : x = net /\ e = pend
  BY DEF IInv, Types
<1>8a. e \in Pendings
  BY <1>8 DEF IInv, Types
<1>9. Before(k, c, r, p, y, b, G, F, x, e)
  BY <1>1, <1>2, <1>3, <1>4, <1>5, <1>7, <1>8, <1>8a DEF Before
<1>10. LocalOK(r, p, G) /\ RemoteOK(r, p, y, F, x) /\ CloseOK(r, p) /\ HeldBy(c, r, k)
  BY <1>1, <1>4, <1>7, <1>8 DEF IInv, ChannelInv
<1>11. PlaceOK(k, r) /\ (x = "up" => PendOK(e, k, r))
  BY <1>2, <1>3, <1>4, <1>8
<1>12. InOrder(k, c, r, p, y, G, F, x, e)
  BY <1>2, <1>3, <1>10, <1>11 DEF InOrder
<1> QED
  BY <1>9, <1>12

\* What moves between the places of a stream leaves their sum.
LEMMA Exchange ==
    \A f, u, v, w, l, z, u2, v2, w2, l2, z2 \in Int :
        u2 + v2 + w2 + l2 + z2 = u + v + w + l + z =>
            f + u2 + v2 + w2 + l2 + z2 = f + u + v + w + l + z
  OBVIOUS

\* A step of a call that changes its own channel keeps the invariant.
LEMMA OwnStep ==
    ASSUME IInv,
           NEW k0 \in Execution, NEW c \in Chans, NEW r0 \in Channel, NEW p0 \in Peer,
           NEW y0 \in Account, NEW b0 \in Seq(Piece), NEW G \in Nat, NEW F \in Nat,
           NEW x \in {"up", "disconnected", "broken"}, NEW e0,
           Before(k0, c, r0, p0, y0, b0, G, F, x, e0),
           NEW k \in Execution, NEW r \in Channel, NEW p \in Peer,
           NEW y \in Account, NEW b \in Seq(Piece), NEW e,
           Changed(k, c, r, p, y, b, e),
           InOrder(k, c, r, p, y, G, F, x, e),
           SameBytes(c, k0, p0, y0, b0, k, p, y, b)
    PROVE  IInv'
<1>1. ch \in [Chans -> Channel] /\ peer \in [Chans -> Peer] /\ app \in [Chans -> Account]
      /\ inbound \in Seq(Message) /\ add \in Answers \cup {NoAnswer}
  BY DEF IInv, Types
<1>2. /\ ch' = [ch EXCEPT ![c] = r] /\ peer' = [peer EXCEPT ![c] = p]
      /\ app' = [app EXCEPT ![c] = y]
  BY DEF Changed
<1>3. ch'[c] = r /\ peer'[c] = p /\ app'[c] = y
  BY <1>1, <1>2
<1>4. \A d \in Chans \ {c} : ch'[d] = ch[d] /\ peer'[d] = peer[d] /\ app'[d] = app[d]
  BY <1>1, <1>2
<1>5. Types'
  <2>1. /\ ch' \in [Chans -> Channel] /\ peer' \in [Chans -> Peer] /\ app' \in [Chans -> Account]
    BY <1>1, <1>2
  <2>2. brigade' \in Seq(Piece) /\ inbound' \in Seq(Message) /\ call' \in Execution
        /\ add' \in Answers \cup {NoAnswer} /\ pend' \in Pendings
        /\ net' \in {"up", "disconnected", "broken"}
    BY <1>1 DEF Changed, IInv, Types
  <2> QED
    BY <2>1, <2>2 DEF Types
<1>6. CallInv'
  <2>1. call' = k /\ net' = x /\ pend' = e
    BY DEF Changed, Before
  <2> QED
    BY <1>3, <2>1 DEF InOrder, CallInv
<1>7. ChannelInv'
  <2>1. inbound' = inbound /\ net' = x /\ net = x /\ call' = k /\ call = k0 /\ k0.c = c
    BY DEF Changed, Before
  <2> SUFFICES ASSUME NEW d \in Chans
               PROVE  /\ LocalOK(ch'[d], peer'[d], Granted(inbound, d))
                      /\ RemoteOK(ch'[d], peer'[d], app'[d], Flying(inbound, d, 0) + Flying(inbound, d, 1), x)
                      /\ CloseOK(ch'[d], peer'[d])
                      /\ HeldBy(d, ch'[d], k)
    BY <2>1, Zenon DEF ChannelInv
  <2>2. CASE d = c
    BY <1>3, <2>2 DEF Before, InOrder
  <2>3. CASE d # c
    <3>1. ch'[d] = ch[d] /\ peer'[d] = peer[d] /\ app'[d] = app[d]
      BY <1>4, <2>3
    <3>2. /\ LocalOK(ch[d], peer[d], Granted(inbound, d))
          /\ RemoteOK(ch[d], peer[d], app[d], Flying(inbound, d, 0) + Flying(inbound, d, 1), x)
          /\ CloseOK(ch[d], peer[d])
          /\ HeldBy(d, ch[d], k0)
      BY <2>1 DEF IInv, ChannelInv
    <3>3. HeldBy(d, ch[d], k)
      BY <2>1, <2>3, <3>2 DEF HeldBy
    <3> QED
      BY <3>1, <3>2, <3>3
  <2> QED
    BY <2>2, <2>3
<1>8. BytesInv'
  <2>1. /\ inbound' = inbound /\ brigade = b0 /\ brigade' = b /\ call = k0 /\ call' = k
        /\ k0.c = c /\ peer[c] = p0 /\ app[c] = y0
    BY DEF Changed, Before
  <2>2. k # Idle => k.c = c
    BY DEF InOrder
  <2> SUFFICES ASSUME NEW d \in Chans, NEW s \in Streams
               PROVE  peer'[d].sent[s] = Known(d, s)' + InBuffer(d, s)'
    BY DEF BytesInv
  <2>3. peer[d].sent[s] = Known(d, s) + InBuffer(d, s)
    BY DEF IInv, BytesInv
  <2>4. /\ Known(d, s) = Flying(inbound, d, s) + Bytes(b0, d, s) + app[d].read[s] + app[d].dropped[s]
                        + app[d].lost[s]
        /\ Known(d, s)' = Flying(inbound, d, s) + Bytes(b, d, s) + app'[d].read[s] + app'[d].dropped[s]
                         + app'[d].lost[s]
    BY <2>1, Zenon DEF Known
  <2>5. CASE d # c
    <3>1. InBuffer(d, s) = 0 /\ InBuffer(d, s)' = 0
      BY <2>1, <2>2, <2>5, IdleCall DEF InBuffer
    <3>2. Bytes(b, d, s) = Bytes(b0, d, s)
      BY <2>5 DEF SameBytes
    <3>3. peer'[d] = peer[d] /\ app'[d] = app[d]
      BY <1>4, <2>5
    <3> QED
      BY <2>3, <2>4, <3>1, <3>2, <3>3, Zenon
  <2>6. CASE d = c
    <3>1. InBuffer(d, s) = Buffered(k0, s) /\ InBuffer(d, s)' = Buffered(k, s)
      BY <2>1, <2>2, <2>6, IdleCall DEF InBuffer, Buffered
    <3>2. /\ peer'[d].sent = p0.sent
          /\ Bytes(b, c, s) + y.read[s] + y.dropped[s] + y.lost[s] + Buffered(k, s)
               = Bytes(b0, c, s) + y0.read[s] + y0.dropped[s] + y0.lost[s] + Buffered(k0, s)
      BY <1>3, <2>6 DEF SameBytes
    <3>3. PICK f \in Int : f = Flying(inbound, d, s)
      BY <1>1, FlyingSteps
    <3>4. PICK u \in Int, u2 \in Int : u = Bytes(b0, c, s) /\ u2 = Bytes(b, c, s)
      BY BytesSteps
    <3>5. PICK v \in Int, w \in Int, l \in Int : v = y0.read[s] /\ w = y0.dropped[s] /\ l = y0.lost[s]
      BY DEF Account, Counts
    <3>6. PICK v2 \in Int, w2 \in Int, l2 \in Int : v2 = y.read[s] /\ w2 = y.dropped[s] /\ l2 = y.lost[s]
      BY DEF Account, Counts
    <3>7. PICK z \in Int, z2 \in Int : z = Buffered(k0, s) /\ z2 = Buffered(k, s)
      BY BufferedIsInt
    <3>8. u2 + v2 + w2 + l2 + z2 = u + v + w + l + z
      BY <3>2, <3>4, <3>5, <3>6, <3>7, Zenon
    <3>9. f + u2 + v2 + w2 + l2 + z2 = f + u + v + w + l + z
      BY <3>8, Exchange
    <3>10. peer[d].sent[s] = f + u + v + w + l + z
      BY <2>1, <2>3, <2>4, <2>6, <3>1, <3>3, <3>4, <3>5, <3>7, Zenon
    <3>11. Known(d, s)' + InBuffer(d, s)' = f + u2 + v2 + w2 + l2 + z2
      BY <1>3, <2>4, <2>6, <3>1, <3>3, <3>4, <3>6, <3>7, Zenon
    <3>12. peer'[d].sent[s] = peer[d].sent[s]
      BY <2>1, <2>6, <3>2, Zenon
    <3> QED
      BY <3>9, <3>10, <3>11, <3>12, Zenon
  <2> QED
    BY <2>5, <2>6
<1> QED
  BY <1>5, <1>6, <1>7, <1>8 DEF IInv

\* An account y that differs from y0 only in what the application was told it wrote.
OnlyWrote(y0, y) ==
    y.read = y0.read /\ y.dropped = y0.dropped /\ y.lost = y0.lost /\ y.ignored = y0.ignored

\* It need not differ at all.
LEMMA WroteNothing == \A y : OnlyWrote(y, y)
  BY DEF OnlyWrote

\* A step that moves no byte from or to the peer.
LEMMA QuietStep ==
    ASSUME IInv,
           NEW k0 \in Execution, NEW c \in Chans, NEW r0 \in Channel, NEW p0 \in Peer,
           NEW y0 \in Account, NEW b0 \in Seq(Piece), NEW G \in Nat, NEW F \in Nat,
           NEW x \in {"up", "disconnected", "broken"}, NEW e0,
           Before(k0, c, r0, p0, y0, b0, G, F, x, e0),
           NEW k \in Execution, NEW r \in Channel, NEW p \in Peer, NEW y \in Account, NEW e,
           Changed(k, c, r, p, y, b0, e),
           InOrder(k, c, r, p, y0, G, F, x, e),
           p.sent = p0.sent, OnlyWrote(y0, y),
           k0.op = "read" => k0.n = Zero, k.op = "read" => k.n = Zero
    PROVE  IInv'
<1>1. \A s \in Streams : Buffered(k0, s) = 0 /\ Buffered(k, s) = 0
  BY DEF Buffered, Zero
<1>2. SameBytes(c, k0, p0, y0, b0, k, p, y, b0)
  BY <1>1, Zenon DEF SameBytes, OnlyWrote
<1>3. InOrder(k, c, r, p, y, G, F, x, e)
  BY Zenon DEF InOrder, RemoteOK, OnlyWrote
<1> QED
  BY <1>2, <1>3, OwnStep

\* A step that changes but the call.
LEMMA NoChange ==
    ASSUME IInv, UNCHANGED <<session, app>>,
           NEW k0, NEW c \in Chans, NEW r0, NEW p0, NEW y0, NEW b0, NEW G, NEW F, NEW x, NEW e0,
           Before(k0, c, r0, p0, y0, b0, G, F, x, e0), NEW k, call' = k
    PROVE  Changed(k, c, r0, p0, y0, b0, e0)
<1>1. ch \in [Chans -> Channel] /\ peer \in [Chans -> Peer] /\ app \in [Chans -> Account]
  BY DEF IInv, Types
<1>2. ch = [ch EXCEPT ![c] = r0] /\ peer = [peer EXCEPT ![c] = p0] /\ app = [app EXCEPT ![c] = y0]
  BY <1>1 DEF Before
<1> QED
  BY <1>2 DEF Changed, Before, session

\* A step that only moves the call keeps the invariant.
LEMMA MoveStep ==
    ASSUME IInv, UNCHANGED <<session, app>>,
           NEW k0 \in Execution, NEW c \in Chans, NEW r0 \in Channel, NEW p0 \in Peer,
           NEW y0 \in Account, NEW b0 \in Seq(Piece), NEW G \in Nat, NEW F \in Nat,
           NEW x \in {"up", "disconnected", "broken"}, NEW e0,
           Before(k0, c, r0, p0, y0, b0, G, F, x, e0),
           NEW k \in Execution, call' = k, InOrder(k, c, r0, p0, y0, G, F, x, e0),
           k0.op = "read" => k0.n = Zero, k.op = "read" => k.n = Zero
    PROVE  IInv'
<1>1. Changed(k, c, r0, p0, y0, b0, e0)
  BY NoChange
<1> QED
  BY <1>1, WroteNothing, QuietStep

\* A call that has nothing under way returns.
LEMMA Returning ==
    ASSUME NEW k0, NEW c, NEW r, NEW p, NEW y, NEW G, NEW F, NEW x, NEW e,
           InOrder(k0, c, r, p, y, G, F, x, e), k0 # Idle,
           r.writing # "created", k0.op \in {"close", "free"} => r.lclose \/ r.closing # "sent",
           x = "up" => Loose(e)
    PROVE  InOrder(Idle, c, r, p, y, G, F, x, e)
<1>1. HeldBy(c, r, Idle)
  BY DEF InOrder, HeldBy
<1> QED
  BY <1>1 DEF InOrder

\* A call that is resumed keeps the invariant.
LEMMA WakeStep ==
    ASSUME IInv, Wake
    PROVE  IInv'
<1>1. call.op # "none"
  <2>1. call.at = "select"
    BY DEF Wake
  <2>2. call # Idle
    BY <2>1, IdleCall
  <2>3. PICK o \in Ops : call.op = o[1]
    BY <2>2 DEF IInv, CallInv, PlaceOK
  <2> QED
    BY <2>3, ChannelAssumption DEF CallNames
<1>2. PICK k0 \in Execution, c \in Chans, r0 \in Channel, p0 \in Peer, y0 \in Account,
           b0 \in Seq(Piece), G \in Nat, F \in Nat, x \in {"up", "disconnected", "broken"}, e0 \in {pend} :
        Before(k0, c, r0, p0, y0, b0, G, F, x, e0) /\ InOrder(k0, c, r0, p0, y0, G, F, x, e0)
  BY <1>1, Starts
<1>3. k0 = call /\ k0.at = "select" /\ k0.op # "none" /\ k0 # Idle
  BY <1>2 DEF Wake, Before
<1>4. PICK z \in Positions : z = "enter"
  BY DEF Positions
<1>5. PICK k : k = [k0 EXCEPT !.at = z]
  OBVIOUS
<1>6. call' = k /\ UNCHANGED <<session, app>>
  BY <1>3, <1>4, <1>5 DEF Wake, Goto
<1>7. k \in Execution /\ k.op = k0.op /\ k.c = k0.c /\ k.arg = k0.arg /\ k.n = k0.n /\ k.at = z
  BY <1>5, Moves
<1>8. PlaceOK(k0, r0) /\ k0.c = c
  BY <1>2, <1>3 DEF InOrder
<1>9. PlaceOK(k, r0)
  BY <1>3, <1>4, <1>7, <1>8 DEF PlaceOK
<1>10. k # Idle
  BY <1>3, <1>7, IdleCall
<1>11. HeldBy(c, r0, k)
  BY <1>2, <1>4, <1>7 DEF InOrder, HeldBy
<1>12. x = "up" => PendOK(e0, k, r0)
  <2>1. x = "up" => PendOK(e0, k0, r0)
    BY <1>2, <1>3 DEF InOrder
  <2> QED
    BY <1>4, <1>7, <2>1 DEF PendOK
<1>13. InOrder(k, c, r0, p0, y0, G, F, x, e0)
  BY <1>2, <1>7, <1>8, <1>9, <1>10, <1>11, <1>12 DEF InOrder
<1>14. (k0.op = "read" => k0.n = Zero) /\ (k.op = "read" => k.n = Zero)
  BY <1>3, <1>7, <1>8 DEF PlaceOK
<1> QED
  BY <1>2, <1>6, <1>7, <1>13, <1>14, MoveStep

\* A wait that ends without reading.
LEMMA WaitReturns ==
    ASSUME IInv, call.op \in {"waitEof", "waitClosed"}, Return, UNCHANGED <<session, app>>
    PROVE  IInv'
<1>1. PICK k0 \in Execution, c \in Chans, r0 \in Channel, p0 \in Peer, y0 \in Account,
           b0 \in Seq(Piece), G \in Nat, F \in Nat, x \in {"up", "disconnected", "broken"}, e0 \in {pend} :
        Before(k0, c, r0, p0, y0, b0, G, F, x, e0) /\ InOrder(k0, c, r0, p0, y0, G, F, x, e0)
  BY Starts
<1>2. k0.op \in {"waitEof", "waitClosed"} /\ k0 # Idle
  BY <1>1 DEF Before
<1>3. r0.writing # "created" /\ (x = "up" => Loose(e0))
  BY <1>1, <1>2 DEF InOrder, HeldBy, PendOK
<1>4. InOrder(Idle, c, r0, p0, y0, G, F, x, e0)
  BY <1>1, <1>2, <1>3, Returning
<1>5. PICK k \in Execution : k = Idle
  BY IdleCall
<1>6. call' = k /\ (k.op = "read" => k.n = Zero) /\ (k0.op = "read" => k0.n = Zero)
  BY <1>2, <1>5, IdleCall DEF Return
<1>7. InOrder(k, c, r0, p0, y0, G, F, x, e0)
  BY <1>4, <1>5
<1> QED
  BY <1>1, <1>6, <1>7, MoveStep

\* A close that goes to another place.
LEMMA CloseMoves ==
    ASSUME IInv, call.op \in {"close", "free"}, UNCHANGED <<session, app>>,
           NEW z \in {"send", "await", "closed", "cleanup"}, Goto(z),
           z = "send" => ~ch[call.c].lclose /\ ch[call.c].closing # "sent" /\ call.at = "enter",
           z \in {"await", "closed"} => ch[call.c].closing = "sent",
           z = "cleanup" => net # "up" \/ ch[call.c].lclose
    PROVE  IInv'
<1>1. PICK k0 \in Execution, c \in Chans, r0 \in Channel, p0 \in Peer, y0 \in Account,
           b0 \in Seq(Piece), G \in Nat, F \in Nat, x \in {"up", "disconnected", "broken"}, e0 \in {pend} :
        Before(k0, c, r0, p0, y0, b0, G, F, x, e0) /\ InOrder(k0, c, r0, p0, y0, G, F, x, e0)
  BY Starts
<1>2. call = k0 /\ k0.op \in {"close", "free"} /\ k0 # Idle /\ k0.c = c /\ ch[c] = r0 /\ net = x
  BY <1>1 DEF Before
<1>3. PICK k : k = [k0 EXCEPT !.at = z]
  OBVIOUS
<1>4. call' = k
  BY <1>2, <1>3 DEF Goto
<1>5. z \in Positions
  BY DEF Positions
<1>6. k \in Execution /\ k.op = k0.op /\ k.c = k0.c /\ k.arg = k0.arg /\ k.n = k0.n /\ k.at = z
  BY <1>3, <1>5, Moves
<1>7. /\ z = "send" => ~r0.lclose /\ r0.closing # "sent" /\ k0.at = "enter"
      /\ z \in {"await", "closed"} => r0.closing = "sent"
      /\ z = "cleanup" => x # "up" \/ r0.lclose
  BY <1>2
<1>8. PlaceOK(k0, r0) /\ CloseOK(r0, p0) /\ HeldBy(c, r0, k0) /\ (x = "up" => PendOK(e0, k0, r0))
  BY <1>1, <1>2 DEF InOrder
<1>9. PlaceOK(k, r0)
  BY <1>2, <1>6, <1>7, <1>8 DEF PlaceOK
<1>10. HeldBy(c, r0, k)
  BY <1>2, <1>6, <1>8 DEF HeldBy
<1>11. x = "up" => PendOK(e0, k, r0)
  BY <1>2, <1>6, <1>7, <1>8 DEF PendOK, CloseOK
<1>12. InOrder(k, c, r0, p0, y0, G, F, x, e0)
  BY <1>1, <1>2, <1>6, <1>9, <1>10, <1>11, IdleCall DEF InOrder
<1>13. (k0.op = "read" => k0.n = Zero) /\ (k.op = "read" => k.n = Zero)
  BY <1>2, <1>6
<1> QED
  BY <1>1, <1>4, <1>6, <1>12, <1>13, MoveStep

\* Entering a close keeps the invariant.
LEMMA CloseEntersStep ==
    ASSUME IInv, CloseEnters
    PROVE  IInv'
<1>1. call.op \in {"close", "free"} /\ call.at = "enter" /\ UNCHANGED <<session, app>>
  BY DEF CloseEnters, Closes
<1>2. CASE ch[call.c].lclose \/ (call.op = "free" /\ net = "disconnected")
  <2>1. Closed(TRUE)
    BY <1>2 DEF CloseEnters
  <2>2. CASE call.op = "free"
    <3>1. Goto("cleanup")
      BY <2>1, <2>2 DEF Closed
    <3> QED
      BY <1>1, <1>2, <3>1, CloseMoves
  <2>3. CASE call.op # "free"
    <3>1. Return /\ ch[call.c].lclose
      BY <1>2, <2>1, <2>3 DEF Closed
    <3>2. PICK k0 \in Execution, c \in Chans, r0 \in Channel, p0 \in Peer, y0 \in Account,
           b0 \in Seq(Piece), G \in Nat, F \in Nat, x \in {"up", "disconnected", "broken"}, e0 \in {pend} :
            Before(k0, c, r0, p0, y0, b0, G, F, x, e0) /\ InOrder(k0, c, r0, p0, y0, G, F, x, e0)
      BY <1>1, Starts
    <3>3. k0.op = "close" /\ k0 # Idle /\ r0.lclose
      BY <1>1, <2>3, <3>1, <3>2 DEF Before
    <3>4. r0.writing # "created" /\ (x = "up" => Loose(e0))
      BY <3>2, <3>3 DEF InOrder, HeldBy, PendOK, CloseOK
    <3>5. InOrder(Idle, c, r0, p0, y0, G, F, x, e0)
      BY <3>2, <3>3, <3>4, Returning
    <3>6. PICK k \in Execution : k = Idle
      BY IdleCall
    <3>7. call' = k /\ (k.op = "read" => k.n = Zero) /\ (k0.op = "read" => k0.n = Zero)
      BY <3>1, <3>3, <3>6, IdleCall DEF Return
    <3>8. InOrder(k, c, r0, p0, y0, G, F, x, e0)
      BY <3>5, <3>6
    <3> QED
      BY <1>1, <3>2, <3>7, <3>8, MoveStep
  <2> QED
    BY <2>2, <2>3
<1>3. CASE ~(ch[call.c].lclose \/ (call.op = "free" /\ net = "disconnected"))
  <2>1. Goto(IF ch[call.c].closing = "sent" THEN "await" ELSE "send")
    BY <1>3 DEF CloseEnters
  <2>2. CASE ch[call.c].closing = "sent"
    <3>1. Goto("await")
      BY <2>1, <2>2
    <3> QED
      BY <1>1, <2>2, <3>1, CloseMoves
  <2>3. CASE ch[call.c].closing # "sent"
    <3>1. Goto("send")
      BY <2>1, <2>3
    <3> QED
      BY <1>1, <1>3, <2>3, <3>1, CloseMoves
  <2> QED
    BY <2>2, <2>3
<1> QED
  BY <1>2, <1>3

\* A channel, its peer and its account put back in their place change nothing.
LEMMA Stays ==
    ASSUME IInv,
           NEW k0, NEW c \in Chans, NEW r0, NEW p0, NEW y0, NEW b0, NEW G, NEW F, NEW x, NEW e0,
           Before(k0, c, r0, p0, y0, b0, G, F, x, e0)
    PROVE  /\ ch = [ch EXCEPT ![c] = r0] /\ peer = [peer EXCEPT ![c] = p0]
           /\ app = [app EXCEPT ![c] = y0]
<1>1. ch \in [Chans -> Channel] /\ peer \in [Chans -> Peer] /\ app \in [Chans -> Account]
  BY DEF IInv, Types
<1> QED
  BY <1>1 DEF Before

\* The end of a close keeps the invariant.
LEMMA CloseEndsStep ==
    ASSUME IInv, CloseEnds
    PROVE  IInv'
<1>1. call.op \in {"close", "free"} /\ call.at \in {"closed", "closedFail"}
  BY DEF CloseEnds, Closes
<1>2. PICK k0 \in Execution, c \in Chans, r0 \in Channel, p0 \in Peer, y0 \in Account,
           b0 \in Seq(Piece), G \in Nat, F \in Nat, x \in {"up", "disconnected", "broken"}, e0 \in {pend} :
        Before(k0, c, r0, p0, y0, b0, G, F, x, e0) /\ InOrder(k0, c, r0, p0, y0, G, F, x, e0)
  BY <1>1, Starts
<1>3. /\ call = k0 /\ k0.op \in {"close", "free"} /\ k0.at \in {"closed", "closedFail"}
      /\ k0 # Idle /\ k0.c = c /\ ch[c] = r0
  BY <1>1, <1>2 DEF Before
<1>4. PICK t \in BOOLEAN, i \in {"idle", "created", "sent"} : t = TRUE /\ i = "idle"
  OBVIOUS
<1>5. PICK r : r = [r0 EXCEPT !.lclose = t, !.closing = i]
  OBVIOUS
<1>6. ch' = [ch EXCEPT ![c] = r]
  BY <1>3, <1>4, <1>5 DEF CloseEnds
<1>7. r \in Channel
  BY <1>5 DEF Channel
<1>8. /\ r.live = r0.live /\ r.lwin = r0.lwin /\ r.lclose = t /\ r.mode = r0.mode
      /\ r.writing = r0.writing /\ r.bufwrite = r0.bufwrite /\ r.closing = i
      /\ r.rwin = r0.rwin /\ r.adjusting = r0.adjusting /\ r.slipped = r0.slipped
      /\ r.stalled = r0.stalled
  BY <1>5 DEF Channel
<1>9. /\ PlaceOK(k0, r0) /\ CloseOK(r0, p0) /\ HeldBy(c, r0, k0) /\ LocalOK(r0, p0, G)
      /\ RemoteOK(r0, p0, y0, F, x) /\ (x = "up" => PendOK(e0, k0, r0))
  BY <1>2, <1>3 DEF InOrder
<1>10. (x = "up" => Loose(e0)) /\ r0.writing # "created"
  BY <1>3, <1>9 DEF PendOK, HeldBy
<1>11. LocalOK(r, p0, G) /\ RemoteOK(r, p0, y0, F, x)
  BY <1>8, <1>9 DEF LocalOK, RemoteOK
<1>12. CloseOK(r, p0)
  BY <1>4, <1>8, <1>9, <1>10 DEF CloseOK
<1>13. \A k : HeldBy(c, r, k)
  BY <1>4, <1>8, <1>10 DEF HeldBy
<1>14. PICK k \in Execution : call' = k /\ (k = Idle \/ (k.c = c /\ k.op = "free" /\ PlaceOK(k, r)))
  <2>1. CASE k0.op = "free" /\ k0.at = "closed"
    <3>1. PICK z \in Positions : z = "cleanup"
      BY DEF Positions
    <3>2. PICK k : k = [k0 EXCEPT !.at = z]
      OBVIOUS
    <3>3. call' = k
      BY <1>3, <2>1, <3>1, <3>2 DEF CloseEnds, Closed, Goto
    <3>4. k \in Execution /\ k.op = k0.op /\ k.c = k0.c /\ k.arg = k0.arg /\ k.n = k0.n /\ k.at = z
      BY <3>2, Moves
    <3>5. PlaceOK(k, r)
      BY <1>8, <1>9, <2>1, <3>1, <3>4 DEF PlaceOK
    <3> QED
      BY <1>3, <2>1, <3>3, <3>4, <3>5
  <2>2. CASE ~(k0.op = "free" /\ k0.at = "closed")
    BY <1>3, <2>2, IdleCall DEF CloseEnds, Closed, Return
  <2> QED
    BY <2>1, <2>2
<1>15. InOrder(k, c, r, p0, y0, G, F, x, e0)
  BY <1>10, <1>11, <1>12, <1>13, <1>14 DEF InOrder, PendOK
<1>16. Changed(k, c, r, p0, y0, b0, e0)
  <2>1. UNCHANGED <<brigade, inbound, net, pend, add, peer, app>>
    BY DEF CloseEnds
  <2> QED
    BY <1>2, <1>6, <1>14, <2>1, Stays DEF Changed, Before
<1>17. (k0.op = "read" => k0.n = Zero) /\ (k.op = "read" => k.n = Zero)
  BY <1>3, <1>14, IdleCall
<1> QED
  BY <1>2, <1>7, <1>15, <1>16, <1>17, WroteNothing, QuietStep

\* What a write of an own packet does to the peer.
LEMMA OwnSends ==
    ASSUME Types, NEW c \in Chans, NEW p0 \in Peer, peer[c] = p0, NEW x, net = x,
           NEW e0, pend = e0,
           NEW kind \in PacketKinds \ {"adjust"}, NEW n \in Int, NEW rc, Send(kind, c, n, rc),
           x = "up" => Loose(e0) \/ e0 = <<kind, c>>
    PROVE  /\ rc \in {"NONE", "EAGAIN", "FAIL"}
           /\ rc = "NONE" => Loose(pend')
           /\ rc = "EAGAIN" => pend' = <<kind, c>>
           /\ rc = "FAIL" /\ x = "up" => Loose(pend')
           /\ pend' \in Pendings
           /\ \E p \in Peer :
                /\ peer' = [peer EXCEPT ![c] = p]
                /\ Delivered(kind, n, rc, p0, p)
                /\ x = "up" => Stood(p0, p)
<1>1. kind \in PacketKinds /\ kind # "adjust"
  OBVIOUS
<1>2. net = "up" => Loose(pend) \/ pend = <<kind, c>>
  OBVIOUS
<1>3. kind = "adjust" => n \in Nat
  BY <1>1
<1>4. /\ rc \in {"NONE", "EAGAIN", "FAIL"}
      /\ rc = "NONE" => pend' = NoPacket
      /\ rc = "EAGAIN" => pend' = <<kind, c>>
      /\ rc = "FAIL" => pend' = pend
      /\ rc = "FAIL" /\ net = "up" => Loose(pend)
      /\ pend' \in Pendings
  BY <1>1, <1>2, <1>3, Sends, Zenon
<1>5. PICK p \in Peer :
        /\ peer' = [peer EXCEPT ![c] = p]
        /\ Delivered(kind, n, rc, peer[c], p)
        /\ net = "up" => Stood(peer[c], p)
  BY <1>1, <1>2, <1>3, Sends, Zenon
<1>6. rc = "NONE" => Loose(pend')
  BY <1>4 DEF Loose
<1>7. rc = "FAIL" /\ x = "up" => Loose(pend')
  BY <1>4
<1> QED
  BY <1>4, <1>5, <1>6, <1>7

\* Sending a close keeps the invariant.
LEMMA CloseSendsStep ==
    ASSUME IInv, CloseSends
    PROVE  IInv'
<1>1. call.op \in {"close", "free"} /\ call.at = "send"
  BY DEF CloseSends, Closes
<1>2. PICK k0 \in Execution, c \in Chans, r0 \in Channel, p0 \in Peer, y0 \in Account,
           b0 \in Seq(Piece), G \in Nat, F \in Nat, x \in {"up", "disconnected", "broken"}, e0 \in {pend} :
        Before(k0, c, r0, p0, y0, b0, G, F, x, e0) /\ InOrder(k0, c, r0, p0, y0, G, F, x, e0)
  BY <1>1, Starts
<1>3. call = k0 /\ k0.op \in {"close", "free"} /\ k0.at = "send" /\ k0 # Idle /\ k0.c = c /\ ch[c] = r0
  BY <1>1, <1>2 DEF Before
<1>4. PICK rc \in Rcs :
        /\ Send("close", call.c, 0, rc)
        /\ ch' = [ch EXCEPT ![call.c].closing =
              CASE rc = "NONE" -> "sent" [] rc = "EAGAIN" -> "created" [] OTHER -> "idle"]
        /\ CASE rc = "NONE" -> Goto("await") [] rc = "EAGAIN" -> Again [] OTHER -> Closed(FALSE)
  BY Zenon DEF CloseSends
<1>5. /\ PlaceOK(k0, r0) /\ CloseOK(r0, p0) /\ HeldBy(c, r0, k0) /\ LocalOK(r0, p0, G)
      /\ RemoteOK(r0, p0, y0, F, x) /\ (x = "up" => PendOK(e0, k0, r0))
  BY <1>2, <1>3 DEF InOrder
<1>6. /\ r0.writing # "created" /\ ~r0.lclose /\ r0.closing # "sent"
      /\ (x = "up" => Loose(e0) \/ e0 = <<"close", c>>)
  BY <1>3, <1>5 DEF PendOK, HeldBy, PlaceOK
<1>7. PICK n \in Int : n = 0
  OBVIOUS
<1>8. Send("close", c, n, rc)
  BY <1>3, <1>4, <1>7, Zenon
<1>8a. "close" \in PacketKinds \ {"adjust"} /\ Types /\ peer[c] = p0 /\ net = x /\ pend = e0
  BY <1>2 DEF IInv, Before, PacketKinds
<1>8b. x = "up" => Loose(e0) \/ e0 = <<"close", c>>
  BY <1>6
<1>9. /\ rc \in {"NONE", "EAGAIN", "FAIL"}
      /\ rc = "NONE" => Loose(pend')
      /\ rc = "EAGAIN" => pend' = <<"close", c>>
      /\ rc = "FAIL" /\ x = "up" => Loose(pend')
      /\ pend' \in Pendings
  BY <1>8, <1>8a, <1>8b, OwnSends
<1>10. PICK p \in Peer :
         /\ peer' = [peer EXCEPT ![c] = p]
         /\ Delivered("close", n, rc, p0, p)
         /\ x = "up" => Stood(p0, p)
  BY <1>8, <1>8a, <1>8b, OwnSends
<1>11. /\ p.sent = p0.sent /\ p.window = p0.window /\ p.grant = p0.grant
       /\ p.closes = IF rc = "NONE" THEN p0.closes + 1 ELSE p0.closes
  <2>1. p0.closes \in Nat /\ p0.window \in Int /\ p0.grant \in Nat
    BY DEF Peer
  <2> QED
    BY <1>10, <2>1 DEF Delivered
<1>12. p0.closes = 0
  <2>1. p0.closes \in Nat
    BY DEF Peer
  <2> QED
    BY <1>5, <1>6, <2>1 DEF CloseOK
<1>13. PICK i \in {"idle", "created", "sent"} :
         i = CASE rc = "NONE" -> "sent" [] rc = "EAGAIN" -> "created" [] OTHER -> "idle"
  BY <1>9
<1>14. PICK r : r = [r0 EXCEPT !.closing = i]
  OBVIOUS
<1>15. ch' = [ch EXCEPT ![c] = r]
  BY <1>3, <1>4, <1>13, <1>14, Zenon
<1>16. r \in Channel
  BY <1>14 DEF Channel
<1>17. /\ r.live = r0.live /\ r.lwin = r0.lwin /\ r.lclose = r0.lclose /\ r.mode = r0.mode
       /\ r.writing = r0.writing /\ r.bufwrite = r0.bufwrite /\ r.closing = i
       /\ r.rwin = r0.rwin /\ r.adjusting = r0.adjusting /\ r.slipped = r0.slipped
       /\ r.stalled = r0.stalled
  BY <1>14 DEF Channel
<1>18. LocalOK(r, p, G) /\ RemoteOK(r, p, y0, F, x)
  BY <1>5, <1>10, <1>11, <1>17 DEF LocalOK, RemoteOK, Stood
<1>19. CloseOK(r, p)
  BY <1>6, <1>9, <1>11, <1>12, <1>13, <1>17 DEF CloseOK
<1>20. \E k \in Execution : /\ call' = k /\ HeldBy(c, r, k)
                            /\ k # Idle => k.c = c /\ PlaceOK(k, r) /\ k.op = k0.op
                            /\ x = "up" => IF k = Idle THEN Loose(pend') ELSE PendOK(pend', k, r)
  <2>1. CASE rc = "NONE"
    <3>1. PICK z \in Positions : z = "await"
      BY DEF Positions
    <3>2. PICK k : k = [k0 EXCEPT !.at = z]
      OBVIOUS
    <3>3. call' = k
      BY <1>3, <1>4, <2>1, <3>1, <3>2 DEF Goto
    <3>4. k \in Execution /\ k.op = k0.op /\ k.c = k0.c /\ k.arg = k0.arg /\ k.n = k0.n /\ k.at = z
      BY <3>2, Moves
    <3>5. PlaceOK(k, r)
      BY <1>3, <1>5, <1>13, <1>17, <2>1, <3>1, <3>4 DEF PlaceOK
    <3>6. HeldBy(c, r, k)
      BY <1>3, <1>6, <1>17, <3>4 DEF HeldBy
    <3>7. k # Idle
      BY <1>3, <3>4, IdleCall
    <3>8. PendOK(pend', k, r)
      BY <1>9, <2>1 DEF PendOK
    <3> QED
      BY <1>3, <3>3, <3>4, <3>5, <3>6, <3>7, <3>8
  <2>2. CASE rc = "EAGAIN"
    <3>1. Again
      BY <1>4, <2>2
    <3>2. PICK k \in Execution : /\ call' = k /\ Resumes(k, k0, ch[k0.c]) /\ k # Idle
                                 /\ k.at = "select" /\ k.n = Zero /\ k.op = k0.op /\ k.c = k0.c
      BY <1>3, <3>1, Repeats
    <3>3. PlaceOK(k, r0)
      BY <1>3, <3>2 DEF Resumes
    <3>4. PlaceOK(k, r)
      BY <1>3, <1>17, <3>2, <3>3 DEF PlaceOK
    <3>5. HeldBy(c, r, k)
      BY <1>6, <1>13, <1>17, <2>2 DEF HeldBy
    <3>6. PendOK(pend', k, r)
      BY <1>3, <1>9, <1>13, <1>17, <2>2, <3>2 DEF PendOK
    <3> QED
      BY <1>3, <3>2, <3>4, <3>5, <3>6
  <2>3. CASE rc = "FAIL"
    <3>1. call' = Idle
      BY <1>4, <2>3 DEF Closed, Return
    <3>2. HeldBy(c, r, Idle)
      BY <1>6, <1>13, <1>17, <2>3 DEF HeldBy
    <3> QED
      BY <1>9, <2>3, <3>1, <3>2, IdleCall
  <2> QED
    BY <1>9, <2>1, <2>2, <2>3
<1>21. PICK k \in Execution : /\ call' = k /\ HeldBy(c, r, k)
                              /\ k # Idle => k.c = c /\ PlaceOK(k, r) /\ k.op = k0.op
                              /\ x = "up" => IF k = Idle THEN Loose(pend') ELSE PendOK(pend', k, r)
  BY <1>20, Zenon
<1>22. PICK e : e = pend'
  OBVIOUS
<1>23. InOrder(k, c, r, p, y0, G, F, x, e)
  BY <1>18, <1>19, <1>21, <1>22 DEF InOrder
<1>24. Changed(k, c, r, p, y0, b0, e)
  <2>1. UNCHANGED <<brigade, inbound, net, add, app>>
    BY DEF CloseSends
  <2> QED
    BY <1>2, <1>9, <1>10, <1>15, <1>21, <1>22, <2>1, Stays DEF Changed, Before
<1>25. (k0.op = "read" => k0.n = Zero) /\ (k.op = "read" => k.n = Zero)
  BY <1>3, <1>21, IdleCall
<1> QED
  BY <1>2, <1>11, <1>16, <1>23, <1>24, <1>25, WroteNothing, QuietStep

\* Sending the end of file keeps the invariant.
LEMMA SendEofStep ==
    ASSUME IInv, SendEof
    PROVE  IInv'
<1>1. call.op = "eof" /\ call.at = "enter"
  BY DEF SendEof, Running
<1>2. PICK k0 \in Execution, c \in Chans, r0 \in Channel, p0 \in Peer, y0 \in Account,
           b0 \in Seq(Piece), G \in Nat, F \in Nat, x \in {"up", "disconnected", "broken"}, e0 \in {pend} :
        Before(k0, c, r0, p0, y0, b0, G, F, x, e0) /\ InOrder(k0, c, r0, p0, y0, G, F, x, e0)
  BY <1>1, Starts
<1>3. call = k0 /\ k0.op = "eof" /\ k0.at = "enter" /\ k0 # Idle /\ k0.c = c /\ ch[c] = r0
  BY <1>1, <1>2 DEF Before
<1>4. PICK rc \in Rcs :
        /\ Send("eof", call.c, 0, rc)
        /\ ch' = [ch EXCEPT ![call.c].leof = @ \/ rc = "NONE"]
        /\ IF rc = "EAGAIN" THEN Again ELSE Return
  BY Zenon DEF SendEof
<1>5. /\ PlaceOK(k0, r0) /\ CloseOK(r0, p0) /\ HeldBy(c, r0, k0) /\ LocalOK(r0, p0, G)
      /\ RemoteOK(r0, p0, y0, F, x) /\ (x = "up" => PendOK(e0, k0, r0))
  BY <1>2, <1>3 DEF InOrder
<1>6. /\ r0.writing # "created" /\ ~(r0.live /\ r0.closing = "sent" /\ ~r0.lclose)
      /\ (x = "up" => Loose(e0) \/ e0 = <<"eof", c>>)
  BY <1>3, <1>5 DEF PendOK, HeldBy
<1>7. PICK n \in Int : n = 0
  OBVIOUS
<1>8. Send("eof", c, n, rc)
  BY <1>3, <1>4, <1>7, Zenon
<1>8a. "eof" \in PacketKinds \ {"adjust"} /\ Types /\ peer[c] = p0 /\ net = x /\ pend = e0
  BY <1>2 DEF IInv, Before, PacketKinds
<1>8b. x = "up" => Loose(e0) \/ e0 = <<"eof", c>>
  BY <1>6
<1>9. /\ rc \in {"NONE", "EAGAIN", "FAIL"}
      /\ rc = "NONE" => Loose(pend')
      /\ rc = "EAGAIN" => pend' = <<"eof", c>>
      /\ rc = "FAIL" /\ x = "up" => Loose(pend')
      /\ pend' \in Pendings
  BY <1>8, <1>8a, <1>8b, OwnSends
<1>10. PICK p \in Peer :
         /\ peer' = [peer EXCEPT ![c] = p]
         /\ Delivered("eof", n, rc, p0, p)
         /\ x = "up" => Stood(p0, p)
  BY <1>8, <1>8a, <1>8b, OwnSends
<1>11. p.sent = p0.sent /\ p.window = p0.window /\ p.grant = p0.grant /\ p.closes = p0.closes
  <2>1. p0.closes \in Nat /\ p0.window \in Int /\ p0.grant \in Nat
    BY DEF Peer
  <2> QED
    BY <1>10, <2>1 DEF Delivered
<1>13. PICK i \in BOOLEAN : i = (r0.leof \/ rc = "NONE")
  OBVIOUS
<1>14. PICK r : r = [r0 EXCEPT !.leof = i]
  OBVIOUS
<1>15. ch' = [ch EXCEPT ![c] = r]
  BY <1>3, <1>4, <1>13, <1>14, Zenon
<1>16. r \in Channel
  BY <1>14 DEF Channel
<1>17. /\ r.live = r0.live /\ r.lwin = r0.lwin /\ r.lclose = r0.lclose /\ r.mode = r0.mode
       /\ r.writing = r0.writing /\ r.bufwrite = r0.bufwrite /\ r.closing = r0.closing
       /\ r.rwin = r0.rwin /\ r.adjusting = r0.adjusting /\ r.slipped = r0.slipped
       /\ r.stalled = r0.stalled
  BY <1>14 DEF Channel
<1>18. LocalOK(r, p, G) /\ RemoteOK(r, p, y0, F, x)
  BY <1>5, <1>10, <1>11, <1>17 DEF LocalOK, RemoteOK, Stood
<1>19. CloseOK(r, p)
  BY <1>5, <1>11, <1>17 DEF CloseOK
<1>20. \A k : HeldBy(c, r, k)
  BY <1>6, <1>17 DEF HeldBy
<1>21. PICK k \in Execution : /\ call' = k
                              /\ k # Idle => k.c = c /\ PlaceOK(k, r) /\ k.op = "eof"
                              /\ x = "up" => IF k = Idle THEN Loose(pend') ELSE PendOK(pend', k, r)
  <2>1. CASE rc = "EAGAIN"
    <3>1. Again
      BY <1>4, <2>1
    <3>2. PICK k \in Execution : /\ call' = k /\ Resumes(k, k0, ch[k0.c]) /\ k # Idle
                                 /\ k.at = "select" /\ k.n = Zero /\ k.op = k0.op /\ k.c = k0.c
      BY <1>3, <3>1, Repeats
    <3>3. PlaceOK(k, r0)
      BY <1>3, <3>2 DEF Resumes
    <3>4. PlaceOK(k, r)
      BY <1>3, <1>17, <3>2, <3>3 DEF PlaceOK
    <3>5. PendOK(pend', k, r)
      BY <1>3, <1>9, <2>1, <3>2 DEF PendOK
    <3> QED
      BY <1>3, <3>2, <3>4, <3>5
  <2>2. CASE rc # "EAGAIN"
    BY <1>4, <1>9, <2>2, IdleCall DEF Return
  <2> QED
    BY <2>1, <2>2
<1>22. PICK e : e = pend'
  OBVIOUS
<1>23. InOrder(k, c, r, p, y0, G, F, x, e)
  BY <1>18, <1>19, <1>20, <1>21, <1>22 DEF InOrder
<1>24. Changed(k, c, r, p, y0, b0, e)
  <2>1. UNCHANGED <<brigade, inbound, net, add, app>>
    BY DEF SendEof
  <2> QED
    BY <1>2, <1>9, <1>10, <1>15, <1>21, <1>22, <2>1, Stays DEF Changed, Before
<1>25. (k0.op = "read" => k0.n = Zero) /\ (k.op = "read" => k.n = Zero)
  BY <1>3, <1>21, IdleCall
<1> QED
  BY <1>2, <1>11, <1>16, <1>23, <1>24, <1>25, WroteNothing, QuietStep

\* Changing the handling of extended data keeps the invariant.
LEMMA ExtendedDataStep ==
    ASSUME IInv, ExtendedData
    PROVE  IInv'
<1>1. call.op = "mode" /\ call.at = "enter"
  BY DEF ExtendedData, Running
<1>2. PICK k0 \in Execution, c \in Chans, r0 \in Channel, p0 \in Peer, y0 \in Account,
           b0 \in Seq(Piece), G \in Nat, F \in Nat, x \in {"up", "disconnected", "broken"}, e0 \in {pend} :
        Before(k0, c, r0, p0, y0, b0, G, F, x, e0) /\ InOrder(k0, c, r0, p0, y0, G, F, x, e0)
  BY <1>1, Starts
<1>3. call = k0 /\ k0.op = "mode" /\ k0 # Idle /\ k0.c = c /\ ch[c] = r0
  BY <1>1, <1>2 DEF Before
<1>5. /\ PlaceOK(k0, r0) /\ CloseOK(r0, p0) /\ HeldBy(c, r0, k0) /\ LocalOK(r0, p0, G)
      /\ RemoteOK(r0, p0, y0, F, x) /\ (x = "up" => PendOK(e0, k0, r0))
  BY <1>2, <1>3 DEF InOrder
<1>6. /\ r0.writing # "created" /\ ~(r0.live /\ r0.closing = "sent" /\ ~r0.lclose)
      /\ (x = "up" => Loose(e0))
  BY <1>3, <1>5 DEF PendOK, HeldBy
<1>7. PICK i \in Modes : i = k0.arg
  <2>1. PICK o \in Ops : k0.op = o[1] /\ k0.arg = o[2]
    BY <1>5 DEF PlaceOK
  <2> QED
    BY <1>3, <2>1, ChannelAssumption
<1>8. PICK r : r = [r0 EXCEPT !.mode = i]
  OBVIOUS
<1>9. ch' = [ch EXCEPT ![c] = r]
  BY <1>3, <1>7, <1>8 DEF ExtendedData
<1>10. r \in Channel
  BY <1>8 DEF Channel
<1>11. /\ r.live = r0.live /\ r.lwin = r0.lwin /\ r.lclose = r0.lclose /\ r.mode = i
       /\ r.writing = r0.writing /\ r.bufwrite = r0.bufwrite /\ r.closing = r0.closing
       /\ r.rwin = r0.rwin /\ r.adjusting = r0.adjusting /\ r.slipped = r0.slipped
       /\ r.stalled = r0.stalled
  BY <1>8 DEF Channel
<1>12. LocalOK(r, p0, G) /\ RemoteOK(r, p0, y0, F, x)
  BY <1>5, <1>7, <1>11 DEF LocalOK, RemoteOK
<1>13. CloseOK(r, p0)
  BY <1>5, <1>11 DEF CloseOK
<1>14. \A k : HeldBy(c, r, k)
  BY <1>6, <1>11 DEF HeldBy
<1>15. PICK k \in Execution : k = Idle
  BY IdleCall
<1>16. InOrder(k, c, r, p0, y0, G, F, x, e0)
  BY <1>6, <1>12, <1>13, <1>14, <1>15 DEF InOrder
<1>17. Changed(k, c, r, p0, y0, b0, e0)
  <2>1. call' = k /\ UNCHANGED <<brigade, inbound, net, pend, add, peer, app>>
    BY <1>15 DEF ExtendedData, Return
  <2> QED
    BY <1>2, <1>9, <2>1, Stays DEF Changed, Before
<1>18. (k0.op = "read" => k0.n = Zero) /\ (k.op = "read" => k.n = Zero)
  BY <1>3, <1>15, IdleCall
<1> QED
  BY <1>2, <1>10, <1>16, <1>17, <1>18, WroteNothing, QuietStep

\* Entering a write keeps the invariant.
LEMMA WriteEntersStep ==
    ASSUME IInv, WriteEnters
    PROVE  IInv'
<1>1. call.op = "write" /\ call.at = "enter"
  BY DEF WriteEnters, Running
<1>2. PICK k0 \in Execution, c \in Chans, r0 \in Channel, p0 \in Peer, y0 \in Account,
           b0 \in Seq(Piece), G \in Nat, F \in Nat, x \in {"up", "disconnected", "broken"}, e0 \in {pend} :
        Before(k0, c, r0, p0, y0, b0, G, F, x, e0) /\ InOrder(k0, c, r0, p0, y0, G, F, x, e0)
  BY <1>1, Starts
<1>3. call = k0 /\ k0.op = "write" /\ k0.at = "enter" /\ k0 # Idle /\ k0.c = c /\ ch[c] = r0
  BY <1>1, <1>2 DEF Before
<1>4. UNCHANGED <<brigade, inbound, net, pend, add, peer, app>>
  BY DEF WriteEnters
<1>5. /\ PlaceOK(k0, r0) /\ CloseOK(r0, p0) /\ HeldBy(c, r0, k0) /\ LocalOK(r0, p0, G)
      /\ RemoteOK(r0, p0, y0, F, x) /\ (x = "up" => PendOK(e0, k0, r0))
  BY <1>2, <1>3 DEF InOrder
<1>6. /\ ~(r0.live /\ r0.closing = "sent" /\ ~r0.lclose)
      /\ x = "up" /\ r0.writing # "created" => Loose(e0)
  BY <1>3, <1>5 DEF PendOK, HeldBy
<1>7. CASE r0.writing = "idle" /\ r0.lclose
  <2>1. PICK k \in Execution : k = Idle
    BY IdleCall
  <2>2. call' = k /\ ch' = ch
    BY <1>3, <1>7, <2>1 DEF WriteEnters, Return
  <2>3. InOrder(k, c, r0, p0, y0, G, F, x, e0)
    BY <1>2, <1>3, <1>6, <1>7, <2>1, Returning
  <2>4. (k0.op = "read" => k0.n = Zero) /\ (k.op = "read" => k.n = Zero)
    BY <1>3, <2>1, IdleCall
  <2>5. UNCHANGED <<session, app>>
    BY <1>4, <2>2 DEF session
  <2> QED
    BY <1>2, <2>2, <2>3, <2>4, <2>5, MoveStep
<1>8. CASE r0.writing = "idle" /\ ~r0.lclose
  <2>1. PICK z \in Positions, i \in {"idle", "allocated", "created"}, n \in Int :
          z = "drain" /\ i = "allocated" /\ n = 0
    BY DEF Positions
  <2>2. PICK k : k = [k0 EXCEPT !.at = z]
    OBVIOUS
  <2>3. PICK r : r = [r0 EXCEPT !.writing = i, !.bufwrote = n]
    OBVIOUS
  <2>4. call' = k /\ ch' = [ch EXCEPT ![c].writing = "allocated", ![c].bufwrote = 0]
    BY <1>3, <1>8, <2>1, <2>2 DEF WriteEnters, Goto
  <2>5. ch' = [ch EXCEPT ![c] = r]
    BY <1>3, <2>1, <2>3, <2>4
  <2>6. k \in Execution /\ k.op = k0.op /\ k.c = k0.c /\ k.arg = k0.arg /\ k.n = k0.n /\ k.at = z
    BY <2>2, Moves
  <2>7. r \in Channel
    BY <2>3 DEF Channel
  <2>8. /\ r.live = r0.live /\ r.lwin = r0.lwin /\ r.lclose = r0.lclose /\ r.mode = r0.mode
        /\ r.writing = i /\ r.closing = r0.closing
        /\ r.rwin = r0.rwin /\ r.adjusting = r0.adjusting /\ r.slipped = r0.slipped
        /\ r.stalled = r0.stalled
    BY <2>3 DEF Channel
  <2>9. LocalOK(r, p0, G) /\ RemoteOK(r, p0, y0, F, x) /\ CloseOK(r, p0)
    BY <1>5, <2>1, <2>8 DEF LocalOK, RemoteOK, CloseOK
  <2>10. HeldBy(c, r, k)
    BY <1>6, <2>1, <2>8 DEF HeldBy
  <2>11. PlaceOK(k, r)
    BY <1>3, <1>5, <1>8, <2>1, <2>6, <2>8 DEF PlaceOK
  <2>12. x = "up" => PendOK(e0, k, r)
    BY <1>6, <1>8 DEF PendOK
  <2>13. k # Idle
    BY <1>3, <2>6, IdleCall
  <2>14. InOrder(k, c, r, p0, y0, G, F, x, e0)
    BY <1>3, <2>6, <2>9, <2>10, <2>11, <2>12, <2>13 DEF InOrder
  <2>15. Changed(k, c, r, p0, y0, b0, e0)
    <3>1. call' = k
      BY <2>4
    <3> QED
      BY <1>2, <1>4, <2>5, <3>1, Stays DEF Changed, Before
  <2>16. (k0.op = "read" => k0.n = Zero) /\ (k.op = "read" => k.n = Zero)
    BY <1>3, <2>6
  <2> QED
    BY <1>2, <2>6, <2>7, <2>14, <2>15, <2>16, WroteNothing, QuietStep
<1>9. CASE r0.writing = "created"
  <2>1. PICK z \in Positions : z = "send"
    BY DEF Positions
  <2>2. PICK k : k = [k0 EXCEPT !.at = z]
    OBVIOUS
  <2>3. call' = k /\ ch' = ch
    BY <1>3, <1>9, <2>1, <2>2 DEF WriteEnters, Goto
  <2>4. k \in Execution /\ k.op = k0.op /\ k.c = k0.c /\ k.arg = k0.arg /\ k.n = k0.n /\ k.at = z
    BY <2>2, Moves
  <2>5. HeldBy(c, r0, k)
    BY <1>3, <1>6, <2>1, <2>4 DEF HeldBy
  <2>6. PlaceOK(k, r0)
    BY <1>3, <1>5, <1>9, <2>1, <2>4 DEF PlaceOK, CloseOK
  <2>7. x = "up" => PendOK(e0, k, r0)
    BY <1>3, <1>5, <1>9, <2>1, <2>4 DEF PendOK
  <2>8. k # Idle
    BY <1>3, <2>4, IdleCall
  <2>9. InOrder(k, c, r0, p0, y0, G, F, x, e0)
    BY <1>3, <1>5, <2>4, <2>5, <2>6, <2>7, <2>8 DEF InOrder
  <2>10. UNCHANGED <<session, app>>
    BY <1>4, <2>3 DEF session
  <2>11. (k0.op = "read" => k0.n = Zero) /\ (k.op = "read" => k.n = Zero)
    BY <1>3, <2>4
  <2> QED
    BY <1>2, <2>3, <2>4, <2>9, <2>10, <2>11, MoveStep
<1>10. r0.writing = "created" \/ (r0.writing = "idle" /\ r0.lclose) \/ (r0.writing = "idle" /\ ~r0.lclose)
  BY <1>3 DEF WriteEnters
<1> QED
  BY <1>7, <1>8, <1>9, <1>10

\* The least of three numbers.
LEMMA MinThree ==
    ASSUME NEW u \in Int, NEW v \in Int, NEW w \in Int
    PROVE  Min({u, v, w}) \in Int /\ Min({u, v, w}) <= v
<1>1. PICK m \in {u, v, w} : m <= u /\ m <= v /\ m <= w
  <2>1. CASE u <= v /\ u <= w
    BY <2>1
  <2>2. CASE v <= u /\ v <= w
    BY <2>2
  <2>3. CASE w <= u /\ w <= v
    BY <2>3
  <2> QED
    BY <2>1, <2>2, <2>3
<1>2. \A y \in {u, v, w} : m <= y
  BY <1>1
<1>3. PICK n : n = Min({u, v, w})
  OBVIOUS
<1>4. n \in {u, v, w} /\ \A y \in {u, v, w} : n <= y
  BY <1>2, <1>3, Zenon DEF Min
<1> QED
  BY <1>3, <1>4

\* The account of a write.
LEMMA WroteMore ==
    ASSUME NEW y0 \in Account, NEW n \in Int, NEW y, y = [y0 EXCEPT !.wrote = n]
    PROVE  y \in Account /\ OnlyWrote(y0, y)
  BY DEF Account, OnlyWrote

\* Cutting a write to the window keeps the invariant.
LEMMA WriteSplitsStep ==
    ASSUME IInv, WriteSplits
    PROVE  IInv'
<1>1. call.op = "write" /\ call.at = "split"
  BY DEF WriteSplits, Running
<1>2. PICK k0 \in Execution, c \in Chans, r0 \in Channel, p0 \in Peer, y0 \in Account,
           b0 \in Seq(Piece), G \in Nat, F \in Nat, x \in {"up", "disconnected", "broken"}, e0 \in {pend} :
        Before(k0, c, r0, p0, y0, b0, G, F, x, e0) /\ InOrder(k0, c, r0, p0, y0, G, F, x, e0)
  BY <1>1, Starts
<1>3. /\ call = k0 /\ k0.op = "write" /\ k0.at = "split" /\ k0 # Idle /\ k0.c = c /\ ch[c] = r0
      /\ app[c] = y0
  BY <1>1, <1>2 DEF Before
<1>4. UNCHANGED <<brigade, inbound, net, pend, add, peer>>
  BY DEF WriteSplits
<1>5. /\ PlaceOK(k0, r0) /\ CloseOK(r0, p0) /\ HeldBy(c, r0, k0) /\ LocalOK(r0, p0, G)
      /\ RemoteOK(r0, p0, y0, F, x) /\ (x = "up" => PendOK(e0, k0, r0))
  BY <1>2, <1>3 DEF InOrder
<1>6. /\ ~(r0.live /\ r0.closing = "sent" /\ ~r0.lclose) /\ ~r0.lclose
      /\ x = "up" => Loose(e0)
  BY <1>3, <1>5 DEF PendOK, HeldBy, PlaceOK
<1>7. CASE r0.lwin = 0
  <2>1. PICK k \in Execution : k = Idle
    BY IdleCall
  <2>2. Wrote(k0.n[0])
    BY <1>3, <1>7 DEF WriteSplits
  <2>3. PICK i \in {"idle", "allocated", "created"}, n \in Int : i = "idle" /\ n = y0.wrote + k0.n[0]
    BY DEF Account, Execution, Counts, Streams
  <2>4. PICK r : r = [r0 EXCEPT !.writing = i]
    OBVIOUS
  <2>5. PICK y : y = [y0 EXCEPT !.wrote = n]
    OBVIOUS
  <2>6. ch' = [ch EXCEPT ![c] = r]
    BY <1>3, <2>2, <2>3, <2>4 DEF Wrote
  <2>7. app' = [app EXCEPT ![c] = y]
    BY <1>3, <2>2, <2>3, <2>5, Zenon DEF Wrote
  <2>8. call' = k
    BY <2>1, <2>2 DEF Wrote, Return
  <2>9. y \in Account /\ OnlyWrote(y0, y)
    BY <2>5, WroteMore
  <2>10. r \in Channel
    BY <2>4 DEF Channel
  <2>11. /\ r.live = r0.live /\ r.lwin = r0.lwin /\ r.lclose = r0.lclose /\ r.mode = r0.mode
         /\ r.writing = i /\ r.closing = r0.closing
         /\ r.rwin = r0.rwin /\ r.adjusting = r0.adjusting /\ r.slipped = r0.slipped
         /\ r.stalled = r0.stalled
    BY <2>4 DEF Channel
  <2>12. LocalOK(r, p0, G) /\ RemoteOK(r, p0, y0, F, x) /\ CloseOK(r, p0)
    BY <1>5, <2>3, <2>11 DEF LocalOK, RemoteOK, CloseOK
  <2>13. HeldBy(c, r, k)
    BY <1>6, <2>3, <2>11 DEF HeldBy
  <2>14. InOrder(k, c, r, p0, y0, G, F, x, e0)
    BY <1>6, <2>1, <2>12, <2>13 DEF InOrder
  <2>15. Changed(k, c, r, p0, y, b0, e0)
    BY <1>2, <1>4, <2>6, <2>7, <2>8, Stays DEF Changed, Before
  <2>16. (k0.op = "read" => k0.n = Zero) /\ (k.op = "read" => k.n = Zero)
    BY <1>3, <2>1, IdleCall
  <2> QED
    BY <1>2, <2>9, <2>10, <2>14, <2>15, <2>16, WroteNothing, QuietStep
<1>8. CASE r0.lwin # 0
  <2>1. PICK z \in Positions, i \in {"idle", "allocated", "created"} : z = "send" /\ i = "created"
    BY DEF Positions
  <2>2. PICK n : n = Min({Left, ch[c].lwin, PacketSize})
    OBVIOUS
  <2>3. n \in Int /\ n <= r0.lwin
    <3>1. PICK o \in Ops : k0.op = o[1] /\ k0.arg = o[2]
      BY <1>5 DEF PlaceOK
    <3>2. o[2] \in {0} \X Nat
      BY <1>3, <3>1, ChannelAssumption
    <3>3. k0.arg[2] \in Nat
      BY <3>1, <3>2
    <3>4. r0.bufwrote \in Int /\ r0.lwin \in Int
      BY DEF Channel
    <3>5. PICK l \in Int : l = k0.arg[2] - r0.bufwrote
      BY <3>3, <3>4
    <3>6. n = Min({l, r0.lwin, PacketSize})
      BY <1>3, <2>2, <3>5, Zenon DEF Left
    <3>7. PacketSize \in Int
      BY ChannelAssumption
    <3> QED
      BY <3>4, <3>6, <3>7, MinThree
  <2>4. PICK k : k = [k0 EXCEPT !.at = z]
    OBVIOUS
  <2>5. PICK r : r = [r0 EXCEPT !.writing = i, !.bufwrite = n]
    OBVIOUS
  <2>6. /\ ch' = [ch EXCEPT ![c].writing = "created", ![c].bufwrite = Min({Left, ch[c].lwin, PacketSize})]
        /\ Goto("send") /\ app' = app
    BY <1>3, <1>8 DEF WriteSplits
  <2>7. ch' = [ch EXCEPT ![c] = r]
    BY <1>3, <2>1, <2>2, <2>5, <2>6
  <2>8. call' = k /\ app' = app
    BY <1>3, <2>1, <2>4, <2>6 DEF Goto
  <2>9. k \in Execution /\ k.op = k0.op /\ k.c = k0.c /\ k.arg = k0.arg /\ k.n = k0.n /\ k.at = z
    BY <2>4, Moves
  <2>10. r \in Channel
    BY <2>3, <2>5 DEF Channel
  <2>11. /\ r.live = r0.live /\ r.lwin = r0.lwin /\ r.lclose = r0.lclose /\ r.mode = r0.mode
         /\ r.writing = i /\ r.closing = r0.closing /\ r.bufwrite = n
         /\ r.rwin = r0.rwin /\ r.adjusting = r0.adjusting /\ r.slipped = r0.slipped
         /\ r.stalled = r0.stalled
    BY <2>3, <2>5 DEF Channel
  <2>12. LocalOK(r, p0, G) /\ RemoteOK(r, p0, y0, F, x) /\ CloseOK(r, p0)
    BY <1>5, <1>6, <2>1, <2>3, <2>11 DEF LocalOK, RemoteOK, CloseOK
  <2>13. HeldBy(c, r, k)
    BY <1>3, <1>6, <2>1, <2>9, <2>11 DEF HeldBy
  <2>14. PlaceOK(k, r)
    BY <1>3, <1>5, <1>6, <2>1, <2>9, <2>11 DEF PlaceOK
  <2>15. x = "up" => PendOK(e0, k, r)
    BY <1>6 DEF PendOK
  <2>16. k # Idle
    BY <1>3, <2>9, IdleCall
  <2>17. InOrder(k, c, r, p0, y0, G, F, x, e0)
    BY <1>3, <2>9, <2>12, <2>13, <2>14, <2>15, <2>16 DEF InOrder
  <2>18. Changed(k, c, r, p0, y0, b0, e0)
    BY <1>2, <1>4, <2>7, <2>8, Stays DEF Changed, Before
  <2>19. (k0.op = "read" => k0.n = Zero) /\ (k.op = "read" => k.n = Zero)
    BY <1>3, <2>9
  <2> QED
    BY <1>2, <2>9, <2>10, <2>17, <2>18, <2>19, WroteNothing, QuietStep
<1> QED
  BY <1>7, <1>8

\* Data that was sent, n bytes of window.
LEMMA WindowSpent ==
    \A u, v, g, n \in Int : n <= u /\ u + g <= v => u - n >= 0 /\ (u - n) + g <= v - n
  OBVIOUS

\* Sending data keeps the invariant.
LEMMA WriteSendsStep ==
    ASSUME IInv, WriteSends
    PROVE  IInv'
<1>1. call.op = "write" /\ call.at = "send"
  BY DEF WriteSends, Running
<1>2. PICK k0 \in Execution, c \in Chans, r0 \in Channel, p0 \in Peer, y0 \in Account,
           b0 \in Seq(Piece), G \in Nat, F \in Nat, x \in {"up", "disconnected", "broken"}, e0 \in {pend} :
        Before(k0, c, r0, p0, y0, b0, G, F, x, e0) /\ InOrder(k0, c, r0, p0, y0, G, F, x, e0)
  BY <1>1, Starts
<1>3. /\ call = k0 /\ k0.op = "write" /\ k0.at = "send" /\ k0 # Idle /\ k0.c = c /\ ch[c] = r0
      /\ app[c] = y0
  BY <1>1, <1>2 DEF Before
<1>4. UNCHANGED <<brigade, inbound, net, add>>
  BY DEF WriteSends
<1>5. /\ PlaceOK(k0, r0) /\ CloseOK(r0, p0) /\ HeldBy(c, r0, k0) /\ LocalOK(r0, p0, G)
      /\ RemoteOK(r0, p0, y0, F, x) /\ (x = "up" => PendOK(e0, k0, r0))
  BY <1>2, <1>3 DEF InOrder
<1>6. /\ ~(r0.live /\ r0.closing = "sent" /\ ~r0.lclose) /\ ~r0.lclose /\ r0.writing = "created"
      /\ x = "up" => Loose(e0) \/ e0 = <<"data", c>>
  BY <1>3, <1>5 DEF PendOK, HeldBy, PlaceOK
<1>7. PICK n \in Int : n = r0.bufwrite
  BY DEF Channel
<1>8. PICK rc \in Rcs :
        /\ Send("data", c, n, rc)
        /\ \/ /\ rc = "EAGAIN"
              /\ Again
              /\ UNCHANGED <<ch, app>>
           \/ /\ rc = "FAIL"
              /\ ch' = [ch EXCEPT ![c].writing = "idle"]
              /\ Return
              /\ UNCHANGED app
           \/ /\ rc = "NONE" /\ n < Left
              /\ ch' = [ch EXCEPT ![c].lwin = @ - n, ![c].bufwrote = @ + n,
                                  ![c].writing = "allocated"]
              /\ call' = [call EXCEPT !.at = "drain", !.n[0] = @ + n]
              /\ UNCHANGED app
           \/ /\ rc = "NONE" /\ n = Left
              /\ ch' = [ch EXCEPT ![c].lwin = @ - n, ![c].bufwrote = @ + n,
                                  ![c].writing = "idle"]
              /\ app' = [app EXCEPT ![c].wrote = @ + call.n[0] + n]
              /\ Return
  BY <1>3, <1>7, Zenon DEF WriteSends
<1>8a. "data" \in PacketKinds \ {"adjust"} /\ Types /\ peer[c] = p0 /\ net = x /\ pend = e0
  BY <1>2 DEF IInv, Before, PacketKinds
<1>8b. x = "up" => Loose(e0) \/ e0 = <<"data", c>>
  BY <1>6
<1>8c. Send("data", c, n, rc)
  BY <1>8, Zenon
<1>9. /\ rc \in {"NONE", "EAGAIN", "FAIL"}
      /\ rc = "NONE" => Loose(pend')
      /\ rc = "EAGAIN" => pend' = <<"data", c>>
      /\ rc = "FAIL" /\ x = "up" => Loose(pend')
      /\ pend' \in Pendings
  BY <1>8a, <1>8b, <1>8c, OwnSends
<1>10. PICK p \in Peer :
         /\ peer' = [peer EXCEPT ![c] = p]
         /\ Delivered("data", n, rc, p0, p)
         /\ x = "up" => Stood(p0, p)
  BY <1>8a, <1>8b, <1>8c, OwnSends
<1>11. /\ p.sent = p0.sent /\ p.grant = p0.grant /\ p.closes = p0.closes
       /\ p.window = IF rc = "NONE" THEN p0.window - n ELSE p0.window
  <2>1. p0.closes \in Nat /\ p0.window \in Int /\ p0.grant \in Nat
    BY DEF Peer
  <2> QED
    BY <1>10, <2>1 DEF Delivered
<1>12. PICK e : e = pend'
  OBVIOUS
<1>13. CASE rc = "EAGAIN"
  <2>1. Again /\ UNCHANGED <<ch, app>>
    BY <1>8, <1>13
  <2>2. PICK k \in Execution : /\ call' = k /\ Resumes(k, k0, ch[k0.c]) /\ k # Idle
                               /\ k.at = "select" /\ k.n = Zero /\ k.op = k0.op /\ k.c = k0.c
    BY <1>3, <2>1, Repeats
  <2>3. PlaceOK(k, r0)
    BY <1>3, <2>2 DEF Resumes
  <2>4. HeldBy(c, r0, k)
    BY <1>3, <1>6, <2>2 DEF HeldBy
  <2>5. PendOK(e, k, r0)
    BY <1>3, <1>6, <1>9, <1>12, <1>13, <2>2 DEF PendOK
  <2>6. LocalOK(r0, p, G) /\ RemoteOK(r0, p, y0, F, x) /\ CloseOK(r0, p)
    BY <1>5, <1>10, <1>11, <1>13 DEF LocalOK, RemoteOK, Stood, CloseOK
  <2>7. InOrder(k, c, r0, p, y0, G, F, x, e)
    BY <1>3, <2>2, <2>3, <2>4, <2>5, <2>6 DEF InOrder
  <2>8. Changed(k, c, r0, p, y0, b0, e)
    BY <1>2, <1>4, <1>9, <1>10, <1>12, <2>1, <2>2, Stays DEF Changed, Before
  <2>9. (k0.op = "read" => k0.n = Zero) /\ (k.op = "read" => k.n = Zero)
    BY <1>3, <2>2
  <2> QED
    BY <1>2, <1>11, <2>2, <2>7, <2>8, <2>9, WroteNothing, QuietStep
<1>14. CASE rc = "FAIL"
  <2>1. ch' = [ch EXCEPT ![c].writing = "idle"] /\ call' = Idle /\ app' = app
    BY <1>8, <1>14 DEF Return
  <2>2. PICK k \in Execution, i \in {"idle", "allocated", "created"} : k = Idle /\ i = "idle"
    BY IdleCall
  <2>3. PICK r : r = [r0 EXCEPT !.writing = i]
    OBVIOUS
  <2>4. ch' = [ch EXCEPT ![c] = r]
    BY <1>3, <2>1, <2>2, <2>3
  <2>5. r \in Channel
    BY <2>3 DEF Channel
  <2>6. /\ r.live = r0.live /\ r.lwin = r0.lwin /\ r.lclose = r0.lclose /\ r.mode = r0.mode
        /\ r.writing = i /\ r.closing = r0.closing
        /\ r.rwin = r0.rwin /\ r.adjusting = r0.adjusting /\ r.slipped = r0.slipped
        /\ r.stalled = r0.stalled
    BY <2>3 DEF Channel
  <2>7. LocalOK(r, p, G) /\ RemoteOK(r, p, y0, F, x) /\ CloseOK(r, p)
    BY <1>5, <1>10, <1>11, <1>14, <2>2, <2>6 DEF LocalOK, RemoteOK, Stood, CloseOK
  <2>8. HeldBy(c, r, k)
    BY <1>6, <2>2, <2>6 DEF HeldBy
  <2>9. InOrder(k, c, r, p, y0, G, F, x, e)
    BY <1>9, <1>12, <1>14, <2>2, <2>7, <2>8 DEF InOrder
  <2>10. Changed(k, c, r, p, y0, b0, e)
    <3>1. call' = k /\ app' = app
      BY <2>1, <2>2
    <3> QED
      BY <1>2, <1>4, <1>9, <1>10, <1>12, <2>4, <3>1, Stays DEF Changed, Before
  <2>11. (k0.op = "read" => k0.n = Zero) /\ (k.op = "read" => k.n = Zero)
    BY <1>3, <2>2, IdleCall
  <2> QED
    BY <1>2, <1>11, <2>5, <2>9, <2>10, <2>11, WroteNothing, QuietStep
<1>15. CASE rc = "NONE"
  <2>1. PICK i \in {"idle", "allocated"} :
          /\ ch' = [ch EXCEPT ![c].lwin = @ - n, ![c].bufwrote = @ + n, ![c].writing = i]
          /\ \/ /\ i = "allocated" /\ app' = app
                /\ call' = [call EXCEPT !.at = "drain", !.n[0] = @ + n]
             \/ /\ i = "idle" /\ call' = Idle
                /\ app' = [app EXCEPT ![c].wrote = @ + call.n[0] + n]
    <3>1. CASE n < Left
      BY <1>8, <1>15, <3>1, Zenon DEF Return
    <3>2. CASE n = Left
      BY <1>8, <1>15, <3>2, Zenon DEF Return
    <3>3. n < Left \/ n = Left
      BY <1>8, <1>15
    <3> QED
      BY <3>1, <3>2, <3>3, Zenon
  <2>2. PICK u \in Int, v \in Int : u = r0.lwin /\ v = p0.window
    BY DEF Channel, Peer
  <2>3. u - n >= 0 /\ (u - n) + G <= v - n
    <3>1. n <= u /\ u + G <= v
      BY <1>5, <1>6, <1>7, <2>2 DEF LocalOK
    <3> QED
      BY <3>1, WindowSpent
  <2>4. PICK w \in Nat : w = u - n
    BY <2>3
  <2>5. PICK m \in Int : m = r0.bufwrote + n
    BY DEF Channel
  <2>6. PICK r : r = [r0 EXCEPT !.lwin = w, !.bufwrote = m, !.writing = i]
    OBVIOUS
  <2>7. ch' = [ch EXCEPT ![c] = r]
    <3>1. ch' = [ch EXCEPT ![c].lwin = @ - n, ![c].bufwrote = @ + n, ![c].writing = i]
      BY <2>1, Zenon
    <3> QED
      BY <1>3, <2>2, <2>4, <2>5, <2>6, <3>1
  <2>8. r \in Channel
    BY <2>6 DEF Channel
  <2>9. /\ r.live = r0.live /\ r.lwin = w /\ r.lclose = r0.lclose /\ r.mode = r0.mode
        /\ r.writing = i /\ r.closing = r0.closing
        /\ r.rwin = r0.rwin /\ r.adjusting = r0.adjusting /\ r.slipped = r0.slipped
        /\ r.stalled = r0.stalled
    BY <2>6 DEF Channel
  <2>10. w + G <= p.window
    BY <1>11, <1>15, <2>2, <2>3, <2>4
  <2>11. LocalOK(r, p, G)
    BY <2>9, <2>10 DEF LocalOK
  <2>12. RemoteOK(r, p, y0, F, x) /\ CloseOK(r, p)
    BY <1>5, <1>10, <1>11, <2>9 DEF RemoteOK, CloseOK, Stood
  <2>13. \A k : HeldBy(c, r, k)
    BY <1>6, <2>9 DEF HeldBy
  <2>14. x = "up" => Loose(e)
    BY <1>9, <1>12, <1>15
  <2>15. CASE i = "allocated" /\ app' = app /\ call' = [call EXCEPT !.at = "drain", !.n[0] = @ + n]
    <3>1. PICK z \in Positions : z = "drain"
      BY DEF Positions
    <3>2. PICK l \in Int : l = k0.n[0] + n
      BY DEF Execution, Counts, Streams
    <3>3. PICK f \in Counts : f = [k0.n EXCEPT ![0] = l]
      BY DEF Execution, Counts
    <3>4. PICK k : MovedTo(k, k0, z, f)
      BY DEF MovedTo
    <3>5. call' = k
      <4>1. call' = [call EXCEPT !.at = "drain", !.n[0] = @ + n]
        BY <2>15, Zenon
      <4>2. k = [k0 EXCEPT !.at = "drain", !.n = [k0.n EXCEPT ![0] = k0.n[0] + n]]
        BY <3>1, <3>2, <3>3, <3>4, Zenon DEF MovedTo
      <4>3. call' = [k0 EXCEPT !.at = "drain", !.n[0] = @ + n]
        BY <1>3, <4>1, Zenon
      <4> QED
        BY <4>2, <4>3 DEF Execution
    <3>6. k \in Execution /\ k.op = k0.op /\ k.c = k0.c /\ k.arg = k0.arg /\ k.n = f /\ k.at = z
      BY <3>4, MovesWith
    <3>7. PlaceOK(k, r)
      BY <1>3, <1>5, <1>6, <2>9, <3>1, <3>6 DEF PlaceOK
    <3>8. k # Idle
      BY <1>3, <3>6, IdleCall
    <3>9. InOrder(k, c, r, p, y0, G, F, x, e)
      BY <1>3, <2>11, <2>12, <2>13, <2>14, <3>6, <3>7, <3>8 DEF InOrder, PendOK
    <3>10. Changed(k, c, r, p, y0, b0, e)
      <4>1. app' = app
        BY <2>15
      <4> QED
        BY <1>2, <1>4, <1>9, <1>10, <1>12, <2>7, <3>5, <4>1, Stays DEF Changed, Before
    <3>11. (k0.op = "read" => k0.n = Zero) /\ (k.op = "read" => k.n = Zero)
      BY <1>3, <3>6
    <3> QED
      BY <1>2, <1>11, <2>8, <3>6, <3>9, <3>10, <3>11, WroteNothing, QuietStep
  <2>16. CASE i = "idle" /\ call' = Idle /\ app' = [app EXCEPT ![c].wrote = @ + call.n[0] + n]
    <3>1. PICK k \in Execution : k = Idle
      BY IdleCall
    <3>2. PICK l \in Int : l = y0.wrote + k0.n[0] + n
      BY DEF Execution, Counts, Streams, Account
    <3>3. PICK y : y = [y0 EXCEPT !.wrote = l]
      OBVIOUS
    <3>4. app' = [app EXCEPT ![c] = y]
      BY <1>3, <2>16, <3>2, <3>3, Zenon
    <3>5. y \in Account /\ OnlyWrote(y0, y)
      BY <3>3, WroteMore
    <3>6. InOrder(k, c, r, p, y0, G, F, x, e)
      BY <2>11, <2>12, <2>13, <2>14, <3>1 DEF InOrder
    <3>7. Changed(k, c, r, p, y, b0, e)
      <4>1. call' = k
        BY <2>16, <3>1
      <4> QED
        BY <1>2, <1>4, <1>9, <1>10, <1>12, <2>7, <3>4, <4>1 DEF Changed, Before
    <3>8. (k0.op = "read" => k0.n = Zero) /\ (k.op = "read" => k.n = Zero)
      BY <1>3, <3>1, IdleCall
    <3> QED
      BY <1>2, <1>11, <2>8, <3>5, <3>6, <3>7, <3>8, WroteNothing, QuietStep
  <2> QED
    BY <2>1, <2>15, <2>16, Zenon
<1> QED
  BY <1>9, <1>13, <1>14, <1>15

\* A window adjustment by a call, and what it makes of the channel and its peer.
Widens(c, n, force, rc, r0, p0, x) ==
    \E r \in Channel, p \in Peer :
        /\ peer' = [peer EXCEPT ![c] = p]
        /\ r = Adjusted(c, n, force, rc)
        /\ Widened(r0, r, p0, p, x)
        /\ rc = "EAGAIN" => r.stalled

\* What a call that adjusts the window leaves.
LEMMA CallAdjusts ==
    ASSUME Types, NEW c \in Chans, NEW r0 \in Channel, NEW p0 \in Peer,
           ch[c] = r0, peer[c] = p0, NEW x, net = x, x = "up" => Loose(pend),
           NEW n \in Nat, NEW force \in BOOLEAN, NEW rc, Adjust(c, n, force, rc)
    PROVE  /\ rc \in {"NONE", "EAGAIN", "FAIL"}
           /\ x = "up" => Loose(pend')
           /\ pend' \in Pendings
           /\ Widens(c, n, force, rc, r0, p0, x)
<1>1. net = "up" => Loose(pend)
  OBVIOUS
<1>2. rc \in {"NONE", "EAGAIN", "FAIL"} /\ (net = "up" => Loose(pend')) /\ pend' \in Pendings
  BY <1>1, Adjusts, Zenon
<1>3. \E r \in Channel, p \in Peer :
         /\ peer' = [peer EXCEPT ![c] = p]
         /\ r = Adjusted(c, n, force, rc)
         /\ Widened(ch[c], r, peer[c], p, net)
         /\ rc = "EAGAIN" => r.stalled
  BY <1>1, Adjusts, Zenon
<1> QED
  BY <1>2, <1>3, Zenon DEF Widens

\* The channel and its peer after it, when only what no clause is about changes besides.
LEMMA CallWidens ==
    ASSUME NEW r0 \in Channel, NEW p0 \in Peer, NEW r \in Channel, NEW p \in Peer,
           NEW y \in Account, NEW G \in Nat, NEW F \in Nat, NEW x,
           LocalOK(r0, p0, G), RemoteOK(r0, p0, y, F, x), CloseOK(r0, p0), Widened(r0, r, p0, p, x)
    PROVE  LocalOK(r, p, G) /\ RemoteOK(r, p, y, F, x) /\ CloseOK(r, p)
<1>1. LocalOK(r, p, G) /\ RemoteOK(r, p, y, F, x) /\ Keeps(r0, r, p0, p)
  BY WidenedInOrder
<1>2. CloseOK(r, p)
  BY <1>1 DEF CloseOK, Keeps
<1> QED
  BY <1>1, <1>2

\* A call that returns, or is made again after EAGAIN.
LEMMA Repeated ==
    ASSUME IInv, NEW k0 \in Execution, call = k0, k0.op \notin {"none", "read"}, k0 # Idle, NEW c, k0.c = c,
           NEW r0, ch[c] = r0, PlaceOK(k0, r0), Again \/ Return
    PROVE  \E k \in Execution :
              /\ call' = k /\ k.op # "read"
              /\ k # Idle => k.c = c /\ PlaceOK(k, r0) /\ k.op = k0.op /\ k.at = "select"
<1>0. k0.op # "none"
  OBVIOUS
<1>1. CASE Again
  <2>1. PICK k \in Execution : /\ call' = k /\ Resumes(k, k0, ch[k0.c]) /\ k # Idle
                               /\ k.at = "select" /\ k.n = Zero /\ k.op = k0.op /\ k.c = k0.c
    BY <1>0, <1>1, Repeats
  <2>2. PlaceOK(k, r0)
    BY <2>1 DEF Resumes
  <2> QED
    BY <2>1, <2>2
<1>2. CASE Return
  BY <1>2, IdleCall DEF Return
<1> QED
  BY <1>1, <1>2

\* A call that an adjustment of the window leaves, to return or to wait.
LEMMA Waiting ==
    ASSUME NEW k0, NEW c, NEW r0 \in Channel, NEW p0 \in Peer, NEW r \in Channel, NEW p \in Peer,
           NEW y, NEW G, NEW F, NEW x, NEW e, NEW k,
           k0.op \notin {"write", "close", "free"}, r0.writing # "created",
           ~(r0.live /\ r0.closing = "sent" /\ ~r0.lclose), Widened(r0, r, p0, p, x),
           LocalOK(r, p, G), RemoteOK(r, p, y, F, x), CloseOK(r, p), x = "up" => Loose(e),
           k # Idle => k.c = c /\ PlaceOK(k, r0) /\ k.op = k0.op /\ k.at = "select"
    PROVE  InOrder(k, c, r, p, y, G, F, x, e)
<1>1. SameBut(r0, r)
  BY DEF Widened
<1>2. HeldBy(c, r, k)
  BY <1>1 DEF SameBut, HeldBy
<1>3. k # Idle => PlaceOK(k, r)
  BY <1>1 DEF SameBut, PlaceOK
<1>4. x = "up" => IF k = Idle THEN Loose(e) ELSE PendOK(e, k, r)
  BY DEF PendOK
<1> QED
  BY <1>2, <1>3, <1>4 DEF InOrder

\* An adjustment the application asks for keeps the invariant.
LEMMA WindowAdjustsStep ==
    ASSUME IInv, WindowAdjusts
    PROVE  IInv'
<1>1. call.op = "adjust" /\ call.at = "enter"
  BY DEF WindowAdjusts, Running
<1>2. PICK k0 \in Execution, c \in Chans, r0 \in Channel, p0 \in Peer, y0 \in Account,
           b0 \in Seq(Piece), G \in Nat, F \in Nat, x \in {"up", "disconnected", "broken"}, e0 \in {pend} :
        Before(k0, c, r0, p0, y0, b0, G, F, x, e0) /\ InOrder(k0, c, r0, p0, y0, G, F, x, e0)
  BY <1>1, Starts
<1>3. call = k0 /\ k0.op = "adjust" /\ k0 # Idle /\ k0.c = c
  BY <1>1, <1>2 DEF Before
<1>4. UNCHANGED <<brigade, inbound, net, add, app>>
  BY DEF WindowAdjusts
<1>5. /\ PlaceOK(k0, r0) /\ CloseOK(r0, p0) /\ HeldBy(c, r0, k0) /\ LocalOK(r0, p0, G)
      /\ RemoteOK(r0, p0, y0, F, x) /\ (x = "up" => PendOK(e0, k0, r0))
  BY <1>2, <1>3 DEF InOrder
<1>6. /\ r0.writing # "created" /\ ~(r0.live /\ r0.closing = "sent" /\ ~r0.lclose)
      /\ x = "up" => Loose(e0)
  BY <1>3, <1>5 DEF PendOK, HeldBy
<1>7. PICK n \in Nat, force \in BOOLEAN : n = k0.arg[1] /\ force = (k0.arg[2] = 1)
  <2>1. PICK o \in Ops : k0.op = o[1] /\ k0.arg = o[2]
    BY <1>5 DEF PlaceOK
  <2>2. o[2] \in Nat \X {0, 1}
    BY <1>3, <2>1, ChannelAssumption
  <2> QED
    BY <2>1, <2>2
<1>8. PICK rc \in Rcs :
        /\ Adjust(c, n, force, rc)
        /\ ch' = [ch EXCEPT ![c] = Adjusted(c, n, force, rc)]
        /\ IF rc = "EAGAIN" THEN Again ELSE Return
  BY <1>3, <1>7, Zenon DEF WindowAdjusts
<1>9. /\ Types /\ ch[c] = r0 /\ peer[c] = p0 /\ net = x /\ pend = e0
  BY <1>2 DEF IInv, Before
<1>10. x = "up" => Loose(pend)
  BY <1>6, <1>9
<1>11. Adjust(c, n, force, rc)
  BY <1>8, Zenon
<1>11a. n \in Nat /\ force \in BOOLEAN
  BY <1>7
<1>12. /\ rc \in {"NONE", "EAGAIN", "FAIL"} /\ (x = "up" => Loose(pend')) /\ pend' \in Pendings
       /\ Widens(c, n, force, rc, r0, p0, x)
  BY <1>2, <1>9, <1>10, <1>11, <1>11a, CallAdjusts
<1>13. PICK r \in Channel, p \in Peer :
         /\ peer' = [peer EXCEPT ![c] = p]
         /\ r = Adjusted(c, n, force, rc)
         /\ Widened(r0, r, p0, p, x)
  BY <1>12, Zenon DEF Widens
<1>14. LocalOK(r, p, G) /\ RemoteOK(r, p, y0, F, x) /\ CloseOK(r, p)
  BY <1>5, <1>13, CallWidens
<1>15. PICK e \in {pend'} : e = pend'
  OBVIOUS
<1>16. PICK k \in Execution :
         /\ call' = k /\ k.op # "read"
         /\ k # Idle => k.c = c /\ PlaceOK(k, r0) /\ k.op = k0.op /\ k.at = "select"
  BY <1>2, <1>3, <1>5, <1>8, <1>9, Repeated
<1>17. InOrder(k, c, r, p, y0, G, F, x, e)
  BY <1>3, <1>6, <1>12, <1>13, <1>14, <1>15, <1>16, Waiting
<1>18. Changed(k, c, r, p, y0, b0, e)
  <2>2. ch' = [ch EXCEPT ![c] = r] /\ peer' = [peer EXCEPT ![c] = p]
    BY <1>8, <1>13, Zenon
  <2> QED
    BY <1>2, <1>4, <1>12, <1>15, <1>16, <2>2, Stays DEF Changed, Before
<1>19. (k0.op = "read" => k0.n = Zero) /\ (k.op = "read" => k.n = Zero)
  BY <1>3, <1>16
<1>20. p.sent = p0.sent
  BY <1>13 DEF Widened
<1> QED
  BY <1>2, <1>17, <1>18, <1>19, <1>20, WroteNothing, QuietStep

\* A channel b whose windows and adjustments are those of a.
AsWide(a, b) ==
    /\ b.live = a.live /\ b.lwin = a.lwin /\ b.lclose = a.lclose
    /\ b.reof = a.reof /\ b.rclose = a.rclose
    /\ b.mode = a.mode /\ b.writing = a.writing /\ b.bufwrite = a.bufwrite
    /\ b.closing = a.closing /\ b.rwin = a.rwin /\ b.slipped = a.slipped
    /\ b.adjusting = a.adjusting /\ b.stalled = a.stalled

\* What else the adjusting function writes does not matter to the window.
LEMMA StillWidened ==
    ASSUME NEW r0, NEW r, NEW r2, NEW p0, NEW p, NEW x, Widened(r0, r, p0, p, x), AsWide(r, r2),
           r2.jump1 = r.jump1
    PROVE  Widened(r0, r2, p0, p, x)
<1>1. SameBut(r0, r2)
  BY DEF Widened, SameBut, AsWide
<1>2. (r0.stalled => r2.stalled) /\ (Slips(r0) => Slips(r2))
  BY DEF Widened, Slips, AsWide
<1>3. p.grant + r0.rwin + r0.slipped = p0.grant + r2.rwin + r2.slipped
  BY DEF Widened, AsWide
<1> QED
  BY <1>1, <1>2, <1>3 DEF Widened

\* The refund of a flush keeps the invariant.
LEMMA FlushRefundsStep ==
    ASSUME IInv, FlushRefunds
    PROVE  IInv'
<1>1. call.op = "flush" /\ call.at = "enter"
  BY DEF FlushRefunds, Running
<1>2. PICK k0 \in Execution, c \in Chans, r0 \in Channel, p0 \in Peer, y0 \in Account,
           b0 \in Seq(Piece), G \in Nat, F \in Nat, x \in {"up", "disconnected", "broken"}, e0 \in {pend} :
        Before(k0, c, r0, p0, y0, b0, G, F, x, e0) /\ InOrder(k0, c, r0, p0, y0, G, F, x, e0)
  BY <1>1, Starts
<1>3. call = k0 /\ k0.op = "flush" /\ k0 # Idle /\ k0.c = c
  BY <1>1, <1>2 DEF Before
<1>4. UNCHANGED <<brigade, inbound, net, add, app>>
  BY DEF FlushRefunds
<1>5. /\ PlaceOK(k0, r0) /\ CloseOK(r0, p0) /\ HeldBy(c, r0, k0) /\ LocalOK(r0, p0, G)
      /\ RemoteOK(r0, p0, y0, F, x) /\ (x = "up" => PendOK(e0, k0, r0))
  BY <1>2, <1>3 DEF InOrder
<1>6. /\ r0.writing # "created" /\ ~(r0.live /\ r0.closing = "sent" /\ ~r0.lclose)
      /\ x = "up" => Loose(e0)
  BY <1>3, <1>5 DEF PendOK, HeldBy
<1>7. /\ Types /\ ch[c] = r0 /\ peer[c] = p0 /\ net = x /\ pend = e0
  BY <1>2 DEF IInv, Before
<1>8. PICK m \in Int : m = r0.refund
  BY DEF Channel
<1>9. PICK rc \in Rcs :
        /\ IF m > 0 THEN Adjust(c, m, FALSE, rc)
           ELSE rc = "NONE" /\ UNCHANGED <<pend, peer>>
        /\ ch' = [ch EXCEPT ![c] =
              [(IF m > 0 THEN Adjusted(c, m, FALSE, rc) ELSE @)
                   EXCEPT !.flushing = rc = "EAGAIN"]]
        /\ IF rc = "EAGAIN" THEN Again ELSE Return
  BY <1>3, <1>7, <1>8, Zenon DEF FlushRefunds
<1>10. x = "up" => Loose(pend)
  BY <1>6, <1>7
<1>11. PICK r \in Channel, p \in Peer :
         /\ rc \in {"NONE", "EAGAIN", "FAIL"} /\ (x = "up" => Loose(pend')) /\ pend' \in Pendings
         /\ peer' = [peer EXCEPT ![c] = p]
         /\ r = IF m > 0 THEN Adjusted(c, m, FALSE, rc) ELSE r0
         /\ Widened(r0, r, p0, p, x)
  <2>1. CASE m > 0
    <3>0. m \in Nat
      BY <2>1
    <3>1. PICK n \in Nat, force \in BOOLEAN : n = m /\ force = FALSE
      BY <3>0, Zenon
    <3>2. Adjust(c, n, force, rc)
      BY <1>9, <2>1, <3>1, Zenon
    <3>3. /\ rc \in {"NONE", "EAGAIN", "FAIL"} /\ (x = "up" => Loose(pend')) /\ pend' \in Pendings
          /\ Widens(c, n, force, rc, r0, p0, x)
      BY <1>2, <1>7, <1>10, <3>1, <3>2, CallAdjusts
    <3>4. PICK r \in Channel, p \in Peer :
            /\ peer' = [peer EXCEPT ![c] = p]
            /\ r = Adjusted(c, n, force, rc)
            /\ Widened(r0, r, p0, p, x)
      BY <3>3, Zenon DEF Widens
    <3>5. r = IF m > 0 THEN Adjusted(c, m, FALSE, rc) ELSE r0
      BY <2>1, <3>1, <3>4, Zenon
    <3> QED
      BY <3>3, <3>4, <3>5, Zenon
  <2>2. CASE ~(m > 0)
    <3>1. rc = "NONE" /\ pend' = pend /\ peer' = peer
      BY <1>9, <2>2
    <3>2. peer' = [peer EXCEPT ![c] = p0]
      BY <1>2, <3>1, Stays
    <3>3. Widened(r0, r0, p0, p0, x)
      <4>1. p0.grant + r0.rwin + r0.slipped = p0.grant + r0.rwin + r0.slipped
        OBVIOUS
      <4> QED
        BY <4>1 DEF Widened, SameBut, Stood
    <3>4. r0 = IF m > 0 THEN Adjusted(c, m, FALSE, rc) ELSE r0
      BY <2>2
    <3>5. rc \in {"NONE", "EAGAIN", "FAIL"} /\ (x = "up" => Loose(pend')) /\ pend' \in Pendings
      BY <1>7, <1>10, <3>1 DEF Types
    <3> QED
      BY <3>2, <3>3, <3>4, <3>5, Zenon
  <2> QED
    BY <2>1, <2>2, Zenon
<1>12. PICK f \in BOOLEAN : f = (rc = "EAGAIN")
  OBVIOUS
<1>13. PICK r2 : r2 = [r EXCEPT !.flushing = f]
  OBVIOUS
<1>14. ch' = [ch EXCEPT ![c] = r2]
  BY <1>7, <1>9, <1>11, <1>12, <1>13, Zenon
<1>15. r2 \in Channel
  BY <1>13 DEF Channel
<1>16. AsWide(r, r2) /\ r2.jump1 = r.jump1
  BY <1>13 DEF Channel, AsWide
<1>17. Widened(r0, r2, p0, p, x)
  BY <1>11, <1>16, StillWidened, Zenon
<1>18. LocalOK(r2, p, G) /\ RemoteOK(r2, p, y0, F, x) /\ CloseOK(r2, p)
  BY <1>5, <1>15, <1>17, CallWidens
<1>19. PICK e \in {pend'} : e = pend'
  OBVIOUS
<1>20. PICK k \in Execution :
         /\ call' = k /\ k.op # "read"
         /\ k # Idle => k.c = c /\ PlaceOK(k, r0) /\ k.op = k0.op /\ k.at = "select"
  BY <1>3, <1>5, <1>7, <1>9, Repeated
<1>21. InOrder(k, c, r2, p, y0, G, F, x, e)
  BY <1>3, <1>6, <1>11, <1>15, <1>17, <1>18, <1>19, <1>20, Waiting
<1>22. Changed(k, c, r2, p, y0, b0, e)
  <2>2. peer' = [peer EXCEPT ![c] = p] /\ pend' \in Pendings
    BY <1>11, Zenon
  <2> QED
    BY <1>2, <1>4, <1>14, <1>19, <1>20, <2>2, Stays DEF Changed, Before
<1>23. (k0.op = "read" => k0.n = Zero) /\ (k.op = "read" => k.n = Zero)
  BY <1>3, <1>20
<1>24. p.sent = p0.sent
  BY <1>17 DEF Widened
<1> QED
  BY <1>2, <1>11, <1>15, <1>19, <1>20, <1>21, <1>22, <1>23, <1>24, WroteNothing, QuietStep

\* Bytes that are taken from the packets of channel c.
LEMMA TakenBytes ==
    ASSUME NEW b0 \in Seq(Piece), brigade = b0, NEW c \in Chans, NEW t \in PartsOf(b0, c)
    PROVE  /\ Rest(t) \in Seq(Piece) /\ PerStream(t) \in Counts /\ PerStream(t) \in [Streams -> Nat]
           /\ \A d \in Chans \ {c}, s \in Streams : Bytes(Rest(t), d, s) = Bytes(b0, d, s)
           /\ \A s \in Streams : Bytes(Rest(t), c, s) + PerStream(t)[s] = Bytes(b0, c, s)
<1>1. t \in Parts(b0)
  BY DEF PartsOf
<1>2. /\ Rest(t) \in Seq(Piece)
      /\ \A d \in Chans, s \in Streams : Bytes(Rest(t), d, s) + TakenFrom(b0, t, d, s) = Bytes(b0, d, s)
  BY <1>1, RestBytes
<1>3. /\ PerStream(t) \in Counts /\ PerStream(t) \in [Streams -> Nat]
      /\ \A s \in Streams : PerStream(t)[s] = TakenFrom(b0, t, c, s)
      /\ \A d \in Chans \ {c}, s \in Streams : TakenFrom(b0, t, d, s) = 0
  BY PerStreamParts
<1>4. ASSUME NEW d \in Chans \ {c}, NEW s \in Streams PROVE Bytes(Rest(t), d, s) = Bytes(b0, d, s)
  <2>1. PICK u \in Int : u = Bytes(Rest(t), d, s)
    BY <1>2, BytesSteps
  <2>2. u + 0 = Bytes(b0, d, s)
    BY <1>2, <1>3, <2>1
  <2>3. u + 0 = u
    OBVIOUS
  <2> QED
    BY <2>1, <2>2, <2>3, Zenon
<1> QED
  BY <1>2, <1>3, <1>4

\* The account of a read, and of a flush or a free.
LEMMA ReadMore ==
    ASSUME NEW y0 \in Account, NEW n \in Counts, NEW y, y = [y0 EXCEPT !.read = Add(@, n)]
    PROVE  /\ y \in Account /\ y.dropped = y0.dropped /\ y.lost = y0.lost /\ y.ignored = y0.ignored
           /\ \A s \in Streams : y.read[s] = y0.read[s] + n[s]
<1>0. y0.read \in Counts
  BY DEF Account
<1>1. PICK f \in Counts : f = Add(y0.read, n)
  <2>1. \A s \in Streams : y0.read[s] + n[s] \in Int
    BY <1>0 DEF Counts
  <2> QED
    BY <2>1 DEF Add, Counts
<1>2. y = [y0 EXCEPT !.read = f]
  BY <1>1
<1>3. y \in Account
  BY <1>2 DEF Account
<1>4. y.read = f /\ y.dropped = y0.dropped /\ y.lost = y0.lost /\ y.ignored = y0.ignored
  BY <1>2 DEF Account
<1>5. \A s \in Streams : f[s] = y0.read[s] + n[s]
  BY <1>1 DEF Add
<1> QED
  BY <1>3, <1>4, <1>5

\* Adding to the dropped bytes of an account.
LEMMA DropMore ==
    ASSUME NEW y0 \in Account, NEW n \in Counts, NEW y, y = [y0 EXCEPT !.dropped = Add(@, n)]
    PROVE  /\ y \in Account /\ y.read = y0.read /\ y.lost = y0.lost /\ y.ignored = y0.ignored
           /\ \A s \in Streams : y.dropped[s] = y0.dropped[s] + n[s]
<1>0. y0.dropped \in Counts
  BY DEF Account
<1>1. PICK f \in Counts : f = Add(y0.dropped, n)
  <2>1. \A s \in Streams : y0.dropped[s] + n[s] \in Int
    BY <1>0 DEF Counts
  <2> QED
    BY <2>1 DEF Add, Counts
<1>2. y = [y0 EXCEPT !.dropped = f]
  BY <1>1
<1>3. y \in Account
  BY <1>2 DEF Account
<1>4. y.dropped = f /\ y.read = y0.read /\ y.lost = y0.lost /\ y.ignored = y0.ignored
  BY <1>2 DEF Account
<1>5. \A s \in Streams : f[s] = y0.dropped[s] + n[s]
  BY <1>1 DEF Add
<1> QED
  BY <1>3, <1>4, <1>5

\* Adding to the lost bytes of an account.
LEMMA LoseMore ==
    ASSUME NEW y0 \in Account, NEW n \in [Streams -> Nat], NEW y, y = [y0 EXCEPT !.lost = Add(@, n)]
    PROVE  /\ y \in Account /\ y.read = y0.read /\ y.dropped = y0.dropped /\ y.ignored = y0.ignored
           /\ \A s \in Streams : y.lost[s] = y0.lost[s] + n[s]
<1>1. PICK f \in [Streams -> Nat] : f = Add(y0.lost, n)
  BY DEF Add, Account
<1>2. y = [y0 EXCEPT !.lost = f]
  BY <1>1
<1>3. y \in Account
  BY <1>2 DEF Account
<1>4. y.lost = f /\ y.read = y0.read /\ y.dropped = y0.dropped /\ y.ignored = y0.ignored
  BY <1>2 DEF Account
<1>5. \A s \in Streams : f[s] = y0.lost[s] + n[s]
  BY <1>1 DEF Add
<1> QED
  BY <1>3, <1>4, <1>5

\* The order a channel is in does not depend on what the application was given.
LEMMA SameOrder ==
    ASSUME NEW k, NEW c, NEW r, NEW p, NEW y0, NEW y, NEW G, NEW F, NEW x, NEW e,
           InOrder(k, c, r, p, y0, G, F, x, e), y.lost = y0.lost, y.ignored = y0.ignored
    PROVE  InOrder(k, c, r, p, y, G, F, x, e)
  BY Zenon DEF InOrder, RemoteOK

\* The adjustment at the end of a read keeps the invariant.
LEMMA ReadAdjustsStep ==
    ASSUME IInv, ReadAdjusts
    PROVE  IInv'
<1>1. call.op = "read" /\ call.at = "adjust"
  BY DEF ReadAdjusts, Running
<1>2. PICK k0 \in Execution, c \in Chans, r0 \in Channel, p0 \in Peer, y0 \in Account,
           b0 \in Seq(Piece), G \in Nat, F \in Nat, x \in {"up", "disconnected", "broken"}, e0 \in {pend} :
        Before(k0, c, r0, p0, y0, b0, G, F, x, e0) /\ InOrder(k0, c, r0, p0, y0, G, F, x, e0)
  BY <1>1, Starts
<1>3. call = k0 /\ k0.op = "read" /\ k0.at = "adjust" /\ k0 # Idle /\ k0.c = c /\ app[c] = y0
  BY <1>1, <1>2 DEF Before
<1>4. UNCHANGED <<brigade, inbound, net, add>>
  BY DEF ReadAdjusts
<1>5. /\ PlaceOK(k0, r0) /\ CloseOK(r0, p0) /\ HeldBy(c, r0, k0) /\ LocalOK(r0, p0, G)
      /\ RemoteOK(r0, p0, y0, F, x) /\ (x = "up" => PendOK(e0, k0, r0))
  BY <1>2, <1>3 DEF InOrder
<1>6. /\ r0.writing # "created" /\ ~(r0.live /\ r0.closing = "sent" /\ ~r0.lclose)
      /\ x = "up" => Loose(e0)
  BY <1>3, <1>5 DEF PendOK, HeldBy
<1>7. /\ Types /\ ch[c] = r0 /\ peer[c] = p0 /\ net = x /\ pend = e0
  BY <1>2 DEF IInv, Before
<1>8. PICK m \in Nat, force \in BOOLEAN : m = 2 * LowWater /\ force = FALSE
  <2>1. 2 * LowWater \in Nat
    BY ChannelAssumption
  <2> QED
    BY <2>1, Zenon
<1>9. PICK rc \in Rcs :
        /\ Adjust(c, m, force, rc)
        /\ ch' = [ch EXCEPT ![c] =
              [Adjusted(c, m, force, rc) EXCEPT !.jump1 = rc = "EAGAIN"]]
        /\ IF rc = "EAGAIN"
             THEN Again /\ app' = [app EXCEPT ![c].lost = Add(@, call.n)]
             ELSE Return /\ app' = [app EXCEPT ![c].read = Add(@, call.n)]
  BY <1>3, <1>8, Zenon DEF ReadAdjusts
<1>10. x = "up" => Loose(pend)
  BY <1>6, <1>7
<1>11. Adjust(c, m, force, rc)
  BY <1>9, Zenon
<1>12. /\ rc \in {"NONE", "EAGAIN", "FAIL"} /\ (x = "up" => Loose(pend')) /\ pend' \in Pendings
       /\ Widens(c, m, force, rc, r0, p0, x)
  BY <1>2, <1>7, <1>8, <1>10, <1>11, CallAdjusts
<1>13. PICK r \in Channel, p \in Peer :
         /\ peer' = [peer EXCEPT ![c] = p]
         /\ r = Adjusted(c, m, force, rc)
         /\ Widened(r0, r, p0, p, x)
         /\ rc = "EAGAIN" => r.stalled
  BY <1>12, Zenon DEF Widens
<1>14. PICK f \in BOOLEAN : f = (rc = "EAGAIN")
  OBVIOUS
<1>15. PICK r2 : r2 = [r EXCEPT !.jump1 = f]
  OBVIOUS
<1>16. ch' = [ch EXCEPT ![c] = r2]
  BY <1>9, <1>13, <1>14, <1>15, Zenon
<1>17. r2 \in Channel /\ AsWide(r, r2)
  BY <1>15 DEF Channel, AsWide
<1>18. LocalOK(r, p, G) /\ RemoteOK(r, p, y0, F, x) /\ CloseOK(r, p)
  BY <1>5, <1>13, CallWidens
<1>19. LocalOK(r2, p, G) /\ RemoteOK(r2, p, y0, F, x) /\ CloseOK(r2, p)
  BY <1>17, <1>18 DEF AsWide, LocalOK, RemoteOK, CloseOK
<1>20. \A k : HeldBy(c, r2, k)
  BY <1>6, <1>13, <1>17 DEF Widened, SameBut, AsWide, HeldBy
<1>21. p.sent = p0.sent
  BY <1>13 DEF Widened
<1>22. PICK e \in {pend'} : e = pend'
  OBVIOUS
<1>23. PICK n \in [Streams -> Nat] : n = k0.n
  <2>1. Zero \in [Streams -> Nat]
    BY DEF Zero
  <2> QED
    BY <1>3, <1>5, <2>1 DEF PlaceOK
<1>24. n \in Counts /\ \A s \in Streams : Buffered(k0, s) = n[s]
  BY <1>3, <1>23 DEF Counts, Buffered
<1>25. CASE rc = "EAGAIN"
  <2>1. Again /\ app' = [app EXCEPT ![c].lost = Add(@, call.n)]
    BY <1>9, <1>25
  <2>2. k0.op # "none"
    BY <1>3
  <2>3. PICK k \in Execution : /\ call' = k /\ Resumes(k, k0, ch[k0.c]) /\ k # Idle
                               /\ k.at = "select" /\ k.n = Zero /\ k.op = k0.op /\ k.c = k0.c
    BY <1>3, <2>1, <2>2, Repeats
  <2>4. PICK y : y = [y0 EXCEPT !.lost = Add(@, n)]
    OBVIOUS
  <2>5. app' = [app EXCEPT ![c] = y]
    BY <1>3, <1>23, <2>1, <2>4, Zenon
  <2>6. /\ y \in Account /\ y.read = y0.read /\ y.dropped = y0.dropped /\ y.ignored = y0.ignored
        /\ \A s \in Streams : y.lost[s] = y0.lost[s] + n[s]
    <3>1. n \in [Streams -> Nat]
      BY <1>23
    <3>2. y0 \in Account
      BY <1>2
    <3> QED
      BY ONLY <2>4, <3>1, <3>2, LoseMore
  <2>7. RemoteOK(r2, p, y, F, x)
    BY <1>13, <1>17, <1>19, <1>25, <2>6 DEF RemoteOK, AsWide
  <2>8. PlaceOK(k, r0)
    BY <1>3, <1>7, <2>3 DEF Resumes
  <2>9. PlaceOK(k, r2)
    BY <1>3, <1>13, <1>17, <2>3, <2>8 DEF Widened, SameBut, AsWide, PlaceOK
  <2>10. InOrder(k, c, r2, p, y, G, F, x, e)
    BY <1>3, <1>12, <1>19, <1>20, <1>22, <2>3, <2>7, <2>9 DEF InOrder, PendOK
  <2>11. Changed(k, c, r2, p, y, b0, e)
    <3>1. peer' = [peer EXCEPT ![c] = p]
      BY <1>13, Zenon
    <3> QED
      BY <1>2, <1>4, <1>12, <1>16, <1>22, <2>3, <2>5, <3>1 DEF Changed, Before
  <2>12. ASSUME NEW s \in Streams
         PROVE  Bytes(b0, c, s) + y.read[s] + y.dropped[s] + y.lost[s] + Buffered(k, s)
                  = Bytes(b0, c, s) + y0.read[s] + y0.dropped[s] + y0.lost[s] + Buffered(k0, s)
    <3>1. Buffered(k, s) = 0 /\ Buffered(k0, s) = n[s]
      BY <1>3, <1>24, <2>3 DEF Buffered, Zero
    <3>2. PICK u \in Int : u = Bytes(b0, c, s)
      BY BytesSteps
    <3>3. PICK v \in Int, w \in Int, l \in Int, z \in Int :
            v = y0.read[s] /\ w = y0.dropped[s] /\ l = y0.lost[s] /\ z = n[s]
      BY <1>24 DEF Account, Counts
    <3>4. y.read[s] = v /\ y.dropped[s] = w /\ y.lost[s] = l + z
      BY <2>6, <3>3
    <3>5. u + v + w + (l + z) + 0 = u + v + w + l + z
      OBVIOUS
    <3> QED
      BY <3>1, <3>2, <3>3, <3>4, <3>5, Zenon
  <2>13. SameBytes(c, k0, p0, y0, b0, k, p, y, b0)
    BY <1>21, <2>12 DEF SameBytes
  <2> QED
    BY <1>2, <1>13, <1>17, <2>3, <2>6, <2>10, <2>11, <2>13, OwnStep, SMTT(60)
<1>26. CASE rc # "EAGAIN"
  <2>1. Return /\ app' = [app EXCEPT ![c].read = Add(@, call.n)]
    BY <1>9, <1>26
  <2>2. PICK k \in Execution : k = Idle
    BY IdleCall
  <2>3. PICK y : y = [y0 EXCEPT !.read = Add(@, n)]
    OBVIOUS
  <2>4. call' = k /\ app' = [app EXCEPT ![c] = y]
    BY <1>3, <1>23, <2>1, <2>2, <2>3, Zenon DEF Return
  <2>5. /\ y \in Account /\ y.dropped = y0.dropped /\ y.lost = y0.lost /\ y.ignored = y0.ignored
        /\ \A s \in Streams : y.read[s] = y0.read[s] + n[s]
    BY <1>24, <2>3, ReadMore
  <2>6. InOrder(k, c, r2, p, y0, G, F, x, e)
    BY <1>12, <1>19, <1>20, <1>22, <2>2 DEF InOrder
  <2>7. InOrder(k, c, r2, p, y, G, F, x, e)
    BY <2>5, <2>6, SameOrder
  <2>8. Changed(k, c, r2, p, y, b0, e)
    <3>1. peer' = [peer EXCEPT ![c] = p]
      BY <1>13, Zenon
    <3> QED
      BY <1>2, <1>4, <1>12, <1>16, <1>22, <2>4, <3>1 DEF Changed, Before
  <2>9. ASSUME NEW s \in Streams
        PROVE  Bytes(b0, c, s) + y.read[s] + y.dropped[s] + y.lost[s] + Buffered(k, s)
                 = Bytes(b0, c, s) + y0.read[s] + y0.dropped[s] + y0.lost[s] + Buffered(k0, s)
    <3>1. Buffered(k, s) = 0 /\ Buffered(k0, s) = n[s]
      BY <1>3, <1>24, <2>2, IdleCall DEF Buffered
    <3>2. PICK u \in Int : u = Bytes(b0, c, s)
      BY BytesSteps
    <3>3. PICK v \in Int, w \in Int, l \in Int, z \in Int :
            v = y0.read[s] /\ w = y0.dropped[s] /\ l = y0.lost[s] /\ z = n[s]
      BY <1>24 DEF Account, Counts
    <3>4. y.read[s] = v + z /\ y.dropped[s] = w /\ y.lost[s] = l
      BY <2>5, <3>3
    <3>5. u + (v + z) + w + l + 0 = u + v + w + l + z
      OBVIOUS
    <3> QED
      BY <3>1, <3>2, <3>3, <3>4, <3>5, Zenon
  <2>10. SameBytes(c, k0, p0, y0, b0, k, p, y, b0)
    BY <1>21, <2>9 DEF SameBytes
  <2> QED
    BY <1>2, <1>13, <1>17, <2>2, <2>5, <2>7, <2>8, <2>10, OwnStep, SMTT(60)
<1> QED
  BY <1>25, <1>26

\* Bytes that leave the brigade, for the buffer, the account of what was read or of what
\* was dropped.
LEMMA GoneBytes ==
    ASSUME NEW c \in Chans, NEW b0 \in Seq(Piece), NEW b \in Seq(Piece), NEW n \in Counts,
           \A d \in Chans \ {c}, s \in Streams : Bytes(b, d, s) = Bytes(b0, d, s),
           \A s \in Streams : Bytes(b, c, s) + n[s] = Bytes(b0, c, s),
           NEW y0 \in Account, NEW y \in Account, NEW k0 \in Execution, NEW k \in Execution,
           NEW p0 \in Peer, NEW p \in Peer, p.sent = p0.sent, y.lost = y0.lost,
           \A s \in Streams :
             \/ /\ y.read[s] = y0.read[s] + n[s] /\ y.dropped[s] = y0.dropped[s]
                /\ Buffered(k, s) = Buffered(k0, s)
             \/ /\ y.read[s] = y0.read[s] /\ y.dropped[s] = y0.dropped[s] + n[s]
                /\ Buffered(k, s) = Buffered(k0, s)
             \/ /\ y.read[s] = y0.read[s] /\ y.dropped[s] = y0.dropped[s]
                /\ Buffered(k, s) = Buffered(k0, s) + n[s]
    PROVE  SameBytes(c, k0, p0, y0, b0, k, p, y, b)
<1>1. ASSUME NEW s \in Streams
      PROVE  Bytes(b, c, s) + y.read[s] + y.dropped[s] + y.lost[s] + Buffered(k, s)
                 = Bytes(b0, c, s) + y0.read[s] + y0.dropped[s] + y0.lost[s] + Buffered(k0, s)
  <2>1. PICK u \in Int, u2 \in Int : u = Bytes(b0, c, s) /\ u2 = Bytes(b, c, s)
    BY BytesSteps
  <2>2. PICK v \in Int, w \in Int, l \in Int, m \in Int :
          v = y0.read[s] /\ w = y0.dropped[s] /\ l = y0.lost[s] /\ m = n[s]
    BY DEF Account, Counts
  <2>3. PICK v2 \in Int, w2 \in Int : v2 = y.read[s] /\ w2 = y.dropped[s]
    BY DEF Account, Counts
  <2>4. PICK z \in Int, z2 \in Int : z = Buffered(k0, s) /\ z2 = Buffered(k, s)
    BY BufferedIsInt
  <2>5. u2 + m = u /\ y.lost[s] = l
    BY <2>1, <2>2, Zenon
  <2>6. \/ v2 = v + m /\ w2 = w /\ z2 = z
        \/ v2 = v /\ w2 = w + m /\ z2 = z
        \/ v2 = v /\ w2 = w /\ z2 = z + m
    BY <2>2, <2>3, <2>4, Zenon
  <2>7. u2 + v2 + w2 + l + z2 = u + v + w + l + z
    <3>1. \A a1, a2, a3, a4, a5, a6 \in Int :
            /\ a1 + (a2 + a5) + a3 + a6 + a4 = (a1 + a5) + a2 + a3 + a6 + a4
            /\ a1 + a2 + (a3 + a5) + a6 + a4 = (a1 + a5) + a2 + a3 + a6 + a4
            /\ a1 + a2 + a3 + a6 + (a4 + a5) = (a1 + a5) + a2 + a3 + a6 + a4
      OBVIOUS
    <3> QED
      BY <2>5, <2>6, <3>1
  <2> QED
    BY <2>1, <2>2, <2>3, <2>4, <2>5, <2>7, Zenon
<1> QED
  BY <1>1 DEF SameBytes

\* Freeing a channel keeps the invariant.
LEMMA FreeCleansStep ==
    ASSUME IInv, FreeCleans
    PROVE  IInv'
<1>1. call.op = "free" /\ call.at = "cleanup"
  BY DEF FreeCleans, Running
<1>2. PICK k0 \in Execution, c \in Chans, r0 \in Channel, p0 \in Peer, y0 \in Account,
           b0 \in Seq(Piece), G \in Nat, F \in Nat, x \in {"up", "disconnected", "broken"}, e0 \in {pend} :
        Before(k0, c, r0, p0, y0, b0, G, F, x, e0) /\ InOrder(k0, c, r0, p0, y0, G, F, x, e0)
  BY <1>1, Starts
<1>3. /\ call = k0 /\ k0.op = "free" /\ k0.at = "cleanup" /\ k0 # Idle /\ k0.c = c /\ ch[c] = r0
      /\ app[c] = y0 /\ brigade = b0
  BY <1>1, <1>2 DEF Before
<1>4. UNCHANGED <<inbound, net, pend, add, peer>>
  BY DEF FreeCleans
<1>5. /\ PlaceOK(k0, r0) /\ CloseOK(r0, p0) /\ HeldBy(c, r0, k0) /\ LocalOK(r0, p0, G)
      /\ RemoteOK(r0, p0, y0, F, x) /\ (x = "up" => PendOK(e0, k0, r0))
  BY <1>2, <1>3 DEF InOrder
<1>6. r0.writing # "created" /\ (x = "up" => Loose(e0))
  BY <1>3, <1>5 DEF PendOK, HeldBy
<1>7. PICK set : set = {i \in 1..Len(b0) : b0[i].c = c}
  OBVIOUS
<1>8. PICK t \in PartsOf(b0, c) : t = [i \in 1..Len(b0) |-> IF i \in set THEN b0[i].len ELSE 0]
  BY <1>7, WholeParts
<1>9. t = [i \in DOMAIN b0 |-> IF b0[i].c = c THEN b0[i].len ELSE 0]
  <2>1. DOMAIN b0 = 1..Len(b0)
    OBVIOUS
  <2> QED
    BY <1>7, <1>8, <2>1
<1>10. /\ brigade' = Rest(t)
       /\ ch' = [ch EXCEPT ![c].live = FALSE]
       /\ app' = [app EXCEPT ![c].dropped = Add(@, PerStream(t))]
       /\ call' = Idle
  BY <1>3, <1>9, Zenon DEF FreeCleans, Return
<1>11. PICK b \in Seq(Piece), n \in Counts : b = Rest(t) /\ n = PerStream(t)
  BY <1>3, TakenBytes
<1>12. /\ \A d \in Chans \ {c}, s \in Streams : Bytes(b, d, s) = Bytes(b0, d, s)
       /\ \A s \in Streams : Bytes(b, c, s) + n[s] = Bytes(b0, c, s)
  BY <1>3, <1>11, TakenBytes
<1>13. PICK f \in BOOLEAN, k \in Execution : f = FALSE /\ k = Idle
  BY IdleCall
<1>14. PICK r : r = [r0 EXCEPT !.live = f]
  OBVIOUS
<1>15. PICK y : y = [y0 EXCEPT !.dropped = Add(@, n)]
  OBVIOUS
<1>16. ch' = [ch EXCEPT ![c] = r] /\ app' = [app EXCEPT ![c] = y] /\ brigade' = b /\ call' = k
  BY <1>3, <1>10, <1>11, <1>13, <1>14, <1>15, Zenon
<1>17. r \in Channel
  BY <1>14 DEF Channel
<1>18. /\ r.live = f /\ r.lwin = r0.lwin /\ r.lclose = r0.lclose /\ r.mode = r0.mode
       /\ r.writing = r0.writing /\ r.bufwrite = r0.bufwrite /\ r.closing = r0.closing
       /\ r.rwin = r0.rwin /\ r.adjusting = r0.adjusting /\ r.slipped = r0.slipped
       /\ r.stalled = r0.stalled
  BY <1>14 DEF Channel
<1>19. LocalOK(r, p0, G) /\ RemoteOK(r, p0, y0, F, x) /\ CloseOK(r, p0)
  BY <1>5, <1>13, <1>18 DEF LocalOK, RemoteOK, CloseOK
<1>20. HeldBy(c, r, k)
  BY <1>6, <1>13, <1>18 DEF HeldBy
<1>21. InOrder(k, c, r, p0, y0, G, F, x, e0)
  BY <1>6, <1>13, <1>19, <1>20 DEF InOrder
<1>22. /\ y \in Account /\ y.read = y0.read /\ y.lost = y0.lost /\ y.ignored = y0.ignored
       /\ \A s \in Streams : y.dropped[s] = y0.dropped[s] + n[s]
  BY <1>15, DropMore
<1>23. \A s \in Streams : Buffered(k, s) = Buffered(k0, s)
  BY <1>3, <1>13, IdleCall DEF Buffered
<1>24. SameBytes(c, k0, p0, y0, b0, k, p0, y, b)
  BY <1>12, <1>22, <1>23, GoneBytes
<1>25. Changed(k, c, r, p0, y, b, e0)
  BY <1>2, <1>4, <1>16, Stays DEF Changed, Before
<1>26. y \in Account /\ Before(k0, c, r0, p0, y0, b0, G, F, x, e0)
  BY <1>2, <1>22, Zenon
<1>27. InOrder(k, c, r, p0, y, G, F, x, e0)
  BY <1>21, <1>22, SameOrder
<1> QED
  BY <1>17, <1>24, <1>25, <1>26, <1>27, OwnStep

\* Entering a flush keeps the invariant.
LEMMA FlushEntersStep ==
    ASSUME IInv, FlushEnters
    PROVE  IInv'
<1>1. call.op = "flush" /\ call.at = "enter"
  BY DEF FlushEnters, Running
<1>2. PICK k0 \in Execution, c \in Chans, r0 \in Channel, p0 \in Peer, y0 \in Account,
           b0 \in Seq(Piece), G \in Nat, F \in Nat, x \in {"up", "disconnected", "broken"}, e0 \in {pend} :
        Before(k0, c, r0, p0, y0, b0, G, F, x, e0) /\ InOrder(k0, c, r0, p0, y0, G, F, x, e0)
  BY <1>1, Starts
<1>3. /\ call = k0 /\ k0.op = "flush" /\ k0 # Idle /\ k0.c = c /\ ch[c] = r0
      /\ app[c] = y0 /\ brigade = b0
  BY <1>1, <1>2 DEF Before
<1>4. UNCHANGED <<inbound, net, pend, add, peer, call>>
  BY DEF FlushEnters
<1>5. /\ PlaceOK(k0, r0) /\ CloseOK(r0, p0) /\ HeldBy(c, r0, k0) /\ LocalOK(r0, p0, G)
      /\ RemoteOK(r0, p0, y0, F, x) /\ (x = "up" => PendOK(e0, k0, r0))
  BY <1>2, <1>3 DEF InOrder
<1>6. r0.writing # "created" /\ ~(r0.live /\ r0.closing = "sent" /\ ~r0.lclose)
      /\ (x = "up" => Loose(e0))
  BY <1>3, <1>5 DEF PendOK, HeldBy
<1>7. PICK set : set = Flushed(c, k0.arg)
  OBVIOUS
<1>7a. DOMAIN b0 = 1..Len(b0)
  OBVIOUS
<1>7b. \A i \in 1..Len(b0) : i \in set => b0[i].c = c
  BY <1>3, <1>7, <1>7a DEF Flushed
<1>8. PICK t \in PartsOf(b0, c) : t = [i \in 1..Len(b0) |-> IF i \in set THEN b0[i].len ELSE 0]
  BY <1>7b, WholeParts
<1>9. PICK m \in Int : m = Total([i \in DOMAIN brigade |-> IF i \in set THEN Refund(i) ELSE 0])
  <2> DEFINE w == [i \in 1..Len(b0) |-> IF i \in set THEN Refund(i) ELSE 0]
  <2>1. \A i \in 1..Len(b0) : Refund(i) \in Int
    <3> TAKE i \in 1..Len(b0)
    <3>1. b0[i] \in Piece
      OBVIOUS
    <3>2. b0[i].size \in Nat
      BY <3>1 DEF Piece
    <3> QED
      BY <1>3, <3>2 DEF Refund
  <2>2. w \in Seq(Int)
    <3> HIDE DEF Refund
    <3> QED
      BY <2>1
  <2> HIDE DEF w
  <2>3. Total(w) \in Int
    BY <2>2, TotalInt
  <2>4. Total(w) = Total([i \in DOMAIN brigade |-> IF i \in set THEN Refund(i) ELSE 0])
    BY <1>3, <1>7a, Zenon DEF w
  <2> QED
    BY <2>3, <2>4, Zenon
<1>10. /\ brigade' = Rest(t)
       /\ ch' = [ch EXCEPT ![c].flushing = TRUE, ![c].refund = m]
       /\ app' = [app EXCEPT ![c].dropped = Add(@, PerStream(t))]
  <2>1. t = [i \in DOMAIN brigade |-> IF i \in Flushed(c, k0.arg) THEN brigade[i].len ELSE 0]
    BY <1>3, <1>7, <1>7a, <1>8, Zenon
  <2> QED
    BY <1>3, <1>7, <1>9, <2>1, Zenon DEF FlushEnters
<1>11. PICK b \in Seq(Piece), n \in Counts : b = Rest(t) /\ n = PerStream(t)
  BY <1>3, TakenBytes
<1>12. /\ \A d \in Chans \ {c}, s \in Streams : Bytes(b, d, s) = Bytes(b0, d, s)
       /\ \A s \in Streams : Bytes(b, c, s) + n[s] = Bytes(b0, c, s)
  BY <1>3, <1>11, TakenBytes
<1>13. PICK f \in BOOLEAN : f = TRUE
  OBVIOUS
<1>14. PICK r : r = [r0 EXCEPT !.flushing = f, !.refund = m]
  OBVIOUS
<1>15. PICK y : y = [y0 EXCEPT !.dropped = Add(@, n)]
  OBVIOUS
<1>16. app' = [app EXCEPT ![c] = y] /\ brigade' = b
  BY <1>3, <1>10, <1>11, <1>15, Zenon
<1>16a. ch' = [ch EXCEPT ![c] = r]
  <2>1. ch' = [ch EXCEPT ![c].flushing = TRUE, ![c].refund = m]
    BY <1>10, Zenon
  <2> QED
    BY <1>3, <1>13, <1>14, <2>1
<1>17. r \in Channel
  BY <1>14 DEF Channel
<1>18. /\ r.live = r0.live /\ r.lwin = r0.lwin /\ r.lclose = r0.lclose /\ r.mode = r0.mode
       /\ r.writing = r0.writing /\ r.bufwrite = r0.bufwrite /\ r.closing = r0.closing
       /\ r.rwin = r0.rwin /\ r.adjusting = r0.adjusting /\ r.slipped = r0.slipped
       /\ r.stalled = r0.stalled
  BY <1>14 DEF Channel
<1>19. LocalOK(r, p0, G) /\ RemoteOK(r, p0, y0, F, x) /\ CloseOK(r, p0)
  BY <1>5, <1>18 DEF LocalOK, RemoteOK, CloseOK
<1>20. HeldBy(c, r, k0) /\ PlaceOK(k0, r)
  BY <1>3, <1>5, <1>6, <1>18 DEF HeldBy, PlaceOK
<1>21. InOrder(k0, c, r, p0, y0, G, F, x, e0)
  BY <1>3, <1>6, <1>19, <1>20 DEF InOrder, PendOK
<1>22. /\ y \in Account /\ y.read = y0.read /\ y.lost = y0.lost /\ y.ignored = y0.ignored
       /\ \A s \in Streams : y.dropped[s] = y0.dropped[s] + n[s]
  BY <1>15, DropMore
<1>23. SameBytes(c, k0, p0, y0, b0, k0, p0, y, b)
  BY <1>12, <1>22, GoneBytes
<1>24. Changed(k0, c, r, p0, y, b, e0)
  BY <1>2, <1>4, <1>16, <1>16a, Stays DEF Changed, Before
<1>25. InOrder(k0, c, r, p0, y, G, F, x, e0)
  BY <1>21, <1>22, SameOrder
<1> QED
  BY <1>2, <1>17, <1>22, <1>23, <1>24, <1>25, OwnStep

\* Copying to the caller keeps the invariant.
LEMMA ReadCopiesStep ==
    ASSUME IInv, ReadCopies
    PROVE  IInv'
<1>1. call.op = "read" /\ call.at \in {"EAGAIN", "zero"}
  BY DEF ReadCopies
<1>2. PICK k0 \in Execution, c \in Chans, r0 \in Channel, p0 \in Peer, y0 \in Account,
           b0 \in Seq(Piece), G \in Nat, F \in Nat, x \in {"up", "disconnected", "broken"}, e0 \in {pend} :
        Before(k0, c, r0, p0, y0, b0, G, F, x, e0) /\ InOrder(k0, c, r0, p0, y0, G, F, x, e0)
  BY <1>1, Starts
<1>3. /\ call = k0 /\ k0.op = "read" /\ k0.at # "adjust" /\ k0 # Idle /\ k0.c = c /\ ch[c] = r0
      /\ app[c] = y0 /\ brigade = b0
  BY <1>1, <1>2 DEF Before
<1>4. UNCHANGED <<inbound, net, pend, add, peer>>
  BY DEF ReadCopies
<1>5. /\ PlaceOK(k0, r0) /\ CloseOK(r0, p0) /\ HeldBy(c, r0, k0) /\ LocalOK(r0, p0, G)
      /\ RemoteOK(r0, p0, y0, F, x) /\ (x = "up" => PendOK(e0, k0, r0))
  BY <1>2, <1>3 DEF InOrder
<1>6. r0.writing # "created" /\ ~(r0.live /\ r0.closing = "sent" /\ ~r0.lclose)
      /\ (x = "up" => Loose(e0)) /\ k0.n = Zero
  BY <1>3, <1>5 DEF PendOK, HeldBy, PlaceOK
<1>7. PICK want \in Nat : want = k0.arg[2]
  <2>1. PICK o \in Ops : k0.op = o[1] /\ k0.arg = o[2]
    BY <1>5 DEF PlaceOK
  <2>2. o[2] \in Streams \X Nat
    BY <1>3, <2>1, ChannelAssumption
  <2> QED
    BY <2>1, <2>2
<1>8. PICK t \in PartsOf(b0, c) : t = Taken(c, k0.arg[1], k0.arg[2])
  BY <1>3, <1>7, TakenParts
<1>9. PICK b \in Seq(Piece), n \in Counts : b = Rest(t) /\ n = PerStream(t) /\ n \in [Streams -> Nat]
  BY <1>3, TakenBytes
<1>10. /\ \A d \in Chans \ {c}, s \in Streams : Bytes(b, d, s) = Bytes(b0, d, s)
       /\ \A s \in Streams : Bytes(b, c, s) + n[s] = Bytes(b0, c, s)
  BY <1>3, <1>9, TakenBytes
<1>11. \/ ReadsNothing(c) /\ UNCHANGED <<ch, brigade, app>>
       \/ /\ brigade' = b
          /\ ch' = [ch EXCEPT ![c].jump1 = TRUE]
          /\ call' = [call EXCEPT !.at = "adjust", !.n = n]
          /\ UNCHANGED app
       \/ /\ brigade' = b
          /\ app' = [app EXCEPT ![c].read = Add(@, n)]
          /\ Return
          /\ UNCHANGED ch
  BY <1>3, <1>8, <1>9, Zenon DEF ReadCopies
<1>12. PICK k1 \in Execution : k1 = Idle
  BY IdleCall
<1>13. InOrder(k1, c, r0, p0, y0, G, F, x, e0)
  <2>1. InOrder(Idle, c, r0, p0, y0, G, F, x, e0)
    BY <1>2, <1>3, <1>6, Returning
  <2> QED
    BY <1>12, <2>1
<1>14. CASE ReadsNothing(c) /\ UNCHANGED <<ch, brigade, app>>
  <2>1. UNCHANGED <<session, app>>
    BY <1>4, <1>14 DEF session
  <2>2. Return \/ Again
    BY <1>14 DEF ReadsNothing
  <2>3. CASE Return
    <3>1. call' = k1 /\ (k0.op = "read" => k0.n = Zero) /\ (k1.op = "read" => k1.n = Zero)
      BY <1>6, <1>12, <2>3, IdleCall DEF Return
    <3> QED
      BY <1>2, <1>13, <2>1, <3>1, MoveStep
  <2>4. CASE Again
    <3>0. k0.op # "none"
      BY <1>3
    <3>1. PICK k \in Execution :
            /\ call' = k /\ Resumes(k, k0, ch[k0.c]) /\ k # Idle
            /\ k.at = "select" /\ k.n = Zero /\ k.op = k0.op /\ k.c = k0.c
      BY <1>3, <2>4, <3>0, Repeats
    <3>2. call' = k /\ (k0.op = "read" => k0.n = Zero) /\ (k.op = "read" => k.n = Zero)
      BY <1>6, <3>1, Zenon
    <3>3. PlaceOK(k, r0) /\ k # Idle /\ k.c = c
      BY <1>3, <3>1 DEF Resumes
    <3>4. HeldBy(c, r0, k) /\ (x = "up" => PendOK(e0, k, r0))
      BY <1>6 DEF HeldBy, PendOK
    <3>5. InOrder(k, c, r0, p0, y0, G, F, x, e0)
      BY <1>5, <3>3, <3>4 DEF InOrder
    <3> QED
      BY <1>2, <2>1, <3>2, <3>5, MoveStep
  <2> QED
    BY <2>2, <2>3, <2>4
<1>15. CASE /\ brigade' = b
            /\ ch' = [ch EXCEPT ![c].jump1 = TRUE]
            /\ call' = [call EXCEPT !.at = "adjust", !.n = n]
            /\ UNCHANGED app
  <2>1. PICK z \in Positions, f \in BOOLEAN : z = "adjust" /\ f = TRUE
    BY DEF Positions
  <2>2. PICK k : MovedTo(k, k0, z, n)
    BY DEF MovedTo
  <2>3. PICK r : r = [r0 EXCEPT !.jump1 = f]
    OBVIOUS
  <2>4. call' = k
    BY <1>3, <1>15, <2>1, <2>2, Zenon DEF MovedTo
  <2>5. ch' = [ch EXCEPT ![c] = r]
    BY <1>3, <1>15, <2>1, <2>3, Zenon
  <2>6. brigade' = b /\ UNCHANGED app
    BY <1>15, Zenon
  <2>7. k \in Execution /\ k.op = k0.op /\ k.c = k0.c /\ k.arg = k0.arg /\ k.n = n /\ k.at = z
    BY <2>2, MovesWith
  <2>8. r \in Channel
    BY <2>3 DEF Channel
  <2>9. /\ r.live = r0.live /\ r.lwin = r0.lwin /\ r.lclose = r0.lclose /\ r.mode = r0.mode
        /\ r.writing = r0.writing /\ r.bufwrite = r0.bufwrite /\ r.closing = r0.closing
        /\ r.rwin = r0.rwin /\ r.adjusting = r0.adjusting /\ r.slipped = r0.slipped
        /\ r.stalled = r0.stalled
    BY <2>3 DEF Channel
  <2>10. LocalOK(r, p0, G) /\ RemoteOK(r, p0, y0, F, x) /\ CloseOK(r, p0)
    BY <1>5, <2>9 DEF LocalOK, RemoteOK, CloseOK
  <2>11. HeldBy(c, r, k)
    BY <1>6, <2>9 DEF HeldBy
  <2>12. PlaceOK(k, r)
    BY <1>3, <1>5, <1>9, <2>1, <2>7, <2>9 DEF PlaceOK
  <2>13. InOrder(k, c, r, p0, y0, G, F, x, e0)
    BY <1>3, <1>6, <2>7, <2>10, <2>11, <2>12 DEF InOrder, PendOK
  <2>14. Changed(k, c, r, p0, y0, b, e0)
    BY <1>2, <1>4, <2>4, <2>5, <2>6, Stays DEF Changed, Before
  <2>15. \A s \in Streams : Buffered(k, s) = Buffered(k0, s) + n[s]
    <3> TAKE s \in Streams
    <3>1. Buffered(k, s) = n[s] /\ Buffered(k0, s) = 0
      BY <1>3, <1>6, <2>7 DEF Buffered, Zero
    <3>2. n[s] \in Int
      BY DEF Counts
    <3> QED
      BY <3>1, <3>2
  <2>16. SameBytes(c, k0, p0, y0, b0, k, p0, y0, b)
    BY <1>10, <2>7, <2>15, GoneBytes
  <2> QED
    BY <1>2, <2>7, <2>8, <2>13, <2>14, <2>16, OwnStep
<1>16. CASE /\ brigade' = b
            /\ app' = [app EXCEPT ![c].read = Add(@, n)]
            /\ Return
            /\ UNCHANGED ch
  <2>1. PICK y : y = [y0 EXCEPT !.read = Add(@, n)]
    OBVIOUS
  <2>2. app' = [app EXCEPT ![c] = y]
    BY <1>3, <1>16, <2>1, Zenon
  <2>3. brigade' = b /\ call' = k1 /\ UNCHANGED ch
    BY <1>12, <1>16, Zenon DEF Return
  <2>4. /\ y \in Account /\ y.dropped = y0.dropped /\ y.lost = y0.lost /\ y.ignored = y0.ignored
        /\ \A s \in Streams : y.read[s] = y0.read[s] + n[s]
    BY <2>1, ReadMore
  <2>5. \A s \in Streams : Buffered(k1, s) = Buffered(k0, s)
    BY <1>3, <1>6, <1>12, IdleCall DEF Buffered, Zero
  <2>6. SameBytes(c, k0, p0, y0, b0, k1, p0, y, b)
    BY <1>10, <2>4, <2>5, GoneBytes
  <2>7. Changed(k1, c, r0, p0, y, b, e0)
    BY <1>2, <1>4, <2>2, <2>3, Stays DEF Changed, Before
  <2>8. y \in Account /\ Before(k0, c, r0, p0, y0, b0, G, F, x, e0)
    BY <1>2, <2>4, Zenon
  <2>9. InOrder(k1, c, r0, p0, y, G, F, x, e0)
    BY <1>13, <2>4, SameOrder
  <2> QED
    BY <1>12, <2>6, <2>7, <2>8, <2>9, OwnStep
<1> QED
  BY <1>11, <1>14, <1>15, <1>16

-----------------------------------------------------------------------------
(***************************************************************************)
(* The application and the other end.                                      *)
(***************************************************************************)
\* A call begins: nothing is held on any channel.
LEMMA CallStep ==
    ASSUME IInv, NEW c \in Chans, NEW o \in Ops, Call(o[1], c, o[2])
    PROVE  IInv'
<1>1. call = Idle /\ ch[c].live /\ UNCHANGED <<session, app>>
  BY DEF Call
<1>2. PICK k : k = [op |-> o[1], c |-> c, arg |-> o[2], at |-> "enter", n |-> Zero]
  OBVIOUS
<1>3. call' = k
  BY <1>2 DEF Call
<1>4. o[1] \in CallNames
  BY ChannelAssumption
<1>5. k \in Execution
  BY <1>2, <1>4, ZeroCounts DEF Execution, Positions
<1>6. k.op = o[1] /\ k.c = c /\ k.arg = o[2] /\ k.at = "enter" /\ k.n = Zero
  BY <1>2
<1>7. k # Idle /\ k.op # "none"
  BY <1>4, <1>6, IdleCall DEF CallNames
<1>8. UNCHANGED <<ch, brigade, inbound, net, pend, add, peer, app>>
  BY <1>1 DEF session
<1>9. Types'
  BY <1>3, <1>5, <1>8 DEF IInv, Types
<1>10. CallInv'
  <2>1. PICK r : r = ch[c] /\ r.live
    BY <1>1
  <2>2. PlaceOK(k, r)
    BY <1>6, <2>1 DEF PlaceOK
  <2>3. net = "up" => Loose(pend)
    BY <1>1 DEF IInv, CallInv
  <2>4. net = "up" => PendOK(pend, k, r)
    BY <2>3 DEF PendOK
  <2> QED
    BY <1>3, <1>6, <1>7, <1>8, <2>1, <2>2, <2>4, Zenon DEF CallInv
<1>11. ChannelInv'
  <2> SUFFICES ASSUME NEW d \in Chans
               PROVE  /\ LocalOK(ch[d], peer[d], Granted(inbound, d))
                      /\ RemoteOK(ch[d], peer[d], app[d], Flying(inbound, d, 0) + Flying(inbound, d, 1), net)
                      /\ CloseOK(ch[d], peer[d])
                      /\ HeldBy(d, ch[d], k)
    BY <1>3, <1>8, Zenon DEF ChannelInv
  <2>1. /\ LocalOK(ch[d], peer[d], Granted(inbound, d))
        /\ RemoteOK(ch[d], peer[d], app[d], Flying(inbound, d, 0) + Flying(inbound, d, 1), net)
        /\ CloseOK(ch[d], peer[d])
        /\ HeldBy(d, ch[d], call)
    BY DEF IInv, ChannelInv
  <2>2. HeldBy(d, ch[d], k)
    BY <1>1, <2>1, IdleCall DEF HeldBy
  <2> QED
    BY <2>1, <2>2
<1>12. BytesInv'
  <2> SUFFICES ASSUME NEW d \in Chans, NEW s \in Streams
               PROVE  peer'[d].sent[s] = Known(d, s)' + InBuffer(d, s)'
    BY DEF BytesInv
  <2>1. peer[d].sent[s] = Known(d, s) + InBuffer(d, s)
    BY DEF IInv, BytesInv
  <2>2. InBuffer(d, s) = 0 /\ InBuffer(d, s)' = 0
    BY <1>1, <1>3, <1>6, IdleCall DEF InBuffer, Zero
  <2>3. Known(d, s)' = Known(d, s) /\ peer' = peer
    BY <1>8, Zenon DEF Known
  <2> QED
    BY <2>1, <2>2, <2>3, Zenon
<1> QED
  BY <1>9, <1>10, <1>11, <1>12 DEF IInv

\* The other end p0, now p, sends the packet m.
Sent(m, c, p0, p) ==
    /\ p.closes = p0.closes /\ p.refused = p0.refused
    /\ p.window = p0.window + GrantOf(m, c)
    /\ p0.grant = p.grant + (DataOf(m, c, 0) + DataOf(m, c, 1))
    /\ \A s \in Streams : p.sent[s] = p0.sent[s] + DataOf(m, c, s)

\* The sums of a packet from the peer.
LEMMA SentArithmetic ==
    /\ \A a, g, w, n \in Int : a + g <= w => a + (g + n) <= w + n
    /\ \A g, m, n, f, h, i \in Int :
         g + (f + m + (h + n)) + i = (g + (m + n)) + (f + h) + i
    /\ \A f, u, v, w, l, z, n \in Int : (f + u + v + w + l + z) + n = (f + n) + u + v + w + l + z
  OBVIOUS

\* A packet of another channel brings nothing.
LEMMA OtherPacket ==
    ASSUME NEW m \in Message, NEW d, d # m.c
    PROVE  GrantOf(m, d) = 0 /\ \A s : DataOf(m, d, s) = 0
  BY DEF GrantOf, DataOf

\* A packet the peer sends keeps the invariant.
LEMMA PeerStep ==
    ASSUME IInv, UNCHANGED <<ch, brigade, net, pend, add, call, app>>,
           NEW m \in Message, inbound' = Append(inbound, m),
           NEW c \in Chans, m.c = c, NEW p0 \in Peer, peer[c] = p0,
           NEW p \in Peer, peer' = [peer EXCEPT ![c] = p], Sent(m, c, p0, p)
    PROVE  IInv'
<1>1. peer \in [Chans -> Peer] /\ ch \in [Chans -> Channel] /\ inbound \in Seq(Message)
  BY DEF IInv, Types
<1>2. peer'[c] = p /\ \A d \in Chans \ {c} : peer'[d] = peer[d]
  BY <1>1
<1>3. Types'
  <2>1. peer' \in [Chans -> Peer] /\ inbound' \in Seq(Message)
    BY <1>1
  <2> QED
    BY <2>1 DEF IInv, Types
<1>4. CallInv'
  BY DEF IInv, CallInv
<1>5. PICK q \in Seq(Message) : q = inbound
  BY <1>1
<1>6. inbound' = Append(q, m)
  BY <1>5
<1>7. \A d \in Chans, s \in Streams :
        /\ Flying(Append(q, m), d, s) = Flying(q, d, s) + DataOf(m, d, s)
        /\ Flying(q, d, s) \in Nat /\ DataOf(m, d, s) \in Nat
  <2> TAKE d \in Chans, s \in Streams
  <2>1. DataOf(m, d, s) \in Nat
    BY DEF DataOf, Message
  <2> QED
    BY <2>1, FlyingSteps
<1>8. \A d \in Chans :
        /\ Granted(Append(q, m), d) = Granted(q, d) + GrantOf(m, d)
        /\ Granted(q, d) \in Nat /\ GrantOf(m, d) \in Nat
  <2> TAKE d \in Chans
  <2>1. GrantOf(m, d) \in Nat
    BY DEF GrantOf, Message
  <2> QED
    BY <2>1, GrantedSteps
<1>9. ChannelInv'
  <2> SUFFICES ASSUME NEW d \in Chans
               PROVE  /\ LocalOK(ch[d], peer'[d], Granted(Append(q, m), d))
                      /\ RemoteOK(ch[d], peer'[d], app[d],
                                  Flying(Append(q, m), d, 0) + Flying(Append(q, m), d, 1), net)
                      /\ CloseOK(ch[d], peer'[d])
                      /\ HeldBy(d, ch[d], call)
    BY <1>6, Zenon DEF ChannelInv
  <2>1. /\ LocalOK(ch[d], peer[d], Granted(q, d))
        /\ RemoteOK(ch[d], peer[d], app[d], Flying(q, d, 0) + Flying(q, d, 1), net)
        /\ CloseOK(ch[d], peer[d])
        /\ HeldBy(d, ch[d], call)
    BY <1>5 DEF IInv, ChannelInv
  <2>2. PICK f \in Int, h \in Int, a \in Int, n \in Int :
          /\ f = Flying(q, d, 0) /\ h = Flying(q, d, 1)
          /\ a = DataOf(m, d, 0) /\ n = DataOf(m, d, 1)
    BY <1>7 DEF Streams
  <2>3. Flying(Append(q, m), d, 0) = f + a /\ Flying(Append(q, m), d, 1) = h + n
    <3>1. 0 \in Streams /\ 1 \in Streams
      BY DEF Streams
    <3> QED
      BY <1>7, <2>2, <3>1, Zenon
  <2>4. PICK g \in Int, j \in Int : g = Granted(q, d) /\ j = GrantOf(m, d)
    BY <1>8
  <2>5. Granted(Append(q, m), d) = g + j
    BY <1>8, <2>4, Zenon
  <2>8. PICK y \in Account : y = app[d]
    BY DEF IInv, Types
  <2>6. CASE d = c
    <3>1. PICK r \in Channel : r = ch[d]
      BY <1>1
    <3>2. /\ LocalOK(r, p0, g) /\ CloseOK(r, p0) /\ y \in Account
          /\ RemoteOK(r, p0, y, f + h, net)
      BY <2>1, <2>2, <2>4, <2>6, <2>8, <3>1, Zenon
    <3>3. /\ p.closes = p0.closes /\ p.refused = p0.refused
          /\ p.window = p0.window + j
          /\ p0.grant = p.grant + (a + n)
      BY <2>2, <2>4, <2>6, Zenon DEF Sent
    <3>4. PICK l \in Int, w \in Int, v \in Int, i \in Int :
            l = r.lwin /\ w = p0.window /\ v = p.grant /\ i = y.ignored
      <4>1. r.lwin \in Int /\ p0.window \in Int /\ p.grant \in Int
        BY DEF Channel, Peer
      <4>2. y.ignored \in Int
        BY <2>8 DEF Account
      <4> QED
        BY <4>1, <4>2
    <3>5. LocalOK(r, p, g + j)
      <4>1. l + g <= w
        BY <3>2, <3>4 DEF LocalOK
      <4>2. l + (g + j) <= w + j
        BY <4>1, SentArithmetic
      <4> QED
        BY <3>2, <3>3, <3>4, <4>2, Zenon DEF LocalOK
    <3>6. RemoteOK(r, p, y, f + a + (h + n), net)
      <4>1. v + (f + a + (h + n)) + i = p0.grant + (f + h) + i
        BY <3>3, <3>4, SentArithmetic
      <4>2. p.grant + (f + a + (h + n)) + y.ignored = p0.grant + (f + h) + y.ignored
        BY <3>4, <4>1, Zenon
      <4> QED
        BY <3>2, <3>3, <4>2, Zenon DEF RemoteOK
    <3>7. CloseOK(r, p)
      BY <3>2, <3>3, Zenon DEF CloseOK
    <3> QED
      BY <1>2, <2>1, <2>3, <2>5, <2>6, <2>8, <3>1, <3>5, <3>6, <3>7, Zenon
  <2>7. CASE d # c
    <3>1. j = 0 /\ a = 0 /\ n = 0
      BY <2>2, <2>4, <2>7, OtherPacket
    <3>2. f + a = f /\ h + n = h /\ g + j = g
      BY <3>1
    <3>3. Granted(Append(q, m), d) = Granted(q, d)
      BY <2>4, <2>5, <3>2, Zenon
    <3>4. Flying(Append(q, m), d, 0) = Flying(q, d, 0) /\ Flying(Append(q, m), d, 1) = Flying(q, d, 1)
      BY <2>2, <2>3, <3>2, Zenon
    <3>5. peer'[d] = peer[d]
      BY <1>2, <2>7
    <3> QED
      BY <2>1, <3>3, <3>4, <3>5, Zenon
  <2> QED
    BY <2>6, <2>7
<1>10. BytesInv'
  <2> SUFFICES ASSUME NEW d \in Chans, NEW s \in Streams
               PROVE  peer'[d].sent[s] = Known(d, s)' + InBuffer(d, s)'
    BY DEF BytesInv
  <2>1. peer[d].sent[s] = Known(d, s) + InBuffer(d, s)
    BY DEF IInv, BytesInv
  <2>2. InBuffer(d, s)' = InBuffer(d, s)
    BY DEF InBuffer
  <2>3. PICK f \in Int, n \in Int : f = Flying(q, d, s) /\ n = DataOf(m, d, s)
    BY <1>7
  <2>4. Flying(Append(q, m), d, s) = f + n
    BY <1>7, <2>3, Zenon
  <2>5. PICK u \in Int : u = Bytes(brigade, d, s)
    <3>1. brigade \in Seq(Piece)
      BY DEF IInv, Types
    <3> QED
      BY <3>1, BytesSteps
  <2>6. PICK v \in Int, w \in Int, l \in Int :
          v = app[d].read[s] /\ w = app[d].dropped[s] /\ l = app[d].lost[s]
    <3>1. app[d] \in Account
      BY DEF IInv, Types
    <3> QED
      BY <3>1 DEF Account, Counts
  <2>7. PICK z \in Int : z = InBuffer(d, s)
    <3>1. call \in Execution
      BY DEF IInv, Types
    <3> QED
      BY <3>1 DEF InBuffer, Execution, Counts
  <2>8. Known(d, s) = f + u + v + w + l
    BY <1>5, <2>3, <2>5, <2>6, Zenon DEF Known
  <2>9. Known(d, s)' = (f + n) + u + v + w + l
    BY <1>6, <2>4, <2>5, <2>6, Zenon DEF Known
  <2>10. peer'[d].sent[s] = peer[d].sent[s] + n
    <3>1. CASE d = c
      BY <1>2, <2>3, <3>1, Zenon DEF Sent
    <3>2. CASE d # c
      <4>1. n = 0
        BY <2>3, <3>2, OtherPacket
      <4>2. PICK e \in Int : e = peer[d].sent[s]
        <5>1. peer[d] \in Peer
          BY <1>1
        <5> QED
          BY <5>1 DEF Peer, Counts
      <4>3. e + n = e
        BY <4>1
      <4> QED
        BY <1>2, <3>2, <4>2, <4>3, Zenon
    <3> QED
      BY <3>1, <3>2
  <2>11. (f + u + v + w + l + z) + n = (f + n) + u + v + w + l + z
    BY SentArithmetic
  <2> QED
    BY <2>1, <2>2, <2>7, <2>8, <2>9, <2>10, <2>11, Zenon
<1> QED
  BY <1>3, <1>4, <1>9, <1>10 DEF IInv

\* Data is sent only as far as the window of the channel goes.
LEMMA PeerDataStep ==
    ASSUME IInv, NEW c \in Chans, NEW s \in Streams, NEW n \in Lens, PeerData(c, s, n)
    PROVE  IInv'
<1>1. /\ UNCHANGED <<ch, brigade, net, pend, add, call, app>>
      /\ inbound' = Append(inbound, Packet("data", c, s, n))
      /\ peer' = [peer EXCEPT ![c].grant = @ - n, ![c].sent[s] = @ + n]
      /\ n <= peer[c].grant
  BY DEF PeerData, PeerSends
<1>2. PICK p0 \in Peer : p0 = peer[c]
  BY DEF IInv, Types
<1>3. n \in Nat /\ n > 0
  BY ChannelAssumption
<1>4. PICK m : m = Packet("data", c, s, n)
  OBVIOUS
<1>5. m \in Message /\ m.kind = "data" /\ m.c = c /\ m.s = s /\ m.n = n
  BY <1>3, <1>4 DEF Packet, Message
<1>6. PICK g \in Nat : g = p0.grant /\ n <= g
  BY <1>1, <1>2 DEF Peer
<1>7. PICK h \in Nat : h = g - n
  BY <1>3, <1>6
<1>8. PICK f \in Counts : f = [p0.sent EXCEPT ![s] = @ + n]
  <2>1. p0.sent \in Counts
    BY DEF Peer
  <2>2. p0.sent[s] + n \in Int
    BY <1>3, <2>1 DEF Counts
  <2>3. [p0.sent EXCEPT ![s] = p0.sent[s] + n] \in Counts
    BY <2>1, <2>2 DEF Counts
  <2> QED
    BY <2>3
<1>9. PICK p : p = [p0 EXCEPT !.grant = h, !.sent = f]
  OBVIOUS
<1>10. peer' = [peer EXCEPT ![c] = p]
  <2>1. peer' = [peer EXCEPT ![c] = [p0 EXCEPT !.grant = p0.grant - n, !.sent[s] = @ + n]]
    BY <1>1, <1>2
  <2> QED
    BY <1>6, <1>7, <1>8, <1>9, <2>1
<1>11. p \in Peer
  BY <1>9 DEF Peer
<1>12. /\ p.closes = p0.closes /\ p.refused = p0.refused /\ p.window = p0.window
       /\ p.grant = h /\ p.sent = f
  BY <1>9 DEF Peer
<1>13. \A z \in Streams : DataOf(m, c, z) = IF z = s THEN n ELSE 0
  BY <1>5 DEF DataOf
<1>14. Sent(m, c, p0, p)
  <2>1. p.window = p0.window + GrantOf(m, c)
    <3>1. GrantOf(m, c) = 0
      BY <1>5 DEF GrantOf
    <3>2. p0.window \in Int
      BY DEF Peer
    <3> QED
      BY <1>12, <3>1, <3>2
  <2>2. p0.grant = p.grant + (DataOf(m, c, 0) + DataOf(m, c, 1))
    <3>1. DataOf(m, c, 0) + DataOf(m, c, 1) = n
      BY <1>3, <1>13 DEF Streams
    <3>2. h + n = g
      BY <1>3, <1>7
    <3> QED
      BY <1>6, <1>12, <3>1, <3>2, Zenon
  <2>3. \A z \in Streams : p.sent[z] = p0.sent[z] + DataOf(m, c, z)
    <3> TAKE z \in Streams
    <3>1. p0.sent \in Counts
      BY DEF Peer
    <3>2. p0.sent[z] \in Int
      BY <3>1 DEF Counts
    <3>3. f[z] = IF z = s THEN p0.sent[z] + n ELSE p0.sent[z]
      BY <1>8, <3>1 DEF Counts
    <3>4. CASE z = s
      BY <1>12, <1>13, <3>3, <3>4
    <3>5. CASE z # s
      BY <1>12, <1>13, <3>2, <3>3, <3>5
    <3> QED
      BY <3>4, <3>5
  <2> QED
    BY <1>12, <2>1, <2>2, <2>3 DEF Sent
<1>15. UNCHANGED <<ch, brigade, net, pend, add, call, app>> /\ inbound' = Append(inbound, m)
  BY <1>1, <1>4, Zenon
<1> QED
  BY <1>2, <1>5, <1>10, <1>11, <1>14, <1>15, PeerStep

\* What the other end says besides data.
LEMMA SaidSent ==
    ASSUME NEW c \in Chans, NEW p0 \in Peer, NEW p,
           NEW kind \in {"eof", "close", "adjust", "request", "disconnect"}, p = Said(p0, kind),
           NEW m, m = Packet(kind, c, 0, IF kind = "adjust" THEN PacketSize ELSE 0)
    PROVE  m \in Message /\ m.c = c /\ p \in Peer /\ Sent(m, c, p0, p)
<1>1. PacketSize \in Nat
  BY ChannelAssumption
<1>2. PICK n \in Nat : n = IF kind = "adjust" THEN PacketSize ELSE 0
  BY <1>1
<1>3. m.kind = kind /\ m.c = c /\ m.s = 0 /\ m.n = n /\ m \in Message
  BY <1>2 DEF Packet, Message, Streams
<1>4. PICK w \in Int, f \in BOOLEAN, w0 \in Int : w0 = p0.window /\ w = w0 + PacketSize /\ f = TRUE
  <2>1. p0.window \in Int
    BY DEF Peer
  <2>2. \A a \in Int : a + PacketSize \in Int
    BY <1>1
  <2> QED
    BY <2>1, <2>2
<1>5. /\ p \in Peer /\ p.closes = p0.closes /\ p.refused = p0.refused /\ p.grant = p0.grant
      /\ p.sent = p0.sent /\ p.window = IF kind = "adjust" THEN w ELSE w0
  <2>1. CASE kind = "eof"
    <3>1. p = [p0 EXCEPT !.eof = f]
      BY <1>4, <2>1 DEF Said
    <3>2. p \in Peer
      BY <3>1 DEF Peer
    <3> QED
      BY <1>4, <2>1, <3>1, <3>2 DEF Peer
  <2>2. CASE kind = "close"
    <3>1. p = [p0 EXCEPT !.eof = f, !.close = f]
      BY <1>4, <2>2 DEF Said
    <3>2. p \in Peer
      BY <3>1 DEF Peer
    <3> QED
      BY <1>4, <2>2, <3>1, <3>2 DEF Peer
  <2>3. CASE kind = "adjust"
    <3>1. p = [p0 EXCEPT !.window = w]
      BY <1>4, <2>3 DEF Said
    <3>2. p \in Peer
      BY <3>1 DEF Peer
    <3> QED
      BY <2>3, <3>1, <3>2 DEF Peer
  <2>4. CASE kind \in {"request", "disconnect"}
    <3>1. p = p0
      BY <2>4 DEF Said
    <3> QED
      BY <1>4, <2>4, <3>1
  <2> QED
    BY <2>1, <2>2, <2>3, <2>4
<1>6. \A s \in Streams : DataOf(m, c, s) = 0
  BY <1>3 DEF DataOf
<1>7. p.window = p0.window + GrantOf(m, c)
  <2>1. GrantOf(m, c) = n
    BY <1>2, <1>3 DEF GrantOf
  <2>2. w0 + n = IF kind = "adjust" THEN w ELSE w0
    BY <1>2, <1>4
  <2> QED
    BY <1>4, <1>5, <2>1, <2>2, Zenon
<1>8. p0.grant = p.grant + (DataOf(m, c, 0) + DataOf(m, c, 1))
  <2>1. DataOf(m, c, 0) + DataOf(m, c, 1) = 0
    BY <1>6 DEF Streams
  <2>2. p0.grant \in Nat
    BY DEF Peer
  <2> QED
    BY <1>5, <2>1, <2>2
<1>9. \A s \in Streams : p.sent[s] = p0.sent[s] + DataOf(m, c, s)
  <2> TAKE s \in Streams
  <2>1. p0.sent[s] \in Int
    BY DEF Peer, Counts
  <2> QED
    BY <1>5, <1>6, <2>1
<1>10. Sent(m, c, p0, p)
  BY <1>5, <1>7, <1>8, <1>9 DEF Sent
<1> QED
  BY <1>3, <1>5, <1>10

\* The peer's control packets keep the invariant.
LEMMA PeerSaysStep ==
    ASSUME IInv, NEW c \in Chans,
           NEW kind \in {"eof", "close", "adjust", "request", "disconnect"},
           \/ PeerSays(kind, c)
           \/ kind = "close" /\ PeerAnswersClose(c)
    PROVE  IInv'
<1>1. PICK p0 \in Peer : p0 = peer[c]
  BY DEF IInv, Types
<1>2. PICK m, p : /\ m = Packet(kind, c, 0, IF kind = "adjust" THEN PacketSize ELSE 0)
                  /\ p = Said(p0, kind)
  OBVIOUS
<1>3. /\ UNCHANGED <<ch, brigade, net, pend, add, call, app>>
      /\ inbound' = Append(inbound, m)
      /\ peer' = [peer EXCEPT ![c] = p]
  <2>1. CASE PeerSays(kind, c)
    BY <1>1, <1>2, <2>1, Zenon DEF PeerSays, PeerSends
  <2>2. CASE kind = "close" /\ PeerAnswersClose(c)
    <3>1. m = Packet("close", c, 0, 0) /\ p = Said(p0, "close")
      BY <1>2, <2>2
    <3> QED
      BY <1>1, <2>2, <3>1, Zenon DEF PeerAnswersClose
  <2> QED
    BY <2>1, <2>2
<1>4. m \in Message /\ m.c = c /\ p \in Peer /\ Sent(m, c, p0, p)
  BY <1>2, SaidSent
<1> QED
  BY <1>1, <1>3, <1>4, PeerStep

\* A connection that breaks takes all promises with it.
LEMMA BreakStep ==
    ASSUME IInv, ConnectionBreaks
    PROVE  IInv'
<1>1. /\ net = "up" /\ net' = "broken"
      /\ UNCHANGED <<ch, brigade, inbound, pend, add, call, peer, app>>
  BY DEF ConnectionBreaks
<1>2. Types'
  BY <1>1 DEF IInv, Types
<1>3. CallInv'
  BY <1>1 DEF IInv, CallInv
<1>4. ChannelInv'
  <2> SUFFICES ASSUME NEW d \in Chans
               PROVE  /\ LocalOK(ch[d], peer[d], Granted(inbound, d))
                      /\ RemoteOK(ch[d], peer[d], app[d], Flying(inbound, d, 0) + Flying(inbound, d, 1), "broken")
                      /\ CloseOK(ch[d], peer[d])
                      /\ HeldBy(d, ch[d], call)
    BY <1>1, Zenon DEF ChannelInv
  <2>1. /\ LocalOK(ch[d], peer[d], Granted(inbound, d))
        /\ RemoteOK(ch[d], peer[d], app[d], Flying(inbound, d, 0) + Flying(inbound, d, 1), "up")
        /\ CloseOK(ch[d], peer[d])
        /\ HeldBy(d, ch[d], call)
    BY <1>1 DEF IInv, ChannelInv
  <2>2. PICK r, p, y, f : r = ch[d] /\ p = peer[d] /\ y = app[d] /\ f = Flying(inbound, d, 0) + Flying(inbound, d, 1)
    OBVIOUS
  <2>3. RemoteOK(r, p, y, f, "up")
    BY <2>1, <2>2, Zenon
  <2>4. RemoteOK(r, p, y, f, "broken")
    BY <2>3 DEF RemoteOK
  <2> QED
    BY <2>1, <2>2, <2>4, Zenon
<1>5. BytesInv'
  BY <1>1, Zenon DEF IInv, BytesInv, Known, InBuffer
<1> QED
  BY <1>2, <1>3, <1>4, <1>5 DEF IInv

-----------------------------------------------------------------------------
(***************************************************************************)
(* The invariant holds.                                                    *)
(***************************************************************************)
LEMMA InitInv == Init => IInv
<1> SUFFICES ASSUME Init PROVE IInv
  OBVIOUS
<1>1. /\ brigade = <<>> /\ inbound = <<>> /\ net = "up" /\ pend = NoPacket /\ add = NoAnswer
      /\ call = Idle
      /\ ch = [c \in Chans |-> NewChannel]
  BY DEF Init
<1>2. PICK w \in Nat, l \in Nat : w = Window /\ l = PacketSize
  BY ChannelAssumption
<1>3. PICK r : r = NewChannel
  OBVIOUS
<1>4. r \in Channel
  BY <1>2, <1>3 DEF NewChannel, Channel, Modes
<1>5. /\ r.live = TRUE /\ r.lwin = l /\ r.lclose = FALSE /\ r.rwin = w /\ r.mode = "normal"
      /\ r.adjusting = FALSE /\ r.slipped = 0 /\ r.writing = "idle" /\ r.closing = "idle"
  BY <1>2, <1>3 DEF NewChannel
<1>6. PICK p : p = [window |-> PacketSize, grant |-> Window, sent |-> Zero, got |-> 0,
                    eof |-> FALSE, close |-> FALSE, eofs |-> 0, closes |-> 0, refused |-> {}]
  OBVIOUS
<1>7. p \in Peer
  BY <1>2, <1>6, ZeroCounts DEF Peer
<1>8. p.window = l /\ p.grant = w /\ p.sent = Zero /\ p.closes = 0 /\ p.refused = {}
  BY <1>2, <1>6
<1>9. PICK y : y = [read |-> Zero, dropped |-> Zero, lost |-> Zero, ignored |-> 0,
                    wrote |-> 0]
  OBVIOUS
<1>10. /\ y \in Account /\ y.read = Zero /\ y.dropped = Zero /\ y.lost = Zero
       /\ y.ignored = 0
  BY <1>9, ZeroCounts DEF Account, Zero
<1>11. \A c \in Chans : ch[c] = r /\ peer[c] = p /\ app[c] = y
  BY <1>3, <1>6, <1>9 DEF Init
<1>12. Types
  <2>1. ch = [c \in Chans |-> r] /\ peer = [c \in Chans |-> p] /\ app = [c \in Chans |-> y]
    BY <1>3, <1>6, <1>9 DEF Init
  <2>2. ch \in [Chans -> Channel] /\ peer \in [Chans -> Peer] /\ app \in [Chans -> Account]
    BY <1>4, <1>7, <1>10, <2>1
  <2>3. <<>> \in Seq(Piece) /\ <<>> \in Seq(Message)
    OBVIOUS
  <2> QED
    BY <1>1, <2>2, <2>3, IdleCall DEF Types, Pendings
<1>13. CallInv
  BY <1>1 DEF CallInv, Loose
<1>14. \A c \in Chans, s \in Streams :
         Granted(inbound, c) = 0 /\ Flying(inbound, c, s) = 0 /\ Bytes(brigade, c, s) = 0
  <2> TAKE c \in Chans, s \in Streams
  <2>1. Len(<<>>) = 0 /\ 1..0 = {} /\ DOMAIN <<>> = {}
    OBVIOUS
  <2>2. /\ [i \in 1..Len(<<>>) |-> DataOf(<<>>[i], c, s)] = <<>>
        /\ [i \in 1..Len(<<>>) |-> GrantOf(<<>>[i], c)] = <<>>
    BY <2>1
  <2>3. [i \in DOMAIN <<>> |-> IF <<>>[i].c = c /\ <<>>[i].s = s THEN <<>>[i].len ELSE 0] = <<>>
    BY <2>1
  <2> QED
    BY <1>1, <2>2, <2>3, TotalEmpty, Zenon DEF Granted, Flying, Bytes
<1>15. ChannelInv
  <2> SUFFICES ASSUME NEW d \in Chans
               PROVE  /\ LocalOK(ch[d], peer[d], Granted(inbound, d))
                      /\ RemoteOK(ch[d], peer[d], app[d], Flying(inbound, d, 0) + Flying(inbound, d, 1), net)
                      /\ CloseOK(ch[d], peer[d])
                      /\ HeldBy(d, ch[d], call)
    BY DEF ChannelInv
  <2>1. Granted(inbound, d) = 0 /\ Flying(inbound, d, 0) = 0 /\ Flying(inbound, d, 1) = 0
    BY <1>14 DEF Streams
  <2>2. 0 + 0 = 0
    OBVIOUS
  <2>3. LocalOK(r, p, 0)
    BY <1>5, <1>8 DEF LocalOK
  <2>4. RemoteOK(r, p, y, 0, "up")
    BY <1>5, <1>8, <1>10 DEF RemoteOK
  <2>5. CloseOK(r, p) /\ HeldBy(d, r, call)
    BY <1>5, <1>8 DEF CloseOK, HeldBy
  <2> QED
    BY <1>1, <1>11, <2>1, <2>2, <2>3, <2>4, <2>5, Zenon
<1>16. BytesInv
  <2> SUFFICES ASSUME NEW d \in Chans, NEW s \in Streams
               PROVE  peer[d].sent[s] = Known(d, s) + InBuffer(d, s)
    BY DEF BytesInv
  <2>1. InBuffer(d, s) = 0 /\ p.sent[s] = 0 /\ y.read[s] = 0 /\ y.dropped[s] = 0 /\ y.lost[s] = 0
    BY <1>1, <1>8, <1>10, IdleCall DEF InBuffer, Zero
  <2>2. Known(d, s) = 0 + 0 + 0 + 0 + 0
    BY <1>11, <1>14, <2>1, Zenon DEF Known
  <2>3. (0 + 0 + 0 + 0 + 0) + 0 = 0
    OBVIOUS
  <2> QED
    BY <1>11, <2>1, <2>2, <2>3, Zenon
<1> QED
  BY <1>12, <1>13, <1>15, <1>16 DEF IInv

\* Every step of the library keeps the invariant.
LEMMA LibraryStep ==
    ASSUME IInv, Library
    PROVE  IInv'
<1>1. CASE WaitEof
  <2>1. CASE ch[call.c].reof
    <3>1. call.op \in {"waitEof", "waitClosed"} /\ Return /\ UNCHANGED <<session, app>>
      BY <1>1, <2>1 DEF WaitEof, Running
    <3> QED
      BY <3>1, WaitReturns
  <2> QED
    BY <1>1, <2>1, WaitEofStep
<1>2. CASE WaitClosed
  <2>1. call.op = "waitClosed"
    BY <1>2 DEF WaitClosed
  <2>2. CASE Return /\ UNCHANGED <<session, app>>
    <3>1. call.op \in {"waitEof", "waitClosed"} /\ Return /\ UNCHANGED <<session, app>>
      BY <2>1, <2>2
    <3> QED
      BY <3>1, WaitReturns
  <2>3. CASE ~(Return /\ UNCHANGED <<session, app>>)
    <3>1. PICK rc \in Rcs : /\ TransportRead(rc)
                            /\ CASE rc = "packet" -> Goto("loop")
                                 [] rc = "EAGAIN" -> Again
                                 [] OTHER -> Return
      BY <1>2, <2>3, Zenon DEF WaitClosed
    <3>2. TransportRead(rc)
      BY <3>1, Zenon
    <3>3. (CASE rc = "packet" -> Goto("loop")
             [] rc = "EAGAIN" -> Again
             [] OTHER -> Return)
      BY <3>1, Zenon
    <3> QED
      BY <2>1, <3>2, <3>3, WaitClosedStep, Zenon
  <2> QED
    BY <2>2, <2>3
<1>3. CASE CloseAwaits
  <2>1. call.op \in {"close", "free"} /\ call.at = "await" /\ call.op # "none"
    BY <1>3 DEF CloseAwaits, Closes
  <2>2. CASE Goto("closed") /\ UNCHANGED <<session, app>>
    <3>1. ch[call.c].closing = "sent"
      BY <2>1, Executes DEF PlaceOK
    <3>2. PICK z \in {"send", "await", "closed", "cleanup"} : z = "closed"
      OBVIOUS
    <3>3. /\ Goto(z) /\ UNCHANGED <<session, app>>
          /\ z = "send" => ~ch[call.c].lclose /\ ch[call.c].closing # "sent" /\ call.at = "enter"
          /\ z \in {"await", "closed"} => ch[call.c].closing = "sent"
          /\ z = "cleanup" => net # "up" \/ ch[call.c].lclose
      BY <2>2, <3>1, <3>2
    <3> QED
      BY <2>1, <3>3, CloseMoves, Zenon
  <2>3. CASE ~(Goto("closed") /\ UNCHANGED <<session, app>>)
    <3>1. PICK rc \in Rcs : /\ TransportRead(rc)
                            /\ CASE rc = "EAGAIN" -> Again
                                 [] rc = "zero" -> UNCHANGED call
                                 [] rc = "packet" -> Goto("closed")
                                 [] OTHER -> Goto("closedFail")
      BY <1>3, <2>3, Zenon DEF CloseAwaits
    <3>2. TransportRead(rc)
      BY <3>1, Zenon
    <3>3. (CASE rc = "EAGAIN" -> Again
             [] rc = "zero" -> UNCHANGED call
             [] rc = "packet" -> Goto("closed")
             [] OTHER -> Goto("closedFail"))
      BY <3>1, Zenon
    <3> QED
      BY <2>1, <3>2, <3>3, CloseAwaitsStep, Zenon
  <2> QED
    BY <2>2, <2>3
<1>4. CASE Wake \/ ReadEnters \/ ReadCopies \/ ReadAdjusts
  BY <1>4, WakeStep, ReadEntersStep, ReadCopiesStep, ReadAdjustsStep, Zenon
<1>5. CASE WriteEnters \/ WriteDrains \/ WriteSplits \/ WriteSends
  BY <1>5, WriteEntersStep, WriteDrainsStep, WriteSplitsStep, WriteSendsStep, Zenon
<1>6. CASE FlushEnters \/ FlushRefunds \/ WindowAdjusts \/ ExtendedData \/ SendEof
  BY <1>6, FlushEntersStep, FlushRefundsStep, WindowAdjustsStep, ExtendedDataStep, SendEofStep, Zenon
<1>7. CASE CloseEnters \/ CloseSends \/ CloseEnds \/ FreeCleans
  BY <1>7, CloseEntersStep, CloseSendsStep, CloseEndsStep, FreeCleansStep, Zenon
<1> QED
  BY <1>1, <1>2, <1>3, <1>4, <1>5, <1>6, <1>7, Zenon DEF Library

\* A stuttering step keeps the invariant.
LEMMA StutterStep ==
    ASSUME IInv, UNCHANGED vars
    PROVE  IInv'
<1>1. UNCHANGED <<ch, brigade, inbound, net, pend, add, call, peer, app>>
  BY DEF vars
<1>2. Types'
  BY <1>1 DEF IInv, Types
<1>3. CallInv'
  BY <1>1 DEF IInv, CallInv
<1>4. ChannelInv'
  BY <1>1, Zenon DEF IInv, ChannelInv
<1>5. BytesInv'
  BY <1>1, Zenon DEF IInv, BytesInv, Known, InBuffer
<1> QED
  BY <1>2, <1>3, <1>4, <1>5 DEF IInv

\* Every step keeps the invariant.
LEMMA NextStep ==
    ASSUME IInv, [Next]_vars
    PROVE  IInv'
<1>1. CASE \E c \in Chans, o \in Ops : Call(o[1], c, o[2])
  BY <1>1, CallStep, Zenon
<1>2. CASE Library
  BY <1>2, LibraryStep
<1>3. CASE \E c \in Chans, s \in Streams, n \in Lens : PeerData(c, s, n)
  BY <1>3, PeerDataStep, Zenon
<1>4. CASE \E c \in Chans, kind \in {"eof", "close", "adjust", "request", "disconnect"} :
             PeerSays(kind, c)
  BY <1>4, PeerSaysStep, Zenon
<1>5. CASE \E c \in Chans : PeerAnswersClose(c)
  <2>1. PICK c \in Chans : PeerAnswersClose(c)
    BY <1>5, Zenon
  <2>2. PICK kind \in {"eof", "close", "adjust", "request", "disconnect"} : kind = "close"
    OBVIOUS
  <2> QED
    BY <2>1, <2>2, PeerSaysStep, Zenon
<1>6. CASE ConnectionBreaks
  BY <1>6, BreakStep
<1>7. CASE UNCHANGED vars
  BY <1>7, StutterStep
<1> QED
  BY <1>1, <1>2, <1>3, <1>4, <1>5, <1>6, <1>7, Zenon DEF Next

\* The invariant holds, whichever packets block, adjustments of the window and replies to the
\* requests of the other end among them.
THEOREM InvariantHolds == Spec => []IInv
<1>1. IInv /\ [Next]_vars => IInv'
  BY NextStep
<1> QED
  BY <1>1, InitInv, PTL DEF Spec

\* The data in flight as the model counts it and as the invariant does.
LEMMA InFlightIsFlying ==
    ASSUME IInv
    PROVE  \A c \in Chans, s \in Streams : InFlight(c, s) = Flying(inbound, c, s)
<1> TAKE c \in Chans, s \in Streams
<1>1. DOMAIN inbound = 1..Len(inbound)
  BY DEF IInv, Types
<1> QED
  BY <1>1, Zenon DEF InFlight, Flying, DataOf

\* The invariant has the protocol kept.
LEMMA InvWire == IInv => WireDiscipline
<1> SUFFICES ASSUME IInv, NEW c \in Chans
             PROVE  /\ peer[c].window >= 0
                    /\ peer[c].closes <= 1
                    /\ ch[c].writing = "created" => peer[c].closes = 0
                    /\ net = "up" => peer[c].refused \subseteq {"adjust", "failure"}
  BY DEF WireDiscipline
<1>1. PICK r \in Channel, p \in Peer : r = ch[c] /\ p = peer[c]
  BY DEF IInv, Types
<1>2. PICK g \in Nat : g = Granted(inbound, c)
  BY GrantedSteps DEF IInv, Types
<1>3. PICK f : f = Flying(inbound, c, 0) + Flying(inbound, c, 1)
  OBVIOUS
<1>4. LocalOK(r, p, g) /\ RemoteOK(r, p, app[c], f, net) /\ CloseOK(r, p) /\ HeldBy(c, r, call)
  BY <1>1, <1>2, <1>3 DEF IInv, ChannelInv
<1>5. p.window >= 0
  <2>1. r.lwin \in Nat /\ p.window \in Int /\ r.lwin + g <= p.window
    BY <1>4 DEF LocalOK, Channel, Peer
  <2> QED
    BY <2>1
<1>6. p.closes <= 1 /\ p.closes \in Nat
  BY <1>4 DEF CloseOK, Peer
<1>7. r.writing = "created" => p.closes = 0
  <2> SUFFICES ASSUME r.writing = "created", p.closes # 0 PROVE FALSE
    OBVIOUS
  <2>1. p.closes = 1
    BY <1>6
  <2>2. r.closing = "sent" /\ ~r.lclose
    BY <1>4, <2>1 DEF CloseOK
  <2>3. call.op = "write" /\ call.c = c
    BY <1>4 DEF HeldBy
  <2>4. call.op # "none"
    BY <2>3
  <2>5. r.live
    BY <1>1, <2>3, <2>4, Executes DEF PlaceOK
  <2> QED
    BY <1>4, <2>2, <2>3, <2>5 DEF HeldBy
<1>8. net = "up" => p.refused \subseteq {"adjust", "failure"}
  BY <1>4 DEF RemoteOK
<1> QED
  BY <1>1, <1>5, <1>6, <1>7, <1>8

\* However often a blocked call is repeated, and whatever the other end sends meanwhile, the
\* other end's window is not overrun, a close is sent at most once and no data after it, and
\* no half-sent data, end of file or close is in the way of another packet
\* (_libssh2_channel_write, channel_close, _libssh2_transport_write).  Every packet may block,
\* window adjustments and failure replies included.
THEOREM WireKeepsProtocol == Spec => []WireDiscipline
  BY InvariantHolds, InvWire, PTL

\* A regrouping of sums the solver does not find in context.
LEMMA Reorder ==
    \A f, u, v, w, l, z \in Int : (f + u + v + w + l) + z = f + u + z + v + w + l
  OBVIOUS

\* The invariant has every byte accounted for.
LEMMA InvBytes == IInv => NothingLost
<1> SUFFICES ASSUME IInv, NEW c \in Chans, NEW s \in Streams
             PROVE  /\ peer[c].sent[s] = InFlight(c, s) + Bytes(brigade, c, s) + InBuffer(c, s)
                                         + app[c].read[s] + app[c].dropped[s] + app[c].lost[s]
                    /\ app[c].lost[s] # 0 => ch[c].stalled
  BY DEF NothingLost
<1>1. PICK f \in Int : f = Flying(inbound, c, s) /\ f = InFlight(c, s)
  <2>1. inbound \in Seq(Message)
    BY DEF IInv, Types
  <2>2. Flying(inbound, c, s) \in Int
    BY <2>1, FlyingSteps
  <2> QED
    BY <2>2, InFlightIsFlying
<1>2. PICK u \in Int : u = Bytes(brigade, c, s)
  <2>1. brigade \in Seq(Piece)
    BY DEF IInv, Types
  <2> QED
    BY <2>1, BytesSteps
<1>3. PICK v \in Int, w \in Int, l \in Int :
        v = app[c].read[s] /\ w = app[c].dropped[s] /\ l = app[c].lost[s]
  <2>1. app[c] \in Account
    BY DEF IInv, Types
  <2> QED
    BY <2>1 DEF Account, Counts
<1>4. PICK z \in Int : z = InBuffer(c, s)
  <2>1. call \in Execution
    BY DEF IInv, Types
  <2> QED
    BY <2>1 DEF InBuffer, Execution, Counts
<1>5. peer[c].sent[s] = (f + u + v + w + l) + z
  <2>1. peer[c].sent[s] = Known(c, s) + InBuffer(c, s)
    BY DEF IInv, BytesInv
  <2> QED
    BY <1>1, <1>2, <1>3, <1>4, <2>1, Zenon DEF Known
<1>6. (f + u + v + w + l) + z = f + u + z + v + w + l
  BY Reorder
<1>7. app[c].lost[s] # 0 => ch[c].stalled
  <2>1. PICK r, p, y, n : /\ r = ch[c] /\ p = peer[c] /\ y = app[c]
                          /\ n = Flying(inbound, c, 0) + Flying(inbound, c, 1)
    OBVIOUS
  <2>2. RemoteOK(r, p, y, n, net)
    BY <2>1, Zenon DEF IInv, ChannelInv
  <2>3. y.lost # Zero => r.stalled
    BY <2>2 DEF RemoteOK
  <2>4. y.lost[s] # 0 => y.lost # Zero
    BY DEF Zero
  <2> QED
    BY <2>1, <2>3, <2>4, Zenon
<1> QED
  BY <1>1, <1>2, <1>3, <1>4, <1>5, <1>6, <1>7, Zenon

\* Every byte the other end has sent is on its way, in the brigade, in the buffer of a
\* read, with the application, given away by a flush, an ignored stream or a free, or lost;
\* and none is lost, cut off by the window or forgotten when a read is repeated, on a channel
\* no adjustment of whose window ever failed to be sent (_libssh2_packet_add,
\* _libssh2_channel_read, _libssh2_channel_flush).
THEOREM NoByteIsLost == Spec => []NothingLost
  BY InvariantHolds, InvBytes, PTL

\* The invariant has the window equal to what was granted.
LEMMA InvWindow == IInv => WindowIsGrant
<1> SUFFICES ASSUME IInv, NEW c \in Chans, ch[c].live
             PROVE  /\ ch[c].rwin + ch[c].slipped
                         = peer[c].grant + InFlight(c, 0) + InFlight(c, 1) + app[c].ignored
                    /\ ch[c].slipped # 0 => ch[c].stalled
  BY DEF WindowIsGrant
<1>1. 0 \in Streams /\ 1 \in Streams
  BY DEF Streams
<1>2. PICK f \in Int, h \in Int :
        /\ f = Flying(inbound, c, 0) /\ f = InFlight(c, 0)
        /\ h = Flying(inbound, c, 1) /\ h = InFlight(c, 1)
  <2>1. inbound \in Seq(Message)
    BY DEF IInv, Types
  <2>2. Flying(inbound, c, 0) \in Int /\ Flying(inbound, c, 1) \in Int
    BY <1>1, <2>1, FlyingSteps
  <2> QED
    BY <1>1, <2>2, InFlightIsFlying
<1>3. PICK g \in Int : g = peer[c].grant
  <2>1. peer[c] \in Peer
    BY DEF IInv, Types
  <2> QED
    BY <2>1 DEF Peer
<1>4. /\ ch[c].rwin + ch[c].slipped
            = peer[c].grant + (Flying(inbound, c, 0) + Flying(inbound, c, 1)) + app[c].ignored
      /\ ch[c].slipped # 0 => ch[c].stalled
  <2>1. PICK r, p, y, n : /\ r = ch[c] /\ p = peer[c] /\ y = app[c]
                          /\ n = Flying(inbound, c, 0) + Flying(inbound, c, 1)
    OBVIOUS
  <2>2. RemoteOK(r, p, y, n, net)
    BY <2>1, Zenon DEF IInv, ChannelInv
  <2>3. r.rwin + r.slipped = p.grant + n + y.ignored /\ (r.slipped # 0 => r.stalled)
    BY <2>1, <2>2 DEF RemoteOK
  <2> QED
    BY <2>1, <2>3, Zenon
<1>5. PICK i \in Int : i = app[c].ignored
  <2>1. app[c] \in Account
    BY DEF IInv, Types
  <2> QED
    BY <2>1 DEF Account
<1>6. g + (f + h) + i = g + f + h + i
  OBVIOUS
<1> QED
  BY <1>2, <1>3, <1>4, <1>5, <1>6, Zenon

\* The window of a live channel is exactly what the other end may still send and what is on
\* its way, and the bytes of ignored data that were granted twice; it has slipped from that
\* only on a channel an adjustment of whose window once failed to be sent
\* (_libssh2_channel_receive_window_adjust, _libssh2_packet_add).
THEOREM WindowAgrees == Spec => []WindowIsGrant
  BY InvariantHolds, InvWindow, PTL

-----------------------------------------------------------------------------
(***************************************************************************)
(* What a read returns.                                                    *)
(***************************************************************************)
\* Naturals whose sum is nothing are nothing.
LEMMA NothingTotals ==
    ASSUME NEW w \in Seq(Nat), Total(w) = 0
    PROVE  \A i \in 1..Len(w) : w[i] = 0
<1> DEFINE n == Len(w)
           f == Sums(w)
           S == {i \in 0..n : f[i] \in Nat}
           T == {k \in 0..n : f[n - k] = 0}
<1>1. Adds(f, w, n) /\ n \in Nat
  BY SumsAdd
<1>2. f[n] = 0
  BY DEF Total
<1>3. \A i \in 1..n : w[i] \in Nat
  OBVIOUS
<1> HIDE DEF f, n
<1>4. 0..n \subseteq S
  <2>1. 0 \in S
    BY <1>1 DEF Adds
  <2>2. ASSUME NEW i \in 0..(n - 1), i \in S PROVE i + 1 \in S
    <3>1. i + 1 \in 1..n /\ (i + 1) - 1 = i
      BY <1>1
    <3>2. f[i + 1] = f[i] + w[i + 1] /\ w[i + 1] \in Nat /\ f[i] \in Nat
      BY <1>1, <1>3, <2>2, <3>1 DEF Adds
    <3> QED
      BY <3>1, <3>2
  <2> HIDE DEF S
  <2> QED
    BY <1>1, <2>1, <2>2, InductionUpTo
<1>5. \A i \in 1..n : f[i] = f[i - 1] + w[i] /\ f[i - 1] \in Nat /\ w[i] \in Nat
  <2> TAKE i \in 1..n
  <2>1. i - 1 \in 0..n
    BY <1>1
  <2> QED
    BY <1>1, <1>3, <1>4, <2>1 DEF Adds
<1> HIDE DEF S
<1>6. 0..n \subseteq T
  <2>1. 0 \in T
    BY <1>1, <1>2
  <2>2. ASSUME NEW k \in 0..(n - 1), k \in T PROVE k + 1 \in T
    <3>1. n - k \in 1..n /\ n - (k + 1) = (n - k) - 1 /\ k + 1 \in 0..n
      BY <1>1
    <3>2. f[n - k] = 0
      BY <2>2
    <3>3. f[(n - k) - 1] = 0
      BY <1>5, <3>1, <3>2
    <3> QED
      BY <3>1, <3>3
  <2> HIDE DEF T
  <2> QED
    BY <1>1, <2>1, <2>2, InductionUpTo
<1>7. ASSUME NEW i \in 1..n PROVE w[i] = 0
  <2>1. n - i \in 0..n /\ n - (n - i) = i
    BY <1>1
  <2>2. f[i] = 0
    BY <1>6, <2>1
  <2>3. PICK a \in Nat, b \in Nat : a = f[i - 1] /\ b = w[i] /\ f[i] = a + b
    BY <1>5
  <2>4. a + b = 0 => b = 0
    BY <2>3
  <2> QED
    BY <2>2, <2>3, <2>4, Zenon
<1> QED
  BY <1>7 DEF n

\* A read that finds nothing to take, though it wants some, leaves nothing of its stream.
LEMMA TakesNothing ==
    ASSUME NEW q \in Seq(Piece), brigade = q, NEW c \in Chans, NEW s \in Streams,
           NEW want \in Nat, want > 0, PerStream(Taken(c, s, want)) = Zero
    PROVE  Bytes(q, c, s) = 0
<1> DEFINE M(i) == Matches(c, s, q[i])
           size == [i \in 1..Len(q) |-> IF M(i) THEN q[i].len ELSE 0]
           before == Sums(size)
           least(a, b) == IF a < b THEN a ELSE b
           t == [i \in 1..Len(q) |->
                    IF before[i - 1] >= want THEN 0 ELSE least(size[i], want - before[i - 1])]
           w(z) == [i \in 1..Len(q) |-> IF q[i].s = z THEN t[i] ELSE 0]
           T == {i \in 0..Len(q) : before[i] = 0}
<1>1. DOMAIN q = 1..Len(q) /\ Len(q) \in Nat
  OBVIOUS
<1>2. Taken(c, s, want) = t
  BY <1>1, Zenon DEF Taken
<1>3. \A i \in 1..Len(q) : q[i].len \in Nat /\ q[i].s \in Streams
  <2>1. \A i \in 1..Len(q) : q[i] \in Piece
    OBVIOUS
  <2> QED
    BY <2>1 DEF Piece
<1>4. \A i \in 1..Len(q) : q[i].c = c /\ q[i].s = s => M(i)
  BY DEF Matches
<1> HIDE DEF M
<1>5. size \in Seq(Int) /\ Len(size) = Len(q)
  BY <1>3
<1>6. \A i \in 1..Len(q) : size[i] \in Nat /\ (M(i) => size[i] = q[i].len)
  BY <1>3
<1> HIDE DEF size
<1>7. Adds(before, size, Len(q))
  BY <1>5, SumsAdd
<1> HIDE DEF before
<1>8. \A i \in 1..Len(q) :
        t[i] = IF before[i - 1] >= want THEN 0 ELSE least(size[i], want - before[i - 1])
  OBVIOUS
<1>9. \A i \in 1..Len(q) : t[i] \in Nat
  <2>1. t \in PartsOf(q, c)
    BY <1>2, TakenParts
  <2> HIDE DEF t
  <2> QED
    BY <2>1 DEF PartsOf, Parts
<1> HIDE DEF t
<1>10. PerStream(t) = [z \in Streams |-> Total(w(z))]
  BY <1>1, Zenon DEF PerStream
<1>11. \A z \in Streams : Total(w(z)) = 0
  BY <1>2, <1>10 DEF Zero
<1>12. \A z : w(z) \in Seq(Nat) /\ Len(w(z)) = Len(q)
  BY <1>9
<1>13. ASSUME NEW i \in 1..Len(q) PROVE t[i] = 0
  <2>1. PICK z \in Streams : z = q[i].s
    BY <1>3
  <2>2. w(z)[i] = t[i]
    BY <2>1
  <2> HIDE DEF w
  <2>3. w(z)[i] = 0
    BY <1>11, <1>12, NothingTotals
  <2> QED
    BY <2>2, <2>3
<1>14. 0..Len(q) \subseteq T
  <2>1. 0 \in T
    BY <1>1, <1>7 DEF Adds
  <2>2. ASSUME NEW i \in 0..(Len(q) - 1), i \in T PROVE i + 1 \in T
    <3>1. i + 1 \in 1..Len(q) /\ (i + 1) - 1 = i /\ before[i] = 0
      BY <1>1, <2>2
    <3>2. before[i + 1] = before[i] + size[i + 1]
      BY <1>7, <3>1 DEF Adds
    <3>3. least(size[i + 1], want - 0) = 0
      <4>1. t[i + 1] = IF before[i] >= want THEN 0 ELSE least(size[i + 1], want - before[i])
        BY <1>8, <3>1
      <4> QED
        BY <1>13, <3>1, <4>1
    <3>4. size[i + 1] = 0
      BY <1>6, <3>1, <3>3
    <3> QED
      BY <3>1, <3>2, <3>4
  <2> HIDE DEF T
  <2> QED
    BY <1>1, <2>1, <2>2, InductionUpTo
<1>15. \A i \in 1..Len(q) : size[i] = 0
  <2> TAKE i \in 1..Len(q)
  <2>1. i - 1 \in 0..Len(q) /\ i \in 0..Len(q)
    BY <1>1
  <2>2. before[i - 1] = 0 /\ before[i] = 0
    BY <1>14, <2>1
  <2>3. before[i] = before[i - 1] + size[i] /\ size[i] \in Nat
    BY <1>6, <1>7 DEF Adds
  <2> QED
    BY <2>2, <2>3
<1> DEFINE v == [i \in 1..Len(q) |-> IF q[i].c = c /\ q[i].s = s THEN q[i].len ELSE 0]
<1>16. Bytes(q, c, s) = Total(v)
  BY <1>1, Zenon DEF Bytes
<1>17. \A i \in 1..Len(q) : v[i] = 0
  BY <1>4, <1>6, <1>15
<1>18. v \in Seq(Int) /\ Len(v) = Len(q)
  BY <1>3
<1> HIDE DEF v
<1> QED
  BY <1>16, <1>17, <1>18, TotalZero

\* What a packet is to channel c: data of it, or the end of its data.
DataFor(m, c) == m.kind = "data" /\ m.c = c
EndFor(m, c) == m.kind \in {"eof", "close"} /\ m.c = c

\* Once channel c, in state r, has read an end of file or a close, or one is on its way in
\* the queue q, its peer p has said that it sends no more, and no data is on its way, behind
\* that.
EndOK(r, p, q, c) ==
    /\ r.reof \/ r.rclose => p.eof /\ \A i \in 1..Len(q) : ~DataFor(q[i], c)
    /\ \A i \in 1..Len(q) : EndFor(q[i], c) => p.eof /\ \A j \in i..Len(q) : ~DataFor(q[j], c)

EndInv == \A c \in Chans : EndOK(ch[c], peer[c], inbound, c)

\* A read goes on with the window (jump1) only with bytes in its buffer, or after it has
\* lost bytes because an adjustment of the window could not be sent, and takes the connection
\* for ended only when it is.
ReadInv ==
    /\ \A c \in Chans :
         ch[c].jump1 => \/ call.op = "read" /\ call.c = c /\ call.at = "adjust" /\ call.n # Zero
                        \/ ch[c].stalled /\ app[c].lost # Zero
    /\ call.op = "read" /\ call.at = "adjust" => ch[call.c].jump1
    /\ call.op = "read" /\ call.at = "zero" => net # "up"

\* How a channel changes from a to b without a read, or an end.
Follows(a, b) ==
    /\ b.jump1 = a.jump1 /\ (a.stalled => b.stalled)
    /\ b.reof \/ b.rclose => a.reof \/ a.rclose

\* A step that leaves the reads alone, and one that leaves the ends alone.
SameReads ==
    \A d \in Chans :
        /\ ch'[d].jump1 = ch[d].jump1 /\ (ch[d].stalled => ch'[d].stalled)
        /\ app[d].lost # Zero => app'[d].lost # Zero

SameEnds ==
    /\ inbound' = inbound
    /\ \A d \in Chans :
         /\ ch'[d].reof \/ ch'[d].rclose => ch[d].reof \/ ch[d].rclose
         /\ peer'[d].eof = peer[d].eof

Following == \A d \in Chans : Follows(ch[d], ch'[d])
SaysNothing == \A d \in Chans : peer'[d].eof = peer[d].eof
FindsNothing == \A d \in Chans : app'[d].lost = app[d].lost

\* Such steps, by what they do to channels, peers and accounts.
LEMMA LeavesAlone ==
    ASSUME Following, SaysNothing, FindsNothing, inbound' = inbound
    PROVE  SameReads /\ SameEnds
  BY DEF Following, SaysNothing, FindsNothing, Follows, SameReads, SameEnds

\* One channel follows.
LEMMA OneFollows ==
    ASSUME Types, NEW c \in Chans, NEW r, ch' = [ch EXCEPT ![c] = r], Follows(ch[c], r)
    PROVE  Following
<1>1. ch \in [Chans -> Channel]
  BY DEF Types
<1>2. \A d \in Chans : ch'[d] = IF d = c THEN r ELSE ch[d]
  BY <1>1
<1> QED
  BY <1>2 DEF Following, Follows

\* A channel that stays as it is follows.
LEMMA StaysFollowing == UNCHANGED ch => Following
  BY DEF Following, Follows

\* A window adjustment follows.
LEMMA AdjustedFollows ==
    ASSUME Types, NEW c \in Chans, NEW n \in Nat, NEW force \in BOOLEAN, NEW rc
    PROVE  Adjusted(c, n, force, rc) \in Channel /\ Follows(ch[c], Adjusted(c, n, force, rc))
<1>1. PICK r : r = Adjusted(c, n, force, rc)
  OBVIOUS
<1>2. r \in Channel /\ SameBut(ch[c], r) /\ (ch[c].stalled => r.stalled)
  BY <1>1, AdjustedChannel
<1> QED
  BY <1>1, <1>2 DEF SameBut, Follows

\* A write leaves what the other end has said.
LEMMA SendSays ==
    ASSUME Types, NEW kind, NEW c \in Chans, NEW n, NEW rc, Send(kind, c, n, rc)
    PROVE  SaysNothing
<1>1. peer \in [Chans -> Peer]
  BY DEF Types
<1>2. PICK p \in Peer : p = peer[c]
  BY <1>1
<1>3. CASE UNCHANGED peer
  BY <1>3 DEF SaysNothing
<1>4. CASE peer' = [peer EXCEPT ![c].refused = @ \cup {pend[1]}]
  BY <1>1, <1>4 DEF SaysNothing, Peer
<1>5. CASE peer' = [peer EXCEPT ![c] = Received(@, kind, n)]
  <2>1. PICK y : y = Received(p, kind, n)
    OBVIOUS
  <2>2. y.eof = p.eof
    <3>1. PICK g, v, w, e, z : g = p.grant + n /\ v = p.got + n /\ w = p.window - n
                               /\ e = p.eofs + 1 /\ z = p.closes + 1
      OBVIOUS
    <3>2. \/ y = [p EXCEPT !.grant = g]
          \/ y = [p EXCEPT !.got = v, !.window = w]
          \/ y = [p EXCEPT !.eofs = e]
          \/ y = [p EXCEPT !.closes = z]
          \/ y = p
      BY <2>1, <3>1 DEF Received
    <3> QED
      BY <3>2 DEF Peer
  <2>3. peer' = [peer EXCEPT ![c] = y]
    BY <1>2, <1>5, <2>1, Zenon
  <2> QED
    BY <1>1, <1>2, <2>2, <2>3 DEF SaysNothing
<1> QED
  BY <1>3, <1>4, <1>5, Zenon DEF Send

\* So does a window adjustment.
LEMMA AdjustSays ==
    ASSUME Types, NEW c \in Chans, NEW n, NEW force, NEW rc, Adjust(c, n, force, rc)
    PROVE  SaysNothing
<1>1. CASE \E z : Send("adjust", c, z, rc)
  BY <1>1, SendSays
<1>2. CASE UNCHANGED peer
  BY <1>2 DEF SaysNothing
<1> QED
  BY <1>1, <1>2, Zenon DEF Adjust

\* The answer to a packet leaves the ends alone.
LEMMA AnswerFollows ==
    ASSUME Types, NEW m \in Message, NEW rc, Answer(m, rc)
    PROVE  Following /\ SaysNothing
<1>1. PICK c \in Chans : c = m.c
  BY DEF Message
<1>2. PICK w \in {"NONE", "EAGAIN", "FAIL"} :
        \/ /\ Adjust(c, m.n, FALSE, w)
           /\ ch' = [ch EXCEPT ![c] = Adjusted(c, m.n, FALSE, w)]
        \/ Send("failure", c, 0, w) /\ UNCHANGED ch
  BY <1>1, Zenon DEF Answer
<1>3. CASE /\ Adjust(c, m.n, FALSE, w)
           /\ ch' = [ch EXCEPT ![c] = Adjusted(c, m.n, FALSE, w)]
  <2>1. PICK n \in Nat, force \in BOOLEAN : n = m.n /\ force = FALSE
    BY DEF Message
  <2>2. PICK r : r = Adjusted(c, n, force, w)
    OBVIOUS
  <2>3. Follows(ch[c], r)
    BY <2>2, AdjustedFollows
  <2>4. ch' = [ch EXCEPT ![c] = r]
    BY <1>3, <2>1, <2>2
  <2>5. Adjust(c, n, force, w)
    BY <1>3, <2>1
  <2> QED
    BY <2>3, <2>4, <2>5, OneFollows, AdjustSays
<1>4. CASE Send("failure", c, 0, w) /\ UNCHANGED ch
  BY <1>4, SendSays, StaysFollowing
<1> QED
  BY <1>2, <1>3, <1>4

\* A packet that is dealt with ends no channel but by an end of its data.
LEMMA AddEnds ==
    ASSUME Types, NEW m \in Message, NEW rc, PacketAdd(m, rc)
    PROVE  /\ SaysNothing
           /\ \A d \in Chans : ch'[d].reof \/ ch'[d].rclose =>
                                 ch[d].reof \/ ch[d].rclose \/ EndFor(m, d)
<1>1. PICK c \in Chans : c = m.c
  BY DEF Message
<1>2. PICK s \in Channel : s = ch[c]
  BY DEF Types
<1>3. CASE UNCHANGED <<ch, peer>>
  BY <1>3 DEF SaysNothing
<1>4. CASE Answer(m, rc)
  BY <1>4, AnswerFollows DEF Following, Follows
<1>5. CASE UNCHANGED peer /\ KeepData(c, m.s, m.n)
  <2>1. PICK f, g : f = FALSE /\ g = (s.reof /\ s.rwin = 0)
    OBVIOUS
  <2>2. PICK n, z : n = s.rwin - m.n /\ z = s.slipped - m.n
    OBVIOUS
  <2>3. PICK a, b : /\ a = [s EXCEPT !.reof = f, !.rwin = n]
                    /\ b = [s EXCEPT !.reof = g, !.slipped = z]
    OBVIOUS
  <2>4. \/ ch' = [ch EXCEPT ![c].reof = FALSE, ![c].rwin = @ - m.n]
        \/ ch' = [ch EXCEPT ![c].reof = @ /\ s.rwin = 0, ![c].slipped = @ - m.n]
    BY <1>2, <1>5, Zenon DEF KeepData
  <2>5. ch' = [ch EXCEPT ![c] = a] \/ ch' = [ch EXCEPT ![c] = b]
    BY <1>2, <2>1, <2>2, <2>3, <2>4
  <2>6. PICK r : r \in {a, b} /\ ch' = [ch EXCEPT ![c] = r]
    BY <2>5
  <2>7. r.reof \/ r.rclose => s.reof \/ s.rclose
    BY <2>1, <2>3, <2>6 DEF Channel
  <2>8. \A d \in Chans : ch'[d] = IF d = c THEN r ELSE ch[d]
    BY <2>6 DEF Types
  <2> QED
    BY <1>2, <1>5, <2>7, <2>8 DEF SaysNothing
<1>6. CASE UNCHANGED peer /\ m.kind \in {"eof", "close", "adjust"} /\ ch' = [ch EXCEPT ![c] = Told(@, m)]
  <2>1. PICK r : r = Told(s, m)
    OBVIOUS
  <2>2. ch' = [ch EXCEPT ![c] = r]
    BY <1>2, <1>6, <2>1, Zenon
  <2>3. r.reof \/ r.rclose => s.reof \/ s.rclose \/ m.kind \in {"eof", "close"}
    <3>1. CASE m.kind = "adjust"
      <4>1. PICK w : w = s.lwin + m.n
        OBVIOUS
      <4>2. r = [s EXCEPT !.lwin = w]
        BY <2>1, <3>1, <4>1 DEF Told
      <4> QED
        BY <4>2 DEF Channel
    <3> QED
      BY <1>6, <3>1
  <2>4. \A d \in Chans : ch'[d] = IF d = c THEN r ELSE ch[d]
    BY <2>2 DEF Types
  <2> QED
    BY <1>1, <1>2, <1>6, <2>3, <2>4 DEF SaysNothing, EndFor
<1> QED
  BY <1>1, <1>3, <1>4, <1>5, <1>6, Zenon DEF PacketAdd

\* Taking the packet in front keeps a channel's end in order.
LEMMA TailEnds ==
    ASSUME NEW q \in Seq(Message), q # <<>>, NEW c, NEW r0, NEW p0, NEW r, NEW p,
           EndOK(r0, p0, q, c), p.eof = p0.eof,
           r.reof \/ r.rclose => r0.reof \/ r0.rclose \/ EndFor(Head(q), c)
    PROVE  EndOK(r, p, Tail(q), c)
<1>1. Len(q) \in Nat /\ 1 \in 1..Len(q) /\ Head(q) = q[1] /\ Len(Tail(q)) = Len(q) - 1
  OBVIOUS
<1>2. \A i \in 1..Len(Tail(q)) : Tail(q)[i] = q[i + 1] /\ i + 1 \in 1..Len(q)
  OBVIOUS
<1>3. ASSUME r.reof \/ r.rclose
      PROVE  p.eof /\ \A i \in 1..Len(Tail(q)) : ~DataFor(Tail(q)[i], c)
  <2>1. p0.eof /\ \A i \in 1..Len(q) : ~DataFor(q[i], c)
    <3>1. CASE r0.reof \/ r0.rclose
      BY <3>1 DEF EndOK
    <3>2. CASE EndFor(Head(q), c)
      BY <1>1, <3>2 DEF EndOK
    <3> QED
      BY <1>3, <3>1, <3>2
  <2> QED
    BY <1>2, <2>1
<1>4. ASSUME NEW i \in 1..Len(Tail(q)), EndFor(Tail(q)[i], c)
      PROVE  p.eof /\ \A j \in i..Len(Tail(q)) : ~DataFor(Tail(q)[j], c)
  <2>1. EndFor(q[i + 1], c) /\ i + 1 \in 1..Len(q)
    BY <1>2, <1>4
  <2>2. p0.eof /\ \A j \in (i + 1)..Len(q) : ~DataFor(q[j], c)
    BY <2>1 DEF EndOK
  <2>3. \A j \in i..Len(Tail(q)) : j \in 1..Len(Tail(q)) /\ j + 1 \in (i + 1)..Len(q)
    BY <1>1
  <2> QED
    BY <1>2, <2>2, <2>3
<1> QED
  BY <1>3, <1>4 DEF EndOK

\* A packet m that the other end sends keeps a channel's end in order, if it sends no data
\* after its end.
LEMMA AppendEnds ==
    ASSUME NEW q \in Seq(Message), NEW m \in Message, NEW c, NEW r, NEW p0, NEW p,
           EndOK(r, p0, q, c), p0.eof => p.eof, DataFor(m, c) => ~p0.eof, EndFor(m, c) => p.eof
    PROVE  EndOK(r, p, Append(q, m), c)
<1>1. Len(q) \in Nat /\ Len(Append(q, m)) = Len(q) + 1 /\ Append(q, m)[Len(q) + 1] = m
  OBVIOUS
<1>2. \A i \in 1..Len(q) : Append(q, m)[i] = q[i]
  OBVIOUS
<1>3. \A i \in 1..(Len(q) + 1) : i \in 1..Len(q) \/ i = Len(q) + 1
  BY <1>1
<1>4. ASSUME r.reof \/ r.rclose
      PROVE  p.eof /\ \A i \in 1..(Len(q) + 1) : ~DataFor(Append(q, m)[i], c)
  <2>1. p0.eof /\ \A i \in 1..Len(q) : ~DataFor(q[i], c)
    BY <1>4 DEF EndOK
  <2> QED
    BY <1>1, <1>2, <1>3, <2>1
<1>5. ASSUME NEW i \in 1..(Len(q) + 1), EndFor(Append(q, m)[i], c)
      PROVE  p.eof /\ \A j \in i..(Len(q) + 1) : ~DataFor(Append(q, m)[j], c)
  <2>1. CASE i \in 1..Len(q)
    <3>1. EndFor(q[i], c)
      BY <1>2, <1>5, <2>1
    <3>2. p0.eof /\ \A j \in i..Len(q) : ~DataFor(q[j], c)
      BY <2>1, <3>1 DEF EndOK
    <3>3. \A j \in i..(Len(q) + 1) : (j \in 1..Len(q) /\ j \in i..Len(q)) \/ j = Len(q) + 1
      BY <1>1, <2>1
    <3> QED
      BY <1>1, <1>2, <3>2, <3>3
  <2>2. CASE i = Len(q) + 1
    <3>1. EndFor(m, c)
      BY <1>1, <1>5, <2>2
    <3>2. ~DataFor(m, c)
      BY <3>1 DEF EndFor, DataFor
    <3>3. \A j \in i..(Len(q) + 1) : j = Len(q) + 1
      BY <1>1, <2>2
    <3> QED
      BY <1>1, <3>1, <3>2, <3>3
  <2> QED
    BY <1>3, <2>1, <2>2
<1> QED
  BY <1>1, <1>4, <1>5 DEF EndOK

\* A step that leaves the ends alone keeps them in order.
LEMMA EndsStay ==
    ASSUME EndInv, SameEnds
    PROVE  EndInv'
  BY DEF EndInv, SameEnds, EndOK

\* So does a read of the transport.
LEMMA EndsRead ==
    ASSUME Types, EndInv, NEW rc, TransportRead(rc)
    PROVE  EndInv'
<1>1. CASE add # NoAnswer /\ Answer(add, rc) /\ UNCHANGED <<inbound, app>>
  <2>1. PICK m \in Message : m = add
    BY <1>1 DEF Types, Answers
  <2>2. Following /\ SaysNothing
    BY <1>1, <2>1, AnswerFollows
  <2>3. SameEnds
    BY <1>1, <2>2 DEF Following, Follows, SaysNothing, SameEnds
  <2> QED
    BY <2>3, EndsStay
<1>2. CASE UNCHANGED <<session, app>>
  <2>1. SameEnds
    BY <1>2 DEF session, SameEnds
  <2> QED
    BY <2>1, EndsStay
<1>3. CASE inbound # <<>> /\ PacketAdd(Head(inbound), rc) /\ inbound' = Tail(inbound)
  <2>1. PICK q \in Seq(Message) : q = inbound /\ q # <<>>
    BY <1>3 DEF Types
  <2>2. PICK m \in Message : m = Head(q)
    BY <2>1
  <2>3. PacketAdd(m, rc) /\ inbound' = Tail(q)
    BY <1>3, <2>1, <2>2, Zenon
  <2>4. /\ SaysNothing
        /\ \A d \in Chans : ch'[d].reof \/ ch'[d].rclose =>
                              ch[d].reof \/ ch[d].rclose \/ EndFor(m, d)
    BY <2>3, AddEnds
  <2>5. ASSUME NEW d \in Chans PROVE EndOK(ch'[d], peer'[d], Tail(q), d)
    <3>1. EndOK(ch[d], peer[d], q, d)
      BY <2>1 DEF EndInv
    <3>2. peer'[d].eof = peer[d].eof
      BY <2>4 DEF SaysNothing
    <3>3. PICK r0, p0, r, p : r0 = ch[d] /\ p0 = peer[d] /\ r = ch'[d] /\ p = peer'[d]
      OBVIOUS
    <3>4. EndOK(r, p, Tail(q), d)
      BY <2>1, <2>2, <2>4, <3>1, <3>2, <3>3, TailEnds
    <3> QED
      BY <3>3, <3>4, Zenon
  <2> QED
    BY <2>3, <2>5, Zenon DEF EndInv
<1> QED
  BY <1>1, <1>2, <1>3, Zenon DEF TransportRead

\* A packet from the other end.
LEMMA EndsSent ==
    ASSUME Types, EndInv, NEW m \in Message, inbound' = Append(inbound, m), UNCHANGED ch,
           NEW c \in Chans, m.c = c, NEW p, peer' = [peer EXCEPT ![c] = p],
           peer[c].eof => p.eof, m.kind = "data" => ~peer[c].eof,
           m.kind \in {"eof", "close"} => p.eof
    PROVE  EndInv'
<1>1. PICK q \in Seq(Message) : q = inbound
  BY DEF Types
<1>2. ASSUME NEW d \in Chans PROVE EndOK(ch'[d], peer'[d], Append(q, m), d)
  <2>1. PICK r, p0, z : r = ch[d] /\ p0 = peer[d] /\ z = peer'[d]
    OBVIOUS
  <2>2. EndOK(r, p0, q, d)
    BY <1>1, <2>1 DEF EndInv
  <2>3. z = IF d = c THEN p ELSE p0
    BY <2>1 DEF Types
  <2>4. /\ p0.eof => z.eof
        /\ DataFor(m, d) => ~p0.eof
        /\ EndFor(m, d) => z.eof
    BY <2>1, <2>3 DEF DataFor, EndFor
  <2>5. EndOK(r, z, Append(q, m), d)
    BY <2>2, <2>4, AppendEnds
  <2> QED
    BY <2>1, <2>5, Zenon
<1> QED
  BY <1>1, <1>2, Zenon DEF EndInv

\* What the other end sends and says keeps the ends in order.
LEMMA EndsPeer ==
    ASSUME IInv, EndInv, NEW c \in Chans,
           \/ \E s \in Streams, n \in Lens : PeerData(c, s, n)
           \/ \E kind \in {"eof", "close", "adjust", "request", "disconnect"} : PeerSays(kind, c)
           \/ PeerAnswersClose(c)
    PROVE  EndInv'
<1>1. Types /\ peer \in [Chans -> Peer]
  BY DEF IInv, Types
<1>2. PICK p0 \in Peer : p0 = peer[c]
  BY <1>1
<1>3. CASE \E s \in Streams, n \in Lens : PeerData(c, s, n)
  <2>1. PICK s \in Streams, n \in Lens : PeerData(c, s, n)
    BY <1>3, Zenon
  <2>2. /\ ~p0.eof /\ UNCHANGED ch /\ inbound' = Append(inbound, Packet("data", c, s, n))
        /\ peer' = [peer EXCEPT ![c].grant = @ - n, ![c].sent[s] = @ + n]
    BY <1>2, <2>1 DEF PeerData, PeerSends
  <2>3. PICK m : m = Packet("data", c, s, n)
    OBVIOUS
  <2>4. m \in Message /\ m.kind = "data" /\ m.c = c
    <3>1. n \in Nat /\ n > 0
      BY ChannelAssumption
    <3> QED
      BY <2>3, <3>1 DEF Packet, Message
  <2>5. PICK p : p = [p0 EXCEPT !.grant = p0.grant - n, !.sent[s] = @ + n]
    OBVIOUS
  <2>6. peer' = [peer EXCEPT ![c] = p]
    BY <1>2, <2>2, <2>5
  <2>7. inbound' = Append(inbound, m)
    BY <2>2, <2>3
  <2> QED
    BY <1>1, <1>2, <2>2, <2>4, <2>6, <2>7, EndsSent
<1>4. CASE \/ \E kind \in {"eof", "close", "adjust", "request", "disconnect"} : PeerSays(kind, c)
           \/ PeerAnswersClose(c)
  <2>1. PICK kind \in {"eof", "close", "adjust", "request", "disconnect"} :
          PeerSays(kind, c) \/ (kind = "close" /\ PeerAnswersClose(c))
    BY <1>4, Zenon
  <2>2. PICK m, p : /\ m = Packet(kind, c, 0, IF kind = "adjust" THEN PacketSize ELSE 0)
                    /\ p = Said(p0, kind)
    OBVIOUS
  <2>3. /\ UNCHANGED ch
        /\ inbound' = Append(inbound, m)
        /\ peer' = [peer EXCEPT ![c] = p]
    <3>1. CASE PeerSays(kind, c)
      BY <1>2, <2>2, <3>1, Zenon DEF PeerSays, PeerSends
    <3>2. CASE kind = "close" /\ PeerAnswersClose(c)
      <4>1. m = Packet("close", c, 0, 0) /\ p = Said(p0, "close")
        BY <2>2, <3>2
      <4> QED
        BY <1>2, <3>2, <4>1, Zenon DEF PeerAnswersClose
    <3> QED
      BY <2>1, <3>1, <3>2
  <2>4. m \in Message /\ m.c = c
    BY <2>2, SaidSent
  <2>5. m.kind = kind
    BY <2>2 DEF Packet
  <2>6. (p0.eof => p.eof) /\ (kind \in {"eof", "close"} => p.eof)
    <3>1. CASE kind = "eof"
      <4>1. p = [p0 EXCEPT !.eof = TRUE]
        BY <2>2, <3>1 DEF Said
      <4> QED
        BY <4>1 DEF Peer
    <3>2. CASE kind = "close"
      <4>1. p = [p0 EXCEPT !.eof = TRUE, !.close = TRUE]
        BY <2>2, <3>2 DEF Said
      <4> QED
        BY <4>1 DEF Peer
    <3>3. CASE kind = "adjust"
      <4>1. PICK w : w = p0.window + PacketSize
        OBVIOUS
      <4>2. p = [p0 EXCEPT !.window = w]
        BY <2>2, <3>3, <4>1 DEF Said
      <4> QED
        BY <3>3, <4>2 DEF Peer
    <3>4. CASE kind \in {"request", "disconnect"}
      BY <2>2, <3>4 DEF Said
    <3> QED
      BY <3>1, <3>2, <3>3, <3>4
  <2>7. m.kind = "data" => ~peer[c].eof
    BY <2>5
  <2>8. /\ peer[c].eof => p.eof
        /\ m.kind \in {"eof", "close"} => p.eof
    BY <1>2, <2>5, <2>6
  <2> QED
    BY <1>1, <2>3, <2>4, <2>7, <2>8, EndsSent
<1> QED
  BY <1>3, <1>4

\* What has ended has nothing on its way.
LEMMA EndedFlying ==
    ASSUME IInv, EndInv, NEW c \in Chans, ch[c].reof \/ ch[c].rclose, NEW s \in Streams
    PROVE  InFlight(c, s) = 0
<1>1. PICK q \in Seq(Message) : q = inbound
  BY DEF IInv, Types
<1>2. \A i \in 1..Len(q) : ~DataFor(q[i], c)
  BY <1>1, Zenon DEF EndInv, EndOK
<1> DEFINE w == [i \in 1..Len(q) |-> DataOf(q[i], c, s)]
<1>3. \A i \in 1..Len(q) : w[i] = 0
  BY <1>2 DEF DataOf, DataFor
<1>4. w \in Seq(Int) /\ Len(w) = Len(q)
  BY <1>3
<1>5. Flying(q, c, s) = Total(w)
  BY DEF Flying
<1> HIDE DEF w
<1>6. Total(w) = 0
  BY <1>3, <1>4, TotalZero
<1> QED
  BY <1>1, <1>5, <1>6, InFlightIsFlying

\* A step of a call goes on with it or ends it.
LEMMA KeepsOp ==
    ASSUME IInv, (\E x : Goto(x)) \/ Again \/ Return \/ UNCHANGED call
    PROVE  call'.op \in {call.op, "none"}
<1>1. PICK k \in Execution : k = call
  BY DEF IInv, Types
<1>2. CASE \E x : Goto(x)
  <2>1. PICK x : Goto(x)
    BY <1>2, Zenon
  <2>2. call' = [k EXCEPT !.at = x]
    BY <1>1, <2>1 DEF Goto
  <2> QED
    BY <1>1, <2>2 DEF Execution
<1>3. CASE Again
  <2>1. PICK x, z : call' = [k EXCEPT !.at = x, !.n = z]
    BY <1>1, <1>3, Zenon DEF Again
  <2> QED
    BY <1>1, <2>1 DEF Execution
<1>4. CASE Return
  BY <1>4, IdleCall DEF Return
<1> QED
  BY <1>2, <1>3, <1>4

\* An account that has lost bytes has lost them for good.
LEMMA LostForGood ==
    ASSUME NEW a \in Account, NEW b \in Account, Loses(a, b), a.lost # Zero
    PROVE  b.lost # Zero
<1>1. a.lost \in [Streams -> Nat] /\ b.lost \in [Streams -> Nat]
  BY DEF Account
<1>2. PICK s \in Streams : a.lost[s] # 0
  BY <1>1 DEF Zero
<1>3. PICK i \in Nat, j \in Nat : i = a.lost[s] /\ j = b.lost[s]
  BY <1>1
<1>4. i <= j /\ i # 0
  BY <1>2, <1>3 DEF Loses
<1>5. j # 0
  BY <1>3, <1>4
<1> QED
  BY <1>3, <1>5 DEF Zero

\* A read of the transport leaves the reads alone.
LEMMA TransportKeeps ==
    ASSUME IInv, net = "up" => Loose(pend), NEW rc, TransportRead(rc)
    PROVE  SameReads /\ (rc \in {"zero", "FAIL"} => net' # "up")
<1>1. ReadTypes /\ ReadChannels /\ (rc \in {"zero", "FAIL"} => net' # "up")
  BY TransportReads DEF IInv
<1>2. ASSUME NEW d \in Chans
      PROVE  /\ ch'[d].jump1 = ch[d].jump1 /\ (ch[d].stalled => ch'[d].stalled)
             /\ app[d].lost # Zero => app'[d].lost # Zero
  <2>1. Keeps(ch[d], ch'[d], peer[d], peer'[d]) /\ Loses(app[d], app'[d])
    BY <1>1, Zenon DEF ReadChannels
  <2>2. PICK a \in Account, b \in Account : a = app[d] /\ b = app'[d]
    BY <1>1 DEF ReadTypes, IInv, Types
  <2>3. app[d].lost # Zero => app'[d].lost # Zero
    BY <2>1, <2>2, LostForGood
  <2> QED
    BY <2>1, <2>3 DEF Keeps
<1> QED
  BY <1>1, <1>2, Zenon DEF SameReads

\* Nothing is lost by what a call writes or drops.
LEMMA FindsSame ==
    ASSUME Types, NEW c \in Chans, NEW z,
           \/ UNCHANGED app
           \/ app' = [app EXCEPT ![c].wrote = z]
           \/ app' = [app EXCEPT ![c].dropped = z]
    PROVE  FindsNothing
  BY DEF Types, Account, FindsNothing

\* A step that leaves the reads and the ends alone.
Undisturbed == SameReads /\ SameEnds

\* So does one that changes neither the session nor the accounts.
LEMMA StandsStill == UNCHANGED <<session, app>> => Undisturbed
  BY DEF session, SameReads, SameEnds, Undisturbed

\* Calls but reads leave the reads alone, and the ends but for what they read from the
\* transport.
LEMMA OtherReads ==
    ASSUME IInv, call.op # "read", Library
    PROVE  SameReads /\ call'.op # "read" /\ (SameEnds \/ \E rc \in Rcs : TransportRead(rc))
<1>1. ch \in [Chans -> Channel] /\ Types /\ call \in Execution
  BY DEF IInv, Types
<1>2. /\ call'.op \in {call.op, "none"} => call'.op # "read"
      /\ Undisturbed => SameReads /\ SameEnds
  BY DEF Undisturbed
<1>3. CASE Wake
  <2>1. UNCHANGED <<session, app>> /\ \E x : Goto(x)
    BY <1>3, Zenon DEF Wake
  <2> QED
    BY <1>2, <2>1, KeepsOp, StandsStill
<1>4. CASE ReadEnters \/ ReadCopies \/ ReadAdjusts
  BY <1>4 DEF ReadEnters, ReadCopies, ReadAdjusts, Running
<1> DEFINE c == call.c
<1>5. CASE WriteEnters
  <2>0. call.op # "none"
    BY <1>5 DEF WriteEnters, Running
  <2>1. c \in Chans
    BY <2>0, Executes
  <2>2. \/ UNCHANGED ch
        \/ ch' = [ch EXCEPT ![c].writing = "allocated", ![c].bufwrote = 0]
    BY <1>5 DEF WriteEnters
  <2>3. Return \/ \E x : Goto(x)
    BY <1>5, Zenon DEF WriteEnters
  <2>4. Undisturbed
    <3>1. Following
      BY <1>1, <2>1, <2>2 DEF Following, Follows, Channel
    <3>2. SaysNothing
      BY <1>5 DEF WriteEnters, SaysNothing
    <3>3. FindsNothing
      BY <1>5 DEF WriteEnters, FindsNothing
    <3>4. inbound' = inbound
      BY <1>5 DEF WriteEnters
    <3> QED
      BY <3>1, <3>2, <3>3, <3>4, LeavesAlone DEF Undisturbed
  <2> QED
    BY <1>2, <2>3, <2>4, KeepsOp, Zenon
<1>6. CASE WriteDrains
  <2>1. PICK rc \in Rcs : TransportRead(rc) /\ Goto(IF rc = "packet" THEN "drain" ELSE "split")
    BY <1>6, Zenon DEF WriteDrains
  <2>2. \E x : Goto(x)
    BY <2>1, Zenon
  <2>3. call.op = "write" /\ call.at = "drain"
    BY <1>6 DEF WriteDrains, Running
  <2>4. SameReads
    BY <2>1, <2>3, NothingPends, TransportKeeps
  <2> QED
    BY <1>2, <2>1, <2>2, <2>4, KeepsOp, Zenon
<1>7. CASE WriteSplits
  <2>0. call.op # "none"
    BY <1>7 DEF WriteSplits, Running
  <2>1. c \in Chans
    BY <2>0, Executes
  <2>2. PICK w : \/ ch' = [ch EXCEPT ![c].writing = "idle"]
                 \/ ch' = [ch EXCEPT ![c].writing = "created", ![c].bufwrite = w]
    BY <1>7, Zenon DEF WriteSplits, Wrote
  <2>3. Return \/ \E x : Goto(x)
    BY <1>7, Zenon DEF WriteSplits, Wrote
  <2>4. Undisturbed
    <3>1. Following
      BY <1>1, <2>1, <2>2 DEF Following, Follows, Channel
    <3>2. SaysNothing
      BY <1>7 DEF WriteSplits, SaysNothing
    <3>3. FindsNothing
      <4>1. UNCHANGED app \/ \E z : app' = [app EXCEPT ![c].wrote = z]
        BY <1>7, Zenon DEF WriteSplits, Wrote
      <4> QED
        BY <1>1, <2>1, <4>1, FindsSame
    <3>4. inbound' = inbound
      BY <1>7 DEF WriteSplits
    <3> QED
      BY <3>1, <3>2, <3>3, <3>4, LeavesAlone DEF Undisturbed
  <2> QED
    BY <1>2, <2>3, <2>4, KeepsOp, Zenon
<1>8. CASE WriteSends
  <2>0. call.op # "none"
    BY <1>8 DEF WriteSends, Running
  <2>1. c \in Chans
    BY <2>0, Executes
  <2>2. PICK n, a, b :
          \/ UNCHANGED ch
          \/ ch' = [ch EXCEPT ![c].writing = "idle"]
          \/ ch' = [ch EXCEPT ![c].lwin = @ - n, ![c].bufwrote = @ + n, ![c].writing = "allocated"]
          \/ ch' = [ch EXCEPT ![c].lwin = @ - n, ![c].bufwrote = @ + n, ![c].writing = "idle"]
    BY <1>8, Zenon DEF WriteSends
  <2>3. Undisturbed
    <3>1. Following
      BY <1>1, <2>1, <2>2 DEF Following, Follows, Channel
    <3>2. SaysNothing
      <4>1. PICK z, rc : Send("data", c, z, rc)
        BY <1>8, Zenon DEF WriteSends
      <4> QED
        BY <1>1, <2>1, <4>1, SendSays
    <3>3. FindsNothing
      <4>1. UNCHANGED app \/ \E z : app' = [app EXCEPT ![c].wrote = z]
        BY <1>8, Zenon DEF WriteSends
      <4> QED
        BY <1>1, <2>1, <4>1, FindsSame
    <3>4. inbound' = inbound
      BY <1>8 DEF WriteSends
    <3> QED
      BY <3>1, <3>2, <3>3, <3>4, LeavesAlone DEF Undisturbed
  <2>4. \/ Return \/ Again
        \/ call' = [call EXCEPT !.at = "drain", !.n[0] = @ + ch[call.c].bufwrite]
    BY <1>8, Zenon DEF WriteSends
  <2>5. CASE call' = [call EXCEPT !.at = "drain", !.n[0] = @ + ch[call.c].bufwrite]
    <3>1. PICK x, z : call' = [call EXCEPT !.at = x, !.n = z]
      BY <2>5, Zenon
    <3>2. call'.op = call.op
      BY <1>1, <3>1 DEF Execution
    <3> QED
      BY <1>2, <2>3, <3>2
  <2> QED
    BY <1>2, <2>3, <2>4, <2>5, KeepsOp, Zenon
<1>9. CASE FlushEnters
  <2>0. call.op # "none"
    BY <1>9 DEF FlushEnters, Running
  <2>1. c \in Chans
    BY <2>0, Executes
  <2>2. PICK m : ch' = [ch EXCEPT ![c].flushing = TRUE, ![c].refund = m]
    BY <1>9, Zenon DEF FlushEnters
  <2>3. Undisturbed
    <3>1. Following
      BY <1>1, <2>1, <2>2 DEF Following, Follows, Channel
    <3>2. SaysNothing
      BY <1>9 DEF FlushEnters, SaysNothing
    <3>3. FindsNothing
      <4>1. PICK z : app' = [app EXCEPT ![c].dropped = z]
        BY <1>9, Zenon DEF FlushEnters
      <4> QED
        BY <1>1, <2>1, <4>1, FindsSame
    <3>4. inbound' = inbound
      BY <1>9 DEF FlushEnters
    <3> QED
      BY <3>1, <3>2, <3>3, <3>4, LeavesAlone DEF Undisturbed
  <2>4. UNCHANGED call
    BY <1>9 DEF FlushEnters
  <2> QED
    BY <1>2, <2>3, <2>4, KeepsOp, Zenon
<1>10. CASE FlushRefunds
  <2>0. call.op # "none"
    BY <1>10 DEF FlushRefunds, Running
  <2>1. c \in Chans
    BY <2>0, Executes
  <2>2. PICK rc \in Rcs :
          /\ IF ch[c].refund > 0 THEN Adjust(c, ch[c].refund, FALSE, rc)
             ELSE rc = "NONE" /\ UNCHANGED <<pend, peer>>
          /\ ch' = [ch EXCEPT ![c] =
                [(IF ch[c].refund > 0 THEN Adjusted(c, ch[c].refund, FALSE, rc) ELSE @)
                     EXCEPT !.flushing = rc = "EAGAIN"]]
          /\ IF rc = "EAGAIN" THEN Again ELSE Return
    BY <1>10, Zenon DEF FlushRefunds
  <2>3. PICK s \in Channel : s = ch[c]
    BY <1>1, <2>1
  <2>4. PICK r : r = IF s.refund > 0 THEN Adjusted(c, s.refund, FALSE, rc) ELSE s
    OBVIOUS
  <2>5. PICK f \in BOOLEAN : f = (rc = "EAGAIN")
    OBVIOUS
  <2>6. PICK force \in BOOLEAN : force = FALSE
    OBVIOUS
  <2>7. s.refund > 0 => s.refund \in Nat
    BY <2>3 DEF Channel
  <2>8. r \in Channel /\ Follows(s, r)
    <3>1. CASE s.refund > 0
      <4>1. PICK n \in Nat : n = s.refund
        BY <2>7, <3>1
      <4>2. r = Adjusted(c, n, force, rc)
        BY <2>4, <2>6, <3>1, <4>1
      <4> QED
        BY <1>1, <2>1, <2>3, <2>6, <4>1, <4>2, AdjustedFollows
    <3>2. CASE ~(s.refund > 0)
      BY <2>3, <2>4, <3>2 DEF Follows
    <3> QED
      BY <3>1, <3>2
  <2>9. PICK q : q = [r EXCEPT !.flushing = f]
    OBVIOUS
  <2>10. ch' = [ch EXCEPT ![c] = q]
    BY <2>2, <2>3, <2>4, <2>5, <2>9, Zenon
  <2>11. Follows(ch[c], q)
    BY <2>3, <2>8, <2>9 DEF Channel, Follows
  <2>12. Following
    BY <1>1, <2>1, <2>10, <2>11, OneFollows
  <2>13. SaysNothing
    <3>1. CASE s.refund > 0
      <4>1. PICK n \in Nat : n = s.refund
        BY <2>7, <3>1
      <4>2. Adjust(c, n, force, rc)
        BY <2>2, <2>3, <2>6, <3>1, <4>1
      <4> QED
        BY <1>1, <2>1, <4>1, <4>2, AdjustSays
    <3>2. CASE ~(s.refund > 0)
      BY <2>2, <2>3, <3>2 DEF SaysNothing
    <3> QED
      BY <3>1, <3>2
  <2>14. inbound' = inbound /\ app' = app
    BY <1>10 DEF FlushRefunds
  <2>15. Undisturbed
    BY <2>12, <2>13, <2>14, LeavesAlone DEF Undisturbed, FindsNothing
  <2>16. Again \/ Return
    BY <2>2, Zenon
  <2> QED
    BY <1>2, <2>15, <2>16, KeepsOp, Zenon
<1>11. CASE WindowAdjusts
  <2>0. call.op = "adjust"
    BY <1>11 DEF WindowAdjusts, Running
  <2>1. c \in Chans /\ PlaceOK(call, ch[call.c])
    BY <2>0, Executes
  <2>2. PICK rc \in Rcs :
          /\ Adjust(c, call.arg[1], call.arg[2] = 1, rc)
          /\ ch' = [ch EXCEPT ![c] = Adjusted(c, call.arg[1], call.arg[2] = 1, rc)]
          /\ IF rc = "EAGAIN" THEN Again ELSE Return
    BY <1>11, Zenon DEF WindowAdjusts
  <2>3. PICK n \in Nat, force \in BOOLEAN : n = call.arg[1] /\ force = (call.arg[2] = 1)
    <3>1. PICK o \in Ops : call.op = o[1] /\ call.arg = o[2]
      BY <2>1 DEF PlaceOK
    <3>2. o[2] \in Nat \X {0, 1}
      BY <2>0, <3>1, ChannelAssumption
    <3> QED
      BY <3>1, <3>2
  <2>4. PICK r : r = Adjusted(c, n, force, rc)
    OBVIOUS
  <2>5. ch' = [ch EXCEPT ![c] = r]
    BY <2>2, <2>3, <2>4, Zenon
  <2>6. Follows(ch[c], r)
    BY <1>1, <2>1, <2>3, <2>4, AdjustedFollows
  <2>7. Undisturbed
    <3>1. Following
      BY <1>1, <2>1, <2>5, <2>6, OneFollows
    <3>2. SaysNothing
      <4>1. Adjust(c, n, force, rc)
        BY <2>2, <2>3, Zenon
      <4> QED
        BY <1>1, <2>1, <4>1, AdjustSays
    <3>3. inbound' = inbound /\ app' = app
      BY <1>11 DEF WindowAdjusts
    <3> QED
      BY <3>1, <3>2, <3>3, LeavesAlone DEF Undisturbed, FindsNothing
  <2>8. Again \/ Return
    BY <2>2, Zenon
  <2> QED
    BY <1>2, <2>7, <2>8, KeepsOp, Zenon
<1>12. CASE ExtendedData
  <2>0. call.op # "none"
    BY <1>12 DEF ExtendedData, Running
  <2>1. c \in Chans
    BY <2>0, Executes
  <2>2. PICK m : ch' = [ch EXCEPT ![c].mode = m]
    BY <1>12 DEF ExtendedData
  <2>3. Undisturbed
    <3>1. Following
      BY <1>1, <2>1, <2>2 DEF Following, Follows, Channel
    <3>2. SaysNothing
      BY <1>12 DEF ExtendedData, SaysNothing
    <3>3. FindsNothing
      BY <1>12 DEF ExtendedData, FindsNothing
    <3>4. inbound' = inbound
      BY <1>12 DEF ExtendedData
    <3> QED
      BY <3>1, <3>2, <3>3, <3>4, LeavesAlone DEF Undisturbed
  <2>4. Return
    BY <1>12 DEF ExtendedData
  <2> QED
    BY <1>2, <2>3, <2>4, KeepsOp, Zenon
<1>13. CASE SendEof
  <2>0. call.op # "none"
    BY <1>13 DEF SendEof, Running
  <2>1. c \in Chans
    BY <2>0, Executes
  <2>2. PICK m : ch' = [ch EXCEPT ![c].leof = m]
    BY <1>13, Zenon DEF SendEof
  <2>3. Undisturbed
    <3>1. Following
      BY <1>1, <2>1, <2>2 DEF Following, Follows, Channel
    <3>2. SaysNothing
      <4>1. PICK z, rc : Send("eof", c, z, rc)
        BY <1>13, Zenon DEF SendEof
      <4> QED
        BY <1>1, <2>1, <4>1, SendSays
    <3>3. FindsNothing
      BY <1>13 DEF SendEof, FindsNothing
    <3>4. inbound' = inbound
      BY <1>13 DEF SendEof
    <3> QED
      BY <3>1, <3>2, <3>3, <3>4, LeavesAlone DEF Undisturbed
  <2>4. Again \/ Return
    BY <1>13, Zenon DEF SendEof
  <2> QED
    BY <1>2, <2>3, <2>4, KeepsOp, Zenon
<1>14. CASE WaitEof \/ WaitClosed \/ CloseAwaits
  <2>1. UNCHANGED <<session, app>> \/ \E rc \in Rcs : TransportRead(rc)
    BY <1>14, Zenon DEF WaitEof, WaitClosed, CloseAwaits
  <2>2. Undisturbed \/ (SameReads /\ \E rc \in Rcs : TransportRead(rc))
    <3>1. CASE UNCHANGED <<session, app>>
      BY <3>1, StandsStill
    <3>2. CASE \E rc \in Rcs : TransportRead(rc)
      <4>1. call.op # "none" /\ (\/ call.op \in {"waitEof", "waitClosed", "read"}
                                 \/ call.op \in {"close", "free"} /\ call.at = "await")
        BY <1>14 DEF WaitEof, WaitClosed, CloseAwaits, Running, Closes
      <4>2. net = "up" => Loose(pend)
        BY <4>1, NothingPends
      <4> QED
        BY <3>2, <4>2, TransportKeeps
    <3> QED
      BY <2>1, <3>1, <3>2
  <2>3. (\E x : Goto(x)) \/ Again \/ Return \/ UNCHANGED call
    <3>1. CASE WaitEof
      BY <3>1 DEF WaitEof
    <3>2. CASE WaitClosed
      BY <3>2, Zenon DEF WaitClosed
    <3>3. CASE CloseAwaits
      BY <3>3, Zenon DEF CloseAwaits
    <3> QED
      BY <1>14, <3>1, <3>2, <3>3, Zenon
  <2> QED
    BY <1>2, <2>2, <2>3, KeepsOp, Zenon
<1>15. CASE CloseEnters
  <2>1. UNCHANGED <<session, app>>
    BY <1>15 DEF CloseEnters
  <2>2. (\E x : Goto(x)) \/ Return
    BY <1>15, Zenon DEF CloseEnters, Closed
  <2> QED
    BY <1>2, <2>1, <2>2, KeepsOp, StandsStill, Zenon
<1>16. CASE CloseSends
  <2>0. call.op # "none"
    BY <1>16 DEF CloseSends, Closes
  <2>1. c \in Chans
    BY <2>0, Executes
  <2>2. PICK m : ch' = [ch EXCEPT ![c].closing = m]
    BY <1>16, Zenon DEF CloseSends
  <2>3. Undisturbed
    <3>1. Following
      BY <1>1, <2>1, <2>2 DEF Following, Follows, Channel
    <3>2. SaysNothing
      <4>1. PICK z, rc : Send("close", c, z, rc)
        BY <1>16, Zenon DEF CloseSends
      <4> QED
        BY <1>1, <2>1, <4>1, SendSays
    <3>3. FindsNothing
      BY <1>16 DEF CloseSends, FindsNothing
    <3>4. inbound' = inbound
      BY <1>16 DEF CloseSends
    <3> QED
      BY <3>1, <3>2, <3>3, <3>4, LeavesAlone DEF Undisturbed
  <2>4. (\E x : Goto(x)) \/ Again \/ Return
    BY <1>16, Zenon DEF CloseSends, Closed
  <2> QED
    BY <1>2, <2>3, <2>4, KeepsOp, Zenon
<1>17. CASE CloseEnds
  <2>0. call.op # "none"
    BY <1>17 DEF CloseEnds, Closes
  <2>1. c \in Chans
    BY <2>0, Executes
  <2>2. ch' = [ch EXCEPT ![c].lclose = TRUE, ![c].closing = "idle"]
    BY <1>17 DEF CloseEnds
  <2>3. Undisturbed
    <3>1. Following
      BY <1>1, <2>1, <2>2 DEF Following, Follows, Channel
    <3>2. SaysNothing
      BY <1>17 DEF CloseEnds, SaysNothing
    <3>3. FindsNothing
      BY <1>17 DEF CloseEnds, FindsNothing
    <3>4. inbound' = inbound
      BY <1>17 DEF CloseEnds
    <3> QED
      BY <3>1, <3>2, <3>3, <3>4, LeavesAlone DEF Undisturbed
  <2>4. (\E x : Goto(x)) \/ Return
    BY <1>17, Zenon DEF CloseEnds, Closed
  <2> QED
    BY <1>2, <2>3, <2>4, KeepsOp, Zenon
<1>18. CASE FreeCleans
  <2>0. call.op # "none"
    BY <1>18 DEF FreeCleans, Running
  <2>1. c \in Chans
    BY <2>0, Executes
  <2>2. ch' = [ch EXCEPT ![c].live = FALSE]
    BY <1>18 DEF FreeCleans
  <2>3. Undisturbed
    <3>1. Following
      BY <1>1, <2>1, <2>2 DEF Following, Follows, Channel
    <3>2. SaysNothing
      BY <1>18 DEF FreeCleans, SaysNothing
    <3>3. FindsNothing
      <4>1. PICK z : app' = [app EXCEPT ![c].dropped = z]
        BY <1>18, Zenon DEF FreeCleans
      <4> QED
        BY <1>1, <2>1, <4>1, FindsSame
    <3>4. inbound' = inbound
      BY <1>18 DEF FreeCleans
    <3> QED
      BY <3>1, <3>2, <3>3, <3>4, LeavesAlone DEF Undisturbed
  <2>4. Return
    BY <1>18 DEF FreeCleans
  <2> QED
    BY <1>2, <2>3, <2>4, KeepsOp, Zenon
<1> QED
  BY <1>3, <1>4, <1>5, <1>6, <1>7, <1>8, <1>9, <1>10, <1>11, <1>12, <1>13, <1>14, <1>15, <1>16,
     <1>17, <1>18, Zenon DEF Library

\* Counts that are not zero have a stream that is not.
LEMMA NotZero ==
    ASSUME NEW n \in Counts, n # Zero
    PROVE  \E s \in Streams : n[s] # 0
  BY DEF Counts, Zero

\* Bytes that are read show in the account.
LEMMA ReadShows ==
    ASSUME IInv, NEW c \in Chans, NEW n \in Counts, n # Zero,
           app' = [app EXCEPT ![c].read = Add(@, n)]
    PROVE  app' # app
<1>1. PICK y0 \in Account : y0 = app[c]
  BY DEF IInv, Types
<1>2. PICK y : y = [y0 EXCEPT !.read = Add(@, n)]
  OBVIOUS
<1>3. app' = [app EXCEPT ![c] = y]
  BY <1>1, <1>2, Zenon
<1>4. app'[c] = y
  BY <1>3 DEF IInv, Types
<1>5. \A s \in Streams : y.read[s] = y0.read[s] + n[s]
  BY <1>2, ReadMore
<1>6. PICK s \in Streams : n[s] # 0
  BY NotZero
<1>7. PICK a \in Int, b \in Int : a = y0.read[s] /\ b = n[s]
  BY DEF Account, Counts
<1>8. a + b # a
  BY <1>6, <1>7
<1>9. y.read[s] = a + b
  BY <1>5, <1>7, Zenon
<1>10. y # y0
  BY <1>7, <1>8, <1>9, Zenon
<1> QED
  BY <1>1, <1>4, <1>10, Zenon

\* What a step of a read tells the application.
Ends ==
    call.op = "read" /\ call'.op = "none" /\ app' = app =>
         LET c == call.c
             s == call.arg[1]
         IN  \/ net' # "up"
             \/ /\ ch[c].reof \/ ch[c].rclose
                /\ call.arg[2] > 0 => InFlight(c, s) = 0 /\ Bytes(brigade, c, s) = 0
             \/ ch[c].jump1 /\ ch[c].stalled /\ app[c].lost # Zero

\* The invariant of reads outlives a step that leaves them alone.
LEMMA KeepsReads ==
    ASSUME ReadInv, SameReads, ~(call.op = "read" /\ call.at = "adjust"),
           call'.op = "read" /\ call'.at = "adjust" => call'.c \in Chans /\ ch[call'.c].jump1,
           call'.op = "read" /\ call'.at = "zero" => net' # "up"
    PROVE  ReadInv'
<1>1. ASSUME NEW d \in Chans, ch'[d].jump1 PROVE ch'[d].stalled /\ app'[d].lost # Zero
  <2>1. ch[d].jump1
    BY <1>1 DEF SameReads
  <2>2. ch[d].stalled /\ app[d].lost # Zero
    BY <2>1 DEF ReadInv
  <2> QED
    BY <2>2 DEF SameReads
<1>2. call'.op = "read" /\ call'.at = "adjust" => ch'[call'.c].jump1
  BY DEF SameReads
<1> QED
  BY <1>1, <1>2, Zenon DEF ReadInv

\* Entering a read keeps the invariant of reads.
LEMMA ReadEntersEnds ==
    ASSUME IInv, ReadInv, ReadEnters
    PROVE  ReadInv' /\ Ends
<1>1. call.op = "read" /\ call.at = "enter"
  BY DEF ReadEnters, Running
<1>2. PICK rc \in Rcs :
        /\ TransportRead(rc)
        /\ call' = CASE rc = "packet" -> call
                     [] rc = "FAIL"   -> Idle
                     [] OTHER -> [call EXCEPT !.at = IF ch[call.c].jump1 THEN "adjust" ELSE rc]
  BY Zenon DEF ReadEnters
<1>3. call.op # "none"
  BY <1>1
<1>4. call.c \in Chans
  BY <1>3, Executes
<1>5. net = "up" => Loose(pend)
  BY <1>1, <1>3, NothingPends
<1>6. SameReads /\ (rc \in {"zero", "FAIL"} => net' # "up")
  BY <1>2, <1>5, TransportKeeps
<1>7. PICK k \in Execution : k = call
  BY DEF IInv, Types
<1>8. CASE rc = "packet"
  <2>1. call' = call
    BY <1>2, <1>8
  <2>2. ReadInv'
    BY <1>1, <1>6, <2>1, KeepsReads
  <2> QED
    BY <1>1, <2>1, <2>2 DEF Ends
<1>9. CASE rc = "FAIL"
  <2>1. call' = Idle
    BY <1>2, <1>9
  <2>2. ReadInv'
    BY <1>1, <1>6, <2>1, IdleCall, KeepsReads
  <2>3. net' # "up"
    BY <1>6, <1>9
  <2> QED
    BY <2>2, <2>3 DEF Ends
<1>10. CASE rc # "packet" /\ rc # "FAIL"
  <2>1. PICK x : x = IF ch[call.c].jump1 THEN "adjust" ELSE rc
    OBVIOUS
  <2>2. call' = [k EXCEPT !.at = x]
    BY <1>2, <1>7, <1>10, <2>1
  <2>3. call'.op = "read" /\ call'.at = x /\ call'.c = call.c
    BY <1>1, <1>7, <2>2 DEF Execution
  <2>4. rc # "adjust"
    BY DEF Rcs
  <2>5. /\ x = "adjust" => ch[call.c].jump1
        /\ x = "zero" => net' # "up"
    BY <1>6, <2>1, <2>4
  <2>6. ReadInv'
    BY <1>1, <1>4, <1>6, <2>3, <2>5, KeepsReads
  <2> QED
    BY <2>3, <2>6 DEF Ends
<1> QED
  BY <1>8, <1>9, <1>10

\* Copying to the caller keeps the invariant of reads, and an end is told only at one.
LEMMA ReadCopiesEnds ==
    ASSUME IInv, ReadInv, EndInv, ReadCopies
    PROVE  ReadInv' /\ Ends
<1>1. call.op = "read" /\ call.at \in {"EAGAIN", "zero"} /\ net' = net
  BY DEF ReadCopies
<1>2. PICK k0 \in Execution, c \in Chans, r0 \in Channel, p0 \in Peer, y0 \in Account,
           b0 \in Seq(Piece), G \in Nat, F \in Nat, x \in {"up", "disconnected", "broken"}, e0 \in {pend} :
        Before(k0, c, r0, p0, y0, b0, G, F, x, e0) /\ InOrder(k0, c, r0, p0, y0, G, F, x, e0)
  BY <1>1, Starts
<1>3. call = k0 /\ k0.op = "read" /\ k0.c = c /\ brigade = b0 /\ PlaceOK(k0, r0)
  BY <1>1, <1>2 DEF Before, InOrder
<1>4. PICK s \in Streams, want \in Nat : s = k0.arg[1] /\ want = k0.arg[2]
  <2>1. PICK o \in Ops : k0.op = o[1] /\ k0.arg = o[2]
    BY <1>3 DEF PlaceOK
  <2>2. o[2] \in Streams \X Nat
    BY <1>3, <2>1, ChannelAssumption
  <2> QED
    BY <2>1, <2>2
<1>5. PICK t \in PartsOf(b0, c) : t = Taken(c, s, want)
  BY <1>3, <1>4, TakenParts
<1>6. PICK n \in Counts : n = PerStream(t)
  BY <1>3, TakenBytes
<1>7. \/ n = Zero /\ ReadsNothing(c) /\ UNCHANGED <<ch, app>>
      \/ /\ n # Zero /\ ch' = [ch EXCEPT ![c].jump1 = TRUE] /\ UNCHANGED app
         /\ call' = [call EXCEPT !.at = "adjust", !.n = n]
      \/ /\ n # Zero /\ app' = [app EXCEPT ![c].read = Add(@, n)]
         /\ Return /\ UNCHANGED ch
  BY <1>3, <1>4, <1>5, <1>6, Zenon DEF ReadCopies
<1>8. CASE n = Zero /\ ReadsNothing(c) /\ UNCHANGED <<ch, app>>
  <2>1. SameReads
    BY <1>8 DEF SameReads
  <2>2. Return \/ Again
    BY <1>8 DEF ReadsNothing
  <2>3. CASE Return
    <3>1. call'.op = "none"
      BY <2>3, IdleCall DEF Return
    <3>2. ReadInv'
      BY <1>1, <2>1, <3>1, KeepsReads
    <3>3. ch[c].reof \/ ch[c].rclose \/ call.at = "zero"
      <4>1. SUFFICES ASSUME ~(ch[c].reof \/ ch[c].rclose \/ call.at = "zero") PROVE FALSE
        OBVIOUS
      <4>2. Again
        BY <1>8, <4>1 DEF ReadsNothing
      <4>3. call' = [k0 EXCEPT !.at = "select", !.n = Zero]
        BY <1>3, <4>2 DEF Again
      <4>4. call'.op = k0.op
        BY <4>3 DEF Execution
      <4> QED
        BY <1>3, <3>1, <4>4
    <3>4. CASE call.at = "zero"
      <4>1. net' # "up"
        BY <1>1, <3>4 DEF ReadInv
      <4> QED
        BY <3>2, <4>1 DEF Ends
    <3>5. CASE ch[c].reof \/ ch[c].rclose
      <4>1. InFlight(c, s) = 0
        BY <3>5, EndedFlying
      <4>2. want > 0 => Bytes(b0, c, s) = 0
        BY <1>3, <1>5, <1>6, <1>8, TakesNothing
      <4> QED
        BY <1>3, <1>4, <3>2, <3>5, <4>1, <4>2 DEF Ends
    <3> QED
      BY <3>3, <3>4, <3>5
  <2>4. CASE Again
    <3>1. call' = [k0 EXCEPT !.at = "select", !.n = Zero]
      BY <1>3, <2>4 DEF Again
    <3>2. call'.op = "read" /\ call'.at = "select"
      BY <1>3, <3>1 DEF Execution
    <3>3. ReadInv'
      BY <1>1, <2>1, <3>2, KeepsReads
    <3> QED
      BY <3>2, <3>3 DEF Ends
  <2> QED
    BY <2>2, <2>3, <2>4
<1>9. CASE /\ n # Zero /\ ch' = [ch EXCEPT ![c].jump1 = TRUE] /\ UNCHANGED app
           /\ call' = [call EXCEPT !.at = "adjust", !.n = n]
  <2>1. PICK z \in Positions : z = "adjust"
    BY DEF Positions
  <2>2. PICK k : MovedTo(k, k0, z, n)
    BY DEF MovedTo
  <2>3. call' = k
    BY <1>3, <1>9, <2>1, <2>2, Zenon DEF MovedTo
  <2>4. k.op = "read" /\ k.c = c /\ k.n = n /\ k.at = "adjust"
    BY <1>3, <2>1, <2>2, MovesWith
  <2>5. ch' = [ch EXCEPT ![c].jump1 = TRUE] /\ n # Zero /\ app' = app
    BY <1>9, Zenon
  <2>6. ASSUME NEW d \in Chans, d # c, ch'[d].jump1 PROVE ch'[d].stalled /\ app'[d].lost # Zero
    <3>1. ch'[d] = ch[d]
      BY <2>5, <2>6 DEF IInv, Types
    <3>2. ch[d].stalled /\ app[d].lost # Zero
      BY <1>1, <2>6, <3>1 DEF ReadInv
    <3> QED
      BY <2>5, <3>1, <3>2
  <2>7. ch'[c].jump1
    BY <2>5 DEF IInv, Types, Channel
  <2>8. ReadInv'
    BY <2>3, <2>4, <2>5, <2>6, <2>7, Zenon DEF ReadInv
  <2> QED
    BY <2>3, <2>4, <2>8 DEF Ends
<1>10. CASE /\ n # Zero /\ app' = [app EXCEPT ![c].read = Add(@, n)]
            /\ Return /\ UNCHANGED ch
  <2>1. n # Zero /\ app' = [app EXCEPT ![c].read = Add(@, n)] /\ UNCHANGED ch
    BY <1>10, Zenon
  <2>2. app' # app
    BY <2>1, ReadShows
  <2>3. FindsNothing
    BY <2>1 DEF IInv, Types, Account, FindsNothing
  <2>4. SameReads
    BY <2>1, <2>3 DEF SameReads, FindsNothing
  <2>5. call'.op = "none"
    BY <1>10, IdleCall DEF Return
  <2>6. ReadInv'
    BY <1>1, <2>4, <2>5, KeepsReads
  <2> QED
    BY <2>2, <2>6 DEF Ends
<1> QED
  BY <1>7, <1>8, <1>9, <1>10

\* The adjustment at the end of a read keeps the invariant of reads.
LEMMA ReadAdjustsEnds ==
    ASSUME IInv, ReadInv, ReadAdjusts
    PROVE  ReadInv' /\ Ends
<1>1. call.op = "read" /\ call.at = "adjust"
  BY DEF ReadAdjusts, Running
<1>2. PICK k0 \in Execution, c \in Chans, r0 \in Channel, p0 \in Peer, y0 \in Account,
           b0 \in Seq(Piece), G \in Nat, F \in Nat, x \in {"up", "disconnected", "broken"}, e0 \in {pend} :
        Before(k0, c, r0, p0, y0, b0, G, F, x, e0) /\ InOrder(k0, c, r0, p0, y0, G, F, x, e0)
  BY <1>1, Starts
<1>3. /\ call = k0 /\ k0.op = "read" /\ k0.at = "adjust" /\ k0 # Idle /\ k0.c = c
      /\ ch[c] = r0 /\ peer[c] = p0 /\ app[c] = y0 /\ net = x /\ pend = e0 /\ Types
  BY <1>1, <1>2 DEF Before, IInv
<1>4. /\ PlaceOK(k0, r0)
      /\ x = "up" => Loose(pend)
  BY <1>2, <1>3 DEF InOrder, PendOK
<1>5. PICK n \in [Streams -> Nat] : n = k0.n
  <2>1. Zero \in [Streams -> Nat]
    BY DEF Zero
  <2> QED
    BY <1>3, <1>4, <2>1 DEF PlaceOK
<1>6. PICK m \in Nat, force \in BOOLEAN : m = 2 * LowWater /\ force = FALSE
  <2>1. 2 * LowWater \in Nat
    BY ChannelAssumption
  <2> QED
    BY <2>1, Zenon
<1>7. PICK rc \in Rcs :
        /\ Adjust(c, m, force, rc)
        /\ ch' = [ch EXCEPT ![c] =
              [Adjusted(c, m, force, rc) EXCEPT !.jump1 = rc = "EAGAIN"]]
        /\ IF rc = "EAGAIN"
             THEN Again /\ app' = [app EXCEPT ![c].lost = Add(@, call.n)]
             ELSE Return /\ app' = [app EXCEPT ![c].read = Add(@, call.n)]
  BY <1>3, <1>6, Zenon DEF ReadAdjusts
<1>8. Adjust(c, m, force, rc)
  BY <1>7, Zenon
<1>9. Widens(c, m, force, rc, r0, p0, x)
  BY <1>2, <1>3, <1>4, <1>6, <1>8, CallAdjusts
<1>10. PICK r \in Channel : r = Adjusted(c, m, force, rc) /\ (rc = "EAGAIN" => r.stalled)
  BY <1>9, Zenon DEF Widens
<1>11. PICK f \in BOOLEAN : f = (rc = "EAGAIN")
  OBVIOUS
<1>12. PICK q : q = [r EXCEPT !.jump1 = f]
  OBVIOUS
<1>13. ch' = [ch EXCEPT ![c] = q]
  BY <1>7, <1>10, <1>11, <1>12, Zenon
<1>14. /\ ch'[c] = q
       /\ \A d \in Chans \ {c} : ch'[d] = ch[d]
  BY <1>3, <1>13 DEF Types
<1>15. q.jump1 = f /\ q.stalled = r.stalled
  BY <1>12 DEF Channel
<1>16. n = Zero => ch[c].jump1 /\ ch[c].stalled /\ app[c].lost # Zero
  <2>1. ch[c].jump1
    BY <1>3 DEF ReadInv
  <2>2. n = Zero => ~(call.n # Zero)
    BY <1>3, <1>5
  <2> QED
    BY <2>1, <2>2, Zenon DEF ReadInv
<1>17. \A d \in Chans \ {c} : ch[d].jump1 => ch[d].stalled /\ app[d].lost # Zero
  BY <1>3 DEF ReadInv
<1>18. CASE rc = "EAGAIN"
  <2>1. Again /\ app' = [app EXCEPT ![c].lost = Add(@, call.n)]
    BY <1>7, <1>18
  <2>2. PICK y : y = [y0 EXCEPT !.lost = Add(@, n)]
    OBVIOUS
  <2>3. app' = [app EXCEPT ![c] = y]
    BY <1>3, <1>5, <2>1, <2>2, Zenon
  <2>4. y \in Account /\ \A s \in Streams : y.lost[s] = y0.lost[s] + n[s]
    <3>1. n \in [Streams -> Nat]
      BY <1>5
    <3>2. y0 \in Account
      BY <1>2
    <3> QED
      BY ONLY <2>2, <3>1, <3>2, LoseMore
  <2>5. app'[c] = y /\ \A d \in Chans \ {c} : app'[d] = app[d]
    BY <1>3, <2>3 DEF Types
  <2>6. \E s \in Streams : y0.lost[s] # 0 \/ n[s] # 0
    <3>1. CASE n = Zero
      <4>1. y0.lost # Zero /\ y0.lost \in [Streams -> Nat]
        BY <1>3, <1>16, <3>1 DEF Account
      <4> QED
        BY <4>1 DEF Zero
    <3>2. CASE n # Zero
      BY <1>5, <3>2 DEF Zero
    <3> QED
      BY <3>1, <3>2
  <2>7. y.lost # Zero
    <3>1. PICK s \in Streams : y0.lost[s] # 0 \/ n[s] # 0
      BY <2>6
    <3>2. PICK i \in Nat, j \in Nat : i = y0.lost[s] /\ j = n[s]
      BY <1>5 DEF Account
    <3>3. i + j # 0
      BY <3>1, <3>2
    <3>4. y.lost[s] = i + j
      BY <2>4, <3>2
    <3> QED
      BY <3>3, <3>4 DEF Zero
  <2>8. call' = [k0 EXCEPT !.at = "select", !.n = Zero]
    BY <1>3, <2>1 DEF Again
  <2>9. call'.op = "read" /\ call'.at = "select"
    BY <1>3, <2>8 DEF Execution
  <2>10. q.stalled
    BY <1>10, <1>15, <1>18
  <2>11. \A d \in Chans : ch'[d].jump1 => ch'[d].stalled /\ app'[d].lost # Zero
    <3> TAKE d \in Chans
    <3>1. CASE d = c
      BY <1>14, <2>5, <2>7, <2>10, <3>1
    <3>2. CASE d # c
      BY <1>14, <1>17, <2>5, <3>2
    <3> QED
      BY <3>1, <3>2
  <2>12. ReadInv'
    BY <2>9, <2>11, Zenon DEF ReadInv
  <2> QED
    BY <2>9, <2>12 DEF Ends
<1>19. CASE rc # "EAGAIN"
  <2>1. Return /\ app' = [app EXCEPT ![c].read = Add(@, call.n)]
    BY <1>7, <1>19
  <2>2. call'.op = "none"
    BY <2>1, IdleCall DEF Return
  <2>3. FindsNothing
    BY <1>3, <2>1 DEF Types, Account, FindsNothing
  <2>4. \A d \in Chans : ch'[d].jump1 => ch'[d].stalled /\ app'[d].lost # Zero
    <3> TAKE d \in Chans
    <3>1. CASE d = c
      BY <1>11, <1>14, <1>15, <1>19, <3>1
    <3>2. CASE d # c
      BY <1>14, <1>17, <2>3, <3>2 DEF FindsNothing
    <3> QED
      BY <3>1, <3>2
  <2>5. ReadInv'
    BY <2>2, <2>4, Zenon DEF ReadInv
  <2>6. n # Zero => app' # app
    <3>1. n \in Counts
      BY <1>5 DEF Counts
    <3>2. app' = [app EXCEPT ![c].read = Add(@, n)]
      BY <1>3, <1>5, <2>1
    <3> QED
      BY <3>1, <3>2, ReadShows
  <2>7. Ends
    BY <1>3, <1>16, <2>6, Zenon DEF Ends
  <2> QED
    BY <2>5, <2>7
<1> QED
  BY <1>18, <1>19

\* Every step keeps the invariants of reads and of ends.
LEMMA ReadNext ==
    ASSUME IInv, ReadInv, EndInv, [Next]_vars
    PROVE  ReadInv' /\ EndInv' /\ Ends
<1>0. Types
  BY DEF IInv
<1>1. CASE \E c \in Chans, o \in Ops : Call(o[1], c, o[2])
  <2>1. PICK c \in Chans, o \in Ops : Call(o[1], c, o[2])
    BY <1>1, Zenon
  <2>2. call = Idle /\ UNCHANGED <<session, app>>
    BY <2>1 DEF Call
  <2>3. call' = [op |-> o[1], c |-> c, arg |-> o[2], at |-> "enter", n |-> Zero]
    BY <2>1 DEF Call
  <2>4. call'.at = "enter" /\ call.op = "none"
    BY <2>2, <2>3, IdleCall
  <2>5. SameReads /\ SameEnds
    BY <2>2, StandsStill DEF Undisturbed
  <2>6. ReadInv'
    BY <2>4, <2>5, KeepsReads
  <2> QED
    BY <2>4, <2>5, <2>6, EndsStay DEF Ends
<1>2. CASE Library /\ call.op # "read"
  <2>1. SameReads /\ call'.op # "read" /\ (SameEnds \/ \E rc \in Rcs : TransportRead(rc))
    BY <1>2, OtherReads
  <2>2. ReadInv'
    BY <1>2, <2>1, KeepsReads
  <2>3. EndInv'
    BY <1>0, <2>1, EndsStay, EndsRead
  <2> QED
    BY <1>2, <2>2, <2>3 DEF Ends
<1>3. CASE Library /\ call.op = "read"
  <2>1. CASE Wake
    <3>1. UNCHANGED <<session, app>> /\ Goto("enter") /\ call.at = "select"
      BY <2>1 DEF Wake
    <3>2. PICK k \in Execution : k = call
      BY DEF IInv, Types
    <3>3. call' = [k EXCEPT !.at = "enter"]
      BY <3>1, <3>2 DEF Goto
    <3>4. call'.at = "enter" /\ call'.op = "read"
      BY <1>3, <3>2, <3>3 DEF Execution
    <3>5. SameReads /\ SameEnds
      BY <3>1, StandsStill DEF Undisturbed
    <3>6. ReadInv'
      BY <3>1, <3>4, <3>5, KeepsReads
    <3> QED
      BY <3>4, <3>5, <3>6, EndsStay DEF Ends
  <2>2. CASE ReadEnters
    <3>1. \E rc \in Rcs : TransportRead(rc)
      BY <2>2, Zenon DEF ReadEnters
    <3> QED
      BY <1>0, <2>2, <3>1, EndsRead, ReadEntersEnds
  <2>3. CASE ReadCopies
    <3>1. SameEnds
      <4>1. UNCHANGED <<inbound, peer>>
        BY <2>3 DEF ReadCopies
      <4>2. call.op # "none"
        BY <1>3
      <4>3. PICK c \in Chans : c = call.c
        BY <4>2, Executes
      <4>4. UNCHANGED ch \/ ch' = [ch EXCEPT ![c].jump1 = TRUE]
        BY <2>3, <4>3, Zenon DEF ReadCopies
      <4>5. PICK s \in Channel : s = ch[c]
        BY <1>0 DEF Types
      <4>6. PICK r : r = [s EXCEPT !.jump1 = TRUE]
        OBVIOUS
      <4>7. r.reof = s.reof /\ r.rclose = s.rclose
        BY <4>6 DEF Channel
      <4>8. UNCHANGED ch \/ ch' = [ch EXCEPT ![c] = r]
        BY <4>4, <4>5, <4>6
      <4>9. \A d \in Chans : ch'[d] \in {ch[d], IF d = c THEN r ELSE ch[d]}
        BY <1>0, <4>8 DEF Types
      <4>10. \A d \in Chans : ch'[d].reof \/ ch'[d].rclose => ch[d].reof \/ ch[d].rclose
        BY <4>5, <4>7, <4>9
      <4> QED
        BY <4>1, <4>10 DEF SameEnds
    <3> QED
      BY <2>3, <3>1, EndsStay, ReadCopiesEnds
  <2>4. CASE ReadAdjusts
    <3>1. SameEnds
      <4>1. inbound' = inbound
        BY <2>4 DEF ReadAdjusts
      <4>2. call.op # "none"
        BY <1>3
      <4>3. PICK c \in Chans : c = call.c
        BY <4>2, Executes
      <4>4. PICK m \in Nat, force \in BOOLEAN : m = 2 * LowWater /\ force = FALSE
        <5>1. 2 * LowWater \in Nat
          BY ChannelAssumption
        <5> QED
          BY <5>1, Zenon
      <4>5. PICK rc \in Rcs :
              /\ Adjust(c, m, force, rc)
              /\ ch' = [ch EXCEPT ![c] =
                    [Adjusted(c, m, force, rc) EXCEPT !.jump1 = rc = "EAGAIN"]]
        BY <2>4, <4>3, <4>4, Zenon DEF ReadAdjusts
      <4>6. PICK r : r = Adjusted(c, m, force, rc)
        OBVIOUS
      <4>7. r \in Channel /\ Follows(ch[c], r)
        BY <1>0, <4>6, AdjustedFollows
      <4>8. PICK f : f = (rc = "EAGAIN")
        OBVIOUS
      <4>9. PICK q : q = [r EXCEPT !.jump1 = f]
        OBVIOUS
      <4>10. ch' = [ch EXCEPT ![c] = q]
        BY <4>5, <4>6, <4>8, <4>9, Zenon
      <4>11. q.reof \/ q.rclose => ch[c].reof \/ ch[c].rclose
        BY <4>7, <4>9 DEF Channel, Follows
      <4>12. SaysNothing
        BY <1>0, <4>5, AdjustSays
      <4>13. \A d \in Chans : ch'[d] = IF d = c THEN q ELSE ch[d]
        BY <1>0, <4>10 DEF Types
      <4>14. \A d \in Chans : ch'[d].reof \/ ch'[d].rclose => ch[d].reof \/ ch[d].rclose
        BY <4>11, <4>13, Zenon
      <4> QED
        BY <4>1, <4>12, <4>14, Zenon DEF SameEnds, SaysNothing
    <3> QED
      BY <2>4, <3>1, EndsStay, ReadAdjustsEnds
  <2>5. Wake \/ ReadEnters \/ ReadCopies \/ ReadAdjusts
    BY <1>3 DEF Library, WriteEnters, WriteDrains, WriteSplits, WriteSends, FlushEnters, FlushRefunds,
       WindowAdjusts, ExtendedData, SendEof, WaitEof, WaitClosed, CloseEnters, CloseSends, CloseAwaits,
       CloseEnds, FreeCleans, Running, Closes
  <2> QED
    BY <2>1, <2>2, <2>3, <2>4, <2>5, Zenon
<1>4. ASSUME UNCHANGED <<ch, app, call>>, net' = "up" => net = "up"
      PROVE  ReadInv' /\ Ends
  <2>1. ReadInv'
    BY <1>4, Zenon DEF ReadInv
  <2>2. call.op = "read" => call'.op # "none"
    BY <1>4
  <2> QED
    BY <2>1, <2>2, Zenon DEF Ends
<1>5. CASE \E c \in Chans, s \in Streams, n \in Lens : PeerData(c, s, n)
  <2>1. UNCHANGED <<ch, app, call, net>>
    BY <1>5 DEF PeerData
  <2> QED
    BY <1>4, <1>5, <2>1, EndsPeer
<1>6. CASE \E c \in Chans, kind \in {"eof", "close", "adjust", "request", "disconnect"} :
             PeerSays(kind, c)
  <2>1. UNCHANGED <<ch, app, call, net>>
    BY <1>6 DEF PeerSays
  <2> QED
    BY <1>4, <1>6, <2>1, EndsPeer
<1>7. CASE \E c \in Chans : PeerAnswersClose(c)
  <2>1. UNCHANGED <<ch, app, call, net>>
    BY <1>7 DEF PeerAnswersClose
  <2> QED
    BY <1>4, <1>7, <2>1, EndsPeer
<1>8. CASE ConnectionBreaks
  <2>1. UNCHANGED <<ch, app, call, inbound, peer>> /\ net' = "broken"
    BY <1>8 DEF ConnectionBreaks
  <2>2. SameEnds
    BY <2>1 DEF SameEnds
  <2> QED
    BY <1>4, <2>1, <2>2, EndsStay
<1>9. CASE UNCHANGED vars
  <2>1. UNCHANGED <<ch, app, call, net, inbound, peer>>
    BY <1>9 DEF vars
  <2>2. SameEnds
    BY <2>1 DEF SameEnds
  <2> QED
    BY <1>4, <2>1, <2>2, EndsStay
<1> QED
  BY <1>1, <1>2, <1>3, <1>5, <1>6, <1>7, <1>8, <1>9, Zenon DEF Next

\* A read returns no bytes only at the end of the connection, or at the end of its stream
\* with nothing of it on its way or in the brigade (_libssh2_channel_read, "It is important
\* to not return 0 until the currently read channel is complete"), unless it is the repetition
\* of one that has lost its bytes to an adjustment of the window that could not be sent.
THEOREM ZeroBytesMeanTheEnd == Spec => ZeroMeansEnd
<1>1. Init => ReadInv
  BY IdleCall DEF Init, ReadInv, NewChannel
<1>2. Init => EndInv
  BY DEF Init, EndInv, EndOK, NewChannel
<1>3. IInv /\ ReadInv /\ EndInv /\ [Next]_vars => ReadInv' /\ EndInv'
  BY ReadNext
<1>4. IInv /\ ReadInv /\ EndInv /\ [Next]_vars => [Ends]_vars
  BY ReadNext
<1>5. Spec => [][Ends]_vars
  BY <1>1, <1>2, <1>3, <1>4, InvariantHolds, PTL DEF Spec
<1> QED
  BY <1>5 DEF Ends, ZeroMeansEnd
=============================================================================

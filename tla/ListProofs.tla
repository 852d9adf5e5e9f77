----------------------------- MODULE ListProofs -----------------------------
(***************************************************************************)
(* What the list operators return, for lists of every length, and the      *)
(* rules the proofs about loops rest on.  Induction comes from the least   *)
(* element of a set of naturals: a recursive function exists, is the one   *)
(* its definition chooses, and keeps whatever each of its steps keeps.     *)
(***************************************************************************)
EXTENDS Lists, Integers, WellFoundedInduction, TLAPS

\* Every nonempty set of naturals has a least member.
LEMMA NatMin ==
  ASSUME NEW S \in SUBSET Nat, S # {}
  PROVE \E m \in S : \A k \in S : m <= k
<1> DEFINE R == OpToRel(<, Nat)
<1>1. IsWellFoundedOn(R, Nat)
  BY NatLessThanWellFounded
<1>2. \A x, y \in Nat : y < x => <<y, x>> \in R
  BY DEF OpToRel
<1> HIDE DEF R
<1>3. PICK x \in S : \A y \in S : ~(<<y, x>> \in R)
  BY <1>1, WFMin
<1>4. \A k \in S : ~(k < x)
  BY <1>2, <1>3, Zenon
<1>5. \A k \in S : x <= k
  BY <1>4
<1> QED BY <1>5

\* Induction: what holds of 0 and of every successor holds of every natural.
LEMMA NatInd ==
  ASSUME NEW S, 0 \in S, \A n \in Nat : n \in S => n + 1 \in S
  PROVE Nat \subseteq S
<1> SUFFICES ASSUME Nat \ S # {} PROVE FALSE
  OBVIOUS
<1>1. PICK m \in Nat \ S : \A k \in Nat \ S : m <= k
  BY NatMin
<1> QED BY <1>1

\* f starts with c and takes n steps of D in T.
Iterates(f, T, c, n, D) ==
    f \in [0 .. n -> T] /\ f[0] = c /\ \A i \in 1 .. n : f[i] = D[<<f[i-1], i>>]

\* A step function has its iteration of any length.
LEMMA Recursion ==
  ASSUME NEW T, NEW c \in T, NEW n \in Nat, NEW D \in [T \X (1 .. n) -> T]
  PROVE \E f : Iterates(f, T, c, n, D)
<1> DEFINE OK(f, k) == f[0] = c /\ \A i \in 1 .. k : f[i] = D[<<f[i-1], i>>]
           S == {k \in Nat : k <= n => \E f \in [0 .. k -> T] : OK(f, k)}
<1>1. 0 \in S
  <2>1. OK([i \in 0 .. 0 |-> c], 0) OBVIOUS
  <2> QED BY <2>1
<1>2. ASSUME NEW k \in Nat, k \in S PROVE k + 1 \in S
  <2> SUFFICES ASSUME k + 1 <= n PROVE \E f \in [0 .. k+1 -> T] : OK(f, k+1)
    OBVIOUS
  <2>1. PICK f \in [0 .. k -> T] : OK(f, k)
    BY <1>2
  <2> DEFINE g == [i \in 0 .. k+1 |-> IF i = k+1 THEN D[<<f[k], k+1>>] ELSE f[i]]
  <2>2. g \in [0 .. k+1 -> T]
    OBVIOUS
  <2>3. OK(g, k+1)
    <3>1. g[0] = c BY <2>1
    <3>2. g[k+1] = D[<<g[k], k+1>>]
      <4>1. g[k] = f[k] /\ g[k+1] = D[<<f[k], k+1>>] OBVIOUS
      <4> HIDE DEF g
      <4> QED BY <4>1
    <3>3. ASSUME NEW i \in 1 .. k PROVE g[i] = D[<<g[i-1], i>>]
      <4>1. g[i] = f[i] /\ g[i-1] = f[i-1] OBVIOUS
      <4> HIDE DEF g
      <4> QED BY <2>1, <4>1
    <3> HIDE DEF g
    <3>4. ASSUME NEW i \in 1 .. k+1 PROVE g[i] = D[<<g[i-1], i>>]
      <4>1. CASE i = k+1
        <5>1. i - 1 = k BY <4>1
        <5> QED BY <3>2, <4>1, <5>1
      <4>2. CASE i # k+1
        BY <3>3, <4>2
      <4> QED BY <4>1, <4>2
    <3> QED BY <3>1, <3>4
  <2> QED BY <2>2, <2>3
<1> HIDE DEF S
<1>3. n \in S
  BY <1>1, <1>2, NatInd
<1>4. PICK f \in [0 .. n -> T] : OK(f, n)
  BY <1>3 DEF S
<1>5. Iterates(f, T, c, n, D)
  BY <1>4 DEF Iterates
<1> QED BY <1>5

\* What every pass of a loop of n passes keeps holds after each of them.
LEMMA LoopInvariant ==
  ASSUME NEW n \in Nat, NEW f, NEW T, f[0] \in T,
         \A i \in 1 .. n : f[i-1] \in T => f[i] \in T
  PROVE \A i \in 0 .. n : f[i] \in T
<1> DEFINE S == {k \in Nat : k <= n => f[k] \in T}
<1>1. 0 \in S OBVIOUS
<1>2. ASSUME NEW k \in Nat, k \in S PROVE k + 1 \in S
  <2> SUFFICES ASSUME k + 1 <= n PROVE f[k+1] \in T OBVIOUS
  <2>1. f[k] \in T BY <1>2
  <2>2. k + 1 \in 1 .. n /\ (k + 1) - 1 = k OBVIOUS
  <2> QED BY <2>1, <2>2
<1> HIDE DEF S
<1>3. Nat \subseteq S BY <1>1, <1>2, NatInd
<1> QED BY <1>3 DEF S


\* F is the function a recursive definition with step function D defines.
DefinedBy(F, c, n, D) ==
    F = CHOOSE f : f = [i \in 0 .. n |-> IF i = 0 THEN c ELSE D[<<f[i-1], i>>]]

\* A recursive definition whose step stays in T defines its iteration.
LEMMA ChosenRecursion ==
  ASSUME NEW T, NEW c \in T, NEW n \in Nat, NEW D,
         \A u \in T : \A i \in 1 .. n : D[<<u, i>>] \in T,
         NEW F, DefinedBy(F, c, n, D)
  PROVE  Iterates(F, T, c, n, D)
<1> DEFINE G(f) == f = [i \in 0 .. n |-> IF i = 0 THEN c ELSE D[<<f[i-1], i>>]]
           E == [p \in T \X (1 .. n) |-> D[<<p[1], p[2]>>]]
<1>0. E \in [T \X (1 .. n) -> T] /\ \A u \in T : \A i \in 1 .. n : E[<<u, i>>] = D[<<u, i>>]
  OBVIOUS
<1> HIDE DEF E
<1>1. PICK h : Iterates(h, T, c, n, E)
  BY <1>0, Recursion
<1>2. G(h)
  <2>1. h \in [0 .. n -> T] /\ h[0] = c /\ \A i \in 1 .. n : h[i] = E[<<h[i-1], i>>]
    BY <1>1 DEF Iterates
  <2>2. \A i \in 1 .. n : h[i] = D[<<h[i-1], i>>]
    BY <1>0, <2>1
  <2> QED BY <2>1, <2>2
<1>3. G(F)
  <2> HIDE DEF G
  <2>1. F = CHOOSE f : G(f)
    BY Zenon DEF G, DefinedBy
  <2> QED BY <1>2, <2>1, Zenon
<1>4. F[0] = c /\ \A i \in 1 .. n : F[i] = D[<<F[i-1], i>>]
  BY <1>3
<1>5. F = [i \in 0 .. n |-> F[i]]
  BY <1>3
<1>6. \A i \in 0 .. n : F[i] \in T
  <2>1. \A i \in 1 .. n : F[i-1] \in T => F[i] \in T
    BY <1>4
  <2> QED BY <2>1, <1>4, LoopInvariant
<1> QED BY <1>4, <1>5, <1>6 DEF Iterates

\* F is a loop of at most N rounds over X: a state of H ends it with the result A,
\* any other one goes on with C, and without rounds left the result is B.
IsLoop(F, X, N, H, A, B, C) ==
    \A x \in X :
        /\ F[<<x, 0>>] = B[x]
        /\ \A n \in 1 .. N : F[<<x, n>>] = IF x \in H THEN A[x] ELSE F[<<C[x], n-1>>]

\* Every loop exists as a function of its state and the rounds it has left.
LEMMA LoopExists ==
  ASSUME NEW X, NEW N \in Nat, NEW H, NEW A \in [X -> X], NEW B \in [X -> X],
         NEW C \in [X -> X]
  PROVE  \E F \in [X \X (0 .. N) -> X] : IsLoop(F, X, N, H, A, B, C)
<1> DEFINE T == [X -> X]
           Round(g) == [x \in X |-> IF x \in H THEN A[x] ELSE g[C[x]]]
           D == [p \in T \X (1 .. N) |-> Round(p[1])]
<1>1. D \in [T \X (1 .. N) -> T]
  OBVIOUS
<1>2. \A g \in T : \A n \in 1 .. N : D[<<g, n>>] = Round(g)
  OBVIOUS
<1>3. \A g \in T : \A x \in X : Round(g)[x] = IF x \in H THEN A[x] ELSE g[C[x]]
  OBVIOUS
<1> HIDE DEF D
<1>4. B \in T OBVIOUS
<1> HIDE DEF T
<1>5. PICK f : Iterates(f, T, B, N, D)
  BY <1>1, <1>4, Recursion
<1>6. f \in [0 .. N -> T] /\ f[0] = B /\ \A n \in 1 .. N : f[n] = D[<<f[n-1], n>>]
  BY <1>5 DEF Iterates
<1> HIDE DEF Round
<1>7. ASSUME NEW n \in 1 .. N PROVE f[n-1] \in T /\ f[n] = Round(f[n-1])
  <2>1. n - 1 \in 0 .. N OBVIOUS
  <2>2. f[n-1] \in T BY <1>6, <2>1
  <2> QED BY <1>2, <1>6, <2>2
<1> DEFINE F == [p \in X \X (0 .. N) |-> f[p[2]][p[1]]]
<1>8. \A x \in X : \A n \in 0 .. N : F[<<x, n>>] = f[n][x]
  OBVIOUS
<1>9. F \in [X \X (0 .. N) -> X]
  BY <1>6 DEF T
<1> HIDE DEF F
<1>10. ASSUME NEW x \in X, NEW n \in 1 .. N
       PROVE  F[<<x, n>>] = IF x \in H THEN A[x] ELSE F[<<C[x], n-1>>]
  <2>1. F[<<x, n>>] = Round(f[n-1])[x] BY <1>7, <1>8
  <2>2. Round(f[n-1])[x] = IF x \in H THEN A[x] ELSE f[n-1][C[x]] BY <1>3, <1>7
  <2>3. C[x] \in X /\ n - 1 \in 0 .. N OBVIOUS
  <2>4. F[<<C[x], n-1>>] = f[n-1][C[x]] BY <1>8, <2>3
  <2> QED BY <2>1, <2>2, <2>4
<1>11. \A x \in X : F[<<x, 0>>] = B[x]
  BY <1>6, <1>8
<1>12. IsLoop(F, X, N, H, A, B, C)
  BY <1>10, <1>11 DEF IsLoop
<1> QED BY <1>9, <1>12

\* The rounds keep J and lower the rank R; where the loop ends, its result is in K.
Descends(J, K, R, X, H, A, C) ==
    /\ J \subseteq X /\ R \in [X -> Nat]
    /\ \A x \in J : IF x \in H THEN A[x] \in K ELSE C[x] \in J /\ R[C[x]] < R[x]

\* Such a loop ends, with a result in K, before it has used up as many rounds as its
\* state has rank.
LEMMA LoopEnds ==
  ASSUME NEW X, NEW N \in Nat, NEW H, NEW A, NEW B, NEW C, NEW F, NEW J, NEW K, NEW R,
         IsLoop(F, X, N, H, A, B, C), Descends(J, K, R, X, H, A, C)
  PROVE  \A x \in J : \A n \in 0 .. N : R[x] < n => F[<<x, n>>] \in K
<1> USE DEF Descends
<1> DEFINE OK(n) == n <= N => \A x \in J : R[x] < n => F[<<x, n>>] \in K
           S == {n \in Nat : OK(n)}
<1>1. 0 \in S
  <2>1. \A x \in J : R[x] \in Nat OBVIOUS
  <2> QED BY <2>1
<1>2. ASSUME NEW n \in Nat, n \in S PROVE n + 1 \in S
  <2> SUFFICES ASSUME n + 1 <= N, NEW x \in J, R[x] < n + 1
               PROVE  F[<<x, n + 1>>] \in K
    OBVIOUS
  <2>1. n + 1 \in 1 .. N /\ (n + 1) - 1 = n /\ x \in X OBVIOUS
  <2>2. F[<<x, n + 1>>] = IF x \in H THEN A[x] ELSE F[<<C[x], n>>]
    BY <2>1 DEF IsLoop
  <2>3. CASE x \in H BY <2>2, <2>3
  <2>4. CASE x \notin H
    <3>1. C[x] \in J /\ R[C[x]] < R[x] BY <2>4
    <3>2. R[C[x]] \in Nat /\ R[x] \in Nat BY <3>1
    <3>3. R[C[x]] < n BY <3>1, <3>2
    <3>4. n <= N OBVIOUS
    <3>5. F[<<C[x], n>>] \in K BY <1>2, <3>1, <3>3, <3>4
    <3> QED BY <2>2, <2>4, <3>5
  <2> QED BY <2>3, <2>4
<1> HIDE DEF S
<1>3. Nat \subseteq S BY <1>1, <1>2, NatInd
<1>4. \A n \in 0 .. N : OK(n)
  BY <1>3 DEF S
<1> QED BY <1>4

\* The results of a loop over X are in X.
LEMMA LoopStays ==
  ASSUME NEW X, NEW N \in Nat, NEW H, NEW A \in [X -> X], NEW B \in [X -> X],
         NEW C \in [X -> X], NEW F, IsLoop(F, X, N, H, A, B, C)
  PROVE  \A x \in X : \A n \in 0 .. N : F[<<x, n>>] \in X
<1> DEFINE OK(n) == n <= N => \A x \in X : F[<<x, n>>] \in X
           S == {n \in Nat : OK(n)}
<1>1. 0 \in S BY DEF IsLoop
<1>2. ASSUME NEW n \in Nat, n \in S PROVE n + 1 \in S
  <2> SUFFICES ASSUME n + 1 <= N, NEW x \in X PROVE F[<<x, n + 1>>] \in X
    OBVIOUS
  <2>1. n + 1 \in 1 .. N /\ (n + 1) - 1 = n /\ C[x] \in X OBVIOUS
  <2>2. F[<<x, n + 1>>] = IF x \in H THEN A[x] ELSE F[<<C[x], n>>]
    BY <2>1 DEF IsLoop
  <2>3. F[<<C[x], n>>] \in X BY <1>2, <2>1
  <2> QED BY <2>2, <2>3
<1> HIDE DEF S
<1>3. Nat \subseteq S BY <1>1, <1>2, NatInd
<1>4. \A n \in 0 .. N : OK(n)
  BY <1>3 DEF S
<1> QED BY <1>4

\* f[i] is what the walk of Kept(s, K) has left of the first i entries.
KeptWalk(f, S, s, K) ==
    /\ f \in [0 .. Len(s) -> Seq(S)]
    /\ Kept(s, K) = f[Len(s)]
    /\ f[0] = <<>>
    /\ \A i \in 1 .. Len(s) : f[i] = IF s[i] \in K THEN Append(f[i-1], s[i]) ELSE f[i-1]

\* The walk Kept takes down a list exists, one step per entry.
LEMMA KeptDef ==
  ASSUME NEW S, NEW s \in Seq(S), NEW K
  PROVE \E f : KeptWalk(f, S, s, K)
<1> DEFINE T == Seq(S)
           n == Len(s)
           c == <<>>
           B(u, i) == IF s[i] \in K THEN Append(u, s[i]) ELSE u
           D == [p \in T \X (1 .. n) |-> B(p[1], p[2])]
           G(f) == f = [i \in 0 .. n |-> IF i = 0 THEN c ELSE B(f[i-1], i)]
           F == CHOOSE f : G(f)
<1>1. Kept(s, K) = F[n]
  BY Zenon DEF Kept
<1>2. c \in T /\ n \in Nat /\ \A u \in T : \A i \in 1 .. n : B(u, i) \in T
  OBVIOUS
<1>3. \A u \in T : \A i \in 1 .. n : Append(u, s[i]) \in T
  OBVIOUS
<1> HIDE DEF c, T, n, B
<1>4. D \in [T \X (1 .. n) -> T]
  BY <1>2
<1>5. PICK h \in [0 .. n -> T] : h[0] = c /\ \A i \in 1 .. n : h[i] = D[<<h[i-1], i>>]
  <2> HIDE DEF D
  <2>1. PICK h : Iterates(h, T, c, n, D)
    BY <1>2, <1>4, Recursion
  <2> QED BY <2>1 DEF Iterates
<1>6. ASSUME NEW i \in 1 .. n PROVE h[i] = B(h[i-1], i)
  <2>1. h[i-1] \in T BY <1>2
  <2>2. D[<<h[i-1], i>>] = B(h[i-1], i)
    BY <2>1
  <2> QED BY <1>5, <2>2
<1>7. G(h)
  <2> HIDE DEF D
  <2> QED BY <1>5, <1>6
<1>8. G(F)
  <2> HIDE DEF G
  <2> QED BY <1>7, Zenon
<1> HIDE DEF F
<1>9. F[0] = c /\ \A i \in 1 .. n : F[i] = B(F[i-1], i)
  BY <1>2, <1>8
<1>10. F = [i \in 0 .. n |-> F[i]]
  BY <1>8
<1>11. \A i \in 0 .. n : F[i] \in T
  <2>1. \A i \in 1 .. n : F[i-1] \in T => F[i] \in T
    BY <1>2, <1>9
  <2> QED BY <2>1, <1>2, <1>9, LoopInvariant
<1>12. F \in [0 .. n -> T]
  BY <1>10, <1>11
<1> QED 
  BY <1>9, <1>1, <1>12 DEF c, n, T, B, KeptWalk

\* t is s without some of its entries: h[i] is the place in s of t's entry i.
Places(t, s, h) ==
    /\ h \in [1 .. Len(t) -> 1 .. Len(s)]
    /\ \A i \in 1 .. Len(t) : t[i] = s[h[i]]
    /\ \A i, j \in 1 .. Len(t) : i < j => h[i] < h[j]

\* Kept returns entries of the list, each at most once and in their order.
LEMMA KeptSublist ==
  ASSUME NEW S, NEW s \in Seq(S), NEW K
  PROVE  /\ Kept(s, K) \in Seq(S)
         /\ Len(Kept(s, K)) <= Len(s)
         /\ \A i \in 1 .. Len(Kept(s, K)) : Kept(s, K)[i] \in K
         /\ \E h : Places(Kept(s, K), s, h)
         /\ \A i \in 1 .. Len(s) : s[i] \in K =>
              \E j \in 1 .. Len(Kept(s, K)) : Kept(s, K)[j] = s[i]
<1> DEFINE n == Len(s)
           L(h, t, i) == /\ h \in [1 .. Len(t) -> 1 .. i]
                         /\ \A j \in 1 .. Len(t) : t[j] = s[h[j]] /\ s[h[j]] \in K
                         /\ \A j, k \in 1 .. Len(t) : j < k => h[j] < h[k]
           C(t, i) == \A j \in 1 .. i : s[j] \in K => \E k \in 1 .. Len(t) : t[k] = s[j]
           P(t, i) == /\ Len(t) <= i /\ \E h : L(h, t, i)
                      /\ C(t, i)
<1>0. n \in Nat
  OBVIOUS
<1>1. PICK f \in [0 .. n -> Seq(S)] :
          /\ Kept(s, K) = f[n]
          /\ f[0] = <<>>
          /\ \A i \in 1 .. n : f[i] = IF s[i] \in K THEN Append(f[i-1], s[i]) ELSE f[i-1]
  <2>1. PICK f : KeptWalk(f, S, s, K)
    BY KeptDef
  <2> QED BY <2>1 DEF KeptWalk
<1> DEFINE T == {k \in Nat : k <= n => P(f[k], k)}
<1>2. 0 \in T
  <2>1. L(<<>>, <<>>, 0)
    OBVIOUS
  <2>2. C(<<>>, 0) /\ Len(<<>>) = 0
    OBVIOUS
  <2> HIDE DEF L, C
  <2> QED BY <1>1, <2>1, <2>2
<1>3. ASSUME NEW k \in Nat, k \in T PROVE k + 1 \in T
  <2> SUFFICES ASSUME k + 1 <= n PROVE P(f[k+1], k+1)
    OBVIOUS
  <2> DEFINE t == f[k]
  <2>1. t \in Seq(S) /\ k + 1 \in 1 .. n /\ (k + 1) - 1 = k
    OBVIOUS
  <2>2. f[k+1] = IF s[k+1] \in K THEN Append(t, s[k+1]) ELSE t
    BY <1>1, <2>1
  <2>3. PICK h : L(h, t, k)
    BY <1>3
  <2>4. C(t, k) /\ Len(t) <= k
    BY <1>3
  <2> HIDE DEF t
  <2>5. CASE s[k+1] \in K
    <3> DEFINE u == Append(t, s[k+1])
               g == [j \in 1 .. Len(t) + 1 |-> IF j = Len(t) + 1 THEN k + 1 ELSE h[j]]
    <3>1. Len(u) = Len(t) + 1 /\ u[Len(t) + 1] = s[k+1] /\ (\A j \in 1 .. Len(t) : u[j] = t[j])
          /\ Len(t) \in Nat /\ s[k+1] \in S
      BY <2>1
    <3> HIDE DEF u
    <3>2. g \in [1 .. Len(u) -> 1 .. k+1]
      BY <2>3, <3>1
    <3>3. ASSUME NEW j \in 1 .. Len(u) PROVE u[j] = s[g[j]] /\ s[g[j]] \in K
      <4>1. CASE j = Len(t) + 1
        BY <2>5, <3>1, <4>1
      <4>2. CASE j \in 1 .. Len(t)
        <5>1. g[j] = h[j] BY <3>1, <4>2
        <5> QED BY <2>3, <3>1, <4>2, <5>1
      <4> QED BY <3>1, <4>1, <4>2
    <3>4. ASSUME NEW j \in 1 .. Len(u), NEW i \in 1 .. Len(u), j < i PROVE g[j] < g[i]
      <4>1. j \in 1 .. Len(t) /\ g[j] = h[j] /\ h[j] \in 1 .. k
        BY <2>3, <3>1, <3>4
      <4>2. CASE i = Len(t) + 1
        BY <3>1, <4>1, <4>2
      <4>3. CASE i \in 1 .. Len(t)
        <5>1. g[i] = h[i] BY <3>1, <4>3
        <5> QED BY <2>3, <3>4, <4>1, <4>3, <5>1
      <4> QED BY <3>1, <4>2, <4>3
    <3>5. L(g, u, k+1)
      <4> HIDE DEF g
      <4> QED BY <3>2, <3>3, <3>4
    <3>6. C(u, k+1)
      <4> SUFFICES ASSUME NEW j \in 1 .. k+1, s[j] \in K PROVE \E i \in 1 .. Len(u) : u[i] = s[j]
        OBVIOUS
      <4>1. CASE j = k + 1
        <5>1. Len(t) + 1 \in 1 .. Len(u) BY <3>1
        <5> QED BY <3>1, <4>1, <5>1
      <4>2. CASE j \in 1 .. k
        <5>1. PICK i \in 1 .. Len(t) : t[i] = s[j] BY <2>4, <4>2
        <5>2. i \in 1 .. Len(u) /\ u[i] = s[j] BY <3>1, <5>1
        <5> QED BY <5>2
      <4> QED BY <4>1, <4>2
    <3>7. f[k+1] = u BY <2>2, <2>5 DEF u
    <3>8. Len(u) <= k + 1 BY <2>4, <3>1
    <3> HIDE DEF L, C, g
    <3> QED BY <3>5, <3>6, <3>7, <3>8
  <2>6. CASE s[k+1] \notin K
    <3>1. L(h, t, k+1)
      BY <2>3
    <3>2. C(t, k+1)
      BY <2>4, <2>6
    <3>3. f[k+1] = t /\ Len(t) <= k + 1
      BY <2>1, <2>2, <2>4, <2>6
    <3> HIDE DEF L, C
    <3> QED BY <3>1, <3>2, <3>3
  <2> QED BY <2>5, <2>6
<1>4. n \in T
  <2> HIDE DEF T
  <2> QED BY <1>0, <1>2, <1>3, NatInd
<1>5. P(f[n], n)
  <2> HIDE DEF P
  <2> QED BY <1>4, <1>0
<1> DEFINE t == f[n]
<1>6. t \in Seq(S) /\ t = Kept(s, K)
  BY <1>0, <1>1
<1>7. \A i \in 1 .. Len(t) : t[i] \in K
  BY <1>5
<1>8. \E h : Places(t, s, h)
  BY <1>5 DEF Places
<1>9. Len(t) <= n /\ C(t, n)
  BY <1>5
<1> HIDE DEF t
<1> QED BY <1>6, <1>7, <1>8, <1>9
\* A walk that unlinks nothing leaves the list as it is.
LEMMA KeptAll ==
  ASSUME NEW S, NEW s \in Seq(S), NEW K, \A i \in 1 .. Len(s) : s[i] \in K
  PROVE  Kept(s, K) = s
<1> DEFINE n == Len(s)
<1>0. n \in Nat OBVIOUS
<1>1. PICK f : KeptWalk(f, S, s, K) BY KeptDef
<1>2. /\ f \in [0 .. n -> Seq(S)] /\ Kept(s, K) = f[n] /\ f[0] = <<>>
      /\ \A i \in 1 .. n : f[i] = Append(f[i-1], s[i])
  BY <1>1 DEF KeptWalk
<1> DEFINE T == {k \in Nat : k <= n => Len(f[k]) = k /\ \A j \in 1 .. k : f[k][j] = s[j]}
<1>3. 0 \in T BY <1>2
<1>4. ASSUME NEW k \in Nat, k \in T PROVE k + 1 \in T
  <2> SUFFICES ASSUME k + 1 <= n
               PROVE  Len(f[k+1]) = k + 1 /\ \A j \in 1 .. k + 1 : f[k+1][j] = s[j]
    OBVIOUS
  <2>1. k + 1 \in 1 .. n /\ (k + 1) - 1 = k OBVIOUS
  <2>2. f[k+1] = Append(f[k], s[k+1]) BY <1>2, <2>1
  <2>3. f[k] \in Seq(S) /\ s[k+1] \in S /\ Len(f[k]) = k /\ \A j \in 1 .. k : f[k][j] = s[j]
    <3>1. k \in 0 .. n BY <1>0
    <3>2. f[k] \in Seq(S) /\ s[k+1] \in S
      <4>1. f[k] \in Seq(S) BY <1>2, <3>1
      <4>2. s[k+1] \in S BY <2>1
      <4> QED BY <4>1, <4>2
    <3>3. Len(f[k]) = k /\ \A j \in 1 .. k : f[k][j] = s[j] BY <1>0, <1>4
    <3> QED BY <3>2, <3>3
  <2> QED BY <2>2, <2>3
<1>5. n \in T
  <2> HIDE DEF T
  <2> QED BY <1>0, <1>3, <1>4, NatInd
<1> DEFINE t == f[n]
<1>6. t \in Seq(S) /\ Len(t) = n /\ \A j \in 1 .. n : t[j] = s[j]
  BY <1>0, <1>2, <1>5
<1> HIDE DEF t
<1>7. t = s BY <1>6
<1> QED BY <1>2, <1>7 DEF t

\* A walk that unlinks one entry.
LEMMA KeptOne ==
  ASSUME NEW S, NEW s \in Seq(S), NEW K, NEW p \in 1 .. Len(s),
         \A i \in 1 .. Len(s) : s[i] \in K <=> i # p
  PROVE  Len(Kept(s, K)) = Len(s) - 1
<1> DEFINE n == Len(s)
<1>0. n \in Nat OBVIOUS
<1>1. PICK f : KeptWalk(f, S, s, K) BY KeptDef
<1>2. /\ f \in [0 .. n -> Seq(S)] /\ Kept(s, K) = f[n] /\ f[0] = <<>>
      /\ \A i \in 1 .. n : f[i] = IF i # p THEN Append(f[i-1], s[i]) ELSE f[i-1]
  BY <1>1 DEF KeptWalk
<1> DEFINE T == {k \in Nat : k <= n => Len(f[k]) = IF p <= k THEN k - 1 ELSE k}
<1>3. 0 \in T BY <1>2
<1>4. ASSUME NEW k \in Nat, k \in T PROVE k + 1 \in T
  <2> SUFFICES ASSUME k + 1 <= n
               PROVE  Len(f[k+1]) = IF p <= k + 1 THEN k ELSE k + 1
    OBVIOUS
  <2>1. k + 1 \in 1 .. n /\ (k + 1) - 1 = k OBVIOUS
  <2>2. f[k+1] = IF k + 1 # p THEN Append(f[k], s[k+1]) ELSE f[k] BY <1>2, <2>1
  <2>3. f[k] \in Seq(S) /\ s[k+1] \in S /\ Len(f[k]) = IF p <= k THEN k - 1 ELSE k
    <3>1. k \in 0 .. n BY <1>0
    <3>2. f[k] \in Seq(S) /\ s[k+1] \in S BY <1>2, <2>1, <3>1
    <3>3. Len(f[k]) = IF p <= k THEN k - 1 ELSE k BY <1>0, <1>4
    <3> QED BY <3>2, <3>3
  <2> QED BY <2>2, <2>3
<1>5. n \in T
  <2> HIDE DEF T
  <2> QED BY <1>0, <1>3, <1>4, NatInd
<1> QED BY <1>0, <1>2, <1>5

\* The entries a walk leaves.
LEMMA KeptEntries ==
  ASSUME NEW S, NEW s \in Seq(S), NEW K
  PROVE  ListEntries(Kept(s, K)) = ListEntries(s) \cap K
<1> DEFINE t == Kept(s, K)
<1>1. /\ t \in Seq(S) /\ (\A i \in 1 .. Len(t) : t[i] \in K) /\ (\E h : Places(t, s, h))
      /\ \A i \in 1 .. Len(s) : s[i] \in K => \E j \in 1 .. Len(t) : t[j] = s[i]
  BY KeptSublist
<1> HIDE DEF t
<1>2. \A i \in 1 .. Len(t) : \E j \in 1 .. Len(s) : t[i] = s[j]
  BY <1>1 DEF Places
<1>3. DOMAIN t = 1 .. Len(t) /\ DOMAIN s = 1 .. Len(s) BY <1>1
<1>4. ListEntries(t) = ListEntries(s) \cap K
  <2>1. ASSUME NEW e \in ListEntries(t) PROVE e \in ListEntries(s) \cap K
    <3>1. PICK i \in 1 .. Len(t) : e = t[i] BY <1>3 DEF ListEntries
    <3>2. PICK j \in 1 .. Len(s) : t[i] = s[j] BY <1>2
    <3> QED BY <1>1, <1>3, <3>1, <3>2 DEF ListEntries
  <2>2. ASSUME NEW e \in ListEntries(s), e \in K PROVE e \in ListEntries(t)
    <3>1. PICK i \in 1 .. Len(s) : e = s[i] BY <1>3 DEF ListEntries
    <3>2. PICK j \in 1 .. Len(t) : t[j] = s[i] BY <1>1, <2>2, <3>1
    <3> QED BY <1>3, <3>1, <3>2 DEF ListEntries
  <2> QED BY <2>1, <2>2
<1> QED BY <1>4 DEF t
====

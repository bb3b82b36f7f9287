---------------------------- MODULE Lc2200Proofs ----------------------------
(***************************************************************************)
(* Whatever interrupts arrive and however they nest, each handler returns  *)
(* to what it interrupted (Levelled, Resumes), stores its own character    *)
(* (OwnKeyStored), counts exactly while none has been interrupted          *)
(* (HandlersCount), and the program stops with the factorial or at a       *)
(* pointer that an interrupted keyboard handler lost (StopsAtTheEnd).      *)
(***************************************************************************)
EXTENDS Lc2200Properties, FiniteSetTheorems, SequenceTheorems,
        WellFoundedInduction, TLAPS

-----------------------------------------------------------------------------
(* Sequences.                                                              *)

\* A sequence, of whatever its elements are.
IsSeq(s) == s \in Seq({s[k] : k \in DOMAIN s})

LEMMA SeqFacts ==
  ASSUME NEW S, NEW s \in Seq(S)
  PROVE  IsSeq(s)
<1> DEFINE R == {s[k] : k \in DOMAIN s}
<1>1. Len(s) \in Nat /\ s \in [1 .. Len(s) -> S]
  BY LenProperties
<1>2. s \in [1 .. Len(s) -> R]
  BY <1>1
<1> HIDE DEF R
<1>3. s \in Seq(R)
  BY <1>1, <1>2, SeqDef
<1> QED BY <1>3 DEF IsSeq, R

LEMMA FunctionIsSeq ==
  ASSUME NEW n \in Nat, NEW s, DOMAIN s = 1 .. n, s = [k \in 1 .. n |-> s[k]]
  PROVE  IsSeq(s) /\ Len(s) = n
<1> DEFINE R == {s[k] : k \in DOMAIN s}
<1>1. s \in [1 .. n -> R]
  OBVIOUS
<1> HIDE DEF R
<1>2. s \in Seq(R)
  BY <1>1, SeqDef
<1>3. Len(s) = n
  BY <1>2, LenProperties
<1> QED BY <1>2, <1>3 DEF IsSeq, R

LEMMA ConcatFacts ==
  ASSUME NEW s, NEW t, IsSeq(s), IsSeq(t)
  PROVE  /\ IsSeq(s \o t) /\ Len(s) \in Nat /\ Len(t) \in Nat
         /\ Len(s \o t) = Len(s) + Len(t)
         /\ \A k \in 1 .. Len(s) : (s \o t)[k] = s[k]
         /\ \A k \in 1 .. Len(t) : (s \o t)[Len(s) + k] = t[k]
<1> DEFINE S == {s[k] : k \in DOMAIN s} \cup {t[k] : k \in DOMAIN t}
           u == s \o t
<1>1. s \in Seq(S) /\ t \in Seq(S)
  <2>1. s \in Seq({s[k] : k \in DOMAIN s}) /\ t \in Seq({t[k] : k \in DOMAIN t})
    BY DEF IsSeq
  <2> QED BY <2>1
<1> HIDE DEF S
<1>2. /\ u \in Seq(S) /\ Len(s) \in Nat /\ Len(t) \in Nat
      /\ Len(u) = Len(s) + Len(t)
      /\ \A k \in 1 .. Len(s) + Len(t) :
           u[k] = IF k <= Len(s) THEN s[k] ELSE t[k - Len(s)]
  BY <1>1, ConcatProperties, LenProperties
<1>3. IsSeq(u)
  BY <1>2, SeqFacts
<1> HIDE DEF u
<1>4. ASSUME NEW k \in 1 .. Len(s)
      PROVE  u[k] = s[k]
  BY <1>2
<1>5. ASSUME NEW k \in 1 .. Len(t)
      PROVE  u[Len(s) + k] = t[k]
  BY <1>2
<1> QED BY <1>2, <1>3, <1>4, <1>5 DEF u

\* The same of sequences whose lengths are given.
IsLong(s, N) == N \in Nat /\ IsSeq(s) /\ Len(s) = N
Joins(u, s, t, N, M) ==
  /\ IsLong(u, N + M)
  /\ \A k \in 1 .. N : u[k] = s[k]
  /\ \A k \in 1 .. M : u[N + k] = t[k]

LEMMA Joined ==
  ASSUME NEW s, NEW N, IsLong(s, N), NEW t, NEW M, IsLong(t, M)
  PROVE  Joins(s \o t, s, t, N, M)
<1> DEFINE u == s \o t
<1>1. /\ IsSeq(u) /\ Len(u) = N + M
      /\ \A k \in 1 .. N : u[k] = s[k]
      /\ \A k \in 1 .. M : u[N + k] = t[k]
  <2>1. IsSeq(s) /\ IsSeq(t) /\ Len(s) = N /\ Len(t) = M
    BY DEF IsLong
  <2> QED BY <2>1, ConcatFacts
<1> HIDE DEF u
<1>2. N + M \in Nat
  BY DEF IsLong
<1>3. Joins(u, s, t, N, M)
  BY <1>1, <1>2 DEF Joins, IsLong
<1> QED BY <1>3 DEF u

\* Induction, over a set.
LEMMA Induction ==
  ASSUME NEW S \in SUBSET Nat, 0 \in S, \A n \in S : n + 1 \in S
  PROVE  S = Nat
<1> SUFFICES ASSUME Nat \ S # {} PROVE FALSE
  OBVIOUS
<1>1. \E x \in Nat \ S : \A y \in Nat \ S : ~ (<<y, x>> \in OpToRel(<, Nat))
  BY NatLessThanWellFounded, WFMin, Zenon
<1>2. \A x, y \in Nat : y < x => <<y, x>> \in OpToRel(<, Nat)
  <2> TAKE x, y \in Nat
  <2> HAVE y < x
  <2>1. <<y, x>> \in Nat \X Nat /\ <<y, x>>[1] < <<y, x>>[2]
    OBVIOUS
  <2>2. OpToRel(<, Nat) = {ss \in Nat \X Nat : ss[1] < ss[2]}
    BY Zenon DEF OpToRel
  <2> QED BY <2>1, <2>2
<1>3. PICK x \in Nat \ S : \A y \in Nat \ S : ~ (y < x)
  BY <1>1, <1>2, Zenon
<1>4. x - 1 \in Nat /\ x - 1 < x /\ (x - 1) + 1 = x
  BY <1>3
<1>5. x - 1 \in S
  BY <1>3, <1>4
<1> QED BY <1>3, <1>4, <1>5

-----------------------------------------------------------------------------
(* FlattenSeq of the community modules.                                    *)

\* g[i] is the first i sequences of ss, one behind the other.
Chains(g, n, ss) ==
  g = [i \in 1 .. n |-> IF i = 1 THEN ss[i] ELSE g[i - 1] \o ss[i]]

LEMMA ChainExists ==
  ASSUME NEW ss, NEW n \in Nat
  PROVE  \E g : Chains(g, n, ss)
<1> DEFINE S == {k \in Nat : \E g : Chains(g, k, ss)}
<1>1. 0 \in S
  <2> DEFINE g == [i \in 1 .. 0 |-> ss]
  <2>1. Chains(g, 0, ss)
    BY DEF Chains
  <2> QED BY <2>1
<1>2. ASSUME NEW k \in S
      PROVE  k + 1 \in S
  <2>1. k \in Nat
    OBVIOUS
  <2>2. PICK g : Chains(g, k, ss)
    OBVIOUS
  <2> DEFINE h == [i \in 1 .. k + 1 |->
                     IF i = k + 1 THEN IF i = 1 THEN ss[i] ELSE g[k] \o ss[i]
                                  ELSE g[i]]
  <2>3. ASSUME NEW i \in 1 .. k + 1
        PROVE  h[i] = IF i = 1 THEN ss[i] ELSE h[i - 1] \o ss[i]
    <3>1. CASE i = k + 1
      BY <2>1, <3>1
    <3>2. CASE i # k + 1
      <4>1. i \in 1 .. k /\ i \in 1 .. k + 1
        BY <2>1, <3>2
      <4>2. g[i] = IF i = 1 THEN ss[i] ELSE g[i - 1] \o ss[i]
        BY <2>2, <4>1 DEF Chains
      <4>3. h[i] = g[i]
        BY <3>2
      <4>4. i # 1 => h[i - 1] = g[i - 1]
        BY <2>1, <4>1
      <4> HIDE DEF h
      <4> QED BY <4>2, <4>3, <4>4
    <3> QED BY <3>1, <3>2
  <2>4. h = [i \in 1 .. k + 1 |-> h[i]]
    OBVIOUS
  <2> HIDE DEF h
  <2>5. Chains(h, k + 1, ss)
    BY <2>3, <2>4 DEF Chains
  <2> QED BY <2>1, <2>5
<1>3. S = Nat
  <2> HIDE DEF S
  <2>1. S \in SUBSET Nat
    BY DEF S
  <2> QED BY <1>1, <1>2, <2>1, Induction
<1>4. n \in S
  BY <1>3
<1> QED BY <1>4

Alike(tt, ss, m) == \A i \in 1 .. m : tt[i] = ss[i]

LEMMA ChainsAgree ==
  ASSUME NEW ss, NEW tt, NEW n \in Nat, NEW m \in Nat, m <= n, Alike(tt, ss, m),
         NEW g, Chains(g, n, ss), NEW h, Chains(h, m, tt)
  PROVE  Alike(h, g, m)
<1> DEFINE S == {k \in Nat : k \in 1 .. m => h[k] = g[k]}
<1>1. 0 \in S
  OBVIOUS
<1>2. ASSUME NEW k \in S
      PROVE  k + 1 \in S
  <2>1. k \in Nat
    OBVIOUS
  <2>2. ASSUME k + 1 \in 1 .. m
        PROVE  h[k + 1] = g[k + 1]
    <3>1. k + 1 \in 1 .. n
      BY <2>2
    <3>2. h[k + 1] = IF k + 1 = 1 THEN tt[k + 1] ELSE h[(k + 1) - 1] \o tt[k + 1]
      BY <2>2 DEF Chains
    <3>3. g[k + 1] = IF k + 1 = 1 THEN ss[k + 1] ELSE g[(k + 1) - 1] \o ss[k + 1]
      BY <3>1 DEF Chains
    <3>4. tt[k + 1] = ss[k + 1] /\ (k + 1) - 1 = k
      BY <2>1, <2>2 DEF Alike
    <3>5. k + 1 # 1 => h[k] = g[k]
      BY <2>1, <2>2
    <3> QED BY <3>2, <3>3, <3>4, <3>5
  <2> QED BY <2>1, <2>2
<1>3. S = Nat
  <2> HIDE DEF S
  <2>1. S \in SUBSET Nat
    BY DEF S
  <2> QED BY <1>1, <1>2, <2>1, Induction
<1> QED BY <1>3 DEF Alike

\* Where each of N sequences begins in the one that is made of all.
Begins(at, N, ss) ==
  /\ at \in [1 .. N + 1 -> Nat] /\ at[1] = 0
  /\ \A n \in 1 .. N : at[n + 1] = at[n] + Len(ss[n])
  /\ \A n \in 1 .. N : Len(FlattenSeq([k \in 1 .. n - 1 |-> ss[k]])) = at[n]
  /\ IsSeq(FlattenSeq(ss)) /\ Len(FlattenSeq(ss)) = at[N + 1]
  /\ \A n \in 1 .. N : \A i \in 1 .. Len(ss[n]) :
       FlattenSeq(ss)[at[n] + i] = ss[n][i]

LEMMA Flattened ==
  ASSUME NEW N \in Nat \ {0}, NEW ss, IsSeq(ss), Len(ss) = N,
         \A n \in 1 .. N : IsSeq(ss[n])
  PROVE  \E at : Begins(at, N, ss)
<1>1. PICK g : Chains(g, N, ss)
  BY ChainExists
<1>2. g[1] = ss[1] /\ \A n \in 1 .. N - 1 : g[n + 1] = g[n] \o ss[n + 1]
  <2>1. g[1] = ss[1]
    BY <1>1 DEF Chains
  <2>2. ASSUME NEW n \in 1 .. N - 1
        PROVE  g[n + 1] = g[n] \o ss[n + 1]
    <3>1. n + 1 \in 1 .. N /\ n + 1 # 1 /\ (n + 1) - 1 = n
      OBVIOUS
    <3>2. g[n + 1] = g[(n + 1) - 1] \o ss[n + 1]
      BY <1>1, <3>1 DEF Chains
    <3> QED BY <3>1, <3>2
  <2> QED BY <2>1, <2>2
<1>3. ASSUME NEW tt, NEW m \in 1 .. N, IsSeq(tt), Len(tt) = m,
             \A i \in 1 .. m : tt[i] = ss[i]
      PROVE  FlattenSeq(tt) = g[m]
  <2> DEFINE h == CHOOSE h : Chains(h, m, tt)
  <2>1. Chains(h, m, tt)
    BY ChainExists
  <2>2. FlattenSeq(tt) = h[m]
    BY <1>3 DEF FlattenSeq, Chains
  <2> HIDE DEF h
  <2>3. Alike(h, g, m)
    <3>1. N \in Nat /\ m \in Nat /\ m <= N
      OBVIOUS
    <3>2. Alike(tt, ss, m)
      BY <1>3 DEF Alike
    <3>3. Chains(g, N, ss)
      BY <1>1
    <3> QED BY <2>1, <3>1, <3>2, <3>3, ChainsAgree
  <2> QED BY <2>2, <2>3 DEF Alike
<1> DEFINE S == {n \in Nat : n + 1 \in 1 .. N => IsSeq(g[n + 1])}
<1>4. \A n \in 1 .. N : IsSeq(g[n])
  <2>1. 0 \in S
    BY <1>2
  <2>2. ASSUME NEW n \in S
        PROVE  n + 1 \in S
    <3>1. CASE n + 2 \in 1 .. N
      <4>1. IsSeq(g[n + 1]) /\ IsSeq(ss[n + 2]) /\ n + 1 \in 1 .. N - 1 /\ (n + 1) + 1 = n + 2
        BY <3>1
      <4>2. g[(n + 1) + 1] = g[n + 1] \o ss[(n + 1) + 1]
        BY <1>2, <4>1
      <4>3. IsSeq(g[n + 1] \o ss[n + 2])
        BY <4>1, ConcatFacts
      <4>4. g[(n + 1) + 1] = g[n + 1] \o ss[n + 2]
        BY <4>1, <4>2
      <4>5. n + 1 \in Nat /\ IsSeq(g[(n + 1) + 1])
        BY <4>3, <4>4
      <4> QED BY <4>5
    <3>2. CASE n + 2 \notin 1 .. N
      BY <3>2
    <3> QED BY <3>1, <3>2
  <2>3. S = Nat
    <3> HIDE DEF S
    <3>1. S \in SUBSET Nat
      BY DEF S
    <3> QED BY <2>1, <2>2, <3>1, Induction
  <2>4. ASSUME NEW n \in 1 .. N
        PROVE  IsSeq(g[n])
    <3>1. n - 1 \in Nat /\ (n - 1) + 1 = n
      OBVIOUS
    <3>2. n - 1 \in S
      BY <2>3, <3>1
    <3> QED BY <3>1, <3>2
  <2> QED BY <2>4
<1> HIDE DEF S
<1> DEFINE at == [n \in 1 .. N + 1 |-> IF n = 1 THEN 0 ELSE Len(g[n - 1])]
<1>5. \A n \in 1 .. N : Len(g[n]) \in Nat
  BY <1>4, LenProperties DEF IsSeq
<1>6. at \in [1 .. N + 1 -> Nat]
  <2>1. ASSUME NEW n \in 1 .. N + 1, n # 1
        PROVE  Len(g[n - 1]) \in Nat
    <3>1. n - 1 \in 1 .. N
      BY <2>1
    <3> QED BY <1>5, <3>1
  <2> QED BY <2>1
<1>7. at[1] = 0 /\ \A n \in 1 .. N : at[n + 1] = Len(g[n])
  OBVIOUS
<1> HIDE DEF at
<1>8. ASSUME NEW n \in 1 .. N
      PROVE  /\ at[n + 1] = at[n] + Len(ss[n])
             /\ \A i \in 1 .. Len(ss[n]) : g[n][at[n] + i] = ss[n][i]
             /\ \A i \in 1 .. at[n] : n # 1 => g[n][i] = g[n - 1][i]
  <2>1. CASE n = 1
    <3>1. Len(ss[1]) \in Nat
      BY LenProperties DEF IsSeq
    <3> QED BY <1>2, <1>7, <2>1, <3>1
  <2>2. CASE n # 1
    <3>1. n - 1 \in 1 .. N - 1 /\ n - 1 \in 1 .. N /\ (n - 1) + 1 = n
      BY <2>2
    <3>2. g[n] = g[n - 1] \o ss[n]
      BY <1>2, <3>1
    <3>3. at[n] = Len(g[n - 1]) /\ at[n + 1] = Len(g[n])
      BY <1>7, <3>1
    <3>4. IsSeq(g[n - 1]) /\ IsSeq(ss[n])
      BY <1>4, <3>1
    <3> QED BY <3>2, <3>3, <3>4, ConcatFacts
  <2> QED BY <2>1, <2>2
<1>9. ASSUME NEW n \in 1 .. N
      PROVE  Len(FlattenSeq([k \in 1 .. n - 1 |-> ss[k]])) = at[n]
  <2> DEFINE tt == [k \in 1 .. n - 1 |-> ss[k]]
  <2>1. IsSeq(tt) /\ Len(tt) = n - 1
    <3>1. n - 1 \in Nat /\ DOMAIN tt = 1 .. n - 1 /\ tt = [k \in 1 .. n - 1 |-> tt[k]]
      OBVIOUS
    <3> HIDE DEF tt
    <3> QED BY <3>1, FunctionIsSeq
  <2>2. \A i \in 1 .. n - 1 : tt[i] = ss[i]
    OBVIOUS
  <2> HIDE DEF tt
  <2>3. CASE n = 1
    <3>1. FlattenSeq(tt) = tt
      BY <2>1, <2>3 DEF FlattenSeq
    <3> QED BY <1>7, <2>1, <2>3, <3>1 DEF tt
  <2>4. CASE n # 1
    <3>1. n - 1 \in 1 .. N /\ (n - 1) + 1 = n
      BY <2>4
    <3>2. FlattenSeq(tt) = g[n - 1]
      BY <1>3, <2>1, <2>2, <3>1
    <3>3. at[n] = Len(g[n - 1])
      BY <1>7, <3>1
    <3> QED BY <3>2, <3>3 DEF tt
  <2> QED BY <2>3, <2>4
<1>10. FlattenSeq(ss) = g[N]
  BY <1>3
<1> DEFINE T == {n \in Nat : n + 1 \in 1 .. N => \A m \in 1 .. n + 1 :
                   /\ at[m + 1] <= at[n + 2]
                   /\ \A i \in 1 .. Len(ss[m]) : g[n + 1][at[m] + i] = ss[m][i]}
<1>11. T = Nat
  <2>1. 0 \in T
    <3>1. \A m \in 1 .. 0 + 1 : m = 1
      OBVIOUS
    <3>2. 1 \in 1 .. N /\ 2 \in 1 .. N + 1 /\ at[2] \in Nat
      BY <1>6
    <3> QED BY <1>8, <3>1, <3>2
  <2>2. ASSUME NEW n \in T
        PROVE  n + 1 \in T
    <3> DEFINE q == n + 2
    <3>0. n \in Nat /\ q \in Nat /\ q - 1 = n + 1 /\ q # 1 /\ (n + 1) + 1 = q
          /\ (n + 1) + 2 = q + 1
      OBVIOUS
    <3> HIDE DEF q
    <3>1. SUFFICES ASSUME q \in 1 .. N, NEW m \in 1 .. q
                   PROVE  /\ at[m + 1] <= at[q + 1]
                          /\ \A i \in 1 .. Len(ss[m]) : g[q][at[m] + i] = ss[m][i]
      BY <3>0
    <3>2. /\ at[q + 1] = at[q] + Len(ss[q]) /\ Len(ss[q]) \in Nat
          /\ \A i \in 1 .. Len(ss[q]) : g[q][at[q] + i] = ss[q][i]
          /\ \A i \in 1 .. at[q] : g[q][i] = g[q - 1][i]
      <4>1. Len(ss[q]) \in Nat
        BY <3>1, LenProperties DEF IsSeq
      <4> QED BY <1>8, <3>0, <3>1, <4>1
    <3>3. at[q] \in Nat /\ at[q + 1] \in Nat /\ at[m] \in Nat /\ at[m + 1] \in Nat
      BY <1>6, <3>0, <3>1
    <3>4. CASE m = q
      BY <3>2, <3>3, <3>4
    <3>5. CASE m # q
      <4>1. m \in 1 .. n + 1 /\ n + 1 \in 1 .. N /\ m \in 1 .. N
        BY <3>0, <3>1, <3>5
      <4>2. /\ at[m + 1] <= at[n + 2]
            /\ \A i \in 1 .. Len(ss[m]) : g[n + 1][at[m] + i] = ss[m][i]
        BY <4>1
      <4>3. at[m + 1] <= at[q]
        BY <4>2 DEF q
      <4>4. ASSUME NEW i \in 1 .. Len(ss[m])
            PROVE  g[q][at[m] + i] = ss[m][i]
        <5>1. Len(ss[m]) \in Nat /\ at[m + 1] = at[m] + Len(ss[m])
          <6>1. IsSeq(ss[m])
            BY <4>1
          <6> QED BY <1>8, <4>1, <6>1, LenProperties DEF IsSeq
        <5>2. at[m] + i \in 1 .. at[q]
          BY <3>3, <4>3, <5>1
        <5> QED BY <3>0, <3>2, <4>2, <5>2
      <4> QED BY <3>2, <3>3, <4>3, <4>4
    <3> QED BY <3>4, <3>5
  <2> HIDE DEF T
  <2>3. T \in SUBSET Nat
    BY DEF T
  <2> QED BY <2>1, <2>2, <2>3, Induction
<1>12. ASSUME NEW n \in 1 .. N, NEW i \in 1 .. Len(ss[n])
       PROVE  g[N][at[n] + i] = ss[n][i]
  <2>1. N - 1 \in T /\ (N - 1) + 1 = N
    <3>1. N - 1 \in Nat /\ (N - 1) + 1 = N
      OBVIOUS
    <3> HIDE DEF T
    <3> QED BY <1>11, <3>1
  <2> QED BY <2>1
<1>13. /\ IsSeq(FlattenSeq(ss)) /\ Len(FlattenSeq(ss)) = at[N + 1]
       /\ \A n \in 1 .. N : \A i \in 1 .. Len(ss[n]) :
            FlattenSeq(ss)[at[n] + i] = ss[n][i]
  <2>1. IsSeq(g[N]) /\ at[N + 1] = Len(g[N])
    BY <1>4, <1>7
  <2> QED BY <1>10, <1>12, <2>1
<1> HIDE DEF T
<1>14. \A n \in 1 .. N : at[n + 1] = at[n] + Len(ss[n])
  BY <1>8
<1>15. Begins(at, N, ss)
  BY <1>6, <1>7, <1>9, <1>13, <1>14 DEF Begins
<1> QED BY <1>15

-----------------------------------------------------------------------------
(* Code that saves and restores registers.                                 *)

\* A sequence of twice as many instructions, two for each register.
Pairs(u, ss, N) ==
  /\ IsLong(u, 2 * N)
  /\ \A n \in 1 .. N : u[2 * n - 1] = ss[n][1] /\ u[2 * n] = ss[n][2]

LEMMA PairsFacts ==
  ASSUME NEW N \in Nat \ {0}, NEW ss, IsSeq(ss), Len(ss) = N,
         \A n \in 1 .. N : IsSeq(ss[n]) /\ Len(ss[n]) = 2
  PROVE  Pairs(FlattenSeq(ss), ss, N)
<1>1. PICK at : Begins(at, N, ss)
  <2>1. \A n \in 1 .. N : IsSeq(ss[n])
    OBVIOUS
  <2> QED BY <2>1, Flattened
<1> DEFINE S == {n \in Nat : n + 1 \in 1 .. N + 1 => at[n + 1] = 2 * n}
<1>2. 0 \in S
  BY <1>1 DEF Begins
<1>3. ASSUME NEW n \in S
      PROVE  n + 1 \in S
  <2>1. n \in Nat
    OBVIOUS
  <2>2. ASSUME (n + 1) + 1 \in 1 .. N + 1
        PROVE  at[(n + 1) + 1] = 2 * (n + 1)
    <3>1. n + 1 \in 1 .. N /\ n + 1 \in 1 .. N + 1
      BY <2>2
    <3>2. at[n + 1] = 2 * n
      BY <3>1
    <3>3. at[(n + 1) + 1] = at[n + 1] + 2
      BY <1>1, <3>1 DEF Begins
    <3> QED BY <3>2, <3>3
  <2> QED BY <2>1, <2>2
<1>4. S = Nat
  <2> HIDE DEF S
  <2>1. S \in SUBSET Nat
    BY DEF S
  <2> QED BY <1>2, <1>3, <2>1, Induction
<1>5. ASSUME NEW n \in 1 .. N + 1
      PROVE  at[n] = 2 * n - 2
  <2>1. n - 1 \in Nat /\ (n - 1) + 1 = n
    OBVIOUS
  <2>2. n - 1 \in S
    BY <1>4, <2>1
  <2> QED BY <2>1, <2>2
<1>6. ASSUME NEW n \in 1 .. N
      PROVE  /\ FlattenSeq(ss)[2 * n - 1] = ss[n][1]
             /\ FlattenSeq(ss)[2 * n] = ss[n][2]
  <2>1. at[n] + 1 = 2 * n - 1 /\ at[n] + 2 = 2 * n /\ Len(ss[n]) = 2
    BY <1>5
  <2>2. FlattenSeq(ss)[at[n] + 1] = ss[n][1] /\ FlattenSeq(ss)[at[n] + 2] = ss[n][2]
    <3>1. 1 \in 1 .. Len(ss[n]) /\ 2 \in 1 .. Len(ss[n])
      BY <2>1
    <3> QED BY <1>1, <3>1 DEF Begins
  <2> QED BY <2>1, <2>2
<1>7. at[N + 1] = 2 * N
  BY <1>5
<1> QED BY <1>1, <1>6, <1>7 DEF Begins, Pairs, IsLong

LEMMA Two == ASSUME NEW a, NEW b PROVE IsSeq(<<a, b>>) /\ Len(<<a, b>>) = 2
BY DEF IsSeq

\* Code that saves N registers, and code that restores them.
Saves(code, rs, N) ==
  /\ IsLong(code, 2 * N)
  /\ \A n \in 1 .. N : /\ code[2 * n - 1] = Addi("sp", "sp", -1)
                       /\ code[2 * n] = Sw(rs[n], "sp", 0)
Restores(code, rs, N) ==
  /\ IsLong(code, 2 * N)
  /\ \A n \in 1 .. N : /\ code[2 * n - 1] = Lw(rs[N + 1 - n], "sp", 0)
                       /\ code[2 * n] = Addi("sp", "sp", 1)

LEMMA PushesFacts ==
  ASSUME NEW rs, NEW N, IsLong(rs, N), N # 0
  PROVE  Saves(Pushes(rs), rs, N)
<1> DEFINE ss == [n \in DOMAIN rs |-> Push(rs[n])]
<1>1. DOMAIN rs = 1 .. N /\ N \in Nat \ {0}
  BY LenProperties DEF IsSeq, IsLong
<1>2. DOMAIN ss = 1 .. N /\ ss = [k \in 1 .. N |-> ss[k]]
  BY <1>1
<1>3. \A n \in 1 .. N : ss[n] = Push(rs[n])
  BY <1>1
<1> HIDE DEF ss
<1>4. IsSeq(ss) /\ Len(ss) = N
  BY <1>1, <1>2, FunctionIsSeq
<1>5. ASSUME NEW n \in 1 .. N
      PROVE  /\ IsSeq(ss[n]) /\ Len(ss[n]) = 2
             /\ ss[n][1] = Addi("sp", "sp", -1) /\ ss[n][2] = Sw(rs[n], "sp", 0)
  BY <1>3, Two DEF Push
<1>6. Pushes(rs) = FlattenSeq(ss)
  BY DEF Pushes, ss
<1> HIDE DEF ss
<1>7. \A n \in 1 .. N : IsSeq(ss[n]) /\ Len(ss[n]) = 2
  BY <1>5
<1> DEFINE u == Pushes(rs)
<1>8. Pairs(u, ss, N)
  BY <1>1, <1>4, <1>6, <1>7, PairsFacts
<1> HIDE DEF u
<1>9. Saves(u, rs, N)
  BY <1>5, <1>8 DEF Saves, Pairs
<1> QED BY <1>9 DEF u

LEMMA PopsFacts ==
  ASSUME NEW rs, NEW N, IsLong(rs, N), N # 0
  PROVE  Restores(Pops(Reverse(rs)), rs, N)
<1> DEFINE vs == Reverse(rs)
<1>0. N \in Nat \ {0} /\ Len(rs) = N
  BY DEF IsLong
<1>1. DOMAIN vs = 1 .. N /\ \A n \in 1 .. N : vs[n] = rs[N + 1 - n]
  <2>1. ASSUME NEW n \in 1 .. N
        PROVE  vs[n] = rs[N + 1 - n]
    <3>1. (N - n) + 1 = N + 1 - n
      BY <1>0
    <3> QED BY <1>0, <3>1 DEF Reverse
  <2> QED BY <1>0, <2>1 DEF Reverse
<1> HIDE DEF vs
<1> DEFINE ss == [n \in DOMAIN vs |-> Pop(vs[n])]
<1>2. DOMAIN ss = 1 .. N /\ ss = [k \in 1 .. N |-> ss[k]]
  BY <1>0, <1>1
<1>3. \A n \in 1 .. N : ss[n] = Pop(vs[n])
  BY <1>1
<1> HIDE DEF ss
<1>4. IsSeq(ss) /\ Len(ss) = N
  BY <1>0, <1>2, FunctionIsSeq
<1>5. ASSUME NEW n \in 1 .. N
      PROVE  /\ IsSeq(ss[n]) /\ Len(ss[n]) = 2
             /\ ss[n][1] = Lw(rs[N + 1 - n], "sp", 0) /\ ss[n][2] = Addi("sp", "sp", 1)
  <2>1. ss[n] = <<Lw(vs[n], "sp", 0), Addi("sp", "sp", 1)>>
    BY <1>3 DEF Pop
  <2>2. vs[n] = rs[N + 1 - n]
    BY <1>1
  <2> QED BY <2>1, <2>2, Two
<1>6. Pops(vs) = FlattenSeq(ss)
  BY DEF Pops, ss
<1>7. \A n \in 1 .. N : IsSeq(ss[n]) /\ Len(ss[n]) = 2
  BY <1>5
<1> DEFINE u == Pops(vs)
<1>8. Pairs(u, ss, N)
  BY <1>0, <1>4, <1>6, <1>7, PairsFacts
<1> HIDE DEF u
<1>9. Restores(u, rs, N)
  BY <1>5, <1>8 DEF Restores, Pairs
<1> QED BY <1>9 DEF u, vs

-----------------------------------------------------------------------------
(* Where a piece of code stands in a longer one.                           *)

LEMMA Ones ==
  ASSUME NEW a
  PROVE  IsLong(<<a>>, 1) /\ <<a>>[1] = a
BY DEF IsSeq, IsLong

LEMMA Twos ==
  ASSUME NEW a, NEW b
  PROVE  IsLong(<<a, b>>, 2) /\ <<a, b>>[1] = a /\ <<a, b>>[2] = b
BY DEF IsSeq, IsLong

LEMMA Threes ==
  ASSUME NEW a, NEW b, NEW c
  PROVE  /\ IsLong(<<a, b, c>>, 3)
         /\ <<a, b, c>>[1] = a /\ <<a, b, c>>[2] = b /\ <<a, b, c>>[3] = c
BY DEF IsSeq, IsLong

LEMMA Fours ==
  ASSUME NEW a, NEW b, NEW c, NEW d
  PROVE  /\ IsLong(<<a, b, c, d>>, 4)
         /\ <<a, b, c, d>>[1] = a /\ <<a, b, c, d>>[2] = b
         /\ <<a, b, c, d>>[3] = c /\ <<a, b, c, d>>[4] = d
BY DEF IsSeq, IsLong

LEMMA Fives ==
  ASSUME NEW a, NEW b, NEW c, NEW d, NEW e
  PROVE  /\ IsLong(<<a, b, c, d, e>>, 5)
         /\ <<a, b, c, d, e>>[1] = a /\ <<a, b, c, d, e>>[2] = b
         /\ <<a, b, c, d, e>>[3] = c /\ <<a, b, c, d, e>>[4] = d
         /\ <<a, b, c, d, e>>[5] = e
BY DEF IsSeq, IsLong

LEMMA Sixes ==
  ASSUME NEW a, NEW b, NEW c, NEW d, NEW e, NEW f
  PROVE  /\ IsLong(<<a, b, c, d, e, f>>, 6)
         /\ <<a, b, c, d, e, f>>[1] = a /\ <<a, b, c, d, e, f>>[2] = b
         /\ <<a, b, c, d, e, f>>[3] = c /\ <<a, b, c, d, e, f>>[4] = d
         /\ <<a, b, c, d, e, f>>[5] = e /\ <<a, b, c, d, e, f>>[6] = f
BY DEF IsSeq, IsLong

LEMMA Empty == IsLong(<<>>, 0)
BY DEF IsSeq, IsLong

\* The sequence s of length M stands in u, of length N, behind the first p.
Holds(u, N, p, s, M) ==
  /\ IsLong(u, N) /\ IsLong(s, M)
  /\ p \in Nat /\ p + M <= N
  /\ \A k \in 1 .. M : u[p + k] = s[k]

LEMMA HoldsInside ==
  ASSUME NEW u, NEW N, NEW p, NEW s, NEW M, Holds(u, N, p, s, M),
         NEW q, NEW t, NEW L, Holds(s, M, q, t, L)
  PROVE  Holds(u, N, p + q, t, L)
<1>1. N \in Nat /\ M \in Nat /\ L \in Nat /\ p \in Nat /\ q \in Nat
  BY DEF Holds, IsLong
<1>2. p + M <= N /\ q + L <= M
  BY DEF Holds
<1>3. ASSUME NEW k \in 1 .. L
      PROVE  u[(p + q) + k] = t[k]
  <2>1. q + k \in 1 .. M /\ p + (q + k) = (p + q) + k
    BY <1>1, <1>2
  <2>2. u[p + (q + k)] = s[q + k]
    BY <2>1 DEF Holds
  <2>3. s[q + k] = t[k]
    BY DEF Holds
  <2> QED BY <2>1, <2>2, <2>3
<1>4. p + q \in Nat /\ (p + q) + L <= N
  BY <1>1, <1>2
<1>5. IsLong(u, N) /\ IsLong(t, L)
  BY DEF Holds
<1> QED BY <1>3, <1>4, <1>5 DEF Holds

LEMMA TwoParts ==
  ASSUME NEW a, NEW A, IsLong(a, A), NEW b, NEW B, IsLong(b, B)
  PROVE  /\ IsLong(a \o b, A + B)
         /\ Holds(a \o b, A + B, 0, a, A)
         /\ Holds(a \o b, A + B, A, b, B)
<1> DEFINE u == a \o b
<1>1. Joins(u, a, b, A, B)
  BY Joined
<1> HIDE DEF u
<1>2. A \in Nat /\ B \in Nat
  BY DEF IsLong
<1>3. IsLong(u, A + B) /\ \A k \in 1 .. A : u[k] = a[k]
  BY <1>1 DEF Joins
<1>4. \A k \in 1 .. B : u[A + k] = b[k]
  BY <1>1 DEF Joins
<1>5. Holds(u, A + B, 0, a, A)
  <2>1. \A k \in 1 .. A : u[0 + k] = a[k]
    BY <1>2, <1>3
  <2> QED BY <1>2, <1>3, <2>1 DEF Holds
<1>6. Holds(u, A + B, A, b, B)
  BY <1>2, <1>3, <1>4 DEF Holds
<1> QED BY <1>3, <1>5, <1>6 DEF u

LEMMA ThreeParts ==
  ASSUME NEW a, NEW A, IsLong(a, A), NEW b, NEW B, IsLong(b, B),
         NEW c, NEW C, IsLong(c, C)
  PROVE  LET u == a \o b \o c
             N == A + B + C
         IN /\ IsLong(u, N)
            /\ Holds(u, N, 0, a, A) /\ Holds(u, N, A, b, B)
            /\ Holds(u, N, A + B, c, C)
<1> DEFINE v == a \o b
           u == v \o c
           M == A + B
           N == M + C
<1>1. IsLong(v, M) /\ Holds(v, M, 0, a, A) /\ Holds(v, M, A, b, B)
  BY TwoParts
<1>2. A \in Nat /\ B \in Nat
  BY DEF IsLong
<1> HIDE DEF v, M
<1>3. IsLong(u, N) /\ Holds(u, N, 0, v, M) /\ Holds(u, N, M, c, C)
  BY <1>1, TwoParts
<1> HIDE DEF u, N
<1>4. 0 + 0 = 0 /\ 0 + A = A
  BY <1>2
<1>5. Holds(u, N, 0 + 0, a, A)
  BY <1>1, <1>3, HoldsInside
<1>6. Holds(u, N, 0 + A, b, B)
  BY <1>1, <1>3, HoldsInside
<1>7. Holds(u, N, 0, a, A) /\ Holds(u, N, A, b, B)
  BY <1>4, <1>5, <1>6
<1> QED BY <1>3, <1>7 DEF u, v, M, N

LEMMA FourParts ==
  ASSUME NEW a, NEW A, IsLong(a, A), NEW b, NEW B, IsLong(b, B),
         NEW c, NEW C, IsLong(c, C), NEW d, NEW D, IsLong(d, D)
  PROVE  LET u == a \o b \o c \o d
             N == A + B + C + D
         IN /\ IsLong(u, N)
            /\ Holds(u, N, 0, a, A) /\ Holds(u, N, A, b, B)
            /\ Holds(u, N, A + B, c, C) /\ Holds(u, N, A + B + C, d, D)
<1> DEFINE v == a \o b \o c
           u == v \o d
           M == A + B + C
           N == M + D
<1>1. /\ IsLong(v, M) /\ Holds(v, M, 0, a, A) /\ Holds(v, M, A, b, B)
      /\ Holds(v, M, A + B, c, C)
  BY ThreeParts
<1>2. A \in Nat /\ B \in Nat
  BY DEF IsLong
<1> HIDE DEF v, M
<1>3. IsLong(u, N) /\ Holds(u, N, 0, v, M) /\ Holds(u, N, M, d, D)
  BY <1>1, TwoParts
<1> HIDE DEF u, N
<1>4. 0 + 0 = 0 /\ 0 + A = A /\ 0 + (A + B) = A + B
  BY <1>2
<1>5. Holds(u, N, 0 + 0, a, A)
  BY <1>1, <1>3, HoldsInside
<1>6. Holds(u, N, 0 + A, b, B)
  BY <1>1, <1>3, HoldsInside
<1>7. Holds(u, N, 0 + (A + B), c, C)
  BY <1>1, <1>3, HoldsInside
<1>8. Holds(u, N, 0, a, A) /\ Holds(u, N, A, b, B) /\ Holds(u, N, A + B, c, C)
  BY <1>4, <1>5, <1>6, <1>7
<1> QED BY <1>3, <1>8 DEF u, v, M, N

LEMMA FiveParts ==
  ASSUME NEW a, NEW A, IsLong(a, A), NEW b, NEW B, IsLong(b, B),
         NEW c, NEW C, IsLong(c, C), NEW d, NEW D, IsLong(d, D),
         NEW e, NEW E, IsLong(e, E)
  PROVE  LET u == a \o b \o c \o d \o e
             N == A + B + C + D + E
         IN /\ IsLong(u, N)
            /\ Holds(u, N, 0, a, A) /\ Holds(u, N, A, b, B)
            /\ Holds(u, N, A + B, c, C) /\ Holds(u, N, A + B + C, d, D)
            /\ Holds(u, N, A + B + C + D, e, E)
<1> DEFINE v == a \o b \o c \o d
           u == v \o e
           M == A + B + C + D
           N == M + E
<1>1. /\ IsLong(v, M) /\ Holds(v, M, 0, a, A) /\ Holds(v, M, A, b, B)
      /\ Holds(v, M, A + B, c, C) /\ Holds(v, M, A + B + C, d, D)
  BY FourParts
<1>2. A \in Nat /\ B \in Nat /\ C \in Nat
  BY DEF IsLong
<1> HIDE DEF v, M
<1>3. IsLong(u, N) /\ Holds(u, N, 0, v, M) /\ Holds(u, N, M, e, E)
  BY <1>1, TwoParts
<1> HIDE DEF u, N
<1>4. 0 + 0 = 0 /\ 0 + A = A /\ 0 + (A + B) = A + B /\ 0 + (A + B + C) = A + B + C
  BY <1>2
<1>5. Holds(u, N, 0 + 0, a, A)
  BY <1>1, <1>3, HoldsInside
<1>6. Holds(u, N, 0 + A, b, B)
  BY <1>1, <1>3, HoldsInside
<1>7. Holds(u, N, 0 + (A + B), c, C)
  BY <1>1, <1>3, HoldsInside
<1>8. Holds(u, N, 0 + (A + B + C), d, D)
  BY <1>1, <1>3, HoldsInside
<1>9. /\ Holds(u, N, 0, a, A) /\ Holds(u, N, A, b, B) /\ Holds(u, N, A + B, c, C)
      /\ Holds(u, N, A + B + C, d, D)
  BY <1>4, <1>5, <1>6, <1>7, <1>8
<1> QED BY <1>3, <1>9 DEF u, v, M, N

Extra == IF "keyboard" \in Devices THEN 2 ELSE 0

LEMMA MainText ==
  /\ IsLong(Main, 9 + Extra)
  /\ Main[1] = La("sp", "stack")
  /\ Main[2] = Lw("sp", "sp", 0)
  /\ Main[3] = La("a0", "ti_inthandler")
  /\ Main[4] = Sw("a0", "zero", 1)
  /\ "keyboard" \in Devices => /\ Main[5] = La("a0", "keyboard_handler")
                               /\ Main[6] = Sw("a0", "zero", 2)
  /\ Main[5 + Extra] = Ei
  /\ Main[6 + Extra] = La("at", "factorial")
  /\ Main[7 + Extra] = Addi("a0", "zero", Argument)
  /\ Main[8 + Extra] = Jalr("at", "ra")
  /\ Main[9 + Extra] = Halt
<1> DEFINE a == <<La("sp", "stack"), Lw("sp", "sp", 0),
                  La("a0", "ti_inthandler"), Sw("a0", "zero", 1)>>
           b == InstallKeyboard
           c == <<Ei, La("at", "factorial"), Addi("a0", "zero", Argument),
                  Jalr("at", "ra"), Halt>>
           u == a \o b \o c
           N == 4 + Extra + 5
<1>1. /\ IsLong(a, 4)
      /\ a[1] = La("sp", "stack") /\ a[2] = Lw("sp", "sp", 0)
      /\ a[3] = La("a0", "ti_inthandler") /\ a[4] = Sw("a0", "zero", 1)
  BY Fours
<1>2. /\ IsLong(b, Extra)
      /\ "keyboard" \in Devices => /\ b[1] = La("a0", "keyboard_handler")
                                   /\ b[2] = Sw("a0", "zero", 2)
  BY Twos, Empty DEF InstallKeyboard, Extra
<1>3. /\ IsLong(c, 5)
      /\ c[1] = Ei /\ c[2] = La("at", "factorial")
      /\ c[3] = Addi("a0", "zero", Argument) /\ c[4] = Jalr("at", "ra")
      /\ c[5] = Halt
  BY Fives
<1> HIDE DEF a, b, c
<1>4. /\ IsLong(u, N) /\ Holds(u, N, 0, a, 4) /\ Holds(u, N, 4, b, Extra)
      /\ Holds(u, N, 4 + Extra, c, 5)
  BY <1>1, <1>2, <1>3, ThreeParts
<1>5. Main = u
  BY DEF Main, a, b, c
<1> HIDE DEF u
<1>6. N = 9 + Extra
  BY DEF Extra
<1>7. \A k \in 1 .. 4 : u[0 + k] = a[k]
  BY <1>4 DEF Holds
<1>8. \A k \in 1 .. Extra : u[4 + k] = b[k]
  BY <1>4 DEF Holds
<1>9. \A k \in 1 .. 5 : u[(4 + Extra) + k] = c[k]
  BY <1>4 DEF Holds
<1>10. u[1] = a[1] /\ u[2] = a[2] /\ u[3] = a[3] /\ u[4] = a[4]
  BY <1>7
<1>11. "keyboard" \in Devices => u[5] = b[1] /\ u[6] = b[2]
  BY <1>8 DEF Extra
<1>12. /\ u[5 + Extra] = c[1] /\ u[6 + Extra] = c[2] /\ u[7 + Extra] = c[3]
       /\ u[8 + Extra] = c[4] /\ u[9 + Extra] = c[5]
  BY <1>9 DEF Extra
<1>13. IsLong(u, 9 + Extra)
  BY <1>4, <1>6
<1> HIDE DEF N
<1> QED BY <1>1, <1>2, <1>3, <1>5, <1>10, <1>11, <1>12, <1>13

\* Code that saves N registers stands in u behind the first p instructions.
SavesAt(u, p, rs, N) ==
  \A n \in 1 .. N : /\ u[p + (2 * n - 1)] = Addi("sp", "sp", -1)
                    /\ u[p + 2 * n] = Sw(rs[n], "sp", 0)
RestoresAt(u, p, rs, N) ==
  \A n \in 1 .. N : /\ u[p + (2 * n - 1)] = Lw(rs[N + 1 - n], "sp", 0)
                    /\ u[p + 2 * n] = Addi("sp", "sp", 1)

LEMMA SavesInside ==
  ASSUME NEW u, NEW L, NEW p, NEW s, NEW N, NEW rs,
         Holds(u, L, p, s, 2 * N), Saves(s, rs, N), N \in Nat
  PROVE  SavesAt(u, p, rs, N)
<1> SUFFICES ASSUME NEW n \in 1 .. N
             PROVE  /\ u[p + (2 * n - 1)] = Addi("sp", "sp", -1)
                    /\ u[p + 2 * n] = Sw(rs[n], "sp", 0)
  BY DEF SavesAt
<1>1. 2 * n - 1 \in 1 .. 2 * N /\ 2 * n \in 1 .. 2 * N
  OBVIOUS
<1>2. u[p + (2 * n - 1)] = s[2 * n - 1] /\ u[p + 2 * n] = s[2 * n]
  BY <1>1 DEF Holds
<1>3. s[2 * n - 1] = Addi("sp", "sp", -1) /\ s[2 * n] = Sw(rs[n], "sp", 0)
  BY DEF Saves
<1> QED BY <1>2, <1>3

LEMMA RestoresInside ==
  ASSUME NEW u, NEW L, NEW p, NEW s, NEW N, NEW rs,
         Holds(u, L, p, s, 2 * N), Restores(s, rs, N), N \in Nat
  PROVE  RestoresAt(u, p, rs, N)
<1> SUFFICES ASSUME NEW n \in 1 .. N
             PROVE  /\ u[p + (2 * n - 1)] = Lw(rs[N + 1 - n], "sp", 0)
                    /\ u[p + 2 * n] = Addi("sp", "sp", 1)
  BY DEF RestoresAt
<1>1. 2 * n - 1 \in 1 .. 2 * N /\ 2 * n \in 1 .. 2 * N
  OBVIOUS
<1>2. u[p + (2 * n - 1)] = s[2 * n - 1] /\ u[p + 2 * n] = s[2 * n]
  BY <1>1 DEF Holds
<1>3. s[2 * n - 1] = Lw(rs[N + 1 - n], "sp", 0) /\ s[2 * n] = Addi("sp", "sp", 1)
  BY DEF Restores
<1> QED BY <1>2, <1>3

LEMMA FactorialText ==
  LET saves == Factorial[1].code
      recurse == Factorial[4].code
      mul == Factorial[5].code
      done == Factorial[6].code
  IN
  /\ IsLong(saves, 12) /\ SavesAt(saves, 0, FactorialSaved, 4)
  /\ saves[9] = Beq("a0", "zero", "base_zero")
  /\ saves[10] = Addi("s1", "zero", 1)
  /\ saves[11] = Beq("a0", "s1", "base_one")
  /\ saves[12] = Goto("recurse")
  /\ \A n \in 2 .. 3 :
       LET base == Factorial[n].code IN
       /\ IsLong(base, 2)
       /\ base[1] = Addi("v0", "zero", 1) /\ base[2] = Goto("done")
  /\ IsLong(recurse, 6)
  /\ recurse[1] = Add("s1", "a0", "zero")
  /\ recurse[2] = Addi("a0", "a0", -1)
  /\ recurse[3] = La("at", "factorial")
  /\ recurse[4] = Jalr("at", "ra")
  /\ recurse[5] = Add("s0", "v0", "zero")
  /\ recurse[6] = Add("v0", "zero", "zero")
  /\ IsLong(mul, 4)
  /\ mul[1] = Beq("s1", "zero", "done")
  /\ mul[2] = Add("v0", "v0", "s0")
  /\ mul[3] = Addi("s1", "s1", -1)
  /\ mul[4] = Goto("mul")
  /\ IsLong(done, 9) /\ RestoresAt(done, 0, FactorialSaved, 4)
  /\ done[9] = Jalr("ra", "zero")
<1>1. IsLong(FactorialSaved, 4)
  BY Fours DEF FactorialSaved
<1> DEFINE a == Pushes(FactorialSaved)
           b == <<Beq("a0", "zero", "base_zero"), Addi("s1", "zero", 1),
                  Beq("a0", "s1", "base_one"), Goto("recurse")>>
           c == Pops(Reverse(FactorialSaved))
           d == <<Jalr("ra", "zero")>>
           u == a \o b
           v == c \o d
           base == <<Addi("v0", "zero", 1), Goto("done")>>
           recurse == <<Add("s1", "a0", "zero"), Addi("a0", "a0", -1),
                        La("at", "factorial"), Jalr("at", "ra"),
                        Add("s0", "v0", "zero"), Add("v0", "zero", "zero")>>
           mul == <<Beq("s1", "zero", "done"), Add("v0", "v0", "s0"),
                    Addi("s1", "s1", -1), Goto("mul")>>
<1>2. Saves(a, FactorialSaved, 4)
  BY <1>1, PushesFacts
<1>3. Restores(c, FactorialSaved, 4)
  BY <1>1, PopsFacts
<1>4. /\ IsLong(b, 4)
      /\ b[1] = Beq("a0", "zero", "base_zero") /\ b[2] = Addi("s1", "zero", 1)
      /\ b[3] = Beq("a0", "s1", "base_one") /\ b[4] = Goto("recurse")
  BY Fours
<1>5. IsLong(d, 1) /\ d[1] = Jalr("ra", "zero")
  BY Ones
<1>6. IsLong(base, 2) /\ base[1] = Addi("v0", "zero", 1) /\ base[2] = Goto("done")
  BY Twos
<1>7. /\ IsLong(recurse, 6)
      /\ recurse[1] = Add("s1", "a0", "zero")
      /\ recurse[2] = Addi("a0", "a0", -1)
      /\ recurse[3] = La("at", "factorial")
      /\ recurse[4] = Jalr("at", "ra")
      /\ recurse[5] = Add("s0", "v0", "zero")
      /\ recurse[6] = Add("v0", "zero", "zero")
  BY Sixes
<1>8. /\ IsLong(mul, 4)
      /\ mul[1] = Beq("s1", "zero", "done")
      /\ mul[2] = Add("v0", "v0", "s0")
      /\ mul[3] = Addi("s1", "s1", -1)
      /\ mul[4] = Goto("mul")
  BY Fours
<1>9. /\ Factorial[1].code = u /\ Factorial[6].code = v
      /\ Factorial[2].code = base /\ Factorial[3].code = base
      /\ Factorial[4].code = recurse /\ Factorial[5].code = mul
  BY DEF Factorial
<1> HIDE DEF a, b, c, d, base, recurse, mul
<1>10. IsLong(a, 8) /\ IsLong(c, 8)
  BY <1>2, <1>3 DEF Saves, Restores
<1>11. IsLong(u, 8 + 4) /\ Holds(u, 8 + 4, 0, a, 8) /\ Holds(u, 8 + 4, 8, b, 4)
  BY <1>4, <1>10, TwoParts
<1>12. IsLong(v, 8 + 1) /\ Holds(v, 8 + 1, 0, c, 8) /\ Holds(v, 8 + 1, 8, d, 1)
  BY <1>5, <1>10, TwoParts
<1> HIDE DEF u, v
<1>13. SavesAt(u, 0, FactorialSaved, 4) /\ RestoresAt(v, 0, FactorialSaved, 4)
  <2>1. Holds(u, 8 + 4, 0, a, 2 * 4) /\ Holds(v, 8 + 1, 0, c, 2 * 4)
    BY <1>11, <1>12
  <2>2. SavesAt(u, 0, FactorialSaved, 4)
    BY <1>2, <2>1, SavesInside
  <2>3. RestoresAt(v, 0, FactorialSaved, 4)
    BY <1>3, <2>1, RestoresInside
  <2> QED BY <2>2, <2>3
<1>14. u[9] = b[1] /\ u[10] = b[2] /\ u[11] = b[3] /\ u[12] = b[4] /\ v[9] = d[1]
  <2>1. \A k \in 1 .. 4 : u[8 + k] = b[k]
    BY <1>11 DEF Holds
  <2>2. \A k \in 1 .. 1 : v[8 + k] = d[k]
    BY <1>12 DEF Holds
  <2> QED BY <2>1, <2>2
<1>15. IsLong(u, 12) /\ IsLong(v, 9)
  BY <1>11, <1>12
<1>16. \A n \in 2 .. 3 : Factorial[n].code = base
  BY <1>9
<1> QED BY <1>4, <1>5, <1>6, <1>7, <1>8, <1>9, <1>13, <1>14, <1>15, <1>16

-----------------------------------------------------------------------------
(* The code of the handlers and of the program.                            *)

LEMMA PushText ==
  ASSUME NEW r
  PROVE  /\ IsLong(Push(r), 2)
         /\ Push(r)[1] = Addi("sp", "sp", -1) /\ Push(r)[2] = Sw(r, "sp", 0)
BY Twos DEF Push

LEMMA PopText ==
  ASSUME NEW r
  PROVE  /\ IsLong(Pop(r), 2)
         /\ Pop(r)[1] = Lw(r, "sp", 0) /\ Pop(r)[2] = Addi("sp", "sp", 1)
BY Twos DEF Pop

LEMMA CellText ==
  ASSUME NEW l
  PROVE  /\ IsLong(LoadCell(l), 3)
         /\ LoadCell(l)[1] = La("a0", l)
         /\ LoadCell(l)[2] = Lw("a0", "a0", 0)
         /\ LoadCell(l)[3] = Lw("a1", "a0", 0)
BY Threes DEF LoadCell

LEMMA CountText ==
  /\ IsLong(AddOne, 2)
  /\ AddOne[1] = Addi("a1", "a1", 1) /\ AddOne[2] = Sw("a1", "a0", 0)
  /\ IsLong(Reset, 2)
  /\ Reset[1] = Add("a1", "zero", "zero") /\ Reset[2] = Sw("a1", "a0", 0)
BY Twos DEF AddOne, Reset

LEMMA TimerEntryText ==
  LET u == TimerEntry IN
  /\ IsLong(u, 15)
  /\ u[1] = Addi("sp", "sp", -1) /\ u[2] = Sw("k0", "sp", 0)
  /\ u[3] = Ei /\ SavesAt(u, 3, TimerSaved, 6)
<1> DEFINE a == Push("k0")
           b == <<Ei>>
           c == Pushes(TimerSaved)
           u == a \o b \o c
<1>1. IsLong(TimerSaved, 6)
  BY Sixes DEF TimerSaved
<1>2. Saves(c, TimerSaved, 6)
  BY <1>1, PushesFacts
<1>3. IsLong(a, 2) /\ a[1] = Addi("sp", "sp", -1) /\ a[2] = Sw("k0", "sp", 0)
  BY PushText
<1>4. IsLong(b, 1) /\ b[1] = Ei
  BY Ones
<1>5. TimerEntry = u
  BY DEF TimerEntry
<1> HIDE DEF a, b, c
<1>6. IsLong(c, 12)
  BY <1>2 DEF Saves
<1>7. /\ IsLong(u, 2 + 1 + 12) /\ Holds(u, 2 + 1 + 12, 0, a, 2)
      /\ Holds(u, 2 + 1 + 12, 2, b, 1) /\ Holds(u, 2 + 1 + 12, 2 + 1, c, 12)
  BY <1>3, <1>4, <1>6, ThreeParts
<1> HIDE DEF u
<1>8. SavesAt(u, 3, TimerSaved, 6)
  <2>1. Holds(u, 15, 3, c, 2 * 6)
    BY <1>7
  <2> QED BY <1>2, <2>1, SavesInside
<1>9. u[1] = a[1] /\ u[2] = a[2] /\ u[3] = b[1]
  <2>1. \A k \in 1 .. 2 : u[0 + k] = a[k]
    BY <1>7 DEF Holds
  <2>2. \A k \in 1 .. 1 : u[2 + k] = b[k]
    BY <1>7 DEF Holds
  <2> QED BY <2>1, <2>2
<1>10. IsLong(u, 15)
  BY <1>7
<1> QED BY <1>3, <1>4, <1>5, <1>8, <1>9, <1>10

LEMMA TimerExitText ==
  LET u == TimerExit IN
  /\ IsLong(u, 16) /\ RestoresAt(u, 0, TimerSaved, 6)
  /\ u[13] = Di /\ u[14] = Lw("k0", "sp", 0) /\ u[15] = Addi("sp", "sp", 1)
  /\ u[16] = Reti
<1> DEFINE a == Pops(Reverse(TimerSaved))
           b == <<Di>>
           c == Pop("k0")
           d == <<Reti>>
           u == a \o b \o c \o d
           N == 12 + 1 + 2 + 1
<1>1. IsLong(TimerSaved, 6)
  BY Sixes DEF TimerSaved
<1>2. Restores(a, TimerSaved, 6)
  BY <1>1, PopsFacts
<1>3. IsLong(c, 2) /\ c[1] = Lw("k0", "sp", 0) /\ c[2] = Addi("sp", "sp", 1)
  BY PopText
<1>4. IsLong(b, 1) /\ b[1] = Di /\ IsLong(d, 1) /\ d[1] = Reti
  BY Ones
<1>5. TimerExit = u
  BY DEF TimerExit
<1> HIDE DEF a, b, c, d
<1>6. IsLong(a, 12)
  BY <1>2 DEF Restores
<1>7. /\ IsLong(u, N) /\ Holds(u, N, 0, a, 12) /\ Holds(u, N, 12, b, 1)
      /\ Holds(u, N, 12 + 1, c, 2) /\ Holds(u, N, 12 + 1 + 2, d, 1)
  BY <1>3, <1>4, <1>6, FourParts
<1> HIDE DEF u
<1>8. RestoresAt(u, 0, TimerSaved, 6)
  <2>1. Holds(u, N, 0, a, 2 * 6)
    BY <1>7
  <2> QED BY <1>2, <2>1, RestoresInside
<1>9. u[13] = b[1] /\ u[14] = c[1] /\ u[15] = c[2] /\ u[16] = d[1]
  <2>1. \A k \in 1 .. 1 : u[12 + k] = b[k]
    BY <1>7 DEF Holds
  <2>2. \A k \in 1 .. 2 : u[(12 + 1) + k] = c[k]
    BY <1>7 DEF Holds
  <2>3. \A k \in 1 .. 1 : u[(12 + 1 + 2) + k] = d[k]
    BY <1>7 DEF Holds
  <2> QED BY <2>1, <2>2, <2>3
<1>10. IsLong(u, 16)
  BY <1>7
<1> QED BY <1>3, <1>4, <1>5, <1>8, <1>9, <1>10

LEMMA SavesDeeper ==
  ASSUME NEW u, NEW N, NEW p, NEW s, NEW M, Holds(u, N, p, s, M),
         NEW q, NEW rs, NEW L \in Nat, SavesAt(s, q, rs, L), q \in Nat, q + 2 * L <= M
  PROVE  SavesAt(u, p + q, rs, L)
<1> SUFFICES ASSUME NEW n \in 1 .. L
             PROVE  /\ u[(p + q) + (2 * n - 1)] = Addi("sp", "sp", -1)
                    /\ u[(p + q) + 2 * n] = Sw(rs[n], "sp", 0)
  BY DEF SavesAt
<1>1. p \in Nat /\ M \in Nat
  BY DEF Holds, IsLong
<1>2. /\ q + (2 * n - 1) \in 1 .. M /\ q + 2 * n \in 1 .. M
      /\ p + (q + (2 * n - 1)) = (p + q) + (2 * n - 1)
      /\ p + (q + 2 * n) = (p + q) + 2 * n
  BY <1>1
<1>3. /\ u[p + (q + (2 * n - 1))] = s[q + (2 * n - 1)]
      /\ u[p + (q + 2 * n)] = s[q + 2 * n]
  BY <1>2 DEF Holds
<1>4. s[q + (2 * n - 1)] = Addi("sp", "sp", -1) /\ s[q + 2 * n] = Sw(rs[n], "sp", 0)
  BY DEF SavesAt
<1> QED BY <1>2, <1>3, <1>4

LEMMA RestoresDeeper ==
  ASSUME NEW u, NEW N, NEW p, NEW s, NEW M, Holds(u, N, p, s, M),
         NEW q, NEW rs, NEW L \in Nat, RestoresAt(s, q, rs, L), q \in Nat, q + 2 * L <= M
  PROVE  RestoresAt(u, p + q, rs, L)
<1> SUFFICES ASSUME NEW n \in 1 .. L
             PROVE  /\ u[(p + q) + (2 * n - 1)] = Lw(rs[L + 1 - n], "sp", 0)
                    /\ u[(p + q) + 2 * n] = Addi("sp", "sp", 1)
  BY DEF RestoresAt
<1>1. p \in Nat /\ M \in Nat
  BY DEF Holds, IsLong
<1>2. /\ q + (2 * n - 1) \in 1 .. M /\ q + 2 * n \in 1 .. M
      /\ p + (q + (2 * n - 1)) = (p + q) + (2 * n - 1)
      /\ p + (q + 2 * n) = (p + q) + 2 * n
  BY <1>1
<1>3. /\ u[p + (q + (2 * n - 1))] = s[q + (2 * n - 1)]
      /\ u[p + (q + 2 * n)] = s[q + 2 * n]
  BY <1>2 DEF Holds
<1>4. /\ s[q + (2 * n - 1)] = Lw(rs[L + 1 - n], "sp", 0)
      /\ s[q + 2 * n] = Addi("sp", "sp", 1)
  BY DEF RestoresAt
<1> QED BY <1>2, <1>3, <1>4

LEMMA TimerText ==
  LET enter == TimerHandler[1].code
      minutes == TimerHandler[2].code
      hours == TimerHandler[3].code
      leave == TimerHandler[4].code
  IN
  /\ IsLong(enter, 23)
  /\ enter[1] = Addi("sp", "sp", -1) /\ enter[2] = Sw("k0", "sp", 0)
  /\ enter[3] = Ei /\ SavesAt(enter, 3, TimerSaved, 6)
  /\ enter[16] = La("a0", "seconds")
  /\ enter[17] = Lw("a0", "a0", 0)
  /\ enter[18] = Lw("a1", "a0", 0)
  /\ enter[19] = Addi("a3", "zero", Limit)
  /\ enter[20] = Beq("a1", "a3", "inc_minutes")
  /\ enter[21] = Addi("a1", "a1", 1) /\ enter[22] = Sw("a1", "a0", 0)
  /\ enter[23] = Goto("clean_up")
  /\ IsLong(minutes, 9)
  /\ minutes[1] = Add("a1", "zero", "zero") /\ minutes[2] = Sw("a1", "a0", 0)
  /\ minutes[3] = La("a0", "minutes")
  /\ minutes[4] = Lw("a0", "a0", 0)
  /\ minutes[5] = Lw("a1", "a0", 0)
  /\ minutes[6] = Beq("a1", "a3", "inc_hours")
  /\ minutes[7] = Addi("a1", "a1", 1) /\ minutes[8] = Sw("a1", "a0", 0)
  /\ minutes[9] = Goto("clean_up")
  /\ IsLong(hours, 7)
  /\ hours[1] = Add("a1", "zero", "zero") /\ hours[2] = Sw("a1", "a0", 0)
  /\ hours[3] = La("a0", "hours")
  /\ hours[4] = Lw("a0", "a0", 0)
  /\ hours[5] = Lw("a1", "a0", 0)
  /\ hours[6] = Addi("a1", "a1", 1) /\ hours[7] = Sw("a1", "a0", 0)
  /\ IsLong(leave, 16) /\ RestoresAt(leave, 0, TimerSaved, 6)
  /\ leave[13] = Di /\ leave[14] = Lw("k0", "sp", 0)
  /\ leave[15] = Addi("sp", "sp", 1) /\ leave[16] = Reti
<1> DEFINE test == <<Addi("a3", "zero", Limit), Beq("a1", "a3", "inc_minutes")>>
           testM == <<Beq("a1", "a3", "inc_hours")>>
           end == <<Goto("clean_up")>>
           sec == LoadCell("seconds")
           min == LoadCell("minutes")
           hour == LoadCell("hours")
           u == TimerEntry \o sec \o test \o AddOne \o end
           v == Reset \o min \o testM \o AddOne \o end
           w == Reset \o hour \o AddOne
           N == 15 + 3 + 2 + 2 + 1
           M == 2 + 3 + 1 + 2 + 1
           L == 2 + 3 + 2
<1>1. /\ IsLong(test, 2) /\ test[1] = Addi("a3", "zero", Limit)
      /\ test[2] = Beq("a1", "a3", "inc_minutes")
  BY Twos
<1>2. IsLong(testM, 1) /\ testM[1] = Beq("a1", "a3", "inc_hours")
  BY Ones
<1>3. IsLong(end, 1) /\ end[1] = Goto("clean_up")
  BY Ones
<1>4. /\ IsLong(sec, 3) /\ sec[1] = La("a0", "seconds")
      /\ sec[2] = Lw("a0", "a0", 0) /\ sec[3] = Lw("a1", "a0", 0)
      /\ IsLong(min, 3) /\ min[1] = La("a0", "minutes")
      /\ min[2] = Lw("a0", "a0", 0) /\ min[3] = Lw("a1", "a0", 0)
      /\ IsLong(hour, 3) /\ hour[1] = La("a0", "hours")
      /\ hour[2] = Lw("a0", "a0", 0) /\ hour[3] = Lw("a1", "a0", 0)
  BY CellText
<1>5. /\ TimerHandler[1].code = u /\ TimerHandler[2].code = v
      /\ TimerHandler[3].code = w /\ TimerHandler[4].code = TimerExit
  BY DEF TimerHandler
<1> HIDE DEF test, testM, end, sec, min, hour
<1>6. IsLong(TimerEntry, 15) /\ IsLong(AddOne, 2) /\ IsLong(Reset, 2)
  BY TimerEntryText, CountText
<1>7. /\ IsLong(u, N) /\ Holds(u, N, 0, TimerEntry, 15) /\ Holds(u, N, 15, sec, 3)
      /\ Holds(u, N, 15 + 3, test, 2) /\ Holds(u, N, 15 + 3 + 2, AddOne, 2)
      /\ Holds(u, N, 15 + 3 + 2 + 2, end, 1)
  <2>1. /\ IsLong(TimerEntry, 15) /\ IsLong(sec, 3) /\ IsLong(test, 2)
        /\ IsLong(AddOne, 2) /\ IsLong(end, 1)
    BY <1>1, <1>3, <1>4, <1>6
  <2> QED BY ONLY <2>1, FiveParts
<1>8. /\ IsLong(v, M) /\ Holds(v, M, 0, Reset, 2) /\ Holds(v, M, 2, min, 3)
      /\ Holds(v, M, 2 + 3, testM, 1) /\ Holds(v, M, 2 + 3 + 1, AddOne, 2)
      /\ Holds(v, M, 2 + 3 + 1 + 2, end, 1)
  <2>1. /\ IsLong(Reset, 2) /\ IsLong(min, 3) /\ IsLong(testM, 1)
        /\ IsLong(AddOne, 2) /\ IsLong(end, 1)
    BY <1>2, <1>3, <1>4, <1>6
  <2> QED BY ONLY <2>1, FiveParts
<1>9. /\ IsLong(w, L) /\ Holds(w, L, 0, Reset, 2) /\ Holds(w, L, 2, hour, 3)
      /\ Holds(w, L, 2 + 3, AddOne, 2)
  BY <1>4, <1>6, ThreeParts
<1> HIDE DEF u, v, w
<1>10. /\ \A k \in 1 .. 15 : u[0 + k] = TimerEntry[k]
       /\ \A k \in 1 .. 3 : u[15 + k] = sec[k]
       /\ \A k \in 1 .. 2 : u[(15 + 3) + k] = test[k]
       /\ \A k \in 1 .. 2 : u[(15 + 3 + 2) + k] = AddOne[k]
       /\ \A k \in 1 .. 1 : u[(15 + 3 + 2 + 2) + k] = end[k]
  BY <1>7 DEF Holds
<1>11. /\ \A k \in 1 .. 2 : v[0 + k] = Reset[k]
       /\ \A k \in 1 .. 3 : v[2 + k] = min[k]
       /\ \A k \in 1 .. 1 : v[(2 + 3) + k] = testM[k]
       /\ \A k \in 1 .. 2 : v[(2 + 3 + 1) + k] = AddOne[k]
       /\ \A k \in 1 .. 1 : v[(2 + 3 + 1 + 2) + k] = end[k]
  BY <1>8 DEF Holds
<1>12. /\ \A k \in 1 .. 2 : w[0 + k] = Reset[k]
       /\ \A k \in 1 .. 3 : w[2 + k] = hour[k]
       /\ \A k \in 1 .. 2 : w[(2 + 3) + k] = AddOne[k]
  BY <1>9 DEF Holds
<1>13. /\ u[1] = TimerEntry[1] /\ u[2] = TimerEntry[2] /\ u[3] = TimerEntry[3]
       /\ u[16] = sec[1] /\ u[17] = sec[2] /\ u[18] = sec[3]
       /\ u[19] = test[1] /\ u[20] = test[2]
       /\ u[21] = AddOne[1] /\ u[22] = AddOne[2] /\ u[23] = end[1]
  BY <1>10
<1>14. /\ v[1] = Reset[1] /\ v[2] = Reset[2]
       /\ v[3] = min[1] /\ v[4] = min[2] /\ v[5] = min[3] /\ v[6] = testM[1]
       /\ v[7] = AddOne[1] /\ v[8] = AddOne[2] /\ v[9] = end[1]
  BY <1>11
<1>15. /\ w[1] = Reset[1] /\ w[2] = Reset[2]
       /\ w[3] = hour[1] /\ w[4] = hour[2] /\ w[5] = hour[3]
       /\ w[6] = AddOne[1] /\ w[7] = AddOne[2]
  BY <1>12
<1>16. SavesAt(u, 3, TimerSaved, 6)
  <2>1. SavesAt(u, 0 + 3, TimerSaved, 6)
    BY <1>7, TimerEntryText, SavesDeeper
  <2> QED BY <2>1
<1>17. IsLong(u, 23) /\ IsLong(v, 9) /\ IsLong(w, 7)
  BY <1>7, <1>8, <1>9
<1>18. /\ AddOne[1] = Addi("a1", "a1", 1) /\ AddOne[2] = Sw("a1", "a0", 0)
       /\ Reset[1] = Add("a1", "zero", "zero") /\ Reset[2] = Sw("a1", "a0", 0)
  BY CountText
<1> QED BY <1>1, <1>2, <1>3, <1>4, <1>5, <1>13, <1>14, <1>15, <1>16, <1>17, <1>18,
           TimerEntryText, TimerExitText

LEMMA KeyboardText ==
  LET u == KeyboardHandler[1].code IN
  /\ IsLong(u, 37)
  /\ u[1] = Addi("sp", "sp", -1) /\ u[2] = Sw("k0", "sp", 0)
  /\ u[3] = Addi("sp", "sp", -1) /\ u[4] = Sw("a0", "sp", 0)
  /\ u[5] = Bonj("a0") /\ u[6] = Ei
  /\ SavesAt(u, 6, KeyboardSaved, 5)
  /\ u[17] = La("a1", "keyboard_out") /\ u[18] = Lw("a2", "a1", 0)
  /\ u[19] = Sw("a0", "a2", 0) /\ u[20] = Addi("a2", "a2", 1)
  /\ u[21] = Sw("a2", "a1", 0)
  /\ RestoresAt(u, 21, KeyboardSaved, 5)
  /\ u[32] = Lw("a0", "sp", 0) /\ u[33] = Addi("sp", "sp", 1)
  /\ u[34] = Di
  /\ u[35] = Lw("k0", "sp", 0) /\ u[36] = Addi("sp", "sp", 1)
  /\ u[37] = Reti
<1> DEFINE saveK == Push("k0")
           saveA == Push("a0")
           read == <<Bonj("a0"), Ei>>
           saves == Pushes(KeyboardSaved)
           enter == saveK \o saveA \o read \o saves
           restores == Pops(Reverse(KeyboardSaved))
           popA == Pop("a0")
           off == <<Di>>
           popK == Pop("k0")
           end == <<Reti>>
           leave == restores \o popA \o off \o popK \o end
           store == StoreKey
           u == enter \o store \o leave
           N == 2 + 2 + 2 + 10
           M == 10 + 2 + 1 + 2 + 1
           L == 16 + 5 + 16
<1>1. IsLong(KeyboardSaved, 5)
  BY Fives DEF KeyboardSaved
<1>2. Saves(saves, KeyboardSaved, 5) /\ Restores(restores, KeyboardSaved, 5)
  BY <1>1, PushesFacts, PopsFacts
<1>3. /\ IsLong(saveK, 2) /\ saveK[1] = Addi("sp", "sp", -1) /\ saveK[2] = Sw("k0", "sp", 0)
      /\ IsLong(saveA, 2) /\ saveA[1] = Addi("sp", "sp", -1) /\ saveA[2] = Sw("a0", "sp", 0)
  BY PushText
<1>4. /\ IsLong(popK, 2) /\ popK[1] = Lw("k0", "sp", 0) /\ popK[2] = Addi("sp", "sp", 1)
      /\ IsLong(popA, 2) /\ popA[1] = Lw("a0", "sp", 0) /\ popA[2] = Addi("sp", "sp", 1)
  BY PopText
<1>5. IsLong(read, 2) /\ read[1] = Bonj("a0") /\ read[2] = Ei
  BY Twos
<1>6. IsLong(off, 1) /\ off[1] = Di /\ IsLong(end, 1) /\ end[1] = Reti
  BY Ones
<1>7. /\ IsLong(store, 5)
      /\ store[1] = La("a1", "keyboard_out") /\ store[2] = Lw("a2", "a1", 0)
      /\ store[3] = Sw("a0", "a2", 0) /\ store[4] = Addi("a2", "a2", 1)
      /\ store[5] = Sw("a2", "a1", 0)
  BY Fives DEF StoreKey
<1>8. KeyboardHandler[1].code = u
  BY DEF KeyboardHandler, KeyboardEntry, KeyboardExit
<1> HIDE DEF saveK, saveA, read, saves, restores, popA, off, popK, end, store
<1>9. IsLong(saves, 10) /\ IsLong(restores, 10)
  BY <1>2 DEF Saves, Restores
<1>10. /\ IsLong(enter, N) /\ Holds(enter, N, 0, saveK, 2) /\ Holds(enter, N, 2, saveA, 2)
       /\ Holds(enter, N, 2 + 2, read, 2) /\ Holds(enter, N, 2 + 2 + 2, saves, 10)
  BY <1>3, <1>5, <1>9, FourParts
<1>11. /\ IsLong(leave, M) /\ Holds(leave, M, 0, restores, 10)
       /\ Holds(leave, M, 10, popA, 2) /\ Holds(leave, M, 10 + 2, off, 1)
       /\ Holds(leave, M, 10 + 2 + 1, popK, 2) /\ Holds(leave, M, 10 + 2 + 1 + 2, end, 1)
  <2>1. /\ IsLong(restores, 10) /\ IsLong(popA, 2) /\ IsLong(off, 1)
        /\ IsLong(popK, 2) /\ IsLong(end, 1)
    BY <1>4, <1>6, <1>9
  <2> QED BY ONLY <2>1, FiveParts
<1> HIDE DEF enter, leave
<1>12. IsLong(enter, 16) /\ IsLong(leave, 16)
  BY <1>10, <1>11
<1>13. /\ IsLong(u, L) /\ Holds(u, L, 0, enter, 16) /\ Holds(u, L, 16, store, 5)
       /\ Holds(u, L, 16 + 5, leave, 16)
  BY <1>7, <1>12, ThreeParts
<1> HIDE DEF u
<1>14. SavesAt(u, 6, KeyboardSaved, 5)
  <2>1. Holds(enter, 16, 6, saves, 2 * 5)
    BY <1>10
  <2>2. SavesAt(enter, 6, KeyboardSaved, 5)
    BY <1>2, <2>1, SavesInside
  <2>3. SavesAt(u, 0 + 6, KeyboardSaved, 5)
    BY <1>13, <2>2, SavesDeeper
  <2> QED BY <2>3
<1>15. RestoresAt(u, 21, KeyboardSaved, 5)
  <2>1. Holds(leave, 16, 0, restores, 2 * 5)
    BY <1>11
  <2>2. RestoresAt(leave, 0, KeyboardSaved, 5)
    BY <1>2, <2>1, RestoresInside
  <2>3. RestoresAt(u, (16 + 5) + 0, KeyboardSaved, 5)
    BY <1>13, <2>2, RestoresDeeper
  <2> QED BY <2>3
<1>16. /\ \A k \in 1 .. 16 : u[0 + k] = enter[k]
       /\ \A k \in 1 .. 5 : u[16 + k] = store[k]
       /\ \A k \in 1 .. 16 : u[(16 + 5) + k] = leave[k]
  BY <1>13 DEF Holds
<1>17. /\ \A k \in 1 .. 2 : enter[0 + k] = saveK[k]
       /\ \A k \in 1 .. 2 : enter[2 + k] = saveA[k]
       /\ \A k \in 1 .. 2 : enter[(2 + 2) + k] = read[k]
  BY <1>10 DEF Holds
<1>18. /\ \A k \in 1 .. 2 : leave[10 + k] = popA[k]
       /\ \A k \in 1 .. 1 : leave[(10 + 2) + k] = off[k]
       /\ \A k \in 1 .. 2 : leave[(10 + 2 + 1) + k] = popK[k]
       /\ \A k \in 1 .. 1 : leave[(10 + 2 + 1 + 2) + k] = end[k]
  BY <1>11 DEF Holds
<1>19. /\ u[1] = saveK[1] /\ u[2] = saveK[2] /\ u[3] = saveA[1] /\ u[4] = saveA[2]
       /\ u[5] = read[1] /\ u[6] = read[2]
  <2>1. /\ u[1] = enter[1] /\ u[2] = enter[2] /\ u[3] = enter[3] /\ u[4] = enter[4]
        /\ u[5] = enter[5] /\ u[6] = enter[6]
    BY <1>16
  <2>2. /\ enter[1] = saveK[1] /\ enter[2] = saveK[2] /\ enter[3] = saveA[1]
        /\ enter[4] = saveA[2] /\ enter[5] = read[1] /\ enter[6] = read[2]
    BY <1>17
  <2> QED BY <2>1, <2>2
<1>20. /\ u[17] = store[1] /\ u[18] = store[2] /\ u[19] = store[3]
       /\ u[20] = store[4] /\ u[21] = store[5]
  BY <1>16
<1>21. /\ u[32] = popA[1] /\ u[33] = popA[2] /\ u[34] = off[1]
       /\ u[35] = popK[1] /\ u[36] = popK[2] /\ u[37] = end[1]
  <2>1. /\ u[32] = leave[11] /\ u[33] = leave[12] /\ u[34] = leave[13]
        /\ u[35] = leave[14] /\ u[36] = leave[15] /\ u[37] = leave[16]
    BY <1>16
  <2>2. /\ leave[11] = popA[1] /\ leave[12] = popA[2] /\ leave[13] = off[1]
        /\ leave[14] = popK[1] /\ leave[15] = popK[2] /\ leave[16] = end[1]
    BY <1>18
  <2> QED BY <2>1, <2>2
<1>22. IsLong(u, 37)
  BY <1>13
<1> QED BY <1>3, <1>4, <1>5, <1>6, <1>7, <1>8, <1>14, <1>15, <1>19, <1>20, <1>21, <1>22

-----------------------------------------------------------------------------
(* The layout: where the sections begin, and what an address holds.        *)

Keys == IF "keyboard" \in Devices THEN 1 ELSE 0

LEMMA SectionsText ==
  /\ IsLong(Sections, 11 + Keys)
  /\ Sections[1].label = "main" /\ Sections[1].code = Main
  /\ Sections[2].label = "factorial" /\ Sections[2].code = Factorial[1].code
  /\ Sections[3].label = "base_zero" /\ Sections[3].code = Factorial[2].code
  /\ Sections[4].label = "base_one" /\ Sections[4].code = Factorial[3].code
  /\ Sections[5].label = "recurse" /\ Sections[5].code = Factorial[4].code
  /\ Sections[6].label = "mul" /\ Sections[6].code = Factorial[5].code
  /\ Sections[7].label = "done" /\ Sections[7].code = Factorial[6].code
  /\ Sections[8].label = "ti_inthandler" /\ Sections[8].code = TimerHandler[1].code
  /\ Sections[9].label = "inc_minutes" /\ Sections[9].code = TimerHandler[2].code
  /\ Sections[10].label = "inc_hours" /\ Sections[10].code = TimerHandler[3].code
  /\ Sections[11].label = "clean_up" /\ Sections[11].code = TimerHandler[4].code
  /\ "keyboard" \in Devices => /\ Sections[12].label = "keyboard_handler"
                               /\ Sections[12].code = KeyboardHandler[1].code
<1> DEFINE a == <<[label |-> "main", code |-> Main]>>
           b == Factorial
           c == TimerHandler
           d == IF "keyboard" \in Devices THEN KeyboardHandler ELSE <<>>
           u == a \o b \o c \o d
           N == 1 + 6 + 4 + Keys
<1>1. IsLong(a, 1) /\ a[1].label = "main" /\ a[1].code = Main
  BY Ones
<1>2. /\ IsLong(b, 6)
      /\ b[1].label = "factorial" /\ b[2].label = "base_zero"
      /\ b[3].label = "base_one" /\ b[4].label = "recurse"
      /\ b[5].label = "mul" /\ b[6].label = "done"
  BY Sixes DEF Factorial
<1>3. /\ IsLong(c, 4)
      /\ c[1].label = "ti_inthandler" /\ c[2].label = "inc_minutes"
      /\ c[3].label = "inc_hours" /\ c[4].label = "clean_up"
  BY Fours DEF TimerHandler
<1>4. /\ IsLong(d, Keys)
      /\ "keyboard" \in Devices => /\ d[1].label = "keyboard_handler"
                                   /\ d[1].code = KeyboardHandler[1].code
  <2>1. /\ IsLong(KeyboardHandler, 1)
        /\ KeyboardHandler[1].label = "keyboard_handler"
    BY Ones DEF KeyboardHandler
  <2> QED BY <2>1, Empty DEF Keys
<1>5. Sections = u
  BY DEF Sections
<1> HIDE DEF a, b, c, d
<1>6. /\ IsLong(u, N) /\ Holds(u, N, 0, a, 1) /\ Holds(u, N, 1, b, 6)
      /\ Holds(u, N, 1 + 6, c, 4) /\ Holds(u, N, 1 + 6 + 4, d, Keys)
  <2>1. IsLong(a, 1) /\ IsLong(b, 6) /\ IsLong(c, 4) /\ IsLong(d, Keys)
    BY <1>1, <1>2, <1>3, <1>4
  <2> QED BY ONLY <2>1, FourParts
<1> HIDE DEF u
<1>7. N = 11 + Keys
  BY DEF Keys
<1>8. /\ \A k \in 1 .. 1 : u[0 + k] = a[k]
      /\ \A k \in 1 .. 6 : u[1 + k] = b[k]
      /\ \A k \in 1 .. 4 : u[(1 + 6) + k] = c[k]
      /\ \A k \in 1 .. Keys : u[(1 + 6 + 4) + k] = d[k]
  BY <1>6 DEF Holds
<1>9. /\ u[1] = a[1] /\ u[2] = b[1] /\ u[3] = b[2] /\ u[4] = b[3]
      /\ u[5] = b[4] /\ u[6] = b[5] /\ u[7] = b[6]
      /\ u[8] = c[1] /\ u[9] = c[2] /\ u[10] = c[3] /\ u[11] = c[4]
      /\ "keyboard" \in Devices => u[12] = d[1]
  BY <1>8 DEF Keys
<1>10. IsLong(u, 11 + Keys)
  BY <1>6, <1>7
<1>11. b = Factorial /\ c = TimerHandler
  BY DEF b, c
<1> HIDE DEF N
<1> QED BY <1>1, <1>2, <1>3, <1>4, <1>5, <1>9, <1>10, <1>11

\* Where the sections begin, behind the vector table.
Starts(at) ==
  /\ at[1] = 0 /\ at[2] = 9 + Extra /\ at[3] = 21 + Extra
  /\ at[4] = 23 + Extra /\ at[5] = 25 + Extra /\ at[6] = 31 + Extra
  /\ at[7] = 35 + Extra /\ at[8] = 44 + Extra /\ at[9] = 67 + Extra
  /\ at[10] = 76 + Extra /\ at[11] = 83 + Extra /\ at[12] = 99 + Extra
  /\ "keyboard" \in Devices => at[13] = 136 + Extra

CodeOf(n) == Sections[n].code
Size == 99 + Extra + 37 * Keys

LEMMA Lengths ==
  /\ IsLong(CodeOf(1), 9 + Extra) /\ IsLong(CodeOf(2), 12)
  /\ IsLong(CodeOf(3), 2) /\ IsLong(CodeOf(4), 2) /\ IsLong(CodeOf(5), 6)
  /\ IsLong(CodeOf(6), 4) /\ IsLong(CodeOf(7), 9) /\ IsLong(CodeOf(8), 23)
  /\ IsLong(CodeOf(9), 9) /\ IsLong(CodeOf(10), 7) /\ IsLong(CodeOf(11), 16)
  /\ "keyboard" \in Devices => IsLong(CodeOf(12), 37)
<1>1. /\ IsLong(Factorial[1].code, 12) /\ IsLong(Factorial[4].code, 6)
      /\ IsLong(Factorial[5].code, 4) /\ IsLong(Factorial[6].code, 9)
      /\ \A n \in 2 .. 3 : IsLong(Factorial[n].code, 2)
  BY FactorialText
<1>2. IsLong(Factorial[2].code, 2) /\ IsLong(Factorial[3].code, 2)
  BY <1>1
<1>3. /\ IsLong(TimerHandler[1].code, 23) /\ IsLong(TimerHandler[2].code, 9)
      /\ IsLong(TimerHandler[3].code, 7) /\ IsLong(TimerHandler[4].code, 16)
  BY TimerText
<1>4. IsLong(KeyboardHandler[1].code, 37)
  BY KeyboardText
<1>5. IsLong(Main, 9 + Extra)
  BY MainText
<1> QED BY <1>1, <1>2, <1>3, <1>4, <1>5, SectionsText DEF CodeOf

\* What Flattened says of the program.
LEMMA Layout ==
  \E at : /\ Starts(at)
          /\ IsLong(Code, Size)
          /\ \A n \in 1 .. 11 + Keys : SectionAt(n) = 16 + at[n]
          /\ \A n \in 1 .. 11 + Keys : \A i \in 1 .. Len(CodeOf(n)) :
               Fetch(15 + at[n] + i) = CodeOf(n)[i]
<1> DEFINE N == 11 + Keys
           ss == [n \in DOMAIN Sections |-> Sections[n].code]
<1>1. N \in Nat \ {0} /\ Keys \in {0, 1} /\ Extra \in {0, 2}
      /\ ("keyboard" \in Devices => Keys = 1 /\ Extra = 2)
      /\ ("keyboard" \notin Devices => Keys = 0 /\ Extra = 0)
  BY DEF Keys, Extra
<1>2. IsLong(Sections, N)
  BY SectionsText
<1>3. DOMAIN Sections = 1 .. N
  <2>1. IsSeq(Sections) /\ Len(Sections) = N
    BY <1>2 DEF IsLong
  <2> QED BY <2>1, LenProperties DEF IsSeq
<1>4. DOMAIN ss = 1 .. N /\ ss = [k \in 1 .. N |-> ss[k]]
  BY <1>3
<1>5. \A n \in 1 .. N : ss[n] = CodeOf(n)
  BY <1>3 DEF CodeOf
<1>6. Code = FlattenSeq(ss)
  BY DEF Code
<1> HIDE DEF N, ss
<1>7. IsSeq(ss) /\ Len(ss) = N
  BY <1>1, <1>4, FunctionIsSeq
<1>8. \A n \in 1 .. N : n \in {1, 2, 3, 4, 5, 6, 7, 8, 9, 10, 11} \/ (n = 12 /\ "keyboard" \in Devices)
  BY <1>1 DEF N
<1>9. \A n \in 1 .. N : IsSeq(ss[n])
  <2>1. \A n \in 1 .. N : IsSeq(CodeOf(n))
    BY <1>8, Lengths DEF IsLong
  <2> QED BY <1>5, <2>1
<1>10. PICK at : Begins(at, N, ss)
  BY <1>1, <1>7, <1>9, Flattened
<1>11. \A n \in 1 .. N : at[n + 1] = at[n] + Len(CodeOf(n))
  BY <1>5, <1>10 DEF Begins
<1>12. at[1] = 0
  BY <1>10 DEF Begins
<1>13. /\ Len(CodeOf(1)) = 9 + Extra /\ Len(CodeOf(2)) = 12
       /\ Len(CodeOf(3)) = 2 /\ Len(CodeOf(4)) = 2 /\ Len(CodeOf(5)) = 6
       /\ Len(CodeOf(6)) = 4 /\ Len(CodeOf(7)) = 9 /\ Len(CodeOf(8)) = 23
       /\ Len(CodeOf(9)) = 9 /\ Len(CodeOf(10)) = 7 /\ Len(CodeOf(11)) = 16
       /\ "keyboard" \in Devices => Len(CodeOf(12)) = 37
  BY Lengths DEF IsLong
<1>14. Starts(at)
  <2>1. /\ at[1 + 1] = at[1] + (9 + Extra) /\ at[2 + 1] = at[2] + 12
        /\ at[3 + 1] = at[3] + 2 /\ at[4 + 1] = at[4] + 2 /\ at[5 + 1] = at[5] + 6
        /\ at[6 + 1] = at[6] + 4 /\ at[7 + 1] = at[7] + 9 /\ at[8 + 1] = at[8] + 23
        /\ at[9 + 1] = at[9] + 9 /\ at[10 + 1] = at[10] + 7 /\ at[11 + 1] = at[11] + 16
        /\ "keyboard" \in Devices => at[12 + 1] = at[12] + 37
    <3>1. /\ 1 \in 1 .. N /\ 2 \in 1 .. N /\ 3 \in 1 .. N /\ 4 \in 1 .. N /\ 5 \in 1 .. N
          /\ 6 \in 1 .. N /\ 7 \in 1 .. N /\ 8 \in 1 .. N /\ 9 \in 1 .. N
          /\ 10 \in 1 .. N /\ 11 \in 1 .. N
          /\ "keyboard" \in Devices => 12 \in 1 .. N
      BY <1>1 DEF N
    <3>2. /\ at[1 + 1] = at[1] + Len(CodeOf(1)) /\ at[2 + 1] = at[2] + Len(CodeOf(2))
          /\ at[3 + 1] = at[3] + Len(CodeOf(3)) /\ at[4 + 1] = at[4] + Len(CodeOf(4))
          /\ at[5 + 1] = at[5] + Len(CodeOf(5)) /\ at[6 + 1] = at[6] + Len(CodeOf(6))
          /\ at[7 + 1] = at[7] + Len(CodeOf(7)) /\ at[8 + 1] = at[8] + Len(CodeOf(8))
          /\ at[9 + 1] = at[9] + Len(CodeOf(9)) /\ at[10 + 1] = at[10] + Len(CodeOf(10))
          /\ at[11 + 1] = at[11] + Len(CodeOf(11))
          /\ "keyboard" \in Devices => at[12 + 1] = at[12] + Len(CodeOf(12))
      BY <1>11, <3>1, Zenon
    <3> QED BY <1>13, <3>2
  <2> QED BY <1>1, <1>12, <2>1 DEF Starts
<1>15. IsLong(Code, Size)
  <2>1. IsSeq(Code) /\ Len(Code) = at[N + 1]
    BY <1>6, <1>10 DEF Begins
  <2>2. at[N + 1] = Size /\ Size \in Nat
    BY <1>1, <1>14 DEF Starts, Size, N
  <2> QED BY <2>1, <2>2 DEF IsLong
<1>16. ASSUME NEW n \in 1 .. N
       PROVE  SectionAt(n) = 16 + at[n]
  <2>1. Len(FlattenSeq([k \in 1 .. n - 1 |-> ss[k]])) = at[n]
    BY <1>10 DEF Begins
  <2>2. [k \in 1 .. n - 1 |-> ss[k]] = [k \in 1 .. n - 1 |-> Sections[k].code]
    <3>1. \A k \in 1 .. n - 1 : ss[k] = Sections[k].code
      <4>1. \A k \in 1 .. n - 1 : k \in 1 .. N
        BY <1>1
      <4> QED BY <1>5, <4>1 DEF CodeOf
    <3> QED BY <3>1
  <2> QED BY <2>1, <2>2 DEF SectionAt
<1>17. ASSUME NEW n \in 1 .. N, NEW i \in 1 .. Len(CodeOf(n))
       PROVE  Fetch(15 + at[n] + i) = CodeOf(n)[i]
  <2>1. Code[at[n] + i] = CodeOf(n)[i]
    BY <1>5, <1>6, <1>10 DEF Begins
  <2>2. at[n] \in Nat /\ i \in Int
    <3>1. n \in 1 .. N + 1
      BY <1>1
    <3>2. Len(CodeOf(n)) \in Nat
      BY <1>8, <1>13, <1>1
    <3> QED BY <1>10, <3>1, <3>2 DEF Begins
  <2> DEFINE a == 15 + at[n] + i
  <2>4. a - 15 = at[n] + i
    BY <2>2
  <2> HIDE DEF a
  <2>5. Fetch(a) = Code[a - 15]
    BY DEF Fetch
  <2>6. Fetch(a) = CodeOf(n)[i]
    BY <2>1, <2>4, <2>5
  <2> QED BY <2>6 DEF a
<1> QED BY <1>14, <1>15, <1>16, <1>17 DEF N

-----------------------------------------------------------------------------
(* The instructions at each address.                                       *)

\* Addresses of the program.
FactorialAt == 25 + Extra
TimerAt == 60 + Extra
KeyboardAt == 115 + Extra
WordsAt == 16 + Size

LEMMA LabelIs ==
  ASSUME NEW n \in 1 .. 11 + Keys
  PROVE  Labels[Sections[n].label] = SectionAt(n)
<1>1. Keys \in {0, 1} /\ ("keyboard" \notin Devices => Keys = 0)
  BY DEF Keys
<1>2. DOMAIN Sections = 1 .. 11 + Keys
  <2>1. IsSeq(Sections) /\ Len(Sections) = 11 + Keys
    BY SectionsText DEF IsLong
  <2> QED BY <2>1, LenProperties DEF IsSeq
<1>3. \A k \in 1 .. 11 + Keys :
        k \in {1, 2, 3, 4, 5, 6, 7, 8, 9, 10, 11} \/ (k = 12 /\ "keyboard" \in Devices)
  BY <1>1
<1>4. /\ Sections[1].label = "main" /\ Sections[2].label = "factorial"
      /\ Sections[3].label = "base_zero" /\ Sections[4].label = "base_one"
      /\ Sections[5].label = "recurse" /\ Sections[6].label = "mul"
      /\ Sections[7].label = "done" /\ Sections[8].label = "ti_inthandler"
      /\ Sections[9].label = "inc_minutes" /\ Sections[10].label = "inc_hours"
      /\ Sections[11].label = "clean_up"
      /\ "keyboard" \in Devices => Sections[12].label = "keyboard_handler"
  BY SectionsText
<1> DEFINE l == Sections[n].label
<1>5. \A k \in 1 .. 11 + Keys : Sections[k].label = l => k = n
  BY <1>3, <1>4
<1>6. l \in CodeLabels
  BY <1>2 DEF CodeLabels
<1>7. (CHOOSE k \in DOMAIN Sections : Sections[k].label = l) = n
  BY <1>2, <1>5
<1> HIDE DEF l
<1>8. Labels[l] = SectionAt(CHOOSE k \in DOMAIN Sections : Sections[k].label = l)
  BY <1>6 DEF Labels
<1> QED BY <1>7, <1>8 DEF l

LEMMA Addresses ==
  /\ IsLong(Code, Size)
  /\ Labels["main"] = 16
  /\ Labels["factorial"] = FactorialAt
  /\ Labels["base_zero"] = FactorialAt + 12
  /\ Labels["base_one"] = FactorialAt + 14
  /\ Labels["recurse"] = FactorialAt + 16
  /\ Labels["mul"] = FactorialAt + 22
  /\ Labels["done"] = FactorialAt + 26
  /\ Labels["ti_inthandler"] = TimerAt
  /\ Labels["inc_minutes"] = TimerAt + 23
  /\ Labels["inc_hours"] = TimerAt + 32
  /\ Labels["clean_up"] = TimerAt + 39
  /\ "keyboard" \in Devices => Labels["keyboard_handler"] = KeyboardAt
  /\ Labels["stack"] = WordsAt
  /\ Labels["seconds"] = WordsAt + 1
  /\ Labels["minutes"] = WordsAt + 2
  /\ Labels["hours"] = WordsAt + 3
  /\ Labels["keyboard_out"] = WordsAt + 4
<1>1. PICK at : /\ Starts(at) /\ IsLong(Code, Size)
                /\ \A n \in 1 .. 11 + Keys : SectionAt(n) = 16 + at[n]
  BY Layout
<1>2. Keys \in {0, 1} /\ ("keyboard" \in Devices <=> Keys = 1)
  BY DEF Keys
<1>3. /\ Sections[1].label = "main" /\ Sections[2].label = "factorial"
      /\ Sections[3].label = "base_zero" /\ Sections[4].label = "base_one"
      /\ Sections[5].label = "recurse" /\ Sections[6].label = "mul"
      /\ Sections[7].label = "done" /\ Sections[8].label = "ti_inthandler"
      /\ Sections[9].label = "inc_minutes" /\ Sections[10].label = "inc_hours"
      /\ Sections[11].label = "clean_up"
      /\ "keyboard" \in Devices => Sections[12].label = "keyboard_handler"
  BY SectionsText
<1>4. \A n \in 1 .. 11 + Keys : Labels[Sections[n].label] = 16 + at[n]
  BY <1>1, LabelIs
<1>5. /\ Labels[Sections[1].label] = 16 + at[1] /\ Labels[Sections[2].label] = 16 + at[2]
      /\ Labels[Sections[3].label] = 16 + at[3] /\ Labels[Sections[4].label] = 16 + at[4]
      /\ Labels[Sections[5].label] = 16 + at[5] /\ Labels[Sections[6].label] = 16 + at[6]
      /\ Labels[Sections[7].label] = 16 + at[7] /\ Labels[Sections[8].label] = 16 + at[8]
      /\ Labels[Sections[9].label] = 16 + at[9] /\ Labels[Sections[10].label] = 16 + at[10]
      /\ Labels[Sections[11].label] = 16 + at[11]
      /\ "keyboard" \in Devices => Labels[Sections[12].label] = 16 + at[12]
  BY <1>2, <1>4
<1>6. Extra \in Nat
  BY DEF Extra
<1>7. /\ 16 + at[1] = 16 /\ 16 + at[2] = FactorialAt /\ 16 + at[3] = FactorialAt + 12
      /\ 16 + at[4] = FactorialAt + 14 /\ 16 + at[5] = FactorialAt + 16
      /\ 16 + at[6] = FactorialAt + 22 /\ 16 + at[7] = FactorialAt + 26
      /\ 16 + at[8] = TimerAt /\ 16 + at[9] = TimerAt + 23
      /\ 16 + at[10] = TimerAt + 32 /\ 16 + at[11] = TimerAt + 39
      /\ 16 + at[12] = KeyboardAt
  BY <1>1, <1>6 DEF Starts, FactorialAt, TimerAt, KeyboardAt
<1>8. /\ Labels["main"] = 16 /\ Labels["factorial"] = FactorialAt
      /\ Labels["base_zero"] = FactorialAt + 12 /\ Labels["base_one"] = FactorialAt + 14
      /\ Labels["recurse"] = FactorialAt + 16 /\ Labels["mul"] = FactorialAt + 22
      /\ Labels["done"] = FactorialAt + 26 /\ Labels["ti_inthandler"] = TimerAt
      /\ Labels["inc_minutes"] = TimerAt + 23 /\ Labels["inc_hours"] = TimerAt + 32
      /\ Labels["clean_up"] = TimerAt + 39
      /\ "keyboard" \in Devices => Labels["keyboard_handler"] = KeyboardAt
  BY <1>3, <1>5, <1>7
<1>9. ASSUME NEW n \in 1 .. 5
      PROVE  Labels[WordOrder[n]] = 15 + Size + n
  <2>1. DOMAIN WordOrder = 1 .. 5 /\ WordOrder[n] \in DOMAIN Words
    BY DEF WordOrder, Words
  <2>2. WordOrder[n] \notin CodeLabels
    <3>1. DOMAIN Sections = 1 .. 11 + Keys
      <4>1. IsSeq(Sections) /\ Len(Sections) = 11 + Keys
        BY SectionsText DEF IsLong
      <4> QED BY <4>1, LenProperties DEF IsSeq
    <3>2. \A k \in 1 .. 11 + Keys :
            k \in {1, 2, 3, 4, 5, 6, 7, 8, 9, 10, 11} \/ (k = 12 /\ "keyboard" \in Devices)
      BY <1>2
    <3>3. WordOrder[n] \in {"stack", "seconds", "minutes", "hours", "keyboard_out"}
      BY DEF WordOrder
    <3>4. \A k \in 1 .. 11 + Keys : Sections[k].label # WordOrder[n]
      BY <1>3, <3>2, <3>3
    <3> QED BY <3>1, <3>4 DEF CodeLabels
  <2>3. (CHOOSE k \in DOMAIN WordOrder : WordOrder[k] = WordOrder[n]) = n
    <3>1. \A k \in 1 .. 5 : WordOrder[k] = WordOrder[n] => k = n
      BY DEF WordOrder
    <3> QED BY <2>1, <3>1
  <2>4. Len(Code) = Size
    BY <1>1 DEF IsLong
  <2> DEFINE l == WordOrder[n]
  <2>5. l \in DOMAIN Words /\ l \notin CodeLabels
    BY <2>1, <2>2
  <2> HIDE DEF l
  <2>6. Labels[l] = 15 + Len(Code) + CHOOSE k \in DOMAIN WordOrder : WordOrder[k] = l
    BY <2>5 DEF Labels
  <2> QED BY <2>3, <2>4, <2>6 DEF l
<1>10. Size \in Nat
  BY <1>1 DEF IsLong
<1>11. /\ WordOrder[1] = "stack" /\ WordOrder[2] = "seconds" /\ WordOrder[3] = "minutes"
       /\ WordOrder[4] = "hours" /\ WordOrder[5] = "keyboard_out"
  BY DEF WordOrder
<1>12. /\ Labels[WordOrder[1]] = 15 + Size + 1 /\ Labels[WordOrder[2]] = 15 + Size + 2
       /\ Labels[WordOrder[3]] = 15 + Size + 3 /\ Labels[WordOrder[4]] = 15 + Size + 4
       /\ Labels[WordOrder[5]] = 15 + Size + 5
  BY <1>9
<1>13. /\ 15 + Size + 1 = WordsAt /\ 15 + Size + 2 = WordsAt + 1
       /\ 15 + Size + 3 = WordsAt + 2 /\ 15 + Size + 4 = WordsAt + 3
       /\ 15 + Size + 5 = WordsAt + 4
  BY <1>10 DEF WordsAt
<1> QED BY <1>1, <1>8, <1>11, <1>12, <1>13

\* The instructions of main and of the function.
LEMMA MainCode ==
  /\ Fetch(16) = La("sp", "stack")
  /\ Fetch(17) = Lw("sp", "sp", 0)
  /\ Fetch(18) = La("a0", "ti_inthandler")
  /\ Fetch(19) = Sw("a0", "zero", 1)
  /\ "keyboard" \in Devices => /\ Fetch(20) = La("a0", "keyboard_handler")
                               /\ Fetch(21) = Sw("a0", "zero", 2)
  /\ Fetch(FactorialAt - 5) = Ei
  /\ Fetch(FactorialAt - 4) = La("at", "factorial")
  /\ Fetch(FactorialAt - 3) = Addi("a0", "zero", Argument)
  /\ Fetch(FactorialAt - 2) = Jalr("at", "ra")
  /\ Fetch(FactorialAt - 1) = Halt
<1>1. PICK at : /\ Starts(at)
                /\ \A n \in 1 .. 11 + Keys : \A i \in 1 .. Len(CodeOf(n)) :
                     Fetch(15 + at[n] + i) = CodeOf(n)[i]
  BY Layout
<1>2. Extra \in {0, 2} /\ Keys \in {0, 1} /\ ("keyboard" \in Devices => Extra = 2)
  BY DEF Extra, Keys
<1>3. Len(CodeOf(1)) = 9 + Extra /\ CodeOf(1) = Main
  BY Lengths, SectionsText DEF IsLong, CodeOf
<1>4. \A i \in 1 .. 9 + Extra : Fetch(15 + at[1] + i) = Main[i]
  <2>1. 1 \in 1 .. 11 + Keys
    BY <1>2
  <2>2. \A i \in 1 .. Len(CodeOf(1)) : Fetch(15 + at[1] + i) = CodeOf(1)[i]
    BY <1>1, <2>1
  <2> QED BY <1>3, <2>2
<1>5. \A i \in 1 .. 9 + Extra : Fetch(15 + i) = Main[i]
  <2>1. at[1] = 0
    BY <1>1 DEF Starts
  <2>2. \A i \in 1 .. 9 + Extra : 15 + at[1] + i = 15 + i
    BY <1>2, <2>1
  <2> QED BY <1>4, <2>2
<1>6. /\ Fetch(15 + 1) = Main[1] /\ Fetch(15 + 2) = Main[2] /\ Fetch(15 + 3) = Main[3]
      /\ Fetch(15 + 4) = Main[4]
      /\ "keyboard" \in Devices => Fetch(15 + 5) = Main[5] /\ Fetch(15 + 6) = Main[6]
      /\ Fetch(15 + (5 + Extra)) = Main[5 + Extra]
      /\ Fetch(15 + (6 + Extra)) = Main[6 + Extra]
      /\ Fetch(15 + (7 + Extra)) = Main[7 + Extra]
      /\ Fetch(15 + (8 + Extra)) = Main[8 + Extra]
      /\ Fetch(15 + (9 + Extra)) = Main[9 + Extra]
  BY <1>2, <1>5
<1>7. /\ 15 + (5 + Extra) = FactorialAt - 5 /\ 15 + (6 + Extra) = FactorialAt - 4
      /\ 15 + (7 + Extra) = FactorialAt - 3 /\ 15 + (8 + Extra) = FactorialAt - 2
      /\ 15 + (9 + Extra) = FactorialAt - 1
  BY <1>2 DEF FactorialAt
<1> QED BY <1>6, <1>7, MainText

LEMMA CodeAt ==
  /\ \A i \in 1 .. 12 : Fetch(FactorialAt - 1 + i) = Factorial[1].code[i]
  /\ \A i \in 1 .. 2 : Fetch(FactorialAt + 11 + i) = Factorial[2].code[i]
  /\ \A i \in 1 .. 2 : Fetch(FactorialAt + 13 + i) = Factorial[3].code[i]
  /\ \A i \in 1 .. 6 : Fetch(FactorialAt + 15 + i) = Factorial[4].code[i]
  /\ \A i \in 1 .. 4 : Fetch(FactorialAt + 21 + i) = Factorial[5].code[i]
  /\ \A i \in 1 .. 9 : Fetch(FactorialAt + 25 + i) = Factorial[6].code[i]
  /\ \A i \in 1 .. 23 : Fetch(TimerAt - 1 + i) = TimerHandler[1].code[i]
  /\ \A i \in 1 .. 9 : Fetch(TimerAt + 22 + i) = TimerHandler[2].code[i]
  /\ \A i \in 1 .. 7 : Fetch(TimerAt + 31 + i) = TimerHandler[3].code[i]
  /\ \A i \in 1 .. 16 : Fetch(TimerAt + 38 + i) = TimerHandler[4].code[i]
  /\ "keyboard" \in Devices =>
       \A i \in 1 .. 37 : Fetch(KeyboardAt - 1 + i) = KeyboardHandler[1].code[i]
<1>1. PICK at : /\ Starts(at)
                /\ \A n \in 1 .. 11 + Keys : \A i \in 1 .. Len(CodeOf(n)) :
                     Fetch(15 + at[n] + i) = CodeOf(n)[i]
  BY Layout
<1>2. Extra \in {0, 2} /\ Keys \in {0, 1} /\ ("keyboard" \in Devices => Keys = 1)
  BY DEF Extra, Keys
<1>4. /\ Len(CodeOf(2)) = 12
      /\ Len(CodeOf(3)) = 2 /\ Len(CodeOf(4)) = 2 /\ Len(CodeOf(5)) = 6
      /\ Len(CodeOf(6)) = 4 /\ Len(CodeOf(7)) = 9 /\ Len(CodeOf(8)) = 23
      /\ Len(CodeOf(9)) = 9 /\ Len(CodeOf(10)) = 7 /\ Len(CodeOf(11)) = 16
      /\ "keyboard" \in Devices => Len(CodeOf(12)) = 37
  BY Lengths DEF IsLong
<1>5. /\ CodeOf(2) = Factorial[1].code /\ CodeOf(3) = Factorial[2].code
      /\ CodeOf(4) = Factorial[3].code /\ CodeOf(5) = Factorial[4].code
      /\ CodeOf(6) = Factorial[5].code /\ CodeOf(7) = Factorial[6].code
      /\ CodeOf(8) = TimerHandler[1].code /\ CodeOf(9) = TimerHandler[2].code
      /\ CodeOf(10) = TimerHandler[3].code /\ CodeOf(11) = TimerHandler[4].code
      /\ "keyboard" \in Devices => CodeOf(12) = KeyboardHandler[1].code
  BY SectionsText DEF CodeOf
<1>6. /\ 15 + at[2] = FactorialAt - 1 /\ 15 + at[3] = FactorialAt + 11
      /\ 15 + at[4] = FactorialAt + 13 /\ 15 + at[5] = FactorialAt + 15
      /\ 15 + at[6] = FactorialAt + 21 /\ 15 + at[7] = FactorialAt + 25
      /\ 15 + at[8] = TimerAt - 1 /\ 15 + at[9] = TimerAt + 22
      /\ 15 + at[10] = TimerAt + 31 /\ 15 + at[11] = TimerAt + 38
      /\ 15 + at[12] = KeyboardAt - 1
  BY <1>1, <1>2 DEF Starts, FactorialAt, TimerAt, KeyboardAt
<1>7. FactorialAt \in Int /\ TimerAt \in Int /\ KeyboardAt \in Int
  BY <1>2 DEF FactorialAt, TimerAt, KeyboardAt
<1>8. /\ FactorialAt - 1 \in Int /\ FactorialAt + 11 \in Int /\ FactorialAt + 13 \in Int
      /\ FactorialAt + 15 \in Int /\ FactorialAt + 21 \in Int /\ FactorialAt + 25 \in Int
      /\ TimerAt - 1 \in Int /\ TimerAt + 22 \in Int /\ TimerAt + 31 \in Int
      /\ TimerAt + 38 \in Int /\ KeyboardAt - 1 \in Int
  BY <1>7
<1>9. /\ 2 \in 1 .. 11 + Keys /\ 3 \in 1 .. 11 + Keys /\ 4 \in 1 .. 11 + Keys
      /\ 5 \in 1 .. 11 + Keys /\ 6 \in 1 .. 11 + Keys /\ 7 \in 1 .. 11 + Keys
      /\ 8 \in 1 .. 11 + Keys /\ 9 \in 1 .. 11 + Keys /\ 10 \in 1 .. 11 + Keys
      /\ 11 \in 1 .. 11 + Keys
      /\ "keyboard" \in Devices => 12 \in 1 .. 11 + Keys
  BY <1>2
<1>10. ASSUME NEW n \in 1 .. 11 + Keys
       PROVE  \A i \in 1 .. Len(CodeOf(n)) : Fetch(15 + at[n] + i) = CodeOf(n)[i]
  BY <1>1
<1>11. \A i \in 1 .. 12 : Fetch(FactorialAt - 1 + i) = Factorial[1].code[i]
  <2>1. \A i \in 1 .. Len(CodeOf(2)) : Fetch(15 + at[2] + i) = CodeOf(2)[i]
    BY <1>9, <1>10
  <2>2. Len(CodeOf(2)) = 12 /\ CodeOf(2) = Factorial[1].code /\ 15 + at[2] = FactorialAt - 1
    BY <1>4, <1>5, <1>6
  <2> QED BY ONLY <2>1, <2>2
<1>12. \A i \in 1 .. 2 : Fetch(FactorialAt + 11 + i) = Factorial[2].code[i]
  <2>1. \A i \in 1 .. Len(CodeOf(3)) : Fetch(15 + at[3] + i) = CodeOf(3)[i]
    BY <1>9, <1>10
  <2>2. Len(CodeOf(3)) = 2 /\ CodeOf(3) = Factorial[2].code /\ 15 + at[3] = FactorialAt + 11
    BY <1>4, <1>5, <1>6
  <2> QED BY ONLY <2>1, <2>2
<1>13. \A i \in 1 .. 2 : Fetch(FactorialAt + 13 + i) = Factorial[3].code[i]
  <2>1. \A i \in 1 .. Len(CodeOf(4)) : Fetch(15 + at[4] + i) = CodeOf(4)[i]
    BY <1>9, <1>10
  <2>2. Len(CodeOf(4)) = 2 /\ CodeOf(4) = Factorial[3].code /\ 15 + at[4] = FactorialAt + 13
    BY <1>4, <1>5, <1>6
  <2> QED BY ONLY <2>1, <2>2
<1>14. \A i \in 1 .. 6 : Fetch(FactorialAt + 15 + i) = Factorial[4].code[i]
  <2>1. \A i \in 1 .. Len(CodeOf(5)) : Fetch(15 + at[5] + i) = CodeOf(5)[i]
    BY <1>9, <1>10
  <2>2. Len(CodeOf(5)) = 6 /\ CodeOf(5) = Factorial[4].code /\ 15 + at[5] = FactorialAt + 15
    BY <1>4, <1>5, <1>6
  <2> QED BY ONLY <2>1, <2>2
<1>15. \A i \in 1 .. 4 : Fetch(FactorialAt + 21 + i) = Factorial[5].code[i]
  <2>1. \A i \in 1 .. Len(CodeOf(6)) : Fetch(15 + at[6] + i) = CodeOf(6)[i]
    BY <1>9, <1>10
  <2>2. Len(CodeOf(6)) = 4 /\ CodeOf(6) = Factorial[5].code /\ 15 + at[6] = FactorialAt + 21
    BY <1>4, <1>5, <1>6
  <2> QED BY ONLY <2>1, <2>2
<1>16. \A i \in 1 .. 9 : Fetch(FactorialAt + 25 + i) = Factorial[6].code[i]
  <2>1. \A i \in 1 .. Len(CodeOf(7)) : Fetch(15 + at[7] + i) = CodeOf(7)[i]
    BY <1>9, <1>10
  <2>2. Len(CodeOf(7)) = 9 /\ CodeOf(7) = Factorial[6].code /\ 15 + at[7] = FactorialAt + 25
    BY <1>4, <1>5, <1>6
  <2> QED BY ONLY <2>1, <2>2
<1>17. \A i \in 1 .. 23 : Fetch(TimerAt - 1 + i) = TimerHandler[1].code[i]
  <2>1. \A i \in 1 .. Len(CodeOf(8)) : Fetch(15 + at[8] + i) = CodeOf(8)[i]
    BY <1>9, <1>10
  <2>2. Len(CodeOf(8)) = 23 /\ CodeOf(8) = TimerHandler[1].code /\ 15 + at[8] = TimerAt - 1
    BY <1>4, <1>5, <1>6
  <2> QED BY ONLY <2>1, <2>2
<1>18. \A i \in 1 .. 9 : Fetch(TimerAt + 22 + i) = TimerHandler[2].code[i]
  <2>1. \A i \in 1 .. Len(CodeOf(9)) : Fetch(15 + at[9] + i) = CodeOf(9)[i]
    BY <1>9, <1>10
  <2>2. Len(CodeOf(9)) = 9 /\ CodeOf(9) = TimerHandler[2].code /\ 15 + at[9] = TimerAt + 22
    BY <1>4, <1>5, <1>6
  <2> QED BY ONLY <2>1, <2>2
<1>19. \A i \in 1 .. 7 : Fetch(TimerAt + 31 + i) = TimerHandler[3].code[i]
  <2>1. \A i \in 1 .. Len(CodeOf(10)) : Fetch(15 + at[10] + i) = CodeOf(10)[i]
    BY <1>9, <1>10
  <2>2. Len(CodeOf(10)) = 7 /\ CodeOf(10) = TimerHandler[3].code /\ 15 + at[10] = TimerAt + 31
    BY <1>4, <1>5, <1>6
  <2> QED BY ONLY <2>1, <2>2
<1>20. \A i \in 1 .. 16 : Fetch(TimerAt + 38 + i) = TimerHandler[4].code[i]
  <2>1. \A i \in 1 .. Len(CodeOf(11)) : Fetch(15 + at[11] + i) = CodeOf(11)[i]
    BY <1>9, <1>10
  <2>2. Len(CodeOf(11)) = 16 /\ CodeOf(11) = TimerHandler[4].code /\ 15 + at[11] = TimerAt + 38
    BY <1>4, <1>5, <1>6
  <2> QED BY ONLY <2>1, <2>2
<1>21. ASSUME "keyboard" \in Devices
       PROVE  \A i \in 1 .. 37 : Fetch(KeyboardAt - 1 + i) = KeyboardHandler[1].code[i]
  <2>1. \A i \in 1 .. Len(CodeOf(12)) : Fetch(15 + at[12] + i) = CodeOf(12)[i]
    BY <1>9, <1>10, <1>21
  <2>2. Len(CodeOf(12)) = 37 /\ CodeOf(12) = KeyboardHandler[1].code /\ 15 + at[12] = KeyboardAt - 1
    BY <1>4, <1>5, <1>6, <1>21
  <2> QED BY ONLY <2>1, <2>2
<1> QED BY <1>11, <1>12, <1>13, <1>14, <1>15, <1>16, <1>17, <1>18, <1>19, <1>20, <1>21

\* FactorialAt + f, in the terms of CodeAt.
LEMMA FactorialCode ==
  LET F(f) == Fetch(FactorialAt + f) IN
  /\ \A f \in {0, 2, 4, 6} : F(f) = Addi("sp", "sp", -1)
  /\ F(1) = Sw("ra", "sp", 0) /\ F(3) = Sw("a0", "sp", 0)
  /\ F(5) = Sw("s0", "sp", 0) /\ F(7) = Sw("s1", "sp", 0)
  /\ F(8) = Beq("a0", "zero", "base_zero") /\ F(9) = Addi("s1", "zero", 1)
  /\ F(10) = Beq("a0", "s1", "base_one") /\ F(11) = Goto("recurse")
  /\ \A f \in {12, 14} : F(f) = Addi("v0", "zero", 1)
  /\ \A f \in {13, 15} : F(f) = Goto("done")
  /\ F(16) = Add("s1", "a0", "zero") /\ F(17) = Addi("a0", "a0", -1)
  /\ F(18) = La("at", "factorial") /\ F(19) = Jalr("at", "ra")
  /\ F(20) = Add("s0", "v0", "zero") /\ F(21) = Add("v0", "zero", "zero")
  /\ F(22) = Beq("s1", "zero", "done") /\ F(23) = Add("v0", "v0", "s0")
  /\ F(24) = Addi("s1", "s1", -1) /\ F(25) = Goto("mul")
  /\ F(26) = Lw("s1", "sp", 0) /\ F(28) = Lw("s0", "sp", 0)
  /\ F(30) = Lw("a0", "sp", 0) /\ F(32) = Lw("ra", "sp", 0)
  /\ \A f \in {27, 29, 31, 33} : F(f) = Addi("sp", "sp", 1)
  /\ F(34) = Jalr("ra", "zero")
<1> DEFINE F(f) == Fetch(FactorialAt + f)
<1>1. FactorialAt \in Int
  BY DEF FactorialAt, Extra
<1>2. /\ \A i \in 1 .. 12 : Fetch(FactorialAt - 1 + i) = Factorial[1].code[i]
      /\ \A i \in 1 .. 2 : Fetch(FactorialAt + 11 + i) = Factorial[2].code[i]
      /\ \A i \in 1 .. 2 : Fetch(FactorialAt + 13 + i) = Factorial[3].code[i]
      /\ \A i \in 1 .. 6 : Fetch(FactorialAt + 15 + i) = Factorial[4].code[i]
      /\ \A i \in 1 .. 4 : Fetch(FactorialAt + 21 + i) = Factorial[5].code[i]
      /\ \A i \in 1 .. 9 : Fetch(FactorialAt + 25 + i) = Factorial[6].code[i]
  BY CodeAt
<1>3. /\ \A i \in 1 .. 12 : FactorialAt - 1 + i = FactorialAt + (i - 1)
      /\ \A i \in 1 .. 2 : FactorialAt + 11 + i = FactorialAt + (11 + i)
      /\ \A i \in 1 .. 2 : FactorialAt + 13 + i = FactorialAt + (13 + i)
      /\ \A i \in 1 .. 6 : FactorialAt + 15 + i = FactorialAt + (15 + i)
      /\ \A i \in 1 .. 4 : FactorialAt + 21 + i = FactorialAt + (21 + i)
      /\ \A i \in 1 .. 9 : FactorialAt + 25 + i = FactorialAt + (25 + i)
  BY <1>1
<1>4. /\ \A i \in 1 .. 12 : F(i - 1) = Factorial[1].code[i]
      /\ \A i \in 1 .. 2 : F(11 + i) = Factorial[2].code[i]
      /\ \A i \in 1 .. 2 : F(13 + i) = Factorial[3].code[i]
      /\ \A i \in 1 .. 6 : F(15 + i) = Factorial[4].code[i]
      /\ \A i \in 1 .. 4 : F(21 + i) = Factorial[5].code[i]
      /\ \A i \in 1 .. 9 : F(25 + i) = Factorial[6].code[i]
  BY <1>2, <1>3
<1> HIDE DEF F
<1>5. /\ F(0) = Factorial[1].code[1] /\ F(1) = Factorial[1].code[2]
      /\ F(2) = Factorial[1].code[3] /\ F(3) = Factorial[1].code[4]
      /\ F(4) = Factorial[1].code[5] /\ F(5) = Factorial[1].code[6]
      /\ F(6) = Factorial[1].code[7] /\ F(7) = Factorial[1].code[8]
      /\ F(8) = Factorial[1].code[9] /\ F(9) = Factorial[1].code[10]
      /\ F(10) = Factorial[1].code[11] /\ F(11) = Factorial[1].code[12]
  BY <1>4
<1>6. /\ F(12) = Factorial[2].code[1] /\ F(13) = Factorial[2].code[2]
      /\ F(14) = Factorial[3].code[1] /\ F(15) = Factorial[3].code[2]
      /\ F(16) = Factorial[4].code[1] /\ F(17) = Factorial[4].code[2]
      /\ F(18) = Factorial[4].code[3] /\ F(19) = Factorial[4].code[4]
      /\ F(20) = Factorial[4].code[5] /\ F(21) = Factorial[4].code[6]
  BY <1>4
<1>7. /\ F(22) = Factorial[5].code[1] /\ F(23) = Factorial[5].code[2]
      /\ F(24) = Factorial[5].code[3] /\ F(25) = Factorial[5].code[4]
      /\ F(26) = Factorial[6].code[1] /\ F(27) = Factorial[6].code[2]
      /\ F(28) = Factorial[6].code[3] /\ F(29) = Factorial[6].code[4]
      /\ F(30) = Factorial[6].code[5] /\ F(31) = Factorial[6].code[6]
      /\ F(32) = Factorial[6].code[7] /\ F(33) = Factorial[6].code[8]
      /\ F(34) = Factorial[6].code[9]
  BY <1>4
<1>8. LET saves == Factorial[1].code  done == Factorial[6].code IN
      /\ \A n \in 1 .. 4 : /\ saves[0 + (2 * n - 1)] = Addi("sp", "sp", -1)
                           /\ saves[0 + 2 * n] = Sw(FactorialSaved[n], "sp", 0)
                           /\ done[0 + (2 * n - 1)] = Lw(FactorialSaved[4 + 1 - n], "sp", 0)
                           /\ done[0 + 2 * n] = Addi("sp", "sp", 1)
  BY FactorialText DEF SavesAt, RestoresAt
<1>9. LET saves == Factorial[1].code  done == Factorial[6].code IN
      /\ saves[1] = Addi("sp", "sp", -1) /\ saves[2] = Sw(FactorialSaved[1], "sp", 0)
      /\ saves[3] = Addi("sp", "sp", -1) /\ saves[4] = Sw(FactorialSaved[2], "sp", 0)
      /\ saves[5] = Addi("sp", "sp", -1) /\ saves[6] = Sw(FactorialSaved[3], "sp", 0)
      /\ saves[7] = Addi("sp", "sp", -1) /\ saves[8] = Sw(FactorialSaved[4], "sp", 0)
      /\ done[1] = Lw(FactorialSaved[4], "sp", 0) /\ done[2] = Addi("sp", "sp", 1)
      /\ done[3] = Lw(FactorialSaved[3], "sp", 0) /\ done[4] = Addi("sp", "sp", 1)
      /\ done[5] = Lw(FactorialSaved[2], "sp", 0) /\ done[6] = Addi("sp", "sp", 1)
      /\ done[7] = Lw(FactorialSaved[1], "sp", 0) /\ done[8] = Addi("sp", "sp", 1)
  BY <1>8
<1>10. /\ FactorialSaved[1] = "ra" /\ FactorialSaved[2] = "a0"
       /\ FactorialSaved[3] = "s0" /\ FactorialSaved[4] = "s1"
  BY DEF FactorialSaved
<1>11. /\ \A f \in {0, 2, 4, 6} : F(f) = Addi("sp", "sp", -1)
       /\ F(1) = Sw("ra", "sp", 0) /\ F(3) = Sw("a0", "sp", 0)
       /\ F(5) = Sw("s0", "sp", 0) /\ F(7) = Sw("s1", "sp", 0)
  BY <1>5, <1>9, <1>10
<1>12. /\ F(26) = Lw("s1", "sp", 0) /\ F(28) = Lw("s0", "sp", 0)
       /\ F(30) = Lw("a0", "sp", 0) /\ F(32) = Lw("ra", "sp", 0)
       /\ \A f \in {27, 29, 31, 33} : F(f) = Addi("sp", "sp", 1)
  BY <1>7, <1>9, <1>10
<1>13. /\ F(8) = Beq("a0", "zero", "base_zero") /\ F(9) = Addi("s1", "zero", 1)
       /\ F(10) = Beq("a0", "s1", "base_one") /\ F(11) = Goto("recurse")
  BY <1>5, FactorialText
<1>14. /\ \A f \in {12, 14} : F(f) = Addi("v0", "zero", 1)
       /\ \A f \in {13, 15} : F(f) = Goto("done")
  <2>1. \A n \in 2 .. 3 : /\ Factorial[n].code[1] = Addi("v0", "zero", 1)
                          /\ Factorial[n].code[2] = Goto("done")
    BY FactorialText
  <2> QED BY <1>6, <2>1
<1>15. /\ F(16) = Add("s1", "a0", "zero") /\ F(17) = Addi("a0", "a0", -1)
       /\ F(18) = La("at", "factorial") /\ F(19) = Jalr("at", "ra")
       /\ F(20) = Add("s0", "v0", "zero") /\ F(21) = Add("v0", "zero", "zero")
  BY <1>6, FactorialText
<1>16. /\ F(22) = Beq("s1", "zero", "done") /\ F(23) = Add("v0", "v0", "s0")
       /\ F(24) = Addi("s1", "s1", -1) /\ F(25) = Goto("mul")
       /\ F(34) = Jalr("ra", "zero")
  BY <1>7, FactorialText
<1> QED BY <1>11, <1>12, <1>13, <1>14, <1>15, <1>16 DEF F

LEMMA TimerCode ==
  LET T(o) == Fetch(TimerAt + o) IN
  /\ \A o \in {0, 3, 5, 7, 9, 11, 13} : T(o) = Addi("sp", "sp", -1)
  /\ T(1) = Sw("k0", "sp", 0) /\ T(4) = Sw("ra", "sp", 0) /\ T(6) = Sw("a0", "sp", 0)
  /\ T(8) = Sw("s0", "sp", 0) /\ T(10) = Sw("s1", "sp", 0)
  /\ T(12) = Sw("v0", "sp", 0) /\ T(14) = Sw("at", "sp", 0)
  /\ T(2) = Ei /\ T(15) = La("a0", "seconds") /\ T(16) = Lw("a0", "a0", 0)
  /\ T(17) = Lw("a1", "a0", 0) /\ T(18) = Addi("a3", "zero", Limit)
  /\ T(19) = Beq("a1", "a3", "inc_minutes") /\ T(20) = Addi("a1", "a1", 1)
  /\ T(21) = Sw("a1", "a0", 0) /\ T(22) = Goto("clean_up")
  /\ T(23) = Add("a1", "zero", "zero") /\ T(24) = Sw("a1", "a0", 0)
  /\ T(25) = La("a0", "minutes") /\ T(26) = Lw("a0", "a0", 0) /\ T(27) = Lw("a1", "a0", 0)
  /\ T(28) = Beq("a1", "a3", "inc_hours") /\ T(29) = Addi("a1", "a1", 1)
  /\ T(30) = Sw("a1", "a0", 0) /\ T(31) = Goto("clean_up")
  /\ T(32) = Add("a1", "zero", "zero") /\ T(33) = Sw("a1", "a0", 0)
  /\ T(34) = La("a0", "hours") /\ T(35) = Lw("a0", "a0", 0) /\ T(36) = Lw("a1", "a0", 0)
  /\ T(37) = Addi("a1", "a1", 1) /\ T(38) = Sw("a1", "a0", 0)
  /\ T(39) = Lw("at", "sp", 0) /\ T(41) = Lw("v0", "sp", 0) /\ T(43) = Lw("s1", "sp", 0)
  /\ T(45) = Lw("s0", "sp", 0) /\ T(47) = Lw("a0", "sp", 0)
  /\ T(49) = Lw("ra", "sp", 0) /\ T(52) = Lw("k0", "sp", 0)
  /\ \A o \in {40, 42, 44, 46, 48, 50, 53} : T(o) = Addi("sp", "sp", 1)
  /\ T(51) = Di /\ T(54) = Reti
<1> DEFINE T(o) == Fetch(TimerAt + o)
<1>1. TimerAt \in Int
  BY DEF TimerAt, Extra
<1>2. /\ \A i \in 1 .. 23 : Fetch(TimerAt - 1 + i) = TimerHandler[1].code[i]
      /\ \A i \in 1 .. 9 : Fetch(TimerAt + 22 + i) = TimerHandler[2].code[i]
      /\ \A i \in 1 .. 7 : Fetch(TimerAt + 31 + i) = TimerHandler[3].code[i]
      /\ \A i \in 1 .. 16 : Fetch(TimerAt + 38 + i) = TimerHandler[4].code[i]
  BY CodeAt
<1>3. /\ \A i \in 1 .. 23 : TimerAt - 1 + i = TimerAt + (i - 1)
      /\ \A i \in 1 .. 9 : TimerAt + 22 + i = TimerAt + (22 + i)
      /\ \A i \in 1 .. 7 : TimerAt + 31 + i = TimerAt + (31 + i)
      /\ \A i \in 1 .. 16 : TimerAt + 38 + i = TimerAt + (38 + i)
  BY <1>1
<1>4. /\ \A i \in 1 .. 23 : T(i - 1) = TimerHandler[1].code[i]
      /\ \A i \in 1 .. 9 : T(22 + i) = TimerHandler[2].code[i]
      /\ \A i \in 1 .. 7 : T(31 + i) = TimerHandler[3].code[i]
      /\ \A i \in 1 .. 16 : T(38 + i) = TimerHandler[4].code[i]
  BY <1>2, <1>3
<1> HIDE DEF T
<1>5. /\ T(0) = TimerHandler[1].code[1] /\ T(1) = TimerHandler[1].code[2]
      /\ T(2) = TimerHandler[1].code[3] /\ T(3) = TimerHandler[1].code[4]
      /\ T(4) = TimerHandler[1].code[5] /\ T(5) = TimerHandler[1].code[6]
      /\ T(6) = TimerHandler[1].code[7] /\ T(7) = TimerHandler[1].code[8]
      /\ T(8) = TimerHandler[1].code[9] /\ T(9) = TimerHandler[1].code[10]
      /\ T(10) = TimerHandler[1].code[11] /\ T(11) = TimerHandler[1].code[12]
      /\ T(12) = TimerHandler[1].code[13] /\ T(13) = TimerHandler[1].code[14]
      /\ T(14) = TimerHandler[1].code[15] /\ T(15) = TimerHandler[1].code[16]
      /\ T(16) = TimerHandler[1].code[17] /\ T(17) = TimerHandler[1].code[18]
      /\ T(18) = TimerHandler[1].code[19] /\ T(19) = TimerHandler[1].code[20]
      /\ T(20) = TimerHandler[1].code[21] /\ T(21) = TimerHandler[1].code[22]
      /\ T(22) = TimerHandler[1].code[23]
  BY <1>4
<1>6. /\ T(23) = TimerHandler[2].code[1] /\ T(24) = TimerHandler[2].code[2]
      /\ T(25) = TimerHandler[2].code[3] /\ T(26) = TimerHandler[2].code[4]
      /\ T(27) = TimerHandler[2].code[5] /\ T(28) = TimerHandler[2].code[6]
      /\ T(29) = TimerHandler[2].code[7] /\ T(30) = TimerHandler[2].code[8]
      /\ T(31) = TimerHandler[2].code[9]
  BY <1>4
<1>7. /\ T(32) = TimerHandler[3].code[1] /\ T(33) = TimerHandler[3].code[2]
      /\ T(34) = TimerHandler[3].code[3] /\ T(35) = TimerHandler[3].code[4]
      /\ T(36) = TimerHandler[3].code[5] /\ T(37) = TimerHandler[3].code[6]
      /\ T(38) = TimerHandler[3].code[7]
  BY <1>4
<1>8. /\ T(39) = TimerHandler[4].code[1] /\ T(40) = TimerHandler[4].code[2]
      /\ T(41) = TimerHandler[4].code[3] /\ T(42) = TimerHandler[4].code[4]
      /\ T(43) = TimerHandler[4].code[5] /\ T(44) = TimerHandler[4].code[6]
      /\ T(45) = TimerHandler[4].code[7] /\ T(46) = TimerHandler[4].code[8]
      /\ T(47) = TimerHandler[4].code[9] /\ T(48) = TimerHandler[4].code[10]
      /\ T(49) = TimerHandler[4].code[11] /\ T(50) = TimerHandler[4].code[12]
      /\ T(51) = TimerHandler[4].code[13] /\ T(52) = TimerHandler[4].code[14]
      /\ T(53) = TimerHandler[4].code[15] /\ T(54) = TimerHandler[4].code[16]
  BY <1>4
<1>9. \A n \in 1 .. 6 : /\ TimerHandler[1].code[3 + (2 * n - 1)] = Addi("sp", "sp", -1)
                     /\ TimerHandler[1].code[3 + 2 * n] = Sw(TimerSaved[n], "sp", 0)
                     /\ TimerHandler[4].code[0 + (2 * n - 1)] = Lw(TimerSaved[6 + 1 - n], "sp", 0)
                     /\ TimerHandler[4].code[0 + 2 * n] = Addi("sp", "sp", 1)
  BY TimerText DEF SavesAt, RestoresAt
<1>10. /\ TimerHandler[1].code[4] = Addi("sp", "sp", -1)
       /\ TimerHandler[1].code[5] = Sw(TimerSaved[1], "sp", 0)
       /\ TimerHandler[4].code[1] = Lw(TimerSaved[6], "sp", 0)
       /\ TimerHandler[4].code[2] = Addi("sp", "sp", 1)
       /\ TimerHandler[1].code[6] = Addi("sp", "sp", -1)
       /\ TimerHandler[1].code[7] = Sw(TimerSaved[2], "sp", 0)
       /\ TimerHandler[4].code[3] = Lw(TimerSaved[5], "sp", 0)
       /\ TimerHandler[4].code[4] = Addi("sp", "sp", 1)
       /\ TimerHandler[1].code[8] = Addi("sp", "sp", -1)
       /\ TimerHandler[1].code[9] = Sw(TimerSaved[3], "sp", 0)
       /\ TimerHandler[4].code[5] = Lw(TimerSaved[4], "sp", 0)
       /\ TimerHandler[4].code[6] = Addi("sp", "sp", 1)
       /\ TimerHandler[1].code[10] = Addi("sp", "sp", -1)
       /\ TimerHandler[1].code[11] = Sw(TimerSaved[4], "sp", 0)
       /\ TimerHandler[4].code[7] = Lw(TimerSaved[3], "sp", 0)
       /\ TimerHandler[4].code[8] = Addi("sp", "sp", 1)
       /\ TimerHandler[1].code[12] = Addi("sp", "sp", -1)
       /\ TimerHandler[1].code[13] = Sw(TimerSaved[5], "sp", 0)
       /\ TimerHandler[4].code[9] = Lw(TimerSaved[2], "sp", 0)
       /\ TimerHandler[4].code[10] = Addi("sp", "sp", 1)
       /\ TimerHandler[1].code[14] = Addi("sp", "sp", -1)
       /\ TimerHandler[1].code[15] = Sw(TimerSaved[6], "sp", 0)
       /\ TimerHandler[4].code[11] = Lw(TimerSaved[1], "sp", 0)
       /\ TimerHandler[4].code[12] = Addi("sp", "sp", 1)
  BY <1>9
<1>11. /\ TimerSaved[1] = "ra" /\ TimerSaved[2] = "a0" /\ TimerSaved[3] = "s0"
       /\ TimerSaved[4] = "s1" /\ TimerSaved[5] = "v0" /\ TimerSaved[6] = "at"
  BY DEF TimerSaved
<1>12. \A o \in {0, 3, 5, 7, 9, 11, 13} : T(o) = Addi("sp", "sp", -1)
  BY <1>5, <1>6, <1>7, <1>8, <1>10, <1>11, TimerText
<1>13. T(1) = Sw("k0", "sp", 0) /\ T(4) = Sw("ra", "sp", 0) /\ T(6) = Sw("a0", "sp", 0)
  BY <1>5, <1>6, <1>7, <1>8, <1>10, <1>11, TimerText
<1>14. T(8) = Sw("s0", "sp", 0) /\ T(10) = Sw("s1", "sp", 0)
  BY <1>5, <1>6, <1>7, <1>8, <1>10, <1>11, TimerText
<1>15. T(12) = Sw("v0", "sp", 0) /\ T(14) = Sw("at", "sp", 0)
  BY <1>5, <1>6, <1>7, <1>8, <1>10, <1>11, TimerText
<1>16. T(2) = Ei /\ T(15) = La("a0", "seconds") /\ T(16) = Lw("a0", "a0", 0)
  BY <1>5, <1>6, <1>7, <1>8, <1>10, <1>11, TimerText
<1>17. T(17) = Lw("a1", "a0", 0) /\ T(18) = Addi("a3", "zero", Limit)
  BY <1>5, <1>6, <1>7, <1>8, <1>10, <1>11, TimerText
<1>18. T(19) = Beq("a1", "a3", "inc_minutes") /\ T(20) = Addi("a1", "a1", 1)
  BY <1>5, <1>6, <1>7, <1>8, <1>10, <1>11, TimerText
<1>19. T(21) = Sw("a1", "a0", 0) /\ T(22) = Goto("clean_up")
  BY <1>5, <1>6, <1>7, <1>8, <1>10, <1>11, TimerText
<1>20. T(23) = Add("a1", "zero", "zero") /\ T(24) = Sw("a1", "a0", 0)
  BY <1>5, <1>6, <1>7, <1>8, <1>10, <1>11, TimerText
<1>21. T(25) = La("a0", "minutes") /\ T(26) = Lw("a0", "a0", 0) /\ T(27) = Lw("a1", "a0", 0)
  BY <1>5, <1>6, <1>7, <1>8, <1>10, <1>11, TimerText
<1>22. T(28) = Beq("a1", "a3", "inc_hours") /\ T(29) = Addi("a1", "a1", 1)
  BY <1>5, <1>6, <1>7, <1>8, <1>10, <1>11, TimerText
<1>23. T(30) = Sw("a1", "a0", 0) /\ T(31) = Goto("clean_up")
  BY <1>5, <1>6, <1>7, <1>8, <1>10, <1>11, TimerText
<1>24. T(32) = Add("a1", "zero", "zero") /\ T(33) = Sw("a1", "a0", 0)
  BY <1>5, <1>6, <1>7, <1>8, <1>10, <1>11, TimerText
<1>25. T(34) = La("a0", "hours") /\ T(35) = Lw("a0", "a0", 0) /\ T(36) = Lw("a1", "a0", 0)
  BY <1>5, <1>6, <1>7, <1>8, <1>10, <1>11, TimerText
<1>26. T(37) = Addi("a1", "a1", 1) /\ T(38) = Sw("a1", "a0", 0)
  BY <1>5, <1>6, <1>7, <1>8, <1>10, <1>11, TimerText
<1>27. T(39) = Lw("at", "sp", 0) /\ T(41) = Lw("v0", "sp", 0) /\ T(43) = Lw("s1", "sp", 0)
  BY <1>5, <1>6, <1>7, <1>8, <1>10, <1>11, TimerText
<1>28. T(45) = Lw("s0", "sp", 0) /\ T(47) = Lw("a0", "sp", 0)
  BY <1>5, <1>6, <1>7, <1>8, <1>10, <1>11, TimerText
<1>29. T(49) = Lw("ra", "sp", 0) /\ T(52) = Lw("k0", "sp", 0)
  BY <1>5, <1>6, <1>7, <1>8, <1>10, <1>11, TimerText
<1>30. \A o \in {40, 42, 44, 46, 48, 50, 53} : T(o) = Addi("sp", "sp", 1)
  BY <1>5, <1>6, <1>7, <1>8, <1>10, <1>11, TimerText
<1>31. T(51) = Di /\ T(54) = Reti
  BY <1>5, <1>6, <1>7, <1>8, <1>10, <1>11, TimerText
<1> QED BY <1>12, <1>13, <1>14, <1>15, <1>16, <1>17, <1>18, <1>19, <1>20, <1>21,
        <1>22, <1>23, <1>24, <1>25, <1>26, <1>27, <1>28, <1>29, <1>30, <1>31 DEF T

LEMMA KeyboardCode ==
  ASSUME "keyboard" \in Devices
  PROVE  LET K(o) == Fetch(KeyboardAt + o) IN
         /\ \A o \in {0, 2, 6, 8, 10, 12, 14} : K(o) = Addi("sp", "sp", -1)
         /\ K(1) = Sw("k0", "sp", 0) /\ K(3) = Sw("a0", "sp", 0)
         /\ K(7) = Sw("ra", "sp", 0)
         /\ K(9) = Sw("s0", "sp", 0) /\ K(11) = Sw("s1", "sp", 0)
         /\ K(13) = Sw("v0", "sp", 0) /\ K(15) = Sw("at", "sp", 0)
         /\ K(4) = Bonj("a0") /\ K(5) = Ei
         /\ K(16) = La("a1", "keyboard_out") /\ K(17) = Lw("a2", "a1", 0)
         /\ K(18) = Sw("a0", "a2", 0) /\ K(19) = Addi("a2", "a2", 1)
         /\ K(20) = Sw("a2", "a1", 0)
         /\ K(21) = Lw("at", "sp", 0) /\ K(23) = Lw("v0", "sp", 0)
         /\ K(25) = Lw("s1", "sp", 0)
         /\ K(27) = Lw("s0", "sp", 0) /\ K(29) = Lw("ra", "sp", 0)
         /\ K(31) = Lw("a0", "sp", 0) /\ K(34) = Lw("k0", "sp", 0)
         /\ \A o \in {22, 24, 26, 28, 30, 32, 35} : K(o) = Addi("sp", "sp", 1)
         /\ K(33) = Di /\ K(36) = Reti
<1> DEFINE K(o) == Fetch(KeyboardAt + o)
<1>1. KeyboardAt \in Int
  BY DEF KeyboardAt, Extra
<1>2. /\ \A i \in 1 .. 37 : Fetch(KeyboardAt - 1 + i) = KeyboardHandler[1].code[i]
  BY CodeAt
<1>3. /\ \A i \in 1 .. 37 : KeyboardAt - 1 + i = KeyboardAt + (i - 1)
  BY <1>1
<1>4. /\ \A i \in 1 .. 37 : K(i - 1) = KeyboardHandler[1].code[i]
  BY <1>2, <1>3
<1> HIDE DEF K
<1>5. /\ K(0) = KeyboardHandler[1].code[1] /\ K(1) = KeyboardHandler[1].code[2]
      /\ K(2) = KeyboardHandler[1].code[3] /\ K(3) = KeyboardHandler[1].code[4]
      /\ K(4) = KeyboardHandler[1].code[5] /\ K(5) = KeyboardHandler[1].code[6]
      /\ K(6) = KeyboardHandler[1].code[7] /\ K(7) = KeyboardHandler[1].code[8]
      /\ K(8) = KeyboardHandler[1].code[9] /\ K(9) = KeyboardHandler[1].code[10]
      /\ K(10) = KeyboardHandler[1].code[11] /\ K(11) = KeyboardHandler[1].code[12]
      /\ K(12) = KeyboardHandler[1].code[13] /\ K(13) = KeyboardHandler[1].code[14]
      /\ K(14) = KeyboardHandler[1].code[15] /\ K(15) = KeyboardHandler[1].code[16]
      /\ K(16) = KeyboardHandler[1].code[17] /\ K(17) = KeyboardHandler[1].code[18]
      /\ K(18) = KeyboardHandler[1].code[19] /\ K(19) = KeyboardHandler[1].code[20]
      /\ K(20) = KeyboardHandler[1].code[21] /\ K(21) = KeyboardHandler[1].code[22]
      /\ K(22) = KeyboardHandler[1].code[23] /\ K(23) = KeyboardHandler[1].code[24]
      /\ K(24) = KeyboardHandler[1].code[25] /\ K(25) = KeyboardHandler[1].code[26]
      /\ K(26) = KeyboardHandler[1].code[27] /\ K(27) = KeyboardHandler[1].code[28]
      /\ K(28) = KeyboardHandler[1].code[29] /\ K(29) = KeyboardHandler[1].code[30]
      /\ K(30) = KeyboardHandler[1].code[31] /\ K(31) = KeyboardHandler[1].code[32]
      /\ K(32) = KeyboardHandler[1].code[33] /\ K(33) = KeyboardHandler[1].code[34]
      /\ K(34) = KeyboardHandler[1].code[35] /\ K(35) = KeyboardHandler[1].code[36]
      /\ K(36) = KeyboardHandler[1].code[37]
  BY <1>4
<1>6. \A n \in 1 .. 5 : /\ KeyboardHandler[1].code[6 + (2 * n - 1)] = Addi("sp", "sp", -1)
                     /\ KeyboardHandler[1].code[6 + 2 * n] = Sw(KeyboardSaved[n], "sp", 0)
                     /\ KeyboardHandler[1].code[21 + (2 * n - 1)] = Lw(KeyboardSaved[5 + 1 - n], "sp", 0)
                     /\ KeyboardHandler[1].code[21 + 2 * n] = Addi("sp", "sp", 1)
  BY KeyboardText DEF SavesAt, RestoresAt
<1>7. /\ KeyboardHandler[1].code[7] = Addi("sp", "sp", -1)
      /\ KeyboardHandler[1].code[8] = Sw(KeyboardSaved[1], "sp", 0)
      /\ KeyboardHandler[1].code[22] = Lw(KeyboardSaved[5], "sp", 0)
      /\ KeyboardHandler[1].code[23] = Addi("sp", "sp", 1)
      /\ KeyboardHandler[1].code[9] = Addi("sp", "sp", -1)
      /\ KeyboardHandler[1].code[10] = Sw(KeyboardSaved[2], "sp", 0)
      /\ KeyboardHandler[1].code[24] = Lw(KeyboardSaved[4], "sp", 0)
      /\ KeyboardHandler[1].code[25] = Addi("sp", "sp", 1)
      /\ KeyboardHandler[1].code[11] = Addi("sp", "sp", -1)
      /\ KeyboardHandler[1].code[12] = Sw(KeyboardSaved[3], "sp", 0)
      /\ KeyboardHandler[1].code[26] = Lw(KeyboardSaved[3], "sp", 0)
      /\ KeyboardHandler[1].code[27] = Addi("sp", "sp", 1)
      /\ KeyboardHandler[1].code[13] = Addi("sp", "sp", -1)
      /\ KeyboardHandler[1].code[14] = Sw(KeyboardSaved[4], "sp", 0)
      /\ KeyboardHandler[1].code[28] = Lw(KeyboardSaved[2], "sp", 0)
      /\ KeyboardHandler[1].code[29] = Addi("sp", "sp", 1)
      /\ KeyboardHandler[1].code[15] = Addi("sp", "sp", -1)
      /\ KeyboardHandler[1].code[16] = Sw(KeyboardSaved[5], "sp", 0)
      /\ KeyboardHandler[1].code[30] = Lw(KeyboardSaved[1], "sp", 0)
      /\ KeyboardHandler[1].code[31] = Addi("sp", "sp", 1)
  BY <1>6
<1>8. /\ KeyboardSaved[1] = "ra" /\ KeyboardSaved[2] = "s0" /\ KeyboardSaved[3] = "s1"
      /\ KeyboardSaved[4] = "v0" /\ KeyboardSaved[5] = "at"
  BY DEF KeyboardSaved
<1>9. \A o \in {0, 2, 6, 8, 10, 12, 14} : K(o) = Addi("sp", "sp", -1)
  BY <1>5, <1>7, <1>8, KeyboardText
<1>10. K(1) = Sw("k0", "sp", 0) /\ K(3) = Sw("a0", "sp", 0) /\ K(7) = Sw("ra", "sp", 0)
  BY <1>5, <1>7, <1>8, KeyboardText
<1>11. K(9) = Sw("s0", "sp", 0) /\ K(11) = Sw("s1", "sp", 0)
  BY <1>5, <1>7, <1>8, KeyboardText
<1>12. K(13) = Sw("v0", "sp", 0) /\ K(15) = Sw("at", "sp", 0)
  BY <1>5, <1>7, <1>8, KeyboardText
<1>13. K(4) = Bonj("a0") /\ K(5) = Ei
  BY <1>5, <1>7, <1>8, KeyboardText
<1>14. K(16) = La("a1", "keyboard_out") /\ K(17) = Lw("a2", "a1", 0)
  BY <1>5, <1>7, <1>8, KeyboardText
<1>15. K(18) = Sw("a0", "a2", 0) /\ K(19) = Addi("a2", "a2", 1)
  BY <1>5, <1>7, <1>8, KeyboardText
<1>16. K(20) = Sw("a2", "a1", 0)
  BY <1>5, <1>7, <1>8, KeyboardText
<1>17. K(21) = Lw("at", "sp", 0) /\ K(23) = Lw("v0", "sp", 0) /\ K(25) = Lw("s1", "sp", 0)
  BY <1>5, <1>7, <1>8, KeyboardText
<1>18. K(27) = Lw("s0", "sp", 0) /\ K(29) = Lw("ra", "sp", 0)
  BY <1>5, <1>7, <1>8, KeyboardText
<1>19. K(31) = Lw("a0", "sp", 0) /\ K(34) = Lw("k0", "sp", 0)
  BY <1>5, <1>7, <1>8, KeyboardText
<1>20. \A o \in {22, 24, 26, 28, 30, 32, 35} : K(o) = Addi("sp", "sp", 1)
  BY <1>5, <1>7, <1>8, KeyboardText
<1>21. K(33) = Di /\ K(36) = Reti
  BY <1>5, <1>7, <1>8, KeyboardText
<1> QED BY <1>9, <1>10, <1>11, <1>12, <1>13, <1>14, <1>15, <1>16, <1>17, <1>18,
        <1>19, <1>20, <1>21 DEF K

-----------------------------------------------------------------------------
(* What an instruction does.                                               *)

Frames == [pc : Int, reg : [Registers -> Int], key : Nat]

TypeOK ==
  /\ pc \in Int /\ ie \in BOOLEAN
  /\ reg \in [Registers -> Int] /\ reg["zero"] = 0
  /\ DOMAIN mem \subseteq Int /\ \A a \in DOMAIN mem : mem[a] \in Int
  /\ ticks \in Nat /\ key \in Nat /\ spent \in Nat /\ nested \in BOOLEAN
  /\ active \in Seq(Frames)

\* What an instruction does that computes v into register e, and one that
\* stores v at w.
Counts == <<active, ticks, key, nested, spent>>
Computes(e, v) ==
  /\ pc' = pc + 1 /\ ie' = ie /\ mem' = mem /\ Counts' = Counts
  /\ reg' \in [Registers -> Int] /\ e # "zero" /\ reg'[e] = v
  /\ \A r \in Registers : r # e => reg'[r] = reg[r]
Stores(w, v) ==
  /\ pc' = pc + 1 /\ ie' = ie /\ reg' = reg /\ Counts' = Counts
  /\ DOMAIN mem' = DOMAIN mem \cup {w} /\ mem'[w] = v
  /\ \A a \in DOMAIN mem : a # w => mem'[a] = mem[a]
Goes(a) ==
  /\ pc' = a /\ ie' = ie /\ reg' = reg /\ mem' = mem /\ Counts' = Counts

LEMMA WrittenIs ==
  ASSUME TypeOK, NEW e \in Registers, e # "zero", NEW v \in Int, reg' = Written(e, v)
  PROVE  /\ reg' \in [Registers -> Int] /\ reg'[e] = v
         /\ \A r \in Registers : r # e => reg'[r] = reg[r]
BY DEF TypeOK, Written

LEMMA DoCompute ==
  ASSUME TypeOK, Step, NEW i, Fetch(pc) = i, i.op \in {"addi", "add", "lw", "la", "bonj"},
         i.d \in Registers, i.d # "zero", Result(i) \in Int
  PROVE  Computes(i.d, Result(i))
<1>1. Compute(i)
  BY DEF Step, Compute, Store, Branch, Jump, Enable, Return
<1>2. /\ reg' = Written(i.d, Result(i)) /\ pc' = pc + 1
      /\ ie' = ie /\ mem' = mem /\ history' = history
  BY <1>1 DEF Compute
<1>3. /\ reg' \in [Registers -> Int] /\ reg'[i.d] = Result(i)
      /\ \A r \in Registers : r # i.d => reg'[r] = reg[r]
  BY <1>2, WrittenIs
<1>4. Counts' = Counts
  BY <1>2 DEF history, Counts
<1> QED BY <1>2, <1>3, <1>4 DEF Computes

LEMMA DoAddi ==
  ASSUME TypeOK, Step, NEW e \in Registers, e # "zero", NEW s \in Registers,
         NEW n \in Int, Fetch(pc) = Addi(e, s, n)
  PROVE  Computes(e, reg[s] + n)
<1> DEFINE i == Addi(e, s, n)
<1>1. i.op = "addi" /\ i.d = e /\ i.s = s /\ i.i = n
  BY DEF Addi
<1>2. Result(i) = reg[s] + n
  BY <1>1 DEF Result
<1>3. reg[s] + n \in Int
  BY DEF TypeOK
<1> HIDE DEF i
<1>4. Fetch(pc) = i
  BY DEF i
<1> QED BY <1>1, <1>2, <1>3, <1>4, DoCompute

LEMMA DoAdd ==
  ASSUME TypeOK, Step, NEW e \in Registers, e # "zero", NEW s \in Registers,
         NEW t \in Registers, Fetch(pc) = Add(e, s, t)
  PROVE  Computes(e, reg[s] + reg[t])
<1> DEFINE i == Add(e, s, t)
<1>1. i.op = "add" /\ i.d = e /\ i.s = s /\ i.t = t
  BY DEF Add
<1>2. Result(i) = reg[s] + reg[t]
  BY <1>1 DEF Result
<1>3. reg[s] + reg[t] \in Int
  BY DEF TypeOK
<1> HIDE DEF i
<1>4. Fetch(pc) = i
  BY DEF i
<1> QED BY <1>1, <1>2, <1>3, <1>4, DoCompute

LEMMA SizeFacts == Size \in Nat /\ WordsAt = 16 + Len(Code)
BY Addresses DEF IsLong, WordsAt

LEMMA DoLw ==
  ASSUME TypeOK, Step, NEW e \in Registers, e # "zero", NEW s \in Registers,
         s # "zero", NEW n \in Int, Fetch(pc) = Lw(e, s, n)
  PROVE  /\ Computes(e, Load(reg[s] + n))
         /\ reg[s] + n < 16 \/ WordsAt <= reg[s] + n
<1> DEFINE i == Lw(e, s, n)
<1>1. i.op = "lw" /\ i.d = e /\ i.s = s /\ i.i = n
  BY DEF Lw
<1>2. Result(i) = Load(reg[s] + n)
  BY <1>1 DEF Result
<1>3. Load(reg[s] + n) \in Int
  BY DEF TypeOK, Load
<1> HIDE DEF i
<1>4. Fetch(pc) = i
  BY DEF i
<1>5. Computes(e, Load(reg[s] + n))
  BY <1>1, <1>2, <1>3, <1>4, DoCompute
<1>6. ~Wild
  BY DEF Step, Running
<1>7. reg[s] + n \in Int
  BY DEF TypeOK
<1>8. reg[s] + n < 16 \/ WordsAt <= reg[s] + n
  BY <1>1, <1>4, <1>6, <1>7, SizeFacts DEF Wild
<1> QED BY <1>5, <1>8

LEMMA DoLa ==
  ASSUME TypeOK, Step, NEW e \in Registers, e # "zero", NEW l, Labels[l] \in Int,
         Fetch(pc) = La(e, l)
  PROVE  Computes(e, Labels[l])
<1> DEFINE i == La(e, l)
<1>1. i.op = "la" /\ i.d = e /\ i.l = l
  BY DEF La
<1>2. Result(i) = Labels[l]
  BY <1>1 DEF Result
<1> HIDE DEF i
<1>3. Fetch(pc) = i
  BY DEF i
<1> QED BY <1>1, <1>2, <1>3, DoCompute

LEMMA DoBonj ==
  ASSUME TypeOK, Step, NEW e \in Registers, e # "zero", Fetch(pc) = Bonj(e)
  PROVE  Computes(e, key)
<1> DEFINE i == Bonj(e)
<1>1. i.op = "bonj" /\ i.d = e
  BY DEF Bonj
<1>2. Result(i) = key
  BY <1>1 DEF Result
<1>3. key \in Int
  BY DEF TypeOK
<1> HIDE DEF i
<1>4. Fetch(pc) = i
  BY DEF i
<1> QED BY <1>1, <1>2, <1>3, <1>4, DoCompute

LEMMA DoSw ==
  ASSUME TypeOK, Step, NEW e \in Registers, NEW s \in Registers,
         NEW n \in Int, Fetch(pc) = Sw(e, s, n)
  PROVE  /\ Stores(reg[s] + n, reg[e])
         /\ s # "zero" => WordsAt <= reg[s] + n
<1> DEFINE i == Sw(e, s, n)
<1>1. i.op = "sw" /\ i.d = e /\ i.s = s /\ i.i = n
  BY DEF Sw
<1> HIDE DEF i
<1>2. Fetch(pc) = i
  BY DEF i
<1>3. Store(i)
  BY <1>1, <1>2 DEF Step, Compute, Store, Branch, Jump, Enable, Return
<1> DEFINE w == reg[s] + n
<1>4. /\ mem' = [a \in DOMAIN mem \cup {w} |-> IF a = w THEN reg[e] ELSE mem[a]]
      /\ pc' = pc + 1
      /\ ie' = ie /\ reg' = reg /\ history' = history
  BY <1>1, <1>3 DEF Store
<1>5. /\ DOMAIN mem' = DOMAIN mem \cup {w} /\ mem'[w] = reg[e]
      /\ \A a \in DOMAIN mem : a # w => mem'[a] = mem[a]
  <2> HIDE DEF w
  <2> QED BY <1>4
<1>6. Counts' = Counts
  BY <1>4 DEF history, Counts
<1>7. Stores(w, reg[e])
  <2> HIDE DEF w
  <2> QED BY <1>4, <1>5, <1>6 DEF Stores
<1>8. ~Wild
  BY DEF Step, Running
<1>9. w \in Int
  BY DEF TypeOK
<1>10. s # "zero" => WordsAt <= w
  BY <1>1, <1>2, <1>8, <1>9, SizeFacts DEF Wild
<1> QED BY <1>7, <1>10

LEMMA DoBeq ==
  ASSUME TypeOK, Step, NEW s \in Registers, NEW t \in Registers, NEW l,
         Fetch(pc) = Beq(s, t, l)
  PROVE  Goes(IF reg[s] = reg[t] THEN Labels[l] ELSE pc + 1)
<1> DEFINE i == Beq(s, t, l)
<1>1. i.op = "beq" /\ i.s = s /\ i.t = t /\ i.l = l
  BY DEF Beq
<1> HIDE DEF i
<1>2. Fetch(pc) = i
  BY DEF i
<1>3. Branch(i)
  BY <1>1, <1>2 DEF Step, Compute, Store, Branch, Jump, Enable, Return
<1> QED BY <1>1, <1>3 DEF Branch, Goes, history, Counts

LEMMA DoGoto ==
  ASSUME TypeOK, Step, NEW l, Fetch(pc) = Goto(l)
  PROVE  Goes(Labels[l])
<1>1. "zero" \in Registers
  BY DEF Registers
<1>2. Fetch(pc) = Beq("zero", "zero", l)
  BY DEF Goto
<1>3. Goes(IF reg["zero"] = reg["zero"] THEN Labels[l] ELSE pc + 1)
  BY <1>1, <1>2, DoBeq
<1> QED BY <1>3

LEMMA DoEnable ==
  ASSUME TypeOK, Step, Fetch(pc) \in {Ei, Di}
  PROVE  /\ pc' = pc + 1 /\ ie' = (Fetch(pc) = Ei)
         /\ reg' = reg /\ mem' = mem /\ Counts' = Counts
<1> DEFINE i == Fetch(pc)
<1>1. i.op \in {"ei", "di"} /\ ((i.op = "ei") <=> (i = Ei))
  BY DEF Ei, Di
<1> HIDE DEF i
<1>2. Enable(i)
  BY <1>1 DEF Step, Compute, Store, Branch, Jump, Enable, Return, i
<1> QED BY <1>1, <1>2 DEF Enable, history, Counts, i

LEMMA DoReti ==
  ASSUME TypeOK, Step, Fetch(pc) = Reti
  PROVE  /\ pc' = reg["k0"] /\ ie' = TRUE /\ active' = Front(active)
         /\ reg' = reg /\ mem' = mem
         /\ ticks' = ticks /\ key' = key /\ nested' = nested /\ spent' = spent
<1>1. Reti.op = "reti"
  BY DEF Reti
<1>2. Return(Reti)
  BY <1>1 DEF Step, Compute, Store, Branch, Jump, Enable, Return
<1> QED BY <1>2 DEF Return

LEMMA DoJalr ==
  ASSUME TypeOK, Step, NEW s \in Registers, NEW e \in Registers, Fetch(pc) = Jalr(s, e)
  PROVE  /\ pc' = reg[s] /\ ie' = ie /\ mem' = mem /\ Counts' = Counts
         /\ reg' \in [Registers -> Int] /\ (e # "zero" => reg'[e] = pc + 1)
         /\ \A r \in Registers : r # e \/ e = "zero" => reg'[r] = reg[r]
<1> DEFINE i == Jalr(s, e)
<1>1. i.op = "jalr" /\ i.s = s /\ i.d = e
  BY DEF Jalr
<1> HIDE DEF i
<1>2. Fetch(pc) = i
  BY DEF i
<1>3. Jump(i)
  BY <1>1, <1>2 DEF Step, Compute, Store, Branch, Jump, Enable, Return
<1>4. /\ reg' = Written(e, pc + 1) /\ pc' = reg[s] /\ ie' = ie /\ mem' = mem
      /\ Counts' = Counts
  BY <1>1, <1>3 DEF Jump, history, Counts
<1>5. pc + 1 \in Int
  BY DEF TypeOK
<1>6. CASE e = "zero"
  BY <1>4, <1>6 DEF Written, TypeOK
<1>7. CASE e # "zero"
  BY <1>4, <1>5, <1>7, WrittenIs
<1> QED BY <1>4, <1>6, <1>7

-----------------------------------------------------------------------------
(* The handlers: what each has pushed and restored at each instruction.    *)

Top == Words["stack"]

Start(d) == IF d = "timer" THEN TimerAt ELSE KeyboardAt
End(d) == IF d = "timer" THEN 54 ELSE 36

\* What the handler of d saves, from the top of the stack on, and where.
Slots(d) ==
  IF d = "timer" THEN <<"k0", "ra", "a0", "s0", "s1", "v0", "at">>
                 ELSE <<"k0", "a0", "ra", "s0", "s1", "v0", "at">>
PushAt(d) ==
  IF d = "timer" THEN {0, 3, 5, 7, 9, 11, 13} ELSE {0, 2, 6, 8, 10, 12, 14}
StoreAt(d) ==
  IF d = "timer" THEN {1, 4, 6, 8, 10, 12, 14} ELSE {1, 3, 7, 9, 11, 13, 15}
LoadAt(d) ==
  IF d = "timer" THEN {39, 41, 43, 45, 47, 49, 52} ELSE {21, 23, 25, 27, 29, 31, 34}
PopAt(d) ==
  IF d = "timer" THEN {40, 42, 44, 46, 48, 50, 53} ELSE {22, 24, 26, 28, 30, 32, 35}

\* How many words the handler has pushed at its instruction o, and how many of
\* them hold what they are for.
Pushed(d, o) ==
  IF d = "timer"
  THEN IF o \in {0, 54} THEN 0
       ELSE IF o \in 1 .. 3 \cup 51 .. 53 THEN 1
       ELSE IF o \in {4, 5, 49, 50} THEN 2
       ELSE IF o \in {6, 7, 47, 48} THEN 3
       ELSE IF o \in {8, 9, 45, 46} THEN 4
       ELSE IF o \in {10, 11, 43, 44} THEN 5
       ELSE IF o \in {12, 13, 41, 42} THEN 6 ELSE 7
  ELSE IF o \in {0, 36} THEN 0
       ELSE IF o \in {1, 2} \cup 33 .. 35 THEN 1
       ELSE IF o \in 3 .. 6 \cup {31, 32} THEN 2
       ELSE IF o \in {7, 8, 29, 30} THEN 3
       ELSE IF o \in {9, 10, 27, 28} THEN 4
       ELSE IF o \in {11, 12, 25, 26} THEN 5
       ELSE IF o \in {13, 14, 23, 24} THEN 6 ELSE 7
Stored(d, o) == IF o \in StoreAt(d) THEN Pushed(d, o) - 1 ELSE Pushed(d, o)

\* Where a0 and k0 are as the handler found them.
A0Kept(d) == IF d = "timer" THEN 0 .. 15 \cup 48 .. 54 ELSE 0 .. 4 \cup 32 .. 36
K0Kept(d) == IF d = "timer" THEN {0, 1, 53, 54} ELSE {0, 1, 35, 36}

Kept == {"zero", "at", "v0", "s0", "s1", "ra"}

LEMMA WordsAre ==
  /\ Top = 10485760 /\ Words["seconds"] = 16777212 /\ Words["minutes"] = 16777213
  /\ Words["hours"] = 16777214 /\ Words["keyboard_out"] = 15658720
  /\ DOMAIN Words = {"stack", "seconds", "minutes", "hours", "keyboard_out"}
BY DEF Words, Top

LEMMA AddressFacts ==
  /\ Extra \in {0, 2} /\ Size \in Nat /\ Size <= 138 /\ Size >= 99
  /\ FactorialAt = 25 + Extra /\ TimerAt = FactorialAt + 35
  /\ KeyboardAt = TimerAt + 55 /\ WordsAt >= KeyboardAt /\ WordsAt <= 154
  /\ FactorialAt \in Nat /\ TimerAt \in Nat /\ KeyboardAt \in Nat /\ WordsAt \in Nat
  /\ "keyboard" \in Devices => Extra = 2 /\ WordsAt = KeyboardAt + 37
BY DEF Extra, Keys, Size, FactorialAt, TimerAt, KeyboardAt, WordsAt

LEMMA StartFacts ==
  ASSUME NEW d \in Devices
  PROVE  /\ d \in {"timer", "keyboard"}
         /\ Start(d) \in Nat /\ Start(d) \in {TimerAt, KeyboardAt}
         /\ Start(d) + End(d) < WordsAt
         /\ End(d) \in {54, 36}
BY DevicesAssumption, AddressFacts DEF Start, End

LEMMA PushTable ==
  ASSUME NEW d \in {"timer", "keyboard"}, NEW o \in PushAt(d)
  PROVE  /\ o \in 0 .. End(d) /\ o + 1 \in 0 .. End(d)
         /\ Pushed(d, o) \in 0 .. 6 /\ Pushed(d, o + 1) = Pushed(d, o) + 1
         /\ Stored(d, o) = Pushed(d, o) /\ Stored(d, o + 1) = Pushed(d, o)
         /\ o + 1 \in A0Kept(d) => o \in A0Kept(d)
         /\ o + 1 \in K0Kept(d) => o \in K0Kept(d)
BY DEF PushAt, Pushed, Stored, StoreAt, End, A0Kept, K0Kept

LEMMA StoreTable ==
  ASSUME NEW d \in {"timer", "keyboard"}, NEW o \in StoreAt(d)
  PROVE  /\ o \in 0 .. End(d) /\ o + 1 \in 0 .. End(d)
         /\ Pushed(d, o) \in 1 .. 7 /\ Pushed(d, o + 1) = Pushed(d, o)
         /\ Stored(d, o) = Pushed(d, o) - 1 /\ Stored(d, o + 1) = Pushed(d, o)
         /\ o + 1 \in A0Kept(d) => o \in A0Kept(d)
         /\ o + 1 \in K0Kept(d) => o \in K0Kept(d)
BY DEF Pushed, Stored, StoreAt, End, A0Kept, K0Kept

LEMMA LoadTable ==
  ASSUME NEW d \in {"timer", "keyboard"}, NEW o \in LoadAt(d)
  PROVE  /\ o \in 0 .. End(d) /\ o + 1 \in 0 .. End(d)
         /\ Pushed(d, o) \in 1 .. 7 /\ Pushed(d, o + 1) = Pushed(d, o)
         /\ Stored(d, o) = Pushed(d, o) /\ Stored(d, o + 1) = Pushed(d, o)
BY DEF LoadAt, Pushed, Stored, StoreAt, End

LEMMA PopTable ==
  ASSUME NEW d \in {"timer", "keyboard"}, NEW o \in PopAt(d)
  PROVE  /\ o \in 0 .. End(d) /\ o + 1 \in 0 .. End(d)
         /\ Pushed(d, o) \in 1 .. 7 /\ Pushed(d, o + 1) = Pushed(d, o) - 1
         /\ Stored(d, o) = Pushed(d, o) /\ Stored(d, o + 1) = Pushed(d, o) - 1
         /\ o + 1 \in A0Kept(d) => o \in A0Kept(d)
         /\ o + 1 \in K0Kept(d) => o \in K0Kept(d)
BY DEF PopAt, Pushed, Stored, StoreAt, End, A0Kept, K0Kept

LEMMA SlotStored ==
  ASSUME NEW d \in {"timer", "keyboard"}, NEW o \in StoreAt(d)
  PROVE  LET e == Slots(d)[Pushed(d, o)] IN
         /\ e \in Registers /\ e # "zero" /\ e # "sp"
         /\ e \in Kept \/ (e = "a0" /\ o \in A0Kept(d)) \/ (e = "k0" /\ o \in K0Kept(d))
<1> DEFINE e == Slots(d)[Pushed(d, o)]
<1>1. CASE d = "timer"
  <2>1. /\ (o = 1 => e = "k0") /\ (o = 4 => e = "ra")
        /\ (o = 6 => e = "a0") /\ (o = 8 => e = "s0")
        /\ (o = 10 => e = "s1") /\ (o = 12 => e = "v0")
        /\ (o = 14 => e = "at")
    BY <1>1 DEF Slots, Pushed
  <2>2. o \in {1, 4, 6, 8, 10, 12, 14}
    BY <1>1 DEF StoreAt
  <2> HIDE DEF e
  <2>3. e \in Registers /\ e # "zero" /\ e # "sp"
    BY <1>1, <2>1, <2>2 DEF Registers, Kept
  <2>4. e \in Kept \/ (e = "a0" /\ o \in A0Kept(d)) \/ (e = "k0" /\ o \in K0Kept(d))
    BY <1>1, <2>1, <2>2 DEF A0Kept, K0Kept, Kept
  <2> QED BY <2>3, <2>4 DEF e
<1>2. CASE d = "keyboard"
  <2>1. /\ (o = 1 => e = "k0") /\ (o = 3 => e = "a0")
        /\ (o = 7 => e = "ra") /\ (o = 9 => e = "s0")
        /\ (o = 11 => e = "s1") /\ (o = 13 => e = "v0")
        /\ (o = 15 => e = "at")
    BY <1>2 DEF Slots, Pushed
  <2>2. o \in {1, 3, 7, 9, 11, 13, 15}
    BY <1>2 DEF StoreAt
  <2> HIDE DEF e
  <2>3. e \in Registers /\ e # "zero" /\ e # "sp"
    BY <1>2, <2>1, <2>2 DEF Registers, Kept
  <2>4. e \in Kept \/ (e = "a0" /\ o \in A0Kept(d)) \/ (e = "k0" /\ o \in K0Kept(d))
    BY <1>2, <2>1, <2>2 DEF A0Kept, K0Kept, Kept
  <2> QED BY <2>3, <2>4 DEF e
<1> QED BY <1>1, <1>2

LEMMA SlotLoaded ==
  ASSUME NEW d \in {"timer", "keyboard"}, NEW o \in LoadAt(d)
  PROVE  LET e == Slots(d)[Pushed(d, o)] IN
         /\ e \in Registers /\ e # "zero" /\ e # "sp"
         /\ e \in Kept \/ e = "a0" \/ e = "k0"
         /\ o + 1 \in A0Kept(d) => e = "a0" \/ o \in A0Kept(d)
         /\ o + 1 \in K0Kept(d) => e = "k0" \/ o \in K0Kept(d)
         /\ d = "keyboard" /\ o + 1 \in 5 .. 31 => e # "a0"
<1> DEFINE e == Slots(d)[Pushed(d, o)]
<1>1. CASE d = "timer"
  <2>1. /\ (o = 39 => e = "at") /\ (o = 41 => e = "v0")
        /\ (o = 43 => e = "s1") /\ (o = 45 => e = "s0")
        /\ (o = 47 => e = "a0") /\ (o = 49 => e = "ra")
        /\ (o = 52 => e = "k0")
    BY <1>1 DEF Slots, Pushed
  <2>2. o \in {39, 41, 43, 45, 47, 49, 52}
    BY <1>1 DEF LoadAt
  <2> HIDE DEF e
  <2>3. e \in Registers /\ e # "zero" /\ e # "sp" /\ (e \in Kept \/ e = "a0" \/ e = "k0")
    BY <1>1, <2>1, <2>2 DEF Registers, Kept
  <2>4. /\ o + 1 \in A0Kept(d) => e = "a0" \/ o \in A0Kept(d)
        /\ o + 1 \in K0Kept(d) => e = "k0" \/ o \in K0Kept(d)
        /\ d = "keyboard" /\ o + 1 \in 5 .. 31 => e # "a0"
    BY <1>1, <2>1, <2>2 DEF A0Kept, K0Kept, Kept
  <2> QED BY <2>3, <2>4 DEF e
<1>2. CASE d = "keyboard"
  <2>1. /\ (o = 21 => e = "at") /\ (o = 23 => e = "v0")
        /\ (o = 25 => e = "s1") /\ (o = 27 => e = "s0")
        /\ (o = 29 => e = "ra") /\ (o = 31 => e = "a0")
        /\ (o = 34 => e = "k0")
    BY <1>2 DEF Slots, Pushed
  <2>2. o \in {21, 23, 25, 27, 29, 31, 34}
    BY <1>2 DEF LoadAt
  <2> HIDE DEF e
  <2>3. e \in Registers /\ e # "zero" /\ e # "sp" /\ (e \in Kept \/ e = "a0" \/ e = "k0")
    BY <1>2, <2>1, <2>2 DEF Registers, Kept
  <2>4. /\ o + 1 \in A0Kept(d) => e = "a0" \/ o \in A0Kept(d)
        /\ o + 1 \in K0Kept(d) => e = "k0" \/ o \in K0Kept(d)
        /\ d = "keyboard" /\ o + 1 \in 5 .. 31 => e # "a0"
    BY <1>2, <2>1, <2>2 DEF A0Kept, K0Kept, Kept
  <2> QED BY <2>3, <2>4 DEF e
<1> QED BY <1>1, <1>2

\* The code of both handlers, where they push and pop.
LEMMA StackCode ==
  ASSUME NEW d \in Devices
  PROVE  /\ \A o \in PushAt(d) : Fetch(Start(d) + o) = Addi("sp", "sp", -1)
         /\ \A o \in StoreAt(d) : Fetch(Start(d) + o) = Sw(Slots(d)[Pushed(d, o)], "sp", 0)
         /\ \A o \in LoadAt(d) : Fetch(Start(d) + o) = Lw(Slots(d)[Pushed(d, o)], "sp", 0)
         /\ \A o \in PopAt(d) : Fetch(Start(d) + o) = Addi("sp", "sp", 1)
<1>1. CASE d = "timer"
  <2> DEFINE T(o) == Fetch(TimerAt + o)
  <2>1. \A o : Fetch(Start(d) + o) = T(o)
    BY <1>1 DEF Start
  <2>2. /\ \A o \in {0, 3, 5, 7, 9, 11, 13} : T(o) = Addi("sp", "sp", -1)
        /\ T(1) = Sw("k0", "sp", 0) /\ T(4) = Sw("ra", "sp", 0)
        /\ T(6) = Sw("a0", "sp", 0) /\ T(8) = Sw("s0", "sp", 0)
        /\ T(10) = Sw("s1", "sp", 0) /\ T(12) = Sw("v0", "sp", 0)
        /\ T(14) = Sw("at", "sp", 0)
        /\ T(39) = Lw("at", "sp", 0) /\ T(41) = Lw("v0", "sp", 0)
        /\ T(43) = Lw("s1", "sp", 0) /\ T(45) = Lw("s0", "sp", 0)
        /\ T(47) = Lw("a0", "sp", 0) /\ T(49) = Lw("ra", "sp", 0)
        /\ T(52) = Lw("k0", "sp", 0)
        /\ \A o \in {40, 42, 44, 46, 48, 50, 53} : T(o) = Addi("sp", "sp", 1)
    BY TimerCode
  <2> HIDE DEF T
  <2>3. \A o \in PushAt(d) : T(o) = Addi("sp", "sp", -1)
    BY <1>1, <2>2 DEF PushAt
  <2>4. \A o \in PopAt(d) : T(o) = Addi("sp", "sp", 1)
    BY <1>1, <2>2 DEF PopAt
  <2>5. \A o \in StoreAt(d) : T(o) = Sw(Slots(d)[Pushed(d, o)], "sp", 0)
    BY <1>1, <2>2 DEF StoreAt, Slots, Pushed
  <2>6. \A o \in LoadAt(d) : T(o) = Lw(Slots(d)[Pushed(d, o)], "sp", 0)
    BY <1>1, <2>2 DEF LoadAt, Slots, Pushed
  <2> QED BY <2>1, <2>3, <2>4, <2>5, <2>6
<1>2. CASE d = "keyboard"
  <2> DEFINE K(o) == Fetch(KeyboardAt + o)
  <2>1. \A o : Fetch(Start(d) + o) = K(o)
    BY <1>2 DEF Start
  <2>2. /\ \A o \in {0, 2, 6, 8, 10, 12, 14} : K(o) = Addi("sp", "sp", -1)
        /\ K(1) = Sw("k0", "sp", 0) /\ K(3) = Sw("a0", "sp", 0)
        /\ K(7) = Sw("ra", "sp", 0) /\ K(9) = Sw("s0", "sp", 0)
        /\ K(11) = Sw("s1", "sp", 0) /\ K(13) = Sw("v0", "sp", 0)
        /\ K(15) = Sw("at", "sp", 0)
        /\ K(21) = Lw("at", "sp", 0) /\ K(23) = Lw("v0", "sp", 0)
        /\ K(25) = Lw("s1", "sp", 0) /\ K(27) = Lw("s0", "sp", 0)
        /\ K(29) = Lw("ra", "sp", 0) /\ K(31) = Lw("a0", "sp", 0)
        /\ K(34) = Lw("k0", "sp", 0)
        /\ \A o \in {22, 24, 26, 28, 30, 32, 35} : K(o) = Addi("sp", "sp", 1)
    BY <1>2, KeyboardCode
  <2> HIDE DEF K
  <2>3. \A o \in PushAt(d) : K(o) = Addi("sp", "sp", -1)
    BY <1>2, <2>2 DEF PushAt
  <2>4. \A o \in PopAt(d) : K(o) = Addi("sp", "sp", 1)
    BY <1>2, <2>2 DEF PopAt
  <2>5. \A o \in StoreAt(d) : K(o) = Sw(Slots(d)[Pushed(d, o)], "sp", 0)
    BY <1>2, <2>2 DEF StoreAt, Slots, Pushed
  <2>6. \A o \in LoadAt(d) : K(o) = Lw(Slots(d)[Pushed(d, o)], "sp", 0)
    BY <1>2, <2>2 DEF LoadAt, Slots, Pushed
  <2> QED BY <2>1, <2>3, <2>4, <2>5, <2>6
<1> QED BY <1>1, <1>2, DevicesAssumption

LEMMA ComputesType ==
  ASSUME TypeOK, NEW e, NEW v, Computes(e, v)
  PROVE  TypeOK'
BY DEF TypeOK, Computes, Counts, Registers

LEMMA StoresType ==
  ASSUME TypeOK, NEW w \in Int, NEW v \in Int, Stores(w, v)
  PROVE  TypeOK'
<1>1. \A a \in DOMAIN mem' : mem'[a] \in Int
  BY DEF TypeOK, Stores
<1>2. DOMAIN mem' \subseteq Int
  BY DEF TypeOK, Stores
<1> QED BY <1>1, <1>2 DEF TypeOK, Stores, Counts

LEMMA GoesType ==
  ASSUME TypeOK, NEW a \in Int, Goes(a)
  PROVE  TypeOK'
BY DEF TypeOK, Goes, Counts

-----------------------------------------------------------------------------
(* A handler that has interrupted b, at p with registers r and memory m.   *)

Entered(b, e) == IF e = "k0" THEN b.pc ELSE b.reg[e]

StackOK(m, d, b, n) ==
  \A i \in 1 .. n : /\ b.reg["sp"] - i \in DOMAIN m
                    /\ m[b.reg["sp"] - i] = Entered(b, Slots(d)[i])

Body(d, o, b, r) ==
  /\ d = "timer" =>
       /\ o = 16 => r["a0"] = WordsAt + 1
       /\ o = 26 => r["a0"] = WordsAt + 2
       /\ o = 35 => r["a0"] = WordsAt + 3
       /\ o \in 17 .. 24 \cup 27 .. 33 \cup 36 .. 38 => r["a0"] >= Top
  /\ d = "keyboard" /\ o \in 5 .. 31 => r["a0"] = b.key

HandlerOK(m, d, b, p, r) ==
  LET o == p - Start(d) IN
  /\ o \in 0 .. End(d)
  /\ r["sp"] = b.reg["sp"] - Pushed(d, o)
  /\ StackOK(m, d, b, Stored(d, o))
  /\ \A e \in Kept : r[e] = b.reg[e]
  /\ o \in A0Kept(d) => r["a0"] = b.reg["a0"]
  /\ o \in K0Kept(d) => r["k0"] = b.pc
  /\ Body(d, o, b, r)

\* Memory changes at most in the words below the stack of b.
InFrame(b) ==
  /\ \A a \in DOMAIN mem : a \notin b.reg["sp"] - 7 .. b.reg["sp"] - 1 =>
       a \in DOMAIN mem' /\ mem'[a] = mem[a]
  /\ \A a \in DOMAIN mem' : a \in DOMAIN mem \/ a \in b.reg["sp"] - 7 .. b.reg["sp"] - 1

\* A step on the stack of the handler.
OnStack(d, b) ==
  /\ TypeOK' /\ HandlerOK(mem', d, b, pc', reg') /\ InFrame(b)
  /\ pc' = pc + 1 /\ ie' = ie /\ Counts' = Counts
  /\ reg'["a1"] = reg["a1"] /\ reg'["a2"] = reg["a2"]

LEMMA FrameFacts ==
  ASSUME NEW b \in Frames
  PROVE  /\ b.pc \in Int /\ b.key \in Nat /\ b.reg \in [Registers -> Int]
         /\ b.reg["sp"] \in Int
BY DEF Frames, Registers

LEMMA OffsetFacts ==
  ASSUME TypeOK, NEW d \in Devices, NEW b \in Frames
  PROVE  LET o == pc - Start(d) IN
         /\ d \in {"timer", "keyboard"} /\ Start(d) \in Int /\ pc \in Int
         /\ b.reg["sp"] \in Int
         /\ pc = Start(d) + o /\ (pc + 1) - Start(d) = o + 1 /\ o \in Int
<1>1. d \in {"timer", "keyboard"} /\ Start(d) \in Int
  BY StartFacts
<1>2. pc \in Int
  BY DEF TypeOK
<1>3. b.reg["sp"] \in Int
  BY FrameFacts
<1> QED BY <1>1, <1>2, <1>3

LEMMA Pushing ==
  ASSUME TypeOK, Step, NEW d \in Devices, NEW b \in Frames,
         HandlerOK(mem, d, b, pc, reg), pc - Start(d) \in PushAt(d)
  PROVE  OnStack(d, b)
<1> DEFINE o == pc - Start(d)
<1>0. d \in {"timer", "keyboard"} /\ Start(d) \in Int /\ pc \in Int /\ b.reg["sp"] \in Int
      /\ pc = Start(d) + o /\ (pc + 1) - Start(d) = o + 1 /\ o \in Int
  BY OffsetFacts
<1>1. /\ o \in PushAt(d)
      /\ reg["sp"] = b.reg["sp"] - Pushed(d, o)
      /\ StackOK(mem, d, b, Stored(d, o))
      /\ \A e \in Kept : reg[e] = b.reg[e]
      /\ o \in A0Kept(d) => reg["a0"] = b.reg["a0"]
      /\ o \in K0Kept(d) => reg["k0"] = b.pc
      /\ Body(d, o, b, reg)
  BY DEF HandlerOK
<1> HIDE DEF o
<1>2. Fetch(pc) = Addi("sp", "sp", -1)
  BY <1>0, <1>1, StackCode
<1>3. "sp" \in Registers /\ "a0" \in Registers /\ "k0" \in Registers /\ Kept \subseteq Registers
      /\ "sp" \notin Kept /\ "a1" \in Registers /\ "a2" \in Registers
  BY DEF Registers, Kept
<1>4. Computes("sp", reg["sp"] + -1)
  BY <1>2, <1>3, DoAddi
<1>5. /\ o + 1 \in 0 .. End(d)
      /\ Pushed(d, o) \in 0 .. 6 /\ Pushed(d, o + 1) = Pushed(d, o) + 1
      /\ Stored(d, o) = Pushed(d, o) /\ Stored(d, o + 1) = Pushed(d, o)
      /\ o + 1 \in A0Kept(d) => o \in A0Kept(d)
      /\ o + 1 \in K0Kept(d) => o \in K0Kept(d)
  BY <1>0, <1>1, PushTable
<1>6. TypeOK'
  BY <1>4, ComputesType
<1>7. /\ pc' = pc + 1 /\ ie' = ie /\ Counts' = Counts /\ mem' = mem
      /\ reg'["sp"] = reg["sp"] - 1 /\ reg'["a0"] = reg["a0"] /\ reg'["k0"] = reg["k0"]
      /\ reg'["a1"] = reg["a1"] /\ reg'["a2"] = reg["a2"]
      /\ \A e \in Kept : reg'[e] = reg[e]
  <2>1. reg["sp"] + -1 = reg["sp"] - 1
    BY <1>3 DEF TypeOK
  <2> QED BY <1>3, <1>4, <2>1 DEF Computes
<1>8. Body(d, o + 1, b, reg')
  <2>1. CASE d = "timer"
    BY <1>0, <1>1, <2>1 DEF Body, PushAt
  <2>2. CASE d = "keyboard"
    BY <1>0, <1>1, <1>7, <2>2 DEF Body, PushAt
  <2> QED BY <1>0, <2>1, <2>2
<1>9. reg'["sp"] = b.reg["sp"] - Pushed(d, o + 1)
  BY <1>0, <1>1, <1>5, <1>7
<1>10. StackOK(mem', d, b, Stored(d, o + 1))
  BY <1>1, <1>5, <1>7
<1>11. pc' - Start(d) = o + 1
  BY <1>0, <1>7
<1>12. HandlerOK(mem', d, b, pc', reg')
  BY <1>1, <1>5, <1>7, <1>8, <1>9, <1>10, <1>11 DEF HandlerOK
<1>13. InFrame(b)
  BY <1>7 DEF InFrame
<1> QED BY <1>6, <1>7, <1>12, <1>13 DEF OnStack

LEMMA Storing ==
  ASSUME TypeOK, Step, NEW d \in Devices, NEW b \in Frames,
         HandlerOK(mem, d, b, pc, reg), pc - Start(d) \in StoreAt(d)
  PROVE  OnStack(d, b)
<1> DEFINE o == pc - Start(d)
           e == Slots(d)[Pushed(d, o)]
<1>0. d \in {"timer", "keyboard"} /\ Start(d) \in Int /\ pc \in Int /\ b.reg["sp"] \in Int
      /\ pc = Start(d) + o /\ (pc + 1) - Start(d) = o + 1 /\ o \in Int
  BY OffsetFacts
<1>1. /\ o \in StoreAt(d)
      /\ reg["sp"] = b.reg["sp"] - Pushed(d, o)
      /\ StackOK(mem, d, b, Stored(d, o))
      /\ \A r \in Kept : reg[r] = b.reg[r]
      /\ o \in A0Kept(d) => reg["a0"] = b.reg["a0"]
      /\ o \in K0Kept(d) => reg["k0"] = b.pc
      /\ Body(d, o, b, reg)
  BY DEF HandlerOK
<1>2. Fetch(pc) = Sw(e, "sp", 0)
  BY <1>0, <1>1, StackCode
<1>3. /\ e \in Registers /\ e # "zero" /\ e # "sp"
      /\ e \in Kept \/ (e = "a0" /\ o \in A0Kept(d)) \/ (e = "k0" /\ o \in K0Kept(d))
  BY <1>0, <1>1, SlotStored
<1>4. /\ o + 1 \in 0 .. End(d)
      /\ Pushed(d, o) \in 1 .. 7 /\ Pushed(d, o + 1) = Pushed(d, o)
      /\ Stored(d, o) = Pushed(d, o) - 1 /\ Stored(d, o + 1) = Pushed(d, o)
      /\ o + 1 \in A0Kept(d) => o \in A0Kept(d)
      /\ o + 1 \in K0Kept(d) => o \in K0Kept(d)
  BY <1>0, <1>1, StoreTable
<1>5. Entered(b, e) = reg[e] /\ reg[e] \in Int
  <2>1. Kept \subseteq Registers /\ "k0" \notin Kept
    BY DEF Kept, Registers
  <2> HIDE DEF e, o
  <2> QED BY <1>1, <1>3, <2>1 DEF Entered, TypeOK
<1>e. Slots(d)[Pushed(d, o)] = e
  OBVIOUS
<1> HIDE DEF o, e
<1>6. Stores(reg["sp"] + 0, reg[e])
  <2>1. "sp" \in Registers
    BY DEF Registers
  <2> QED BY <1>2, <1>3, <2>1, DoSw
<1>7. reg["sp"] + 0 = b.reg["sp"] - Pushed(d, o) /\ b.reg["sp"] - Pushed(d, o) \in Int
  BY <1>0, <1>1, <1>4
<1> DEFINE w == b.reg["sp"] - Pushed(d, o)
<1>8. Stores(w, reg[e])
  BY <1>6, <1>7
<1>9. TypeOK'
  BY <1>5, <1>7, <1>8, StoresType
<1>10. /\ pc' = pc + 1 /\ ie' = ie /\ Counts' = Counts /\ reg' = reg
       /\ DOMAIN mem' = DOMAIN mem \cup {w} /\ mem'[w] = reg[e]
       /\ \A a \in DOMAIN mem : a # w => mem'[a] = mem[a]
  BY <1>8 DEF Stores
<1>11. Body(d, o + 1, b, reg')
  BY <1>0, <1>1, <1>10 DEF Body, StoreAt
<1>12. ASSUME NEW i \in 1 .. Stored(d, o + 1)
       PROVE  /\ b.reg["sp"] - i \in DOMAIN mem'
              /\ mem'[b.reg["sp"] - i] = Entered(b, Slots(d)[i])
  <2>1. CASE i = Pushed(d, o)
    BY <1>5, <1>10, <1>e, <2>1
  <2>2. CASE i # Pushed(d, o)
    <3>1. i \in 1 .. Stored(d, o) /\ b.reg["sp"] - i # w
      BY <1>0, <1>4, <2>2
    <3>2. /\ b.reg["sp"] - i \in DOMAIN mem
          /\ mem[b.reg["sp"] - i] = Entered(b, Slots(d)[i])
      BY <1>1, <3>1 DEF StackOK
    <3> QED BY <1>10, <3>1, <3>2
  <2> QED BY <2>1, <2>2
<1>13. StackOK(mem', d, b, Stored(d, o + 1))
  BY <1>12 DEF StackOK
<1>14. pc' - Start(d) = o + 1
  BY <1>0, <1>10
<1>15. HandlerOK(mem', d, b, pc', reg')
  BY <1>1, <1>4, <1>10, <1>11, <1>13, <1>14 DEF HandlerOK
<1>16. InFrame(b)
  <2>1. w \in b.reg["sp"] - 7 .. b.reg["sp"] - 1
    BY <1>0, <1>4
  <2> QED BY <1>10, <2>1 DEF InFrame
<1> QED BY <1>9, <1>10, <1>15, <1>16 DEF OnStack

LEMMA Loading ==
  ASSUME TypeOK, Step, NEW d \in Devices, NEW b \in Frames,
         HandlerOK(mem, d, b, pc, reg), pc - Start(d) \in LoadAt(d)
  PROVE  OnStack(d, b)
<1> DEFINE o == pc - Start(d)
           e == Slots(d)[Pushed(d, o)]
<1>0. d \in {"timer", "keyboard"} /\ Start(d) \in Int /\ pc \in Int /\ b.reg["sp"] \in Int
      /\ pc = Start(d) + o /\ (pc + 1) - Start(d) = o + 1 /\ o \in Int
  BY OffsetFacts
<1>1. /\ o \in LoadAt(d)
      /\ reg["sp"] = b.reg["sp"] - Pushed(d, o)
      /\ StackOK(mem, d, b, Stored(d, o))
      /\ \A r \in Kept : reg[r] = b.reg[r]
      /\ o \in A0Kept(d) => reg["a0"] = b.reg["a0"]
      /\ o \in K0Kept(d) => reg["k0"] = b.pc
      /\ Body(d, o, b, reg)
  BY DEF HandlerOK
<1>2. Fetch(pc) = Lw(e, "sp", 0)
  BY <1>0, <1>1, StackCode
<1>3. /\ e \in Registers /\ e # "zero" /\ e # "sp"
      /\ e \in Kept \/ e = "a0" \/ e = "k0"
      /\ o + 1 \in A0Kept(d) => e = "a0" \/ o \in A0Kept(d)
      /\ o + 1 \in K0Kept(d) => e = "k0" \/ o \in K0Kept(d)
      /\ d = "keyboard" /\ o + 1 \in 5 .. 31 => e # "a0"
  BY <1>0, <1>1, SlotLoaded
<1>4. /\ o + 1 \in 0 .. End(d)
      /\ Pushed(d, o) \in 1 .. 7 /\ Pushed(d, o + 1) = Pushed(d, o)
      /\ Stored(d, o) = Pushed(d, o) /\ Stored(d, o + 1) = Pushed(d, o)
  BY <1>0, <1>1, LoadTable
<1>e. Slots(d)[Pushed(d, o)] = e
  OBVIOUS
<1> HIDE DEF o, e
<1>5. Computes(e, Load(reg["sp"] + 0))
  <2>1. "sp" \in Registers /\ "sp" # "zero"
    BY DEF Registers
  <2> QED BY <1>2, <1>3, <2>1, DoLw
<1>6. Load(reg["sp"] + 0) = Entered(b, e)
  <2>1. reg["sp"] + 0 = b.reg["sp"] - Pushed(d, o)
    BY <1>0, <1>1, <1>4
  <2>2. /\ b.reg["sp"] - Pushed(d, o) \in DOMAIN mem
        /\ mem[b.reg["sp"] - Pushed(d, o)] = Entered(b, e)
    BY <1>1, <1>4, <1>e DEF StackOK
  <2> QED BY <2>1, <2>2 DEF Load
<1>7. /\ TypeOK' /\ pc' = pc + 1 /\ ie' = ie /\ Counts' = Counts /\ mem' = mem
      /\ reg'[e] = Entered(b, e)
      /\ \A r \in Registers : r # e => reg'[r] = reg[r]
  BY <1>5, <1>6, ComputesType DEF Computes
<1>8. /\ "sp" \in Registers /\ "a0" \in Registers /\ "k0" \in Registers
      /\ "a1" \in Registers /\ "a2" \in Registers /\ Kept \subseteq Registers
      /\ "sp" \notin Kept /\ "a0" \notin Kept /\ "k0" \notin Kept
      /\ "a1" \notin Kept /\ "a2" \notin Kept
  BY DEF Registers, Kept
<1>9. reg'["sp"] = reg["sp"] /\ reg'["a1"] = reg["a1"] /\ reg'["a2"] = reg["a2"]
  <2>1. e # "sp" /\ e # "a1" /\ e # "a2"
    BY <1>3, <1>8
  <2> QED BY <1>7, <1>8, <2>1
<1>10. \A r \in Kept : reg'[r] = b.reg[r]
  BY <1>1, <1>7, <1>8 DEF Entered
<1>11. o + 1 \in A0Kept(d) => reg'["a0"] = b.reg["a0"]
  BY <1>1, <1>3, <1>7, <1>8 DEF Entered
<1>12. o + 1 \in K0Kept(d) => reg'["k0"] = b.pc
  BY <1>1, <1>3, <1>7, <1>8 DEF Entered
<1>13. Body(d, o + 1, b, reg')
  <2>1. CASE d = "timer"
    BY <1>0, <1>1, <2>1 DEF Body, LoadAt
  <2>2. CASE d = "keyboard"
    <3>1. o + 1 \in 5 .. 31 => reg'["a0"] = reg["a0"] /\ o \in 5 .. 31
      BY <1>1, <1>3, <1>7, <1>8, <2>2 DEF LoadAt
    <3> QED BY <1>1, <2>2, <3>1 DEF Body
  <2> QED BY <1>0, <2>1, <2>2
<1>14. pc' - Start(d) = o + 1
  BY <1>0, <1>7
<1>15. StackOK(mem', d, b, Stored(d, o + 1))
  BY <1>1, <1>4, <1>7
<1>16. HandlerOK(mem', d, b, pc', reg')
  BY <1>1, <1>4, <1>9, <1>10, <1>11, <1>12, <1>13, <1>14, <1>15 DEF HandlerOK
<1>17. InFrame(b)
  BY <1>7 DEF InFrame
<1> QED BY <1>7, <1>9, <1>16, <1>17 DEF OnStack

LEMMA Popping ==
  ASSUME TypeOK, Step, NEW d \in Devices, NEW b \in Frames,
         HandlerOK(mem, d, b, pc, reg), pc - Start(d) \in PopAt(d)
  PROVE  OnStack(d, b)
<1> DEFINE o == pc - Start(d)
<1>0. d \in {"timer", "keyboard"} /\ Start(d) \in Int /\ pc \in Int /\ b.reg["sp"] \in Int
      /\ pc = Start(d) + o /\ (pc + 1) - Start(d) = o + 1 /\ o \in Int
  BY OffsetFacts
<1>1. /\ o \in PopAt(d)
      /\ reg["sp"] = b.reg["sp"] - Pushed(d, o)
      /\ StackOK(mem, d, b, Stored(d, o))
      /\ \A e \in Kept : reg[e] = b.reg[e]
      /\ o \in A0Kept(d) => reg["a0"] = b.reg["a0"]
      /\ o \in K0Kept(d) => reg["k0"] = b.pc
      /\ Body(d, o, b, reg)
  BY DEF HandlerOK
<1> HIDE DEF o
<1>2. Fetch(pc) = Addi("sp", "sp", 1)
  BY <1>0, <1>1, StackCode
<1>3. "sp" \in Registers /\ "a0" \in Registers /\ "k0" \in Registers /\ Kept \subseteq Registers
      /\ "sp" \notin Kept /\ "a1" \in Registers /\ "a2" \in Registers
  BY DEF Registers, Kept
<1>4. Computes("sp", reg["sp"] + 1)
  BY <1>2, <1>3, DoAddi
<1>5. /\ o + 1 \in 0 .. End(d)
      /\ Pushed(d, o) \in 1 .. 7 /\ Pushed(d, o + 1) = Pushed(d, o) - 1
      /\ Stored(d, o) = Pushed(d, o) /\ Stored(d, o + 1) = Pushed(d, o) - 1
      /\ o + 1 \in A0Kept(d) => o \in A0Kept(d)
      /\ o + 1 \in K0Kept(d) => o \in K0Kept(d)
  BY <1>0, <1>1, PopTable
<1>6. TypeOK'
  BY <1>4, ComputesType
<1>7. /\ pc' = pc + 1 /\ ie' = ie /\ Counts' = Counts /\ mem' = mem
      /\ reg'["sp"] = reg["sp"] + 1 /\ reg'["a0"] = reg["a0"] /\ reg'["k0"] = reg["k0"]
      /\ reg'["a1"] = reg["a1"] /\ reg'["a2"] = reg["a2"]
      /\ \A e \in Kept : reg'[e] = reg[e]
  BY <1>3, <1>4 DEF Computes
<1>8. Body(d, o + 1, b, reg')
  <2>1. CASE d = "timer"
    BY <1>0, <1>1, <2>1 DEF Body, PopAt
  <2>2. CASE d = "keyboard"
    BY <1>0, <1>1, <1>7, <2>2 DEF Body, PopAt
  <2> QED BY <1>0, <2>1, <2>2
<1>9. reg'["sp"] = b.reg["sp"] - Pushed(d, o + 1)
  BY <1>0, <1>1, <1>5, <1>7
<1>10. StackOK(mem', d, b, Stored(d, o + 1))
  BY <1>1, <1>5, <1>7 DEF StackOK
<1>11. pc' - Start(d) = o + 1
  BY <1>0, <1>7
<1>12. HandlerOK(mem', d, b, pc', reg')
  BY <1>1, <1>5, <1>7, <1>8, <1>9, <1>10, <1>11 DEF HandlerOK
<1>13. InFrame(b)
  BY <1>7 DEF InFrame
<1> QED BY <1>6, <1>7, <1>12, <1>13 DEF OnStack

-----------------------------------------------------------------------------
(* What the invariant says of a handler, and a step of it.                 *)

\* Above the words of the program there is room for what the handlers take
\* for a pointer, before the stack begins.
Floor == WordsAt + 5 + MaxInterrupts

MemoryOK(m, most) ==
  /\ \A a \in DOMAIN m :
       /\ a < WordsAt => m[a] \in 0 .. WordsAt - 1
       /\ WordsAt <= a /\ a < Floor => m[a] >= Top
       /\ a >= Top => m[a] \in 0 .. most
  /\ \A n \in 0 .. 4 : WordsAt + n \in DOMAIN m
PointerOK(v) == v \in 0 .. WordsAt - 1 \/ v >= Top

\* Interrupts are enabled at p.
Enabled(p) ==
  IF p < TimerAt THEN p >= FactorialAt - 4
  ELSE p - TimerAt \in 3 .. 51 \/ p - KeyboardAt \in 6 .. 33

AtStore(d, o) == d = "keyboard" /\ o = 18
PastStore(d, o) == d = "keyboard" /\ o \in 19 .. 20
Adds(d, o) == d = "timer" /\ o \in {20, 29, 37}
Owing(d, o) == d = "timer" /\ o \in 0 .. 20 \cup 23 .. 29 \cup 32 .. 37

\* A handler that has interrupted b and is about to do a step; most bounds
\* what a cell of the clock and a1 hold.
Ready(d, b, most) ==
  /\ TypeOK /\ Step /\ d \in Devices /\ b \in Frames
  /\ HandlerOK(mem, d, b, pc, reg) /\ (ie <=> Enabled(pc))
  /\ Floor <= b.reg["sp"] - 7 /\ b.reg["sp"] <= Top
  /\ most \in Nat /\ b.key <= most /\ WordsAt + 4 <= most /\ most < Floor
  /\ MemoryOK(mem, most) /\ reg["a1"] \in 0 .. most /\ PointerOK(reg["a2"])
  /\ PastStore(d, pc - Start(d)) => reg["a2"] >= Top
  /\ d = "keyboard" /\ pc - Start(d) \in 0 .. 4 => b.key = key

\* Memory stays as it is in the vector table and from the stack of b on to
\* its top.
Spares(b) ==
  \A a \in DOMAIN mem :
    a \in {1, 2} \/ (b.reg["sp"] <= a /\ a < Top) => a \in DOMAIN mem' /\ mem'[a] = mem[a]

Control(d, b) ==
  /\ TypeOK' /\ HandlerOK(mem', d, b, pc', reg') /\ (ie' <=> Enabled(pc'))
  /\ Counts' = Counts /\ Spares(b)

Data(d, most) ==
  LET o == pc - Start(d)
      q == pc' - Start(d)
      more == IF Adds(d, o) THEN most + 1 ELSE most
  IN
  /\ MemoryOK(mem', more) /\ reg'["a1"] \in 0 .. more /\ PointerOK(reg'["a2"])
  /\ \/ reg'["a2"] >= Top
     \/ AtStore(d, q)
     \/ reg'["a2"] = reg["a2"] /\ ~ AtStore(d, o)
  /\ PastStore(d, q) => reg'["a2"] >= Top
  /\ Owing(d, q) <=> (Owing(d, o) /\ ~ Adds(d, o))
  /\ d = "keyboard" /\ q \in 0 .. 4 => o \in 0 .. 4

EnabledIn(d, o) == IF d = "timer" THEN o \in 3 .. 51 ELSE o \in 6 .. 33

LEMMA EnabledIs ==
  ASSUME NEW d \in Devices, NEW p \in Int, p - Start(d) \in 0 .. End(d)
  PROVE  Enabled(p) <=> EnabledIn(d, p - Start(d))
<1>1. d \in {"timer", "keyboard"}
  BY StartFacts
<1>2. /\ TimerAt \in Nat /\ FactorialAt \in Nat /\ KeyboardAt \in Nat
      /\ KeyboardAt = TimerAt + 55
  BY AddressFacts
<1>3. CASE d = "timer"
  BY <1>2, <1>3 DEF Enabled, EnabledIn, Start, End
<1>4. CASE d = "keyboard"
  BY <1>2, <1>4 DEF Enabled, EnabledIn, Start, End
<1> QED BY <1>1, <1>3, <1>4

StackAt(d) == PushAt(d) \cup StoreAt(d) \cup LoadAt(d) \cup PopAt(d)

LEMMA StackTable ==
  ASSUME NEW d \in {"timer", "keyboard"}, NEW o \in StackAt(d)
  PROVE  /\ o \in 0 .. End(d) /\ o + 1 \in 0 .. End(d)
         /\ EnabledIn(d, o) <=> EnabledIn(d, o + 1)
         /\ ~ AtStore(d, o) /\ ~ PastStore(d, o + 1) /\ ~ Adds(d, o)
         /\ Owing(d, o + 1) <=> Owing(d, o)
         /\ d = "keyboard" /\ o + 1 \in 0 .. 4 => o \in 0 .. 4
<1>1. CASE d = "timer"
  BY <1>1 DEF StackAt, PushAt, StoreAt, LoadAt, PopAt, End, EnabledIn, AtStore,
              PastStore, Adds, Owing
<1>2. CASE d = "keyboard"
  BY <1>2 DEF StackAt, PushAt, StoreAt, LoadAt, PopAt, End, EnabledIn, AtStore,
              PastStore, Adds, Owing
<1> QED BY <1>1, <1>2

LEMMA FrameAway ==
  ASSUME TypeOK, TypeOK', NEW b \in Frames, InFrame(b),
         Floor <= b.reg["sp"] - 7, b.reg["sp"] <= Top,
         NEW most \in Nat, MemoryOK(mem, most)
  PROVE  Spares(b) /\ MemoryOK(mem', most)
<1>1. /\ WordsAt \in Nat /\ WordsAt >= 99 /\ Top \in Int /\ b.reg["sp"] \in Int
      /\ Floor \in Int /\ Floor >= WordsAt + 5
  BY AddressFacts, WordsAre, FrameFacts, NumbersAssumption DEF Floor
<1>2. \A a \in Int : a < Floor \/ a >= b.reg["sp"] => a \notin b.reg["sp"] - 7 .. b.reg["sp"] - 1
  BY <1>1
<1>3. \A a \in DOMAIN mem : a < Floor \/ a >= b.reg["sp"] => a \in DOMAIN mem' /\ mem'[a] = mem[a]
  BY <1>2 DEF InFrame, TypeOK
<1>4. DOMAIN mem \subseteq Int /\ DOMAIN mem' \subseteq Int
  BY DEF TypeOK
<1>5. Spares(b)
  <2>1. \A a \in DOMAIN mem : a \in {1, 2} => a < Floor
    BY <1>1
  <2> QED BY <1>3, <2>1 DEF Spares
<1>6. \A n \in 0 .. 4 : WordsAt + n \in DOMAIN mem'
  <2>1. \A n \in 0 .. 4 : WordsAt + n \in DOMAIN mem /\ WordsAt + n < Floor
    BY <1>1 DEF MemoryOK
  <2> QED BY <1>3, <2>1
<1>7. ASSUME NEW a \in DOMAIN mem', a < Floor \/ a >= Top
      PROVE  a \in DOMAIN mem /\ mem'[a] = mem[a]
  <2>1. a \in Int /\ a \notin b.reg["sp"] - 7 .. b.reg["sp"] - 1
    BY <1>1, <1>4, <1>7
  <2> QED BY <2>1 DEF InFrame
<1>8. \A a \in DOMAIN mem' :
        /\ a < WordsAt => mem'[a] \in 0 .. WordsAt - 1
        /\ WordsAt <= a /\ a < Floor => mem'[a] >= Top
        /\ a >= Top => mem'[a] \in 0 .. most
  <2> TAKE a \in DOMAIN mem'
  <2>1. a \in Int
    BY <1>4
  <2>2. a < WordsAt => a < Floor
    BY <1>1, <2>1
  <2> QED BY <1>7, <2>2 DEF MemoryOK
<1> QED BY <1>5, <1>6, <1>8 DEF MemoryOK

LEMMA OnStackDone ==
  ASSUME NEW d, NEW b, NEW most, Ready(d, b, most), pc - Start(d) \in StackAt(d)
  PROVE  Control(d, b) /\ Data(d, most)
<1>1. /\ TypeOK /\ Step /\ d \in Devices /\ b \in Frames /\ d \in {"timer", "keyboard"}
      /\ HandlerOK(mem, d, b, pc, reg) /\ (ie <=> Enabled(pc))
      /\ Floor <= b.reg["sp"] - 7 /\ b.reg["sp"] <= Top /\ most \in Nat
      /\ MemoryOK(mem, most) /\ reg["a1"] \in 0 .. most /\ PointerOK(reg["a2"])
  BY DevicesAssumption DEF Ready
<1>2. OnStack(d, b)
  BY <1>1, Pushing, Storing, Loading, Popping DEF StackAt
<1>3. Spares(b) /\ MemoryOK(mem', most)
  BY <1>1, <1>2, FrameAway DEF OnStack
<1> DEFINE o == pc - Start(d)
<1>4. pc' - Start(d) = o + 1 /\ pc \in Int /\ pc' \in Int
  BY <1>1, <1>2, OffsetFacts DEF OnStack
<1>5. /\ o \in 0 .. End(d) /\ o + 1 \in 0 .. End(d)
      /\ EnabledIn(d, o) <=> EnabledIn(d, o + 1)
      /\ ~ AtStore(d, o) /\ ~ PastStore(d, o + 1) /\ ~ Adds(d, o)
      /\ Owing(d, o + 1) <=> Owing(d, o)
      /\ d = "keyboard" /\ o + 1 \in 0 .. 4 => o \in 0 .. 4
  BY <1>1, StackTable
<1>6. ie' <=> Enabled(pc')
  <2>1. Enabled(pc) <=> EnabledIn(d, o)
    BY <1>1, <1>4, <1>5, EnabledIs
  <2>2. Enabled(pc') <=> EnabledIn(d, o + 1)
    BY <1>1, <1>4, <1>5, EnabledIs
  <2>3. ie' <=> ie
    BY <1>2 DEF OnStack
  <2> QED BY <1>1, <1>5, <2>1, <2>2, <2>3
<1>7. Control(d, b)
  BY <1>2, <1>3, <1>6 DEF Control, OnStack
<1>8. reg'["a1"] = reg["a1"] /\ reg'["a2"] = reg["a2"]
  BY <1>2 DEF OnStack
<1> HIDE DEF o
<1>9. Data(d, most)
  BY <1>1, <1>3, <1>4, <1>5, <1>8 DEF Data, o
<1> QED BY <1>7, <1>9

LEMMA RoomFacts ==
  /\ WordsAt \in Nat /\ 99 <= WordsAt /\ WordsAt <= 154 /\ Top = 10485760
  /\ Floor \in Nat /\ WordsAt + 5 < Floor
  /\ Floor + 4 * (Argument + 1) + 7 * MaxInterrupts <= Top /\ Floor < Top
  /\ Argument \in Nat /\ MaxInterrupts \in Nat /\ 1 <= MaxInterrupts /\ Limit \in Nat
BY AddressFacts, WordsAre, NumbersAssumption, RoomAssumption DEF Floor, Top

\* Memory stays as it is in the vector table and between the words of the
\* program and the top of the stack.
Untouched ==
  \A a \in DOMAIN mem : a < WordsAt \/ (Floor <= a /\ a < Top) =>
    a \in DOMAIN mem' /\ mem'[a] = mem[a]

LEMMA StoreAway ==
  ASSUME TypeOK, NEW most \in Nat, MemoryOK(mem, most), NEW w \in Int, NEW v \in Int,
         Stores(w, v),
         \/ w >= Top /\ v \in 0 .. most
         \/ WordsAt <= w /\ w < Floor /\ v >= Top
  PROVE  MemoryOK(mem', most) /\ Untouched
<1>1. /\ DOMAIN mem' = DOMAIN mem \cup {w} /\ mem'[w] = v
      /\ \A a \in DOMAIN mem : a # w => mem'[a] = mem[a]
  BY DEF Stores
<1>2. DOMAIN mem \subseteq Int
  BY DEF TypeOK
<1>3. Floor \in Int /\ WordsAt \in Int /\ Top \in Int /\ Floor < Top /\ WordsAt < Floor
  BY RoomFacts
<1>4. ASSUME NEW a \in DOMAIN mem'
      PROVE  /\ a < WordsAt => mem'[a] \in 0 .. WordsAt - 1
             /\ WordsAt <= a /\ a < Floor => mem'[a] >= Top
             /\ a >= Top => mem'[a] \in 0 .. most
  <2>1. CASE a = w
    BY <1>1, <1>3, <2>1
  <2>2. CASE a # w
    BY <1>1, <1>3, <2>2 DEF MemoryOK
  <2> QED BY <2>1, <2>2
<1>5. \A n \in 0 .. 4 : WordsAt + n \in DOMAIN mem'
  BY <1>1 DEF MemoryOK
<1>6. ASSUME NEW a \in DOMAIN mem, a < WordsAt \/ (Floor <= a /\ a < Top)
      PROVE  a \in DOMAIN mem' /\ mem'[a] = mem[a]
  <2>1. a # w
    BY <1>2, <1>3, <1>6
  <2> QED BY <1>1, <2>1
<1> QED BY <1>4, <1>5, <1>6 DEF MemoryOK, Untouched

LEMMA MemoryMore ==
  ASSUME NEW m, NEW most \in Nat, MemoryOK(m, most)
  PROVE  MemoryOK(m, most + 1)
BY DEF MemoryOK

\* A step of the handler from its instruction o to q, away from its stack.
LEMMA CalmControl ==
  ASSUME NEW d, NEW b, NEW most, Ready(d, b, most), NEW q, q \in 0 .. End(d),
         pc' = Start(d) + q, TypeOK', Counts' = Counts, ie' <=> EnabledIn(d, q),
         Pushed(d, q) = Pushed(d, pc - Start(d)),
         Stored(d, q) = Stored(d, pc - Start(d)), Stored(d, q) \in 0 .. 7,
         q \in A0Kept(d) => pc - Start(d) \in A0Kept(d) /\ reg'["a0"] = reg["a0"],
         q \in K0Kept(d) => pc - Start(d) \in K0Kept(d) /\ reg'["k0"] = reg["k0"],
         reg'["sp"] = reg["sp"], \A e \in Kept : reg'[e] = reg[e],
         Body(d, q, b, reg'), Untouched
  PROVE  Control(d, b)
<1> DEFINE o == pc - Start(d)
<1>1. /\ TypeOK /\ d \in Devices /\ b \in Frames
      /\ HandlerOK(mem, d, b, pc, reg)
      /\ Floor <= b.reg["sp"] - 7 /\ b.reg["sp"] <= Top
  BY DEF Ready
<1>2. pc' - Start(d) = q /\ pc' \in Int /\ b.reg["sp"] \in Int
  BY <1>1, OffsetFacts DEF TypeOK
<1>3. /\ reg["sp"] = b.reg["sp"] - Pushed(d, o)
      /\ StackOK(mem, d, b, Stored(d, o))
      /\ \A e \in Kept : reg[e] = b.reg[e]
      /\ o \in A0Kept(d) => reg["a0"] = b.reg["a0"]
      /\ o \in K0Kept(d) => reg["k0"] = b.pc
  BY <1>1 DEF HandlerOK
<1>4. StackOK(mem', d, b, Stored(d, q))
  <2> SUFFICES ASSUME NEW i \in 1 .. Stored(d, q)
               PROVE  /\ b.reg["sp"] - i \in DOMAIN mem'
                      /\ mem'[b.reg["sp"] - i] = Entered(b, Slots(d)[i])
    BY DEF StackOK
  <2>1. /\ b.reg["sp"] - i \in DOMAIN mem
        /\ mem[b.reg["sp"] - i] = Entered(b, Slots(d)[i])
    BY <1>3 DEF StackOK
  <2>2. Floor <= b.reg["sp"] - i /\ b.reg["sp"] - i < Top
    <3>1. i \in 1 .. 7
      OBVIOUS
    <3> QED BY <1>1, <1>2, <3>1, RoomFacts
  <2> QED BY <2>1, <2>2 DEF Untouched
<1>5. HandlerOK(mem', d, b, pc', reg')
  <2> HIDE DEF o
  <2>1. o = pc - Start(d)
    BY DEF o
  <2>2. /\ reg'["sp"] = b.reg["sp"] - Pushed(d, q)
        /\ \A e \in Kept : reg'[e] = b.reg[e]
        /\ q \in A0Kept(d) => reg'["a0"] = b.reg["a0"]
        /\ q \in K0Kept(d) => reg'["k0"] = b.pc
    BY <1>3, <2>1
  <2> QED BY <1>2, <1>4, <2>2 DEF HandlerOK
<1>6. Spares(b)
  <2>1. \A a \in DOMAIN mem : a \in {1, 2} \/ (b.reg["sp"] <= a /\ a < Top) =>
           a < WordsAt \/ (Floor <= a /\ a < Top)
    <3>1. DOMAIN mem \subseteq Int
      BY <1>1 DEF TypeOK
    <3> QED BY <1>1, <1>2, <3>1, RoomFacts
  <2> QED BY <2>1 DEF Spares, Untouched
<1>7. ie' <=> Enabled(pc')
  BY <1>1, <1>2, EnabledIs
<1> QED BY <1>5, <1>6, <1>7 DEF Control

\* The steps that turn interrupts on and off.
LEMMA Switching ==
  ASSUME NEW d, NEW b, NEW most, Ready(d, b, most),
         pc - Start(d) \in IF d = "timer" THEN {2, 51} ELSE {5, 33}
  PROVE  Control(d, b) /\ Data(d, most)
<1> DEFINE o == pc - Start(d)
<1>1. /\ TypeOK /\ Step /\ d \in Devices /\ b \in Frames
      /\ HandlerOK(mem, d, b, pc, reg) /\ most \in Nat
      /\ MemoryOK(mem, most) /\ reg["a1"] \in 0 .. most /\ PointerOK(reg["a2"])
      /\ PastStore(d, o) => reg["a2"] >= Top
  BY DEF Ready
<1>2. /\ d \in {"timer", "keyboard"} /\ Start(d) \in Int /\ pc \in Int
      /\ pc = Start(d) + o /\ (pc + 1) - Start(d) = o + 1 /\ o \in Int
  BY <1>1, OffsetFacts
<1>3. Fetch(pc) = IF o \in {2, 5} THEN Ei ELSE Di
  <2>1. CASE d = "timer"
    BY <1>2, <2>1, TimerCode DEF Start
  <2>2. CASE d = "keyboard"
    BY <1>1, <1>2, <2>2, KeyboardCode DEF Start
  <2> QED BY <1>2, <2>1, <2>2
<1>4. Ei # Di
  BY DEF Ei, Di
<1>5. /\ pc' = pc + 1 /\ ie' = (Fetch(pc) = Ei)
      /\ reg' = reg /\ mem' = mem /\ Counts' = Counts
  BY <1>1, <1>3, DoEnable
<1>6. TypeOK'
  BY <1>1, <1>5 DEF TypeOK, Counts
<1>7. /\ o + 1 \in 0 .. End(d) /\ Pushed(d, o + 1) = Pushed(d, o)
      /\ Stored(d, o + 1) = Stored(d, o) /\ Stored(d, o + 1) \in 0 .. 7
      /\ o + 1 \in A0Kept(d) => o \in A0Kept(d)
      /\ o + 1 \in K0Kept(d) => o \in K0Kept(d)
      /\ EnabledIn(d, o + 1) <=> o \in {2, 5}
  <2>1. CASE d = "timer"
    BY <1>2, <2>1 DEF End, Pushed, Stored, StoreAt, A0Kept, K0Kept, EnabledIn
  <2>2. CASE d = "keyboard"
    BY <1>2, <2>2 DEF End, Pushed, Stored, StoreAt, A0Kept, K0Kept, EnabledIn
  <2> QED BY <1>2, <2>1, <2>2
<1>8. Body(d, o + 1, b, reg')
  <2>2. Body(d, o, b, reg)
    BY <1>1 DEF HandlerOK
  <2>3. CASE d = "timer"
    BY <1>2, <2>3 DEF Body
  <2>4. CASE d = "keyboard"
    BY <1>2, <1>5, <2>2, <2>4 DEF Body
  <2> QED BY <1>2, <2>3, <2>4
<1>9. Untouched
  BY <1>5 DEF Untouched
<1>10. pc' = Start(d) + (o + 1)
  BY <1>2, <1>5
<1>11. ie' <=> EnabledIn(d, o + 1)
  BY <1>3, <1>4, <1>5, <1>7
<1>12. Control(d, b)
  BY <1>5, <1>6, <1>7, <1>8, <1>9, <1>10, <1>11, CalmControl
<1>13. /\ ~ AtStore(d, o) /\ ~ PastStore(d, o + 1) /\ ~ Adds(d, o)
       /\ Owing(d, o + 1) <=> Owing(d, o)
       /\ d = "keyboard" => o + 1 \notin 0 .. 4
  <2>1. CASE d = "timer"
    BY <1>2, <2>1 DEF AtStore, PastStore, Adds, Owing
  <2>2. CASE d = "keyboard"
    BY <1>2, <2>2 DEF AtStore, PastStore, Adds, Owing
  <2> QED BY <1>2, <2>1, <2>2
<1>14. pc' - Start(d) = o + 1
  BY <1>2, <1>5
<1>15. Data(d, most)
  BY <1>1, <1>5, <1>13, <1>14 DEF Data
<1> QED BY <1>12, <1>15

-----------------------------------------------------------------------------
(* The timer handler between its saves and its restores.                   *)

\* A step of the timer handler from its instruction o to q, between its saves
\* and its restores.
LEMMA TimerCalm ==
  ASSUME NEW b, NEW most, Ready("timer", b, most), pc - TimerAt \in 15 .. 38,
         NEW q \in 16 .. 39, pc' = TimerAt + q, TypeOK', Counts' = Counts, ie' = ie,
         \A e \in Registers : e \in {"a0", "a1", "a3"} \/ reg'[e] = reg[e],
         Untouched, Body("timer", q, b, reg'),
         LET more == IF Adds("timer", pc - TimerAt) THEN most + 1 ELSE most IN
           reg'["a1"] \in 0 .. more /\ MemoryOK(mem', more),
         Owing("timer", q) <=> (Owing("timer", pc - TimerAt)
                                  /\ ~ Adds("timer", pc - TimerAt))
  PROVE  Control("timer", b) /\ Data("timer", most)
<1> DEFINE d == "timer"
           o == pc - TimerAt
<1>1. /\ TypeOK /\ d \in Devices /\ b \in Frames /\ (ie <=> Enabled(pc))
      /\ HandlerOK(mem, d, b, pc, reg) /\ PointerOK(reg["a2"]) /\ most \in Nat
  BY DEF Ready
<1>2. Start(d) = TimerAt /\ End(d) = 54 /\ TimerAt \in Nat
  BY AddressFacts DEF Start, End
<1>3. /\ Kept \subseteq Registers /\ "sp" \in Registers /\ "a2" \in Registers
      /\ \A e \in Kept : e \notin {"a0", "a1", "a3"}
  BY DEF Kept, Registers
<1>4. reg'["sp"] = reg["sp"] /\ reg'["a2"] = reg["a2"] /\ \A e \in Kept : reg'[e] = reg[e]
  BY <1>3
<1>5. /\ Pushed(d, q) = 7 /\ Pushed(d, o) = 7 /\ Stored(d, q) = 7 /\ Stored(d, o) = 7
      /\ q \notin A0Kept(d) /\ q \notin K0Kept(d) /\ EnabledIn(d, q) /\ EnabledIn(d, o)
      /\ q \in 0 .. 54 /\ o \in 0 .. 54
  BY DEF Pushed, Stored, StoreAt, A0Kept, K0Kept, EnabledIn
<1>6. ie' <=> EnabledIn(d, q)
  BY <1>1, <1>2, <1>5, EnabledIs DEF TypeOK
<1> HIDE DEF o
<1>7. Control(d, b)
  <2>1. q \in 0 .. End(d) /\ pc' = Start(d) + q /\ pc - Start(d) = o
    BY <1>2, <1>5 DEF o
  <2>2. Pushed(d, q) = Pushed(d, o) /\ Stored(d, q) = Stored(d, o) /\ Stored(d, q) \in 0 .. 7
    BY <1>5
  <2> QED BY <1>4, <1>5, <1>6, <2>1, <2>2, CalmControl
<1>8. /\ pc' - Start(d) = q /\ pc - Start(d) = o
      /\ ~ AtStore(d, o) /\ ~ PastStore(d, q)
  BY <1>2 DEF o, AtStore, PastStore
<1>9. Data(d, most)
  BY <1>1, <1>4, <1>8 DEF Data, o
<1> QED BY <1>7, <1>9

\* What the proofs about these instructions share.
LEMMA TimerThere ==
  ASSUME NEW b, NEW most, Ready("timer", b, most), pc - TimerAt \in 15 .. 38
  PROVE  /\ TypeOK /\ Step /\ most \in Nat /\ most < Floor /\ WordsAt + 4 <= most
         /\ MemoryOK(mem, most) /\ reg["a1"] \in 0 .. most
         /\ pc = TimerAt + (pc - TimerAt) /\ pc + 1 = TimerAt + (pc - TimerAt + 1)
         /\ pc - TimerAt \in Int
         /\ pc - TimerAt = 16 => reg["a0"] = WordsAt + 1
         /\ pc - TimerAt = 26 => reg["a0"] = WordsAt + 2
         /\ pc - TimerAt = 35 => reg["a0"] = WordsAt + 3
         /\ pc - TimerAt \in 17 .. 24 \cup 27 .. 33 \cup 36 .. 38 => reg["a0"] >= Top
<1>1. /\ TypeOK /\ Step /\ most \in Nat /\ most < Floor /\ WordsAt + 4 <= most
      /\ MemoryOK(mem, most) /\ reg["a1"] \in 0 .. most
      /\ HandlerOK(mem, "timer", b, pc, reg)
  BY DEF Ready
<1>2. Start("timer") = TimerAt /\ TimerAt \in Nat /\ pc \in Int
  BY <1>1, AddressFacts DEF Start, TypeOK
<1>3. Body("timer", pc - TimerAt, b, reg)
  BY <1>1, <1>2 DEF HandlerOK
<1> QED BY <1>1, <1>2, <1>3 DEF Body

LEMMA TimerAddress ==
  ASSUME NEW b, NEW most, Ready("timer", b, most), pc - TimerAt \in {15, 25, 34}
  PROVE  Control("timer", b) /\ Data("timer", most)
<1> DEFINE o == pc - TimerAt
           l == IF o = 15 THEN "seconds" ELSE IF o = 25 THEN "minutes" ELSE "hours"
<1>0. o \in 15 .. 38
  OBVIOUS
<1>1. /\ TypeOK /\ Step /\ most \in Nat /\ pc = TimerAt + o /\ pc + 1 = TimerAt + (o + 1)
      /\ MemoryOK(mem, most) /\ reg["a1"] \in 0 .. most
  BY <1>0, TimerThere
<1>2. Fetch(pc) = La("a0", l)
  BY <1>1, TimerCode
<1>3. /\ Labels[l] = IF o = 15 THEN WordsAt + 1 ELSE IF o = 25 THEN WordsAt + 2 ELSE WordsAt + 3
      /\ Labels[l] \in Int
  BY Addresses, AddressFacts
<1>4. "a0" \in Registers /\ "a0" # "zero" /\ "a1" \in Registers
  BY DEF Registers
<1>5. Computes("a0", Labels[l])
  <2> HIDE DEF l
  <2> QED BY <1>1, <1>2, <1>3, <1>4, DoLa
<1>6. TypeOK'
  BY <1>1, <1>5, ComputesType
<1>7. /\ pc' = TimerAt + (o + 1) /\ Counts' = Counts /\ ie' = ie /\ mem' = mem
      /\ \A e \in Registers : e \in {"a0", "a1", "a3"} \/ reg'[e] = reg[e]
      /\ reg'["a0"] = Labels[l] /\ reg'["a1"] = reg["a1"]
  BY <1>1, <1>4, <1>5 DEF Computes
<1>8. Body("timer", o + 1, b, reg')
  BY <1>3, <1>7 DEF Body
<1>9. Untouched
  BY <1>7 DEF Untouched
<1>10. /\ o + 1 \in 16 .. 39 /\ ~ Adds("timer", o)
       /\ Owing("timer", o + 1) <=> (Owing("timer", o) /\ ~ Adds("timer", o))
  BY DEF Adds, Owing
<1> HIDE DEF l
<1> QED BY <1>0, <1>1, <1>6, <1>7, <1>8, <1>9, <1>10, TimerCalm

LEMMA TimerPointer ==
  ASSUME NEW b, NEW most, Ready("timer", b, most), pc - TimerAt \in {16, 26, 35}
  PROVE  Control("timer", b) /\ Data("timer", most)
<1> DEFINE o == pc - TimerAt
<1>0. o \in 15 .. 38
  OBVIOUS
<1>1. /\ TypeOK /\ Step /\ most \in Nat /\ pc = TimerAt + o /\ pc + 1 = TimerAt + (o + 1)
      /\ MemoryOK(mem, most) /\ reg["a1"] \in 0 .. most
      /\ o = 16 => reg["a0"] = WordsAt + 1
      /\ o = 26 => reg["a0"] = WordsAt + 2
      /\ o = 35 => reg["a0"] = WordsAt + 3
  BY <1>0, TimerThere
<1>2. Fetch(pc) = Lw("a0", "a0", 0)
  BY <1>1, TimerCode
<1>3. "a0" \in Registers /\ "a0" # "zero" /\ "a1" \in Registers
  BY DEF Registers
<1>4. Computes("a0", Load(reg["a0"] + 0))
  BY <1>1, <1>2, <1>3, DoLw
<1>5. Load(reg["a0"] + 0) >= Top
  <2>1. PICK n \in 1 .. 3 : reg["a0"] + 0 = WordsAt + n
    <3>1. WordsAt \in Nat
      BY RoomFacts
    <3> QED BY <1>1, <3>1
  <2>2. WordsAt + n \in DOMAIN mem /\ WordsAt <= WordsAt + n /\ WordsAt + n < Floor
    <3>1. n \in 0 .. 4
      OBVIOUS
    <3> QED BY <1>1, <3>1, RoomFacts DEF MemoryOK
  <2>3. mem[WordsAt + n] >= Top
    BY <1>1, <2>2 DEF MemoryOK
  <2> QED BY <2>1, <2>2, <2>3 DEF Load
<1>6. TypeOK'
  BY <1>1, <1>4, ComputesType
<1>7. /\ pc' = TimerAt + (o + 1) /\ Counts' = Counts /\ ie' = ie /\ mem' = mem
      /\ \A e \in Registers : e \in {"a0", "a1", "a3"} \/ reg'[e] = reg[e]
      /\ reg'["a0"] >= Top /\ reg'["a1"] = reg["a1"]
  BY <1>1, <1>3, <1>4, <1>5 DEF Computes
<1>8. Body("timer", o + 1, b, reg')
  BY <1>7 DEF Body
<1>9. Untouched
  BY <1>7 DEF Untouched
<1>10. /\ o + 1 \in 16 .. 39 /\ ~ Adds("timer", o)
       /\ Owing("timer", o + 1) <=> (Owing("timer", o) /\ ~ Adds("timer", o))
  BY DEF Adds, Owing
<1> QED BY <1>0, <1>1, <1>6, <1>7, <1>8, <1>9, <1>10, TimerCalm

\* The instructions that compute a1 or a3: q is the next one.
LEMMA TimerCell ==
  ASSUME NEW b, NEW most, Ready("timer", b, most), pc - TimerAt \in {17, 27, 36}
  PROVE  Control("timer", b) /\ Data("timer", most)
<1> DEFINE o == pc - TimerAt
<1>0. o \in 15 .. 38
  OBVIOUS
<1>1. /\ TypeOK /\ Step /\ most \in Nat /\ pc = TimerAt + o /\ pc + 1 = TimerAt + (o + 1)
      /\ MemoryOK(mem, most) /\ reg["a0"] >= Top
  BY <1>0, TimerThere
<1>2. Fetch(pc) = Lw("a1", "a0", 0)
  BY <1>1, TimerCode
<1>3. "a0" \in Registers /\ "a0" # "zero" /\ "a1" \in Registers /\ "a1" # "zero"
  BY DEF Registers
<1>4. Computes("a1", Load(reg["a0"] + 0))
  BY <1>1, <1>2, <1>3, DoLw
<1>5. Load(reg["a0"] + 0) \in 0 .. most
  <2>1. reg["a0"] + 0 \in Int /\ reg["a0"] + 0 >= Top
    BY <1>1, <1>3 DEF TypeOK
  <2> QED BY <1>1, <2>1 DEF Load, MemoryOK
<1>6. TypeOK'
  BY <1>1, <1>4, ComputesType
<1>7. /\ pc' = TimerAt + (o + 1) /\ Counts' = Counts /\ ie' = ie /\ mem' = mem
      /\ \A e \in Registers : e \in {"a0", "a1", "a3"} \/ reg'[e] = reg[e]
      /\ reg'["a0"] = reg["a0"] /\ reg'["a1"] \in 0 .. most
  BY <1>1, <1>3, <1>4, <1>5 DEF Computes
<1>8. Body("timer", o + 1, b, reg')
  BY <1>1, <1>7 DEF Body
<1>9. Untouched
  BY <1>7 DEF Untouched
<1>10. /\ o + 1 \in 16 .. 39 /\ ~ Adds("timer", o)
       /\ Owing("timer", o + 1) <=> (Owing("timer", o) /\ ~ Adds("timer", o))
  BY DEF Adds, Owing
<1> QED BY <1>0, <1>1, <1>6, <1>7, <1>8, <1>9, <1>10, TimerCalm

LEMMA TimerLimit ==
  ASSUME NEW b, NEW most, Ready("timer", b, most), pc - TimerAt = 18
  PROVE  Control("timer", b) /\ Data("timer", most)
<1> DEFINE o == pc - TimerAt
<1>0. o \in 15 .. 38 /\ o = 18
  OBVIOUS
<1>1. /\ TypeOK /\ Step /\ most \in Nat /\ pc = TimerAt + o /\ pc + 1 = TimerAt + (o + 1)
      /\ MemoryOK(mem, most) /\ reg["a0"] >= Top /\ reg["a1"] \in 0 .. most
  BY <1>0, TimerThere
<1>2. Fetch(pc) = Addi("a3", "zero", Limit)
  BY <1>1, TimerCode
<1>3. /\ "a0" \in Registers /\ "a1" \in Registers /\ "a3" \in Registers /\ "a3" # "zero"
      /\ "zero" \in Registers /\ Limit \in Int
  BY RoomFacts DEF Registers
<1>4. Computes("a3", reg["zero"] + Limit)
  BY <1>1, <1>2, <1>3, DoAddi
<1>6. TypeOK'
  BY <1>1, <1>4, ComputesType
<1>7. /\ pc' = TimerAt + (o + 1) /\ Counts' = Counts /\ ie' = ie /\ mem' = mem
      /\ \A e \in Registers : e \in {"a0", "a1", "a3"} \/ reg'[e] = reg[e]
      /\ reg'["a0"] = reg["a0"] /\ reg'["a1"] = reg["a1"]
  BY <1>1, <1>3, <1>4 DEF Computes
<1>8. Body("timer", o + 1, b, reg')
  BY <1>1, <1>7 DEF Body
<1>9. Untouched
  BY <1>7 DEF Untouched
<1>10. /\ o + 1 \in 16 .. 39 /\ ~ Adds("timer", o)
       /\ Owing("timer", o + 1) <=> (Owing("timer", o) /\ ~ Adds("timer", o))
  BY DEF Adds, Owing
<1> QED BY <1>0, <1>1, <1>6, <1>7, <1>8, <1>9, <1>10, TimerCalm

LEMMA TimerCompare ==
  ASSUME NEW b, NEW most, Ready("timer", b, most), pc - TimerAt \in {19, 28}
  PROVE  Control("timer", b) /\ Data("timer", most)
<1> DEFINE o == pc - TimerAt
           l == IF o = 19 THEN "inc_minutes" ELSE "inc_hours"
           q == IF reg["a1"] = reg["a3"] THEN o + 4 ELSE o + 1
<1>0. o \in 15 .. 38 /\ o \in {19, 28}
  OBVIOUS
<1>1. /\ TypeOK /\ Step /\ most \in Nat /\ pc = TimerAt + o /\ pc + 1 = TimerAt + (o + 1)
      /\ MemoryOK(mem, most) /\ reg["a1"] \in 0 .. most /\ reg["a0"] >= Top
  BY <1>0, TimerThere
<1>2. Fetch(pc) = Beq("a1", "a3", l)
  BY <1>1, TimerCode
<1>3. "a0" \in Registers /\ "a1" \in Registers /\ "a3" \in Registers
  BY DEF Registers
<1>4. Goes(IF reg["a1"] = reg["a3"] THEN Labels[l] ELSE pc + 1)
  <2> HIDE DEF l
  <2> QED BY <1>1, <1>2, <1>3, DoBeq
<1>5. TimerAt \in Nat /\ Labels[l] = TimerAt + (o + 4)
  BY Addresses, AddressFacts
<1> HIDE DEF l, o
<1>6. Goes(TimerAt + q)
  BY <1>1, <1>4, <1>5
<1>7. q \in 16 .. 39 /\ q \in {20, 29, 23, 32}
  BY <1>0
<1>8. TypeOK'
  <2>1. TimerAt + q \in Int
    BY <1>5, <1>7
  <2> QED BY <1>1, <1>6, <2>1, GoesType
<1> HIDE DEF q
<1>9. /\ pc' = TimerAt + q /\ Counts' = Counts /\ ie' = ie /\ mem' = mem /\ reg' = reg
  BY <1>6 DEF Goes
<1>10. Body("timer", q, b, reg')
  BY <1>1, <1>7, <1>9 DEF Body
<1>11. Untouched
  BY <1>9 DEF Untouched
<1>12. /\ ~ Adds("timer", o)
       /\ Owing("timer", q) <=> (Owing("timer", o) /\ ~ Adds("timer", o))
  BY <1>0, <1>7 DEF Adds, Owing
<1> QED BY <1>0, <1>1, <1>7, <1>8, <1>9, <1>10, <1>11, <1>12, TimerCalm DEF o

LEMMA TimerAdds ==
  ASSUME NEW b, NEW most, Ready("timer", b, most), pc - TimerAt \in {20, 29, 37}
  PROVE  Control("timer", b) /\ Data("timer", most)
<1> DEFINE o == pc - TimerAt
<1>0. o \in 15 .. 38
  OBVIOUS
<1>1. /\ TypeOK /\ Step /\ most \in Nat /\ pc = TimerAt + o /\ pc + 1 = TimerAt + (o + 1)
      /\ MemoryOK(mem, most) /\ reg["a1"] \in 0 .. most /\ reg["a0"] >= Top
  BY <1>0, TimerThere
<1>2. Fetch(pc) = Addi("a1", "a1", 1)
  BY <1>1, TimerCode
<1>3. "a0" \in Registers /\ "a1" \in Registers /\ "a1" # "zero"
  BY DEF Registers
<1>4. Computes("a1", reg["a1"] + 1)
  BY <1>1, <1>2, <1>3, DoAddi
<1>6. TypeOK'
  BY <1>1, <1>4, ComputesType
<1>7. /\ pc' = TimerAt + (o + 1) /\ Counts' = Counts /\ ie' = ie /\ mem' = mem
      /\ \A e \in Registers : e \in {"a0", "a1", "a3"} \/ reg'[e] = reg[e]
      /\ reg'["a0"] = reg["a0"] /\ reg'["a1"] \in 0 .. most + 1
  BY <1>1, <1>3, <1>4 DEF Computes
<1>8. Body("timer", o + 1, b, reg')
  BY <1>1, <1>7 DEF Body
<1>9. Untouched
  BY <1>7 DEF Untouched
<1>10. /\ o + 1 \in 16 .. 39 /\ Adds("timer", o)
       /\ Owing("timer", o + 1) <=> (Owing("timer", o) /\ ~ Adds("timer", o))
  BY DEF Adds, Owing
<1>11. MemoryOK(mem', most + 1)
  BY <1>1, <1>7, MemoryMore
<1> QED BY <1>0, <1>1, <1>6, <1>7, <1>8, <1>9, <1>10, <1>11, TimerCalm

LEMMA TimerStores ==
  ASSUME NEW b, NEW most, Ready("timer", b, most), pc - TimerAt \in {21, 24, 30, 33, 38}
  PROVE  Control("timer", b) /\ Data("timer", most)
<1> DEFINE o == pc - TimerAt
<1>0. o \in 15 .. 38
  OBVIOUS
<1>1. /\ TypeOK /\ Step /\ most \in Nat /\ pc = TimerAt + o /\ pc + 1 = TimerAt + (o + 1)
      /\ MemoryOK(mem, most) /\ reg["a1"] \in 0 .. most /\ reg["a0"] >= Top
  BY <1>0, TimerThere
<1>2. Fetch(pc) = Sw("a1", "a0", 0)
  BY <1>1, TimerCode
<1>3. "a0" \in Registers /\ "a1" \in Registers /\ "a0" # "zero"
  BY DEF Registers
<1>4. Stores(reg["a0"] + 0, reg["a1"])
  BY <1>1, <1>2, <1>3, DoSw
<1>5. reg["a0"] + 0 \in Int /\ reg["a0"] + 0 >= Top /\ reg["a1"] \in Int
  BY <1>1, <1>3 DEF TypeOK
<1>6. TypeOK'
  BY <1>1, <1>4, <1>5, StoresType
<1>7. /\ pc' = TimerAt + (o + 1) /\ Counts' = Counts /\ ie' = ie /\ reg' = reg
  BY <1>1, <1>4 DEF Stores
<1>8. Body("timer", o + 1, b, reg')
  BY <1>1, <1>7 DEF Body
<1>9. MemoryOK(mem', most) /\ Untouched
  BY <1>1, <1>4, <1>5, StoreAway
<1>10. /\ o + 1 \in 16 .. 39 /\ ~ Adds("timer", o)
       /\ Owing("timer", o + 1) <=> (Owing("timer", o) /\ ~ Adds("timer", o))
  BY DEF Adds, Owing
<1> QED BY <1>0, <1>1, <1>6, <1>7, <1>8, <1>9, <1>10, TimerCalm

LEMMA TimerLeaves ==
  ASSUME NEW b, NEW most, Ready("timer", b, most), pc - TimerAt \in {22, 31}
  PROVE  Control("timer", b) /\ Data("timer", most)
<1> DEFINE o == pc - TimerAt
<1>0. o \in 15 .. 38
  OBVIOUS
<1>1. /\ TypeOK /\ Step /\ most \in Nat /\ pc = TimerAt + o
      /\ MemoryOK(mem, most) /\ reg["a1"] \in 0 .. most
  BY <1>0, TimerThere
<1>2. Fetch(pc) = Goto("clean_up")
  BY <1>1, TimerCode
<1>3. Goes(TimerAt + 39)
  BY <1>1, <1>2, DoGoto, Addresses
<1>4. TypeOK'
  <2>1. TimerAt + 39 \in Int
    BY AddressFacts
  <2> QED BY <1>1, <1>3, <2>1, GoesType
<1>5. pc' = TimerAt + 39 /\ Counts' = Counts /\ ie' = ie /\ mem' = mem /\ reg' = reg
  BY <1>3 DEF Goes
<1>6. Body("timer", 39, b, reg')
  BY DEF Body
<1>7. Untouched
  BY <1>5 DEF Untouched
<1>8. /\ ~ Adds("timer", o)
      /\ Owing("timer", 39) <=> (Owing("timer", o) /\ ~ Adds("timer", o))
  BY DEF Adds, Owing
<1>9. 39 \in 16 .. 39
  OBVIOUS
<1> QED BY <1>0, <1>1, <1>4, <1>5, <1>6, <1>7, <1>8, <1>9, TimerCalm

LEMMA TimerClears ==
  ASSUME NEW b, NEW most, Ready("timer", b, most), pc - TimerAt \in {23, 32}
  PROVE  Control("timer", b) /\ Data("timer", most)
<1> DEFINE o == pc - TimerAt
<1>0. o \in 15 .. 38
  OBVIOUS
<1>1. /\ TypeOK /\ Step /\ most \in Nat /\ pc = TimerAt + o /\ pc + 1 = TimerAt + (o + 1)
      /\ MemoryOK(mem, most) /\ reg["a0"] >= Top
  BY <1>0, TimerThere
<1>2. Fetch(pc) = Add("a1", "zero", "zero")
  BY <1>1, TimerCode
<1>3. "a0" \in Registers /\ "a1" \in Registers /\ "a1" # "zero" /\ "zero" \in Registers
  BY DEF Registers
<1>4. Computes("a1", reg["zero"] + reg["zero"])
  BY <1>1, <1>2, <1>3, DoAdd
<1>5. reg["zero"] + reg["zero"] \in 0 .. most
  BY <1>1 DEF TypeOK
<1>6. TypeOK'
  BY <1>1, <1>4, ComputesType
<1>7. /\ pc' = TimerAt + (o + 1) /\ Counts' = Counts /\ ie' = ie /\ mem' = mem
      /\ \A e \in Registers : e \in {"a0", "a1", "a3"} \/ reg'[e] = reg[e]
      /\ reg'["a0"] = reg["a0"] /\ reg'["a1"] \in 0 .. most
  BY <1>1, <1>3, <1>4, <1>5 DEF Computes
<1>8. Body("timer", o + 1, b, reg')
  BY <1>1, <1>7 DEF Body
<1>9. Untouched
  BY <1>7 DEF Untouched
<1>10. /\ o + 1 \in 16 .. 39 /\ ~ Adds("timer", o)
       /\ Owing("timer", o + 1) <=> (Owing("timer", o) /\ ~ Adds("timer", o))
  BY DEF Adds, Owing
<1> QED BY <1>0, <1>1, <1>6, <1>7, <1>8, <1>9, <1>10, TimerCalm

LEMMA TimerDone ==
  ASSUME NEW b, NEW most, Ready("timer", b, most), pc - TimerAt # 54
  PROVE  Control("timer", b) /\ Data("timer", most)
<1>1. HandlerOK(mem, "timer", b, pc, reg) /\ Start("timer") = TimerAt /\ End("timer") = 54
  BY DEF Ready, Start, End
<1>2. pc - TimerAt \in 0 .. 54 /\ pc - Start("timer") = pc - TimerAt
  BY <1>1 DEF HandlerOK
<1> DEFINE o == pc - TimerAt
<1> HIDE DEF o
<1>3. \/ o \in StackAt("timer") \/ o \in {2, 51} \/ o \in {15, 25, 34}
      \/ o \in {16, 26, 35} \/ o \in {17, 27, 36} \/ o = 18 \/ o \in {19, 28}
      \/ o \in {20, 29, 37} \/ o \in {21, 24, 30, 33, 38} \/ o \in {22, 31} \/ o \in {23, 32}
  <2>1. o \in 0 .. 54 /\ o # 54
    BY <1>2 DEF o
  <2> QED BY <2>1 DEF StackAt, PushAt, StoreAt, LoadAt, PopAt
<1>4. CASE o \in StackAt("timer")
  BY <1>2, <1>4, OnStackDone DEF o
<1>5. CASE o \in {2, 51}
  BY <1>2, <1>5, Switching DEF o
<1> QED
  BY <1>3, <1>4, <1>5, TimerAddress, TimerPointer, TimerCell, TimerLimit, TimerCompare,
     TimerAdds, TimerStores, TimerLeaves, TimerClears DEF o

-----------------------------------------------------------------------------
(* The keyboard handler between its saves and its restores.                *)

LEMMA KeyboardCalm ==
  ASSUME NEW b, NEW most, Ready("keyboard", b, most),
         NEW o \in {4} \cup 16 .. 20, pc - KeyboardAt = o, pc' = KeyboardAt + (o + 1),
         TypeOK', Counts' = Counts, ie' = ie,
         \A e \in Registers : e \in {"a0", "a1", "a2"} \/ reg'[e] = reg[e],
         Untouched, reg'["a0"] = b.key, reg'["a1"] \in 0 .. most,
         MemoryOK(mem', most), PointerOK(reg'["a2"]),
         \/ reg'["a2"] >= Top
         \/ o = 17
         \/ reg'["a2"] = reg["a2"] /\ o # 18 /\ o + 1 \notin 19 .. 20
  PROVE  Control("keyboard", b) /\ Data("keyboard", most)
<1> DEFINE d == "keyboard"
<1>1. /\ TypeOK /\ d \in Devices /\ b \in Frames /\ (ie <=> Enabled(pc))
      /\ HandlerOK(mem, d, b, pc, reg) /\ most \in Nat
  BY DEF Ready
<1>2. Start(d) = KeyboardAt /\ End(d) = 36 /\ KeyboardAt \in Nat
  BY AddressFacts DEF Start, End
<1>3. /\ Kept \subseteq Registers /\ "sp" \in Registers
      /\ \A e \in Kept : e \notin {"a0", "a1", "a2"}
  BY DEF Kept, Registers
<1>4. reg'["sp"] = reg["sp"] /\ \A e \in Kept : reg'[e] = reg[e]
  BY <1>3
<1> DEFINE q == o + 1
<1>5. /\ Pushed(d, q) = Pushed(d, o) /\ Stored(d, q) = Stored(d, o) /\ Stored(d, q) \in 0 .. 7
      /\ q \notin A0Kept(d) /\ q \notin K0Kept(d) /\ (EnabledIn(d, q) <=> EnabledIn(d, o))
      /\ q \in 0 .. 36 /\ o \in 0 .. 36
  BY DEF Pushed, Stored, StoreAt, A0Kept, K0Kept, EnabledIn
<1>6. ie' <=> EnabledIn(d, q)
  <2>1. Enabled(pc) <=> EnabledIn(d, o)
    BY <1>1, <1>2, <1>5, EnabledIs DEF TypeOK
  <2> QED BY <1>1, <1>5, <2>1
<1>7. Body(d, q, b, reg')
  BY DEF Body
<1>8. pc' = Start(d) + q /\ pc - Start(d) = o /\ pc' - Start(d) = q
  BY <1>2
<1>9. ~ Adds(d, o) /\ ~ Owing(d, o) /\ ~ Owing(d, q) /\ q \notin 0 .. 4
  BY DEF Adds, Owing
<1>10. /\ AtStore(d, q) <=> o = 17
       /\ AtStore(d, o) <=> o = 18
       /\ PastStore(d, q) <=> q \in 19 .. 20
  BY DEF AtStore, PastStore
<1> HIDE DEF q
<1>11. Control(d, b)
  <2>1. q \in 0 .. End(d)
    BY <1>2, <1>5
  <2> QED BY <1>4, <1>5, <1>6, <1>7, <1>8, <2>1, CalmControl
<1>12. Data(d, most)
  <2>1. PastStore(d, q) => reg'["a2"] >= Top
    BY <1>10 DEF q
  <2>2. \/ reg'["a2"] >= Top
        \/ AtStore(d, q)
        \/ reg'["a2"] = reg["a2"] /\ ~ AtStore(d, o)
    BY <1>10
  <2> QED BY <1>8, <1>9, <2>1, <2>2 DEF Data
<1> QED BY <1>11, <1>12

LEMMA KeyboardThere ==
  ASSUME NEW b, NEW most, Ready("keyboard", b, most), pc - KeyboardAt \in {4} \cup 16 .. 20
  PROVE  LET o == pc - KeyboardAt IN
         /\ TypeOK /\ Step /\ "keyboard" \in Devices
         /\ most \in Nat /\ most < Floor /\ WordsAt + 4 <= most
         /\ MemoryOK(mem, most) /\ reg["a1"] \in 0 .. most /\ PointerOK(reg["a2"])
         /\ pc = KeyboardAt + o /\ pc + 1 = KeyboardAt + (o + 1) /\ o \in Int
         /\ b.key \in Nat /\ b.key <= most
         /\ o = 4 => b.key = key
         /\ o # 4 => reg["a0"] = b.key
         /\ o \in 19 .. 20 => reg["a2"] >= Top
<1>1. /\ TypeOK /\ Step /\ "keyboard" \in Devices
      /\ most \in Nat /\ most < Floor /\ WordsAt + 4 <= most
      /\ MemoryOK(mem, most) /\ reg["a1"] \in 0 .. most /\ PointerOK(reg["a2"])
      /\ HandlerOK(mem, "keyboard", b, pc, reg) /\ b \in Frames /\ b.key <= most
  BY DEF Ready
<1>2. Start("keyboard") = KeyboardAt /\ KeyboardAt \in Nat /\ pc \in Int
  BY <1>1, AddressFacts DEF Start, TypeOK
<1>3. Body("keyboard", pc - KeyboardAt, b, reg)
  BY <1>1, <1>2 DEF HandlerOK
<1>4. b.key \in Nat
  BY <1>1, FrameFacts
<1>5. /\ pc - KeyboardAt = 4 => b.key = key
      /\ pc - KeyboardAt \in 19 .. 20 => reg["a2"] >= Top
  BY <1>2 DEF Ready, PastStore
<1>6. pc - KeyboardAt # 4 => reg["a0"] = b.key
  BY <1>3 DEF Body
<1> QED BY <1>1, <1>2, <1>4, <1>5, <1>6

LEMMA KeyboardReads ==
  ASSUME NEW b, NEW most, Ready("keyboard", b, most), pc - KeyboardAt = 4
  PROVE  Control("keyboard", b) /\ Data("keyboard", most)
<1> DEFINE o == pc - KeyboardAt
<1>0. o \in {4} \cup 16 .. 20 /\ o = 4
  OBVIOUS
<1>1. /\ TypeOK /\ Step /\ "keyboard" \in Devices
      /\ MemoryOK(mem, most) /\ reg["a1"] \in 0 .. most /\ PointerOK(reg["a2"])
      /\ pc = KeyboardAt + o /\ pc + 1 = KeyboardAt + (o + 1) /\ b.key = key
  BY <1>0, KeyboardThere
<1>2. Fetch(pc) = Bonj("a0")
  BY <1>1, KeyboardCode
<1>3. /\ "a0" \in Registers /\ "a0" # "zero" /\ "a1" \in Registers /\ "a2" \in Registers
  BY DEF Registers
<1>4. Computes("a0", key)
  BY <1>1, <1>2, <1>3, DoBonj
<1>5. TypeOK'
  BY <1>1, <1>4, ComputesType
<1>6. /\ pc' = KeyboardAt + (o + 1) /\ Counts' = Counts /\ ie' = ie /\ mem' = mem
      /\ \A e \in Registers : e \in {"a0", "a1", "a2"} \/ reg'[e] = reg[e]
      /\ reg'["a0"] = b.key /\ reg'["a1"] = reg["a1"] /\ reg'["a2"] = reg["a2"]
  BY <1>1, <1>3, <1>4 DEF Computes
<1>7. Untouched
  BY <1>6 DEF Untouched
<1>8. o + 1 \notin 19 .. 20 /\ o # 18
  OBVIOUS
<1> QED BY <1>0, <1>1, <1>5, <1>6, <1>7, <1>8, KeyboardCalm

LEMMA KeyboardAddress ==
  ASSUME NEW b, NEW most, Ready("keyboard", b, most), pc - KeyboardAt = 16
  PROVE  Control("keyboard", b) /\ Data("keyboard", most)
<1> DEFINE o == pc - KeyboardAt
<1>0. o \in {4} \cup 16 .. 20 /\ o = 16
  OBVIOUS
<1>1. /\ TypeOK /\ Step /\ "keyboard" \in Devices /\ most \in Nat /\ WordsAt + 4 <= most
      /\ MemoryOK(mem, most) /\ PointerOK(reg["a2"]) /\ reg["a0"] = b.key
      /\ pc = KeyboardAt + o /\ pc + 1 = KeyboardAt + (o + 1)
  BY <1>0, KeyboardThere
<1>2. Fetch(pc) = La("a1", "keyboard_out")
  BY <1>1, KeyboardCode
<1>3. /\ "a0" \in Registers /\ "a1" # "zero" /\ "a1" \in Registers /\ "a2" \in Registers
  BY DEF Registers
<1>4. Labels["keyboard_out"] = WordsAt + 4 /\ WordsAt \in Nat
  BY Addresses, AddressFacts
<1>5. Computes("a1", WordsAt + 4)
  <2>1. Labels["keyboard_out"] \in Int
    BY <1>4
  <2>2. Computes("a1", Labels["keyboard_out"])
    BY <1>1, <1>2, <1>3, <2>1, DoLa
  <2> QED BY <1>4, <2>2
<1>6. TypeOK'
  BY <1>1, <1>5, ComputesType
<1>7. /\ pc' = KeyboardAt + (o + 1) /\ Counts' = Counts /\ ie' = ie /\ mem' = mem
      /\ \A e \in Registers : e \in {"a0", "a1", "a2"} \/ reg'[e] = reg[e]
      /\ reg'["a0"] = b.key /\ reg'["a1"] = WordsAt + 4 /\ reg'["a2"] = reg["a2"]
  BY <1>1, <1>3, <1>5 DEF Computes
<1>8. Untouched
  BY <1>7 DEF Untouched
<1>9. o + 1 \notin 19 .. 20 /\ o # 18
  OBVIOUS
<1>10. reg'["a1"] \in 0 .. most
  BY <1>1, <1>4, <1>7
<1> QED BY <1>0, <1>1, <1>6, <1>7, <1>8, <1>9, <1>10, KeyboardCalm

\* The pointer is read through a1, which the timer handler may have changed: it
\* is then below the code, or among the words and points above the stack.
LEMMA KeyboardPointer ==
  ASSUME NEW b, NEW most, Ready("keyboard", b, most), pc - KeyboardAt = 17
  PROVE  Control("keyboard", b) /\ Data("keyboard", most)
<1> DEFINE o == pc - KeyboardAt
<1>0. o \in {4} \cup 16 .. 20 /\ o = 17
  OBVIOUS
<1>1. /\ TypeOK /\ Step /\ "keyboard" \in Devices /\ most \in Nat /\ most < Floor
      /\ MemoryOK(mem, most) /\ reg["a0"] = b.key /\ reg["a1"] \in 0 .. most
      /\ pc = KeyboardAt + o /\ pc + 1 = KeyboardAt + (o + 1)
  BY <1>0, KeyboardThere
<1>2. Fetch(pc) = Lw("a2", "a1", 0)
  BY <1>1, KeyboardCode
<1>3. /\ "a0" \in Registers /\ "a1" # "zero" /\ "a1" \in Registers
      /\ "a2" \in Registers /\ "a2" # "zero"
  BY DEF Registers
<1>4. /\ Computes("a2", Load(reg["a1"] + 0))
      /\ reg["a1"] + 0 < 16 \/ WordsAt <= reg["a1"] + 0
  BY <1>1, <1>2, <1>3, DoLw
<1>5. PointerOK(Load(reg["a1"] + 0))
  <2>1. /\ WordsAt \in Nat /\ 99 <= WordsAt /\ Floor \in Nat /\ reg["a1"] + 0 \in Int
        /\ reg["a1"] + 0 < WordsAt \/ (WordsAt <= reg["a1"] + 0 /\ reg["a1"] + 0 < Floor)
    BY <1>1, <1>4, RoomFacts
  <2> QED BY <1>1, <2>1 DEF Load, MemoryOK, PointerOK
<1>6. TypeOK'
  BY <1>1, <1>4, ComputesType
<1>7. /\ pc' = KeyboardAt + (o + 1) /\ Counts' = Counts /\ ie' = ie /\ mem' = mem
      /\ \A e \in Registers : e \in {"a0", "a1", "a2"} \/ reg'[e] = reg[e]
      /\ reg'["a0"] = b.key /\ reg'["a1"] = reg["a1"] /\ PointerOK(reg'["a2"])
  BY <1>1, <1>3, <1>4, <1>5 DEF Computes
<1>8. Untouched
  BY <1>7 DEF Untouched
<1> QED BY <1>0, <1>1, <1>6, <1>7, <1>8, KeyboardCalm

\* The store of the character: the program stops unless a2 points above the
\* stack.
LEMMA KeyboardStores ==
  ASSUME NEW b, NEW most, Ready("keyboard", b, most), pc - KeyboardAt = 18
  PROVE  Control("keyboard", b) /\ Data("keyboard", most)
<1> DEFINE o == pc - KeyboardAt
<1>0. o \in {4} \cup 16 .. 20 /\ o = 18
  OBVIOUS
<1>1. /\ TypeOK /\ Step /\ "keyboard" \in Devices /\ most \in Nat
      /\ MemoryOK(mem, most) /\ reg["a0"] = b.key /\ b.key \in Nat /\ b.key <= most
      /\ reg["a1"] \in 0 .. most /\ PointerOK(reg["a2"])
      /\ pc = KeyboardAt + o /\ pc + 1 = KeyboardAt + (o + 1)
  BY <1>0, KeyboardThere
<1>2. Fetch(pc) = Sw("a0", "a2", 0)
  BY <1>1, KeyboardCode
<1>3. "a0" \in Registers /\ "a2" # "zero" /\ "a2" \in Registers /\ reg["a2"] \in Int
  BY <1>1 DEF Registers, TypeOK
<1>4. Stores(reg["a2"] + 0, reg["a0"]) /\ WordsAt <= reg["a2"] + 0
  BY <1>1, <1>2, <1>3, DoSw
<1>5. reg["a2"] >= Top /\ reg["a2"] + 0 = reg["a2"]
  BY <1>1, <1>3, <1>4, RoomFacts DEF PointerOK
<1>6. reg["a2"] + 0 \in Int /\ reg["a0"] \in Int /\ reg["a0"] \in 0 .. most
      /\ reg["a2"] + 0 >= Top
  BY <1>1, <1>3, <1>5
<1>7. TypeOK'
  BY <1>1, <1>4, <1>6, StoresType
<1>8. pc' = KeyboardAt + (o + 1) /\ Counts' = Counts /\ ie' = ie /\ reg' = reg
  BY <1>1, <1>4 DEF Stores
<1>9. MemoryOK(mem', most) /\ Untouched
  BY <1>1, <1>4, <1>6, StoreAway
<1> QED BY <1>0, <1>1, <1>5, <1>7, <1>8, <1>9, KeyboardCalm

LEMMA KeyboardAdds ==
  ASSUME NEW b, NEW most, Ready("keyboard", b, most), pc - KeyboardAt = 19
  PROVE  Control("keyboard", b) /\ Data("keyboard", most)
<1> DEFINE o == pc - KeyboardAt
<1>0. o \in {4} \cup 16 .. 20 /\ o = 19
  OBVIOUS
<1>1. /\ TypeOK /\ Step /\ "keyboard" \in Devices
      /\ MemoryOK(mem, most) /\ reg["a0"] = b.key
      /\ reg["a1"] \in 0 .. most /\ reg["a2"] >= Top
      /\ pc = KeyboardAt + o /\ pc + 1 = KeyboardAt + (o + 1)
  BY <1>0, KeyboardThere
<1>2. Fetch(pc) = Addi("a2", "a2", 1)
  BY <1>1, KeyboardCode
<1>3. /\ "a0" \in Registers /\ "a1" \in Registers
      /\ "a2" \in Registers /\ "a2" # "zero" /\ reg["a2"] \in Int
  BY <1>1 DEF Registers, TypeOK
<1>4. Computes("a2", reg["a2"] + 1)
  BY <1>1, <1>2, <1>3, DoAddi
<1>5. TypeOK'
  BY <1>1, <1>4, ComputesType
<1>6. reg["a2"] + 1 >= Top
  BY <1>1, <1>3, RoomFacts
<1>7. /\ pc' = KeyboardAt + (o + 1) /\ Counts' = Counts /\ ie' = ie /\ mem' = mem
      /\ \A e \in Registers : e \in {"a0", "a1", "a2"} \/ reg'[e] = reg[e]
      /\ reg'["a0"] = b.key /\ reg'["a1"] = reg["a1"] /\ reg'["a2"] >= Top
  BY <1>1, <1>3, <1>4, <1>6 DEF Computes
<1>8. Untouched
  BY <1>7 DEF Untouched
<1> QED BY <1>0, <1>1, <1>5, <1>7, <1>8, KeyboardCalm DEF PointerOK

LEMMA KeyboardKeeps ==
  ASSUME NEW b, NEW most, Ready("keyboard", b, most), pc - KeyboardAt = 20
  PROVE  Control("keyboard", b) /\ Data("keyboard", most)
<1> DEFINE o == pc - KeyboardAt
<1>0. o \in {4} \cup 16 .. 20 /\ o = 20
  OBVIOUS
<1>1. /\ TypeOK /\ Step /\ "keyboard" \in Devices /\ most \in Nat /\ most < Floor
      /\ MemoryOK(mem, most) /\ reg["a0"] = b.key
      /\ reg["a1"] \in 0 .. most /\ reg["a2"] >= Top
      /\ pc = KeyboardAt + o /\ pc + 1 = KeyboardAt + (o + 1)
  BY <1>0, KeyboardThere
<1>2. Fetch(pc) = Sw("a2", "a1", 0)
  BY <1>1, KeyboardCode
<1>3. /\ "a1" \in Registers /\ "a2" \in Registers /\ "a1" # "zero"
      /\ reg["a1"] \in Int /\ reg["a2"] \in Int
  BY <1>1 DEF Registers, TypeOK
<1>4. Stores(reg["a1"] + 0, reg["a2"]) /\ WordsAt <= reg["a1"] + 0
  BY <1>1, <1>2, <1>3, DoSw
<1>5. reg["a1"] + 0 \in Int /\ reg["a1"] + 0 < Floor
  BY <1>1, <1>3, RoomFacts
<1>6. TypeOK'
  BY <1>1, <1>3, <1>4, <1>5, StoresType
<1>7. pc' = KeyboardAt + (o + 1) /\ Counts' = Counts /\ ie' = ie /\ reg' = reg
  BY <1>1, <1>4 DEF Stores
<1>8. MemoryOK(mem', most) /\ Untouched
  BY <1>1, <1>3, <1>4, <1>5, StoreAway
<1> QED BY <1>0, <1>1, <1>6, <1>7, <1>8, KeyboardCalm DEF PointerOK

LEMMA KeyboardDone ==
  ASSUME NEW b, NEW most, Ready("keyboard", b, most), pc - KeyboardAt # 36
  PROVE  Control("keyboard", b) /\ Data("keyboard", most)
<1>1. /\ HandlerOK(mem, "keyboard", b, pc, reg)
      /\ Start("keyboard") = KeyboardAt /\ End("keyboard") = 36
  BY DEF Ready, Start, End
<1>2. pc - KeyboardAt \in 0 .. 36 /\ pc - Start("keyboard") = pc - KeyboardAt
  BY <1>1 DEF HandlerOK
<1> DEFINE o == pc - KeyboardAt
<1> HIDE DEF o
<1>3. \/ o \in StackAt("keyboard") \/ o \in {5, 33} \/ o = 4 \/ o = 16 \/ o = 17
      \/ o = 18 \/ o = 19 \/ o = 20
  <2>1. o \in 0 .. 36 /\ o # 36
    BY <1>2 DEF o
  <2> QED BY <2>1 DEF StackAt, PushAt, StoreAt, LoadAt, PopAt
<1>4. CASE o \in StackAt("keyboard")
  BY <1>2, <1>4, OnStackDone DEF o
<1>5. CASE o \in {5, 33}
  BY <1>2, <1>5, Switching DEF o
<1> QED
  BY <1>3, <1>4, <1>5, KeyboardReads, KeyboardAddress, KeyboardPointer, KeyboardStores,
     KeyboardAdds, KeyboardKeeps DEF o

\* Every instruction of a handler but its last one.
LEMMA HandlerStep ==
  ASSUME NEW d, NEW b, NEW most, Ready(d, b, most), pc - Start(d) # End(d)
  PROVE  Control(d, b) /\ Data(d, most)
<1>1. d \in {"timer", "keyboard"}
  BY DevicesAssumption DEF Ready
<1>2. CASE d = "timer"
  BY <1>2, TimerDone DEF Start, End
<1>3. CASE d = "keyboard"
  BY <1>3, KeyboardDone DEF Start, End
<1> QED BY <1>1, <1>2, <1>3

-----------------------------------------------------------------------------
(* The inductive invariant.  Level 0 is the program and level k the k-th   *)
(* handler that is active; each is at an instruction of its own code, with its *)
(* frame on the stack below those of the levels it has interrupted.        *)

Depth == Len(active)

\* Where level k is: level 0 is the program, level k what has interrupted it.
LevelPc(k) == IF k < Depth THEN active[k + 1].pc ELSE pc
LevelReg(k) == IF k < Depth THEN active[k + 1].reg ELSE reg

\* How many words of its frame the function has pushed at its instruction f,
\* and whether the return address is one that is stored.
Framed(f) ==
  IF f = 0 THEN 0
  ELSE IF f \in {1, 2, 32, 33} THEN 1
  ELSE IF f \in {3, 4, 30, 31} THEN 2
  ELSE IF f \in {5, 6, 28, 29} THEN 3
  ELSE IF f = 34 THEN 0 ELSE 4

\* Where the j-th call of the function returns to.
ReturnOf(j) == IF j = 0 THEN FactorialAt - 1 ELSE FactorialAt + 20

\* The j-th call of the function inside of the first one, at its instruction f.
FactorialOK(m, f, j, r) ==
  /\ f \in 0 .. 34
  /\ r["sp"] = Top - 4 * j - Framed(f)
  /\ \A i \in 0 .. j :
       i < j \/ f \in 2 .. 33 =>
         Top - 4 * i - 1 \in DOMAIN m /\ m[Top - 4 * i - 1] = ReturnOf(i)
  /\ f \in {0, 1, 33, 34} => r["ra"] = ReturnOf(j)
  /\ f \in 0 .. 11 \cup {16, 17} => r["a0"] = Argument - j
  /\ f \in {18, 19} => r["a0"] = Argument - j - 1
  /\ f \in 9 .. 11 \cup 16 .. 19 => j < Argument
  /\ f = 19 => r["at"] = FactorialAt

StartOK(m, p, r) ==
  /\ p <= 17 => WordsAt \in DOMAIN m /\ m[WordsAt] = Top
  /\ p = 17 => r["sp"] = WordsAt
  /\ p >= 18 => r["sp"] = Top
  /\ p = 19 => r["a0"] = TimerAt
  /\ p = 21 /\ Extra = 2 => r["a0"] = KeyboardAt
  /\ p \in {FactorialAt - 3, FactorialAt - 2} => r["at"] = FactorialAt
  /\ p = FactorialAt - 2 => r["a0"] = Argument

VectorsOK(m, p) ==
  /\ p >= 20 => 1 \in DOMAIN m /\ m[1] = TimerAt
  /\ p >= 22 /\ "keyboard" \in Devices => 2 \in DOMAIN m /\ m[2] = KeyboardAt

\* The program itself, at p with registers r.
MainOK(m, p, r) ==
  /\ VectorsOK(m, p)
  /\ \/ p \in 16 .. FactorialAt - 1 /\ StartOK(m, p, r)
     \/ \E j \in 0 .. Argument : FactorialOK(m, p - FactorialAt, j, r)

LevelOK(k) ==
  /\ \E d \in Devices : HandlerOK(mem, d, active[k], LevelPc(k), LevelReg(k))
  /\ Enabled(active[k].pc) /\ active[k].key <= key
  /\ Top - 4 * (Argument + 1) - 7 * (k - 1) <= active[k].reg["sp"]
  /\ active[k].reg["sp"] <= Top

\* The program and the handlers that are active are where they should be.
Levels ==
  /\ MainOK(mem, LevelPc(0), LevelReg(0))
  /\ \A k \in 1 .. Depth : LevelOK(k)
  /\ \A j, k \in 1 .. Depth : j <= k => active[k].reg["sp"] <= active[j].reg["sp"]
  /\ ie <=> Enabled(pc)

\* The timer handlers that have yet to add one to a cell of the clock; no cell
\* holds more than Most.
Owes == {k \in 1 .. Depth : Owing("timer", LevelPc(k) - TimerAt)}
Most == WordsAt + 4 + ticks + key - Cardinality(Owes)

\* No handler stores a pointer to the characters that points below the stack.
PointersKept ==
  \A k \in 1 .. Depth : PastStore("keyboard", LevelPc(k) - KeyboardAt) =>
    \/ reg["a2"] >= Top
    \/ \E j \in k + 1 .. Depth : AtStore("keyboard", LevelPc(j) - KeyboardAt)
MemoryKept ==
  /\ Cardinality(Owes) <= ticks
  /\ MemoryOK(mem, Most) /\ reg["a1"] \in 0 .. Most /\ PointerOK(reg["a2"])
  /\ PointersKept

\* A handler that has not read the keyboard yet finds its own character there.
KeyThere ==
  active # <<>> /\ pc - KeyboardAt \in 0 .. 4 => active[Depth].key = key

Counted ==
  /\ ticks + key <= spent /\ spent <= MaxInterrupts
  /\ Depth <= ticks + key

IInv == TypeOK /\ Levels /\ MemoryKept /\ KeyThere /\ Counted

-----------------------------------------------------------------------------
(* A step of the program.                                                  *)

\* The program is about to do a step, and has done it.
MainReady(most) ==
  /\ TypeOK /\ Step /\ MainOK(mem, pc, reg) /\ (ie <=> Enabled(pc))
  /\ most \in Nat /\ MemoryOK(mem, most)
MainDone(most) ==
  /\ TypeOK' /\ MainOK(mem', pc', reg') /\ (ie' <=> Enabled(pc'))
  /\ MemoryOK(mem', most) /\ Counts' = Counts
  /\ reg'["a1"] = reg["a1"] /\ reg'["a2"] = reg["a2"]

InFunction(f, j, most) ==
  /\ MainReady(most) /\ j \in 0 .. Argument /\ FactorialOK(mem, f, j, reg)
  /\ pc = FactorialAt + f

LEMMA FunctionFacts ==
  ASSUME NEW f, NEW j, NEW most, InFunction(f, j, most)
  PROVE  /\ TypeOK /\ Step /\ f \in 0 .. 34 /\ j \in 0 .. Argument /\ j \in Nat
         /\ FactorialAt \in {25, 27} /\ TimerAt = FactorialAt + 35
         /\ KeyboardAt = FactorialAt + 90 /\ pc = FactorialAt + f
         /\ pc + 1 = FactorialAt + (f + 1)
         /\ Framed(f) \in 0 .. 4 /\ reg["sp"] \in Int /\ reg["a0"] \in Int
         /\ reg["sp"] = Top - 4 * j - Framed(f)
         /\ most \in Nat /\ MemoryOK(mem, most) /\ ie /\ VectorsOK(mem, pc)
         /\ FactorialOK(mem, f, j, reg) /\ Argument \in Nat
<1>1. /\ TypeOK /\ Step /\ j \in 0 .. Argument /\ FactorialOK(mem, f, j, reg)
      /\ pc = FactorialAt + f /\ most \in Nat /\ MemoryOK(mem, most)
      /\ (ie <=> Enabled(pc)) /\ VectorsOK(mem, pc)
  BY DEF InFunction, MainReady, MainOK
<1>2. /\ Argument \in Nat /\ FactorialAt \in {25, 27} /\ TimerAt = FactorialAt + 35
      /\ KeyboardAt = FactorialAt + 90
  BY AddressFacts, RoomFacts
<1>3. f \in 0 .. 34 /\ reg["sp"] = Top - 4 * j - Framed(f)
  BY <1>1 DEF FactorialOK
<1>4. Framed(f) \in 0 .. 4
  BY <1>3 DEF Framed
<1>5. reg["sp"] \in Int /\ reg["a0"] \in Int
  BY <1>1 DEF TypeOK, Registers
<1>6. Enabled(pc)
  BY <1>1, <1>2, <1>3 DEF Enabled
<1> QED BY <1>1, <1>2, <1>3, <1>4, <1>5, <1>6

LEMMA InFunctionDone ==
  ASSUME NEW f, NEW j, NEW most, InFunction(f, j, most),
         NEW q, NEW i \in 0 .. Argument, pc' = FactorialAt + q,
         FactorialOK(mem', q, i, reg'), TypeOK', Counts' = Counts, ie' = ie,
         reg'["a1"] = reg["a1"], reg'["a2"] = reg["a2"], MemoryOK(mem', most),
         \A a \in DOMAIN mem : a \in {1, 2} => a \in DOMAIN mem' /\ mem'[a] = mem[a]
  PROVE  MainDone(most)
<1>1. /\ FactorialAt \in {25, 27} /\ TimerAt = FactorialAt + 35 /\ f \in 0 .. 34
      /\ KeyboardAt = FactorialAt + 90 /\ pc = FactorialAt + f
      /\ ie /\ VectorsOK(mem, pc)
  BY FunctionFacts
<1>2. q \in 0 .. 34
  BY DEF FactorialOK
<1>3. pc >= 22 /\ pc >= 20
  BY <1>1
<1>4. VectorsOK(mem', pc')
  BY <1>1, <1>3 DEF VectorsOK
<1>5. MainOK(mem', pc', reg')
  <2>1. pc' - FactorialAt = q
    BY <1>1, <1>2
  <2> QED BY <1>4, <2>1 DEF MainOK
<1>6. ie' <=> Enabled(pc')
  BY <1>1, <1>2 DEF Enabled
<1> QED BY <1>5, <1>6 DEF MainDone

\* The stack moves by one word.
LEMMA FunctionMoves ==
  ASSUME NEW f, NEW j, NEW most, InFunction(f, j, most),
         f \in {0, 2, 4, 6, 27, 29, 31, 33}
  PROVE  MainDone(most)
<1> DEFINE n == IF f \in {0, 2, 4, 6} THEN -1 ELSE 1
<1>1. /\ TypeOK /\ Step /\ f \in 0 .. 34 /\ j \in 0 .. Argument /\ j \in Nat
      /\ pc = FactorialAt + f /\ pc + 1 = FactorialAt + (f + 1)
      /\ reg["sp"] \in Int /\ reg["sp"] = Top - 4 * j - Framed(f)
      /\ most \in Nat /\ MemoryOK(mem, most) /\ FactorialOK(mem, f, j, reg)
  BY FunctionFacts
<1>2. Fetch(pc) = Addi("sp", "sp", n)
  BY <1>1, FactorialCode
<1>3. /\ "sp" \in Registers /\ "sp" # "zero" /\ "a0" \in Registers /\ "a1" \in Registers
      /\ "a2" \in Registers /\ "ra" \in Registers /\ n \in Int
  BY DEF Registers
<1> HIDE DEF n
<1>4. Computes("sp", reg["sp"] + n)
  BY <1>1, <1>2, <1>3, DoAddi
<1>5. TypeOK'
  BY <1>1, <1>4, ComputesType
<1>6. /\ pc' = FactorialAt + (f + 1) /\ ie' = ie /\ mem' = mem /\ Counts' = Counts
      /\ reg'["sp"] = reg["sp"] + n /\ reg'["a0"] = reg["a0"] /\ reg'["ra"] = reg["ra"]
      /\ reg'["a1"] = reg["a1"] /\ reg'["a2"] = reg["a2"]
  BY <1>1, <1>3, <1>4 DEF Computes
<1>7. Framed(f + 1) = Framed(f) - n /\ Framed(f) \in Int /\ f + 1 \in 0 .. 34
  BY DEF Framed, n
<1>8. Top \in Int
  BY RoomFacts
<1>9. reg'["sp"] = Top - 4 * j - Framed(f + 1)
  BY <1>1, <1>3, <1>6, <1>7, <1>8
<1>10. \A i \in 0 .. j :
         i < j \/ f + 1 \in 2 .. 33 =>
           Top - 4 * i - 1 \in DOMAIN mem' /\ mem'[Top - 4 * i - 1] = ReturnOf(i)
  BY <1>1, <1>6 DEF FactorialOK
<1>11. /\ f + 1 \in {0, 1, 33, 34} => reg'["ra"] = ReturnOf(j)
       /\ f + 1 \in 0 .. 11 \cup {16, 17} => reg'["a0"] = Argument - j
       /\ f + 1 \notin 9 .. 11 \cup 16 .. 19
  BY <1>1, <1>6 DEF FactorialOK
<1>12. FactorialOK(mem', f + 1, j, reg')
  BY <1>7, <1>9, <1>10, <1>11 DEF FactorialOK
<1> QED BY <1>1, <1>5, <1>6, <1>12, InFunctionDone

LEMMA FunctionSaves ==
  ASSUME NEW f, NEW j, NEW most, InFunction(f, j, most), f \in {1, 3, 5, 7}
  PROVE  MainDone(most)
<1> DEFINE e == IF f = 1 THEN "ra" ELSE IF f = 3 THEN "a0" ELSE IF f = 5 THEN "s0" ELSE "s1"
           w == Top - 4 * j - Framed(f)
<1>1. /\ TypeOK /\ Step /\ j \in 0 .. Argument /\ j \in Nat
      /\ pc = FactorialAt + f /\ pc + 1 = FactorialAt + (f + 1)
      /\ reg["sp"] \in Int /\ reg["sp"] = w /\ Framed(f) \in 0 .. 4
      /\ most \in Nat /\ MemoryOK(mem, most) /\ FactorialOK(mem, f, j, reg)
  BY FunctionFacts
<1>2. Fetch(pc) = Sw(e, "sp", 0)
  BY <1>1, FactorialCode
<1>3. "sp" \in Registers /\ "sp" # "zero" /\ e \in Registers
  BY DEF Registers
<1>e. f = 1 => e = "ra"
  OBVIOUS
<1>4. Framed(f) = (f + 1) \div 2 /\ Framed(f + 1) = Framed(f) /\ Framed(f) \in 1 .. 4
      /\ (f # 1 => Framed(f) \in 2 .. 4) /\ (f = 1 => Framed(f) = 1)
  BY DEF Framed
<1> HIDE DEF e
<1>5. Stores(w, reg[e]) /\ w \in Int /\ reg[e] \in Int
  <2>1. Stores(reg["sp"] + 0, reg[e])
    BY <1>1, <1>2, <1>3, DoSw
  <2>2. reg["sp"] + 0 = reg["sp"]
    BY <1>1
  <2>3. reg[e] \in Int
    BY <1>1, <1>3 DEF TypeOK
  <2> QED BY <1>1, <2>1, <2>2, <2>3
<1>6. TypeOK'
  BY <1>1, <1>5, StoresType
<1>7. Floor <= w /\ w < Top /\ Top \in Int /\ Floor \in Nat /\ WordsAt < Floor /\ WordsAt >= 99
      /\ WordsAt \in Nat
  BY <1>1, <1>4, RoomFacts
<1> HIDE DEF w
<1>8. /\ pc' = FactorialAt + (f + 1) /\ ie' = ie /\ reg' = reg /\ Counts' = Counts
      /\ DOMAIN mem' = DOMAIN mem \cup {w} /\ mem'[w] = reg[e]
      /\ \A a \in DOMAIN mem : a # w => mem'[a] = mem[a]
  BY <1>1, <1>5 DEF Stores
<1>9. MemoryOK(mem', most)
  <2>1. DOMAIN mem \subseteq Int
    BY <1>1 DEF TypeOK
  <2>2. \A n \in 0 .. 4 : WordsAt + n \in DOMAIN mem'
    BY <1>1, <1>8 DEF MemoryOK
  <2>3. ASSUME NEW a \in DOMAIN mem'
        PROVE  /\ a < WordsAt => mem'[a] \in 0 .. WordsAt - 1
               /\ WordsAt <= a /\ a < Floor => mem'[a] >= Top
               /\ a >= Top => mem'[a] \in 0 .. most
    <3>1. CASE a = w
      BY <1>5, <1>7, <3>1
    <3>2. CASE a # w
      BY <1>1, <1>8, <3>2 DEF MemoryOK
    <3> QED BY <3>1, <3>2
  <2> QED BY <2>2, <2>3 DEF MemoryOK
<1>10. \A a \in DOMAIN mem : a \in {1, 2} => a \in DOMAIN mem' /\ mem'[a] = mem[a]
  <2>1. w \notin {1, 2}
    BY <1>5, <1>7
  <2> QED BY <1>8, <2>1
<1>11. ASSUME NEW i \in 0 .. j, i < j \/ f + 1 \in 2 .. 33
       PROVE  Top - 4 * i - 1 \in DOMAIN mem' /\ mem'[Top - 4 * i - 1] = ReturnOf(i)
  <2>1. CASE i < j \/ f # 1
    <3>1. Top - 4 * i - 1 # w
      BY <1>1, <1>4, <1>7, <2>1 DEF w
    <3>2. Top - 4 * i - 1 \in DOMAIN mem /\ mem[Top - 4 * i - 1] = ReturnOf(i)
      BY <1>1, <2>1 DEF FactorialOK
    <3> QED BY <1>8, <3>1, <3>2
  <2>2. CASE i = j /\ f = 1
    <3>1. Top - 4 * i - 1 = w /\ e = "ra"
      BY <1>4, <1>e, <2>2 DEF w
    <3>2. reg["ra"] = ReturnOf(j)
      BY <1>1, <2>2 DEF FactorialOK
    <3> QED BY <1>8, <2>2, <3>1, <3>2
  <2> QED BY <1>1, <2>1, <2>2
<1>12. reg'["sp"] = Top - 4 * j - Framed(f + 1)
  BY <1>1, <1>4, <1>8 DEF w
<1>13. f + 1 \in 0 .. 11 /\ f + 1 \notin {0, 1, 33, 34} /\ f + 1 \notin 9 .. 11 \cup 16 .. 19
       /\ f + 1 \in 0 .. 34
  OBVIOUS
<1>14. reg'["a0"] = Argument - j
  BY <1>1, <1>8 DEF FactorialOK
<1>15. FactorialOK(mem', f + 1, j, reg')
  BY <1>11, <1>12, <1>13, <1>14 DEF FactorialOK
<1>16. reg'["a1"] = reg["a1"] /\ reg'["a2"] = reg["a2"]
  BY <1>8
<1> QED BY <1>1, <1>6, <1>8, <1>9, <1>10, <1>15, <1>16, InFunctionDone

LEMMA FunctionRestores ==
  ASSUME NEW f, NEW j, NEW most, InFunction(f, j, most), f \in {26, 28, 30, 32}
  PROVE  MainDone(most)
<1> DEFINE e == IF f = 26 THEN "s1" ELSE IF f = 28 THEN "s0" ELSE IF f = 30 THEN "a0" ELSE "ra"
           w == Top - 4 * j - Framed(f)
<1>1. /\ TypeOK /\ Step /\ j \in 0 .. Argument /\ j \in Nat
      /\ pc = FactorialAt + f /\ pc + 1 = FactorialAt + (f + 1)
      /\ reg["sp"] \in Int /\ reg["sp"] = w /\ Framed(f) \in 0 .. 4
      /\ most \in Nat /\ MemoryOK(mem, most) /\ FactorialOK(mem, f, j, reg)
  BY FunctionFacts
<1>2. Fetch(pc) = Lw(e, "sp", 0)
  BY <1>1, FactorialCode
<1>3. /\ "sp" \in Registers /\ "sp" # "zero" /\ e \in Registers /\ e # "zero" /\ e # "sp"
      /\ "a1" \in Registers /\ "a2" \in Registers /\ e # "a1" /\ e # "a2"
      /\ f = 32 => e = "ra"
  BY DEF Registers
<1>4. Framed(f + 1) = Framed(f) /\ (f = 32 => Framed(f) = 1)
  BY DEF Framed
<1> HIDE DEF e
<1>5. Computes(e, Load(w))
  <2>1. Computes(e, Load(reg["sp"] + 0))
    BY <1>1, <1>2, <1>3, DoLw
  <2>2. reg["sp"] + 0 = w
    BY <1>1
  <2> QED BY <2>1, <2>2
<1>6. TypeOK'
  BY <1>1, <1>5, ComputesType
<1>7. /\ pc' = FactorialAt + (f + 1) /\ ie' = ie /\ mem' = mem /\ Counts' = Counts
      /\ reg'[e] = Load(w)
      /\ reg'["sp"] = reg["sp"] /\ reg'["a1"] = reg["a1"] /\ reg'["a2"] = reg["a2"]
  BY <1>1, <1>3, <1>5 DEF Computes
<1>8. f + 1 = 33 => reg'["ra"] = ReturnOf(j)
  <2> SUFFICES ASSUME f = 32 PROVE reg'["ra"] = ReturnOf(j)
    OBVIOUS
  <2>1. w = Top - 4 * j - 1
    BY <1>4
  <2>2. w \in DOMAIN mem /\ mem[w] = ReturnOf(j)
    BY <1>1, <2>1 DEF FactorialOK
  <2> QED BY <1>3, <1>7, <2>2 DEF Load
<1>9. \A i \in 0 .. j :
        Top - 4 * i - 1 \in DOMAIN mem' /\ mem'[Top - 4 * i - 1] = ReturnOf(i)
  BY <1>1, <1>7 DEF FactorialOK
<1>10. reg'["sp"] = Top - 4 * j - Framed(f + 1)
  BY <1>1, <1>4, <1>7
<1>11. f + 1 \in 27 .. 33
  OBVIOUS
<1>12. FactorialOK(mem', f + 1, j, reg')
  BY <1>8, <1>9, <1>10, <1>11 DEF FactorialOK
<1> QED BY <1>1, <1>6, <1>7, <1>12, InFunctionDone

\* A step of the function from f to q, with its whole frame on the stack.
LEMMA FunctionCalm ==
  ASSUME NEW f \in 8 .. 25, NEW j, NEW most, InFunction(f, j, most),
         NEW q \in 8 .. 26, pc' = FactorialAt + q, mem' = mem, TypeOK',
         Counts' = Counts, ie' = ie,
         reg'["a1"] = reg["a1"], reg'["a2"] = reg["a2"], reg'["sp"] = reg["sp"],
         q \in 8 .. 11 \cup {16, 17} => reg'["a0"] = Argument - j,
         q \in {18, 19} => reg'["a0"] = Argument - j - 1,
         q \in 9 .. 11 \cup 16 .. 19 => j < Argument,
         q = 19 => reg'["at"] = FactorialAt
  PROVE  MainDone(most)
<1>1. /\ j \in 0 .. Argument /\ j \in Nat /\ reg["sp"] = Top - 4 * j - Framed(f)
      /\ MemoryOK(mem, most) /\ FactorialOK(mem, f, j, reg)
  BY FunctionFacts
<1>2. Framed(f) = 4 /\ Framed(q) = 4
  BY DEF Framed
<1>3. reg'["sp"] = Top - 4 * j - Framed(q)
  BY <1>1, <1>2
<1>4. \A i \in 0 .. j :
        Top - 4 * i - 1 \in DOMAIN mem' /\ mem'[Top - 4 * i - 1] = ReturnOf(i)
  <2>1. f \in 2 .. 33
    OBVIOUS
  <2> QED BY <1>1, <2>1 DEF FactorialOK
<1>5. q \in 0 .. 34 /\ q \notin {0, 1, 33, 34} /\ (q \in 0 .. 11 => q \in 8 .. 11)
  OBVIOUS
<1>6. FactorialOK(mem', q, j, reg')
  BY <1>3, <1>4, <1>5 DEF FactorialOK
<1> QED BY <1>1, <1>6, InFunctionDone

\* The instructions that compute a register the invariant says nothing of.
LEMMA FunctionComputes ==
  ASSUME NEW f, NEW j, NEW most, InFunction(f, j, most),
         f \in {9, 12, 14, 16, 20, 21, 23, 24}
  PROVE  MainDone(most)
<1>1. /\ TypeOK /\ Step /\ f \in 0 .. 34
      /\ pc = FactorialAt + f /\ pc + 1 = FactorialAt + (f + 1)
      /\ reg["a0"] \in Int /\ FactorialOK(mem, f, j, reg)
  BY FunctionFacts
<1>2. /\ {"sp", "a0", "a1", "a2", "v0", "s0", "s1", "zero"} \subseteq Registers
      /\ \A r \in Registers : reg[r] \in Int
  BY <1>1 DEF Registers, TypeOK
<1>3. PICK e \in {"v0", "s0", "s1"} : \E v \in Int : Computes(e, v)
  <2>1. CASE f = 9
    <3>1. Computes("s1", reg["zero"] + 1)
      BY <1>1, <1>2, <2>1, FactorialCode, DoAddi
    <3> QED BY <1>2, <3>1
  <2>2. CASE f \in {12, 14}
    <3>1. Computes("v0", reg["zero"] + 1)
      BY <1>1, <1>2, <2>2, FactorialCode, DoAddi
    <3> QED BY <1>2, <3>1
  <2>3. CASE f = 16
    <3>1. Computes("s1", reg["a0"] + reg["zero"])
      BY <1>1, <1>2, <2>3, FactorialCode, DoAdd
    <3> QED BY <1>2, <3>1
  <2>4. CASE f = 20
    <3>1. Computes("s0", reg["v0"] + reg["zero"])
      BY <1>1, <1>2, <2>4, FactorialCode, DoAdd
    <3> QED BY <1>2, <3>1
  <2>5. CASE f = 21
    <3>1. Computes("v0", reg["zero"] + reg["zero"])
      BY <1>1, <1>2, <2>5, FactorialCode, DoAdd
    <3> QED BY <1>2, <3>1
  <2>6. CASE f = 23
    <3>1. Computes("v0", reg["v0"] + reg["s0"])
      BY <1>1, <1>2, <2>6, FactorialCode, DoAdd
    <3> QED BY <1>2, <3>1
  <2>7. CASE f = 24
    <3>1. Computes("s1", reg["s1"] + -1)
      BY <1>1, <1>2, <2>7, FactorialCode, DoAddi
    <3> QED BY <1>2, <3>1
  <2> QED BY <2>1, <2>2, <2>3, <2>4, <2>5, <2>6, <2>7
<1>4. /\ pc' = FactorialAt + (f + 1) /\ ie' = ie /\ mem' = mem /\ Counts' = Counts
      /\ reg'["sp"] = reg["sp"] /\ reg'["a0"] = reg["a0"]
      /\ reg'["a1"] = reg["a1"] /\ reg'["a2"] = reg["a2"]
  BY <1>1, <1>2, <1>3 DEF Computes
<1>5. TypeOK'
  BY <1>1, <1>3, ComputesType
<1>6. /\ f + 1 \in 8 .. 11 \cup {16, 17} => reg'["a0"] = Argument - j
      /\ f + 1 \in 9 .. 11 \cup 16 .. 19 => j < Argument
      /\ f + 1 \notin {18, 19} /\ f \in 8 .. 25 /\ f + 1 \in 8 .. 26
  BY <1>1, <1>4 DEF FactorialOK
<1> QED BY <1>4, <1>5, <1>6, FunctionCalm

LEMMA FunctionBranches ==
  ASSUME NEW f, NEW j, NEW most, InFunction(f, j, most),
         f \in {8, 10, 11, 13, 15, 22, 25}
  PROVE  MainDone(most)
<1>1. /\ TypeOK /\ Step /\ f \in 0 .. 34 /\ FactorialAt \in {25, 27}
      /\ pc = FactorialAt + f /\ pc + 1 = FactorialAt + (f + 1) /\ j \in 0 .. Argument
      /\ reg["a0"] \in Int /\ FactorialOK(mem, f, j, reg) /\ Argument \in Nat
  BY FunctionFacts
<1>2. "a0" \in Registers /\ "s1" \in Registers /\ "zero" \in Registers /\ reg["zero"] = 0
  BY <1>1 DEF Registers, TypeOK
<1>3. /\ Labels["base_zero"] = FactorialAt + 12 /\ Labels["base_one"] = FactorialAt + 14
      /\ Labels["recurse"] = FactorialAt + 16 /\ Labels["mul"] = FactorialAt + 22
      /\ Labels["done"] = FactorialAt + 26
  BY Addresses
<1>4. PICK q \in 8 .. 26 :
         /\ Goes(FactorialAt + q)
         /\ <<f, q>> \in {<<8, 9>>, <<8, 12>>, <<10, 11>>, <<10, 14>>, <<11, 16>>, <<13, 26>>,
                          <<15, 26>>, <<22, 23>>, <<22, 26>>, <<25, 22>>}
         /\ q = 9 => reg["a0"] # 0
  <2>1. CASE f = 8
    <3>1. Goes(IF reg["a0"] = reg["zero"] THEN Labels["base_zero"] ELSE pc + 1)
      BY <1>1, <1>2, <2>1, FactorialCode, DoBeq
    <3> QED BY <1>1, <1>2, <1>3, <2>1, <3>1
  <2>2. CASE f = 10
    <3>1. Goes(IF reg["a0"] = reg["s1"] THEN Labels["base_one"] ELSE pc + 1)
      BY <1>1, <1>2, <2>2, FactorialCode, DoBeq
    <3> QED BY <1>1, <1>2, <1>3, <2>2, <3>1
  <2>3. CASE f = 11
    <3>1. Goes(Labels["recurse"])
      BY <1>1, <2>3, FactorialCode, DoGoto
    <3> QED BY <1>3, <2>3, <3>1
  <2>4. CASE f \in {13, 15}
    <3>1. Goes(Labels["done"])
      BY <1>1, <2>4, FactorialCode, DoGoto
    <3> QED BY <1>3, <2>4, <3>1
  <2>5. CASE f = 22
    <3>1. Goes(IF reg["s1"] = reg["zero"] THEN Labels["done"] ELSE pc + 1)
      BY <1>1, <1>2, <2>5, FactorialCode, DoBeq
    <3> QED BY <1>1, <1>2, <1>3, <2>5, <3>1
  <2>6. CASE f = 25
    <3>1. Goes(Labels["mul"])
      BY <1>1, <2>6, FactorialCode, DoGoto
    <3> QED BY <1>3, <2>6, <3>1
  <2> QED BY <2>1, <2>2, <2>3, <2>4, <2>5, <2>6
<1>5. /\ pc' = FactorialAt + q /\ ie' = ie /\ mem' = mem /\ Counts' = Counts /\ reg' = reg
  BY <1>4 DEF Goes
<1>6. TypeOK'
  <2>1. FactorialAt + q \in Int
    BY <1>1
  <2> QED BY <1>1, <1>4, <2>1, GoesType
<1>7. f \in 0 .. 11 => reg["a0"] = Argument - j
  BY <1>1 DEF FactorialOK
<1>8. f \in {10, 11} => j < Argument
  BY <1>1 DEF FactorialOK
<1>9. /\ q \in 8 .. 11 \cup {16, 17} => reg'["a0"] = Argument - j
      /\ q \notin {18, 19} /\ f \in 8 .. 25
  BY <1>4, <1>5, <1>7
<1>10. q \in 9 .. 11 \cup 16 .. 19 => j < Argument
  BY <1>1, <1>4, <1>7, <1>8
<1> QED BY <1>5, <1>6, <1>9, <1>10, FunctionCalm

LEMMA FunctionArgument ==
  ASSUME NEW j, NEW most, InFunction(17, j, most)
  PROVE  MainDone(most)
<1>1. /\ TypeOK /\ Step /\ pc = FactorialAt + 17 /\ pc + 1 = FactorialAt + 18
      /\ reg["a0"] \in Int /\ FactorialOK(mem, 17, j, reg) /\ j \in Nat /\ Argument \in Nat
  BY FunctionFacts
<1>2. {"sp", "a0", "a1", "a2"} \subseteq Registers
  BY DEF Registers
<1>3. Computes("a0", reg["a0"] + -1)
  BY <1>1, <1>2, FactorialCode, DoAddi
<1>4. /\ pc' = FactorialAt + 18 /\ ie' = ie /\ mem' = mem /\ Counts' = Counts
      /\ reg'["sp"] = reg["sp"] /\ reg'["a0"] = reg["a0"] + -1
      /\ reg'["a1"] = reg["a1"] /\ reg'["a2"] = reg["a2"]
  BY <1>1, <1>2, <1>3 DEF Computes
<1>5. TypeOK'
  BY <1>1, <1>3, ComputesType
<1>6. j < Argument /\ reg["a0"] = Argument - j
  BY <1>1 DEF FactorialOK
<1>7. reg'["a0"] = Argument - j - 1
  BY <1>1, <1>4, <1>6
<1> QED BY <1>4, <1>5, <1>6, <1>7, FunctionCalm

LEMMA FunctionAddress ==
  ASSUME NEW j, NEW most, InFunction(18, j, most)
  PROVE  MainDone(most)
<1>1. /\ TypeOK /\ Step /\ pc = FactorialAt + 18 /\ pc + 1 = FactorialAt + 19
      /\ FactorialAt \in {25, 27} /\ FactorialOK(mem, 18, j, reg)
  BY FunctionFacts
<1>2. {"sp", "a0", "a1", "a2", "at"} \subseteq Registers
  BY DEF Registers
<1>3. Computes("at", FactorialAt)
  <2>1. Labels["factorial"] = FactorialAt /\ Labels["factorial"] \in Int
    BY <1>1, Addresses
  <2>2. Computes("at", Labels["factorial"])
    BY <1>1, <1>2, <2>1, FactorialCode, DoLa
  <2> QED BY <2>1, <2>2
<1>4. /\ pc' = FactorialAt + 19 /\ ie' = ie /\ mem' = mem /\ Counts' = Counts
      /\ reg'["sp"] = reg["sp"] /\ reg'["a0"] = reg["a0"] /\ reg'["at"] = FactorialAt
      /\ reg'["a1"] = reg["a1"] /\ reg'["a2"] = reg["a2"]
  BY <1>1, <1>2, <1>3 DEF Computes
<1>5. TypeOK'
  BY <1>1, <1>3, ComputesType
<1>6. j < Argument /\ reg["a0"] = Argument - j - 1
  BY <1>1 DEF FactorialOK
<1> QED BY <1>4, <1>5, <1>6, FunctionCalm

LEMMA FunctionCalls ==
  ASSUME NEW j, NEW most, InFunction(19, j, most)
  PROVE  MainDone(most)
<1>1. /\ TypeOK /\ Step /\ pc = FactorialAt + 19 /\ pc + 1 = FactorialAt + 20
      /\ FactorialAt \in {25, 27} /\ FactorialOK(mem, 19, j, reg)
      /\ j \in 0 .. Argument /\ j \in Nat /\ Argument \in Nat /\ MemoryOK(mem, most)
      /\ reg["sp"] = Top - 4 * j - Framed(19)
  BY FunctionFacts
<1>2. {"sp", "a0", "a1", "a2", "at", "ra"} \subseteq Registers
  BY DEF Registers
<1>3. /\ pc' = reg["at"] /\ ie' = ie /\ mem' = mem /\ Counts' = Counts
      /\ reg' \in [Registers -> Int] /\ reg'["ra"] = pc + 1
      /\ \A r \in Registers : r # "ra" => reg'[r] = reg[r]
  BY <1>1, <1>2, FactorialCode, DoJalr
<1>4. /\ reg["at"] = FactorialAt /\ j < Argument /\ reg["a0"] = Argument - j - 1
      /\ \A i \in 0 .. j : Top - 4 * i - 1 \in DOMAIN mem /\ mem[Top - 4 * i - 1] = ReturnOf(i)
  BY <1>1 DEF FactorialOK
<1>5. TypeOK'
  <2>1. pc' \in Int /\ "zero" \in Registers /\ reg'["zero"] = reg["zero"]
    BY <1>1, <1>3, <1>4 DEF Registers
  <2> QED BY <1>1, <1>3, <2>1 DEF TypeOK, Counts
<1>6. /\ reg'["sp"] = reg["sp"] /\ reg'["a0"] = reg["a0"] /\ reg'["ra"] = FactorialAt + 20
      /\ reg'["a1"] = reg["a1"] /\ reg'["a2"] = reg["a2"]
  BY <1>1, <1>2, <1>3
<1>7. j + 1 \in 0 .. Argument /\ j + 1 # 0
  BY <1>1, <1>4
<1>8. FactorialOK(mem', 0, j + 1, reg')
  <2>1. Framed(19) = 4 /\ Framed(0) = 0
    BY DEF Framed
  <2>2. Top \in Int
    BY RoomFacts
  <2>3. reg'["sp"] = Top - 4 * (j + 1) - Framed(0)
    BY <1>1, <1>6, <2>1, <2>2
  <2>4. reg'["ra"] = ReturnOf(j + 1)
    BY <1>6, <1>7 DEF ReturnOf
  <2>5. reg'["a0"] = Argument - (j + 1)
    BY <1>1, <1>4, <1>6
  <2>6. \A i \in 0 .. j + 1 : i < j + 1 => i \in 0 .. j
    BY <1>1
  <2>7. \A i \in 0 .. j + 1 : i < j + 1 \/ 0 \in 2 .. 33 =>
          Top - 4 * i - 1 \in DOMAIN mem' /\ mem'[Top - 4 * i - 1] = ReturnOf(i)
    BY <1>3, <1>4, <2>6
  <2> QED BY <2>3, <2>4, <2>5, <2>7 DEF FactorialOK
<1>9. pc' = FactorialAt + 0
  BY <1>1, <1>3, <1>4
<1> QED BY <1>1, <1>3, <1>5, <1>6, <1>7, <1>8, <1>9, InFunctionDone

LEMMA FunctionReturns ==
  ASSUME NEW j, NEW most, InFunction(34, j, most)
  PROVE  MainDone(most)
<1>1. /\ TypeOK /\ Step /\ pc = FactorialAt + 34 /\ TimerAt = FactorialAt + 35
      /\ KeyboardAt = FactorialAt + 90
      /\ FactorialAt \in {25, 27} /\ FactorialOK(mem, 34, j, reg) /\ ie
      /\ j \in 0 .. Argument /\ j \in Nat /\ Argument \in Nat /\ MemoryOK(mem, most)
      /\ reg["sp"] = Top - 4 * j - Framed(34) /\ VectorsOK(mem, pc)
  BY FunctionFacts
<1>2. {"sp", "a0", "a1", "a2", "ra", "zero"} \subseteq Registers
  BY DEF Registers
<1>3. /\ pc' = reg["ra"] /\ ie' = ie /\ mem' = mem /\ Counts' = Counts
      /\ reg' \in [Registers -> Int]
      /\ \A r \in Registers : reg'[r] = reg[r]
  <2>1. Fetch(pc) = Jalr("ra", "zero")
    BY <1>1, FactorialCode
  <2>2. TypeOK /\ Step /\ "ra" \in Registers /\ "zero" \in Registers
    BY <1>1, <1>2
  <2> QED BY <2>1, <2>2, DoJalr
<1>4. /\ reg["ra"] = ReturnOf(j) /\ reg["sp"] = Top - 4 * j
      /\ \A i \in 0 .. j :
            i < j => Top - 4 * i - 1 \in DOMAIN mem /\ mem[Top - 4 * i - 1] = ReturnOf(i)
  <2>1. Framed(34) = 0 /\ Top \in Int
    BY RoomFacts DEF Framed
  <2> QED BY <1>1, <2>1 DEF FactorialOK
<1>5. TypeOK'
  <2>1. pc' \in Int
    BY <1>1, <1>2, <1>3 DEF TypeOK
  <2> QED BY <1>1, <1>2, <1>3, <2>1 DEF TypeOK, Counts
<1>6. /\ reg'["sp"] = reg["sp"] /\ reg'["a1"] = reg["a1"] /\ reg'["a2"] = reg["a2"]
  BY <1>2, <1>3
<1>7. CASE j = 0
  <2>1. pc' = FactorialAt - 1 /\ reg'["sp"] = Top
    <3>1. Top \in Int
      BY RoomFacts
    <3> QED BY <1>3, <1>4, <1>6, <1>7, <3>1 DEF ReturnOf
  <2>2. StartOK(mem', pc', reg')
    BY <1>1, <2>1 DEF StartOK
  <2>3. VectorsOK(mem', pc')
    BY <1>1, <1>3, <2>1 DEF VectorsOK
  <2>4. pc' \in 16 .. FactorialAt - 1
    BY <1>1, <2>1
  <2>5. MainOK(mem', pc', reg')
    BY <2>2, <2>3, <2>4 DEF MainOK
  <2>6. ie' <=> Enabled(pc')
    BY <1>1, <1>3, <2>1 DEF Enabled
  <2> QED BY <1>1, <1>3, <1>5, <1>6, <2>5, <2>6 DEF MainDone
<1>8. CASE j # 0
  <2>1. pc' = FactorialAt + 20 /\ j - 1 \in 0 .. Argument
    BY <1>1, <1>3, <1>4, <1>8 DEF ReturnOf
  <2>2. FactorialOK(mem', 20, j - 1, reg')
    <3>1. Framed(20) = 4 /\ Top \in Int
      BY RoomFacts DEF Framed
    <3>2. reg'["sp"] = Top - 4 * (j - 1) - Framed(20)
      BY <1>1, <1>4, <1>6, <3>1
    <3>3. \A i \in 0 .. j - 1 : i \in 0 .. j /\ i < j
      BY <1>1
    <3>4. \A i \in 0 .. j - 1 :
            Top - 4 * i - 1 \in DOMAIN mem' /\ mem'[Top - 4 * i - 1] = ReturnOf(i)
      BY <1>3, <1>4, <3>3
    <3> QED BY <3>2, <3>4 DEF FactorialOK
  <2> QED BY <1>1, <1>3, <1>5, <1>6, <2>1, <2>2, InFunctionDone
<1> QED BY <1>7, <1>8

LEMMA FunctionStep ==
  ASSUME NEW f, NEW j, NEW most, InFunction(f, j, most)
  PROVE  MainDone(most)
<1>1. f \in 0 .. 34
  BY FunctionFacts
<1>2. \/ f \in {0, 2, 4, 6, 27, 29, 31, 33} \/ f \in {1, 3, 5, 7} \/ f \in {26, 28, 30, 32}
      \/ f \in {9, 12, 14, 16, 20, 21, 23, 24} \/ f \in {8, 10, 11, 13, 15, 22, 25}
      \/ f = 17 \/ f = 18 \/ f = 19 \/ f = 34
  BY <1>1
<1> QED BY <1>2, FunctionMoves, FunctionSaves, FunctionRestores, FunctionComputes,
           FunctionBranches, FunctionArgument, FunctionAddress, FunctionCalls, FunctionReturns

InStart(most) ==
  MainReady(most) /\ pc \in 16 .. FactorialAt - 1 /\ StartOK(mem, pc, reg)

LEMMA StartThere ==
  ASSUME NEW most, InStart(most)
  PROVE  /\ TypeOK /\ Step /\ pc \in 16 .. FactorialAt - 1 /\ StartOK(mem, pc, reg)
         /\ VectorsOK(mem, pc) /\ (ie <=> pc >= FactorialAt - 4)
         /\ most \in Nat /\ MemoryOK(mem, most)
         /\ FactorialAt = 25 + Extra /\ TimerAt = FactorialAt + 35
         /\ KeyboardAt = FactorialAt + 90 /\ WordsAt \in Nat
         /\ KeyboardAt <= WordsAt /\ (Extra = 2 => KeyboardAt < WordsAt)
         /\ \/ Extra = 2 /\ "keyboard" \in Devices
            \/ Extra = 0 /\ "keyboard" \notin Devices
         /\ {"sp", "a0", "a1", "a2", "at", "ra", "zero"} \subseteq Registers
         /\ reg["zero"] = 0
<1>1. /\ TypeOK /\ Step /\ pc \in 16 .. FactorialAt - 1 /\ StartOK(mem, pc, reg)
      /\ VectorsOK(mem, pc) /\ (ie <=> Enabled(pc)) /\ most \in Nat /\ MemoryOK(mem, most)
  BY DEF InStart, MainReady, MainOK
<1>2. /\ FactorialAt = 25 + Extra /\ TimerAt = FactorialAt + 35
      /\ KeyboardAt = FactorialAt + 90 /\ WordsAt \in Nat /\ Extra \in {0, 2}
      /\ KeyboardAt <= WordsAt
      /\ "keyboard" \in Devices => Extra = 2 /\ WordsAt = KeyboardAt + 37
  BY AddressFacts
<1>3. "keyboard" \notin Devices => Extra = 0
  BY DEF Extra
<1>4. Enabled(pc) <=> pc >= FactorialAt - 4
  BY <1>1, <1>2 DEF Enabled
<1>5. reg["zero"] = 0
  BY <1>1 DEF TypeOK
<1> QED BY <1>1, <1>2, <1>3, <1>4, <1>5 DEF Registers

LEMMA StartCalm ==
  ASSUME NEW most, InStart(most), pc # FactorialAt - 1, pc' = pc + 1, TypeOK',
         Counts' = Counts, ie' <=> pc + 1 >= FactorialAt - 4,
         reg'["a1"] = reg["a1"], reg'["a2"] = reg["a2"],
         StartOK(mem', pc + 1, reg'), VectorsOK(mem', pc + 1), MemoryOK(mem', most)
  PROVE  MainDone(most)
<1>1. /\ pc \in 16 .. FactorialAt - 1 /\ FactorialAt = 25 + Extra /\ Extra \in {0, 2}
      /\ TimerAt = FactorialAt + 35
  BY StartThere
<1>2. pc' \in 16 .. FactorialAt - 1
  BY <1>1
<1>3. MainOK(mem', pc', reg')
  BY <1>2 DEF MainOK
<1>4. ie' <=> Enabled(pc')
  BY <1>1 DEF Enabled
<1> QED BY <1>3, <1>4 DEF MainDone

LEMMA StartComputes ==
  ASSUME NEW most, InStart(most),
         \/ pc \in {16, 17, 18} \/ (pc = 20 /\ Extra = 2)
         \/ pc = FactorialAt - 4 \/ pc = FactorialAt - 3
  PROVE  MainDone(most)
<1>1. /\ TypeOK /\ Step /\ pc \in 16 .. FactorialAt - 1 /\ StartOK(mem, pc, reg)
      /\ VectorsOK(mem, pc) /\ (ie <=> pc >= FactorialAt - 4)
      /\ most \in Nat /\ MemoryOK(mem, most)
      /\ FactorialAt = 25 + Extra /\ TimerAt = FactorialAt + 35
      /\ KeyboardAt = FactorialAt + 90 /\ WordsAt \in Nat
      /\ \/ Extra = 2 /\ "keyboard" \in Devices
         \/ Extra = 0 /\ "keyboard" \notin Devices
      /\ {"sp", "a0", "a1", "a2", "at", "ra", "zero"} \subseteq Registers
      /\ reg["zero"] = 0
  BY StartThere
<1>2. /\ Labels["stack"] = WordsAt /\ Labels["ti_inthandler"] = TimerAt
      /\ Labels["factorial"] = FactorialAt
      /\ "keyboard" \in Devices => Labels["keyboard_handler"] = KeyboardAt
  BY Addresses
<1>3. WordsAt \in Int /\ TimerAt \in Int /\ FactorialAt \in Int /\ KeyboardAt \in Int
      /\ Argument \in Int /\ Top \in Int
  BY <1>1, RoomFacts
<1> DEFINE e == IF pc \in {16, 17} THEN "sp" ELSE IF pc = FactorialAt - 4 THEN "at" ELSE "a0"
           v == IF pc = 16 THEN WordsAt ELSE IF pc = 17 THEN Top
                ELSE IF pc = 18 THEN TimerAt ELSE IF pc = FactorialAt - 4 THEN FactorialAt
                ELSE IF pc = FactorialAt - 3 THEN Argument ELSE KeyboardAt
<1>4. Computes(e, v)
  <2>1. CASE pc = 16
    <3>1. Computes("sp", Labels["stack"])
      BY <1>1, <1>2, <1>3, <2>1, MainCode, DoLa
    <3> QED BY <1>2, <2>1, <3>1
  <2>2. CASE pc = 17
    <3>1. Computes("sp", Load(reg["sp"] + 0))
      BY <1>1, <2>2, MainCode, DoLw
    <3>2. reg["sp"] + 0 = WordsAt /\ WordsAt \in DOMAIN mem /\ mem[WordsAt] = Top
      BY <1>1, <2>2 DEF StartOK
    <3>3. Load(reg["sp"] + 0) = Top
      BY <3>2 DEF Load
    <3>4. e = "sp" /\ v = Top
      BY <2>2
    <3> QED BY <3>1, <3>3, <3>4
  <2>3. CASE pc = 18
    <3>1. Computes("a0", Labels["ti_inthandler"])
      BY <1>1, <1>2, <1>3, <2>3, MainCode, DoLa
    <3>2. e = "a0" /\ v = TimerAt
      BY <1>1, <2>3
    <3> QED BY <1>2, <3>1, <3>2
  <2>4. CASE pc = FactorialAt - 4
    <3>1. Computes("at", Labels["factorial"])
      BY <1>1, <1>2, <1>3, <2>4, MainCode, DoLa
    <3>2. e = "at" /\ v = FactorialAt
      BY <1>1, <2>4
    <3> QED BY <1>2, <3>1, <3>2
  <2>5. CASE pc = FactorialAt - 3
    <3>1. Computes("a0", reg["zero"] + Argument)
      BY <1>1, <1>3, <2>5, MainCode, DoAddi
    <3>2. e = "a0" /\ v = Argument /\ reg["zero"] + Argument = Argument
      BY <1>1, <1>3, <2>5
    <3> QED BY <3>1, <3>2
  <2>6. CASE pc = 20 /\ Extra = 2
    <3>1. Computes("a0", Labels["keyboard_handler"])
      BY <1>1, <1>2, <1>3, <2>6, MainCode, DoLa
    <3>2. e = "a0" /\ v = KeyboardAt
      BY <1>1, <2>6
    <3> QED BY <1>1, <1>2, <2>6, <3>1, <3>2
  <2> QED BY <2>1, <2>2, <2>3, <2>4, <2>5, <2>6
<1>5. /\ pc # FactorialAt - 1 /\ pc \in Int /\ (pc + 1 >= FactorialAt - 4 <=> pc >= FactorialAt - 4)
      /\ pc + 1 >= 20 => pc >= 20
      /\ pc + 1 >= 22 /\ Extra = 2 => pc >= 22
  BY <1>1
<1>6. /\ pc = 16 => e = "sp" /\ v = WordsAt
      /\ pc = 17 => e = "sp" /\ v = Top
      /\ pc = 18 => e = "a0" /\ v = TimerAt
      /\ pc = FactorialAt - 4 => e = "at" /\ v = FactorialAt
      /\ pc = FactorialAt - 3 => e = "a0" /\ v = Argument
      /\ pc = 20 /\ Extra = 2 => e = "a0" /\ v = KeyboardAt
      /\ e \in {"sp", "at", "a0"}
  BY <1>1
<1> HIDE DEF e, v
<1>7. TypeOK'
  BY <1>1, <1>4, ComputesType
<1>8. /\ pc' = pc + 1 /\ ie' = ie /\ mem' = mem /\ Counts' = Counts /\ reg'[e] = v
      /\ reg'["a1"] = reg["a1"] /\ reg'["a2"] = reg["a2"]
      /\ e # "sp" => reg'["sp"] = reg["sp"]
      /\ e # "at" => reg'["at"] = reg["at"]
  BY <1>1, <1>4, <1>6 DEF Computes
<1>9. VectorsOK(mem', pc + 1)
  BY <1>1, <1>5, <1>8 DEF VectorsOK
<1>10. StartOK(mem', pc + 1, reg')
  <2>1. /\ pc + 1 <= 17 => pc = 16
        /\ pc + 1 >= 18 => pc = 17 \/ pc >= 18
        /\ pc + 1 = 19 => pc = 18
        /\ pc + 1 = 21 /\ Extra = 2 => pc = 20
        /\ pc + 1 = FactorialAt - 2 => pc = FactorialAt - 3
        /\ pc + 1 \in {FactorialAt - 3, FactorialAt - 2} =>
             pc = FactorialAt - 4 \/ pc = FactorialAt - 3
        /\ pc >= 18 => e # "sp"
    BY <1>1, <1>6
  <2>2. /\ pc <= 17 => WordsAt \in DOMAIN mem /\ mem[WordsAt] = Top
        /\ pc >= 18 => reg["sp"] = Top
        /\ pc = FactorialAt - 3 => reg["at"] = FactorialAt
    BY <1>1 DEF StartOK
  <2>3. pc + 1 <= 17 => WordsAt \in DOMAIN mem' /\ mem'[WordsAt] = Top
    BY <1>8, <2>1, <2>2
  <2>4. pc + 1 = 17 => reg'["sp"] = WordsAt
    BY <1>1, <1>6, <1>8
  <2>5. pc + 1 >= 18 => reg'["sp"] = Top
    BY <1>6, <1>8, <2>1, <2>2
  <2>6. /\ pc + 1 = 19 => reg'["a0"] = TimerAt
        /\ pc + 1 = 21 /\ Extra = 2 => reg'["a0"] = KeyboardAt
        /\ pc + 1 = FactorialAt - 2 => reg'["a0"] = Argument
    BY <1>6, <1>8, <2>1
  <2>7. pc + 1 \in {FactorialAt - 3, FactorialAt - 2} => reg'["at"] = FactorialAt
    <3>1. pc = FactorialAt - 4 => reg'["at"] = FactorialAt
      BY <1>6, <1>8
    <3>2. pc = FactorialAt - 3 => reg'["at"] = FactorialAt
      BY <1>6, <1>8, <2>2
    <3> QED BY <2>1, <3>1, <3>2
  <2> QED BY <2>3, <2>4, <2>5, <2>6, <2>7 DEF StartOK
<1> QED BY <1>1, <1>5, <1>7, <1>8, <1>9, <1>10, StartCalm

\* The vectors are installed.
LEMMA StartInstalls ==
  ASSUME NEW most, InStart(most), pc = 19 \/ (pc = 21 /\ Extra = 2)
  PROVE  MainDone(most)
<1>1. /\ TypeOK /\ Step /\ pc \in 16 .. FactorialAt - 1 /\ StartOK(mem, pc, reg)
      /\ VectorsOK(mem, pc) /\ (ie <=> pc >= FactorialAt - 4)
      /\ most \in Nat /\ MemoryOK(mem, most)
      /\ FactorialAt = 25 + Extra /\ TimerAt = FactorialAt + 35
      /\ KeyboardAt = FactorialAt + 90 /\ WordsAt \in Nat
      /\ KeyboardAt <= WordsAt /\ (Extra = 2 => KeyboardAt < WordsAt)
      /\ \/ Extra = 2 /\ "keyboard" \in Devices
         \/ Extra = 0 /\ "keyboard" \notin Devices
      /\ {"sp", "a0", "a1", "a2", "at", "ra", "zero"} \subseteq Registers
      /\ reg["zero"] = 0
  BY StartThere
<1> DEFINE w == IF pc = 19 THEN 1 ELSE 2
           v == IF pc = 19 THEN TimerAt ELSE KeyboardAt
<1>2. Fetch(pc) = Sw("a0", "zero", w)
  BY <1>1, MainCode
<1>3. reg["a0"] = v
  BY <1>1 DEF StartOK
<1>4. Stores(w, v)
  <2>1. Stores(reg["zero"] + w, reg["a0"])
    BY <1>1, <1>2, DoSw
  <2>2. reg["zero"] + w = w
    BY <1>1
  <2> QED BY <1>3, <2>1, <2>2
<1>5. /\ w \in {1, 2} /\ v \in 0 .. WordsAt - 1 /\ v \in Int
      /\ (pc = 19 => w = 1 /\ v = TimerAt) /\ (pc = 21 => w = 2 /\ v = KeyboardAt)
  BY <1>1
<1> HIDE DEF w, v
<1>6. TypeOK'
  BY <1>1, <1>4, <1>5, StoresType
<1>7. /\ pc' = pc + 1 /\ ie' = ie /\ reg' = reg /\ Counts' = Counts
      /\ DOMAIN mem' = DOMAIN mem \cup {w} /\ mem'[w] = v
      /\ \A a \in DOMAIN mem : a # w => mem'[a] = mem[a]
  BY <1>4 DEF Stores
<1>8. MemoryOK(mem', most)
  <2>1. /\ WordsAt \in Nat /\ 99 <= WordsAt /\ Top = 10485760 /\ Floor \in Nat
        /\ WordsAt + 5 < Floor /\ DOMAIN mem \subseteq Int
    BY <1>1, RoomFacts DEF TypeOK
  <2>2. \A n \in 0 .. 4 : WordsAt + n \in DOMAIN mem'
    BY <1>1, <1>7 DEF MemoryOK
  <2>3. ASSUME NEW a \in DOMAIN mem'
        PROVE  /\ a < WordsAt => mem'[a] \in 0 .. WordsAt - 1
               /\ WordsAt <= a /\ a < Floor => mem'[a] >= Top
               /\ a >= Top => mem'[a] \in 0 .. most
    <3>1. CASE a = w
      BY <1>5, <1>7, <2>1, <3>1
    <3>2. CASE a # w
      BY <1>1, <1>7, <3>2 DEF MemoryOK
    <3> QED BY <3>1, <3>2
  <2> QED BY <2>2, <2>3 DEF MemoryOK
<1>9. VectorsOK(mem', pc + 1)
  <2>1. CASE pc = 19
    BY <1>5, <1>7, <2>1 DEF VectorsOK
  <2>2. CASE pc = 21
    <3>1. 1 \in DOMAIN mem /\ mem[1] = TimerAt
      BY <1>1, <2>2 DEF VectorsOK
    <3> QED BY <1>5, <1>7, <2>2, <3>1 DEF VectorsOK
  <2> QED BY <2>1, <2>2
<1>10. StartOK(mem', pc + 1, reg')
  <2>1. reg["sp"] = Top
    BY <1>1 DEF StartOK
  <2>2. pc + 1 \in {20, 22} /\ pc + 1 < FactorialAt - 3
    BY <1>1
  <2> QED BY <1>1, <1>7, <2>1, <2>2 DEF StartOK
<1>11. pc # FactorialAt - 1 /\ (pc + 1 >= FactorialAt - 4 <=> pc >= FactorialAt - 4)
  BY <1>1
<1> QED BY <1>1, <1>6, <1>7, <1>8, <1>9, <1>10, <1>11, StartCalm

LEMMA StartEnables ==
  ASSUME NEW most, InStart(most), pc = FactorialAt - 5
  PROVE  MainDone(most)
<1>1. /\ TypeOK /\ Step /\ pc \in 16 .. FactorialAt - 1 /\ StartOK(mem, pc, reg)
      /\ VectorsOK(mem, pc) /\ most \in Nat /\ MemoryOK(mem, most)
      /\ FactorialAt = 25 + Extra /\ TimerAt = FactorialAt + 35
      /\ \/ Extra = 2 /\ "keyboard" \in Devices
         \/ Extra = 0 /\ "keyboard" \notin Devices
  BY StartThere
<1>2. Fetch(pc) = Ei
  BY MainCode
<1>3. /\ pc' = pc + 1 /\ ie' = TRUE /\ reg' = reg /\ mem' = mem /\ Counts' = Counts
  BY <1>1, <1>2, DoEnable
<1>4. TypeOK'
  BY <1>1, <1>3 DEF TypeOK, Counts
<1>5. pc \in {20, 22} /\ pc + 1 = FactorialAt - 4
  BY <1>1
<1>6. VectorsOK(mem', pc + 1)
  BY <1>1, <1>3, <1>5 DEF VectorsOK
<1>7. StartOK(mem', pc + 1, reg')
  BY <1>1, <1>3, <1>5 DEF StartOK
<1>8. pc # FactorialAt - 1 /\ pc + 1 >= FactorialAt - 4
  BY <1>1, <1>5
<1> QED BY <1>1, <1>3, <1>4, <1>6, <1>7, <1>8, StartCalm

LEMMA StartCalls ==
  ASSUME NEW most, InStart(most), pc = FactorialAt - 2
  PROVE  MainDone(most)
<1>1. /\ TypeOK /\ Step /\ pc \in 16 .. FactorialAt - 1 /\ StartOK(mem, pc, reg)
      /\ VectorsOK(mem, pc) /\ (ie <=> pc >= FactorialAt - 4)
      /\ most \in Nat /\ MemoryOK(mem, most)
      /\ FactorialAt = 25 + Extra /\ TimerAt = FactorialAt + 35
      /\ KeyboardAt = FactorialAt + 90
      /\ \/ Extra = 2 /\ "keyboard" \in Devices
         \/ Extra = 0 /\ "keyboard" \notin Devices
      /\ {"sp", "a0", "a1", "a2", "at", "ra", "zero"} \subseteq Registers
  BY StartThere
<1>2. Fetch(pc) = Jalr("at", "ra")
  BY MainCode
<1>3. /\ pc' = reg["at"] /\ ie' = ie /\ mem' = mem /\ Counts' = Counts
      /\ reg' \in [Registers -> Int] /\ reg'["ra"] = pc + 1
      /\ \A r \in Registers : r # "ra" => reg'[r] = reg[r]
  BY <1>1, <1>2, DoJalr
<1>4. reg["at"] = FactorialAt /\ reg["a0"] = Argument /\ reg["sp"] = Top
  BY <1>1 DEF StartOK
<1>5. TypeOK'
  <2>1. pc' \in Int /\ "zero" \in Registers /\ reg'["zero"] = reg["zero"]
    BY <1>1, <1>3, <1>4
  <2> QED BY <1>1, <1>3, <2>1 DEF TypeOK, Counts
<1>6. /\ reg'["sp"] = Top /\ reg'["a0"] = Argument /\ reg'["ra"] = FactorialAt - 1
      /\ reg'["a1"] = reg["a1"] /\ reg'["a2"] = reg["a2"]
  BY <1>1, <1>3, <1>4
<1>7. FactorialOK(mem', 0, 0, reg')
  <2>1. Framed(0) = 0 /\ Top \in Int /\ Argument \in Nat
    BY RoomFacts DEF Framed
  <2> QED BY <1>6, <2>1 DEF FactorialOK, ReturnOf
<1>8. MainOK(mem', pc', reg')
  <2>1. pc' - FactorialAt = 0 /\ 0 \in 0 .. Argument
    BY <1>1, <1>3, <1>4, RoomFacts
  <2>2. VectorsOK(mem', pc')
    BY <1>1, <1>3 DEF VectorsOK
  <2> QED BY <1>7, <2>1, <2>2 DEF MainOK
<1>9. ie' <=> Enabled(pc')
  BY <1>1, <1>3, <1>4 DEF Enabled
<1> QED BY <1>1, <1>3, <1>5, <1>6, <1>8, <1>9 DEF MainDone

LEMMA MainStep ==
  ASSUME NEW most, MainReady(most)
  PROVE  MainDone(most)
<1>1. CASE pc \in 16 .. FactorialAt - 1 /\ StartOK(mem, pc, reg)
  <2>1. InStart(most)
    BY <1>1 DEF InStart
  <2>2. FactorialAt = 25 + Extra /\ Extra \in {0, 2} /\ pc \in 16 .. FactorialAt - 1 /\ Step
    BY <2>1, StartThere
  <2>3. pc # FactorialAt - 1
    <3>1. Fetch(pc).op # "halt"
      BY <2>2 DEF Step, Running
    <3> QED BY <3>1, MainCode DEF Halt
  <2>4. \/ pc \in {16, 17, 18} \/ (pc = 20 /\ Extra = 2)
        \/ pc = FactorialAt - 4 \/ pc = FactorialAt - 3
        \/ pc = 19 \/ (pc = 21 /\ Extra = 2)
        \/ pc = FactorialAt - 5 \/ pc = FactorialAt - 2
    BY <2>2, <2>3
  <2> QED BY <2>1, <2>4, StartComputes, StartInstalls, StartEnables, StartCalls
<1>2. CASE \E j \in 0 .. Argument : FactorialOK(mem, pc - FactorialAt, j, reg)
  <2>1. PICK j \in 0 .. Argument : FactorialOK(mem, pc - FactorialAt, j, reg)
    BY <1>2
  <2>2. pc = FactorialAt + (pc - FactorialAt)
    BY AddressFacts DEF MainReady, TypeOK
  <2>3. InFunction(pc - FactorialAt, j, most)
    BY <2>1, <2>2 DEF InFunction
  <2> QED BY <2>3, FunctionStep
<1> QED BY <1>1, <1>2 DEF MainReady, MainOK

-----------------------------------------------------------------------------
(* A step of a handler, and what it does to the levels below.              *)

LEMMA StoredFacts ==
  ASSUME NEW d \in {"timer", "keyboard"}, NEW o \in 0 .. End(d)
  PROVE  /\ Pushed(d, o) \in 0 .. 7 /\ Stored(d, o) \in 0 .. 7 /\ Stored(d, o) <= Pushed(d, o)
         /\ EnabledIn(d, o) => o \notin K0Kept(d)
         /\ (o = 0 \/ o = End(d)) =>
              /\ Pushed(d, o) = 0 /\ Stored(d, o) = 0 /\ o \in A0Kept(d) /\ o \in K0Kept(d)
              /\ ~ EnabledIn(d, o) /\ ~ PastStore(d, o) /\ ~ AtStore(d, o)
<1>1. CASE d = "timer"
  BY <1>1 DEF End, Pushed, Stored, StoreAt, EnabledIn, K0Kept, A0Kept, PastStore, AtStore
<1>2. CASE d = "keyboard"
  BY <1>2 DEF End, Pushed, Stored, StoreAt, EnabledIn, K0Kept, A0Kept, PastStore, AtStore
<1> QED BY <1>1, <1>2

\* What the invariant says of the counts.
LEMMA CountFacts ==
  ASSUME IInv
  PROVE  /\ Depth \in Nat /\ Depth <= MaxInterrupts /\ active \in Seq(Frames)
         /\ \A k \in 1 .. Depth : active[k] \in Frames
         /\ (active = <<>> <=> Depth = 0)
         /\ Owes \subseteq 1 .. Depth /\ IsFiniteSet(Owes) /\ Cardinality(Owes) \in Nat
         /\ Cardinality(Owes) <= ticks
         /\ Most \in Nat /\ WordsAt + 4 <= Most /\ Most < Floor /\ key <= Most
         /\ Most = WordsAt + 4 + ticks + key - Cardinality(Owes)
         /\ ticks \in Nat /\ key \in Nat /\ WordsAt \in Nat
<1>1. /\ TypeOK /\ Counted /\ Cardinality(Owes) <= ticks
  BY DEF IInv, MemoryKept
<1>2. active \in Seq(Frames) /\ ticks \in Nat /\ key \in Nat /\ spent \in Nat
  BY <1>1 DEF TypeOK
<1>3. Depth \in Nat /\ \A k \in 1 .. Depth : active[k] \in Frames
  BY <1>2 DEF Depth
<1>4. active = <<>> <=> Depth = 0
  BY <1>2 DEF Depth
<1>5. MaxInterrupts \in Nat /\ WordsAt \in Nat /\ Floor = WordsAt + 5 + MaxInterrupts
  BY RoomFacts DEF Floor
<1>6. Depth <= MaxInterrupts /\ ticks + key <= MaxInterrupts
  BY <1>1, <1>2, <1>3, <1>5 DEF Counted
<1>7. Owes \subseteq 1 .. Depth
  BY DEF Owes
<1>8. IsFiniteSet(1 .. Depth)
  BY <1>3, FS_Interval
<1>9. IsFiniteSet(Owes) /\ Cardinality(Owes) \in Nat
  <2>1. IsFiniteSet(Owes)
    BY <1>7, <1>8, FS_Subset
  <2> QED BY <2>1, FS_CardinalityType
<1>10. Most = WordsAt + 4 + ticks + key - Cardinality(Owes)
  BY DEF Most
<1> QED BY <1>1, <1>2, <1>3, <1>4, <1>5, <1>6, <1>7, <1>9, <1>10

LEMMA LevelFacts ==
  ASSUME IInv, NEW k \in 1 .. Depth
  PROVE  /\ active[k] \in Frames /\ active[k].reg["sp"] \in Int /\ LevelOK(k)
         /\ active[k].reg \in [Registers -> Int] /\ active[k].pc \in Int
         /\ Floor <= active[k].reg["sp"] - 7 /\ active[k].reg["sp"] <= Top
         /\ Enabled(active[k].pc) /\ active[k].key <= key /\ active[k].key \in Nat
         /\ Top - 4 * (Argument + 1) - 7 * (k - 1) <= active[k].reg["sp"]
         /\ LevelPc(k - 1) = active[k].pc /\ LevelReg(k - 1) = active[k].reg
<1>1. Depth \in Nat /\ Depth <= MaxInterrupts /\ active[k] \in Frames
  BY CountFacts
<1>2. /\ active[k].reg["sp"] \in Int /\ active[k].reg \in [Registers -> Int]
      /\ active[k].pc \in Int /\ active[k].key \in Nat
  BY <1>1, FrameFacts
<1>3. LevelOK(k)
  BY DEF IInv, Levels
<1>4. /\ Top - 4 * (Argument + 1) - 7 * (k - 1) <= active[k].reg["sp"]
      /\ active[k].reg["sp"] <= Top /\ Enabled(active[k].pc) /\ active[k].key <= key
  BY <1>3 DEF LevelOK
<1>5. Floor <= active[k].reg["sp"] - 7
  <2>1. /\ Floor + 4 * (Argument + 1) + 7 * MaxInterrupts <= Top
        /\ Floor \in Nat /\ Argument \in Nat /\ MaxInterrupts \in Nat /\ Top \in Int
    BY RoomFacts
  <2>2. k <= MaxInterrupts /\ k \in Int
    BY <1>1, <2>1
  <2> HIDE DEF Floor, Top
  <2> QED BY <1>2, <1>4, <2>1, <2>2
<1>6. k - 1 < Depth /\ (k - 1) + 1 = k
  BY <1>1
<1>7. LevelPc(k - 1) = active[k].pc /\ LevelReg(k - 1) = active[k].reg
  BY <1>6 DEF LevelPc, LevelReg
<1> QED BY <1>1, <1>2, <1>3, <1>4, <1>5, <1>7

LEMMA LastLevel ==
  LevelPc(Depth) = pc /\ LevelReg(Depth) = reg
BY DEF LevelPc, LevelReg, Depth

\* What a handler keeps in place, as far as its own level and those below go.
LEMMA MainSpared ==
  ASSUME TypeOK, NEW b \in Frames, Spares(b), NEW p \in Int, Enabled(p), NEW r,
         MainOK(mem, p, r), b.reg["sp"] <= r["sp"]
  PROVE  MainOK(mem', p, r)
<1>1. DOMAIN mem \subseteq Int
  BY DEF TypeOK
<1>2. b.reg["sp"] \in Int /\ Top \in Int /\ Argument \in Nat
  BY FrameFacts, RoomFacts
<1>3. /\ \A a \in DOMAIN mem :
           a \in {1, 2} \/ (b.reg["sp"] <= a /\ a < Top) => a \in DOMAIN mem' /\ mem'[a] = mem[a]
  BY DEF Spares
<1>4. VectorsOK(mem, p)
  BY DEF MainOK
<1>5. VectorsOK(mem', p)
  BY <1>3, <1>4 DEF VectorsOK
<1>6. FactorialAt \in {25, 27} /\ TimerAt = FactorialAt + 35
  BY AddressFacts
<1>7. CASE p \in 16 .. FactorialAt - 1 /\ StartOK(mem, p, r)
  <2>1. ~ (p <= 17)
    BY <1>6, <1>7 DEF Enabled
  <2>2. StartOK(mem', p, r)
    BY <1>7, <2>1 DEF StartOK
  <2> QED BY <1>5, <1>7, <2>2 DEF MainOK
<1>8. CASE \E j \in 0 .. Argument : FactorialOK(mem, p - FactorialAt, j, r)
  <2>1. PICK j \in 0 .. Argument : FactorialOK(mem, p - FactorialAt, j, r)
    BY <1>8
  <2> DEFINE f == p - FactorialAt
  <2>2. /\ f \in 0 .. 34 /\ r["sp"] = Top - 4 * j - Framed(f)
        /\ \A i \in 0 .. j : i < j \/ f \in 2 .. 33 =>
             Top - 4 * i - 1 \in DOMAIN mem /\ mem[Top - 4 * i - 1] = ReturnOf(i)
    BY <2>1 DEF FactorialOK
  <2> HIDE DEF f
  <2>3. Framed(f) \in 0 .. 4 /\ (f \in 2 .. 33 => Framed(f) >= 1)
    BY <2>2 DEF Framed
  <2>4. ASSUME NEW i \in 0 .. j, i < j \/ f \in 2 .. 33
        PROVE  Top - 4 * i - 1 \in DOMAIN mem' /\ mem'[Top - 4 * i - 1] = ReturnOf(i)
    <3>1. b.reg["sp"] <= Top - 4 * i - 1 /\ Top - 4 * i - 1 < Top
      BY <1>2, <2>2, <2>3, <2>4
    <3> QED BY <1>3, <2>2, <2>4, <3>1
  <2>5. FactorialOK(mem', p - FactorialAt, j, r)
    BY <2>1, <2>4 DEF FactorialOK, f
  <2> QED BY <1>5, <2>5 DEF MainOK
<1> QED BY <1>7, <1>8 DEF MainOK

LEMMA HandlerSpared ==
  ASSUME NEW b \in Frames, Spares(b), NEW d \in Devices, NEW c \in Frames, NEW p \in Int,
         NEW r, HandlerOK(mem, d, c, p, r), b.reg["sp"] <= r["sp"], c.reg["sp"] <= Top
  PROVE  HandlerOK(mem', d, c, p, r)
<1>1. d \in {"timer", "keyboard"}
  BY StartFacts
<1>2. b.reg["sp"] \in Int /\ c.reg["sp"] \in Int /\ Top \in Int
  BY FrameFacts, RoomFacts
<1> DEFINE o == p - Start(d)
<1>3. /\ o \in 0 .. End(d) /\ r["sp"] = c.reg["sp"] - Pushed(d, o)
      /\ StackOK(mem, d, c, Stored(d, o))
  BY DEF HandlerOK
<1> HIDE DEF o
<1>4. Pushed(d, o) \in 0 .. 7 /\ Stored(d, o) \in 0 .. 7 /\ Stored(d, o) <= Pushed(d, o)
  BY <1>1, <1>3, StoredFacts
<1>5. StackOK(mem', d, c, Stored(d, o))
  <2> SUFFICES ASSUME NEW i \in 1 .. Stored(d, o)
               PROVE  /\ c.reg["sp"] - i \in DOMAIN mem'
                      /\ mem'[c.reg["sp"] - i] = Entered(c, Slots(d)[i])
    BY DEF StackOK
  <2>1. /\ c.reg["sp"] - i \in DOMAIN mem
        /\ mem[c.reg["sp"] - i] = Entered(c, Slots(d)[i])
    BY <1>3 DEF StackOK
  <2>2. b.reg["sp"] <= c.reg["sp"] - i /\ c.reg["sp"] - i < Top
    BY <1>2, <1>3, <1>4
  <2> QED BY <2>1, <2>2 DEF Spares
<1> QED BY <1>5 DEF HandlerOK, o

\* A handler or the program that goes on with the registers it had, but for
\* those that a handler does not save, where interrupts are enabled.
LEMMA MainResumes ==
  ASSUME NEW m, NEW p \in Int, NEW q, NEW r, MainOK(m, p, q),
         \A e \in {"zero", "at", "v0", "s0", "s1", "ra", "a0", "sp"} : r[e] = q[e]
  PROVE  MainOK(m, p, r)
<1>1. /\ r["sp"] = q["sp"] /\ r["a0"] = q["a0"] /\ r["ra"] = q["ra"] /\ r["at"] = q["at"]
  OBVIOUS
<1>2. StartOK(m, p, q) => StartOK(m, p, r)
  BY <1>1 DEF StartOK
<1>3. \A j : FactorialOK(m, p - FactorialAt, j, q) => FactorialOK(m, p - FactorialAt, j, r)
  BY <1>1 DEF FactorialOK
<1> QED BY <1>2, <1>3 DEF MainOK

LEMMA HandlerResumes ==
  ASSUME NEW m, NEW d \in Devices, NEW c, NEW p \in Int, NEW q, NEW r,
         HandlerOK(m, d, c, p, q), Enabled(p),
         \A e \in {"zero", "at", "v0", "s0", "s1", "ra", "a0", "sp"} : r[e] = q[e]
  PROVE  HandlerOK(m, d, c, p, r)
<1>1. /\ r["sp"] = q["sp"] /\ r["a0"] = q["a0"] /\ \A e \in Kept : r[e] = q[e]
  BY DEF Kept
<1> DEFINE o == p - Start(d)
<1>2. o \in 0 .. End(d)
  BY DEF HandlerOK
<1>3. o \notin K0Kept(d)
  <2>1. d \in {"timer", "keyboard"}
    BY StartFacts
  <2>2. EnabledIn(d, o)
    BY <1>2, EnabledIs
  <2> QED BY <1>2, <2>1, <2>2, StoredFacts
<1>4. Body(d, o, c, q) <=> Body(d, o, c, r)
  BY <1>1 DEF Body
<1> QED BY <1>1, <1>3, <1>4 DEF HandlerOK

\* Where interrupts are enabled, the stack of the program is within its frames.
LEMMA MainStack ==
  ASSUME NEW m, NEW p \in Int, Enabled(p), NEW r, MainOK(m, p, r)
  PROVE  /\ Top - 4 * (Argument + 1) <= r["sp"] /\ r["sp"] <= Top
         /\ 1 \in DOMAIN m /\ m[1] = TimerAt
         /\ "keyboard" \in Devices => 2 \in DOMAIN m /\ m[2] = KeyboardAt
<1>1. /\ FactorialAt = 25 + Extra /\ Extra \in {0, 2} /\ TimerAt = FactorialAt + 35
      /\ "keyboard" \in Devices => Extra = 2
      /\ KeyboardAt = FactorialAt + 90 /\ Argument \in Nat /\ Top \in Int
  BY AddressFacts, RoomFacts
<1>2. CASE p \in 16 .. FactorialAt - 1 /\ StartOK(m, p, r)
  <2>1. p >= FactorialAt - 4
    BY <1>1, <1>2 DEF Enabled
  <2>2. r["sp"] = Top
    BY <1>1, <1>2, <2>1 DEF StartOK
  <2>3. p >= 20 /\ ("keyboard" \in Devices => p >= 22)
    BY <1>1, <2>1
  <2> QED BY <1>1, <2>2, <2>3 DEF MainOK, VectorsOK
<1>3. CASE \E j \in 0 .. Argument : FactorialOK(m, p - FactorialAt, j, r)
  <2>1. PICK j \in 0 .. Argument : FactorialOK(m, p - FactorialAt, j, r)
    BY <1>3
  <2>2. p - FactorialAt \in 0 .. 34 /\ r["sp"] = Top - 4 * j - Framed(p - FactorialAt)
    BY <2>1 DEF FactorialOK
  <2>3. Framed(p - FactorialAt) \in 0 .. 4
    BY <2>2 DEF Framed
  <2>4. p >= 22
    BY <1>1, <2>2
  <2> QED BY <1>1, <2>2, <2>3, <2>4 DEF MainOK, VectorsOK
<1> QED BY <1>2, <1>3 DEF MainOK

\* The tests of an address by which levels are told apart.
LEMMA Apart ==
  ASSUME NEW d \in {"timer", "keyboard"}, NEW p \in Int, p - Start(d) \in 0 .. End(d)
  PROVE  /\ Owing("timer", p - TimerAt) <=> Owing(d, p - Start(d))
         /\ AtStore("keyboard", p - KeyboardAt) <=> AtStore(d, p - Start(d))
         /\ PastStore("keyboard", p - KeyboardAt) <=> PastStore(d, p - Start(d))
         /\ p - KeyboardAt \in 0 .. 4 <=> d = "keyboard" /\ p - Start(d) \in 0 .. 4
<1>1. KeyboardAt = TimerAt + 55 /\ TimerAt \in Nat
  BY AddressFacts
<1>2. CASE d = "timer"
  <2>1. p - TimerAt \in 0 .. 54 /\ Start(d) = TimerAt
    BY <1>2 DEF Start, End
  <2>2. p - KeyboardAt < 0 /\ p - KeyboardAt \in Int
    BY <1>1, <2>1
  <2> QED BY <1>2, <2>1, <2>2 DEF Owing, AtStore, PastStore
<1>3. CASE d = "keyboard"
  <2>1. p - KeyboardAt \in 0 .. 36 /\ Start(d) = KeyboardAt
    BY <1>3 DEF Start, End
  <2>2. p - TimerAt >= 55 /\ p - TimerAt \in Int
    BY <1>1, <2>1
  <2> QED BY <1>3, <2>1, <2>2 DEF Owing, AtStore, PastStore
<1> QED BY <1>2, <1>3

LEMMA Below ==
  ASSUME active' = active
  PROVE  /\ Depth' = Depth
         /\ \A k : k < Depth => LevelPc(k)' = LevelPc(k) /\ LevelReg(k)' = LevelReg(k)
         /\ \A k : ~ (k < Depth) => LevelPc(k)' = pc' /\ LevelReg(k)' = reg'
BY DEF Depth, LevelPc, LevelReg

LEMMA ProgramStep ==
  ASSUME IInv, Step, Depth = 0
  PROVE  IInv' /\ active' = active
<1>1. /\ TypeOK /\ Levels /\ MemoryKept /\ Counted
  BY DEF IInv
<1>2. /\ Most \in Nat /\ Owes \subseteq 1 .. Depth /\ (active = <<>> <=> Depth = 0)
  BY CountFacts
<1>3. MainReady(Most)
  <2>1. LevelPc(0) = pc /\ LevelReg(0) = reg
    BY LastLevel
  <2> QED BY <1>1, <1>2, <2>1 DEF MainReady, Levels, MemoryKept
<1>4. MainDone(Most)
  BY <1>3, MainStep
<1>5. /\ active' = active /\ ticks' = ticks /\ key' = key /\ nested' = nested /\ spent' = spent
  BY <1>4 DEF MainDone, Counts
<1>6. /\ Depth' = 0 /\ LevelPc(0)' = pc' /\ LevelReg(0)' = reg'
  BY <1>5, Below
<1>7. Owes = {} /\ Owes' = {}
  BY <1>2, <1>6 DEF Owes
<1>8. Cardinality(Owes)' = Cardinality(Owes) /\ Most' = Most
  BY <1>5, <1>7 DEF Most
<1>9. Levels'
  BY <1>4, <1>6 DEF Levels, MainDone
<1>10. MemoryKept'
  <2>1. PointersKept'
    BY <1>6 DEF PointersKept
  <2> QED BY <1>1, <1>4, <1>5, <1>8, <2>1 DEF MemoryKept, MainDone
<1>11. KeyThere' /\ Counted'
  BY <1>1, <1>2, <1>5, <1>6 DEF KeyThere, Counted
<1> QED BY <1>4, <1>5, <1>9, <1>10, <1>11 DEF IInv, MainDone

\* A step of a handler of d.
InHandler(d) ==
  /\ IInv /\ Step /\ Depth # 0 /\ d \in Devices
  /\ HandlerOK(mem, d, active[Depth], pc, reg)

LEMMA SomeHandler ==
  ASSUME IInv, Step, Depth # 0
  PROVE  \E d \in Devices : InHandler(d)
<1>1. Depth \in 1 .. Depth
  BY CountFacts
<1>2. LevelOK(Depth)
  BY <1>1, LevelFacts
<1> QED BY <1>2, LastLevel DEF LevelOK, InHandler

LEMMA HandlerReady ==
  ASSUME NEW d, InHandler(d)
  PROVE  Ready(d, active[Depth], Most)
<1>1. /\ TypeOK /\ Levels /\ MemoryKept /\ KeyThere /\ Counted /\ Step /\ d \in Devices
      /\ HandlerOK(mem, d, active[Depth], pc, reg) /\ IInv
  BY DEF IInv, InHandler
<1>2. /\ Depth \in 1 .. Depth /\ Depth \in Nat /\ active # <<>>
      /\ Most \in Nat /\ WordsAt + 4 <= Most /\ Most < Floor /\ key <= Most
      /\ key \in Nat
  BY <1>1, CountFacts DEF InHandler
<1>3. /\ active[Depth] \in Frames
      /\ Floor <= active[Depth].reg["sp"] - 7 /\ active[Depth].reg["sp"] <= Top
      /\ active[Depth].key <= key /\ active[Depth].key \in Nat
  BY <1>1, <1>2, LevelFacts
<1>4. active[Depth].key <= Most
  BY <1>2, <1>3
<1>5. ie <=> Enabled(pc)
  BY <1>1 DEF Levels
<1>6. PastStore(d, pc - Start(d)) => reg["a2"] >= Top
  <2> SUFFICES ASSUME PastStore(d, pc - Start(d)) PROVE reg["a2"] >= Top
    OBVIOUS
  <2>1. d = "keyboard" /\ PastStore("keyboard", pc - KeyboardAt)
    BY DEF PastStore, Start
  <2>2. PastStore("keyboard", LevelPc(Depth) - KeyboardAt)
    BY <2>1, LastLevel
  <2>3. Depth + 1 .. Depth = {}
    BY <1>2
  <2> QED BY <1>1, <1>2, <2>2, <2>3 DEF MemoryKept, PointersKept
<1>7. d = "keyboard" /\ pc - Start(d) \in 0 .. 4 => active[Depth].key = key
  BY <1>1, <1>2 DEF KeyThere, Start
<1>8. MemoryOK(mem, Most) /\ reg["a1"] \in 0 .. Most /\ PointerOK(reg["a2"])
  BY <1>1 DEF MemoryKept
<1> QED BY <1>1, <1>2, <1>3, <1>4, <1>5, <1>6, <1>7, <1>8 DEF Ready

\* How what a step of a handler owes changes.
LEMMA OwesSame ==
  ASSUME IInv, active' = active,
         Owing("timer", pc' - TimerAt) <=> Owing("timer", pc - TimerAt)
  PROVE  Owes' = Owes
<1>1. Depth' = Depth /\ Depth \in Nat
  BY Below, CountFacts
<1>2. \A k \in 1 .. Depth : Owing("timer", LevelPc(k)' - TimerAt) <=> Owing("timer", LevelPc(k) - TimerAt)
  <2> TAKE k \in 1 .. Depth
  <2>1. CASE k < Depth
    BY <2>1, Below
  <2>2. CASE ~ (k < Depth)
    <3>1. LevelPc(k)' = pc' /\ LevelPc(k) = pc
      BY <2>2, Below DEF LevelPc
    <3> QED BY <3>1
  <2> QED BY <2>1, <2>2
<1> QED BY <1>1, <1>2 DEF Owes

LEMMA OwesLess ==
  ASSUME IInv, active' = active, Depth # 0,
         Owing("timer", pc - TimerAt), ~ Owing("timer", pc' - TimerAt)
  PROVE  /\ Cardinality(Owes)' = Cardinality(Owes) - 1
         /\ Cardinality(Owes) - 1 \in Nat
<1>1. /\ Depth' = Depth /\ Depth \in Nat /\ Owes \subseteq 1 .. Depth /\ IsFiniteSet(Owes)
      /\ Cardinality(Owes) \in Nat
  BY Below, CountFacts
<1>2. Depth \in Owes
  BY <1>1, LastLevel DEF Owes
<1>3. Owes' = Owes \ {Depth}
  <2>1. ASSUME NEW k \in 1 .. Depth, k # Depth
        PROVE  LevelPc(k)' = LevelPc(k)
    BY <1>1, <2>1, Below
  <2>2. LevelPc(Depth)' = pc'
    <3>1. ~ (Depth < Depth)
      BY <1>1
    <3>2. ~ (Depth' < Depth')
      BY <1>1
    <3> QED BY <3>2 DEF LevelPc
  <2>3. \A k \in 1 .. Depth : k # Depth =>
          (Owing("timer", LevelPc(k)' - TimerAt) <=> Owing("timer", LevelPc(k) - TimerAt))
    BY <2>1
  <2>4. ~ Owing("timer", LevelPc(Depth)' - TimerAt)
    BY <2>2
  <2>5. Owes' = {k \in 1 .. Depth : Owing("timer", LevelPc(k)' - TimerAt)}
    BY <1>1 DEF Owes
  <2> QED BY <1>1, <2>3, <2>4, <2>5 DEF Owes
<1>4. Cardinality(Owes \ {Depth}) = Cardinality(Owes) - 1 /\ Cardinality(Owes \ {Depth}) \in Nat
  <2>1. Cardinality(Owes \ {Depth}) = IF Depth \in Owes THEN Cardinality(Owes) - 1 ELSE Cardinality(Owes)
    BY <1>1, FS_RemoveElement
  <2>2. IsFiniteSet(Owes \ {Depth})
    BY <1>1, FS_RemoveElement
  <2> QED BY <1>2, <2>1, <2>2, FS_CardinalityType
<1> QED BY <1>3, <1>4

LEMMA HandlerGoesOn ==
  ASSUME NEW d, InHandler(d), pc - Start(d) # End(d)
  PROVE  IInv' /\ active' = active
<1> DEFINE b == active[Depth]
           o == pc - Start(d)
           q == pc' - Start(d)
<1>1. /\ TypeOK /\ Levels /\ MemoryKept /\ KeyThere /\ Counted /\ Step /\ d \in Devices
      /\ IInv /\ d \in {"timer", "keyboard"}
  BY DevicesAssumption DEF IInv, InHandler
<1>2. Ready(d, b, Most)
  BY HandlerReady
<1>3. Control(d, b) /\ Data(d, Most)
  BY <1>2, HandlerStep
<1>4. /\ TypeOK' /\ HandlerOK(mem', d, b, pc', reg') /\ (ie' <=> Enabled(pc'))
      /\ Spares(b) /\ active' = active /\ ticks' = ticks /\ key' = key
      /\ nested' = nested /\ spent' = spent
  BY <1>3 DEF Control, Counts
<1>5. /\ Depth \in 1 .. Depth /\ Depth \in Nat /\ b \in Frames /\ active # <<>>
      /\ Most \in Nat /\ ticks \in Nat /\ key \in Nat /\ WordsAt \in Nat
      /\ Cardinality(Owes) \in Nat /\ Cardinality(Owes) <= ticks
      /\ Most = WordsAt + 4 + ticks + key - Cardinality(Owes)
  BY <1>1, CountFacts DEF InHandler
<1>6. /\ Depth' = Depth
      /\ \A k : k < Depth => LevelPc(k)' = LevelPc(k) /\ LevelReg(k)' = LevelReg(k)
      /\ \A k : k = Depth => LevelPc(k)' = pc' /\ LevelReg(k)' = reg'
  BY <1>4, <1>5, Below
<1>7. /\ o \in 0 .. End(d) /\ q \in 0 .. End(d)
      /\ pc \in Int /\ pc' \in Int /\ pc = Start(d) + o /\ pc' = Start(d) + q
      /\ o \in Int /\ q \in Int
  <2>1. o \in 0 .. End(d) /\ q \in 0 .. End(d)
    BY <1>4 DEF HandlerOK, InHandler
  <2>2. pc \in Int /\ pc' \in Int /\ Start(d) \in Int
    BY <1>1, <1>4, StartFacts DEF TypeOK
  <2> QED BY <2>1, <2>2
<1>8. /\ Owing("timer", pc - TimerAt) <=> Owing(d, o)
      /\ Owing("timer", pc' - TimerAt) <=> Owing(d, q)
      /\ AtStore("keyboard", pc - KeyboardAt) <=> AtStore(d, o)
      /\ AtStore("keyboard", pc' - KeyboardAt) <=> AtStore(d, q)
      /\ PastStore("keyboard", pc' - KeyboardAt) <=> PastStore(d, q)
      /\ pc - KeyboardAt \in 0 .. 4 <=> d = "keyboard" /\ o \in 0 .. 4
      /\ pc' - KeyboardAt \in 0 .. 4 <=> d = "keyboard" /\ q \in 0 .. 4
  BY <1>1, <1>7, Apart
\* The levels.
<1>9. \A j, k \in 1 .. Depth : j <= k => active[k].reg["sp"] <= active[j].reg["sp"]
  BY <1>1 DEF Levels
<1>10. ASSUME NEW k \in 1 .. Depth
       PROVE  LevelOK(k)'
  <2>1. LevelOK(k)
    BY <1>1, LevelFacts
  <2>2. active[k] \in Frames /\ active[k].reg["sp"] <= Top
    BY <1>1, LevelFacts
  <2>3. \E e \in Devices : HandlerOK(mem', e, active[k], LevelPc(k)', LevelReg(k)')
    <3>1. CASE k = Depth
      BY <1>1, <1>4, <1>6, <3>1
    <3>2. CASE k # Depth
      <4>1. k < Depth /\ k + 1 \in 1 .. Depth /\ k + 1 <= Depth /\ (k + 1) - 1 = k
        BY <1>5, <3>2
      <4>2. LevelPc(k) = active[k + 1].pc /\ LevelReg(k) = active[k + 1].reg
            /\ active[k + 1].pc \in Int
        BY <1>1, <4>1, LevelFacts
      <4>3. b.reg["sp"] <= active[k + 1].reg["sp"]
        BY <1>5, <1>9, <4>1
      <4>4. PICK e \in Devices : HandlerOK(mem, e, active[k], LevelPc(k), LevelReg(k))
        BY <2>1 DEF LevelOK
      <4> HIDE DEF b
      <4>5. HandlerOK(mem', e, active[k], LevelPc(k), LevelReg(k))
        BY <1>4, <1>5, <2>2, <4>2, <4>3, <4>4, HandlerSpared
      <4> QED BY <1>6, <4>1, <4>5
    <3> QED BY <3>1, <3>2
  <2> QED BY <1>4, <2>1, <2>3 DEF LevelOK
<1>11. MainOK(mem', LevelPc(0)', LevelReg(0)')
  <2>1. 1 \in 1 .. Depth /\ 0 < Depth /\ 1 <= Depth
    BY <1>5
  <2>2. /\ LevelPc(1 - 1) = active[1].pc /\ LevelReg(1 - 1) = active[1].reg
        /\ active[1].pc \in Int /\ Enabled(active[1].pc)
    BY <1>1, <2>1, LevelFacts
  <2>3. b.reg["sp"] <= active[1].reg["sp"]
    BY <1>5, <1>9, <2>1
  <2>4. MainOK(mem, active[1].pc, active[1].reg)
    BY <1>1, <2>2 DEF Levels
  <2> HIDE DEF b
  <2>5. MainOK(mem', active[1].pc, active[1].reg)
    BY <1>1, <1>4, <1>5, <2>2, <2>3, <2>4, MainSpared
  <2>6. LevelPc(0)' = active[1].pc /\ LevelReg(0)' = active[1].reg
    BY <1>6, <2>1, <2>2
  <2> QED BY <2>5, <2>6
<1>12. Levels'
  BY <1>4, <1>6, <1>9, <1>10, <1>11 DEF Levels
\* The memory.
<1>14. /\ Owing(d, q) <=> (Owing(d, o) /\ ~ Adds(d, o))
       /\ Adds(d, o) => Owing(d, o)
  BY <1>3 DEF Data, Adds, Owing
<1>15. /\ Most' = IF Adds(d, o) THEN Most + 1 ELSE Most
       /\ Cardinality(Owes)' <= ticks
  <2>1. CASE Adds(d, o)
    <3>1. Cardinality(Owes)' = Cardinality(Owes) - 1
      BY <1>1, <1>4, <1>8, <1>14, <2>1, OwesLess DEF InHandler
    <3>2. Most' = WordsAt + 4 + ticks + key - Cardinality(Owes)'
      BY <1>4 DEF Most
    <3> QED BY <1>5, <2>1, <3>1, <3>2
  <2>2. CASE ~ Adds(d, o)
    <3>1. Owes' = Owes
      BY <1>1, <1>4, <1>8, <1>14, <2>2, OwesSame
    <3>2. Most' = WordsAt + 4 + ticks + key - Cardinality(Owes)'
      BY <1>4 DEF Most
    <3> QED BY <1>5, <2>2, <3>1, <3>2
  <2> QED BY <2>1, <2>2
<1>16. /\ \/ reg'["a2"] >= Top
          \/ AtStore(d, q)
          \/ reg'["a2"] = reg["a2"] /\ ~ AtStore(d, o)
       /\ PastStore(d, q) => reg'["a2"] >= Top
       /\ PointerOK(reg'["a2"]) /\ MemoryOK(mem', Most') /\ reg'["a1"] \in 0 .. Most'
       /\ d = "keyboard" /\ q \in 0 .. 4 => o \in 0 .. 4
  BY <1>3, <1>15 DEF Data
<1>17. PointersKept'
  <2> SUFFICES ASSUME NEW k \in 1 .. Depth,
                      PastStore("keyboard", LevelPc(k)' - KeyboardAt),
                      ~ (reg'["a2"] >= Top)
               PROVE  \E j \in k + 1 .. Depth :
                         AtStore("keyboard", LevelPc(j)' - KeyboardAt)
    BY <1>6 DEF PointersKept
  <2>1. k # Depth
    <3> SUFFICES ASSUME k = Depth PROVE FALSE
      OBVIOUS
    <3>1. PastStore("keyboard", pc' - KeyboardAt)
      BY <1>6
    <3> QED BY <1>8, <1>16, <3>1
  <2>2. k < Depth /\ Depth \in k + 1 .. Depth
    BY <1>5, <2>1
  <2>3. CASE AtStore(d, q)
    <3>1. \A j : j = Depth => AtStore("keyboard", LevelPc(j)' - KeyboardAt)
      BY <1>6, <1>8, <2>3
    <3> QED BY <2>2, <3>1
  <2>4. CASE reg'["a2"] = reg["a2"] /\ ~ AtStore(d, o)
    <3>1. PastStore("keyboard", LevelPc(k) - KeyboardAt) /\ ~ (reg["a2"] >= Top)
      BY <1>6, <2>2, <2>4
    <3>2. PICK j \in k + 1 .. Depth : AtStore("keyboard", LevelPc(j) - KeyboardAt)
      BY <1>1, <3>1 DEF MemoryKept, PointersKept
    <3>3. j # Depth
      <4> SUFFICES ASSUME j = Depth PROVE FALSE
        OBVIOUS
      <4>1. AtStore("keyboard", pc - KeyboardAt)
        BY <3>2, LastLevel
      <4> QED BY <1>8, <2>4, <4>1
    <3>4. j < Depth
      BY <1>5, <3>3
    <3> QED BY <1>6, <3>2, <3>4
  <2> QED BY <1>16, <2>3, <2>4
<1>18. MemoryKept'
  BY <1>4, <1>15, <1>16, <1>17 DEF MemoryKept
<1>19. KeyThere'
  <2> SUFFICES ASSUME pc' - KeyboardAt \in 0 .. 4 PROVE active[Depth].key = key
    BY <1>4, <1>6 DEF KeyThere
  <2>1. pc - KeyboardAt \in 0 .. 4
    BY <1>8, <1>16
  <2> QED BY <1>1, <1>5, <2>1 DEF KeyThere
<1>20. Counted'
  BY <1>1, <1>4, <1>6 DEF Counted
<1> QED BY <1>4, <1>12, <1>18, <1>19, <1>20 DEF IInv

-----------------------------------------------------------------------------
(* A handler returns.                                                      *)

LEMMA FrontFacts ==
  ASSUME IInv, Depth # 0, active' = Front(active)
  PROVE  /\ active' \in Seq(Frames) /\ Depth' = Depth - 1 /\ Depth - 1 \in Nat
         /\ \A k \in 1 .. Depth - 1 : active'[k] = active[k]
         /\ (active' = <<>> <=> Depth - 1 = 0)
<1>1. active \in Seq(Frames) /\ Depth \in Nat /\ Depth = Len(active)
  BY CountFacts DEF Depth
<1>2. active' = SubSeq(active, 1, Depth - 1)
  BY <1>1 DEF Front
<1>3. /\ active' \in Seq(Frames) /\ Len(active') = Depth - 1
      /\ \A k \in 1 .. Depth - 1 : active'[k] = active[k]
  BY <1>1, <1>2
<1>4. Depth' = Len(active')
  BY DEF Depth
<1> QED BY <1>1, <1>3, <1>4

LEMMA AppendFacts ==
  ASSUME IInv, NEW x \in Frames, active' = Append(active, x)
  PROVE  /\ active' \in Seq(Frames) /\ Depth' = Depth + 1
         /\ \A k \in 1 .. Depth : active'[k] = active[k]
         /\ active'[Depth + 1] = x /\ active' # <<>>
<1>1. active \in Seq(Frames) /\ Depth \in Nat /\ Depth = Len(active)
  BY CountFacts DEF Depth
<1>2. /\ active' \in Seq(Frames) /\ Len(active') = Depth + 1
      /\ \A k \in 1 .. Depth : active'[k] = active[k]
      /\ active'[Depth + 1] = x
  BY <1>1
<1>3. Depth' = Len(active')
  BY DEF Depth
<1> QED BY <1>1, <1>2, <1>3

\* The registers that a handler saves, or does not use.
Safe == {"zero", "at", "v0", "s0", "s1", "ra", "a0", "sp"}

\* What the last instruction of a handler does.
Returned(d) ==
  /\ pc' = active[Depth].pc /\ ie' = TRUE /\ active' = Front(active)
  /\ reg' = reg /\ mem' = mem
  /\ ticks' = ticks /\ key' = key /\ nested' = nested /\ spent' = spent
  /\ \A e \in Safe : reg'[e] = active[Depth].reg[e]

LEMMA HandlerReturned ==
  ASSUME NEW d, InHandler(d), pc - Start(d) = End(d)
  PROVE  Returned(d)
<1> DEFINE b == active[Depth]
           o == pc - Start(d)
<1>1. /\ TypeOK /\ Step /\ d \in Devices /\ IInv /\ d \in {"timer", "keyboard"}
      /\ HandlerOK(mem, d, b, pc, reg)
  BY DevicesAssumption DEF IInv, InHandler
<1>2. Depth \in 1 .. Depth /\ b \in Frames /\ b.reg["sp"] \in Int
  BY <1>1, CountFacts, FrameFacts DEF InHandler
<1>3. pc = Start(d) + End(d) /\ o = End(d) /\ o \in 0 .. End(d)
  BY <1>1, <1>2, OffsetFacts DEF HandlerOK
<1>4. Fetch(pc) = Reti
  <2>1. CASE d = "timer"
    BY <1>3, <2>1, TimerCode DEF Start, End
  <2>2. CASE d = "keyboard"
    BY <1>1, <1>3, <2>2, KeyboardCode DEF Start, End
  <2> QED BY <1>1, <2>1, <2>2
<1>5. /\ pc' = reg["k0"] /\ ie' = TRUE /\ active' = Front(active)
      /\ reg' = reg /\ mem' = mem
      /\ ticks' = ticks /\ key' = key /\ nested' = nested /\ spent' = spent
  BY <1>1, <1>4, DoReti
<1>6. Pushed(d, o) = 0 /\ o \in A0Kept(d) /\ o \in K0Kept(d)
  BY <1>1, <1>3, StoredFacts
<1>7. /\ reg["sp"] = b.reg["sp"] - Pushed(d, o)
      /\ \A e \in Kept : reg[e] = b.reg[e]
      /\ reg["a0"] = b.reg["a0"] /\ reg["k0"] = b.pc
  BY <1>1, <1>6 DEF HandlerOK
<1>8. reg["sp"] = b.reg["sp"]
  BY <1>2, <1>6, <1>7
<1>9. \A e \in Safe : reg'[e] = b.reg[e]
  BY <1>5, <1>7, <1>8 DEF Safe, Kept
<1> QED BY <1>5, <1>7, <1>9 DEF Returned

LEMMA HandlerEnds ==
  ASSUME NEW d, InHandler(d), pc - Start(d) = End(d)
  PROVE  IInv'
<1> DEFINE b == active[Depth]
<1>1. /\ TypeOK /\ Levels /\ MemoryKept /\ KeyThere /\ Counted /\ Step /\ d \in Devices
      /\ IInv /\ d \in {"timer", "keyboard"}
  BY DevicesAssumption DEF IInv, InHandler
<1>2. /\ Depth \in 1 .. Depth /\ Depth \in Nat /\ b \in Frames /\ Depth # 0
      /\ ticks \in Nat /\ key \in Nat /\ b.pc \in Int /\ Enabled(b.pc)
      /\ LevelPc(Depth - 1) = b.pc /\ LevelReg(Depth - 1) = b.reg
  <2>1. Depth \in 1 .. Depth /\ Depth \in Nat /\ Depth # 0 /\ ticks \in Nat /\ key \in Nat
    BY <1>1, CountFacts DEF InHandler
  <2>2. /\ b \in Frames /\ b.pc \in Int /\ Enabled(b.pc)
        /\ LevelPc(Depth - 1) = b.pc /\ LevelReg(Depth - 1) = b.reg
    BY <1>1, <2>1, LevelFacts
  <2> QED BY <2>1, <2>2
<1>3. /\ pc' = b.pc /\ ie' = TRUE /\ active' = Front(active)
      /\ reg' = reg /\ mem' = mem
      /\ ticks' = ticks /\ key' = key /\ nested' = nested /\ spent' = spent
      /\ \A e \in Safe : reg[e] = b.reg[e]
  BY HandlerReturned DEF Returned
<1>4. /\ active' \in Seq(Frames) /\ Depth' = Depth - 1 /\ Depth - 1 \in Nat
      /\ \A k \in 1 .. Depth - 1 : active'[k] = active[k]
      /\ (active' = <<>> <=> Depth - 1 = 0)
  BY <1>1, <1>2, <1>3, FrontFacts
<1>5. TypeOK'
  BY <1>1, <1>2, <1>3, <1>4 DEF TypeOK
<1>6. \A k \in 0 .. Depth - 1 : LevelPc(k)' = LevelPc(k)
  <2> TAKE k \in 0 .. Depth - 1
  <2>1. CASE k = Depth - 1
    BY <1>2, <1>3, <1>4, <2>1 DEF LevelPc
  <2>2. CASE k # Depth - 1
    <3>1. k < Depth - 1 /\ k < Depth /\ k + 1 \in 1 .. Depth - 1
      BY <1>2, <2>2
    <3> QED BY <1>4, <3>1 DEF LevelPc
  <2> QED BY <2>1, <2>2
<1>7. \A k \in 0 .. Depth - 1 :
        /\ k = Depth - 1 => LevelReg(k)' = reg
        /\ k # Depth - 1 => LevelReg(k)' = LevelReg(k)
  <2> TAKE k \in 0 .. Depth - 1
  <2>1. CASE k = Depth - 1
    BY <1>2, <1>3, <1>4, <2>1 DEF LevelReg
  <2>2. CASE k # Depth - 1
    <3>1. k < Depth - 1 /\ k < Depth /\ k + 1 \in 1 .. Depth - 1
      BY <1>2, <2>2
    <3> QED BY <1>4, <2>2, <3>1 DEF LevelReg
  <2> QED BY <2>1, <2>2
<1>8. \A e \in {"zero", "at", "v0", "s0", "s1", "ra", "a0", "sp"} : reg[e] = b.reg[e]
  BY <1>3 DEF Safe
\* The levels.
<1>9. MainOK(mem', LevelPc(0)', LevelReg(0)')
  <2>1. MainOK(mem, LevelPc(0), LevelReg(0))
    BY <1>1 DEF Levels
  <2>2. CASE Depth - 1 = 0
    <3>1. MainOK(mem, b.pc, reg)
      BY <1>2, <1>8, <2>1, <2>2, MainResumes
    <3>2. LevelPc(0)' = b.pc /\ LevelReg(0)' = reg
      BY <1>2, <1>6, <1>7, <2>2
    <3> QED BY <1>3, <3>1, <3>2
  <2>3. CASE Depth - 1 # 0
    <3>1. 0 \in 0 .. Depth - 1 /\ 0 # Depth - 1
      BY <1>4, <2>3
    <3> QED BY <1>3, <1>6, <1>7, <2>1, <3>1
  <2> QED BY <2>2, <2>3
<1>10. ASSUME NEW k \in 1 .. Depth - 1
       PROVE  LevelOK(k)'
  <2>1. k \in 1 .. Depth /\ k \in 0 .. Depth - 1
    BY <1>2
  <2>2. LevelOK(k)
    BY <1>1, <2>1, LevelFacts
  <2>3. PICK e \in Devices : HandlerOK(mem, e, active[k], LevelPc(k), LevelReg(k))
    BY <2>2 DEF LevelOK
  <2>4. HandlerOK(mem', e, active[k], LevelPc(k)', LevelReg(k)')
    <3>1. CASE k = Depth - 1
      <4>1. HandlerOK(mem, e, active[k], b.pc, b.reg)
        BY <1>2, <2>3, <3>1
      <4>2. HandlerOK(mem, e, active[k], b.pc, reg)
        BY <1>2, <1>8, <4>1, HandlerResumes
      <4>3. LevelPc(k)' = b.pc /\ LevelReg(k)' = reg
        BY <1>2, <1>6, <1>7, <2>1, <3>1
      <4> QED BY <1>3, <4>2, <4>3
    <3>2. CASE k # Depth - 1
      BY <1>3, <1>6, <1>7, <2>1, <2>3, <3>2
    <3> QED BY <3>1, <3>2
  <2>5. active'[k] = active[k]
    BY <1>4
  <2> QED BY <1>3, <2>2, <2>4, <2>5 DEF LevelOK
<1>11. Levels'
  <2>1. \A j, k \in 1 .. Depth - 1 : j <= k => active'[k].reg["sp"] <= active'[j].reg["sp"]
    <3>1. \A k \in 1 .. Depth - 1 : k \in 1 .. Depth
      BY <1>2
    <3> QED BY <1>1, <1>4, <3>1 DEF Levels
  <2>2. ie' <=> Enabled(pc')
    BY <1>2, <1>3
  <2> QED BY <1>4, <1>9, <1>10, <2>1, <2>2 DEF Levels
\* The memory.
<1>12. /\ ~ Owing("timer", pc - TimerAt)
       /\ ~ PastStore("keyboard", pc - KeyboardAt) /\ ~ AtStore("keyboard", pc - KeyboardAt)
  <2>1. pc \in Int /\ pc - Start(d) \in 0 .. End(d)
    BY <1>1 DEF TypeOK, InHandler, HandlerOK
  <2>2. ~ Owing(d, End(d)) /\ ~ PastStore(d, End(d)) /\ ~ AtStore(d, End(d))
    BY <1>1 DEF Owing, PastStore, AtStore, End
  <2> QED BY <1>1, <2>1, <2>2, Apart
<1>13. Owes' = Owes
  <2>1. Depth \notin Owes
    BY <1>12, LastLevel DEF Owes
  <2>2. \A k \in 1 .. Depth : k # Depth => k \in 1 .. Depth - 1 /\ k \in 0 .. Depth - 1
    BY <1>2
  <2>3. \A k \in 1 .. Depth - 1 : k \in 1 .. Depth /\ k \in 0 .. Depth - 1
    BY <1>2
  <2>4. Owes' = {k \in 1 .. Depth - 1 : Owing("timer", LevelPc(k)' - TimerAt)}
    BY <1>4 DEF Owes
  <2>5. Owes' = {k \in 1 .. Depth - 1 : Owing("timer", LevelPc(k) - TimerAt)}
    BY <1>6, <2>3, <2>4
  <2> QED BY <2>1, <2>2, <2>3, <2>5 DEF Owes
<1>14. Most' = Most
  BY <1>3, <1>13 DEF Most
<1>15. PointersKept'
  <2> SUFFICES ASSUME NEW k \in 1 .. Depth - 1,
                      PastStore("keyboard", LevelPc(k)' - KeyboardAt),
                      ~ (reg'["a2"] >= Top)
               PROVE  \E j \in k + 1 .. Depth - 1 :
                         AtStore("keyboard", LevelPc(j)' - KeyboardAt)
    BY <1>4 DEF PointersKept
  <2>1. k \in 1 .. Depth /\ k \in 0 .. Depth - 1
    BY <1>2
  <2>2. PastStore("keyboard", LevelPc(k) - KeyboardAt) /\ ~ (reg["a2"] >= Top)
    BY <1>3, <1>6, <2>1
  <2>3. PICK j \in k + 1 .. Depth : AtStore("keyboard", LevelPc(j) - KeyboardAt)
    BY <1>1, <2>1, <2>2 DEF MemoryKept, PointersKept
  <2>4. j # Depth
    BY <1>12, <2>3, LastLevel
  <2>5. j \in k + 1 .. Depth - 1 /\ j \in 0 .. Depth - 1
    BY <1>2, <2>4
  <2> QED BY <1>6, <2>3, <2>5
<1>16. MemoryKept'
  BY <1>1, <1>3, <1>13, <1>14, <1>15 DEF MemoryKept
<1>17. KeyThere'
  <2>1. ~ (pc' - KeyboardAt \in 0 .. 4)
    <3>1. /\ KeyboardAt = TimerAt + 55 /\ TimerAt \in Nat /\ FactorialAt < TimerAt
          /\ FactorialAt \in Nat
      BY AddressFacts
    <3> QED BY <1>2, <1>3, <3>1 DEF Enabled
  <2> QED BY <2>1 DEF KeyThere
<1>18. Counted'
  BY <1>1, <1>2, <1>3, <1>4 DEF Counted
<1> QED BY <1>5, <1>11, <1>16, <1>17, <1>18 DEF IInv

-----------------------------------------------------------------------------
(* An interrupt.                                                           *)

\* What an interrupt of d does.
Interrupted(d) ==
  LET x == [pc |-> pc, reg |-> reg, key |-> key'] IN
  /\ d \in Devices /\ ie /\ ie' = FALSE
  /\ pc' = Start(d) /\ mem' = mem
  /\ reg' \in [Registers -> Int] /\ reg'["k0"] = pc
  /\ \A e \in Registers : e # "k0" => reg'[e] = reg[e]
  /\ x \in Frames /\ active' = Append(active, x)
  /\ spent' \in Nat /\ spent' <= MaxInterrupts
  /\ ticks' + key' <= spent' /\ nested' \in BOOLEAN
  /\ ticks' = (IF d = "timer" THEN ticks + 1 ELSE ticks)
  /\ key' = (IF d = "timer" THEN key ELSE key + 1)

LEMMA HereEnabled ==
  ASSUME IInv, ie
  PROVE  /\ Enabled(pc) /\ pc \in Int
         /\ 1 \in DOMAIN mem /\ mem[1] = TimerAt
         /\ "keyboard" \in Devices => 2 \in DOMAIN mem /\ mem[2] = KeyboardAt
         /\ Top - 4 * (Argument + 1) - 7 * Depth <= reg["sp"] /\ reg["sp"] <= Top
         /\ \A k \in 1 .. Depth : reg["sp"] <= active[k].reg["sp"]
<1>1. Enabled(pc) /\ pc \in Int /\ Levels /\ TypeOK
  BY DEF IInv, Levels, TypeOK
<1>2. Depth \in Nat
  BY CountFacts
<1>3. MainOK(mem, LevelPc(0), LevelReg(0))
  BY <1>1 DEF Levels
<1>4. reg["sp"] \in Int /\ Top \in Int /\ Argument \in Nat
  BY <1>1, RoomFacts DEF TypeOK, Registers
<1>5. CASE Depth = 0
  <2>1. LevelPc(0) = pc /\ LevelReg(0) = reg
    BY <1>5, LastLevel
  <2>2. /\ Top - 4 * (Argument + 1) <= reg["sp"] /\ reg["sp"] <= Top
        /\ 1 \in DOMAIN mem /\ mem[1] = TimerAt
        /\ "keyboard" \in Devices => 2 \in DOMAIN mem /\ mem[2] = KeyboardAt
    BY <1>1, <1>3, <2>1, MainStack
  <2>3. \A k \in 1 .. Depth : FALSE
    BY <1>5
  <2>4. Top - 4 * (Argument + 1) - 7 * Depth = Top - 4 * (Argument + 1)
    BY <1>4, <1>5
  <2> QED BY <1>1, <2>2, <2>3, <2>4
<1>6. CASE Depth # 0
  <2>1. 1 \in 1 .. Depth /\ Depth \in 1 .. Depth /\ \A k \in 1 .. Depth : k <= Depth
    BY <1>2, <1>6
  <2>2. /\ active[1].pc \in Int /\ Enabled(active[1].pc)
        /\ LevelPc(1 - 1) = active[1].pc /\ LevelReg(1 - 1) = active[1].reg
    BY <2>1, LevelFacts
  <2>3. /\ 1 \in DOMAIN mem /\ mem[1] = TimerAt
        /\ "keyboard" \in Devices => 2 \in DOMAIN mem /\ mem[2] = KeyboardAt
    <3>1. MainOK(mem, active[1].pc, active[1].reg)
      BY <1>3, <2>2
    <3> QED BY <2>2, <3>1, MainStack
  <2>4. /\ active[Depth].reg["sp"] \in Int /\ LevelOK(Depth)
        /\ Top - 4 * (Argument + 1) - 7 * (Depth - 1) <= active[Depth].reg["sp"]
        /\ active[Depth].reg["sp"] <= Top
    BY <2>1, LevelFacts
  <2>5. PICK d \in Devices : HandlerOK(mem, d, active[Depth], pc, reg)
    BY <2>4, LastLevel DEF LevelOK
  <2>6. /\ pc - Start(d) \in 0 .. End(d) /\ d \in {"timer", "keyboard"}
        /\ reg["sp"] = active[Depth].reg["sp"] - Pushed(d, pc - Start(d))
    BY <2>5, DevicesAssumption DEF HandlerOK
  <2>7. Pushed(d, pc - Start(d)) \in 0 .. 7
    BY <2>6, StoredFacts
  <2>8. /\ reg["sp"] <= active[Depth].reg["sp"] /\ reg["sp"] >= active[Depth].reg["sp"] - 7
        /\ reg["sp"] <= Top
    BY <1>4, <2>4, <2>6, <2>7
  <2>9. Top - 4 * (Argument + 1) - 7 * Depth <= reg["sp"]
    BY <1>2, <1>4, <2>4, <2>8
  <2>10. ASSUME NEW k \in 1 .. Depth
         PROVE  reg["sp"] <= active[k].reg["sp"]
    <3>1. active[Depth].reg["sp"] <= active[k].reg["sp"]
      BY <1>1, <2>1 DEF Levels
    <3>2. active[k].reg["sp"] \in Int
      BY LevelFacts
    <3> QED BY <1>4, <2>4, <2>8, <3>1, <3>2
  <2> QED BY <1>1, <2>3, <2>8, <2>9, <2>10
<1> QED BY <1>5, <1>6

LEMMA DoInterrupt ==
  ASSUME IInv, NEW d,
         \/ d = "timer" /\ ticks' = ticks + 1 /\ key' = key /\ Interrupt(d, 1)
         \/ d = "keyboard" /\ key' = key + 1 /\ ticks' = ticks /\ Interrupt(d, 2)
  PROVE  Interrupted(d)
<1>1. /\ d \in Devices /\ ie /\ ie' = FALSE /\ mem' = mem
      /\ spent' = spent + (IF pc < Labels["factorial"] THEN 1 ELSE 2)
      /\ spent' <= MaxInterrupts
      /\ reg' = [reg EXCEPT !["k0"] = pc]
      /\ active' = Append(active, [pc |-> pc, reg |-> reg, key |-> key'])
      /\ nested' = (nested \/ active # <<>>)
      /\ d = "timer" => pc' = Load(1) /\ ticks' = ticks + 1 /\ key' = key
      /\ d = "keyboard" => pc' = Load(2) /\ key' = key + 1 /\ ticks' = ticks
      /\ d \in {"timer", "keyboard"}
  BY DEF Interrupt
<1>2. TypeOK /\ Counted
  BY DEF IInv
<1>3. /\ pc \in Int /\ reg \in [Registers -> Int] /\ "k0" \in Registers /\ ticks \in Nat
      /\ key \in Nat /\ spent \in Nat /\ nested \in BOOLEAN
  BY <1>2 DEF TypeOK, Registers
<1>4. /\ 1 \in DOMAIN mem /\ mem[1] = TimerAt
      /\ "keyboard" \in Devices => 2 \in DOMAIN mem /\ mem[2] = KeyboardAt
  BY <1>1, HereEnabled
<1>5. pc' = Start(d)
  BY <1>1, <1>4 DEF Load, Start
<1>6. /\ reg' \in [Registers -> Int] /\ reg'["k0"] = pc
      /\ \A e \in Registers : e # "k0" => reg'[e] = reg[e]
  BY <1>1, <1>3
<1>7. /\ ticks' = (IF d = "timer" THEN ticks + 1 ELSE ticks)
      /\ key' = (IF d = "timer" THEN key ELSE key + 1)
  BY <1>1
<1>8. [pc |-> pc, reg |-> reg, key |-> key'] \in Frames
  BY <1>3, <1>7 DEF Frames
<1>9. spent' \in Nat /\ ticks' + key' <= spent'
  <2>1. ticks + key <= spent
    BY <1>2 DEF Counted
  <2>2. spent' = spent + 1 \/ spent' = spent + 2
    BY <1>1
  <2> QED BY <1>3, <1>7, <2>1, <2>2
<1>10. nested' \in BOOLEAN
  BY <1>1
<1> QED BY <1>1, <1>5, <1>6, <1>7, <1>8, <1>9, <1>10 DEF Interrupted

LEMMA InterruptKeeps ==
  ASSUME IInv, NEW d, Interrupted(d)
  PROVE  IInv'
<1> DEFINE x == [pc |-> pc, reg |-> reg, key |-> key']
<1>1. /\ TypeOK /\ Levels /\ MemoryKept /\ KeyThere /\ Counted
      /\ d \in Devices /\ d \in {"timer", "keyboard"}
  BY DevicesAssumption DEF IInv, Interrupted
<1>2. /\ ie /\ ie' = FALSE /\ pc' = Start(d) /\ mem' = mem
      /\ reg' \in [Registers -> Int] /\ reg'["k0"] = pc
      /\ \A e \in Registers : e # "k0" => reg'[e] = reg[e]
      /\ x \in Frames /\ active' = Append(active, x)
      /\ spent' \in Nat /\ spent' <= MaxInterrupts
      /\ ticks' + key' <= spent' /\ nested' \in BOOLEAN
      /\ ticks' = (IF d = "timer" THEN ticks + 1 ELSE ticks)
      /\ key' = (IF d = "timer" THEN key ELSE key + 1)
  BY DEF Interrupted
<1>3. x.pc = pc /\ x.reg = reg /\ x.key = key'
  OBVIOUS
<1> HIDE DEF x
<1>4. /\ active' \in Seq(Frames) /\ Depth' = Depth + 1
      /\ \A k \in 1 .. Depth : active'[k] = active[k]
      /\ active'[Depth + 1] = x /\ active' # <<>>
  BY <1>2, AppendFacts
<1>5. /\ Depth \in Nat /\ ticks \in Nat /\ key \in Nat /\ WordsAt \in Nat
      /\ Owes \subseteq 1 .. Depth /\ IsFiniteSet(Owes)
      /\ Cardinality(Owes) \in Nat /\ Cardinality(Owes) <= ticks
      /\ Most \in Nat /\ Most = WordsAt + 4 + ticks + key - Cardinality(Owes)
  BY CountFacts
<1>6. Start(d) \in Int /\ pc \in Int /\ Enabled(pc)
  BY <1>1, <1>2, StartFacts, HereEnabled
<1>7. /\ "zero" \in Registers /\ "sp" \in Registers /\ "a0" \in Registers /\ "a1" \in Registers
      /\ "a2" \in Registers /\ Kept \subseteq Registers /\ "k0" \notin Kept
  BY DEF Registers, Kept
<1>8. TypeOK'
  <2>1. ticks' \in Nat /\ key' \in Nat
    BY <1>2, <1>5
  <2> QED BY <1>1, <1>2, <1>4, <1>6, <1>7, <2>1 DEF TypeOK
\* The levels.
<1>9. \A k \in 0 .. Depth : LevelPc(k)' = LevelPc(k) /\ LevelReg(k)' = LevelReg(k)
  <2> TAKE k \in 0 .. Depth
  <2>0. k < Depth'
    BY <1>4, <1>5
  <2>1. CASE k = Depth
    BY <1>3, <1>4, <2>0, <2>1 DEF LevelPc, LevelReg
  <2>2. CASE k # Depth
    <3>1. k < Depth /\ k + 1 \in 1 .. Depth
      BY <1>5, <2>2
    <3> QED BY <1>4, <2>0, <3>1 DEF LevelPc, LevelReg
  <2> QED BY <2>1, <2>2
<1>10. \A k : k = Depth + 1 => LevelPc(k)' = Start(d) /\ LevelReg(k)' = reg'
  BY <1>2, <1>4, <1>5 DEF LevelPc, LevelReg
<1>11. HandlerOK(mem', d, x, Start(d), reg')
  <2>1. /\ 0 \in 0 .. End(d) /\ Pushed(d, 0) = 0 /\ Stored(d, 0) = 0 /\ 0 \in A0Kept(d)
        /\ 0 \in K0Kept(d)
    <3>1. 0 \in 0 .. End(d)
      BY <1>1, StartFacts
    <3> QED BY <1>1, <3>1, StoredFacts
  <2>2. Start(d) - Start(d) = 0
    BY <1>6
  <2>3. reg'["sp"] = x.reg["sp"] - 0
    BY <1>2, <1>3, <1>7, <1>1 DEF TypeOK
  <2>4. \A e \in Kept : reg'[e] = x.reg[e]
    BY <1>2, <1>3, <1>7
  <2>5. reg'["a0"] = x.reg["a0"] /\ reg'["k0"] = x.pc
    BY <1>2, <1>3, <1>7
  <2>6. Body(d, 0, x, reg')
    BY DEF Body
  <2>7. StackOK(mem', d, x, 0)
    BY DEF StackOK
  <2> QED BY <2>1, <2>2, <2>3, <2>4, <2>5, <2>6, <2>7 DEF HandlerOK
<1>12. /\ Top - 4 * (Argument + 1) - 7 * Depth <= reg["sp"] /\ reg["sp"] <= Top
       /\ \A k \in 1 .. Depth : reg["sp"] <= active[k].reg["sp"]
       /\ reg["sp"] \in Int /\ reg["sp"] <= reg["sp"]
  BY <1>1, <1>2, <1>7, HereEnabled DEF TypeOK
<1>13. MainOK(mem', LevelPc(0)', LevelReg(0)')
  <2>1. MainOK(mem, LevelPc(0), LevelReg(0)) /\ 0 \in 0 .. Depth
    BY <1>1, <1>5 DEF Levels
  <2> QED BY <1>2, <1>9, <2>1
<1>14. key' >= key /\ key' \in Nat
  BY <1>2, <1>5
<1>15. ASSUME NEW k \in 1 .. Depth + 1
       PROVE  LevelOK(k)'
  <2>1. CASE k = Depth + 1
    <3>1. active'[k] = x /\ LevelPc(k)' = Start(d) /\ LevelReg(k)' = reg'
      BY <1>4, <1>10, <2>1
    <3>2. HandlerOK(mem', d, active'[k], LevelPc(k)', LevelReg(k)')
      BY <1>11, <3>1
    <3>3. Enabled(active'[k].pc) /\ active'[k].key <= key'
      BY <1>3, <1>6, <1>14, <3>1
    <3>4. k - 1 = Depth
      BY <1>5, <2>1
    <3>5. /\ Top - 4 * (Argument + 1) - 7 * (k - 1) <= active'[k].reg["sp"]
          /\ active'[k].reg["sp"] <= Top
      BY <1>3, <1>12, <3>1, <3>4
    <3> QED BY <1>1, <3>2, <3>3, <3>5 DEF LevelOK
  <2>2. CASE k # Depth + 1
    <3>1. k \in 1 .. Depth /\ k \in 0 .. Depth
      BY <1>5, <2>2
    <3>2. LevelOK(k) /\ active[k].key \in Nat /\ active'[k] = active[k]
      BY <1>4, <3>1, LevelFacts
    <3>3. LevelPc(k)' = LevelPc(k) /\ LevelReg(k)' = LevelReg(k)
      BY <1>9, <3>1
    <3>4. active'[k].key <= key'
      BY <1>5, <1>14, <3>2 DEF LevelOK
    <3> QED BY <1>2, <3>2, <3>3, <3>4 DEF LevelOK
  <2> QED BY <2>1, <2>2
<1>16. ASSUME NEW j \in 1 .. Depth + 1, NEW k \in 1 .. Depth + 1, j <= k
       PROVE  active'[k].reg["sp"] <= active'[j].reg["sp"]
  <2>1. CASE k = Depth + 1 /\ j = Depth + 1
    BY <1>3, <1>4, <1>12, <2>1
  <2>2. CASE k = Depth + 1 /\ j # Depth + 1
    <3>1. j \in 1 .. Depth
      BY <1>5, <2>2
    <3> QED BY <1>3, <1>4, <1>12, <2>2, <3>1
  <2>3. CASE k # Depth + 1
    <3>1. j \in 1 .. Depth /\ k \in 1 .. Depth
      BY <1>5, <1>16, <2>3
    <3> QED BY <1>1, <1>4, <1>16, <3>1 DEF Levels
  <2> QED BY <2>1, <2>2, <2>3
<1>17. ~ Enabled(pc')
  <2>1. 0 \in 0 .. End(d) /\ Start(d) - Start(d) = 0
    BY <1>1, <1>6, StartFacts
  <2>2. ~ EnabledIn(d, 0)
    BY <1>1, <2>1, StoredFacts
  <2> QED BY <1>1, <1>2, <1>6, <2>1, <2>2, EnabledIs
<1>18. Levels'
  BY <1>2, <1>4, <1>13, <1>15, <1>16, <1>17 DEF Levels
\* The memory.
<1>19. /\ Owing("timer", Start(d) - TimerAt) <=> d = "timer"
       /\ ~ PastStore("keyboard", Start(d) - KeyboardAt)
  <2>1. Start(d) - Start(d) = 0 /\ 0 \in 0 .. End(d)
    BY <1>1, <1>6, StartFacts
  <2>2. (Owing(d, 0) <=> d = "timer") /\ ~ PastStore(d, 0)
    BY <1>1 DEF Owing, PastStore
  <2> QED BY <1>1, <1>6, <2>1, <2>2, Apart
<1>20. Owes' = IF d = "timer" THEN Owes \cup {Depth + 1} ELSE Owes
  <2>1. Owes' = {k \in 1 .. Depth + 1 : Owing("timer", LevelPc(k)' - TimerAt)}
    BY <1>4 DEF Owes
  <2>2. \A k \in 1 .. Depth : k \in 1 .. Depth + 1 /\ k \in 0 .. Depth /\ k # Depth + 1
    BY <1>5
  <2>3. \A k \in 1 .. Depth + 1 : k # Depth + 1 => k \in 1 .. Depth
    BY <1>5
  <2>4. Depth + 1 \in 1 .. Depth + 1
    BY <1>5
  <2>5. \A k \in 1 .. Depth : (Owing("timer", LevelPc(k)' - TimerAt) <=> Owing("timer", LevelPc(k) - TimerAt))
    BY <1>9, <2>2
  <2>6. \A k : k = Depth + 1 => (Owing("timer", LevelPc(k)' - TimerAt) <=> d = "timer")
    BY <1>10, <1>19
  <2>7. \A k \in 1 .. Depth : k \in Owes' <=> k \in Owes
    BY <2>1, <2>2, <2>5 DEF Owes
  <2>8. Depth + 1 \in Owes' <=> d = "timer"
    BY <2>1, <2>4, <2>6
  <2>9. Owes' \subseteq 1 .. Depth + 1
    BY <2>1
  <2>10. Owes \subseteq 1 .. Depth /\ Depth + 1 \notin Owes
    BY <1>5
  <2>11. CASE d = "timer"
    <3>1. Owes' \subseteq Owes \cup {Depth + 1}
      BY <2>3, <2>7, <2>9
    <3>2. Owes \cup {Depth + 1} \subseteq Owes'
      BY <2>7, <2>8, <2>10, <2>11
    <3> QED BY <2>11, <3>1, <3>2
  <2>12. CASE d # "timer"
    <3>1. Owes' \subseteq Owes
      BY <2>3, <2>7, <2>8, <2>9, <2>12
    <3>2. Owes \subseteq Owes'
      BY <2>7, <2>10
    <3> QED BY <2>12, <3>1, <3>2
  <2> QED BY <2>11, <2>12
<1>21. /\ Cardinality(Owes)' = IF d = "timer" THEN Cardinality(Owes) + 1 ELSE Cardinality(Owes)
  <2>1. Depth + 1 \notin Owes
    BY <1>5
  <2>2. Cardinality(Owes \cup {Depth + 1}) = Cardinality(Owes) + 1
    BY <1>5, <2>1, FS_AddElement
  <2> QED BY <1>20, <2>2
<1>22. /\ Most' = IF d = "timer" THEN Most ELSE Most + 1
       /\ Cardinality(Owes)' <= ticks'
  <2>1. Most' = WordsAt + 4 + ticks' + key' - Cardinality(Owes)'
    BY DEF Most
  <2>2. CASE d = "timer"
    BY <1>2, <1>5, <1>21, <2>1, <2>2
  <2>3. CASE d # "timer"
    BY <1>2, <1>5, <1>21, <2>1, <2>3
  <2> QED BY <2>2, <2>3
<1>23. MemoryOK(mem', Most') /\ reg'["a1"] \in 0 .. Most' /\ PointerOK(reg'["a2"])
  <2>1. MemoryOK(mem, Most) /\ reg["a1"] \in 0 .. Most /\ PointerOK(reg["a2"])
    BY <1>1 DEF MemoryKept
  <2>2. MemoryOK(mem, Most + 1) /\ reg["a1"] \in 0 .. Most + 1
    BY <1>5, <2>1, MemoryMore
  <2>3. reg'["a1"] = reg["a1"] /\ reg'["a2"] = reg["a2"]
    BY <1>2, <1>7
  <2> QED BY <1>2, <1>22, <2>1, <2>2, <2>3
<1>24. PointersKept'
  <2> SUFFICES ASSUME NEW k \in 1 .. Depth + 1,
                      PastStore("keyboard", LevelPc(k)' - KeyboardAt),
                      ~ (reg'["a2"] >= Top)
               PROVE  \E j \in k + 1 .. Depth + 1 :
                         AtStore("keyboard", LevelPc(j)' - KeyboardAt)
    BY <1>4 DEF PointersKept
  <2>1. k # Depth + 1
    BY <1>10, <1>19
  <2>2. k \in 1 .. Depth /\ k \in 0 .. Depth
    BY <1>5, <2>1
  <2>3. PastStore("keyboard", LevelPc(k) - KeyboardAt) /\ ~ (reg["a2"] >= Top)
    BY <1>2, <1>7, <1>9, <2>2
  <2>4. PICK j \in k + 1 .. Depth : AtStore("keyboard", LevelPc(j) - KeyboardAt)
    BY <1>1, <2>2, <2>3 DEF MemoryKept, PointersKept
  <2>5. j \in k + 1 .. Depth + 1 /\ j \in 0 .. Depth
    BY <1>5
  <2> QED BY <1>9, <2>4, <2>5
<1>25. MemoryKept'
  BY <1>22, <1>23, <1>24 DEF MemoryKept
<1>26. KeyThere'
  BY <1>3, <1>4 DEF KeyThere
<1>27. Counted'
  <2>1. Depth' <= ticks' + key'
    BY <1>1, <1>2, <1>4, <1>5 DEF Counted
  <2> QED BY <1>2, <2>1 DEF Counted
<1> QED BY <1>8, <1>18, <1>25, <1>26, <1>27 DEF IInv

-----------------------------------------------------------------------------
(* The first state.                                                        *)

\* The words of the program at its start.
LEMMA FirstMemory ==
  ASSUME Init
  PROVE  /\ DOMAIN mem = {WordsAt, WordsAt + 1, WordsAt + 2, WordsAt + 3, WordsAt + 4}
         /\ mem[WordsAt] = Top /\ \A a \in DOMAIN mem : mem[a] \in Nat /\ mem[a] >= Top
         /\ mem[WordsAt + 1] = Words["seconds"] /\ mem[WordsAt + 2] = Words["minutes"]
         /\ mem[WordsAt + 3] = Words["hours"] /\ mem[WordsAt + 4] = Words["keyboard_out"]
<1>1. mem = [a \in {Labels[l] : l \in DOMAIN Words} |->
               Words[CHOOSE l \in DOMAIN Words : Labels[l] = a]]
  BY DEF Init
<1>2. /\ Labels["stack"] = WordsAt /\ Labels["seconds"] = WordsAt + 1
      /\ Labels["minutes"] = WordsAt + 2 /\ Labels["hours"] = WordsAt + 3
      /\ Labels["keyboard_out"] = WordsAt + 4 /\ WordsAt \in Nat
  BY Addresses, RoomFacts, SMT
<1>3. \A l \in DOMAIN Words : Words[l] \in Nat /\ Words[l] >= Top
  <2> TAKE l \in DOMAIN Words
  <2>1. \/ l = "stack" \/ l = "seconds" \/ l = "minutes" \/ l = "hours"
        \/ l = "keyboard_out"
    BY WordsAre, SMT
  <2>2. Words["stack"] \in Nat /\ Words["stack"] >= Top
    BY WordsAre, SMT DEF Top
  <2>3. Words["seconds"] \in Nat /\ Words["seconds"] >= Top
    BY WordsAre, SMT
  <2>4. Words["minutes"] \in Nat /\ Words["minutes"] >= Top
    BY WordsAre, SMT
  <2>5. Words["hours"] \in Nat /\ Words["hours"] >= Top
    BY WordsAre, SMT
  <2>6. Words["keyboard_out"] \in Nat /\ Words["keyboard_out"] >= Top
    BY WordsAre, SMT
  <2> QED BY <2>1, <2>2, <2>3, <2>4, <2>5, <2>6
<1>4. DOMAIN Words = {"stack", "seconds", "minutes", "hours", "keyboard_out"}
  BY WordsAre, SMT
<1>5. DOMAIN mem = {Labels[l] : l \in DOMAIN Words}
  BY <1>1
<1>6. DOMAIN mem = {WordsAt, WordsAt + 1, WordsAt + 2, WordsAt + 3, WordsAt + 4}
  BY <1>2, <1>4, <1>5
<1>7. ASSUME NEW l \in DOMAIN Words
      PROVE  mem[Labels[l]] = Words[l]
  <2>1. Labels[l] \in {Labels[e] : e \in DOMAIN Words}
    OBVIOUS
  <2>2. \A e \in DOMAIN Words : Labels[e] = Labels[l] => e = l
    BY <1>2, <1>4
  <2>3. (CHOOSE e \in DOMAIN Words : Labels[e] = Labels[l]) = l
    BY <2>2
  <2> QED BY <1>1, <2>1, <2>3
<1>8. mem[WordsAt] = Top
  <2>1. "stack" \in DOMAIN Words
    BY <1>4
  <2> QED BY <1>2, <1>7, <2>1 DEF Top
<1>9. ASSUME NEW a \in DOMAIN mem
      PROVE  mem[a] \in Nat /\ mem[a] >= Top
  <2>1. PICK l \in DOMAIN Words : a = Labels[l]
    BY <1>5
  <2> QED BY <1>3, <1>7, <2>1
<1>10. /\ mem[WordsAt + 1] = Words["seconds"] /\ mem[WordsAt + 2] = Words["minutes"]
       /\ mem[WordsAt + 3] = Words["hours"] /\ mem[WordsAt + 4] = Words["keyboard_out"]
  <2>1. {"seconds", "minutes", "hours", "keyboard_out"} \subseteq DOMAIN Words
    BY <1>4
  <2> QED BY <1>2, <1>7, <2>1
<1> QED BY <1>6, <1>8, <1>9, <1>10

LEMMA Initially ==
  ASSUME Init
  PROVE  IInv
<1>1. /\ pc = 16 /\ ie = FALSE /\ reg = [r \in Registers |-> 0]
      /\ ticks = 0 /\ key = 0 /\ active = <<>> /\ nested = FALSE /\ spent = 0
  BY Addresses DEF Init
<1>2. /\ DOMAIN mem = {WordsAt, WordsAt + 1, WordsAt + 2, WordsAt + 3, WordsAt + 4}
      /\ mem[WordsAt] = Top /\ \A a \in DOMAIN mem : mem[a] \in Nat /\ mem[a] >= Top
  BY FirstMemory
<1>3. /\ WordsAt \in Nat /\ 99 <= WordsAt /\ Top \in Int /\ WordsAt + 4 < Top
      /\ MaxInterrupts \in Nat /\ Floor \in Nat
  BY RoomFacts, SMT
<1>4. /\ FactorialAt \in Nat /\ FactorialAt >= 25 /\ TimerAt = FactorialAt + 35
      /\ KeyboardAt = TimerAt + 55
  BY AddressFacts
<1>5. Depth = 0
  BY <1>1 DEF Depth
<1>6. TypeOK
  <2>1. <<>> \in Seq(Frames)
    OBVIOUS
  <2>2. reg \in [Registers -> Int] /\ reg["zero"] = 0
    BY <1>1 DEF Registers
  <2>3. DOMAIN mem \subseteq Int /\ \A a \in DOMAIN mem : mem[a] \in Int
    <3>1. DOMAIN mem \subseteq Int
      BY <1>2, <1>3, SMT
    <3>2. \A a \in DOMAIN mem : mem[a] \in Int
      BY <1>2
    <3> QED BY <3>1, <3>2
  <2>4. active \in Seq(Frames)
    BY <1>1, <2>1
  <2>5. pc \in Int /\ ticks \in Nat /\ key \in Nat /\ spent \in Nat
    BY <1>1, SMT
  <2>6. ie \in BOOLEAN /\ nested \in BOOLEAN
    BY <1>1, Zenon
  <2> QED BY <2>2, <2>3, <2>4, <2>5, <2>6 DEF TypeOK
<1>7. LevelPc(0) = pc /\ LevelReg(0) = reg
  BY <1>5, LastLevel
<1>8. MainOK(mem, pc, reg)
  <2>1. pc \in 16 .. FactorialAt - 1
    BY <1>1, <1>4
  <2>2. StartOK(mem, pc, reg)
    <3>1. pc # FactorialAt - 3 /\ pc # FactorialAt - 2 /\ pc # 17 /\ pc # 19 /\ pc # 21
          /\ ~ (pc >= 18)
      BY <1>1, <1>4
    <3>2. WordsAt \in DOMAIN mem
      BY <1>2
    <3> QED BY <1>2, <3>1, <3>2 DEF StartOK
  <2>3. VectorsOK(mem, pc)
    BY <1>1 DEF VectorsOK
  <2> QED BY <2>1, <2>2, <2>3 DEF MainOK
<1>9. Levels
  <2>1. 1 .. Depth = {}
    BY <1>5
  <2>2. ~ Enabled(pc)
    BY <1>1, <1>4 DEF Enabled
  <2> QED BY <1>1, <1>7, <1>8, <2>1, <2>2 DEF Levels
<1>10. Owes = {} /\ Cardinality(Owes) = 0 /\ Most = WordsAt + 4
  <2>1. Owes = {}
    BY <1>5 DEF Owes
  <2>2. Cardinality(Owes) = 0
    BY <2>1, FS_EmptySet
  <2> QED BY <1>1, <1>3, <2>1, <2>2 DEF Most
<1>11. MemoryKept
  <2>1. MemoryOK(mem, Most)
    <3>1. ASSUME NEW a \in DOMAIN mem
          PROVE  ~ (a < WordsAt) /\ ~ (a >= Top)
      BY <1>2, <1>3
    <3>2. \A n \in 0 .. 4 : WordsAt + n \in DOMAIN mem
      BY <1>2, <1>3
    <3> QED BY <1>2, <3>1, <3>2 DEF MemoryOK
  <2>2. reg["a1"] = 0 /\ reg["a2"] = 0
    BY <1>1 DEF Registers
  <2>3. PointersKept
    BY <1>5 DEF PointersKept
  <2> QED BY <1>1, <1>3, <1>10, <2>1, <2>2, <2>3 DEF MemoryKept, PointerOK
<1>12. KeyThere /\ Counted
  BY <1>1, <1>3, <1>5 DEF KeyThere, Counted
<1> QED BY <1>6, <1>9, <1>11, <1>12 DEF IInv

LEMMA Unchanged ==
  ASSUME IInv, UNCHANGED vars
  PROVE  IInv'
<1>1. /\ pc' = pc /\ ie' = ie /\ reg' = reg /\ mem' = mem /\ ticks' = ticks /\ key' = key
      /\ active' = active /\ nested' = nested /\ spent' = spent
  BY DEF vars, machine, history
<1>2. Depth' = Depth
  BY <1>1 DEF Depth
<1>3. \A k : LevelPc(k)' = LevelPc(k) /\ LevelReg(k)' = LevelReg(k)
  BY <1>1, <1>2 DEF LevelPc, LevelReg
<1>4. Owes' = Owes
  BY <1>2, <1>3 DEF Owes
<1>5. Most' = Most /\ Cardinality(Owes)' = Cardinality(Owes)
  BY <1>1, <1>4 DEF Most
<1>6. TypeOK' /\ KeyThere' /\ Counted'
  BY <1>1, <1>2 DEF IInv, TypeOK, KeyThere, Counted
<1>7. \A k : LevelOK(k)' <=> LevelOK(k)
  BY <1>1, <1>3 DEF LevelOK
<1>8. Levels'
  BY <1>1, <1>2, <1>3, <1>7 DEF IInv, Levels
<1>9. PointersKept'
  BY <1>1, <1>2, <1>3 DEF IInv, MemoryKept, PointersKept
<1>10. MemoryKept'
  BY <1>1, <1>5, <1>9 DEF IInv, MemoryKept
<1> QED BY <1>6, <1>8, <1>10 DEF IInv

LEMMA InterruptIs ==
  ASSUME IInv, Tick \/ TypeKey
  PROVE  \E d : Interrupted(d)
<1>1. CASE Tick
  <2>1. Interrupted("timer")
    BY <1>1, DoInterrupt DEF Tick
  <2> QED BY <2>1
<1>2. CASE TypeKey
  <2>1. Interrupted("keyboard")
    BY <1>2, DoInterrupt DEF TypeKey
  <2> QED BY <2>1
<1> QED BY <1>1, <1>2

LEMMA Inductive ==
  ASSUME IInv, [Next]_vars
  PROVE  IInv'
<1>1. CASE Step
  <2>1. CASE Depth = 0
    BY <1>1, <2>1, ProgramStep
  <2>2. CASE Depth # 0
    <3>1. PICK d \in Devices : InHandler(d)
      BY <1>1, <2>2, SomeHandler
    <3>2. CASE pc - Start(d) = End(d)
      BY <3>1, <3>2, HandlerEnds
    <3>3. CASE pc - Start(d) # End(d)
      BY <3>1, <3>3, HandlerGoesOn
    <3> QED BY <3>2, <3>3
  <2> QED BY <2>1, <2>2
<1>2. CASE Tick \/ TypeKey
  BY <1>2, InterruptIs, InterruptKeeps
<1>3. CASE UNCHANGED vars
  BY <1>3, Unchanged
<1> QED BY <1>1, <1>2, <1>3 DEF Next

-----------------------------------------------------------------------------
(* What follows from the invariant.                                        *)

\* Every state of the program and its handlers is levelled: each level is at an
\* instruction of its code with its frame on the stack as its entry left it
\* (prj2.s:42-170, prj2-keyboard.s:176-234), and memory holds what it needs.
THEOREM Levelled == Spec => []IInv
<1> USE DEF Spec
<1>1. Init => IInv
  BY Initially
<1>2. IInv /\ [Next]_vars => IInv'
  BY Inductive
<1> QED BY <1>1, <1>2, PTL

LEMMA SafeIs == Registers \ {"k0", "a1", "a2", "a3"} = Safe
BY DEF Registers, Safe

LEMMA Shrinks ==
  ASSUME IInv, [Next]_vars
  PROVE  active # <<>> /\ Len(active') < Len(active) => ReturnOK
<1> SUFFICES ASSUME active # <<>>, Len(active') < Len(active)
             PROVE  ReturnOK
  OBVIOUS
<1>0. /\ Depth \in Nat /\ active \in Seq(Frames) /\ Depth = Len(active) /\ Depth # 0
      /\ Last(active) = active[Depth]
  BY CountFacts DEF Depth, Last
<1>1. active' # active
  BY <1>0
<1>2. ~ (Tick \/ TypeKey)
  <2> SUFFICES ASSUME Tick \/ TypeKey PROVE FALSE
    OBVIOUS
  <2>1. PICK d : Interrupted(d)
    BY InterruptIs
  <2>2. PICK x \in Frames : active' = Append(active, x)
    BY <2>1 DEF Interrupted
  <2>3. Len(active') = Len(active) + 1
    BY <1>0, <2>2
  <2> QED BY <1>0, <2>3
<1>3. Step
  BY <1>1, <1>2 DEF Next, vars, history
<1>4. PICK d \in Devices : InHandler(d)
  BY <1>0, <1>3, SomeHandler
<1>5. pc - Start(d) = End(d)
  BY <1>1, <1>4, HandlerGoesOn
<1>6. Returned(d)
  BY <1>4, <1>5, HandlerReturned
<1>7. /\ pc' = Last(active).pc
      /\ \A r \in Registers \ {"k0", "a1", "a2", "a3"} : reg'[r] = Last(active).reg[r]
  BY <1>0, <1>6, SafeIs DEF Returned
<1> QED BY <1>7 DEF ReturnOK

\* A handler that returns does so to the instruction it interrupted, with every
\* register it saves, and the stack, as it was (prj2.s:152-170).
THEOREM Resumes == Spec => ReturnsIntact
<1>1. IInv /\ [Next]_vars => [active # <<>> /\ Len(active') < Len(active) => ReturnOK]_vars
  BY Shrinks
<1> QED BY <1>1, Levelled, PTL DEF Spec, ReturnsIntact

-----------------------------------------------------------------------------
(* A handler stores its own character.                                     *)

\* The instructions of the program that use memory.
LEMMA ProgramUses ==
  ASSUME NEW p \in 16 .. FactorialAt + 34
  PROVE  /\ Fetch(p).op = "sw" =>
              \/ p = 19 /\ Fetch(p) = Sw("a0", "zero", 1)
              \/ p = 21 /\ Extra = 2 /\ Fetch(p) = Sw("a0", "zero", 2)
              \/ \E f \in {1, 3, 5, 7} : p = FactorialAt + f /\ Fetch(p).s = "sp"
                                           /\ Fetch(p).i = 0
         /\ Fetch(p).op = "lw" =>
              \/ p = 17 /\ Fetch(p) = Lw("sp", "sp", 0)
              \/ \E f \in {26, 28, 30, 32} : p = FactorialAt + f /\ Fetch(p).s = "sp"
                                               /\ Fetch(p).i = 0
         /\ Fetch(p).op # "reti" /\ (Fetch(p).op = "halt" => p = FactorialAt - 1)
<1>1. /\ FactorialAt = 25 + Extra
      /\ Extra = 0 \/ (Extra = 2 /\ "keyboard" \in Devices)
  BY DEF FactorialAt, Extra
<1> DEFINE F(f) == Fetch(FactorialAt + f)
<1>2. CASE p < FactorialAt
  <2>1. /\ Fetch(16) = La("sp", "stack") /\ Fetch(17) = Lw("sp", "sp", 0)
        /\ Fetch(18) = La("a0", "ti_inthandler") /\ Fetch(19) = Sw("a0", "zero", 1)
        /\ "keyboard" \in Devices => /\ Fetch(20) = La("a0", "keyboard_handler")
                                     /\ Fetch(21) = Sw("a0", "zero", 2)
        /\ Fetch(FactorialAt - 5) = Ei /\ Fetch(FactorialAt - 4) = La("at", "factorial")
        /\ Fetch(FactorialAt - 3) = Addi("a0", "zero", Argument)
        /\ Fetch(FactorialAt - 2) = Jalr("at", "ra") /\ Fetch(FactorialAt - 1) = Halt
    BY MainCode
  <2>2. \/ p \in {16, 17, 18, 19} \/ (p \in {20, 21} /\ Extra = 2)
        \/ p = FactorialAt - 5 \/ p = FactorialAt - 4 \/ p = FactorialAt - 3
        \/ p = FactorialAt - 2 \/ p = FactorialAt - 1
    BY <1>1, <1>2
  <2>3. CASE p = 17
    <3>1. Fetch(p) = Lw("sp", "sp", 0)
      BY <2>1, <2>3
    <3> QED BY <2>3, <3>1 DEF Lw
  <2>4. CASE p = 19
    <3>1. Fetch(p) = Sw("a0", "zero", 1)
      BY <2>1, <2>4
    <3> QED BY <2>4, <3>1 DEF Sw
  <2>5. CASE p = 21 /\ Extra = 2
    <3>1. Fetch(p) = Sw("a0", "zero", 2)
      BY <1>1, <2>1, <2>5
    <3> QED BY <2>5, <3>1 DEF Sw
  <2>6. CASE p # 17 /\ p # 19 /\ ~ (p = 21 /\ Extra = 2)
    <3>1. \/ Fetch(p).op \in {"la", "ei", "addi", "jalr"}
          \/ Fetch(p).op = "halt" /\ p = FactorialAt - 1
      <4>1. CASE p \in {16, 18} \/ (p = 20 /\ Extra = 2)
        BY <1>1, <2>1, <4>1 DEF La
      <4>2. CASE p = FactorialAt - 5 \/ p = FactorialAt - 4
        BY <2>1, <4>2 DEF Ei, La
      <4>3. CASE p = FactorialAt - 3 \/ p = FactorialAt - 2
        BY <2>1, <4>3 DEF Addi, Jalr
      <4>4. CASE p = FactorialAt - 1
        BY <2>1, <4>4 DEF Halt
      <4> QED BY <1>1, <2>2, <2>6, <4>1, <4>2, <4>3, <4>4
    <3> QED BY <3>1
  <2> QED BY <2>3, <2>4, <2>5, <2>6
<1>3. CASE p >= FactorialAt
  <2>1. PICK f \in 0 .. 34 : p = FactorialAt + f
    <3>1. p - FactorialAt \in 0 .. 34 /\ p = FactorialAt + (p - FactorialAt)
      BY <1>1, <1>3
    <3> QED BY <3>1
  <2>2. Fetch(p) = F(f)
    BY <2>1
  <2>3. CASE f \in {1, 3, 5, 7}
    <3>1. F(f).op = "sw" /\ F(f).s = "sp" /\ F(f).i = 0
      BY <2>3, FactorialCode DEF Sw
    <3> QED BY <2>1, <2>2, <2>3, <3>1
  <2>4. CASE f \in {26, 28, 30, 32}
    <3>1. F(f).op = "lw" /\ F(f).s = "sp" /\ F(f).i = 0
      BY <2>4, FactorialCode DEF Lw
    <3> QED BY <2>1, <2>2, <2>4, <3>1
  <2>5. CASE f \in {0, 2, 4, 6, 9, 12, 14, 17, 24, 27, 29, 31, 33}
    <3>1. F(f).op = "addi"
      BY <2>5, FactorialCode DEF Addi
    <3> QED BY <2>2, <3>1
  <2>6. CASE f \in {16, 20, 21, 23}
    <3>1. F(f).op = "add"
      BY <2>6, FactorialCode DEF Add
    <3> QED BY <2>2, <3>1
  <2>7. CASE f \in {8, 10, 11, 13, 15, 22, 25}
    <3>1. F(f).op = "beq"
      BY <2>7, FactorialCode DEF Beq, Goto
    <3> QED BY <2>2, <3>1
  <2>8. CASE f \in {18, 19, 34}
    <3>1. F(f).op \in {"la", "jalr"}
      BY <2>8, FactorialCode DEF La, Jalr
    <3> QED BY <2>2, <3>1
  <2> QED BY <2>3, <2>4, <2>5, <2>6, <2>7, <2>8
<1> QED BY <1>1, <1>2, <1>3

\* Those of a handler: it uses the stack, and these.
LEMMA HandlerUses ==
  ASSUME NEW d \in Devices, NEW o \in 0 .. End(d)
  PROVE  LET i == Fetch(Start(d) + o) IN
         /\ i.op = "sw" => \/ o \in StoreAt(d) /\ i.s = "sp" /\ i.i = 0
                           \/ d = "timer" /\ o \in {21, 24, 30, 33, 38} /\ i.s = "a0" /\ i.i = 0
                           \/ d = "keyboard" /\ o = 18 /\ i.s = "a2" /\ i.i = 0
                           \/ d = "keyboard" /\ o = 20 /\ i.s = "a1" /\ i.i = 0
         /\ i.op = "lw" => \/ o \in LoadAt(d) /\ i.s = "sp" /\ i.i = 0
                           \/ d = "timer" /\ o \in {16, 17, 26, 27, 35, 36} /\ i.s = "a0" /\ i.i = 0
                           \/ d = "keyboard" /\ o = 17 /\ i.s = "a1" /\ i.i = 0
         /\ i.op # "halt"
<1> DEFINE i == Fetch(Start(d) + o)
<1>0. d \in {"timer", "keyboard"}
  BY DevicesAssumption
<1>1. CASE o \in StoreAt(d)
  <2>1. i = Sw(Slots(d)[Pushed(d, o)], "sp", 0)
    BY <1>1, StackCode
  <2> QED BY <1>1, <2>1 DEF Sw
<1>2. CASE o \in LoadAt(d)
  <2>1. i = Lw(Slots(d)[Pushed(d, o)], "sp", 0)
    BY <1>2, StackCode
  <2> QED BY <1>2, <2>1 DEF Lw
<1>3. CASE o \in PushAt(d) \cup PopAt(d)
  <2>1. i.op = "addi"
    BY <1>3, StackCode DEF Addi
  <2> QED BY <2>1
<1>4. CASE d = "timer" /\ o \notin StoreAt(d) \cup LoadAt(d) \cup PushAt(d) \cup PopAt(d)
  <2>0. i = Fetch(TimerAt + o) /\ o \in 0 .. 54
    BY <1>4 DEF Start, End
  <2>1. o \in {2, 51, 54} \cup 15 .. 38
    BY <1>4, <2>0 DEF StoreAt, LoadAt, PushAt, PopAt
  <2>2. CASE o \in {21, 24, 30, 33, 38}
    <3>1. i = Sw("a1", "a0", 0)
      BY <2>0, <2>2, TimerCode
    <3> QED BY <1>4, <2>2, <3>1 DEF Sw
  <2>3. CASE o \in {16, 17, 26, 27, 35, 36}
    <3>1. i.op = "lw" /\ i.s = "a0" /\ i.i = 0
      BY <2>0, <2>3, TimerCode DEF Lw
    <3> QED BY <1>4, <2>3, <3>1
  <2>4. CASE o \notin {21, 24, 30, 33, 38} \cup {16, 17, 26, 27, 35, 36}
    <3>1. o \in {2, 51, 54, 15, 18, 19, 20, 22, 23, 25, 28, 29, 31, 32, 34, 37}
      BY <2>1, <2>4
    <3>2. i.op \in {"ei", "di", "reti", "la", "addi", "beq", "add"}
      <4>1. CASE o \in {2, 51, 54, 15, 25, 34}
        BY <2>0, <4>1, TimerCode DEF Ei, Di, Reti, La
      <4>2. CASE o \in {18, 20, 23, 29, 32, 37}
        BY <2>0, <4>2, TimerCode DEF Addi, Add
      <4>3. CASE o \in {19, 22, 28, 31}
        BY <2>0, <4>3, TimerCode DEF Goto, Beq
      <4> QED BY <3>1, <4>1, <4>2, <4>3
    <3> QED BY <3>2
  <2> QED BY <2>2, <2>3, <2>4
<1>5. CASE d = "keyboard" /\ o \notin StoreAt(d) \cup LoadAt(d) \cup PushAt(d) \cup PopAt(d)
  <2>0. i = Fetch(KeyboardAt + o) /\ o \in 0 .. 36
    BY <1>5 DEF Start, End
  <2>1. o \in {4, 5, 16, 17, 18, 19, 20, 33, 36}
    BY <1>5, <2>0 DEF StoreAt, LoadAt, PushAt, PopAt
  <2>2. CASE o = 18
    BY <1>5, <2>0, <2>2, KeyboardCode DEF Sw
  <2>3. CASE o = 20
    BY <1>5, <2>0, <2>3, KeyboardCode DEF Sw
  <2>4. CASE o = 17
    BY <1>5, <2>0, <2>4, KeyboardCode DEF Lw
  <2>5. CASE o \in {4, 5, 16, 19, 33, 36}
    <3>1. i.op \in {"bonj", "ei", "la", "addi", "di", "reti"}
      BY <1>5, <2>0, <2>5, KeyboardCode DEF Bonj, Ei, La, Addi, Di, Reti
    <3> QED BY <3>1
  <2> QED BY <2>1, <2>2, <2>3, <2>4, <2>5
<1> QED BY <1>0, <1>1, <1>2, <1>3, <1>4, <1>5

\* Where the processor is: in the program or in the last handler.
LEMMA InProgram ==
  ASSUME IInv, Depth = 0
  PROVE  MainOK(mem, pc, reg) /\ pc \in 16 .. FactorialAt + 34
<1>1. MainOK(mem, pc, reg) /\ pc \in Int
  BY LastLevel DEF IInv, Levels, TypeOK
<1>2. FactorialAt \in Nat /\ FactorialAt >= 25
  BY AddressFacts
<1>3. pc \in 16 .. FactorialAt - 1 \/ pc - FactorialAt \in 0 .. 34
  BY <1>1 DEF MainOK, FactorialOK
<1> QED BY <1>1, <1>2, <1>3

LEMMA InLast ==
  ASSUME IInv, Depth # 0
  PROVE  \E d \in Devices :
           /\ HandlerOK(mem, d, active[Depth], pc, reg)
           /\ pc - Start(d) \in 0 .. End(d) /\ pc = Start(d) + (pc - Start(d))
           /\ Last(active) = active[Depth]
<1>1. Depth \in 1 .. Depth /\ pc \in Int
  BY CountFacts DEF IInv, TypeOK
<1>2. PICK d \in Devices : HandlerOK(mem, d, active[Depth], pc, reg)
  BY <1>1, LevelFacts, LastLevel DEF LevelOK
<1>3. Start(d) \in Int
  BY StartFacts
<1>4. pc - Start(d) \in 0 .. End(d)
  BY <1>2 DEF HandlerOK
<1> QED BY <1>1, <1>2, <1>3, <1>4 DEF Last, Depth

LEMMA OwnKey ==
  ASSUME IInv
  PROVE  StoresOwnKey
<1> SUFFICES ASSUME Fetch(pc) = Sw("a0", "a2", 0)
             PROVE  reg["a0"] = Last(active).key
  BY DEF StoresOwnKey, AtStoreOfKey
<1>1. Fetch(pc).op = "sw" /\ Fetch(pc).s = "a2" /\ Fetch(pc).i = 0
  BY DEF Sw
<1>2. CASE Depth = 0
  <2>1. pc \in 16 .. FactorialAt + 34
    BY <1>2, InProgram
  <2>2. Sw("a0", "zero", 1).s = "zero" /\ Sw("a0", "zero", 2).s = "zero"
    BY DEF Sw
  <2> QED BY <1>1, <2>1, <2>2, ProgramUses
<1>3. CASE Depth # 0
  <2>1. PICK d \in Devices : /\ HandlerOK(mem, d, active[Depth], pc, reg)
                             /\ pc - Start(d) \in 0 .. End(d)
                             /\ pc = Start(d) + (pc - Start(d))
                             /\ Last(active) = active[Depth]
    BY <1>3, InLast
  <2>2. d = "keyboard" /\ pc - Start(d) = 18
    BY <1>1, <2>1, HandlerUses
  <2>3. Body(d, 18, active[Depth], reg)
    BY <2>1, <2>2 DEF HandlerOK
  <2> QED BY <2>1, <2>2, <2>3 DEF Body
<1> QED BY <1>2, <1>3

\* The character that a keyboard handler stores is the one that interrupted for
\* it, however many interrupts came since (prj2-keyboard.s:182-208).
THEOREM OwnKeyStored == Spec => []StoresOwnKey
<1>1. IInv => StoresOwnKey
  BY OwnKey
<1> QED BY <1>1, Levelled, PTL

-----------------------------------------------------------------------------

(* While no handler has been interrupted the clock and the characters are  *)
(* exact: what a handler that is active has yet to do is known.            *)

SecondsAt == Words["seconds"]
MinutesAt == Words["minutes"]
HoursAt == Words["hours"]
CharsAt == Words["keyboard_out"]
Turn == Limit + 1

In(m, a) == IF a \in DOMAIN m THEN m[a] ELSE 0
TimeOf(h, n, s) == (h * Turn + n) * Turn + s
TimeIn(m) == TimeOf(In(m, HoursAt), In(m, MinutesAt), In(m, SecondsAt))

\* The cells are where the words of the program say.
Pointing(m) ==
  In(m, WordsAt + 1) = SecondsAt /\ In(m, WordsAt + 2) = MinutesAt /\ In(m, WordsAt + 3) = HoursAt
\* The next character goes behind p others, and the first n are there.
Following(m, p, n) ==
  /\ In(m, WordsAt + 4) = CharsAt + p
  /\ \A k \in 1 .. n : In(m, CharsAt + k - 1) = k

\* What the clock lacks at instruction o of the timer handler.
Due(o) ==
  IF o \in 0 .. 21 \cup {23, 24} THEN 1
  ELSE IF o \in 25 .. 30 \cup {32, 33} THEN Turn
  ELSE IF o \in 34 .. 38 THEN Turn * Turn ELSE 0

TimerAlone(m, o, r, t) ==
  /\ TimeIn(m) + Due(o) = t
  /\ o \in 17 .. 24 => r["a0"] = SecondsAt
  /\ o \in 27 .. 33 => r["a0"] = MinutesAt
  /\ o \in 36 .. 38 => r["a0"] = HoursAt
  /\ o \in 19 .. 38 => r["a3"] = Limit
  /\ o \in 18 .. 20 => r["a1"] = In(m, SecondsAt)
  /\ o = 21 => r["a1"] = In(m, SecondsAt) + 1
  /\ o \in {23, 24} => In(m, SecondsAt) = Limit
  /\ o \in {24, 33} => r["a1"] = 0
  /\ o \in 28 .. 29 => r["a1"] = In(m, MinutesAt)
  /\ o = 30 => r["a1"] = In(m, MinutesAt) + 1
  /\ o \in {32, 33} => In(m, MinutesAt) = Limit
  /\ o = 37 => r["a1"] = In(m, HoursAt)
  /\ o = 38 => r["a1"] = In(m, HoursAt) + 1

Late(o) == IF o <= 20 THEN 1 ELSE 0
Behind(o) == IF o <= 18 THEN 1 ELSE 0
KeyboardAlone(m, o, r, k) ==
  /\ Following(m, k - Late(o), k - Behind(o))
  /\ o \in 17 .. 20 => r["a1"] = WordsAt + 4
  /\ o \in 18 .. 19 => r["a2"] = CharsAt + k - 1
  /\ o = 20 => r["a2"] = CharsAt + k

Alone(m, d, o, r, t, k, c) ==
  /\ d = "timer" => TimerAlone(m, o, r, t) /\ Following(m, k, k)
  /\ d = "keyboard" => /\ k >= 1 /\ c = k
                       /\ TimeIn(m) = t /\ KeyboardAlone(m, o, r, k)

Quiet ==
  ~ nested =>
    /\ Pointing(mem) /\ Depth <= 1
    /\ Depth = 0 => TimeIn(mem) = ticks /\ Following(mem, key, key)
    /\ \A d \in Devices : Depth = 1 /\ pc - Start(d) \in 0 .. End(d) =>
         Alone(mem, d, pc - Start(d), reg, ticks, key, active[1].key)

-----------------------------------------------------------------------------
(* What a step leaves alone.                                               *)

LEMMA CellFacts ==
  /\ SecondsAt \in Int /\ MinutesAt = SecondsAt + 1 /\ HoursAt = SecondsAt + 2
  /\ Top \in Int /\ SecondsAt > Top /\ CharsAt \in Int /\ CharsAt >= Top
  /\ MaxInterrupts \in Nat /\ CharsAt + MaxInterrupts < SecondsAt
  /\ WordsAt \in Nat /\ WordsAt + 5 < Floor /\ Floor < Top /\ Floor \in Nat
  /\ Limit \in Nat /\ Turn \in Nat /\ Turn = Limit + 1
<1>1. /\ WordsAt \in Nat /\ WordsAt + 5 < Floor /\ Floor < Top /\ Floor \in Nat
      /\ MaxInterrupts \in Nat /\ Limit \in Nat
  BY RoomFacts, SMT
<1>2. /\ SecondsAt \in Int /\ MinutesAt = SecondsAt + 1 /\ HoursAt = SecondsAt + 2
      /\ Top \in Int /\ SecondsAt > Top /\ CharsAt \in Int /\ CharsAt >= Top
  BY WordsAre, SMT DEF SecondsAt, MinutesAt, HoursAt, CharsAt
<1>3. CharsAt + MaxInterrupts < SecondsAt
  BY RoomAssumption DEF CharsAt, SecondsAt
<1> QED BY <1>1, <1>2, <1>3 DEF Turn

LEMMA Turns ==
  ASSUME NEW h \in Int, NEW n \in Int, NEW s \in Int
  PROVE  /\ TimeOf(h, n, s) \in Int
         /\ \A e \in Int : TimeOf(h, n, e) = TimeOf(h, n, s) - s + e
         /\ TimeOf(h, n + 1, s) = TimeOf(h, n, s) + Turn
         /\ TimeOf(h, 0, s) = TimeOf(h, n, s) - n * Turn
         /\ TimeOf(h + 1, n, s) = TimeOf(h, n, s) + Turn * Turn
<1>1. Turn \in Int
  BY CellFacts
<1> QED BY <1>1 DEF TimeOf

LEMMA InIs ==
  ASSUME TypeOK
  PROVE  \A a : In(mem, a) \in Int /\ In(mem, a) = Load(a)
BY DEF TypeOK, In, Load

\* Memory stays as it is in the words of the program and above the stack.
Same(m, n) ==
  \A a \in Int : (WordsAt <= a /\ a <= WordsAt + 4) \/ a >= Top => In(n, a) = In(m, a)

LEMMA SameTold ==
  ASSUME NEW m, NEW n, Same(m, n), NEW k \in Nat
  PROVE  /\ TimeIn(n) = TimeIn(m) /\ (Pointing(m) => Pointing(n))
         /\ \A p : Following(m, p, k) => Following(n, p, k)
         /\ In(n, SecondsAt) = In(m, SecondsAt) /\ In(n, MinutesAt) = In(m, MinutesAt)
         /\ In(n, HoursAt) = In(m, HoursAt)
<1>1. /\ SecondsAt \in Int /\ SecondsAt >= Top /\ MinutesAt \in Int /\ MinutesAt >= Top
      /\ HoursAt \in Int /\ HoursAt >= Top /\ CharsAt \in Int /\ CharsAt >= Top /\ Top \in Int
      /\ WordsAt \in Nat
  BY CellFacts
<1>2. /\ In(n, SecondsAt) = In(m, SecondsAt) /\ In(n, MinutesAt) = In(m, MinutesAt)
      /\ In(n, HoursAt) = In(m, HoursAt)
  BY <1>1 DEF Same
<1>3. \A j \in 1 .. 4 : In(n, WordsAt + j) = In(m, WordsAt + j)
  BY <1>1 DEF Same
<1>4. \A j \in 1 .. k : In(n, CharsAt + j - 1) = In(m, CharsAt + j - 1)
  <2> TAKE j \in 1 .. k
  <2>1. CharsAt + j - 1 \in Int /\ CharsAt + j - 1 >= Top
    BY <1>1
  <2> QED BY <2>1 DEF Same
<1> QED BY <1>2, <1>3, <1>4 DEF TimeIn, Pointing, Following

LEMMA UnchangedSame ==
  ASSUME mem' = mem
  PROVE  Same(mem, mem')
BY DEF Same

LEMMA FrameSame ==
  ASSUME NEW b \in Frames, InFrame(b), Floor <= b.reg["sp"] - 7, b.reg["sp"] <= Top
  PROVE  Same(mem, mem')
<1>1. b.reg["sp"] \in Int
  BY FrameFacts
<1>2. ASSUME NEW a \in Int, (WordsAt <= a /\ a <= WordsAt + 4) \/ a >= Top
      PROVE  a \notin b.reg["sp"] - 7 .. b.reg["sp"] - 1
  BY <1>1, <1>2, CellFacts
<1>3. ASSUME NEW a \in Int, a \notin b.reg["sp"] - 7 .. b.reg["sp"] - 1
      PROVE  In(mem', a) = In(mem, a)
  <2>1. CASE a \in DOMAIN mem
    BY <1>3, <2>1 DEF InFrame, In
  <2>2. CASE a \notin DOMAIN mem
    BY <1>3, <2>2 DEF InFrame, In
  <2> QED BY <2>1, <2>2
<1> QED BY <1>2, <1>3 DEF Same

\* A store elsewhere.
LEMMA StoreSame ==
  ASSUME NEW w \in Int, NEW v, w < WordsAt \/ (WordsAt + 4 < w /\ w < Top),
         mem' = [a \in DOMAIN mem \cup {w} |-> IF a = w THEN v ELSE mem[a]]
  PROVE  Same(mem, mem')
<1>1. \A a \in Int : a # w => In(mem', a) = In(mem, a)
  BY DEF In
<1>2. \A a \in Int : (WordsAt <= a /\ a <= WordsAt + 4) \/ a >= Top => a # w
  BY CellFacts
<1> QED BY <1>1, <1>2 DEF Same

LEMMA NoStore ==
  ASSUME Step, mem' # mem
  PROVE  /\ Fetch(pc).op = "sw"
         /\ LET w == reg[Fetch(pc).s] + Fetch(pc).i
            IN mem' = [a \in DOMAIN mem \cup {w} |->
                         IF a = w THEN reg[Fetch(pc).d] ELSE mem[a]]
<1> DEFINE i == Fetch(pc)
<1>1. Compute(i) \/ Store(i) \/ Branch(i) \/ Jump(i) \/ Enable(i) \/ Return(i)
  BY DEF Step
<1> HIDE DEF i
<1>2. Store(i)
  BY <1>1 DEF Compute, Branch, Jump, Enable, Return
<1>3. i.op = "sw" /\ mem' = [a \in DOMAIN mem \cup {reg[i.s] + i.i} |->
                               IF a = reg[i.s] + i.i THEN reg[i.d] ELSE mem[a]]
  BY <1>2 DEF Store
<1> QED BY <1>3 DEF i

LEMMA ProgramSame ==
  ASSUME IInv, Step, Depth = 0
  PROVE  Same(mem, mem')
<1>1. CASE mem' = mem
  BY <1>1, UnchangedSame
<1>2. CASE mem' # mem
  <2> DEFINE i == Fetch(pc)
             w == reg[i.s] + i.i
  <2>1. /\ i.op = "sw"
        /\ mem' = [a \in DOMAIN mem \cup {w} |-> IF a = w THEN reg[i.d] ELSE mem[a]]
    BY <1>2, NoStore
  <2>2. pc \in 16 .. FactorialAt + 34 /\ MainOK(mem, pc, reg)
    BY InProgram
  <2>3. /\ reg["zero"] = 0 /\ reg["sp"] \in Int
    BY DEF IInv, TypeOK, Registers
  <2>4. \/ i = Sw("a0", "zero", 1) \/ i = Sw("a0", "zero", 2)
        \/ \E f \in {1, 3, 5, 7} : pc = FactorialAt + f /\ i.s = "sp" /\ i.i = 0
    BY <2>1, <2>2, ProgramUses
  <2> HIDE DEF i
  <2>5. CASE i = Sw("a0", "zero", 1) \/ i = Sw("a0", "zero", 2)
    <3>1. i.s = "zero" /\ i.i \in {1, 2}
      BY <2>5 DEF Sw
    <3>2. w \in Int /\ w < WordsAt
      BY <2>3, <3>1, RoomFacts, SMT
    <3> HIDE DEF w
    <3> QED BY <2>1, <3>2, StoreSame
  <2>6. CASE \E f \in {1, 3, 5, 7} : pc = FactorialAt + f /\ i.s = "sp" /\ i.i = 0
    <3>1. PICK f \in {1, 3, 5, 7} : pc = FactorialAt + f /\ i.s = "sp" /\ i.i = 0
      BY <2>6
    <3>2. FactorialAt \in Nat /\ pc \in Int
      BY AddressFacts DEF IInv, TypeOK
    <3>3. pc - FactorialAt = f /\ pc \notin 16 .. FactorialAt - 1
      BY <3>1, <3>2
    <3>4. PICK j \in 0 .. Argument : FactorialOK(mem, f, j, reg)
      BY <2>2, <3>3 DEF MainOK
    <3>5. reg["sp"] = Top - 4 * j - Framed(f) /\ Framed(f) \in 1 .. 4
      BY <3>4 DEF FactorialOK, Framed
    <3>6. /\ Floor + 4 * (Argument + 1) + 7 * MaxInterrupts <= Top
          /\ Argument \in Nat /\ Top \in Int /\ MaxInterrupts \in Nat
          /\ WordsAt \in Nat /\ WordsAt + 5 < Floor /\ Floor \in Nat
      BY RoomFacts, SMT
    <3>7. w = reg["sp"]
      BY <2>3, <3>1
    <3>8. w \in Int /\ WordsAt + 4 < w /\ w < Top
      BY <2>3, <3>5, <3>6, <3>7
    <3> HIDE DEF w
    <3> QED BY <2>1, <3>8, StoreSame
  <2> QED BY <2>4, <2>5, <2>6
<1> QED BY <1>1, <1>2

\* The instructions of a handler that leave the words alone.
LEMMA HandlerSame ==
  ASSUME NEW d, InHandler(d),
         \/ pc - Start(d) \in StackAt(d)
         \/ d = "timer" /\ pc - Start(d) \in {2, 51}
         \/ d = "keyboard" /\ pc - Start(d) \in {4, 5, 33}
  PROVE  Same(mem, mem') /\ pc' = pc + 1 /\ ticks' = ticks /\ key' = key
<1> DEFINE b == active[Depth]
           o == pc - Start(d)
<1>1. Ready(d, b, Most)
  BY HandlerReady
<1>2. /\ TypeOK /\ Step /\ d \in Devices /\ b \in Frames /\ HandlerOK(mem, d, b, pc, reg)
      /\ Floor <= b.reg["sp"] - 7 /\ b.reg["sp"] <= Top
  BY <1>1 DEF Ready
<1>3. pc = Start(d) + o /\ d \in {"timer", "keyboard"} /\ pc \in Int
  BY <1>2, OffsetFacts
<1>4. CASE o \in StackAt(d)
  <2>1. OnStack(d, b)
    BY <1>2, <1>4, Pushing, Storing, Loading, Popping DEF StackAt
  <2>2. InFrame(b) /\ pc' = pc + 1 /\ Counts' = Counts
    BY <2>1 DEF OnStack
  <2> QED BY <1>2, <2>2, FrameSame DEF Counts
<1>5. CASE \/ d = "timer" /\ o \in {2, 51}
           \/ d = "keyboard" /\ o \in {5, 33}
  <2>1. Fetch(pc) \in {Ei, Di}
    <3>1. CASE d = "timer"
      <4>1. Fetch(TimerAt + 2) = Ei /\ Fetch(TimerAt + 51) = Di
        BY TimerCode
      <4> QED BY <1>3, <1>5, <3>1, <4>1 DEF Start
    <3>2. CASE d = "keyboard"
      <4>1. Fetch(KeyboardAt + 5) = Ei /\ Fetch(KeyboardAt + 33) = Di
        BY <1>2, <3>2, KeyboardCode
      <4> QED BY <1>3, <1>5, <3>2, <4>1 DEF Start
    <3> QED BY <1>5, <3>1, <3>2
  <2>2. pc' = pc + 1 /\ mem' = mem /\ Counts' = Counts
    BY <1>2, <2>1, DoEnable
  <2> QED BY <2>2, UnchangedSame DEF Counts
<1>6. CASE d = "keyboard" /\ o = 4
  <2>1. Fetch(pc) = Bonj("a0")
    BY <1>2, <1>3, <1>6, KeyboardCode DEF Start
  <2>2. "a0" \in Registers /\ "a0" # "zero"
    BY DEF Registers
  <2>3. Computes("a0", key)
    BY <1>2, <2>1, <2>2, DoBonj
  <2>4. pc' = pc + 1 /\ mem' = mem /\ Counts' = Counts
    BY <2>3 DEF Computes
  <2> QED BY <2>4, UnchangedSame DEF Counts
<1> QED BY <1>4, <1>5, <1>6

-----------------------------------------------------------------------------
(* The timer handler, alone.                                               *)

\* The timer handler at its instruction o, between its saves and its restores.
InTimer(o) ==
  /\ InHandler("timer") /\ o \in 15 .. 38 /\ pc = TimerAt + o
  /\ Pointing(mem) /\ TimerAlone(mem, o, reg, ticks) /\ Following(mem, key, key)
TimerAt1(q) ==
  /\ pc' = TimerAt + q /\ ticks' = ticks /\ key' = key
  /\ Pointing(mem') /\ TimerAlone(mem', q, reg', ticks) /\ Following(mem', key, key)

LEMMA InTimerFacts ==
  ASSUME NEW o, InTimer(o)
  PROVE  /\ TypeOK /\ Step /\ o \in 15 .. 38 /\ pc = TimerAt + o /\ pc + 1 = TimerAt + (o + 1)
         /\ reg["a0"] \in Int /\ reg["a1"] \in Int /\ reg["a3"] \in Int /\ reg["zero"] = 0
         /\ o = 16 => reg["a0"] = WordsAt + 1
         /\ o = 26 => reg["a0"] = WordsAt + 2
         /\ o = 35 => reg["a0"] = WordsAt + 3
         /\ Pointing(mem) /\ TimerAlone(mem, o, reg, ticks) /\ Following(mem, key, key)
         /\ {"a0", "a1", "a3", "zero"} \subseteq Registers /\ key \in Nat
         /\ key <= MaxInterrupts
<1>1. /\ InHandler("timer") /\ o \in 15 .. 38 /\ pc = TimerAt + o
      /\ Pointing(mem) /\ TimerAlone(mem, o, reg, ticks) /\ Following(mem, key, key)
  BY DEF InTimer
<1>2. TimerAt \in Nat
  BY AddressFacts
<1>3. pc - TimerAt = o /\ pc + 1 = TimerAt + (o + 1)
  BY <1>1, <1>2
<1>4. Ready("timer", active[Depth], Most)
  BY <1>1, HandlerReady
<1>5. /\ TypeOK /\ Step
      /\ o = 16 => reg["a0"] = WordsAt + 1
      /\ o = 26 => reg["a0"] = WordsAt + 2
      /\ o = 35 => reg["a0"] = WordsAt + 3
  BY <1>1, <1>3, <1>4, TimerThere
<1>6. {"a0", "a1", "a3", "zero"} \subseteq Registers
  BY DEF Registers
<1>7. /\ reg["a0"] \in Int /\ reg["a1"] \in Int /\ reg["a3"] \in Int /\ reg["zero"] = 0
  BY <1>5, <1>6 DEF TypeOK
<1>8. key \in Nat /\ key <= MaxInterrupts
  <2>1. Counted /\ ticks \in Nat /\ key \in Nat /\ spent \in Nat /\ MaxInterrupts \in Nat
    BY <1>1, <1>5, CellFacts DEF InHandler, IInv, TypeOK
  <2> QED BY <2>1 DEF Counted
<1> QED BY <1>1, <1>3, <1>5, <1>6, <1>7, <1>8

\* Instructions that leave memory alone.
LEMMA TimerQuiet ==
  ASSUME NEW o, InTimer(o), NEW q, pc' = TimerAt + q, mem' = mem, Counts' = Counts,
         TimerAlone(mem, q, reg', ticks)
  PROVE  TimerAt1(q)
<1>1. Pointing(mem') /\ Following(mem', key, key)
  BY DEF InTimer
<1> QED BY <1>1 DEF TimerAt1, Counts

LEMMA TimerComputes1 ==
  ASSUME NEW o, InTimer(o), o \in {15, 25, 34} \cup {16, 26, 35} \cup {17, 27, 36}
  PROVE  TimerAt1(o + 1)
<1>1. /\ TypeOK /\ Step /\ pc = TimerAt + o /\ pc + 1 = TimerAt + (o + 1)
      /\ Pointing(mem) /\ TimerAlone(mem, o, reg, ticks)
      /\ {"a0", "a1", "a3", "zero"} \subseteq Registers /\ reg["a0"] \in Int
      /\ o = 16 => reg["a0"] = WordsAt + 1
      /\ o = 26 => reg["a0"] = WordsAt + 2
      /\ o = 35 => reg["a0"] = WordsAt + 3
  BY InTimerFacts
<1>2. CASE o \in {15, 25, 34}
  <2> DEFINE l == IF o = 15 THEN "seconds" ELSE IF o = 25 THEN "minutes" ELSE "hours"
  <2>1. Fetch(pc) = La("a0", l)
    BY <1>1, <1>2, TimerCode
  <2>2. Labels[l] \in Int
    BY Addresses, AddressFacts
  <2> HIDE DEF l
  <2>3. Computes("a0", Labels[l])
    BY <1>1, <2>1, <2>2, DoLa
  <2>4. /\ pc' = TimerAt + (o + 1) /\ mem' = mem /\ Counts' = Counts
        /\ reg'["a3"] = reg["a3"]
    BY <1>1, <2>3 DEF Computes
  <2>5. TimerAlone(mem, o + 1, reg', ticks)
    <3>1. Due(o + 1) = Due(o)
      BY <1>2 DEF Due
    <3> QED BY <1>1, <1>2, <2>4, <3>1 DEF TimerAlone
  <2> QED BY <2>4, <2>5, TimerQuiet
<1>3. CASE o \in {16, 26, 35}
  <2>1. Fetch(pc) = Lw("a0", "a0", 0)
    BY <1>1, <1>3, TimerCode
  <2>2. Computes("a0", Load(reg["a0"] + 0))
    BY <1>1, <2>1, DoLw
  <2>3. In(mem, reg["a0"]) = Load(reg["a0"] + 0)
    <3>1. reg["a0"] + 0 = reg["a0"]
      BY <1>1
    <3> QED BY <1>1, <3>1, InIs
  <2>4. /\ pc' = TimerAt + (o + 1) /\ mem' = mem /\ Counts' = Counts
        /\ reg'["a3"] = reg["a3"] /\ reg'["a0"] = In(mem, reg["a0"])
    BY <1>1, <2>2, <2>3 DEF Computes
  <2>5. /\ o = 16 => reg'["a0"] = SecondsAt
        /\ o = 26 => reg'["a0"] = MinutesAt
        /\ o = 35 => reg'["a0"] = HoursAt
    BY <1>1, <2>4 DEF Pointing
  <2>6. TimerAlone(mem, o + 1, reg', ticks)
    <3>1. Due(o + 1) = Due(o)
      BY <1>3 DEF Due
    <3> QED BY <1>1, <1>3, <2>4, <2>5, <3>1 DEF TimerAlone
  <2> QED BY <2>4, <2>6, TimerQuiet
<1>4. CASE o \in {17, 27, 36}
  <2>1. Fetch(pc) = Lw("a1", "a0", 0)
    BY <1>1, <1>4, TimerCode
  <2>2. Computes("a1", Load(reg["a0"] + 0))
    BY <1>1, <2>1, DoLw
  <2>3. In(mem, reg["a0"]) = Load(reg["a0"] + 0)
    <3>1. reg["a0"] + 0 = reg["a0"]
      BY <1>1
    <3> QED BY <1>1, <3>1, InIs
  <2>4. /\ pc' = TimerAt + (o + 1) /\ mem' = mem /\ Counts' = Counts
        /\ reg'["a3"] = reg["a3"] /\ reg'["a0"] = reg["a0"]
        /\ reg'["a1"] = In(mem, reg["a0"])
    BY <1>1, <2>2, <2>3 DEF Computes
  <2>5. TimerAlone(mem, o + 1, reg', ticks)
    <3>1. Due(o + 1) = Due(o)
      BY <1>4 DEF Due
    <3> QED BY <1>1, <1>4, <2>4, <3>1 DEF TimerAlone
  <2> QED BY <2>4, <2>5, TimerQuiet
<1> QED BY <1>2, <1>3, <1>4

LEMMA TimerComputes2 ==
  ASSUME NEW o, InTimer(o), o \in {18} \cup {20, 29, 37} \cup {23, 32}
  PROVE  TimerAt1(o + 1)
<1>1. /\ TypeOK /\ Step /\ pc = TimerAt + o /\ pc + 1 = TimerAt + (o + 1)
      /\ Pointing(mem) /\ TimerAlone(mem, o, reg, ticks)
      /\ {"a0", "a1", "a3", "zero"} \subseteq Registers /\ reg["a1"] \in Int
      /\ reg["zero"] = 0
  BY InTimerFacts
<1>2. CASE o = 18
  <2>1. Fetch(pc) = Addi("a3", "zero", Limit)
    BY <1>1, <1>2, TimerCode
  <2>2. Limit \in Int
    BY CellFacts
  <2>3. Computes("a3", reg["zero"] + Limit)
    BY <1>1, <2>1, <2>2, DoAddi
  <2>4. /\ pc' = TimerAt + (o + 1) /\ mem' = mem /\ Counts' = Counts
        /\ reg'["a3"] = Limit /\ reg'["a0"] = reg["a0"] /\ reg'["a1"] = reg["a1"]
    BY <1>1, <2>2, <2>3 DEF Computes
  <2>5. TimerAlone(mem, o + 1, reg', ticks)
    <3>1. Due(o + 1) = Due(o)
      BY <1>2 DEF Due
    <3> QED BY <1>1, <1>2, <2>4, <3>1 DEF TimerAlone
  <2> QED BY <2>4, <2>5, TimerQuiet
<1>3. CASE o \in {20, 29, 37}
  <2>1. Fetch(pc) = Addi("a1", "a1", 1)
    BY <1>1, <1>3, TimerCode
  <2>2. Computes("a1", reg["a1"] + 1)
    BY <1>1, <2>1, DoAddi
  <2>3. /\ pc' = TimerAt + (o + 1) /\ mem' = mem /\ Counts' = Counts
        /\ reg'["a3"] = reg["a3"] /\ reg'["a0"] = reg["a0"] /\ reg'["a1"] = reg["a1"] + 1
    BY <1>1, <2>2 DEF Computes
  <2>4. TimerAlone(mem, o + 1, reg', ticks)
    <3>1. Due(o + 1) = Due(o)
      BY <1>3 DEF Due
    <3> QED BY <1>1, <1>3, <2>3, <3>1 DEF TimerAlone
  <2> QED BY <2>3, <2>4, TimerQuiet
<1>4. CASE o \in {23, 32}
  <2>1. Fetch(pc) = Add("a1", "zero", "zero")
    BY <1>1, <1>4, TimerCode
  <2>2. Computes("a1", reg["zero"] + reg["zero"])
    BY <1>1, <2>1, DoAdd
  <2>3. /\ pc' = TimerAt + (o + 1) /\ mem' = mem /\ Counts' = Counts
        /\ reg'["a3"] = reg["a3"] /\ reg'["a0"] = reg["a0"] /\ reg'["a1"] = 0
    BY <1>1, <2>2 DEF Computes
  <2>4. TimerAlone(mem, o + 1, reg', ticks)
    <3>1. Due(o + 1) = Due(o)
      BY <1>4 DEF Due
    <3> QED BY <1>1, <1>4, <2>3, <3>1 DEF TimerAlone
  <2> QED BY <2>3, <2>4, TimerQuiet
<1> QED BY <1>2, <1>3, <1>4

LEMMA TimerBranches ==
  ASSUME NEW o, InTimer(o), o \in {19, 28} \cup {22, 31}
  PROVE  \E q \in 0 .. 54 : TimerAt1(q)
<1>1. /\ TypeOK /\ Step /\ pc = TimerAt + o /\ pc + 1 = TimerAt + (o + 1)
      /\ Pointing(mem) /\ TimerAlone(mem, o, reg, ticks)
      /\ {"a0", "a1", "a3", "zero"} \subseteq Registers
  BY InTimerFacts
<1>2. CASE o \in {22, 31}
  <2>1. Fetch(pc) = Goto("clean_up")
    BY <1>1, <1>2, TimerCode
  <2>2. Goes(TimerAt + 39)
    BY <1>1, <2>1, DoGoto, Addresses
  <2>3. pc' = TimerAt + 39 /\ Counts' = Counts /\ mem' = mem /\ reg' = reg
    BY <2>2 DEF Goes
  <2>4. TimerAlone(mem, 39, reg', ticks)
    <3>1. Due(39) = Due(o)
      BY <1>2 DEF Due
    <3> QED BY <1>1, <3>1 DEF TimerAlone
  <2>5. TimerAt1(39) /\ 39 \in 0 .. 54
    BY <2>3, <2>4, TimerQuiet
  <2> QED BY <2>5
<1>3. CASE o \in {19, 28}
  <2> DEFINE l == IF o = 19 THEN "inc_minutes" ELSE "inc_hours"
             q == IF reg["a1"] = reg["a3"] THEN o + 4 ELSE o + 1
  <2>1. Fetch(pc) = Beq("a1", "a3", l)
    BY <1>1, <1>3, TimerCode
  <2>2. Goes(IF reg["a1"] = reg["a3"] THEN Labels[l] ELSE pc + 1)
    <3> HIDE DEF l
    <3> QED BY <1>1, <2>1, DoBeq
  <2>3. TimerAt \in Nat /\ Labels[l] = TimerAt + (o + 4)
    BY <1>3, Addresses, AddressFacts
  <2> HIDE DEF l
  <2>4. Goes(TimerAt + q)
    BY <1>1, <2>2, <2>3
  <2>5. pc' = TimerAt + q /\ Counts' = Counts /\ mem' = mem /\ reg' = reg
    BY <2>4 DEF Goes
  <2>6. TimerAlone(mem, q, reg', ticks)
    <3>1. CASE reg["a1"] = reg["a3"]
      <4>1. q = o + 4 /\ reg["a3"] = Limit
        BY <1>1, <1>3, <3>1 DEF TimerAlone
      <4>2. Due(q) = Due(o)
        BY <1>3, <4>1 DEF Due
      <4> QED BY <1>1, <1>3, <2>5, <3>1, <4>1, <4>2 DEF TimerAlone
    <3>2. CASE reg["a1"] # reg["a3"]
      <4>1. q = o + 1
        BY <3>2
      <4>2. Due(q) = Due(o)
        BY <1>3, <4>1 DEF Due
      <4> QED BY <1>1, <1>3, <2>5, <4>1, <4>2 DEF TimerAlone
    <3> QED BY <3>1, <3>2
  <2>7. q \in 0 .. 54
    BY <1>3
  <2> HIDE DEF q
  <2>8. TimerAt1(q)
    BY <2>5, <2>6, TimerQuiet
  <2> QED BY <2>7, <2>8
<1> QED BY <1>2, <1>3

LEMMA TimerWrites ==
  ASSUME NEW o, InTimer(o), o \in {21, 24, 30, 33, 38}
  PROVE  TimerAt1(o + 1)
<1> DEFINE w == IF o \in {21, 24} THEN SecondsAt ELSE IF o \in {30, 33} THEN MinutesAt ELSE HoursAt
           h == In(mem, HoursAt)
           n == In(mem, MinutesAt)
           s == In(mem, SecondsAt)
<1>1. /\ TypeOK /\ Step /\ pc = TimerAt + o /\ pc + 1 = TimerAt + (o + 1)
      /\ Pointing(mem) /\ TimerAlone(mem, o, reg, ticks) /\ Following(mem, key, key)
      /\ {"a0", "a1", "a3", "zero"} \subseteq Registers /\ reg["a1"] \in Int
      /\ reg["a0"] \in Int /\ key \in Nat /\ key <= MaxInterrupts
  BY InTimerFacts
<1>2. reg["a0"] = w
  BY <1>1 DEF TimerAlone
<1>3. Fetch(pc) = Sw("a1", "a0", 0)
  BY <1>1, TimerCode
<1>4. Stores(reg["a0"] + 0, reg["a1"])
  BY <1>1, <1>3, DoSw
<1>5. reg["a0"] + 0 = w
  BY <1>1, <1>2
<1>6. /\ SecondsAt \in Int /\ MinutesAt = SecondsAt + 1 /\ HoursAt = SecondsAt + 2
      /\ Top \in Int /\ SecondsAt > Top /\ CharsAt \in Int /\ CharsAt >= Top
      /\ MaxInterrupts \in Nat /\ CharsAt + MaxInterrupts < SecondsAt
      /\ WordsAt \in Nat /\ WordsAt + 5 < Top /\ Limit \in Int /\ Turn = Limit + 1
      /\ Turn \in Int
  BY CellFacts
<1>7. w \in {SecondsAt, MinutesAt, HoursAt} /\ w \in Int
  BY <1>6
<1>8. h \in Int /\ n \in Int /\ s \in Int
  BY <1>1, InIs
<1> HIDE DEF w
<1>9. /\ pc' = TimerAt + (o + 1) /\ reg' = reg /\ ticks' = ticks /\ key' = key
      /\ DOMAIN mem' = DOMAIN mem \cup {w} /\ mem'[w] = reg["a1"]
      /\ \A a \in DOMAIN mem : a # w => mem'[a] = mem[a]
  BY <1>1, <1>4, <1>5 DEF Stores, Counts
<1>10. In(mem', w) = reg["a1"] /\ \A a : a # w => In(mem', a) = In(mem, a)
  BY <1>9 DEF In
<1>11. Pointing(mem')
  <2>1. WordsAt + 1 # w /\ WordsAt + 2 # w /\ WordsAt + 3 # w
    BY <1>6, <1>7
  <2> QED BY <1>1, <1>10, <2>1 DEF Pointing
<1>12. Following(mem', key, key)
  <2>1. WordsAt + 4 # w
    BY <1>6, <1>7
  <2>2. \A k \in 1 .. key : CharsAt + k - 1 # w
    BY <1>1, <1>6, <1>7
  <2> QED BY <1>1, <1>10, <2>1, <2>2 DEF Following
<1>13. TimeOf(h, n, s) + Due(o) = ticks
  BY <1>1 DEF TimerAlone, TimeIn
<1>14. /\ TimeOf(h, n, s) \in Int
       /\ \A e \in Int : TimeOf(h, n, e) = TimeOf(h, n, s) - s + e
       /\ TimeOf(h, n + 1, s) = TimeOf(h, n, s) + Turn
       /\ TimeOf(h, 0, s) = TimeOf(h, n, s) - n * Turn
       /\ TimeOf(h + 1, n, s) = TimeOf(h, n, s) + Turn * Turn
  BY <1>8, Turns
<1> DEFINE h1 == In(mem', HoursAt)
           n1 == In(mem', MinutesAt)
           s1 == In(mem', SecondsAt)
<1>15. TimeIn(mem') = TimeOf(h1, n1, s1)
  BY DEF TimeIn
<1>16. /\ w # SecondsAt => s1 = s
       /\ w # MinutesAt => n1 = n
       /\ w # HoursAt => h1 = h
       /\ w = SecondsAt => s1 = reg["a1"]
       /\ w = MinutesAt => n1 = reg["a1"]
       /\ w = HoursAt => h1 = reg["a1"]
  BY <1>10
<1>17. Turn * Turn \in Int /\ Limit * Turn + Turn = Turn * Turn
  BY <1>6
<1>18. /\ o = 21 => reg["a1"] = s + 1
       /\ o = 24 => reg["a1"] = 0 /\ s = Limit
       /\ o = 30 => reg["a1"] = n + 1
       /\ o = 33 => reg["a1"] = 0 /\ n = Limit
       /\ o = 38 => reg["a1"] = h + 1
       /\ o # 38 => reg["a3"] = Limit
  BY <1>1 DEF TimerAlone
<1> HIDE DEF h, n, s, h1, n1, s1
<1>19. TimeIn(mem') + Due(o + 1) = ticks
  <2>1. CASE o = 21
    <3>1. w = SecondsAt /\ w # MinutesAt /\ w # HoursAt
      BY <1>6, <2>1 DEF w
    <3>2. s1 = s + 1 /\ n1 = n /\ h1 = h
      BY <1>16, <1>18, <2>1, <3>1
    <3>3. Due(o) = 1 /\ Due(o + 1) = 0
      BY <2>1 DEF Due
    <3>4. TimeOf(h, n, s + 1) = TimeOf(h, n, s) - s + (s + 1)
      BY <1>8, <1>14
    <3> QED BY <1>8, <1>13, <1>14, <1>15, <3>2, <3>3, <3>4
  <2>2. CASE o = 24
    <3>1. w = SecondsAt /\ w # MinutesAt /\ w # HoursAt
      BY <1>6, <2>2 DEF w
    <3>2. s1 = 0 /\ n1 = n /\ h1 = h /\ s = Limit
      BY <1>16, <1>18, <2>2, <3>1
    <3>3. Due(o) = 1 /\ Due(o + 1) = Turn
      BY <2>2 DEF Due
    <3>4. TimeOf(h, n, 0) = TimeOf(h, n, s) - s + 0
      BY <1>8, <1>14
    <3> QED BY <1>6, <1>8, <1>13, <1>14, <1>15, <3>2, <3>3, <3>4
  <2>3. CASE o = 30
    <3>1. w # SecondsAt /\ w = MinutesAt /\ w # HoursAt
      BY <1>6, <2>3 DEF w
    <3>2. s1 = s /\ n1 = n + 1 /\ h1 = h
      BY <1>16, <1>18, <2>3, <3>1
    <3>3. Due(o) = Turn /\ Due(o + 1) = 0
      BY <2>3 DEF Due
    <3> QED BY <1>6, <1>8, <1>13, <1>14, <1>15, <3>2, <3>3
  <2>4. CASE o = 33
    <3>1. w # SecondsAt /\ w = MinutesAt /\ w # HoursAt
      BY <1>6, <2>4 DEF w
    <3>2. s1 = s /\ n1 = 0 /\ h1 = h /\ n = Limit
      BY <1>16, <1>18, <2>4, <3>1
    <3>3. Due(o) = Turn /\ Due(o + 1) = Turn * Turn
      BY <2>4 DEF Due
    <3>4. TimeOf(h, 0, s) = TimeOf(h, n, s) - Limit * Turn /\ Limit * Turn \in Int
      BY <1>6, <1>14, <3>2
    <3> QED BY <1>6, <1>13, <1>14, <1>15, <1>17, <3>2, <3>3, <3>4
  <2>5. CASE o = 38
    <3>1. w # SecondsAt /\ w # MinutesAt /\ w = HoursAt
      BY <1>6, <2>5 DEF w
    <3>2. s1 = s /\ n1 = n /\ h1 = h + 1
      BY <1>16, <1>18, <2>5, <3>1
    <3>3. Due(o) = Turn * Turn /\ Due(o + 1) = 0
      BY <2>5 DEF Due
    <3> QED BY <1>13, <1>14, <1>15, <1>17, <3>2, <3>3
  <2> QED BY <2>1, <2>2, <2>3, <2>4, <2>5
<1>20. TimerAlone(mem', o + 1, reg', ticks)
  <2>1. o + 1 \in {22, 25, 31, 34, 39}
    OBVIOUS
  <2>2. o + 1 \in {22, 31} => reg'["a0"] = reg["a0"]
    BY <1>9
  <2>3. /\ o + 1 = 22 => reg'["a0"] = SecondsAt
        /\ o + 1 = 31 => reg'["a0"] = MinutesAt
        /\ o + 1 \in 19 .. 38 => reg'["a3"] = Limit
    BY <1>2, <1>9, <1>18, <2>1 DEF w
  <2> QED BY <1>19, <2>1, <2>3 DEF TimerAlone
<1> QED BY <1>9, <1>11, <1>12, <1>20 DEF TimerAt1

-----------------------------------------------------------------------------
(* The keyboard handler, alone.                                            *)

LEMMA TimerAloneStep ==
  ASSUME NEW o \in 0 .. 53, InHandler("timer"), pc = TimerAt + o,
         Pointing(mem), TimerAlone(mem, o, reg, ticks), Following(mem, key, key)
  PROVE  \E q \in 0 .. 54 : TimerAt1(q)
<1>1. \/ o \in StackAt("timer") \cup {2, 51}
      \/ o \in {15, 25, 34} \cup {16, 26, 35} \cup {17, 27, 36}
      \/ o \in {18} \cup {20, 29, 37} \cup {23, 32}
      \/ o \in {19, 28} \cup {22, 31}
      \/ o \in {21, 24, 30, 33, 38}
  BY DEF StackAt, PushAt, StoreAt, LoadAt, PopAt
<1>2. o \in 15 .. 38 => InTimer(o)
  BY DEF InTimer
<1>3. CASE o \in StackAt("timer") \cup {2, 51}
  <2>1. pc - Start("timer") = o /\ pc + 1 = TimerAt + (o + 1)
    BY AddressFacts DEF Start
  <2>2. Same(mem, mem') /\ pc' = pc + 1 /\ ticks' = ticks /\ key' = key
    BY <1>3, <2>1, HandlerSame
  <2>3. key \in Nat
    BY DEF InHandler, IInv, TypeOK
  <2>4. TimeIn(mem') = TimeIn(mem) /\ Pointing(mem') /\ Following(mem', key, key)
    BY <2>2, <2>3, SameTold
  <2>5. o \in 0 .. 14 \/ o \in 39 .. 53
    BY <1>3 DEF StackAt, PushAt, StoreAt, LoadAt, PopAt
  <2>6. Due(o + 1) = Due(o)
    BY <2>5 DEF Due
  <2>7. TimerAlone(mem', o + 1, reg', ticks)
    BY <2>4, <2>5, <2>6 DEF TimerAlone
  <2>8. TimerAt1(o + 1) /\ o + 1 \in 0 .. 54
    BY <2>1, <2>2, <2>4, <2>7 DEF TimerAt1
  <2> QED BY <2>8
<1>4. CASE o \in {15, 25, 34} \cup {16, 26, 35} \cup {17, 27, 36}
  <2>1. TimerAt1(o + 1) /\ o + 1 \in 0 .. 54
    BY <1>2, <1>4, TimerComputes1
  <2> QED BY <2>1
<1>5. CASE o \in {18} \cup {20, 29, 37} \cup {23, 32}
  <2>1. TimerAt1(o + 1) /\ o + 1 \in 0 .. 54
    BY <1>2, <1>5, TimerComputes2
  <2> QED BY <2>1
<1>6. CASE o \in {19, 28} \cup {22, 31}
  BY <1>2, <1>6, TimerBranches
<1>7. CASE o \in {21, 24, 30, 33, 38}
  <2>1. TimerAt1(o + 1) /\ o + 1 \in 0 .. 54
    BY <1>2, <1>7, TimerWrites
  <2> QED BY <2>1
<1> QED BY <1>1, <1>3, <1>4, <1>5, <1>6, <1>7

-----------------------------------------------------------------------------
InKeyboard(o) ==
  /\ InHandler("keyboard") /\ o \in 0 .. 35 /\ pc = KeyboardAt + o
  /\ Pointing(mem) /\ TimeIn(mem) = ticks /\ KeyboardAlone(mem, o, reg, key)
  /\ key >= 1 /\ active[Depth].key = key
KeyboardAt1(q) ==
  /\ pc' = KeyboardAt + q /\ ticks' = ticks /\ key' = key
  /\ Pointing(mem') /\ TimeIn(mem') = ticks /\ KeyboardAlone(mem', q, reg', key)

LEMMA InKeyboardFacts ==
  ASSUME NEW o, InKeyboard(o)
  PROVE  /\ TypeOK /\ Step /\ o \in 0 .. 35 /\ pc = KeyboardAt + o
         /\ pc + 1 = KeyboardAt + (o + 1) /\ pc - Start("keyboard") = o
         /\ "keyboard" \in Devices
         /\ reg["a0"] \in Int /\ reg["a1"] \in Int /\ reg["a2"] \in Int
         /\ o \in 16 .. 20 => reg["a0"] = key
         /\ Pointing(mem) /\ TimeIn(mem) = ticks /\ KeyboardAlone(mem, o, reg, key)
         /\ {"a0", "a1", "a2", "zero"} \subseteq Registers /\ key \in Nat /\ key >= 1
         /\ key <= MaxInterrupts
<1>1. /\ InHandler("keyboard") /\ o \in 0 .. 35 /\ pc = KeyboardAt + o
      /\ Pointing(mem) /\ TimeIn(mem) = ticks /\ KeyboardAlone(mem, o, reg, key)
      /\ key >= 1 /\ active[Depth].key = key
  BY DEF InKeyboard
<1>2. KeyboardAt \in Nat
  BY AddressFacts
<1>3. pc - KeyboardAt = o /\ pc + 1 = KeyboardAt + (o + 1) /\ pc - Start("keyboard") = o
  BY <1>1, <1>2 DEF Start
<1>4. /\ TypeOK /\ Step /\ "keyboard" \in Devices
      /\ HandlerOK(mem, "keyboard", active[Depth], pc, reg)
  BY <1>1 DEF InHandler, IInv
<1>5. o \in 5 .. 31 => reg["a0"] = key
  BY <1>1, <1>3, <1>4 DEF HandlerOK, Body
<1>6. {"a0", "a1", "a2", "zero"} \subseteq Registers
  BY DEF Registers
<1>7. reg["a0"] \in Int /\ reg["a1"] \in Int /\ reg["a2"] \in Int
  BY <1>4, <1>6 DEF TypeOK
<1>8. key \in Nat /\ key <= MaxInterrupts
  <2>1. Counted /\ ticks \in Nat /\ key \in Nat /\ spent \in Nat /\ MaxInterrupts \in Nat
    BY <1>1, <1>4, CellFacts DEF InHandler, IInv, TypeOK
  <2> QED BY <2>1 DEF Counted
<1> QED BY <1>1, <1>3, <1>4, <1>5, <1>6, <1>7, <1>8

LEMMA KeyboardOnStack ==
  ASSUME NEW o, InKeyboard(o), o \in StackAt("keyboard") \cup {4, 5, 33}
  PROVE  KeyboardAt1(o + 1)
<1>1. /\ TypeOK /\ o \in 0 .. 35 /\ pc + 1 = KeyboardAt + (o + 1) /\ pc - Start("keyboard") = o
      /\ Pointing(mem) /\ TimeIn(mem) = ticks /\ KeyboardAlone(mem, o, reg, key)
      /\ key \in Nat /\ key >= 1
  BY InKeyboardFacts
<1>2. Same(mem, mem') /\ pc' = pc + 1 /\ ticks' = ticks /\ key' = key
  <2>1. InHandler("keyboard")
    BY DEF InKeyboard
  <2> QED BY <1>1, <2>1, HandlerSame
<1>3. o \in 0 .. 15 \/ o \in 21 .. 35
  BY <1>1 DEF StackAt, PushAt, StoreAt, LoadAt, PopAt
<1>4. /\ Late(o + 1) = Late(o) /\ Behind(o + 1) = Behind(o) /\ o + 1 \notin 17 .. 20
      /\ key - Behind(o) \in Nat
  BY <1>1, <1>3 DEF Late, Behind
<1>5. /\ TimeIn(mem') = TimeIn(mem) /\ Pointing(mem')
      /\ Following(mem', key - Late(o), key - Behind(o))
  BY <1>1, <1>2, <1>4, SameTold DEF KeyboardAlone
<1>6. KeyboardAlone(mem', o + 1, reg', key)
  BY <1>4, <1>5 DEF KeyboardAlone
<1> QED BY <1>1, <1>2, <1>5, <1>6 DEF KeyboardAt1

LEMMA KeyboardComputes ==
  ASSUME NEW o, InKeyboard(o), o \in {16, 17, 19}
  PROVE  KeyboardAt1(o + 1)
<1>1. /\ TypeOK /\ Step /\ pc = KeyboardAt + o /\ pc + 1 = KeyboardAt + (o + 1)
      /\ Pointing(mem) /\ TimeIn(mem) = ticks /\ KeyboardAlone(mem, o, reg, key)
      /\ reg["a1"] \in Int /\ reg["a2"] \in Int
      /\ {"a0", "a1", "a2", "zero"} \subseteq Registers /\ key \in Nat
      /\ "keyboard" \in Devices
  BY InKeyboardFacts
<1>2. WordsAt \in Nat /\ CharsAt \in Int
  BY CellFacts
<1>3. Following(mem, key - Late(o), key - Behind(o))
  BY <1>1 DEF KeyboardAlone
<1>4. ASSUME mem' = mem, Counts' = Counts, pc' = pc + 1,
             o = 16 => reg'["a1"] = WordsAt + 4,
             o = 17 => reg'["a1"] = WordsAt + 4 /\ reg'["a2"] = CharsAt + key - 1,
             o = 19 => reg'["a1"] = WordsAt + 4 /\ reg'["a2"] = CharsAt + key
      PROVE  KeyboardAt1(o + 1)
  <2>1. Late(o + 1) = Late(o) /\ Behind(o + 1) = Behind(o)
    BY DEF Late, Behind
  <2>2. KeyboardAlone(mem', o + 1, reg', key)
    BY <1>3, <1>4, <2>1 DEF KeyboardAlone
  <2> QED BY <1>1, <1>4, <2>2 DEF KeyboardAt1, Counts
<1>5. CASE o = 16
  <2>1. Fetch(pc) = La("a1", "keyboard_out")
    BY <1>1, <1>5, KeyboardCode
  <2>2. Labels["keyboard_out"] = WordsAt + 4
    BY Addresses
  <2>3. Labels["keyboard_out"] \in Int
    BY <1>2, <2>2
  <2>4. Computes("a1", Labels["keyboard_out"])
    BY <1>1, <2>1, <2>3, DoLa
  <2> QED BY <1>4, <1>5, <2>2, <2>4 DEF Computes
<1>6. CASE o = 17
  <2>1. Fetch(pc) = Lw("a2", "a1", 0)
    BY <1>1, <1>6, KeyboardCode
  <2>2. Computes("a2", Load(reg["a1"] + 0))
    BY <1>1, <2>1, DoLw
  <2>3. reg["a1"] + 0 = WordsAt + 4 /\ reg["a1"] = WordsAt + 4
    BY <1>1, <1>6 DEF KeyboardAlone
  <2>4. In(mem, WordsAt + 4) = CharsAt + (key - 1)
    BY <1>3, <1>6 DEF Following, Late
  <2>5. Load(reg["a1"] + 0) = CharsAt + key - 1
    BY <1>1, <1>2, <2>3, <2>4, InIs
  <2> QED BY <1>1, <1>4, <1>6, <2>2, <2>3, <2>5 DEF Computes
<1>7. CASE o = 19
  <2>1. Fetch(pc) = Addi("a2", "a2", 1)
    BY <1>1, <1>7, KeyboardCode
  <2>2. Computes("a2", reg["a2"] + 1)
    BY <1>1, <2>1, DoAddi
  <2>3. reg["a2"] = CharsAt + key - 1 /\ reg["a1"] = WordsAt + 4
    BY <1>1, <1>7 DEF KeyboardAlone
  <2>4. reg["a2"] + 1 = CharsAt + key
    BY <1>1, <1>2, <2>3
  <2> QED BY <1>1, <1>4, <1>7, <2>2, <2>3, <2>4 DEF Computes
<1> QED BY <1>5, <1>6, <1>7

\* The character, then the pointer to the next one.
LEMMA KeyboardWrites ==
  ASSUME NEW o, InKeyboard(o), o \in {18, 20}
  PROVE  KeyboardAt1(o + 1)
<1> DEFINE w == IF o = 18 THEN CharsAt + key - 1 ELSE WordsAt + 4
           v == IF o = 18 THEN key ELSE CharsAt + key
<1>1. /\ TypeOK /\ Step /\ pc = KeyboardAt + o /\ pc + 1 = KeyboardAt + (o + 1)
      /\ Pointing(mem) /\ TimeIn(mem) = ticks /\ KeyboardAlone(mem, o, reg, key)
      /\ reg["a1"] \in Int /\ reg["a2"] \in Int /\ reg["a0"] = key
      /\ {"a0", "a1", "a2", "zero"} \subseteq Registers /\ key \in Nat /\ key >= 1
      /\ key <= MaxInterrupts /\ "keyboard" \in Devices
  BY InKeyboardFacts
<1>2. /\ SecondsAt \in Int /\ MinutesAt = SecondsAt + 1 /\ HoursAt = SecondsAt + 2
      /\ Top \in Int /\ CharsAt \in Int /\ CharsAt >= Top
      /\ MaxInterrupts \in Nat /\ CharsAt + MaxInterrupts < SecondsAt
      /\ WordsAt \in Nat /\ WordsAt + 5 < Top
  BY CellFacts
<1>3. Stores(w, v)
  <2>1. CASE o = 18
    <3>1. Fetch(pc) = Sw("a0", "a2", 0)
      BY <1>1, <2>1, KeyboardCode
    <3>2. Stores(reg["a2"] + 0, reg["a0"])
      BY <1>1, <3>1, DoSw
    <3>3. reg["a2"] + 0 = w /\ reg["a0"] = v
      BY <1>1, <2>1 DEF KeyboardAlone
    <3> QED BY <3>2, <3>3
  <2>2. CASE o = 20
    <3>1. Fetch(pc) = Sw("a2", "a1", 0)
      BY <1>1, <2>2, KeyboardCode
    <3>2. Stores(reg["a1"] + 0, reg["a2"])
      BY <1>1, <3>1, DoSw
    <3>3. reg["a1"] + 0 = w /\ reg["a2"] = v
      BY <1>1, <2>2 DEF KeyboardAlone
    <3> QED BY <3>2, <3>3
  <2> QED BY <2>1, <2>2
<1>4. /\ pc' = KeyboardAt + (o + 1) /\ reg' = reg /\ ticks' = ticks /\ key' = key
      /\ DOMAIN mem' = DOMAIN mem \cup {w} /\ mem'[w] = v
      /\ \A a \in DOMAIN mem : a # w => mem'[a] = mem[a]
  <2> HIDE DEF w, v
  <2> QED BY <1>1, <1>3 DEF Stores, Counts
<1>5. In(mem', w) = v /\ \A a : a # w => In(mem', a) = In(mem, a)
  <2> HIDE DEF w, v
  <2> QED BY <1>4 DEF In
<1>6. /\ w # SecondsAt /\ w # MinutesAt /\ w # HoursAt
      /\ w # WordsAt + 1 /\ w # WordsAt + 2 /\ w # WordsAt + 3
  <2>1. CASE o = 18
    <3>1. w >= Top /\ w < SecondsAt /\ w \in Int
      BY <1>1, <1>2, <2>1
    <3> QED BY <1>2, <3>1
  <2>2. CASE o = 20
    <3>1. w = WordsAt + 4
      BY <2>2
    <3> QED BY <1>2, <3>1
  <2> QED BY <2>1, <2>2
<1>7. Pointing(mem') /\ TimeIn(mem') = ticks
  <2> HIDE DEF w, v
  <2>1. TimeIn(mem') = TimeIn(mem)
    BY <1>5, <1>6 DEF TimeIn
  <2> QED BY <1>1, <1>5, <1>6, <2>1 DEF Pointing
<1>8. Following(mem, key - Late(o), key - Behind(o))
  BY <1>1 DEF KeyboardAlone
<1>9. Following(mem', key - Late(o + 1), key - Behind(o + 1))
  <2>1. CASE o = 18
    <3>1. Late(o) = 1 /\ Late(o + 1) = 1 /\ Behind(o) = 1 /\ Behind(o + 1) = 0
      BY <2>1 DEF Late, Behind
    <3>2. w = CharsAt + key - 1 /\ v = key /\ w # WordsAt + 4
      BY <1>1, <1>2, <2>1
    <3> HIDE DEF w, v
    <3>3. In(mem', WordsAt + 4) = CharsAt + (key - 1)
      BY <1>5, <1>8, <3>1, <3>2 DEF Following
    <3>4. \A k \in 1 .. key - 1 : In(mem, CharsAt + k - 1) = k
      BY <1>8, <3>1 DEF Following
    <3>5. ASSUME NEW k \in 1 .. key
          PROVE  In(mem', CharsAt + k - 1) = k
      <4>1. CASE k = key
        BY <1>5, <3>2, <4>1
      <4>2. CASE k # key
        <5>1. k \in 1 .. key - 1 /\ CharsAt + k - 1 # w
          BY <1>1, <1>2, <3>2, <4>2
        <5> QED BY <1>5, <3>4, <5>1
      <4> QED BY <4>1, <4>2
    <3>6. key - 0 = key
      BY <1>1
    <3> QED BY <3>1, <3>3, <3>5, <3>6 DEF Following
  <2>2. CASE o = 20
    <3>1. Behind(o) = 0 /\ Behind(o + 1) = 0 /\ Late(o + 1) = 0 /\ key - 0 = key
      BY <1>1, <2>2 DEF Late, Behind
    <3>2. w = WordsAt + 4 /\ v = CharsAt + key
      BY <2>2
    <3> HIDE DEF w, v
    <3>3. \A k \in 1 .. key : CharsAt + k - 1 # w
      BY <1>1, <1>2, <3>2
    <3>4. \A k \in 1 .. key : In(mem, CharsAt + k - 1) = k
      BY <1>8, <3>1 DEF Following
    <3> QED BY <1>5, <3>1, <3>2, <3>3, <3>4 DEF Following
  <2> QED BY <2>1, <2>2
<1>10. KeyboardAlone(mem', o + 1, reg', key)
  <2>1. reg'["a1"] = reg["a1"] /\ reg'["a2"] = reg["a2"]
    BY <1>4
  <2> QED BY <1>1, <1>9, <2>1 DEF KeyboardAlone
<1> QED BY <1>4, <1>7, <1>10 DEF KeyboardAt1

LEMMA KeyboardAloneStep ==
  ASSUME NEW o, InKeyboard(o)
  PROVE  KeyboardAt1(o + 1)
<1>1. o \in 0 .. 35
  BY DEF InKeyboard
<1>2. \/ o \in StackAt("keyboard") \cup {4, 5, 33}
      \/ o \in {16, 17, 19} \/ o \in {18, 20}
  BY <1>1 DEF StackAt, PushAt, StoreAt, LoadAt, PopAt
<1> QED BY <1>2, KeyboardOnStack, KeyboardComputes, KeyboardWrites

-----------------------------------------------------------------------------
(* The clock and the characters are exact.                                 *)

\* No address is in two handlers.
LEMMA OneDevice ==
  ASSUME NEW d \in Devices, NEW e \in Devices, NEW p \in Int,
         p - Start(d) \in 0 .. End(d), p - Start(e) \in 0 .. End(e)
  PROVE  d = e
BY DevicesAssumption, AddressFacts DEF Start, End

LEMMA QuietAtFirst ==
  ASSUME Init
  PROVE  Quiet
<1>1. key = 0 /\ ticks = 0 /\ active = <<>>
  BY DEF Init
<1>2. Depth = 0
  BY <1>1 DEF Depth
<1>3. /\ DOMAIN mem = {WordsAt, WordsAt + 1, WordsAt + 2, WordsAt + 3, WordsAt + 4}
      /\ mem[WordsAt + 1] = SecondsAt /\ mem[WordsAt + 2] = MinutesAt
      /\ mem[WordsAt + 3] = HoursAt /\ mem[WordsAt + 4] = CharsAt
  BY FirstMemory DEF SecondsAt, MinutesAt, HoursAt, CharsAt
<1>4. /\ SecondsAt \in Int /\ MinutesAt = SecondsAt + 1 /\ HoursAt = SecondsAt + 2
      /\ SecondsAt > WordsAt + 4 /\ WordsAt \in Nat /\ CharsAt \in Int
  BY CellFacts
<1>5. Pointing(mem) /\ In(mem, WordsAt + 4) = CharsAt
  BY <1>3 DEF Pointing, In
<1>6. In(mem, SecondsAt) = 0 /\ In(mem, MinutesAt) = 0 /\ In(mem, HoursAt) = 0
  BY <1>3, <1>4 DEF In
<1>7. TimeIn(mem) = 0
  <2>1. Turn \in Int
    BY CellFacts
  <2> QED BY <1>6, <2>1 DEF TimeIn, TimeOf
<1>8. Following(mem, 0, 0)
  BY <1>4, <1>5 DEF Following
<1> QED BY <1>1, <1>2, <1>5, <1>7, <1>8 DEF Quiet

\* What a step of the processor leaves alone.
LEMMA StepCounts ==
  ASSUME Step
  PROVE  ticks' = ticks /\ key' = key /\ nested' = nested
<1> DEFINE i == Fetch(pc)
<1>1. Compute(i) \/ Store(i) \/ Branch(i) \/ Jump(i) \/ Enable(i) \/ Return(i)
  BY DEF Step
<1> HIDE DEF i
<1> QED BY <1>1 DEF Compute, Store, Branch, Jump, Enable, Return, history

LEMMA QuietInProgram ==
  ASSUME IInv, Quiet, Step, Depth = 0
  PROVE  Quiet'
<1> SUFFICES ASSUME ~ nested' PROVE Quiet'
  BY DEF Quiet
<1>1. ticks' = ticks /\ key' = key /\ nested' = nested
  BY StepCounts
<1>2. Depth' = 0
  <2>1. active' = active
    BY ProgramStep
  <2> QED BY <2>1 DEF Depth
<1>3. Pointing(mem) /\ TimeIn(mem) = ticks /\ Following(mem, key, key)
  BY <1>1 DEF Quiet
<1>4. key \in Nat
  BY DEF IInv, TypeOK
<1>5. Same(mem, mem')
  BY ProgramSame
<1>6. Pointing(mem') /\ TimeIn(mem') = ticks /\ Following(mem', key, key)
  BY <1>3, <1>4, <1>5, SameTold
<1> QED BY <1>1, <1>2, <1>6 DEF Quiet

\* In the only handler that is active.
LEMMA QuietInHandler ==
  ASSUME IInv, Quiet, NEW d, InHandler(d), ~ nested
  PROVE  /\ Depth = 1 /\ Pointing(mem) /\ pc \in Int /\ d \in {"timer", "keyboard"}
         /\ pc - Start(d) \in 0 .. End(d) /\ pc = Start(d) + (pc - Start(d))
         /\ Alone(mem, d, pc - Start(d), reg, ticks, key, active[1].key) /\ d \in Devices
<1>1. Depth \in Nat /\ Depth # 0 /\ d \in Devices /\ pc \in Int
  BY CountFacts DEF InHandler, IInv, TypeOK
<1>2. Depth = 1 /\ Pointing(mem)
  BY <1>1 DEF Quiet
<1>3. pc - Start(d) \in 0 .. End(d)
  BY DEF InHandler, HandlerOK
<1>4. d \in {"timer", "keyboard"} /\ Start(d) \in Int
  BY <1>1, StartFacts
<1> QED BY <1>1, <1>2, <1>3, <1>4 DEF Quiet

LEMMA QuietGoesOn ==
  ASSUME IInv, Quiet, NEW d, InHandler(d), pc - Start(d) # End(d)
  PROVE  Quiet'
<1> SUFFICES ASSUME ~ nested' PROVE Quiet'
  BY DEF Quiet
<1> DEFINE o == pc - Start(d)
           q == pc' - Start(d)
<1>1. ticks' = ticks /\ key' = key /\ nested' = nested
  BY StepCounts DEF InHandler
<1>2. /\ Depth = 1 /\ Pointing(mem) /\ pc \in Int /\ d \in {"timer", "keyboard"}
      /\ o \in 0 .. End(d) /\ pc = Start(d) + o
      /\ Alone(mem, d, o, reg, ticks, key, active[1].key) /\ d \in Devices
  BY <1>1, QuietInHandler
<1>3. active' = active /\ pc' \in Int
  BY HandlerGoesOn DEF IInv, TypeOK
<1>4. Depth' = 1
  BY <1>2, <1>3 DEF Depth
<1>5. Start(d) \in Int
  BY <1>2, StartFacts
<1> HIDE DEF o
<1>6. /\ q \in 0 .. End(d) /\ Pointing(mem')
      /\ Alone(mem', d, q, reg', ticks', key', active'[1].key)
  <2>1. CASE d = "timer"
    <3>1. o \in 0 .. 53
      BY <1>2, <2>1 DEF End, o
    <3>2. pc = TimerAt + o /\ TimerAlone(mem, o, reg, ticks) /\ Following(mem, key, key)
      BY <1>2, <2>1 DEF Alone, Start
    <3>3. PICK p \in 0 .. 54 : TimerAt1(p)
      BY <1>2, <2>1, <3>1, <3>2, TimerAloneStep
    <3>4. q = p /\ q \in 0 .. End(d)
      BY <1>5, <2>1, <3>3 DEF TimerAt1, Start, End
    <3>5. /\ Pointing(mem') /\ TimerAlone(mem', q, reg', ticks') /\ Following(mem', key', key')
      BY <1>1, <3>3, <3>4 DEF TimerAt1
    <3> QED BY <2>1, <3>4, <3>5 DEF Alone
  <2>2. CASE d = "keyboard"
    <3>1. o \in 0 .. 35
      BY <1>2, <2>2 DEF End, o
    <3>2. /\ pc = KeyboardAt + o /\ key >= 1 /\ active[1].key = key
          /\ TimeIn(mem) = ticks /\ KeyboardAlone(mem, o, reg, key)
      BY <1>2, <2>2 DEF Alone, Start
    <3>3. InKeyboard(o)
      BY <1>2, <2>2, <3>1, <3>2 DEF InKeyboard
    <3>4. KeyboardAt1(o + 1)
      BY <3>3, KeyboardAloneStep
    <3>5. q = o + 1 /\ q \in 0 .. End(d)
      BY <1>5, <2>2, <3>1, <3>4 DEF KeyboardAt1, Start, End
    <3>6. /\ Pointing(mem') /\ TimeIn(mem') = ticks' /\ KeyboardAlone(mem', q, reg', key')
          /\ key' >= 1 /\ active'[1].key = key'
      BY <1>1, <1>3, <3>2, <3>4, <3>5 DEF KeyboardAt1
    <3> QED BY <2>2, <3>5, <3>6 DEF Alone
  <2> QED BY <1>2, <2>1, <2>2
<1>7. ASSUME NEW e \in Devices, pc' - Start(e) \in 0 .. End(e)
      PROVE  Alone(mem', e, pc' - Start(e), reg', ticks', key', active'[1].key)
  <2>1. e = d
    BY <1>2, <1>3, <1>6, <1>7, OneDevice
  <2> QED BY <1>6, <2>1
<1> QED BY <1>4, <1>6, <1>7 DEF Quiet

LEMMA QuietEnds ==
  ASSUME IInv, Quiet, NEW d, InHandler(d), pc - Start(d) = End(d)
  PROVE  Quiet'
<1> SUFFICES ASSUME ~ nested' PROVE Quiet'
  BY DEF Quiet
<1>1. mem' = mem /\ ticks' = ticks /\ key' = key /\ nested' = nested /\ active' = Front(active)
  BY HandlerReturned DEF Returned
<1>2. /\ Depth = 1 /\ Pointing(mem) /\ d \in {"timer", "keyboard"}
      /\ Alone(mem, d, End(d), reg, ticks, key, active[1].key)
  BY <1>1, QuietInHandler
<1>3. Depth' = 0
  BY <1>1, <1>2, FrontFacts
<1>4. TimeIn(mem) = ticks /\ Following(mem, key, key)
  <2>0. key \in Nat /\ ticks \in Nat
    BY DEF IInv, TypeOK
  <2>1. CASE d = "timer"
    <3>1. TimerAlone(mem, 54, reg, ticks) /\ Following(mem, key, key)
      BY <1>2, <2>1 DEF Alone, End
    <3>2. Due(54) = 0
      BY DEF Due
    <3>3. TimeIn(mem) \in Int
      <4>1. In(mem, HoursAt) \in Int /\ In(mem, MinutesAt) \in Int /\ In(mem, SecondsAt) \in Int
        BY InIs DEF IInv
      <4> QED BY <4>1, Turns DEF TimeIn
    <3> QED BY <3>1, <3>2, <3>3 DEF TimerAlone
  <2>2. CASE d = "keyboard"
    <3>1. TimeIn(mem) = ticks /\ KeyboardAlone(mem, 36, reg, key)
      BY <1>2, <2>2 DEF Alone, End
    <3>2. Late(36) = 0 /\ Behind(36) = 0
      BY DEF Late, Behind
    <3>3. key - 0 = key
      BY <2>0
    <3> QED BY <3>1, <3>2, <3>3 DEF KeyboardAlone
  <2> QED BY <1>2, <2>1, <2>2
<1> QED BY <1>1, <1>2, <1>3, <1>4 DEF Quiet

LEMMA QuietInterrupted ==
  ASSUME IInv, Quiet, Tick \/ TypeKey
  PROVE  Quiet'
<1> SUFFICES ASSUME ~ nested' PROVE Quiet'
  BY DEF Quiet
<1>1. ~ nested /\ active = <<>>
  <2>1. nested' = (nested \/ active # <<>>)
    BY DEF Tick, TypeKey, Interrupt
  <2> QED BY <2>1
<1>2. Depth = 0
  BY <1>1 DEF Depth
<1>3. Pointing(mem) /\ TimeIn(mem) = ticks /\ Following(mem, key, key)
  BY <1>1, <1>2 DEF Quiet
<1>4. PICK d : Interrupted(d)
  BY InterruptIs
<1> DEFINE x == [pc |-> pc, reg |-> reg, key |-> key']
<1>5. /\ d \in Devices /\ pc' = Start(d) /\ mem' = mem
      /\ x \in Frames /\ active' = Append(active, x)
      /\ ticks' = (IF d = "timer" THEN ticks + 1 ELSE ticks)
      /\ key' = (IF d = "timer" THEN key ELSE key + 1)
  BY <1>4 DEF Interrupted
<1>6. x.key = key'
  OBVIOUS
<1> HIDE DEF x
<1>7. Depth' = 1 /\ active'[1] = x
  <2>1. Depth' = Depth + 1 /\ active'[Depth + 1] = x
    BY <1>5, AppendFacts
  <2> QED BY <1>2, <2>1
<1>8. key \in Nat /\ ticks \in Nat /\ d \in {"timer", "keyboard"} /\ Start(d) \in Nat
  BY <1>5, StartFacts DEF IInv, TypeOK
<1>9. Alone(mem', d, 0, reg', ticks', key', active'[1].key)
  <2>1. CASE d = "timer"
    <3>1. Due(0) = 1
      BY DEF Due
    <3>2. TimerAlone(mem', 0, reg', ticks') /\ Following(mem', key', key')
      BY <1>3, <1>5, <2>1, <3>1 DEF TimerAlone
    <3> QED BY <2>1, <3>2 DEF Alone
  <2>2. CASE d = "keyboard"
    <3>1. Late(0) = 1 /\ Behind(0) = 1 /\ key' = key + 1 /\ key' - 1 = key
      BY <1>5, <1>8, <2>2 DEF Late, Behind
    <3>2. KeyboardAlone(mem', 0, reg', key')
      BY <1>3, <1>5, <3>1 DEF KeyboardAlone
    <3>3. key' >= 1 /\ TimeIn(mem') = ticks' /\ active'[1].key = key'
      BY <1>3, <1>5, <1>6, <1>7, <1>8, <2>2, <3>1
    <3> QED BY <2>2, <3>2, <3>3 DEF Alone
  <2> QED BY <1>8, <2>1, <2>2
<1>10. pc' - Start(d) = 0 /\ 0 \in 0 .. End(d) /\ pc' \in Int
  BY <1>5, <1>8, StartFacts
<1>11. ASSUME NEW e \in Devices, pc' - Start(e) \in 0 .. End(e)
       PROVE  Alone(mem', e, pc' - Start(e), reg', ticks', key', active'[1].key)
  <2>1. e = d
    BY <1>5, <1>10, <1>11, OneDevice
  <2> QED BY <1>9, <1>10, <2>1
<1> QED BY <1>3, <1>5, <1>7, <1>11 DEF Quiet

LEMMA QuietStays ==
  ASSUME IInv, Quiet, [Next]_vars
  PROVE  Quiet'
<1>1. CASE Step
  <2>1. CASE Depth = 0
    BY <1>1, <2>1, QuietInProgram
  <2>2. CASE Depth # 0
    <3>1. PICK d \in Devices : InHandler(d)
      BY <1>1, <2>2, SomeHandler
    <3> QED BY <3>1, QuietGoesOn, QuietEnds
  <2> QED BY <2>1, <2>2
<1>2. CASE Tick \/ TypeKey
  BY <1>2, QuietInterrupted
<1>3. CASE UNCHANGED vars
  <2>1. /\ pc' = pc /\ reg' = reg /\ mem' = mem /\ ticks' = ticks /\ key' = key
        /\ active' = active /\ nested' = nested
    BY <1>3 DEF vars, machine, history
  <2>2. Depth' = Depth
    BY <2>1 DEF Depth
  <2> QED BY <2>1, <2>2 DEF Quiet
<1> QED BY <1>1, <1>2, <1>3 DEF Next

LEMMA QuietCounts ==
  ASSUME IInv, Quiet
  PROVE  UninterruptedHandlersCount
<1> SUFFICES ASSUME ~ nested, active = <<>>
             PROVE  /\ Time = ticks
                    /\ Load(Labels["keyboard_out"]) = Words["keyboard_out"] + key
                    /\ \A n \in 1 .. key : Load(Words["keyboard_out"] + n - 1) = n
  BY DEF UninterruptedHandlersCount
<1>1. Depth = 0
  BY DEF Depth
<1>2. TimeIn(mem) = ticks /\ Following(mem, key, key)
  BY <1>1 DEF Quiet
<1>3. \A a : In(mem, a) = Load(a)
  BY InIs DEF IInv
<1>4. Time = TimeIn(mem)
  BY <1>3 DEF Time, TimeIn, TimeOf, Turn, Cell, SecondsAt, MinutesAt, HoursAt
<1>5. Labels["keyboard_out"] = WordsAt + 4
  BY Addresses
<1> QED BY <1>2, <1>3, <1>4, <1>5 DEF Following, CharsAt

\* The clock shows the timer interrupts and the buffer the characters in the
\* order typed, as long as no handler is interrupted (prj2.s:117-150,
\* prj2-keyboard.s:205-212).
THEOREM HandlersCount == Spec => []UninterruptedHandlersCount
<1> USE DEF Spec
<1>1. Init => Quiet
  BY QuietAtFirst
<1>2. IInv /\ Quiet /\ [Next]_vars => Quiet'
  BY QuietStays
<1>3. IInv /\ Quiet => UninterruptedHandlersCount
  BY QuietCounts
<1> QED BY <1>1, <1>2, <1>3, Levelled, PTL

-----------------------------------------------------------------------------

(* What the function computes: the j-th call inside of the first one       *)
(* returns the factorial of Argument - j.                                  *)

\* s1 of a call is what it multiplies by; its callee keeps it on the stack.
CallersKept(m, f, j, r) ==
  /\ \A i \in 1 .. j : i < j \/ f \in 8 .. 26 => In(m, Top - 4 * i - 4) = Argument - i + 1
  /\ j > 0 /\ f \notin 8 .. 26 => r["s1"] = Argument - j + 1

OwnValues(f, j, r) ==
  /\ f = 10 => r["s1"] = 1
  /\ f = 12 => Argument = j
  /\ f = 14 => Argument = j + 1
  /\ f \in 17 .. 21 => r["s1"] = Argument - j
  /\ f \in 20 .. 25 => j < Argument
  /\ f = 20 => r["v0"] = FactorialOf[Argument - j - 1]
  /\ f \in 21 .. 25 => r["s0"] = FactorialOf[Argument - j - 1]
  /\ f \in {22, 23, 25} => r["v0"] + r["s1"] * r["s0"] = FactorialOf[Argument - j]
  /\ f = 24 => r["v0"] + (r["s1"] - 1) * r["s0"] = FactorialOf[Argument - j]
  /\ f \in {13, 15} \cup 26 .. 34 => r["v0"] = FactorialOf[Argument - j]

ValueOK(m, p, r) ==
  /\ p = FactorialAt - 1 => r["v0"] = FactorialOf[Argument]
  /\ \A j \in 0 .. Argument :
       p - FactorialAt \in 0 .. 34 /\ r["sp"] = Top - 4 * j - Framed(p - FactorialAt) =>
         /\ CallersKept(m, p - FactorialAt, j, r)
         /\ OwnValues(p - FactorialAt, j, r)

Valued == ValueOK(mem, LevelPc(0), LevelReg(0))

\* A keyboard handler is active only after a character.
KeyTyped == \A k \in 1 .. Depth : LevelPc(k) - KeyboardAt \in 0 .. 36 => key > 0

-----------------------------------------------------------------------------
(* Factorials.                                                             *)

\* The factorials up to that of n.
Products(g, n) == g = [i \in 0 .. n |-> IF i = 0 THEN 1 ELSE i * g[i - 1]]

LEMMA ProductsExist ==
  ASSUME NEW n \in Nat
  PROVE  \E g : Products(g, n)
<1> DEFINE S == {k \in Nat : \E g : Products(g, k)}
<1>1. 0 \in S
  <2> DEFINE g == [i \in 0 .. 0 |-> 1]
  <2>1. g = [i \in 0 .. 0 |-> IF i = 0 THEN 1 ELSE i * g[i - 1]]
    OBVIOUS
  <2>2. Products(g, 0)
    BY <2>1 DEF Products
  <2> QED BY <2>2
<1>2. ASSUME NEW k \in S
      PROVE  k + 1 \in S
  <2>1. k \in Nat
    OBVIOUS
  <2>2. PICK g : Products(g, k)
    OBVIOUS
  <2> DEFINE h == [i \in 0 .. k + 1 |-> IF i = k + 1 THEN i * g[k] ELSE g[i]]
  <2>3. ASSUME NEW i \in 0 .. k + 1
        PROVE  h[i] = IF i = 0 THEN 1 ELSE i * h[i - 1]
    <3>1. CASE i = k + 1
      <4>1. i # 0 /\ i - 1 = k /\ k \in 0 .. k + 1 /\ k # k + 1
        BY <2>1, <3>1
      <4>2. h[k] = g[k] /\ h[i] = i * g[k]
        BY <3>1, <4>1
      <4> QED BY <4>1, <4>2
    <3>2. CASE i # k + 1
      <4>1. i \in 0 .. k /\ (i # 0 => i - 1 \in 0 .. k /\ i - 1 \in 0 .. k + 1 /\ i - 1 # k + 1)
        BY <2>1, <3>2
      <4>2. g[i] = IF i = 0 THEN 1 ELSE i * g[i - 1]
        BY <2>2, <4>1 DEF Products
      <4>3. h[i] = g[i] /\ (i # 0 => h[i - 1] = g[i - 1])
        BY <3>2, <4>1
      <4> QED BY <4>2, <4>3
    <3> QED BY <3>1, <3>2
  <2>4. h = [i \in 0 .. k + 1 |-> h[i]]
    OBVIOUS
  <2> HIDE DEF h
  <2>5. Products(h, k + 1)
    BY <2>3, <2>4 DEF Products
  <2> QED BY <2>1, <2>5
<1>3. S = Nat
  <2> HIDE DEF S
  <2>1. S \in SUBSET Nat
    BY DEF S
  <2> QED BY <1>1, <1>2, <2>1, Induction
<1> QED BY <1>3

LEMMA ProductsAgree ==
  ASSUME NEW n \in Nat, NEW m \in Nat, NEW g, Products(g, n), NEW h, Products(h, m)
  PROVE  \A i \in Nat : i <= n /\ i <= m => g[i] = h[i]
<1> DEFINE S == {k \in Nat : k <= n /\ k <= m => g[k] = h[k]}
<1>1. 0 \in S
  <2>1. 0 \in 0 .. n /\ 0 \in 0 .. m
    OBVIOUS
  <2>2. g[0] = 1 /\ h[0] = 1
    BY <2>1 DEF Products
  <2> QED BY <2>2
<1>2. ASSUME NEW k \in S
      PROVE  k + 1 \in S
  <2>1. k \in Nat
    OBVIOUS
  <2>2. ASSUME k + 1 <= n, k + 1 <= m
        PROVE  g[k + 1] = h[k + 1]
    <3>1. k + 1 \in 0 .. n /\ k + 1 \in 0 .. m /\ k + 1 # 0 /\ (k + 1) - 1 = k
      BY <2>1, <2>2
    <3>2. g[k + 1] = (k + 1) * g[(k + 1) - 1] /\ h[k + 1] = (k + 1) * h[(k + 1) - 1]
      BY <3>1 DEF Products
    <3>3. g[k] = h[k]
      BY <2>1, <2>2
    <3> QED BY <3>1, <3>2, <3>3
  <2> QED BY <2>1, <2>2
<1>3. S = Nat
  <2> HIDE DEF S
  <2>1. S \in SUBSET Nat
    BY DEF S
  <2> QED BY <1>1, <1>2, <2>1, Induction
<1> QED BY <1>3

LEMMA FactorialFacts ==
  /\ FactorialOf[0] = 1
  /\ \A n \in Nat : FactorialOf[n + 1] = (n + 1) * FactorialOf[n]
<1> DEFINE G(n) == CHOOSE g : Products(g, n)
           F == [n \in Nat |-> G(n)[n]]
<1>1. ASSUME NEW n \in Nat
      PROVE  Products(G(n), n)
  BY ProductsExist
<1>2. ASSUME NEW n \in Nat
      PROVE  F[n] = G(n)[n]
  OBVIOUS
<1>3. F = [n \in Nat |-> F[n]]
  OBVIOUS
<1> HIDE DEF F, G
<1>4. ASSUME NEW n \in Nat
      PROVE  F[n] = IF n = 0 THEN 1 ELSE n * F[n - 1]
  <2>1. n \in 0 .. n
    OBVIOUS
  <2>2. G(n)[n] = IF n = 0 THEN 1 ELSE n * G(n)[n - 1]
    BY <1>1, <2>1 DEF Products
  <2>3. n # 0 => n - 1 \in Nat /\ n - 1 <= n /\ n - 1 <= n - 1
    OBVIOUS
  <2>4. n # 0 => G(n)[n - 1] = G(n - 1)[n - 1]
    BY <1>1, <2>3, ProductsAgree
  <2> QED BY <1>2, <2>2, <2>3, <2>4
<1> DEFINE Is(f) == f = [n \in Nat |-> IF n = 0 THEN 1 ELSE n * f[n - 1]]
<1>5. Is(F)
  BY <1>3, <1>4
<1>6. FactorialOf = CHOOSE f : Is(f)
  BY DEF FactorialOf
<1>7. Is(FactorialOf)
  <2> HIDE DEF Is
  <2> QED BY <1>5, <1>6
<1>8. ASSUME NEW n \in Nat
      PROVE  FactorialOf[n] = IF n = 0 THEN 1 ELSE n * FactorialOf[n - 1]
  BY <1>7
<1>9. ASSUME NEW n \in Nat
      PROVE  FactorialOf[n + 1] = (n + 1) * FactorialOf[n]
  <2>1. n + 1 \in Nat /\ n + 1 # 0 /\ (n + 1) - 1 = n
    OBVIOUS
  <2>2. FactorialOf[n + 1] = (n + 1) * FactorialOf[(n + 1) - 1]
    BY <1>8, <2>1
  <2> QED BY <2>1, <2>2
<1> QED BY <1>8, <1>9

-----------------------------------------------------------------------------
(* A call of the function keeps what its callers multiply by.              *)

\* The function at its instruction f in its j-th call, and where a step takes it.
InCall(f, j) ==
  /\ InFunction(f, j, Most) /\ TypeOK
  /\ CallersKept(mem, f, j, reg) /\ OwnValues(f, j, reg)
ToCall(q, i) ==
  /\ q \in 0 .. 34 /\ i \in 0 .. Argument /\ pc' = FactorialAt + q
  /\ reg'["sp"] = Top - 4 * i - Framed(q)
  /\ CallersKept(mem', q, i, reg') /\ OwnValues(q, i, reg')

LEMMA ToCallValue ==
  ASSUME NEW q, NEW i, ToCall(q, i)
  PROVE  ValueOK(mem', pc', reg')
<1>1. /\ q \in 0 .. 34 /\ i \in 0 .. Argument /\ pc' = FactorialAt + q
      /\ reg'["sp"] = Top - 4 * i - Framed(q)
      /\ CallersKept(mem', q, i, reg') /\ OwnValues(q, i, reg')
  BY DEF ToCall
<1>2. FactorialAt \in Nat /\ Top \in Int /\ Argument \in Nat
  BY AddressFacts, RoomFacts
<1>3. pc' - FactorialAt = q /\ pc' # FactorialAt - 1
  BY <1>1, <1>2
<1>4. ASSUME NEW j \in 0 .. Argument, reg'["sp"] = Top - 4 * j - Framed(q)
      PROVE  j = i
  <2>1. Framed(q) \in Int
    BY DEF Framed
  <2> QED BY <1>1, <1>2, <1>4, <2>1
<1> QED BY <1>1, <1>3, <1>4 DEF ValueOK

LEMMA InCallFacts ==
  ASSUME NEW f, NEW j, InCall(f, j)
  PROVE  /\ TypeOK /\ Step /\ f \in 0 .. 34 /\ j \in 0 .. Argument /\ j \in Nat
         /\ pc = FactorialAt + f /\ pc + 1 = FactorialAt + (f + 1)
         /\ reg["sp"] \in Int /\ reg["sp"] = Top - 4 * j - Framed(f)
         /\ FactorialOK(mem, f, j, reg) /\ Argument \in Nat /\ Top \in Int
         /\ CallersKept(mem, f, j, reg) /\ OwnValues(f, j, reg)
         /\ {"sp", "a0", "s0", "s1", "v0", "ra", "at", "zero"} \subseteq Registers
         /\ reg["zero"] = 0 /\ \A r \in Registers : reg[r] \in Int
<1>1. /\ InFunction(f, j, Most) /\ TypeOK
      /\ CallersKept(mem, f, j, reg) /\ OwnValues(f, j, reg)
  BY DEF InCall
<1>2. /\ Step /\ f \in 0 .. 34 /\ j \in 0 .. Argument /\ j \in Nat
      /\ pc = FactorialAt + f /\ pc + 1 = FactorialAt + (f + 1)
      /\ reg["sp"] \in Int /\ reg["sp"] = Top - 4 * j - Framed(f)
      /\ FactorialOK(mem, f, j, reg) /\ Argument \in Nat
  BY <1>1, FunctionFacts
<1>3. /\ {"sp", "a0", "s0", "s1", "v0", "ra", "at", "zero"} \subseteq Registers
      /\ reg["zero"] = 0 /\ \A r \in Registers : reg[r] \in Int
  BY <1>1 DEF TypeOK, Registers
<1>4. Top \in Int
  BY RoomFacts
<1> QED BY <1>1, <1>2, <1>3, <1>4

\* Where the whole frame is on the stack, the callers keep what they had.
LEMMA CallCalm ==
  ASSUME NEW f \in 8 .. 25, NEW j, InCall(f, j), NEW q \in 8 .. 26,
         pc' = FactorialAt + q, mem' = mem, reg'["sp"] = reg["sp"], OwnValues(q, j, reg')
  PROVE  ToCall(q, j)
<1>1. /\ j \in 0 .. Argument /\ reg["sp"] = Top - 4 * j - Framed(f)
      /\ CallersKept(mem, f, j, reg)
  BY InCallFacts
<1>2. Framed(f) = 4 /\ Framed(q) = 4
  BY DEF Framed
<1>3. CallersKept(mem', q, j, reg')
  <2>1. f \in 8 .. 26 /\ q \in 8 .. 26
    OBVIOUS
  <2>2. \A i \in 1 .. j : In(mem, Top - 4 * i - 4) = Argument - i + 1
    BY <1>1, <2>1 DEF CallersKept
  <2> QED BY <2>1, <2>2 DEF CallersKept
<1> QED BY <1>1, <1>2, <1>3 DEF ToCall

LEMMA CallMoves ==
  ASSUME NEW f, NEW j, InCall(f, j), f \in {0, 2, 4, 6, 27, 29, 31, 33}
  PROVE  ToCall(f + 1, j)
<1> DEFINE n == IF f \in {0, 2, 4, 6} THEN -1 ELSE 1
<1>1. /\ TypeOK /\ Step /\ f \in 0 .. 34 /\ j \in 0 .. Argument /\ j \in Nat
      /\ pc = FactorialAt + f /\ pc + 1 = FactorialAt + (f + 1)
      /\ reg["sp"] \in Int /\ reg["sp"] = Top - 4 * j - Framed(f) /\ Top \in Int
      /\ CallersKept(mem, f, j, reg) /\ OwnValues(f, j, reg)
      /\ {"sp", "s1", "v0"} \subseteq Registers
  BY InCallFacts
<1>2. Fetch(pc) = Addi("sp", "sp", n) /\ n \in Int
  BY <1>1, FactorialCode
<1> HIDE DEF n
<1>3. Computes("sp", reg["sp"] + n)
  BY <1>1, <1>2, DoAddi
<1>4. /\ pc' = FactorialAt + (f + 1) /\ mem' = mem /\ reg'["sp"] = reg["sp"] + n
      /\ reg'["s1"] = reg["s1"] /\ reg'["v0"] = reg["v0"]
  BY <1>1, <1>3 DEF Computes
<1>5. Framed(f + 1) = Framed(f) - n /\ Framed(f) \in Int /\ f + 1 \in 0 .. 34
  BY DEF Framed, n
<1>6. reg'["sp"] = Top - 4 * j - Framed(f + 1)
  BY <1>1, <1>2, <1>4, <1>5
<1>7. f \notin 8 .. 26 /\ f + 1 \notin 8 .. 26
  OBVIOUS
<1>8. CallersKept(mem', f + 1, j, reg')
  BY <1>1, <1>4, <1>7 DEF CallersKept
<1>9. OwnValues(f + 1, j, reg')
  BY <1>1, <1>4 DEF OwnValues
<1> QED BY <1>1, <1>4, <1>5, <1>6, <1>8, <1>9 DEF ToCall

LEMMA CallSaves ==
  ASSUME NEW f, NEW j, InCall(f, j), f \in {1, 3, 5, 7}
  PROVE  ToCall(f + 1, j)
<1> DEFINE e == IF f = 1 THEN "ra" ELSE IF f = 3 THEN "a0" ELSE IF f = 5 THEN "s0" ELSE "s1"
           w == Top - 4 * j - Framed(f)
<1>1. /\ TypeOK /\ Step /\ j \in 0 .. Argument /\ j \in Nat
      /\ pc = FactorialAt + f /\ pc + 1 = FactorialAt + (f + 1)
      /\ reg["sp"] \in Int /\ reg["sp"] = w /\ Top \in Int
      /\ CallersKept(mem, f, j, reg) /\ "sp" \in Registers
  BY InCallFacts
<1>2. Fetch(pc) = Sw(e, "sp", 0)
  BY <1>1, FactorialCode
<1>3. e \in Registers /\ (f = 7 => e = "s1")
  BY DEF Registers
<1>4. Framed(f + 1) = Framed(f) /\ Framed(f) \in 1 .. 4 /\ (f = 7 <=> Framed(f) = 4)
  BY DEF Framed
<1> HIDE DEF e
<1>5. Stores(w, reg[e])
  <2>1. Stores(reg["sp"] + 0, reg[e])
    BY <1>1, <1>2, <1>3, DoSw
  <2>2. reg["sp"] + 0 = reg["sp"]
    BY <1>1
  <2> QED BY <1>1, <2>1, <2>2
<1>6. /\ pc' = FactorialAt + (f + 1) /\ reg' = reg
      /\ \A a : In(mem', a) = IF a = w THEN reg[e] ELSE In(mem, a)
  <2> HIDE DEF w
  <2> QED BY <1>1, <1>5 DEF Stores, In
<1>7. \A i \in 1 .. j : Top - 4 * i - 4 = w => i = j /\ f = 7
  BY <1>1, <1>4
<1>8. w = Top - 4 * j - 4 <=> f = 7
  BY <1>1, <1>4
<1> HIDE DEF w
<1>9. \A i \in 1 .. j : i < j => In(mem', Top - 4 * i - 4) = Argument - i + 1
  <2> SUFFICES ASSUME NEW i \in 1 .. j, i < j
               PROVE  In(mem', Top - 4 * i - 4) = Argument - i + 1
    OBVIOUS
  <2>1. In(mem, Top - 4 * i - 4) = Argument - i + 1
    BY <1>1 DEF CallersKept
  <2>2. Top - 4 * i - 4 # w
    BY <1>1, <1>7
  <2> QED BY <1>6, <2>1, <2>2
<1>10. j > 0 => reg["s1"] = Argument - j + 1
  <2>1. f \notin 8 .. 26
    OBVIOUS
  <2> QED BY <1>1, <2>1 DEF CallersKept
<1>11. CallersKept(mem', f + 1, j, reg')
  <2>1. CASE f = 7
    <3>1. In(mem', Top - 4 * j - 4) = reg["s1"]
      BY <1>3, <1>6, <1>8, <2>1
    <3>2. \A i \in 1 .. j : i < j \/ i = j
      BY <1>1
    <3>3. \A i \in 1 .. j : In(mem', Top - 4 * i - 4) = Argument - i + 1
      BY <1>1, <1>9, <1>10, <3>1, <3>2
    <3>4. f + 1 \in 8 .. 26
      BY <2>1
    <3> QED BY <3>3, <3>4 DEF CallersKept
  <2>2. CASE f # 7
    <3>1. f + 1 \notin 8 .. 26
      BY <2>2
    <3> QED BY <1>6, <1>9, <1>10, <3>1 DEF CallersKept
  <2> QED BY <2>1, <2>2
<1>12. OwnValues(f + 1, j, reg')
  BY DEF OwnValues
<1>13. reg'["sp"] = Top - 4 * j - Framed(f + 1) /\ f + 1 \in 0 .. 34
  BY <1>1, <1>4, <1>6 DEF w
<1> QED BY <1>1, <1>6, <1>11, <1>12, <1>13 DEF ToCall

LEMMA CallRestores ==
  ASSUME NEW f, NEW j, InCall(f, j), f \in {26, 28, 30, 32}
  PROVE  ToCall(f + 1, j)
<1> DEFINE e == IF f = 26 THEN "s1" ELSE IF f = 28 THEN "s0" ELSE IF f = 30 THEN "a0" ELSE "ra"
           w == Top - 4 * j - Framed(f)
<1>1. /\ TypeOK /\ Step /\ j \in 0 .. Argument /\ j \in Nat
      /\ pc = FactorialAt + f /\ pc + 1 = FactorialAt + (f + 1)
      /\ reg["sp"] \in Int /\ reg["sp"] = w /\ Top \in Int
      /\ CallersKept(mem, f, j, reg) /\ OwnValues(f, j, reg)
      /\ {"sp", "s1", "v0"} \subseteq Registers
  BY InCallFacts
<1>2. Fetch(pc) = Lw(e, "sp", 0)
  BY <1>1, FactorialCode
<1>3. e \in Registers /\ e # "zero" /\ e # "sp" /\ e # "v0" /\ (e = "s1" <=> f = 26)
  BY DEF Registers
<1>4. Framed(f + 1) = Framed(f) /\ (f = 26 => Framed(f) = 4)
  BY DEF Framed
<1> HIDE DEF e
<1>5. Computes(e, Load(w))
  <2>1. Computes(e, Load(reg["sp"] + 0))
    BY <1>1, <1>2, <1>3, DoLw
  <2>2. reg["sp"] + 0 = w
    BY <1>1
  <2> QED BY <2>1, <2>2
<1>6. /\ pc' = FactorialAt + (f + 1) /\ mem' = mem /\ reg'[e] = Load(w)
      /\ reg'["sp"] = reg["sp"] /\ reg'["v0"] = reg["v0"]
      /\ f # 26 => reg'["s1"] = reg["s1"]
  BY <1>1, <1>3, <1>5 DEF Computes
<1>7. Load(w) = In(mem, w)
  BY <1>1, InIs
<1>8. j > 0 => reg'["s1"] = Argument - j + 1
  <2> SUFFICES ASSUME j > 0 PROVE reg'["s1"] = Argument - j + 1
    OBVIOUS
  <2>1. CASE f = 26
    <3>1. j \in 1 .. j /\ f \in 8 .. 26 /\ w = Top - 4 * j - 4
      BY <1>1, <1>4, <2>1
    <3>2. In(mem, Top - 4 * j - 4) = Argument - j + 1
      BY <1>1, <3>1 DEF CallersKept
    <3> QED BY <1>3, <1>6, <1>7, <2>1, <3>1, <3>2
  <2>2. CASE f # 26
    <3>1. f \notin 8 .. 26
      BY <2>2
    <3> QED BY <1>1, <1>6, <2>2, <3>1 DEF CallersKept
  <2> QED BY <2>1, <2>2
<1>9. CallersKept(mem', f + 1, j, reg')
  <2>1. f + 1 \notin 8 .. 26
    OBVIOUS
  <2> QED BY <1>1, <1>6, <1>8, <2>1 DEF CallersKept
<1>10. OwnValues(f + 1, j, reg')
  <2>1. reg'["v0"] = FactorialOf[Argument - j]
    BY <1>1, <1>6 DEF OwnValues
  <2> QED BY <2>1 DEF OwnValues
<1> QED BY <1>1, <1>4, <1>6, <1>9, <1>10 DEF ToCall

-----------------------------------------------------------------------------
(* The values of a call, step by step.                                     *)

\* The instructions of the function that compute.
LEMMA CallComputes ==
  ASSUME NEW f, NEW j, InCall(f, j), f \in {9, 12, 14, 16, 17, 18, 20, 21, 23, 24}
  PROVE  ToCall(f + 1, j)
<1>1. /\ TypeOK /\ Step /\ j \in 0 .. Argument /\ j \in Nat /\ Argument \in Nat
      /\ pc = FactorialAt + f /\ pc + 1 = FactorialAt + (f + 1)
      /\ FactorialOK(mem, f, j, reg) /\ OwnValues(f, j, reg)
      /\ {"sp", "a0", "s0", "s1", "v0", "ra", "at", "zero"} \subseteq Registers
      /\ reg["zero"] = 0 /\ \A r \in Registers : reg[r] \in Int
  BY InCallFacts
<1>2. f \in 8 .. 25 /\ f + 1 \in 8 .. 26
  OBVIOUS
<1> DEFINE Does(e, v) == Computes(e, v) /\ e # "sp" /\ OwnValues(f + 1, j, reg')
<1>3. ASSUME NEW e, NEW v, Does(e, v)
      PROVE  ToCall(f + 1, j)
  <2>1. pc' = FactorialAt + (f + 1) /\ mem' = mem /\ reg'["sp"] = reg["sp"]
    BY <1>1, <1>3 DEF Computes
  <2> QED BY <1>2, <1>3, <2>1, CallCalm
<1>4. ASSUME NEW e, NEW v, Computes(e, v)
      PROVE  /\ reg'[e] = v
             /\ \A r \in {"a0", "s0", "s1", "v0"} : r # e => reg'[r] = reg[r]
  BY <1>1, <1>4 DEF Computes
<1>5. CASE f = 9
  <2>1. Computes("s1", reg["zero"] + 1)
    BY <1>1, <1>5, FactorialCode, DoAddi
  <2>2. reg'["s1"] = 1
    BY <1>1, <1>4, <2>1
  <2>3. OwnValues(f + 1, j, reg')
    BY <1>5, <2>2 DEF OwnValues
  <2> QED BY <1>3, <2>1, <2>3
<1>6. CASE f \in {12, 14}
  <2>1. Computes("v0", reg["zero"] + 1)
    BY <1>1, <1>6, FactorialCode, DoAddi
  <2>2. reg'["v0"] = 1
    BY <1>1, <1>4, <2>1
  <2>3. Argument - j = 0 \/ Argument - j = 1
    BY <1>1, <1>6 DEF OwnValues
  <2>4. FactorialOf[0] = 1 /\ FactorialOf[0 + 1] = (0 + 1) * FactorialOf[0]
    BY FactorialFacts
  <2>5. FactorialOf[Argument - j] = 1
    BY <2>3, <2>4
  <2>6. OwnValues(f + 1, j, reg')
    BY <1>6, <2>2, <2>5 DEF OwnValues
  <2> QED BY <1>3, <2>1, <2>6
<1>7. CASE f = 16
  <2>1. Computes("s1", reg["a0"] + reg["zero"])
    BY <1>1, <1>7, FactorialCode, DoAdd
  <2>2. reg["a0"] = Argument - j
    BY <1>1, <1>7 DEF FactorialOK
  <2>3. reg'["s1"] = Argument - j
    BY <1>1, <1>4, <2>1, <2>2
  <2>4. OwnValues(f + 1, j, reg')
    BY <1>7, <2>3 DEF OwnValues
  <2> QED BY <1>3, <2>1, <2>4
<1>8. CASE f = 17
  <2>1. Computes("a0", reg["a0"] + -1)
    BY <1>1, <1>8, FactorialCode, DoAddi
  <2>2. reg'["s1"] = Argument - j
    BY <1>1, <1>4, <1>8, <2>1 DEF OwnValues
  <2>3. OwnValues(f + 1, j, reg')
    BY <1>8, <2>2 DEF OwnValues
  <2> QED BY <1>3, <2>1, <2>3
<1>9. CASE f = 18
  <2>1. Labels["factorial"] = FactorialAt /\ Labels["factorial"] \in Int
    BY Addresses, AddressFacts
  <2>2. Computes("at", Labels["factorial"])
    BY <1>1, <1>9, <2>1, FactorialCode, DoLa
  <2>3. reg'["s1"] = Argument - j
    BY <1>1, <1>4, <1>9, <2>2 DEF OwnValues
  <2>4. OwnValues(f + 1, j, reg')
    BY <1>9, <2>3 DEF OwnValues
  <2> QED BY <1>3, <2>2, <2>4
<1>10. CASE f = 20
  <2>1. Computes("s0", reg["v0"] + reg["zero"])
    BY <1>1, <1>10, FactorialCode, DoAdd
  <2>2. /\ reg["v0"] = FactorialOf[Argument - j - 1] /\ reg["s1"] = Argument - j
        /\ j < Argument
    BY <1>1, <1>10 DEF OwnValues
  <2>3. reg["v0"] + reg["zero"] = reg["v0"]
    BY <1>1
  <2>4. reg'["s0"] = FactorialOf[Argument - j - 1] /\ reg'["s1"] = Argument - j
    BY <1>4, <2>1, <2>2, <2>3
  <2>5. OwnValues(f + 1, j, reg')
    BY <1>10, <2>2, <2>4 DEF OwnValues
  <2> QED BY <1>3, <2>1, <2>5
<1>11. CASE f = 21
  <2>1. Computes("v0", reg["zero"] + reg["zero"])
    BY <1>1, <1>11, FactorialCode, DoAdd
  <2>2. /\ reg["s0"] = FactorialOf[Argument - j - 1] /\ reg["s1"] = Argument - j
        /\ j < Argument
    BY <1>1, <1>11 DEF OwnValues
  <2>3. reg'["v0"] = 0 /\ reg'["s0"] = reg["s0"] /\ reg'["s1"] = reg["s1"]
    BY <1>1, <1>4, <2>1
  <2>4. Argument - j - 1 \in Nat /\ (Argument - j - 1) + 1 = Argument - j
    BY <1>1, <2>2
  <2>5. FactorialOf[Argument - j] = (Argument - j) * reg["s0"]
    BY <2>2, <2>4, FactorialFacts
  <2>6. reg'["v0"] + reg'["s1"] * reg'["s0"] = FactorialOf[Argument - j]
    BY <1>1, <2>2, <2>3, <2>5
  <2>7. OwnValues(f + 1, j, reg')
    BY <1>11, <2>2, <2>3, <2>6 DEF OwnValues
  <2> QED BY <1>3, <2>1, <2>7
<1>12. CASE f = 23
  <2>1. Computes("v0", reg["v0"] + reg["s0"])
    BY <1>1, <1>12, FactorialCode, DoAdd
  <2>2. /\ reg["s0"] = FactorialOf[Argument - j - 1] /\ j < Argument
        /\ reg["v0"] + reg["s1"] * reg["s0"] = FactorialOf[Argument - j]
    BY <1>1, <1>12 DEF OwnValues
  <2>3. /\ reg'["v0"] = reg["v0"] + reg["s0"]
        /\ reg'["s0"] = reg["s0"] /\ reg'["s1"] = reg["s1"]
    BY <1>4, <2>1
  <2>4. reg'["v0"] + (reg'["s1"] - 1) * reg'["s0"] = reg["v0"] + reg["s1"] * reg["s0"]
    BY <1>1, <2>3
  <2>5. OwnValues(f + 1, j, reg')
    BY <1>12, <2>2, <2>3, <2>4 DEF OwnValues
  <2> QED BY <1>3, <2>1, <2>5
<1>13. CASE f = 24
  <2>1. Computes("s1", reg["s1"] + -1)
    BY <1>1, <1>13, FactorialCode, DoAddi
  <2>2. /\ reg["s0"] = FactorialOf[Argument - j - 1] /\ j < Argument
        /\ reg["v0"] + (reg["s1"] - 1) * reg["s0"] = FactorialOf[Argument - j]
    BY <1>1, <1>13 DEF OwnValues
  <2>3. /\ reg'["s1"] = reg["s1"] - 1
        /\ reg'["s0"] = reg["s0"] /\ reg'["v0"] = reg["v0"]
    BY <1>1, <1>4, <2>1
  <2>4. OwnValues(f + 1, j, reg')
    BY <1>13, <2>2, <2>3 DEF OwnValues
  <2> QED BY <1>3, <2>1, <2>4
<1> QED BY <1>5, <1>6, <1>7, <1>8, <1>9, <1>10, <1>11, <1>12, <1>13

LEMMA CallBranches ==
  ASSUME NEW f, NEW j, InCall(f, j), f \in {8, 10, 11, 13, 15, 22, 25}
  PROVE  \E q : ToCall(q, j)
<1>1. /\ TypeOK /\ Step /\ j \in 0 .. Argument /\ j \in Nat /\ Argument \in Nat
      /\ pc = FactorialAt + f /\ pc + 1 = FactorialAt + (f + 1)
      /\ FactorialOK(mem, f, j, reg) /\ OwnValues(f, j, reg)
      /\ {"a0", "s1", "zero"} \subseteq Registers
      /\ reg["zero"] = 0 /\ \A r \in Registers : reg[r] \in Int
      /\ reg["s0"] \in Int /\ reg["v0"] \in Int
  BY InCallFacts
<1>2. /\ Labels["base_zero"] = FactorialAt + 12 /\ Labels["base_one"] = FactorialAt + 14
      /\ Labels["recurse"] = FactorialAt + 16 /\ Labels["mul"] = FactorialAt + 22
      /\ Labels["done"] = FactorialAt + 26
  BY Addresses
<1>3. PICK q \in 8 .. 26 :
         /\ Goes(FactorialAt + q)
         /\ <<f, q>> \in {<<8, 9>>, <<8, 12>>, <<10, 11>>, <<10, 14>>, <<11, 16>>, <<13, 26>>,
                          <<15, 26>>, <<22, 23>>, <<22, 26>>, <<25, 22>>}
         /\ <<f, q>> = <<8, 12>> => reg["a0"] = 0
         /\ <<f, q>> = <<10, 14>> => reg["a0"] = reg["s1"]
         /\ <<f, q>> = <<22, 26>> => reg["s1"] = 0
  <2>1. CASE f = 8
    <3>1. Goes(IF reg["a0"] = reg["zero"] THEN Labels["base_zero"] ELSE pc + 1)
      BY <1>1, <2>1, FactorialCode, DoBeq
    <3> QED BY <1>1, <1>2, <2>1, <3>1
  <2>2. CASE f = 10
    <3>1. Goes(IF reg["a0"] = reg["s1"] THEN Labels["base_one"] ELSE pc + 1)
      BY <1>1, <2>2, FactorialCode, DoBeq
    <3> QED BY <1>1, <1>2, <2>2, <3>1
  <2>3. CASE f = 11
    <3>1. Goes(Labels["recurse"])
      BY <1>1, <2>3, FactorialCode, DoGoto
    <3> QED BY <1>2, <2>3, <3>1
  <2>4. CASE f \in {13, 15}
    <3>1. Goes(Labels["done"])
      BY <1>1, <2>4, FactorialCode, DoGoto
    <3> QED BY <1>2, <2>4, <3>1
  <2>5. CASE f = 22
    <3>1. Goes(IF reg["s1"] = reg["zero"] THEN Labels["done"] ELSE pc + 1)
      BY <1>1, <2>5, FactorialCode, DoBeq
    <3> QED BY <1>1, <1>2, <2>5, <3>1
  <2>6. CASE f = 25
    <3>1. Goes(Labels["mul"])
      BY <1>1, <2>6, FactorialCode, DoGoto
    <3> QED BY <1>2, <2>6, <3>1
  <2> QED BY <2>1, <2>2, <2>3, <2>4, <2>5, <2>6
<1>4. pc' = FactorialAt + q /\ mem' = mem /\ reg' = reg
  BY <1>3 DEF Goes
<1>5. OwnValues(q, j, reg)
  <2>1. CASE f = 8 /\ q = 12
    <3>1. reg["a0"] = Argument - j
      BY <1>1, <2>1 DEF FactorialOK
    <3>2. Argument = j
      BY <1>1, <1>3, <2>1, <3>1
    <3> QED BY <2>1, <3>2 DEF OwnValues
  <2>2. CASE f = 10 /\ q = 14
    <3>1. reg["a0"] = Argument - j /\ reg["s1"] = 1
      BY <1>1, <2>2 DEF FactorialOK, OwnValues
    <3>2. Argument = j + 1
      BY <1>1, <1>3, <2>2, <3>1
    <3> QED BY <2>2, <3>2 DEF OwnValues
  <2>3. CASE f = 22 /\ q = 26
    <3>1. reg["v0"] + reg["s1"] * reg["s0"] = FactorialOf[Argument - j] /\ reg["s1"] = 0
      BY <1>1, <1>3, <2>3 DEF OwnValues
    <3>2. reg["v0"] = FactorialOf[Argument - j]
      BY <1>1, <3>1
    <3> QED BY <2>3, <3>2 DEF OwnValues
  <2>4. CASE q \in {9, 11, 16}
    BY <2>4 DEF OwnValues
  <2>5. CASE <<f, q>> \in {<<13, 26>>, <<15, 26>>, <<22, 23>>, <<25, 22>>}
    BY <1>1, <2>5 DEF OwnValues
  <2> QED BY <1>3, <2>1, <2>2, <2>3, <2>4, <2>5
<1>6. f \in 8 .. 25
  OBVIOUS
<1>7. ToCall(q, j)
  BY <1>4, <1>5, <1>6, CallCalm
<1> QED BY <1>7

\* The function calls itself.
LEMMA CallCalls ==
  ASSUME NEW j, InCall(19, j)
  PROVE  ToCall(0, j + 1)
<1>1. /\ TypeOK /\ Step /\ pc = FactorialAt + 19 /\ FactorialOK(mem, 19, j, reg)
      /\ j \in 0 .. Argument /\ j \in Nat /\ Argument \in Nat /\ Top \in Int
      /\ reg["sp"] \in Int /\ reg["sp"] = Top - 4 * j - Framed(19)
      /\ {"sp", "s1", "at", "ra"} \subseteq Registers
      /\ CallersKept(mem, 19, j, reg) /\ OwnValues(19, j, reg)
  BY InCallFacts
<1>2. /\ pc' = reg["at"] /\ mem' = mem /\ \A r \in Registers : r # "ra" => reg'[r] = reg[r]
  BY <1>1, FactorialCode, DoJalr
<1>3. /\ reg["at"] = FactorialAt /\ j < Argument
  BY <1>1 DEF FactorialOK
<1>4. reg'["sp"] = reg["sp"] /\ reg'["s1"] = reg["s1"]
  BY <1>1, <1>2
<1>5. pc' = FactorialAt + 0 /\ j + 1 \in 0 .. Argument
  BY <1>1, <1>2, <1>3, AddressFacts
<1>6. reg'["sp"] = Top - 4 * (j + 1) - Framed(0)
  <2>1. Framed(19) = 4 /\ Framed(0) = 0
    BY DEF Framed
  <2> QED BY <1>1, <1>4, <2>1
<1>7. CallersKept(mem', 0, j + 1, reg')
  <2>1. \A i \in 1 .. j : In(mem, Top - 4 * i - 4) = Argument - i + 1
    <3>1. 19 \in 8 .. 26
      OBVIOUS
    <3> QED BY <1>1, <3>1 DEF CallersKept
  <2>2. \A i \in 1 .. j + 1 : i < j + 1 => i \in 1 .. j
    BY <1>1
  <2>3. reg'["s1"] = Argument - (j + 1) + 1
    <3>1. reg["s1"] = Argument - j
      BY <1>1 DEF OwnValues
    <3> QED BY <1>1, <1>4, <3>1
  <2>4. 0 \notin 8 .. 26
    OBVIOUS
  <2> QED BY <1>2, <2>1, <2>2, <2>3, <2>4 DEF CallersKept
<1>8. OwnValues(0, j + 1, reg')
  BY DEF OwnValues
<1> QED BY <1>5, <1>6, <1>7, <1>8 DEF ToCall

\* A call returns, to its caller or to the program.
LEMMA CallReturns ==
  ASSUME NEW j, InCall(34, j)
  PROVE  ValueOK(mem', pc', reg')
<1>1. /\ TypeOK /\ Step /\ pc = FactorialAt + 34 /\ FactorialOK(mem, 34, j, reg)
      /\ j \in 0 .. Argument /\ j \in Nat /\ Argument \in Nat /\ Top \in Int
      /\ reg["sp"] \in Int /\ reg["sp"] = Top - 4 * j - Framed(34)
      /\ {"sp", "s1", "v0", "ra", "zero"} \subseteq Registers
      /\ CallersKept(mem, 34, j, reg) /\ OwnValues(34, j, reg)
  BY InCallFacts
<1>2. /\ pc' = reg["ra"] /\ mem' = mem /\ \A r \in Registers : reg'[r] = reg[r]
  BY <1>1, FactorialCode, DoJalr
<1>3. reg["ra"] = ReturnOf(j)
  BY <1>1 DEF FactorialOK
<1>4. reg'["sp"] = reg["sp"] /\ reg'["s1"] = reg["s1"] /\ reg'["v0"] = reg["v0"]
  BY <1>1, <1>2
<1>5. reg'["v0"] = FactorialOf[Argument - j]
  BY <1>1, <1>4 DEF OwnValues
<1>6. CASE j = 0
  <2>1. pc' = FactorialAt - 1
    BY <1>2, <1>3, <1>6 DEF ReturnOf
  <2>2. ~ (pc' - FactorialAt \in 0 .. 34)
    BY <2>1, AddressFacts
  <2>3. Argument - j = Argument
    BY <1>1, <1>6
  <2> QED BY <1>5, <2>2, <2>3 DEF ValueOK
<1>7. CASE j # 0
  <2>1. pc' = FactorialAt + 20 /\ j - 1 \in 0 .. Argument /\ j - 1 \in Nat /\ j > 0
    BY <1>1, <1>2, <1>3, <1>7 DEF ReturnOf
  <2>2. reg'["sp"] = Top - 4 * (j - 1) - Framed(20)
    <3>1. Framed(20) = 4 /\ Framed(34) = 0
      BY DEF Framed
    <3> QED BY <1>1, <1>4, <3>1
  <2>3. CallersKept(mem', 20, j - 1, reg')
    <3>1. \A i \in 1 .. j - 1 : i \in 1 .. j /\ i < j
      BY <1>1
    <3>2. \A i \in 1 .. j - 1 : In(mem', Top - 4 * i - 4) = Argument - i + 1
      BY <1>1, <1>2, <3>1 DEF CallersKept
    <3>3. 20 \in 8 .. 26
      OBVIOUS
    <3> QED BY <3>2, <3>3 DEF CallersKept
  <2>4. OwnValues(20, j - 1, reg')
    <3>1. reg'["s1"] = Argument - j + 1
      <4>1. 34 \notin 8 .. 26
        OBVIOUS
      <4> QED BY <1>1, <1>4, <2>1, <4>1 DEF CallersKept
    <3>2. Argument - (j - 1) = Argument - j + 1 /\ Argument - (j - 1) - 1 = Argument - j
          /\ j - 1 < Argument
      BY <1>1, <1>7
    <3> QED BY <1>5, <3>1, <3>2 DEF OwnValues
  <2>5. ToCall(20, j - 1)
    BY <2>1, <2>2, <2>3, <2>4 DEF ToCall
  <2> QED BY <2>5, ToCallValue
<1> QED BY <1>6, <1>7

LEMMA CallStep ==
  ASSUME NEW f, NEW j, InCall(f, j)
  PROVE  ValueOK(mem', pc', reg')
<1>1. f \in 0 .. 34
  BY InCallFacts
<1>2. \/ f \in {0, 2, 4, 6, 27, 29, 31, 33} \/ f \in {1, 3, 5, 7} \/ f \in {26, 28, 30, 32}
      \/ f \in {9, 12, 14, 16, 17, 18, 20, 21, 23, 24} \/ f \in {8, 10, 11, 13, 15, 22, 25}
      \/ f = 19 \/ f = 34
  BY <1>1
<1>3. CASE f # 34
  <2>1. \E q, i : ToCall(q, i)
    BY <1>2, <1>3, CallMoves, CallSaves, CallRestores, CallComputes, CallBranches, CallCalls
  <2> QED BY <2>1, ToCallValue
<1>4. CASE f = 34
  BY <1>4, CallReturns
<1> QED BY <1>3, <1>4

-----------------------------------------------------------------------------
(* The values of the program, whatever interrupts it.                      *)

\* Before the function is called nothing is said, and then nothing yet.
LEMMA ValueStarts ==
  ASSUME MainReady(Most), pc \in 16 .. FactorialAt - 1, StartOK(mem, pc, reg)
  PROVE  ValueOK(mem', pc', reg')
<1>0. InStart(Most)
  BY DEF InStart
<1>1. /\ TypeOK /\ Step /\ FactorialAt = 25 + Extra
      /\ \/ Extra = 2 /\ "keyboard" \in Devices
         \/ Extra = 0 /\ "keyboard" \notin Devices
      /\ {"sp", "a0", "at", "ra", "zero"} \subseteq Registers
  BY <1>0, StartThere
<1>2. pc # FactorialAt - 1
  <2>1. Fetch(pc).op # "halt"
    BY <1>1 DEF Step, Running
  <2> QED BY <2>1, MainCode DEF Halt
<1>3. CASE pc = FactorialAt - 2
  <2>1. Fetch(pc) = Jalr("at", "ra")
    BY <1>3, MainCode
  <2>2. /\ pc' = reg["at"] /\ \A r \in Registers : r # "ra" => reg'[r] = reg[r]
    BY <1>1, <2>1, DoJalr
  <2>3. reg["at"] = FactorialAt /\ reg["sp"] = Top
    BY <1>1, <1>3 DEF StartOK
  <2>4. reg'["sp"] = Top
    BY <1>1, <2>2, <2>3
  <2>5. ToCall(0, 0)
    <3>1. Argument \in Nat /\ Top \in Int /\ Framed(0) = 0
      BY RoomFacts DEF Framed
    <3>2. pc' = FactorialAt + 0 /\ 0 \in 0 .. Argument /\ 0 \in 0 .. 34
          /\ reg'["sp"] = Top - 4 * 0 - Framed(0)
      BY <1>1, <2>2, <2>3, <2>4, <3>1
    <3>3. CallersKept(mem', 0, 0, reg')
      BY DEF CallersKept
    <3>4. OwnValues(0, 0, reg')
      BY DEF OwnValues
    <3> QED BY <3>2, <3>3, <3>4 DEF ToCall
  <2> QED BY <2>5, ToCallValue
<1>4. CASE pc # FactorialAt - 2
  <2>1. Fetch(pc).op \in {"la", "lw", "sw", "ei", "addi"}
    <3>1. \/ pc \in {16, 17, 18, 19} \/ (pc \in {20, 21} /\ Extra = 2)
          \/ pc = FactorialAt - 5 \/ pc = FactorialAt - 4 \/ pc = FactorialAt - 3
      BY <1>1, <1>2, <1>4
    <3>2. CASE pc \in {16, 17, 18, 19}
      BY <3>2, MainCode DEF La, Lw, Sw
    <3>3. CASE pc \in {20, 21} /\ Extra = 2
      BY <1>1, <3>3, MainCode DEF La, Sw
    <3>4. CASE pc = FactorialAt - 5 \/ pc = FactorialAt - 4 \/ pc = FactorialAt - 3
      BY <3>4, MainCode DEF Ei, La, Addi
    <3> QED BY <3>1, <3>2, <3>3, <3>4
  <2>2. pc' = pc + 1
    <3> DEFINE i == Fetch(pc)
    <3>1. Compute(i) \/ Store(i) \/ Branch(i) \/ Jump(i) \/ Enable(i) \/ Return(i)
      BY <1>1 DEF Step
    <3> HIDE DEF i
    <3>2. i.op \in {"la", "lw", "sw", "ei", "addi"}
      BY <2>1 DEF i
    <3> QED BY <3>1, <3>2 DEF Compute, Store, Branch, Jump, Enable, Return
  <2>3. pc' # FactorialAt - 1 /\ ~ (pc' - FactorialAt \in 0 .. 34)
    BY <1>1, <1>2, <1>4, <2>2
  <2> QED BY <2>3 DEF ValueOK
<1> QED BY <1>3, <1>4

LEMMA ValuedInProgram ==
  ASSUME IInv, Valued, Step, Depth = 0
  PROVE  Valued'
<1>1. /\ TypeOK /\ Levels /\ MemoryKept /\ Most \in Nat
      /\ LevelPc(0) = pc /\ LevelReg(0) = reg
  BY CountFacts, LastLevel DEF IInv
<1>2. MainReady(Most)
  BY <1>1 DEF MainReady, Levels, MemoryKept
<1>3. ValueOK(mem, pc, reg)
  BY <1>1 DEF Valued
<1>4. ValueOK(mem', pc', reg')
  <2>1. CASE pc \in 16 .. FactorialAt - 1 /\ StartOK(mem, pc, reg)
    BY <1>2, <2>1, ValueStarts
  <2>2. CASE \E j \in 0 .. Argument : FactorialOK(mem, pc - FactorialAt, j, reg)
    <3>1. PICK j \in 0 .. Argument : FactorialOK(mem, pc - FactorialAt, j, reg)
      BY <2>2
    <3>2. /\ pc - FactorialAt \in 0 .. 34
          /\ reg["sp"] = Top - 4 * j - Framed(pc - FactorialAt)
      BY <3>1 DEF FactorialOK
    <3>3. pc = FactorialAt + (pc - FactorialAt)
      BY <1>1, AddressFacts DEF TypeOK
    <3>4. InFunction(pc - FactorialAt, j, Most)
      BY <1>2, <3>1, <3>3 DEF InFunction
    <3>5. InCall(pc - FactorialAt, j)
      BY <1>1, <1>3, <3>2, <3>4 DEF InCall, ValueOK
    <3> QED BY <3>5, CallStep
  <2> QED BY <1>2, <2>1, <2>2 DEF MainReady, MainOK
<1>5. Depth' = Depth /\ LevelPc(0)' = pc' /\ LevelReg(0)' = reg'
  <2>1. active' = active
    BY ProgramStep
  <2> QED BY <2>1, Below
<1> QED BY <1>4, <1>5 DEF Valued

\* A handler spares the frames of the function.
LEMMA ValueSpared ==
  ASSUME NEW b \in Frames, Spares(b), NEW p \in Int, NEW r,
         ValueOK(mem, p, r), b.reg["sp"] <= r["sp"]
  PROVE  ValueOK(mem', p, r)
<1>1. b.reg["sp"] \in Int /\ Top \in Int /\ Argument \in Nat
  BY FrameFacts, RoomFacts
<1>2. ASSUME NEW a \in Int, b.reg["sp"] <= a, a < Top, In(mem, a) # 0
      PROVE  In(mem', a) = In(mem, a)
  <2>1. a \in DOMAIN mem
    BY <1>2 DEF In
  <2> QED BY <1>2, <2>1 DEF Spares, In
<1> DEFINE f == p - FactorialAt
<1>3. ASSUME NEW j \in 0 .. Argument, f \in 0 .. 34, r["sp"] = Top - 4 * j - Framed(f)
      PROVE  CallersKept(mem', f, j, r) /\ OwnValues(f, j, r)
  <2>1. CallersKept(mem, f, j, r) /\ OwnValues(f, j, r)
    BY <1>3 DEF ValueOK
  <2> HIDE DEF f
  <2>2. Framed(f) \in 0 .. 4 /\ (f \in 8 .. 26 => Framed(f) = 4)
    BY <1>3 DEF Framed
  <2>3. ASSUME NEW i \in 1 .. j, i < j \/ f \in 8 .. 26
        PROVE  In(mem', Top - 4 * i - 4) = Argument - i + 1
    <3> DEFINE a == Top - 4 * i - 4
    <3>1. In(mem, a) = Argument - i + 1
      BY <2>1, <2>3 DEF CallersKept
    <3>2. a \in Int /\ a < Top /\ b.reg["sp"] <= a /\ Argument - i + 1 # 0
      BY <1>1, <1>3, <2>2, <2>3
    <3> HIDE DEF a
    <3>3. In(mem', a) = Argument - i + 1
      BY <1>2, <3>1, <3>2
    <3> QED BY <3>3 DEF a
  <2> QED BY <2>1, <2>3 DEF CallersKept
<1>4. p = FactorialAt - 1 => r["v0"] = FactorialOf[Argument]
  BY DEF ValueOK
<1> QED BY <1>3, <1>4 DEF ValueOK

\* The program goes on with the registers it had, but for those that a handler
\* does not save.
LEMMA ValueResumes ==
  ASSUME NEW m, NEW p, NEW q, NEW r, ValueOK(m, p, q),
         \A e \in Safe : r[e] = q[e]
  PROVE  ValueOK(m, p, r)
<1>1. r["sp"] = q["sp"] /\ r["s0"] = q["s0"] /\ r["s1"] = q["s1"] /\ r["v0"] = q["v0"]
  BY DEF Safe
<1>2. \A f, j : /\ CallersKept(m, f, j, q) => CallersKept(m, f, j, r)
                /\ OwnValues(f, j, q) => OwnValues(f, j, r)
  BY <1>1 DEF CallersKept, OwnValues
<1> QED BY <1>1, <1>2 DEF ValueOK

LEMMA ValuedGoesOn ==
  ASSUME IInv, Valued, NEW d, InHandler(d), pc - Start(d) # End(d)
  PROVE  Valued'
<1> DEFINE b == active[Depth]
<1>1. /\ Depth \in 1 .. Depth /\ 1 \in 1 .. Depth /\ b \in Frames /\ Levels /\ 0 < Depth
  BY CountFacts DEF InHandler, IInv
<1>2. Spares(b)
  BY HandlerReady, HandlerStep DEF Control
<1>3. active' = active
  BY HandlerGoesOn
<1>4. LevelPc(0)' = LevelPc(0) /\ LevelReg(0)' = LevelReg(0)
  BY <1>1, <1>3, Below
<1>5. /\ LevelPc(0) = active[1].pc /\ LevelReg(0) = active[1].reg /\ active[1].pc \in Int
  <2>1. LevelPc(1 - 1) = active[1].pc /\ LevelReg(1 - 1) = active[1].reg
    BY <1>1, LevelFacts
  <2> QED BY <1>1, <2>1, LevelFacts
<1>6. b.reg["sp"] <= active[1].reg["sp"]
  <2>1. 1 <= Depth
    BY <1>1
  <2> QED BY <1>1, <2>1 DEF Levels
<1>7. ValueOK(mem', active[1].pc, active[1].reg)
  BY <1>1, <1>2, <1>5, <1>6, ValueSpared DEF Valued
<1> QED BY <1>4, <1>5, <1>7 DEF Valued

LEMMA ValuedEnds ==
  ASSUME IInv, Valued, NEW d, InHandler(d), pc - Start(d) = End(d)
  PROVE  Valued'
<1>1. /\ Depth \in 1 .. Depth /\ 1 \in 1 .. Depth /\ Depth \in Nat /\ Depth # 0
  BY CountFacts DEF InHandler
<1>2. /\ pc' = active[Depth].pc /\ active' = Front(active) /\ mem' = mem
      /\ \A e \in Safe : reg'[e] = active[Depth].reg[e]
  BY HandlerReturned DEF Returned
<1>3. Depth' = Depth - 1 /\ \A k \in 1 .. Depth - 1 : active'[k] = active[k]
  BY <1>1, <1>2, FrontFacts
<1>4. ValueOK(mem, active[1].pc, active[1].reg)
  <2>1. LevelPc(1 - 1) = active[1].pc /\ LevelReg(1 - 1) = active[1].reg
    BY <1>1, LevelFacts
  <2> QED BY <2>1 DEF Valued
<1>5. CASE Depth = 1
  <2>1. LevelPc(0)' = pc' /\ LevelReg(0)' = reg'
    BY <1>3, <1>5 DEF LevelPc, LevelReg
  <2>2. ValueOK(mem, active[1].pc, reg')
    BY <1>2, <1>4, <1>5, ValueResumes
  <2> QED BY <1>2, <1>5, <2>1, <2>2 DEF Valued
<1>6. CASE Depth # 1
  <2>1. 0 < Depth - 1 /\ 1 \in 1 .. Depth - 1 /\ 0 + 1 = 1
    BY <1>1, <1>6
  <2>2. LevelPc(0)' = active'[1].pc /\ LevelReg(0)' = active'[1].reg
    BY <1>3, <2>1 DEF LevelPc, LevelReg
  <2> QED BY <1>2, <1>3, <1>4, <2>1, <2>2 DEF Valued
<1> QED BY <1>5, <1>6

LEMMA ValuedInterrupted ==
  ASSUME IInv, Valued, NEW d, Interrupted(d)
  PROVE  Valued'
<1> DEFINE x == [pc |-> pc, reg |-> reg, key |-> key']
<1>1. mem' = mem /\ x \in Frames /\ active' = Append(active, x) /\ x.pc = pc /\ x.reg = reg
  BY DEF Interrupted
<1> HIDE DEF x
<1>2. /\ Depth' = Depth + 1 /\ Depth \in Nat /\ active'[Depth + 1] = x
      /\ \A k \in 1 .. Depth : active'[k] = active[k]
  BY <1>1, AppendFacts, CountFacts
<1>3. LevelPc(0)' = active'[1].pc /\ LevelReg(0)' = active'[1].reg
  BY <1>2 DEF LevelPc, LevelReg
<1>4. LevelPc(0)' = LevelPc(0) /\ LevelReg(0)' = LevelReg(0)
  <2>1. CASE Depth = 0
    <3>1. LevelPc(0) = pc /\ LevelReg(0) = reg
      BY <2>1, LastLevel
    <3> QED BY <1>1, <1>2, <1>3, <2>1, <3>1
  <2>2. CASE Depth # 0
    <3>1. 1 \in 1 .. Depth /\ 0 < Depth
      BY <1>2, <2>2
    <3> QED BY <1>2, <1>3, <3>1 DEF LevelPc, LevelReg
  <2> QED BY <2>1, <2>2
<1> QED BY <1>1, <1>4 DEF Valued

LEMMA ValuedAtFirst ==
  ASSUME Init
  PROVE  Valued
<1>1. pc = 16 /\ active = <<>>
  BY Addresses DEF Init
<1>2. LevelPc(0) = pc
  <2>1. Depth = 0
    BY <1>1 DEF Depth
  <2> QED BY <2>1, LastLevel
<1>3. pc # FactorialAt - 1 /\ ~ (pc - FactorialAt \in 0 .. 34)
  BY <1>1, AddressFacts
<1> QED BY <1>2, <1>3 DEF Valued, ValueOK

LEMMA ValuedStays ==
  ASSUME IInv, Valued, [Next]_vars
  PROVE  Valued'
<1>1. CASE Step
  <2>1. CASE Depth = 0
    BY <1>1, <2>1, ValuedInProgram
  <2>2. CASE Depth # 0
    <3>1. PICK d \in Devices : InHandler(d)
      BY <1>1, <2>2, SomeHandler
    <3> QED BY <3>1, ValuedGoesOn, ValuedEnds
  <2> QED BY <2>1, <2>2
<1>2. CASE Tick \/ TypeKey
  BY <1>2, InterruptIs, ValuedInterrupted
<1>3. CASE UNCHANGED vars
  <2>1. pc' = pc /\ reg' = reg /\ mem' = mem /\ active' = active
    BY <1>3 DEF vars, machine, history
  <2>2. LevelPc(0)' = LevelPc(0) /\ LevelReg(0)' = LevelReg(0)
    BY <2>1 DEF LevelPc, LevelReg, Depth
  <2> QED BY <2>1, <2>2 DEF Valued
<1> QED BY <1>1, <1>2, <1>3 DEF Next

-----------------------------------------------------------------------------
(* The program stops with the factorial, or astray.                        *)

LEMMA TypedAtFirst ==
  ASSUME Init
  PROVE  KeyTyped
<1>1. 1 .. Depth = {}
  BY DEF Init, Depth
<1> QED BY <1>1 DEF KeyTyped

LEMMA TypedGoesOn ==
  ASSUME IInv, KeyTyped, NEW d, InHandler(d), pc - Start(d) # End(d)
  PROVE  KeyTyped'
<1>1. Depth \in 1 .. Depth /\ Depth \in Nat
  BY CountFacts DEF InHandler
<1>2. active' = active /\ key' = key /\ IInv' /\ d \in Devices
  BY HandlerGoesOn, StepCounts DEF InHandler
<1>3. /\ Depth' = Depth /\ \A k : k < Depth => LevelPc(k)' = LevelPc(k)
      /\ LevelPc(Depth)' = pc'
  BY <1>1, <1>2, Below
<1>4. HandlerOK(mem', d, active[Depth], pc', reg')
  BY HandlerReady, HandlerStep DEF Control
<1>5. pc' - KeyboardAt \in 0 .. 36 => pc - KeyboardAt \in 0 .. 36
  <2>1. pc' - Start(d) \in 0 .. End(d) /\ pc - Start(d) \in 0 .. End(d)
    BY <1>4 DEF InHandler, HandlerOK
  <2>2. pc' \in Int /\ KeyboardAt = TimerAt + 55 /\ TimerAt \in Nat /\ KeyboardAt \in Nat
    <3>1. TypeOK'
      BY <1>2 DEF IInv
    <3>2. pc' \in Int
      BY <3>1 DEF TypeOK
    <3> QED BY <3>2, AddressFacts
  <2>3. CASE d = "timer"
    <3>1. pc' - TimerAt \in 0 .. 54
      BY <2>1, <2>3 DEF Start, End
    <3>2. ASSUME NEW p \in Int, NEW t \in Int, p - t \in 0 .. 54
          PROVE  p - (t + 55) \notin 0 .. 36
      BY <3>2
    <3>3. pc' \in Int /\ TimerAt \in Int
      BY <2>2
    <3>4. pc' - (TimerAt + 55) \notin 0 .. 36
      BY <3>1, <3>2, <3>3
    <3>5. KeyboardAt = TimerAt + 55
      BY <2>2
    <3> QED BY <3>4, <3>5
  <2>4. CASE d = "keyboard"
    BY <2>1, <2>4 DEF Start, End
  <2> QED BY <1>2, <2>3, <2>4, StartFacts
<1>6. \A k \in 1 .. Depth : k < Depth \/ k = Depth
  BY <1>1
<1>7. LevelPc(Depth) = pc
  BY LastLevel
<1> QED BY <1>1, <1>2, <1>3, <1>5, <1>6, <1>7 DEF KeyTyped

LEMMA TypedEnds ==
  ASSUME IInv, KeyTyped, NEW d, InHandler(d), pc - Start(d) = End(d)
  PROVE  KeyTyped'
<1>1. Depth \in 1 .. Depth /\ Depth \in Nat /\ Depth # 0
  BY CountFacts DEF InHandler
<1>2. pc' = active[Depth].pc /\ active' = Front(active) /\ key' = key
  BY HandlerReturned DEF Returned
<1>3. Depth' = Depth - 1 /\ \A k \in 1 .. Depth - 1 : active'[k] = active[k]
  BY <1>1, <1>2, FrontFacts
<1>4. ASSUME NEW k \in 1 .. Depth - 1
      PROVE  LevelPc(k)' = LevelPc(k) /\ k \in 1 .. Depth
  <2>1. CASE k = Depth - 1
    BY <1>1, <1>2, <1>3, <2>1 DEF LevelPc
  <2>2. CASE k # Depth - 1
    <3>1. k < Depth - 1 /\ k < Depth /\ k + 1 \in 1 .. Depth - 1 /\ k \in 1 .. Depth
      BY <1>1, <2>2
    <3> QED BY <1>3, <3>1 DEF LevelPc
  <2> QED BY <2>1, <2>2
<1> QED BY <1>2, <1>3, <1>4 DEF KeyTyped

LEMMA TypedInterrupted ==
  ASSUME IInv, KeyTyped, NEW d, Interrupted(d)
  PROVE  KeyTyped'
<1> DEFINE x == [pc |-> pc, reg |-> reg, key |-> key']
<1>1. /\ x \in Frames /\ active' = Append(active, x) /\ x.pc = pc /\ pc' = Start(d)
      /\ key' = (IF d = "timer" THEN key ELSE key + 1) /\ d \in Devices
  BY DEF Interrupted
<1> HIDE DEF x
<1>2. /\ Depth' = Depth + 1 /\ Depth \in Nat /\ active'[Depth + 1] = x
      /\ \A k \in 1 .. Depth : active'[k] = active[k]
  BY <1>1, AppendFacts, CountFacts
<1>3. key \in Nat /\ d \in {"timer", "keyboard"}
  BY <1>1, StartFacts DEF IInv, TypeOK
<1>4. ASSUME NEW k \in 1 .. Depth
      PROVE  LevelPc(k)' = LevelPc(k)
  <2>1. LevelPc(k)' = active'[k + 1].pc
    BY <1>2 DEF LevelPc
  <2>2. CASE k = Depth
    BY <1>1, <1>2, <2>1, <2>2, LastLevel
  <2>3. CASE k # Depth
    <3>1. k + 1 \in 1 .. Depth /\ k < Depth
      BY <1>2, <2>3
    <3> QED BY <1>2, <2>1, <3>1 DEF LevelPc
  <2> QED BY <2>2, <2>3
<1>5. ASSUME NEW k, k = Depth + 1
      PROVE  LevelPc(k)' = pc'
  BY <1>2, <1>5 DEF LevelPc
<1>6. pc' - KeyboardAt \in 0 .. 36 => key' > 0
  <2>1. KeyboardAt = TimerAt + 55 /\ TimerAt \in Nat
    BY AddressFacts
  <2> QED BY <1>1, <1>3, <2>1 DEF Start
<1>7. \A k \in 1 .. Depth + 1 : k \in 1 .. Depth \/ k = Depth + 1
  BY <1>2
<1>8. key > 0 => key' > 0
  BY <1>1, <1>3
<1> SUFFICES ASSUME NEW k \in 1 .. Depth + 1, LevelPc(k)' - KeyboardAt \in 0 .. 36
             PROVE  key' > 0
  BY <1>2 DEF KeyTyped
<1>9. CASE k \in 1 .. Depth
  BY <1>4, <1>8, <1>9 DEF KeyTyped
<1>10. CASE k = Depth + 1
  BY <1>5, <1>6, <1>10
<1> QED BY <1>7, <1>9, <1>10

LEMMA TypedStays ==
  ASSUME IInv, KeyTyped, [Next]_vars
  PROVE  KeyTyped'
<1>1. CASE Step
  <2>1. CASE Depth = 0
    <3>1. Depth' = 0
      BY <1>1, <2>1, ProgramStep DEF Depth
    <3> QED BY <3>1 DEF KeyTyped
  <2>2. CASE Depth # 0
    <3>1. PICK d \in Devices : InHandler(d)
      BY <1>1, <2>2, SomeHandler
    <3> QED BY <3>1, TypedGoesOn, TypedEnds
  <2> QED BY <2>1, <2>2
<1>2. CASE Tick \/ TypeKey
  BY <1>2, InterruptIs, TypedInterrupted
<1>3. CASE UNCHANGED vars
  <2>1. pc' = pc /\ key' = key /\ active' = active
    BY <1>3 DEF vars, machine, history
  <2>2. \A k : LevelPc(k)' = LevelPc(k)
    BY <2>1 DEF LevelPc, Depth
  <2>3. Depth' = Depth
    BY <2>1 DEF Depth
  <2> QED BY <2>1, <2>2, <2>3 DEF KeyTyped
<1> QED BY <1>1, <1>2, <1>3 DEF Next

-----------------------------------------------------------------------------
LEMMA WildInProgram ==
  ASSUME IInv, Depth = 0
  PROVE  ~ Wild
<1> SUFFICES ASSUME Wild PROVE FALSE
  OBVIOUS
<1> DEFINE i == Fetch(pc)
<1>1. MainOK(mem, pc, reg) /\ pc \in 16 .. FactorialAt + 34
  BY InProgram
<1>2. /\ i.op \in {"lw", "sw"} /\ i.s # "zero" /\ reg[i.s] + i.i < WordsAt
  BY SizeFacts DEF Wild
<1>3. reg["sp"] \in Int
  BY DEF IInv, TypeOK, Registers
<1>4. /\ i.op = "sw" => \/ i = Sw("a0", "zero", 1) \/ i = Sw("a0", "zero", 2)
                        \/ \E f \in 0 .. 34 : pc = FactorialAt + f /\ i.s = "sp" /\ i.i = 0
      /\ i.op = "lw" => \/ pc = 17 /\ i = Lw("sp", "sp", 0)
                        \/ \E f \in 0 .. 34 : pc = FactorialAt + f /\ i.s = "sp" /\ i.i = 0
  BY <1>1, ProgramUses
<1> HIDE DEF i
<1>5. CASE i = Sw("a0", "zero", 1) \/ i = Sw("a0", "zero", 2)
  BY <1>2, <1>5 DEF Sw
<1>6. CASE pc = 17 /\ i = Lw("sp", "sp", 0)
  <2>1. StartOK(mem, pc, reg)
    BY <1>1, <1>6, AddressFacts DEF MainOK, FactorialOK
  <2>2. reg["sp"] = WordsAt /\ i.s = "sp" /\ i.i = 0
    BY <1>6, <2>1 DEF StartOK, Lw
  <2> QED BY <1>2, <2>2, AddressFacts
<1>7. CASE \E f \in 0 .. 34 : pc = FactorialAt + f /\ i.s = "sp" /\ i.i = 0
  <2>1. PICK f \in 0 .. 34 : pc = FactorialAt + f /\ i.s = "sp" /\ i.i = 0
    BY <1>7
  <2>2. pc - FactorialAt = f /\ pc \notin 16 .. FactorialAt - 1
    BY <2>1, AddressFacts
  <2>3. PICK j \in 0 .. Argument : FactorialOK(mem, f, j, reg)
    BY <1>1, <2>2 DEF MainOK
  <2>4. reg["sp"] = Top - 4 * j - Framed(f) /\ Framed(f) \in 0 .. 4
    BY <2>3 DEF FactorialOK, Framed
  <2>5. /\ Floor + 4 * (Argument + 1) + 7 * MaxInterrupts <= Top
        /\ Argument \in Nat /\ Top \in Int /\ MaxInterrupts \in Nat
        /\ WordsAt \in Nat /\ WordsAt + 5 < Floor /\ Floor \in Nat
    BY RoomFacts, SMT
  <2>6. reg["sp"] + 0 < WordsAt
    BY <1>2, <2>1
  <2> QED BY <1>3, <2>4, <2>5, <2>6
<1> QED BY <1>2, <1>4, <1>5, <1>6, <1>7

\* In a handler only the pointers of the keyboard handler can be wrong.
LEMMA WildInHandler ==
  ASSUME IInv, NEW d \in Devices, HandlerOK(mem, d, active[Depth], pc, reg), Depth # 0, Wild
  PROVE  LET o == pc - Start(d) IN
         /\ d = "keyboard" /\ o \in {17, 18, 20}
         /\ o = 18 => reg["a2"] < WordsAt
         /\ o # 18 => reg["a1"] < WordsAt
<1> DEFINE o == pc - Start(d)
           i == Fetch(pc)
           b == active[Depth]
<1>1. Depth \in 1 .. Depth /\ pc \in Int /\ TypeOK
  BY CountFacts DEF IInv, TypeOK
<1>2. /\ b.reg["sp"] \in Int /\ Floor <= b.reg["sp"] - 7
  BY <1>1, LevelFacts
<1>3. o \in 0 .. End(d) /\ d \in {"timer", "keyboard"} /\ Start(d) \in Nat
  BY StartFacts DEF HandlerOK
<1>4. pc = Start(d) + o
  BY <1>1, <1>3
<1>5. /\ i.op \in {"lw", "sw"} /\ reg[i.s] + i.i < WordsAt
  BY SizeFacts DEF Wild
<1>6. /\ WordsAt \in Nat /\ WordsAt + 5 < Floor /\ Floor \in Nat /\ Floor < Top /\ Top \in Int
  BY RoomFacts, SMT
<1>7. /\ reg["sp"] = b.reg["sp"] - Pushed(d, o) /\ Body(d, o, b, reg)
  BY DEF HandlerOK
<1>8. /\ reg["sp"] \in Int /\ reg["a0"] \in Int /\ reg["a1"] \in Int /\ reg["a2"] \in Int
  BY <1>1 DEF TypeOK, Registers
<1>9. /\ i.op = "sw" => \/ i.s = "sp" /\ i.i = 0
                        \/ d = "timer" /\ o \in {21, 24, 30, 33, 38} /\ i.s = "a0" /\ i.i = 0
                        \/ d = "keyboard" /\ o = 18 /\ i.s = "a2" /\ i.i = 0
                        \/ d = "keyboard" /\ o = 20 /\ i.s = "a1" /\ i.i = 0
      /\ i.op = "lw" => \/ i.s = "sp" /\ i.i = 0
                        \/ d = "timer" /\ o \in {16, 17, 26, 27, 35, 36} /\ i.s = "a0" /\ i.i = 0
                        \/ d = "keyboard" /\ o = 17 /\ i.s = "a1" /\ i.i = 0
  BY <1>3, <1>4, HandlerUses
<1> HIDE DEF i, o, b
<1>10. i.s # "sp"
  <2> SUFFICES ASSUME i.s = "sp" PROVE FALSE
    OBVIOUS
  <2>1. Pushed(d, o) \in 0 .. 7
    BY <1>3, StoredFacts
  <2>2. i.i = 0
    BY <1>5, <1>9
  <2> QED BY <1>2, <1>5, <1>6, <1>7, <1>8, <2>1, <2>2
<1>11. d # "timer"
  <2> SUFFICES ASSUME d = "timer" PROVE FALSE
    OBVIOUS
  <2>1. o \in {21, 24, 30, 33, 38} \cup {16, 17, 26, 27, 35, 36} /\ i.s = "a0" /\ i.i = 0
    BY <1>5, <1>9, <1>10
  <2>2. reg["a0"] >= WordsAt
    BY <1>6, <1>7, <1>8, <2>1 DEF Body
  <2> QED BY <1>5, <1>6, <1>8, <2>1, <2>2
<1>12. d = "keyboard"
  BY <1>3, <1>11
<1>13. \/ o = 18 /\ i.s = "a2" /\ i.i = 0
       \/ o \in {17, 20} /\ i.s = "a1" /\ i.i = 0
  BY <1>5, <1>9, <1>10, <1>12
<1> QED BY <1>5, <1>8, <1>12, <1>13 DEF o

LEMMA WildIsAstray ==
  ASSUME IInv, Quiet, KeyTyped, Wild
  PROVE  Astray
<1>1. Depth # 0
  BY WildInProgram
<1>2. PICK d \in Devices : HandlerOK(mem, d, active[Depth], pc, reg)
  BY <1>1, InLast
<1> DEFINE o == pc - KeyboardAt
<1>3. /\ d = "keyboard" /\ o \in {17, 18, 20}
      /\ o = 18 => reg["a2"] < WordsAt
      /\ o # 18 => reg["a1"] < WordsAt
  BY <1>1, <1>2, WildInHandler DEF Start
<1>4. Depth \in 1 .. Depth /\ Depth \in Nat
  BY <1>1, CountFacts
<1>5. key > 0
  <2>1. LevelPc(Depth) - KeyboardAt \in 0 .. 36
    BY <1>3, LastLevel
  <2> QED BY <1>4, <2>1 DEF KeyTyped
<1>6. nested
  <2> SUFFICES ASSUME ~ nested PROVE FALSE
    OBVIOUS
  <2>1. Depth = 1 /\ pc - Start(d) \in 0 .. End(d) /\ pc - Start(d) = o
    BY <1>1, <1>3, <1>4 DEF Quiet, Start, End
  <2>2. Alone(mem, "keyboard", o, reg, ticks, key, active[1].key)
    BY <1>3, <2>1 DEF Quiet
  <2> HIDE DEF o
  <2>3. /\ o \in {17, 20} => reg["a1"] = WordsAt + 4
        /\ o = 18 => reg["a2"] = CharsAt + key - 1
    BY <2>2 DEF Alone, KeyboardAlone
  <2>4. WordsAt \in Nat /\ CharsAt \in Int /\ CharsAt >= Top /\ Top \in Int /\ WordsAt < Top
    BY CellFacts
  <2>5. key \in Nat
    BY DEF IInv, TypeOK
  <2> QED BY <1>3, <1>5, <2>3, <2>4, <2>5
<1> QED BY <1>5, <1>6 DEF Astray

LEMMA HaltIsFinished ==
  ASSUME IInv, Valued, Fetch(pc).op = "halt", IsCode(pc)
  PROVE  Finished
<1>1. Depth = 0
  <2> SUFFICES ASSUME Depth # 0 PROVE FALSE
    OBVIOUS
  <2>1. PICK d \in Devices : pc - Start(d) \in 0 .. End(d) /\ pc = Start(d) + (pc - Start(d))
    BY InLast
  <2> QED BY <2>1, HandlerUses
<1>2. MainOK(mem, pc, reg) /\ pc = FactorialAt - 1
  BY <1>1, InProgram, ProgramUses
<1>3. active = <<>> /\ LevelPc(0) = pc /\ LevelReg(0) = reg
  BY <1>1, CountFacts, LastLevel
<1>4. reg["sp"] = Words["stack"]
  <2>1. FactorialAt \in Nat /\ FactorialAt >= 25
    BY AddressFacts
  <2>2. StartOK(mem, pc, reg)
    BY <1>2, <2>1 DEF MainOK, FactorialOK
  <2> QED BY <1>2, <2>1, <2>2 DEF StartOK, Top
<1>5. reg["v0"] = FactorialOf[Argument]
  BY <1>2, <1>3 DEF Valued, ValueOK
<1> QED BY <1>3, <1>4, <1>5 DEF Finished, Halted

LEMMA AlwaysCode ==
  ASSUME IInv
  PROVE  IsCode(pc)
<1>1. DOMAIN Code = 1 .. Len(Code) /\ Len(Code) = Size
  BY Addresses DEF IsLong, IsSeq
<1>2. pc \in 16 .. WordsAt - 1
  <2>1. CASE Depth = 0
    BY <2>1, InProgram, AddressFacts
  <2>2. CASE Depth # 0
    <3>1. PICK d \in Devices : pc - Start(d) \in 0 .. End(d) /\ pc = Start(d) + (pc - Start(d))
      BY <2>2, InLast
    <3>2. Start(d) \in Nat /\ Start(d) \in {TimerAt, KeyboardAt} /\ Start(d) + End(d) < WordsAt
          /\ TimerAt >= 16 /\ KeyboardAt >= 16 /\ End(d) \in Nat
      BY StartFacts, AddressFacts
    <3> QED BY <3>1, <3>2, AddressFacts
  <2> QED BY <2>1, <2>2
<1>3. WordsAt = 16 + Size /\ Size \in Nat
  BY AddressFacts DEF WordsAt
<1> QED BY <1>1, <1>2, <1>3 DEF IsCode

\* The program stops only at its halt, with the factorial in v0 and the stack
\* empty, or at a pointer of a keyboard handler that was interrupted
\* (prj2.s:42-96, prj2-keyboard.s:205-212).
THEOREM StopsAtTheEnd == Spec => []StopsRight
<1> USE DEF Spec
<1>1. Init => Quiet /\ Valued /\ KeyTyped
  BY QuietAtFirst, ValuedAtFirst, TypedAtFirst
<1>2. IInv /\ Quiet /\ Valued /\ KeyTyped /\ [Next]_vars => (Quiet /\ Valued /\ KeyTyped)'
  BY QuietStays, ValuedStays, TypedStays
<1>3. IInv /\ Quiet /\ Valued /\ KeyTyped => StopsRight
  BY AlwaysCode, HaltIsFinished, WildIsAstray DEF StopsRight, Running
<1> QED BY <1>1, <1>2, <1>3, Levelled, PTL
=============================================================================

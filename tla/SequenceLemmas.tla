----------------------------- MODULE SequenceLemmas -----------------------------
(***************************************************************************)
(* Facts the proofs about texts share: induction up to a number, what a    *)
(* recursive function is, and the elements of sequences put together.      *)
(***************************************************************************)
EXTENDS Integers, Sequences, SequenceTheorems, WellFoundedInduction, TLAPS

(***************************************************************************)
(* Induction up to a number, and definitions by recursion up to one.       *)
(***************************************************************************)
LEMMA SmallestNat ==
  ASSUME NEW T \in SUBSET Nat, T # {}
  PROVE  \E x \in T : \A y \in T : x <= y
<1> DEFINE Less == {ss \in Nat \X Nat : ss[1] < ss[2]}
<1>1. IsWellFoundedOn(Less, Nat)
  BY NatLessThanWellFounded DEF OpToRel
<1>2. PICK x \in T : \A y \in T : <<y, x>> \notin Less
  <2> HIDE DEF Less
  <2> QED BY <1>1, WFMin
<1>3. ASSUME NEW y \in T, ~ (x <= y) PROVE FALSE
  <2>1. <<y, x>>[1] < <<y, x>>[2] /\ <<y, x>> \in Nat \X Nat
    BY <1>3
  <2>2. <<y, x>> \in Less
    BY <2>1
  <2> QED BY <1>2, <2>2
<1> QED BY <1>3

LEMMA UpTo ==
  ASSUME NEW N \in Nat, NEW T, 0 \in T, \A n \in 1 .. N : n - 1 \in T => n \in T
  PROVE  \A n \in 0 .. N : n \in T
<1> DEFINE wrong == {n \in 0 .. N : n \notin T}
<1> SUFFICES ASSUME wrong # {} PROVE FALSE
  OBVIOUS
<1>1. PICK x \in wrong : \A y \in wrong : x <= y
  <2>1. wrong \in SUBSET Nat
    OBVIOUS
  <2> HIDE DEF wrong
  <2> QED BY <2>1, SmallestNat
<1>2. x # 0 /\ x \in 1 .. N /\ x - 1 \in 0 .. N
  OBVIOUS
<1>3. x - 1 \in T
  BY <1>1, <1>2
<1> QED BY <1>2, <1>3

(* f goes from a to f[N] in the steps of G. *)
StepsOf(V, N) == [V \X (1 .. N) -> V]
Follows(f, V, N, a, G) ==
  f \in [0 .. N -> V] /\ f[0] = a /\ \A n \in 1 .. N : f[n] = G[<<f[n - 1], n>>]

LEMMA Recursion ==
  ASSUME NEW N \in Nat, NEW V, NEW a \in V, NEW G \in StepsOf(V, N)
  PROVE  \E f : Follows(f, V, N, a, G)
<1> USE DEF StepsOf
<1> DEFINE Is(m, f) == f \in [0 .. m -> V] /\ f[0] = a /\ \A n \in 1 .. m : f[n] = G[<<f[n - 1], n>>]
           T == {m \in 0 .. N : \E f : Is(m, f)}
<1>1. 0 \in T
  <2>1. Is(0, [n \in 0 .. 0 |-> a])
    OBVIOUS
  <2>2. \E f : Is(0, f)
    BY <2>1
  <2> HIDE DEF Is
  <2> QED BY <2>2
<1>2. ASSUME NEW m \in 1 .. N, m - 1 \in T PROVE m \in T
  <2>1. PICK f : Is(m - 1, f)
    BY <1>2
  <2> DEFINE g == [n \in 0 .. m |-> IF n < m THEN f[n] ELSE G[<<f[m - 1], m>>]]
  <2>2. f[m - 1] \in V
    BY <2>1
  <2>3. G[<<f[m - 1], m>>] \in V
    BY <2>2
  <2>4. g \in [0 .. m -> V]
    <3>1. \A n \in 0 .. m : n < m => n \in 0 .. m - 1
      OBVIOUS
    <3> QED BY <2>1, <2>3, <3>1
  <2>5. g[0] = a
    BY <2>1
  <2>6. ASSUME NEW n \in 1 .. m PROVE g[n] = G[<<g[n - 1], n>>]
    <3>1. n - 1 \in 0 .. m /\ n - 1 < m /\ g[n - 1] = f[n - 1]
      OBVIOUS
    <3>2. CASE n = m
      BY <3>1, <3>2
    <3>3. CASE n # m
      <4>1. n < m /\ n \in 1 .. m - 1 /\ n \in 0 .. m
        BY <3>3
      <4> QED BY <2>1, <3>1, <4>1
    <3> QED BY <3>2, <3>3
  <2>7. Is(m, g)
    <3> HIDE DEF g
    <3> QED BY <2>4, <2>5, <2>6
  <2>8. \E h : Is(m, h)
    BY <2>7
  <2>9. m \in 0 .. N
    OBVIOUS
  <2> HIDE DEF Is
  <2> QED BY <2>8, <2>9
<1>3. N \in T
  <2> HIDE DEF T
  <2>1. N \in 0 .. N
    OBVIOUS
  <2> QED BY <1>1, <1>2, <2>1, UpTo
<1> QED BY <1>3 DEF Follows

Over(f, N) == f = [n \in 0 .. N |-> f[n]]
Agree(f, h, N) == f[0] = h[0] /\ \A n \in 1 .. N : f[n - 1] = h[n - 1] => f[n] = h[n]

LEMMA Unique ==
  ASSUME NEW N \in Nat, NEW f, NEW h, Over(f, N), Over(h, N), Agree(f, h, N)
  PROVE  f = h
<1> USE DEF Over, Agree
<1> DEFINE T == {n \in 0 .. N : f[n] = h[n]}
<1>1. 0 \in T
  OBVIOUS
<1>2. ASSUME NEW n \in 1 .. N, n - 1 \in T PROVE n \in T
  <2>1. f[n - 1] = h[n - 1] /\ n \in 0 .. N
    BY <1>2
  <2> QED BY <2>1
<1>3. \A n \in 0 .. N : n \in T
  <2> HIDE DEF T
  <2> QED BY <1>1, <1>2, UpTo
<1> QED BY <1>3
--------------------------------------------------------------------------------
(***************************************************************************)
(* Sequences by their elements.                                            *)
(***************************************************************************)
LEMMA Joined ==
  ASSUME NEW S, NEW a \in Seq(S), NEW b \in Seq(S)
  PROVE  /\ a \o b \in Seq(S) /\ Len(a \o b) = Len(a) + Len(b)
         /\ \A i \in 1 .. Len(a) : (a \o b)[i] = a[i]
         /\ \A i \in 1 .. Len(b) : (a \o b)[Len(a) + i] = b[i]
OBVIOUS

LEMMA SameSeq ==
  ASSUME NEW S, NEW a \in Seq(S), NEW b \in Seq(S), Len(a) = Len(b), \A i \in 1 .. Len(a) : a[i] = b[i]
  PROVE  a = b
OBVIOUS

LEMMA OneMore ==
  ASSUME NEW S, NEW s \in Seq(S), NEW t \in S
  PROVE  /\ s \o <<t>> \in Seq(S) /\ Len(s \o <<t>>) = Len(s) + 1
         /\ \A i \in 1 .. Len(s) : (s \o <<t>>)[i] = s[i]
         /\ (s \o <<t>>)[Len(s) + 1] = t
         /\ s \o <<t>> = Append(s, t)
<1>1. <<t>> \in Seq(S) /\ Len(<<t>>) = 1 /\ <<t>>[1] = t
  OBVIOUS
<1>2. s \o <<t>> \in Seq(S) /\ Len(s \o <<t>>) = Len(s) + 1
  BY <1>1, Joined
<1>3. \A i \in 1 .. Len(s) : (s \o <<t>>)[i] = s[i]
  BY <1>1, Joined
<1>4. (s \o <<t>>)[Len(s) + 1] = t
  BY <1>1, Joined
<1>5. s \o <<t>> = Append(s, t)
  OBVIOUS
<1> QED BY <1>2, <1>3, <1>4, <1>5
================================================================================

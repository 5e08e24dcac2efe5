----------------------------- MODULE DataLemmas -----------------------------
(***************************************************************************)
(* Lemmas about data that several proofs need: induction over an interval  *)
(* and functions defined by recursion on it, and what pushing and popping  *)
(* do to the elements of a queue.                                          *)
(***************************************************************************)
EXTENDS Queues, WellFoundedInduction, SequenceTheorems, FiniteSetTheorems, TLAPS

(* A set of naturals has a least member: a minimal counterexample stands   *)
(* for induction.                                                          *)
LEMMA LeastNatural ==
    ASSUME NEW T \in SUBSET Nat, T # {}
    PROVE  \E m \in T : \A y \in T : m <= y
<1> DEFINE R == OpToRel(<, Nat)
<1>1. PICK m \in T : \A y \in T : <<y, m>> \notin R
  <2>1. IsWellFoundedOn(R, Nat)
    BY NatLessThanWellFounded
  <2> HIDE DEF R
  <2> QED
    BY <2>1, WFMin
<1>2. \A y \in T : ~(y < m)
  BY <1>1 DEF OpToRel
<1> QED
  BY <1>2

(* Induction from 0 to N, for a set: the members of which something holds. *)
LEMMA IntervalInduction ==
    ASSUME NEW N \in Nat, NEW T, 0 \in T, \A n \in 1 .. N : n - 1 \in T => n \in T
    PROVE  \A n \in 0 .. N : n \in T
<1> DEFINE Lacking == (0 .. N) \ T
<1> SUFFICES ASSUME Lacking # {} PROVE FALSE
  OBVIOUS
<1>1. PICK m \in Lacking : \A y \in Lacking : m <= y
  <2>1. Lacking \in SUBSET Nat
    OBVIOUS
  <2> HIDE DEF Lacking
  <2> QED
    BY <2>1, LeastNatural
<1>2. m \in 1 .. N /\ m - 1 \in 0 .. N
  BY <1>1
<1>3. m - 1 \in T
  BY <1>1, <1>2
<1> QED
  BY <1>1, <1>2, <1>3

(* What a recursion makes of its place and its last value, and what it     *)
(* defines.                                                                *)
Steps(N, S) == [(1 .. N) \X S -> S]

LEMMA Recursion ==
    ASSUME NEW N \in Nat, NEW S, NEW base \in S, NEW step \in Steps(N, S)
    PROVE  \E f \in [0 .. N -> S] :
              f[0] = base /\ \A n \in 1 .. N : f[n] = step[<<n, f[n - 1]>>]
<1> DEFINE Solves(f, m) == f[0] = base /\ \A n \in 1 .. m : f[n] = step[<<n, f[n - 1]>>]
           T == {m \in 0 .. N : \E f \in [0 .. N -> S] : Solves(f, m)}
<1>1. 0 \in T
  <2> DEFINE g == [n \in 0 .. N |-> base]
  <2>1. g \in [0 .. N -> S] /\ g[0] = base /\ 0 \in 0 .. N
    OBVIOUS
  <2>2. 1 .. 0 = {}
    OBVIOUS
  <2> HIDE DEF g
  <2> QED
    BY <2>1, <2>2
<1>2. ASSUME NEW m \in 1 .. N, m - 1 \in T
      PROVE  m \in T
  <2>1. PICK f \in [0 .. N -> S] : Solves(f, m - 1)
    BY <1>2
  <2> DEFINE g == [f EXCEPT ![m] = step[<<m, f[m - 1]>>]]
  <2>2. step[<<m, f[m - 1]>>] \in S /\ m \in 0 .. N
    BY <2>1 DEF Steps
  <2>3. g \in [0 .. N -> S]
    BY <2>2
  <2>4. \A n \in 0 .. m - 1 : g[n] = f[n]
    BY <2>1
  <2>5. g[m] = step[<<m, g[m - 1]>>]
    <3>1. g[m] = step[<<m, f[m - 1]>>]
      BY <2>2
    <3>2. g[m - 1] = f[m - 1]
      BY <2>4
    <3> QED
      BY <3>1, <3>2
  <2>6. ASSUME NEW n \in 1 .. m - 1
        PROVE  g[n] = step[<<n, g[n - 1]>>]
    <3>1. n \in 0 .. m - 1 /\ n - 1 \in 0 .. m - 1
      OBVIOUS
    <3> HIDE DEF g
    <3> QED
      BY <2>1, <2>4, <3>1
  <2>7. g[0] = base
    BY <2>1, <2>4
  <2>8. Solves(g, m)
    <3> HIDE DEF g
    <3> QED
      BY <2>5, <2>6, <2>7
  <2> HIDE DEF g, Solves
  <2> QED
    BY <2>3, <2>8
<1>3. N \in T
  <2> HIDE DEF T
  <2> QED
    BY <1>1, <1>2, IntervalInduction
<1> QED
  BY <1>3

-----------------------------------------------------------------------------
(* Queues.                                                                 *)

(* A push adds its element, and keeps a queue without it free of           *)
(* duplicates.                                                             *)
LEMMA QueuedAppend ==
    ASSUME NEW S, NEW s \in Seq(S), NEW e \in S
    PROVE  /\ \A x : Queued(x, Append(s, e)) <=> Queued(x, s) \/ x = e
           /\ Distinct(s) /\ ~Queued(e, s) => Distinct(Append(s, e))
<1>1. /\ Len(s) \in Nat
      /\ Len(Append(s, e)) = Len(s) + 1
      /\ \A i \in 1 .. Len(s) : Append(s, e)[i] = s[i]
      /\ Append(s, e)[Len(s) + 1] = e
  BY AppendProperties, LenProperties
<1>2. \A x : Queued(x, Append(s, e)) <=> Queued(x, s) \/ x = e
  BY <1>1 DEF Queued
<1>3. Distinct(s) /\ ~Queued(e, s) => Distinct(Append(s, e))
  BY <1>1 DEF Queued, Distinct
<1> QED
  BY <1>2, <1>3

(* A pop removes the head, once if the queue has no duplicates. *)
LEMMA QueuedTail ==
    ASSUME NEW S, NEW s \in Seq(S), s # <<>>
    PROVE  /\ \A x : Queued(x, s) <=> x = Head(s) \/ Queued(x, Tail(s))
           /\ Distinct(s) => Distinct(Tail(s)) /\ ~Queued(Head(s), Tail(s))
<1>1. /\ Len(s) \in Nat \ {0}
      /\ Head(s) = s[1]
      /\ Len(Tail(s)) = Len(s) - 1
      /\ \A i \in 1 .. Len(Tail(s)) : Tail(s)[i] = s[i + 1]
  BY HeadTailProperties, EmptySeq
<1>2. \A x : Queued(x, s) <=> x = Head(s) \/ Queued(x, Tail(s))
  <2> TAKE x
  <2>1. ASSUME Queued(x, s) PROVE x = Head(s) \/ Queued(x, Tail(s))
    <3>1. PICK i \in 1 .. Len(s) : s[i] = x
      BY <2>1 DEF Queued
    <3>2. CASE i = 1
      BY <1>1, <3>1, <3>2
    <3>3. CASE i # 1
      <4>1. i - 1 \in 1 .. Len(Tail(s)) /\ (i - 1) + 1 = i
        BY <1>1, <3>1, <3>3
      <4> QED
        BY <1>1, <3>1, <4>1 DEF Queued
    <3> QED
      BY <3>2, <3>3
  <2>2. ASSUME x = Head(s) \/ Queued(x, Tail(s)) PROVE Queued(x, s)
    BY <1>1, <2>2 DEF Queued
  <2> QED
    BY <2>1, <2>2
<1>3. Distinct(s) => Distinct(Tail(s)) /\ ~Queued(Head(s), Tail(s))
  BY <1>1 DEF Queued, Distinct
<1> QED
  BY <1>2, <1>3
(* What a concatenation holds, and where.                                  *)
Joined(w, s, t) ==
    /\ Len(w) = Len(s) + Len(t)
    /\ DOMAIN w = 1 .. Len(s) + Len(t)
    /\ \A i \in 1 .. Len(s) : w[i] = s[i]
    /\ \A i \in 1 .. Len(t) : w[Len(s) + i] = t[i]

LEMMA Concatenated ==
    ASSUME NEW S, NEW s \in Seq(S), NEW t \in Seq(S)
    PROVE  s \o t \in Seq(S) /\ Joined(s \o t, s, t)
<1> DEFINE w == s \o t
<1>1. w \in Seq(S)
  BY ConcatProperties
<1>2. Len(w) = Len(s) + Len(t)
  BY ConcatProperties
<1>3. \A i \in 1 .. Len(s) + Len(t) : w[i] = IF i <= Len(s) THEN s[i] ELSE t[i - Len(s)]
  BY ConcatProperties
<1>4. PICK m \in Nat, n \in Nat : m = Len(s) /\ n = Len(t)
  BY LenProperties
<1>5. DOMAIN w = 1 .. Len(w)
  BY <1>1, LenProperties
<1> HIDE DEF w
<1>6. \A i \in 1 .. m : w[i] = s[i]
  BY <1>3, <1>4
<1>7. ASSUME NEW i \in 1 .. n PROVE w[m + i] = t[i]
  <2>1. PICK j \in 1 .. m + n : j = m + i /\ ~(j <= m) /\ j - m = i
    OBVIOUS
  <2>2. w[j] = t[j - m]
    BY <1>3, <1>4, <2>1
  <2> QED
    BY <2>1, <2>2
<1>8. Joined(w, s, t)
  BY <1>2, <1>4, <1>5, <1>6, <1>7 DEF Joined
<1> QED
  BY <1>1, <1>8 DEF w

=============================================================================

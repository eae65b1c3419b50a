------------------------------ MODULE ListLemmas ------------------------------
(***************************************************************************)
(* Facts about sequences and numbers the proofs of several modules need.   *)
(***************************************************************************)
EXTENDS SequencesExt, Integers, SequenceTheorems, WellFoundedInduction, TLAPS

\* What is left of a sequence when one element is taken out.
LEMMA RemoveAtProperties ==
  ASSUME NEW S, NEW s \in Seq(S), NEW k \in 1 .. Len(s)
  PROVE  /\ RemoveAt(s, k) \in Seq(S)
         /\ Len(RemoveAt(s, k)) = Len(s) - 1
         /\ \A i \in 1 .. Len(s) - 1 :
              RemoveAt(s, k)[i] = IF i < k THEN s[i] ELSE s[i + 1]
<1> DEFINE before == SubSeq(s, 1, k - 1)
           behind == SubSeq(s, k + 1, Len(s))
<1>1. Len(s) \in Nat /\ \A i \in 1 .. Len(s) : s[i] \in S
  BY LenProperties, ElementOfSeq
<1>2. /\ before \in Seq(S) /\ Len(before) = k - 1
      /\ \A i \in 1 .. k - 1 : before[i] = s[i]
  BY <1>1, SubSeqProperties
<1>3. /\ behind \in Seq(S) /\ Len(behind) = Len(s) - k
      /\ \A i \in 1 .. Len(s) - k : behind[i] = s[i + k]
  <2>1. /\ behind \in Seq(S)
        /\ Len(behind) = IF k + 1 <= Len(s) THEN Len(s) - (k + 1) + 1 ELSE 0
        /\ \A i \in 1 .. Len(s) - (k + 1) + 1 : behind[i] = s[(k + 1) + i - 1]
    <3>1. k + 1 \in Int /\ Len(s) \in Int /\ \A i \in k + 1 .. Len(s) : s[i] \in S
      BY <1>1
    <3> QED
      BY ONLY <3>1, SubSeqProperties
  <2> QED
    BY <1>1, <2>1
<1>4. RemoveAt(s, k) = before \o behind
  BY DEF RemoveAt
<1> HIDE DEF before, behind
<1>5. /\ before \o behind \in Seq(S)
      /\ Len(before \o behind) = Len(before) + Len(behind)
      /\ \A i \in 1 .. Len(before) + Len(behind) : (before \o behind)[i] =
           IF i <= Len(before) THEN before[i] ELSE behind[i - Len(before)]
  BY <1>2, <1>3, ConcatProperties
<1>6. ASSUME NEW i \in 1 .. Len(s) - 1
      PROVE  RemoveAt(s, k)[i] = IF i < k THEN s[i] ELSE s[i + 1]
  <2>1. CASE i < k
    BY <1>1, <1>2, <1>3, <1>4, <1>5, <2>1
  <2>2. CASE i >= k
    <3>1. i - (k - 1) \in 1 .. Len(s) - k /\ (i - (k - 1)) + k = i + 1
      BY <1>1, <2>2
    <3>2. behind[i - (k - 1)] = s[i + 1]
      BY <1>3, <3>1
    <3> QED
      BY <1>1, <1>2, <1>3, <1>4, <1>5, <2>2, <3>2
  <2> QED
    BY <1>1, <2>1, <2>2
<1> QED
  BY <1>1, <1>2, <1>3, <1>4, <1>5, <1>6

\* A non-empty set of numbers has a least one.
LEMMA LeastNumber ==
  ASSUME NEW S \in SUBSET Nat, S # {}
  PROVE  \E least \in S : \A n \in S : least <= n
<1>1. \E least \in S : \A n \in S : ~ (<<n, least>> \in OpToRel(<, Nat))
  BY NatLessThanWellFounded, WFMin, Zenon
<1>2. \A least \in S : \A n \in S : n < least => <<n, least>> \in OpToRel(<, Nat)
  BY Zenon DEF OpToRel
<1>3. \A least \in S : \A n \in S : n < least \/ least <= n
  OBVIOUS
<1> QED
  BY <1>1, <1>2, <1>3, Zenon

\* f takes the value base at 0 and goes on from there by a step function.
Iterates(f, n, base, step) ==
  f[0] = base /\ \A k \in 1 .. n : f[k] = step[<<k - 1, f[k - 1]>>]

\* A function may be defined on 0 .. n from its value at 0 and a step.
LEMMA Recursion ==
  ASSUME NEW n \in Nat, NEW S, NEW base \in S, NEW step \in [Nat \X S -> S]
  PROVE  \E f \in [0 .. n -> S] : Iterates(f, n, base, step)
<1> DEFINE Built(f, m) == Iterates(f, m, base, step)
           missing == {m \in Nat : ~ \E f \in [0 .. m -> S] : Built(f, m)}
<1> USE DEF Iterates
<1>1. SUFFICES ASSUME n \in missing PROVE FALSE
  OBVIOUS
<1>2. PICK m \in missing : \A h \in missing : m <= h
  BY <1>1, LeastNumber
<1>3. m # 0
  <2>1. [k \in 0 .. 0 |-> base] \in [0 .. 0 -> S] /\ Built([k \in 0 .. 0 |-> base], 0)
    OBVIOUS
  <2> QED
    BY <1>2, <2>1
<1>4. m - 1 \in Nat /\ m - 1 \notin missing
  BY <1>2, <1>3
<1>5. PICK f \in [0 .. m - 1 -> S] : Built(f, m - 1)
  BY <1>4
<1> DEFINE g == [k \in 0 .. m |-> IF k < m THEN f[k] ELSE step[<<m - 1, f[m - 1]>>]]
<1>6. f[m - 1] \in S /\ step[<<m - 1, f[m - 1]>>] \in S
  BY <1>4
<1>7. g \in [0 .. m -> S]
  BY <1>4, <1>6
<1>8. Built(g, m)
  <2>1. g[0] = base
    BY <1>3, <1>4, <1>5
  <2>2. ASSUME NEW k \in 1 .. m PROVE g[k] = step[<<k - 1, g[k - 1]>>]
    <3>1. CASE k < m
      <4>1. k \in 1 .. m - 1 /\ g[k] = f[k] /\ g[k - 1] = f[k - 1]
        BY <1>4, <3>1
      <4> QED
        BY <1>5, <4>1
    <3>2. CASE k = m
      <4>1. k \in 0 .. m /\ ~(k < m) /\ k - 1 \in 0 .. m /\ k - 1 < m
        BY <1>4, <3>2
      <4>2. g[k] = step[<<m - 1, f[m - 1]>>] /\ g[k - 1] = f[k - 1]
        BY ONLY <4>1
      <4> QED
        BY ONLY <3>2, <4>2
    <3> QED
      BY <3>1, <3>2, <1>4
  <2> QED
    BY <2>1, <2>2
<1> QED
  BY <1>2, <1>7, <1>8
=============================================================================

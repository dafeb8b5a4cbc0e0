------------------------------ MODULE FoldLaws ------------------------------
(***************************************************************************)
(* Induction over numbers and lists, and what the folds of the community   *)
(* modules compute, for every list.  A property is a set of numbers that   *)
(* has 0 and with each number the next one; a fold is what a function of   *)
(* value and element makes of the list from its first place to its last.   *)
(***************************************************************************)
EXTENDS Integers, SequencesExt, FiniteSetTheorems, WellFoundedInduction, TLAPS

-----------------------------------------------------------------------------
(* Induction and folds. *)

\* A set that has 0, and with each number the next one, has all.
LEMMA AllNumbers ==
    ASSUME NEW G, 0 \in G, \A n \in Nat : n \in G => n + 1 \in G
    PROVE  Nat \subseteq G
<1> SUFFICES ASSUME Nat \ G # {} PROVE FALSE
  OBVIOUS
<1>1. PICK n \in Nat \ G : \A m \in Nat \ G : ~(<<m, n>> \in OpToRel(<, Nat))
  BY NatLessThanWellFounded, WFMin
<1>2. \A m \in Nat \ G : ~(m < n)
  BY <1>1 DEF OpToRel
<1>3. n # 0 /\ n - 1 \in Nat
  OBVIOUS
<1>4. n - 1 \in G
  BY <1>2, <1>3
<1> QED
  BY <1>3, <1>4

\* The same up to a bound.
LEMMA AllUpTo ==
    ASSUME NEW N \in Nat, NEW G, 0 \in G, \A n \in 0 .. (N - 1) : n \in G => n + 1 \in G
    PROVE  0 .. N \subseteq G
<1> DEFINE H == G \cup {n \in Nat : n > N}
<1>1. 0 \in H /\ \A n \in Nat : n \in H => n + 1 \in H
  OBVIOUS
<1> HIDE DEF H
<1>2. Nat \subseteq H
  BY <1>1, AllNumbers
<1> QED
  BY <1>2 DEF H

Highest(S) == S \ {Max(S)}

LEMMA MaxOfPrefix ==
    ASSUME NEW n \in Nat, n > 0
    PROVE  Max(1 .. n) = n /\ Highest(1 .. n) = 1 .. (n - 1)
<1>1. Max(1 .. n) = n
  BY DEF Max
<1> QED
  BY <1>1 DEF Highest

LEMMA MaxThere ==
    ASSUME NEW N \in Nat, NEW S \in SUBSET (1 .. N), S # {}
    PROVE  Max(S) \in S /\ \A y \in S : y <= Max(S)
<1> DEFINE G == {n \in 0 .. N : \A T \in SUBSET (1 .. n) : T # {} => \E x \in T : \A y \in T : y <= x}
<1>1. 0 \in G
  <2> SUFFICES ASSUME NEW T \in SUBSET (1 .. 0), T # {} PROVE FALSE
    OBVIOUS
  <2>1. PICK x \in T : TRUE
    OBVIOUS
  <2> QED
    BY <2>1
<1>2. ASSUME NEW n \in 0 .. (N - 1), n \in G PROVE n + 1 \in G
  <2> SUFFICES ASSUME NEW T \in SUBSET (1 .. n + 1), T # {} PROVE \E x \in T : \A y \in T : y <= x
    OBVIOUS
  <2>1. CASE n + 1 \in T
    BY <2>1
  <2>2. CASE n + 1 \notin T
    <3>1. T \in SUBSET (1 .. n)
      BY <2>2
    <3> QED
      BY <3>1, <1>2
  <2> QED
    BY <2>1, <2>2
<1> HIDE DEF G
<1>3. N \in G
  BY <1>1, <1>2, AllUpTo
<1>4. \E x \in S : \A y \in S : y <= x
  BY <1>3 DEF G
<1>5. \E x \in S : \A y \in S : x >= y
  BY <1>4
<1> QED
  BY <1>5 DEF Max

\* The places of a list.
LEMMA Places ==
    ASSUME NEW E, NEW s \in Seq(E)
    PROVE  /\ Len(s) \in Nat /\ DOMAIN s = 1 .. Len(s) /\ \A i \in DOMAIN s : s[i] \in E
           /\ \A S \in SUBSET DOMAIN s :
                 /\ Cardinality(S) \in Nat /\ Cardinality(S) <= Len(s)
                 /\ Cardinality(S) = 0 <=> S = {}
                 /\ S # {} => /\ Max(S) \in DOMAIN s /\ S \ {Max(S)} \in SUBSET DOMAIN s
                              /\ Cardinality(S \ {Max(S)}) = Cardinality(S) - 1
<1>1. Len(s) \in Nat /\ DOMAIN s = 1 .. Len(s) /\ \A i \in DOMAIN s : s[i] \in E
  OBVIOUS
<1>2. IsFiniteSet(DOMAIN s) /\ Cardinality(DOMAIN s) = Len(s)
  <2>1. IsFiniteSet(1 .. Len(s)) /\ Cardinality(1 .. Len(s)) = IF 1 > Len(s) THEN 0 ELSE Len(s) - 1 + 1
    BY <1>1, FS_Interval
  <2> QED
    BY <1>1, <2>1
<1>3. ASSUME NEW S \in SUBSET DOMAIN s
      PROVE  IsFiniteSet(S) /\ Cardinality(S) \in Nat /\ Cardinality(S) <= Len(s) /\ (Cardinality(S) = 0 <=> S = {})
  BY <1>2, FS_Subset, FS_CardinalityType, FS_EmptySet
<1>4. ASSUME NEW S \in SUBSET DOMAIN s, S # {}
      PROVE  Max(S) \in S /\ Cardinality(S \ {Max(S)}) = Cardinality(S) - 1
  <2>1. Max(S) \in S
    BY <1>1, <1>4, MaxThere
  <2> QED
    BY <2>1, <1>3, FS_RemoveElement
<1> QED
  BY <1>1, <1>3, <1>4

\* A fold by a function step, with a value for every set of places.
Value(step, base, s, it, S) == IF S = {} THEN base ELSE step[<<it[S \ {Max(S)}], s[Max(S)]>>]

Folds(it, B, step, base, s) ==
    /\ it \in [SUBSET DOMAIN s -> B]
    /\ \A S \in SUBSET DOMAIN s : it[S] = Value(step, base, s, it, S)

LEMMA FoldExists ==
    ASSUME NEW B, NEW base \in B, NEW E, NEW step \in [B \X E -> B], NEW s \in Seq(E)
    PROVE  \E it : Folds(it, B, step, base, s)
<1> DEFINE Sets == SUBSET DOMAIN s
           Holds(it, n) == \A S \in Sets : Cardinality(S) <= n => it[S] = Value(step, base, s, it, S)
           G == {n \in 0 .. Len(s) : \E it \in [Sets -> B] : Holds(it, n)}
<1>1. /\ Len(s) \in Nat
      /\ \A S \in Sets : /\ Cardinality(S) \in Nat /\ Cardinality(S) <= Len(s)
                         /\ Cardinality(S) = 0 <=> S = {}
                         /\ S # {} => /\ S \ {Max(S)} \in Sets /\ s[Max(S)] \in E
                                      /\ Cardinality(S \ {Max(S)}) = Cardinality(S) - 1
  BY Places
<1> HIDE DEF Sets
<1>2. ASSUME NEW it \in [Sets -> B], NEW S \in Sets PROVE Value(step, base, s, it, S) \in B
  <2> CASE S # {}
    <3>1. it[S \ {Max(S)}] \in B /\ s[Max(S)] \in E
      BY <1>1
    <3> QED
      BY <3>1 DEF Value
  <2> QED
    BY DEF Value
<1>3. 0 \in G
  <2> DEFINE it == [S \in Sets |-> base]
  <2>1. it \in [Sets -> B]
    OBVIOUS
  <2>2. ASSUME NEW S \in Sets, Cardinality(S) <= 0 PROVE it[S] = Value(step, base, s, it, S)
    <3>0. Cardinality(S) \in Nat /\ (Cardinality(S) = 0 <=> S = {})
      BY <1>1
    <3>1. S = {}
      BY <3>0, <2>2
    <3> QED
      BY <3>1 DEF Value
  <2>3. Holds(it, 0)
    BY <2>2
  <2> HIDE DEF it, Holds
  <2> QED
    BY <1>1, <2>1, <2>3
<1>4. ASSUME NEW n \in 0 .. (Len(s) - 1), n \in G PROVE n + 1 \in G
  <2>1. PICK it \in [Sets -> B] : Holds(it, n)
    BY <1>4
  <2> DEFINE jt == [S \in Sets |-> IF Cardinality(S) <= n THEN it[S] ELSE Value(step, base, s, it, S)]
  <2>2. jt \in [Sets -> B]
    BY <1>2
  <2>3. ASSUME NEW S \in Sets, Cardinality(S) <= n + 1 PROVE jt[S] = Value(step, base, s, jt, S)
    <3>0. /\ Cardinality(S) \in Nat
          /\ S # {} => S \ {Max(S)} \in Sets /\ Cardinality(S \ {Max(S)}) = Cardinality(S) - 1
      BY <1>1
    <3>1. S # {} => S \ {Max(S)} \in Sets /\ Cardinality(S \ {Max(S)}) <= n
      BY <3>0, <2>3
    <3>2. S # {} => jt[S \ {Max(S)}] = it[S \ {Max(S)}]
      BY <3>1
    <3>3. Value(step, base, s, jt, S) = Value(step, base, s, it, S)
      BY <3>2, SMTT(30) DEF Value
    <3>4. jt[S] = Value(step, base, s, it, S)
      BY <2>1
    <3> QED
      BY <3>3, <3>4
  <2>4. Holds(jt, n + 1)
    BY <2>3
  <2> HIDE DEF jt, Holds
  <2> QED
    BY <1>1, <2>2, <2>4
<1> HIDE DEF G
<1>5. Len(s) \in G
  <2>1. Len(s) \in Nat /\ Len(s) \in 0 .. Len(s)
    BY <1>1
  <2>2. \A n \in 0 .. (Len(s) - 1) : n \in G => n + 1 \in G
    BY <1>4
  <2>3. 0 .. Len(s) \subseteq G
    BY <1>3, <2>1, <2>2, AllUpTo
  <2> QED
    BY <2>1, <2>3
<1>6. PICK it \in [Sets -> B] : Holds(it, Len(s))
  BY <1>5 DEF G
<1>7. \A S \in Sets : it[S] = Value(step, base, s, it, S)
  BY <1>1, <1>6
<1>8. Folds(it, B, step, base, s)
  BY <1>7 DEF Sets, Folds
<1> QED
  BY <1>8

\* The values of a fold after each place of a list, and the last of them.
Runs(p, step, base, s) ==
    /\ DOMAIN p = 0 .. Len(s) /\ p[0] = base
    /\ \A n \in 1 .. Len(s) : p[n] = step[<<p[n - 1], s[n]>>]

Folded(step, base, s) == (CHOOSE p : Runs(p, step, base, s))[Len(s)]

LEMMA RunExists ==
    ASSUME NEW B, NEW base \in B, NEW E, NEW step \in [B \X E -> B], NEW s \in Seq(E)
    PROVE  \E p \in [0 .. Len(s) -> B] : Runs(p, step, base, s)
<1>1. Len(s) \in Nat /\ DOMAIN s = 1 .. Len(s)
  OBVIOUS
<1>2. PICK it : Folds(it, B, step, base, s)
  BY FoldExists
<1>2a. it \in [SUBSET DOMAIN s -> B] /\ \A S \in SUBSET DOMAIN s : it[S] = Value(step, base, s, it, S)
  BY <1>2 DEF Folds
<1> DEFINE p == [n \in 0 .. Len(s) |-> it[1 .. n]]
<1>3. \A n \in 0 .. Len(s) : (1 .. n) \in SUBSET DOMAIN s
  BY <1>1
<1>4. p \in [0 .. Len(s) -> B]
  BY <1>2a, <1>3
<1>5. p[0] = base
  <2>1. 1 .. 0 = {}
    OBVIOUS
  <2>2. it[{}] = base
    BY <1>2a DEF Value
  <2> QED
    BY <2>1, <2>2, <1>1
<1>6. ASSUME NEW n \in 1 .. Len(s) PROVE p[n] = step[<<p[n - 1], s[n]>>]
  <2>0. 1 \in 1 .. n
    BY <1>1
  <2>1. (1 .. n) \in SUBSET DOMAIN s /\ 1 .. n # {} /\ n \in Nat /\ n > 0 /\ n - 1 \in 0 .. Len(s)
    <3>1. 1 .. n \subseteq 1 .. Len(s) /\ n \in Nat /\ n > 0 /\ n - 1 \in 0 .. Len(s)
      BY <1>1
    <3>2. 1 .. n # {}
      BY <2>0
    <3> QED
      BY <3>1, <3>2, <1>1
  <2>2. Max(1 .. n) = n /\ (1 .. n) \ {Max(1 .. n)} = 1 .. (n - 1)
    BY <2>1, MaxOfPrefix DEF Highest
  <2>3. it[1 .. n] = Value(step, base, s, it, 1 .. n)
    BY <1>2a, <2>1
  <2>4. it[1 .. n] = step[<<it[1 .. (n - 1)], s[n]>>]
    BY <2>1, <2>2, <2>3 DEF Value
  <2> QED
    BY <2>1, <2>4
<1> HIDE DEF p
<1> QED
  BY <1>4, <1>5, <1>6 DEF Runs

\* Two runs agree as far as their lists do.
LEMMA RunsAgree ==
    ASSUME NEW step, NEW base, NEW E, NEW s \in Seq(E), NEW t \in Seq(E), NEW p, NEW q,
           Runs(p, step, base, s), Runs(q, step, base, t),
           NEW N \in Nat, N <= Len(s), N <= Len(t), \A i \in 1 .. N : s[i] = t[i]
    PROVE  p[N] = q[N]
<1> DEFINE G == {n \in 0 .. N : p[n] = q[n]}
<1>1. 0 \in G
  BY DEF Runs
<1>2. ASSUME NEW n \in 0 .. (N - 1), n \in G PROVE n + 1 \in G
  <2>1. n + 1 \in 1 .. Len(s) /\ n + 1 \in 1 .. Len(t) /\ n + 1 \in 1 .. N /\ (n + 1) - 1 = n
    OBVIOUS
  <2>2. p[n + 1] = step[<<p[n], s[n + 1]>>] /\ q[n + 1] = step[<<q[n], t[n + 1]>>]
    BY <2>1 DEF Runs
  <2> QED
    BY <1>2, <2>1, <2>2, SMTT(30)
<1> HIDE DEF G
<1>3. \A n \in 0 .. (N - 1) : n \in G => n + 1 \in G
  BY <1>2
<1>4. 0 .. N \subseteq G
  BY <1>1, <1>3, AllUpTo
<1>5. N \in G
  BY <1>4
<1> QED
  BY <1>5 DEF G

LEMMA FoldedType ==
    ASSUME NEW B, NEW base \in B, NEW E, NEW step \in [B \X E -> B], NEW s \in Seq(E)
    PROVE  Folded(step, base, s) \in B
<1>1. PICK p \in [0 .. Len(s) -> B] : Runs(p, step, base, s)
  BY RunExists
<1>2. Runs(CHOOSE q : Runs(q, step, base, s), step, base, s)
  BY <1>1
<1>3. Folded(step, base, s) = p[Len(s)]
  BY <1>1, <1>2, RunsAgree DEF Folded
<1> QED
  BY <1>3

FoldLaws(step, base, E) ==
    /\ Folded(step, base, <<>>) = base
    /\ \A s \in Seq(E), e \in E : Folded(step, base, Append(s, e)) = step[<<Folded(step, base, s), e>>]

LEMMA FoldedLaws ==
    ASSUME NEW B, NEW base \in B, NEW E, NEW step \in [B \X E -> B]
    PROVE  FoldLaws(step, base, E)
<1>1. ASSUME NEW s \in Seq(E)
      PROVE  \E p : Runs(p, step, base, s) /\ Folded(step, base, s) = p[Len(s)]
  BY RunExists DEF Folded
<1>2. Folded(step, base, <<>>) = base
  <2>1. <<>> \in Seq(E) /\ Len(<<>>) = 0
    OBVIOUS
  <2> QED
    BY <1>1, <2>1 DEF Runs
<1>3. ASSUME NEW s \in Seq(E), NEW e \in E
      PROVE  Folded(step, base, Append(s, e)) = step[<<Folded(step, base, s), e>>]
  <2> DEFINE t == Append(s, e)
             N == Len(s)
  <2>1. /\ t \in Seq(E) /\ N \in Nat /\ Len(t) = N + 1 /\ t[N + 1] = e
        /\ \A i \in 1 .. N : s[i] = t[i]
    OBVIOUS
  <2> HIDE DEF t, N
  <2>2. PICK p : Runs(p, step, base, s) /\ Folded(step, base, s) = p[N]
    BY <1>1 DEF N
  <2>3. PICK q : Runs(q, step, base, t) /\ Folded(step, base, t) = q[N + 1]
    BY <1>1, <2>1
  <2>4. p[N] = q[N]
    <3>1. N <= Len(s) /\ N <= Len(t)
      BY <2>1 DEF N
    <3> QED
      BY <2>1, <2>2, <2>3, <3>1, RunsAgree
  <2>5. N + 1 \in 1 .. Len(t) /\ (N + 1) - 1 = N
    BY <2>1
  <2>6. q[N + 1] = step[<<q[N], t[N + 1]>>]
    BY <2>3, <2>5 DEF Runs
  <2> QED
    BY <2>1, <2>2, <2>3, <2>4, <2>6 DEF t
<1> QED
  BY <1>2, <1>3 DEF FoldLaws

\* A function like those of FoldLeft, as far as its values are of the type of the fold.
Unfolds(it, B, step, base, s) ==
    /\ it[{}] = base
    /\ \A S \in SUBSET DOMAIN s : S # {} /\ it[S \ {Max(S)}] \in B =>
           it[S] = step[<<it[S \ {Max(S)}], s[Max(S)]>>]

IsFold(it, step, base, s) == it[DOMAIN s] = Folded(step, base, s)

LEMMA FoldIs ==
    ASSUME NEW B, NEW base \in B, NEW E, NEW step \in [B \X E -> B], NEW s \in Seq(E), NEW it,
           Unfolds(it, B, step, base, s)
    PROVE  IsFold(it, step, base, s)
<1> DEFINE p == [n \in 0 .. Len(s) |-> it[1 .. n]]
           G == {n \in 0 .. Len(s) : p[n] \in B /\ (n > 0 => p[n] = step[<<p[n - 1], s[n]>>])}
<1>1. Len(s) \in Nat /\ DOMAIN s = 1 .. Len(s) /\ \A n \in 1 .. Len(s) : s[n] \in E
  OBVIOUS
<1>2. p[0] = base
  <2>1. 1 .. 0 = {}
    OBVIOUS
  <2> QED
    BY <2>1, <1>1 DEF Unfolds
<1>3. ASSUME NEW n \in 0 .. (Len(s) - 1), n \in G PROVE n + 1 \in G
  <2> DEFINE m == n + 1
  <2>0. m \in Nat /\ m > 0 /\ m - 1 = n /\ m \in 0 .. Len(s) /\ 1 \in 1 .. m
    BY <1>1
  <2>1. (1 .. m) \in SUBSET DOMAIN s /\ 1 .. m # {} /\ m \in Nat /\ m > 0 /\ m - 1 = n /\ m \in 0 .. Len(s)
    <3>1. 1 .. m \subseteq 1 .. Len(s)
      BY <1>1
    <3>2. 1 .. m # {}
      BY <2>0
    <3> QED
      BY <2>0, <3>1, <3>2, <1>1
  <2>2. s[m] \in E /\ it[1 .. n] \in B
    BY <1>1, <1>3
  <2> HIDE DEF m
  <2>3. Max(1 .. m) = m /\ (1 .. m) \ {Max(1 .. m)} = 1 .. n
    BY <2>1, MaxOfPrefix DEF Highest
  <2>4. it[1 .. m] = step[<<it[1 .. n], s[m]>>]
    BY <2>1, <2>2, <2>3 DEF Unfolds
  <2>5. it[1 .. m] \in B
    BY <2>2, <2>4
  <2>6. p[m] = it[1 .. m] /\ p[m - 1] = it[1 .. n]
    BY <2>1
  <2>7. m \in G
    BY <2>1, <2>4, <2>5, <2>6
  <2> QED
    BY <2>7 DEF m
<1>4. 0 \in G
  BY <1>1, <1>2
<1>5. 0 .. Len(s) \subseteq G
  <2> HIDE DEF G
  <2> QED
    BY <1>1, <1>3, <1>4, AllUpTo
<1>6. Runs(p, step, base, s)
  <2>1. ASSUME NEW n \in 1 .. Len(s) PROVE p[n] = step[<<p[n - 1], s[n]>>]
    <3>1. n \in 0 .. Len(s) /\ n > 0
      BY <1>1
    <3>2. n \in G
      BY <1>5, <3>1
    <3> QED
      BY <3>1, <3>2
  <2>2. DOMAIN p = 0 .. Len(s)
    OBVIOUS
  <2> HIDE DEF p
  <2> QED
    BY <1>2, <2>1, <2>2 DEF Runs
<1>7. Runs(CHOOSE q : Runs(q, step, base, s), step, base, s)
  BY <1>6
<1>8. p[Len(s)] = Folded(step, base, s)
  <2> HIDE DEF p
  <2> QED
    BY <1>1, <1>6, <1>7, RunsAgree DEF Folded
<1> QED
  BY <1>1, <1>8 DEF IsFold

\* A set of lists that has the empty one, and with each list those that are one longer, has all.
LEMMA AllLists ==
    ASSUME NEW E, NEW G, <<>> \in G, \A s \in Seq(E), e \in E : s \in G => Append(s, e) \in G
    PROVE  Seq(E) \subseteq G
<1> DEFINE H == {n \in Nat : \A s \in Seq(E) : Len(s) = n => s \in G}
<1>1. 0 \in H
  <2>1. \A s \in Seq(E) : Len(s) = 0 => s = <<>>
    OBVIOUS
  <2> QED
    BY <2>1
<1>2. ASSUME NEW n \in Nat, n \in H PROVE n + 1 \in H
  <2> SUFFICES ASSUME NEW s \in Seq(E), Len(s) = n + 1 PROVE s \in G
    OBVIOUS
  <2> DEFINE f == SubSeq(s, 1, n)
  <2>1. /\ f \in Seq(E) /\ Len(f) = n /\ s[n + 1] \in E
        /\ \A i \in 1 .. n : f[i] = s[i]
    OBVIOUS
  <2> HIDE DEF f
  <2>2. s = Append(f, s[n + 1])
    BY <2>1
  <2>3. f \in G
    BY <1>2, <2>1
  <2> QED
    BY <2>1, <2>2, <2>3
<1> HIDE DEF H
<1>3. \A n \in Nat : n \in H => n + 1 \in H
  BY <1>2
<1>4. Nat \subseteq H
  BY <1>1, <1>3, AllNumbers
<1>5. ASSUME NEW s \in Seq(E) PROVE s \in G
  <2>1. Len(s) \in Nat
    OBVIOUS
  <2>2. Len(s) \in H
    BY <2>1, <1>4
  <2> QED
    BY <2>2 DEF H
<1> QED
  BY <1>5
=============================================================================

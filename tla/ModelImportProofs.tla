-------------------------- MODULE ModelImportProofs --------------------------
(***************************************************************************)
(* The way of a model from an ontology to the nodes, for every ontology,   *)
(* every core seed that loads, and all options: what is read stays what    *)
(* was declared, what is imported loads, what is counted is held, and what *)
(* is validated is complete.  The sections follow the code: sequences and  *)
(* loops, the parser, the resolution of domains, the mapping to a          *)
(* manifest, the registry, the validator.                                  *)
(***************************************************************************)
EXTENDS ModelImport, FiniteSetTheorems, SequenceTheorems, WellFoundedInduction, TLAPS

-----------------------------------------------------------------------------
(* Induction and recursion up to a bound.                                   *)

\* A set of numbers that has 0 and, with a number, the next up to N, has all of
\* them up to N.
LEMMA Turnwise ==
    ASSUME NEW N \in Nat, NEW S, 0 \in S,
           \A k \in 1..N : k - 1 \in S => k \in S
    PROVE  0..N \subseteq S
<1> DEFINE T == (0..N) \ S
<1>1. SUFFICES ASSUME T # {} PROVE FALSE
  OBVIOUS
<1>2. T \subseteq Nat
  OBVIOUS
<1>3. PICK x \in T : \A y \in T : ~(<<y, x>> \in OpToRel(<, Nat))
  BY <1>1, <1>2, NatLessThanWellFounded, WFMin
<1>4. x \in T /\ \A y \in T : ~(y < x)
  BY <1>2, <1>3 DEF OpToRel
<1>5. x \in 1..N /\ x \notin S
  BY <1>4
<1>6. x - 1 \in 0..N /\ x - 1 < x /\ x - 1 \notin T
  BY <1>4, <1>5
<1>7. QED
  BY <1>5, <1>6

\* A loop of N turns, each of which maps states to states, has a state after every
\* turn.
LEMMA LoopExists ==
    ASSUME NEW S, NEW a \in S, NEW N \in Nat, NEW F \in [1..N -> [S -> S]]
    PROVE  \E r \in [0..N -> S] : r[0] = a /\ \A k \in 1..N : r[k] = F[k][r[k - 1]]
<1> DEFINE Loop(n, r) == r[0] = a /\ \A k \in 1..n : r[k] = F[k][r[k - 1]]
           G == {n \in 0..N : \E r \in [0..n -> S] : Loop(n, r)}
<1>1. 0 \in G
  <2>1. [k \in 0..0 |-> a] \in [0..0 -> S] /\ Loop(0, [k \in 0..0 |-> a])
    OBVIOUS
  <2>2. \E r \in [0..0 -> S] : Loop(0, r)
    BY <2>1
  <2>3. 0 \in 0..N
    OBVIOUS
  <2> HIDE DEF Loop
  <2>4. QED
    BY <2>2, <2>3
<1>2. ASSUME NEW n \in 1..N, n - 1 \in G PROVE n \in G
  <2>1. PICK r \in [0..(n - 1) -> S] : Loop(n - 1, r)
    BY <1>2
  <2> DEFINE s == [k \in 0..n |-> IF k = n THEN F[n][r[n - 1]] ELSE r[k]]
  <2>2. /\ r \in [0..(n - 1) -> S] /\ r[0] = a
        /\ \A k \in 1..(n - 1) : r[k] = F[k][r[k - 1]]
    BY <2>1
  <2>3. F[n] \in [S -> S] /\ r[n - 1] \in S
    BY <2>2
  <2>4. s \in [0..n -> S] /\ s[0] = a
    BY <2>2, <2>3
  <2>5. ASSUME NEW k \in 1..n PROVE s[k] = F[k][s[k - 1]]
    <3>1. k \in 0..n /\ k - 1 \in 0..n /\ k - 1 # n
      OBVIOUS
    <3>2. s[k - 1] = r[k - 1]
      BY <3>1
    <3>3. CASE k = n
      BY <3>1, <3>2, <3>3
    <3>4. CASE k # n
      <4>1. k \in 1..(n - 1)
        BY <3>4
      <4>2. s[k] = r[k] /\ r[k] = F[k][r[k - 1]]
        BY <2>2, <3>1, <3>4, <4>1
      <4>3. QED
        BY <3>2, <4>2
    <3>5. QED
      BY <3>3, <3>4
  <2> HIDE DEF s
  <2>6. Loop(n, s)
    BY <2>4, <2>5
  <2>7. \E q \in [0..n -> S] : Loop(n, q)
    BY <2>4, <2>6
  <2>8. n \in 0..N
    OBVIOUS
  <2> HIDE DEF Loop
  <2>9. QED
    BY <2>7, <2>8
<1> HIDE DEF G
<1>3. 0..N \subseteq G
  BY <1>1, <1>2, Turnwise
<1>4. N \in G
  BY <1>3
<1>5. QED
  BY <1>4 DEF G

\* What holds at the start of a loop and is kept by its turns holds throughout.
LEMMA Throughout ==
    ASSUME NEW N \in Nat, NEW t, NEW S, t[0] \in S,
           \A k \in 1..N : t[k - 1] \in S => t[k] \in S
    PROVE  \A k \in 0..N : t[k] \in S
<1> DEFINE G == {k \in 0..N : t[k] \in S}
<1>1. 0 \in G /\ \A k \in 1..N : k - 1 \in G => k \in G
  OBVIOUS
<1> HIDE DEF G
<1>2. 0..N \subseteq G
  BY <1>1, Turnwise
<1> QED
  BY <1>2 DEF G

-----------------------------------------------------------------------------
(* Sequences.                                                               *)

IsSeq(s) == s \in Seq(Range(s))

LEMMA SeqFacts ==
    ASSUME NEW s, IsSeq(s)
    PROVE  /\ Len(s) \in Nat /\ DOMAIN s = 1..Len(s)
           /\ \A k \in DOMAIN s : s[k] \in Range(s)
           /\ \A x \in Range(s) : \E k \in DOMAIN s : s[k] = x
  BY DEF IsSeq, Range

LEMMA SeqIsSeq ==
    ASSUME NEW X, NEW s \in Seq(X)
    PROVE  IsSeq(s) /\ Range(s) \subseteq X
  BY SeqOfRange, RangeOfSeq DEF IsSeq

\* A function on an interval is a sequence.
LEMMA TableIsSeq ==
    ASSUME NEW n \in Nat, NEW f, f = [k \in DOMAIN f |-> f[k]], DOMAIN f = 1..n
    PROVE  IsSeq(f) /\ Len(f) = n
<1>1. \A k \in DOMAIN f : f[k] \in Range(f)
  BY DEF Range
<1> HIDE DEF Range
<1>2. f \in [1..n -> Range(f)]
  BY <1>1
<1>3. QED
  BY <1>2 DEF IsSeq

LEMMA ConcatFacts ==
    ASSUME NEW s, NEW t, IsSeq(s), IsSeq(t)
    PROVE  /\ IsSeq(s \o t)
           /\ Range(s \o t) = Range(s) \cup Range(t)
           /\ Len(s \o t) = Len(s) + Len(t)
           /\ \A k \in 1..(Len(s) + Len(t)) :
                 (s \o t)[k] = IF k <= Len(s) THEN s[k] ELSE t[k - Len(s)]
<1> DEFINE X == Range(s) \cup Range(t)
<1>1. s \in Seq(X) /\ t \in Seq(X)
  <2>1. s \in Seq(Range(s)) /\ t \in Seq(Range(t))
    BY DEF IsSeq
  <2>2. Range(s) \subseteq X /\ Range(t) \subseteq X
    OBVIOUS
  <2> HIDE DEF X
  <2>3. QED
    BY <2>1, <2>2, SeqMonotonic
<1> HIDE DEF X
<1>2. s \o t \in Seq(X)
  BY <1>1, ConcatProperties
<1>3. IsSeq(s \o t)
  BY <1>2, SeqIsSeq
<1>4. Range(s \o t) = Range(s) \cup Range(t)
  BY <1>1, RangeConcatenation
<1>5. /\ Len(s \o t) = Len(s) + Len(t)
      /\ \A k \in 1..(Len(s) + Len(t)) :
            (s \o t)[k] = IF k <= Len(s) THEN s[k] ELSE t[k - Len(s)]
  BY <1>1, ConcatProperties
<1>6. QED
  BY <1>3, <1>4, <1>5

LEMMA UptoFacts ==
    ASSUME NEW s, IsSeq(s), NEW n \in Nat
    PROVE  IsSeq(Upto(s, n)) /\ Range(Upto(s, n)) \subseteq Range(s)
<1> DEFINE m == IF n < Len(s) THEN n ELSE Len(s)
           X == Range(s)
<1>1. m \in Nat /\ m <= Len(s) /\ Len(s) \in Nat /\ DOMAIN s = 1..Len(s)
      /\ \A k \in DOMAIN s : s[k] \in X
  BY SeqFacts
<1> HIDE DEF m, X
<1>2. \A k \in 1..m : s[k] \in X
  BY <1>1
<1>3. SubSeq(s, 1, m) \in Seq(X)
  BY <1>1, <1>2, SubSeqProperties
<1>4. Upto(s, n) \in Seq(X)
  BY <1>3 DEF Upto, m
<1>5. QED
  BY <1>4, SeqIsSeq DEF X

LEMMA AppendFacts ==
    ASSUME NEW X, NEW q \in Seq(X), NEW x \in X
    PROVE  /\ Append(q, x) \in Seq(X)
           /\ Range(Append(q, x)) = Range(q) \cup {x}
           /\ IsInjective(q) /\ x \notin Range(q) => IsInjective(Append(q, x))
<1> DEFINE n == Len(q)
           r == Append(q, x)
<1>1. /\ n \in Nat /\ DOMAIN q = 1..n /\ DOMAIN r = 1..(n + 1)
      /\ \A k \in 1..n : r[k] = q[k]
      /\ r[n + 1] = x
      /\ r \in Seq(X)
  OBVIOUS
<1> HIDE DEF n, r
<1>2. DOMAIN r = DOMAIN q \cup {n + 1}
  BY <1>1
<1>3. Range(r) = Range(q) \cup {x}
  BY <1>1, <1>2 DEF Range
<1>4. ASSUME IsInjective(q), x \notin Range(q) PROVE IsInjective(r)
  <2>1. \A j \in DOMAIN q : q[j] # x
    BY <1>4 DEF Range
  <2>2. QED
    BY <1>1, <1>2, <1>4, <2>1 DEF IsInjective
<1>5. QED
  BY <1>1, <1>3, <1>4 DEF r

\* A sequence that has nothing twice is as long as its range is large.
LEMMA InjectiveLength ==
    ASSUME NEW s, IsSeq(s)
    PROVE  /\ IsFiniteSet(Range(s)) /\ Cardinality(Range(s)) \in Nat
           /\ IsInjective(s) => Cardinality(Range(s)) = Len(s)
<1> DEFINE N == Len(s)
           T == Range(s)
<1>1. N \in Nat /\ DOMAIN s = 1..N /\ s \in [1..N -> T]
  BY DEF IsSeq
<1>2. IsFiniteSet(1..N) /\ Cardinality(1..N) = N
  BY <1>1, FS_Interval
<1>3. s \in Surjection(1..N, T)
  <2>1. \A t \in T : \E k \in 1..N : s[k] = t
    BY <1>1 DEF Range
  <2> HIDE DEF N, T
  <2>2. QED
    BY <1>1, <2>1 DEF Surjection
<1> HIDE DEF N, T
<1>4. IsFiniteSet(T) /\ (Cardinality(T) = Cardinality(1..N) <=> s \in Injection(1..N, T))
  BY <1>2, <1>3, FS_Surjection
<1>5. Cardinality(T) \in Nat
  BY <1>4, FS_CardinalityType
<1>6. IsInjective(s) => s \in Injection(1..N, T)
  BY <1>1 DEF Injection
<1>7. QED
  BY <1>2, <1>4, <1>5, <1>6 DEF N, T

-----------------------------------------------------------------------------
(* Loops.                                                                   *)

\* A turn of a loop that keeps what is in S.
Keep(before, x, S) == IF x \in S THEN Append(before, x) ELSE before

\* The loop of a filter is what its turns make it (mapper.rs).
LEMMA KeptTurns ==
    ASSUME NEW X, NEW s \in Seq(X), NEW S
    PROVE  /\ Len(s) \in Nat /\ DOMAIN s = 1..Len(s)
           /\ Kept(s, S)[0] = <<>>
           /\ \A k \in 1..Len(s) : Kept(s, S)[k] = Keep(Kept(s, S)[k - 1], s[k], S)
           /\ \A k \in 0..Len(s) : Kept(s, S)[k] \in Seq(X)
<1> DEFINE N == Len(s)
           Q == Seq(X)
           a == <<>>
           F == [k \in 1..N |-> [r \in Q |-> Keep(r, s[k], S)]]
           Loop(t) == t = [k \in 0..N |-> IF k = 0 THEN a
                                          ELSE LET before == t[k - 1]
                                               IN  IF s[k] \in S THEN Append(before, s[k])
                                                                 ELSE before]
<1>1. N \in Nat /\ DOMAIN s = 1..N /\ \A k \in 1..N : s[k] \in X
  OBVIOUS
<1>2. a \in Q
  OBVIOUS
<1>3. \A k \in 1..N : \A r \in Q : Keep(r, s[k], S) \in Q
  BY <1>1 DEF Keep
<1> HIDE DEF Q
<1>4. PICK r \in [0..N -> Q] : r[0] = a /\ \A k \in 1..N : r[k] = F[k][r[k - 1]]
  <2>1. F \in [1..N -> [Q -> Q]] /\ N \in Nat
    BY <1>1, <1>3
  <2>2. ASSUME NEW M \in Nat, NEW G \in [1..M -> [Q -> Q]], NEW x \in Q
        PROVE  \E r \in [0..M -> Q] : r[0] = x /\ \A k \in 1..M : r[k] = G[k][r[k - 1]]
    BY LoopExists
  <2> HIDE DEF N, F, a
  <2>3. QED
    BY <1>2, <2>1, <2>2
<1>5. \A k \in 1..N : r[k] = Keep(r[k - 1], s[k], S)
  <2>1. \A k \in 1..N : r[k - 1] \in Q
    BY <1>1, <1>4
  <2>2. QED
    BY <1>4, <2>1
<1>6. Loop(r)
  <2> HIDE DEF a
  <2>1. \A k \in 0..N : r[k] = IF k = 0 THEN a ELSE Keep(r[k - 1], s[k], S)
    BY <1>1, <1>4, <1>5
  <2> HIDE DEF N
  <2>2. QED
    BY <1>4, <2>1 DEF Keep
<1>7. Loop(Kept(s, S))
  BY <1>6 DEF Kept
<1> HIDE DEF F
<1>8. ASSUME NEW t, Loop(t)
      PROVE  t[0] = a /\ \A k \in 1..N : t[k] = Keep(t[k - 1], s[k], S)
  <2> HIDE DEF a
  <2>1. t[0] = a
    BY <1>1, <1>8
  <2>2. ASSUME NEW k \in 1..N PROVE t[k] = Keep(t[k - 1], s[k], S)
    <3>1. k \in 0..N /\ k # 0
      BY <1>1
    <3> HIDE DEF N
    <3>2. QED
      BY <1>8, <3>1 DEF Keep
  <2>3. QED
    BY <2>1, <2>2
<1>9. /\ Kept(s, S)[0] = a
      /\ \A k \in 1..N : Kept(s, S)[k] = Keep(Kept(s, S)[k - 1], s[k], S)
  <2> HIDE DEF Loop, a
  <2>1. QED
    BY <1>7, <1>8
<1>10. \A k \in 0..N : Kept(s, S)[k] \in Q
  <2> HIDE DEF N, a
  <2>1. \A k \in 1..N : Kept(s, S)[k - 1] \in Q => Kept(s, S)[k] \in Q
    BY <1>3, <1>9
  <2>2. QED
    BY <1>1, <1>2, <1>9, <2>1, Throughout
<1> QED
  BY <1>1, <1>9, <1>10 DEF Q

LEMMA KeptElements ==
    ASSUME NEW X, NEW s \in Seq(X), NEW S
    PROVE  \A k \in 0..Len(s) :
              /\ Kept(s, S)[k] \in Seq(X)
              /\ Range(Kept(s, S)[k]) = {s[j] : j \in 1..k} \cap S
              /\ IsInjective(s) => IsInjective(Kept(s, S)[k])
<1> DEFINE N == Len(s)
           K == Kept(s, S)
           Right(q, k) == /\ Range(q) = {s[j] : j \in 1..k} \cap S
                          /\ IsInjective(s) => IsInjective(q)
           G == {k \in 0..N : Right(K[k], k)}
<1>1. /\ N \in Nat /\ DOMAIN s = 1..N /\ K[0] = <<>>
      /\ \A k \in 1..N : K[k] = Keep(K[k - 1], s[k], S)
      /\ \A k \in 0..N : K[k] \in Seq(X)
      /\ \A k \in 1..N : s[k] \in X
  BY KeptTurns
<1> HIDE DEF N, K
<1>2. 0 \in G
  BY <1>1 DEF Range, IsInjective
<1>3. ASSUME NEW k \in 1..N, k - 1 \in G PROVE k \in G
  <2>1. k - 1 \in 0..N /\ k \in 0..N /\ (1..k) = (1..(k - 1)) \cup {k}
    BY <1>1
  <2>2. PICK q : q = K[k - 1]
    OBVIOUS
  <2>3. q \in Seq(X) /\ Right(q, k - 1) /\ s[k] \in X
    BY <1>1, <1>3, <2>1, <2>2
  <2>4. {s[j] : j \in 1..k} = {s[j] : j \in 1..(k - 1)} \cup {s[k]}
    BY <2>1
  <2>5. K[k] = Keep(q, s[k], S)
    BY <1>1, <2>2
  <2>6. CASE s[k] \in S
    <3>1. /\ Range(Append(q, s[k])) = Range(q) \cup {s[k]}
          /\ IsInjective(q) /\ s[k] \notin Range(q) => IsInjective(Append(q, s[k]))
      BY <2>3, AppendFacts
    <3>2. K[k] = Append(q, s[k])
      BY <2>5, <2>6 DEF Keep
    <3>3. IsInjective(s) => s[k] \notin Range(q)
      <4>1. ASSUME NEW j \in 1..(k - 1) PROVE j \in DOMAIN s /\ k \in DOMAIN s /\ j # k
        BY <1>1, <2>1
      <4>2. IsInjective(s) => \A j \in 1..(k - 1) : s[j] # s[k]
        BY <4>1 DEF IsInjective
      <4>3. QED
        BY <2>3, <4>2
    <3>4. Range(K[k]) = {s[j] : j \in 1..k} \cap S
      BY <2>3, <2>4, <2>6, <3>1, <3>2
    <3>5. IsInjective(s) => IsInjective(K[k])
      BY <2>3, <3>1, <3>2, <3>3
    <3>6. QED
      BY <2>1, <3>4, <3>5
  <2>7. CASE s[k] \notin S
    <3>1. K[k] = q
      BY <2>5, <2>7 DEF Keep
    <3>2. QED
      BY <2>1, <2>3, <2>4, <2>7, <3>1
  <2>8. QED
    BY <2>6, <2>7
<1> HIDE DEF G
<1>4. 0..N \subseteq G
  BY <1>1, <1>2, <1>3, Turnwise
<1>5. QED
  BY <1>1, <1>4 DEF G, N, K

\* What is kept of a sequence is what is asked for, in its order.
LEMMA OnlyFacts ==
    ASSUME NEW s, IsSeq(s), NEW S
    PROVE  /\ IsSeq(Only(s, S)) /\ Range(Only(s, S)) = Range(s) \cap S
           /\ IsInjective(s) => IsInjective(Only(s, S))
<1> DEFINE X == Range(s)
<1>1. s \in Seq(X) /\ Len(s) \in 0..Len(s) /\ DOMAIN s = 1..Len(s)
  BY SeqFacts DEF IsSeq
<1>2. X = {s[j] : j \in 1..Len(s)}
  BY <1>1 DEF Range
<1> HIDE DEF X
<1>3. /\ Only(s, S) \in Seq(X)
      /\ Range(Only(s, S)) = {s[j] : j \in 1..Len(s)} \cap S
      /\ IsInjective(s) => IsInjective(Only(s, S))
  BY <1>1, KeptElements DEF Only
<1>4. IsSeq(Only(s, S))
  BY <1>3, SeqIsSeq
<1>5. QED
  BY <1>2, <1>3, <1>4 DEF X

\* The names of a set, in the order of a BTreeMap.
LEMMA SortedFacts ==
    ASSUME NEW D \in SUBSET Name
    PROVE  /\ IsSeq(Sorted(D)) /\ Range(Sorted(D)) = D /\ IsInjective(Sorted(D))
           /\ Len(Sorted(D)) = Cardinality(D) /\ IsFiniteSet(D)
<1>1. IsSeq(NameOrder) /\ IsInjective(NameOrder) /\ Range(NameOrder) = Name
  BY NameAssumption DEF IsSeq, Name
<1>2. /\ IsSeq(Sorted(D)) /\ Range(Sorted(D)) = Name \cap D
      /\ IsInjective(Sorted(D))
  BY <1>1, OnlyFacts DEF Sorted
<1>3. Name \cap D = D
  OBVIOUS
<1>4. QED
  BY <1>2, <1>3, InjectiveLength

\* The loop that leaves out what has come before is what its turns make it (mapper.rs).
LEMMA UnitingTurns ==
    ASSUME NEW X, NEW seq \in Seq(X)
    PROVE  /\ Len(seq) \in Nat /\ Uniting(seq)[0] = <<>>
           /\ \A k \in 1..Len(seq) : Uniting(seq)[k] = AppendNew(Uniting(seq)[k - 1], seq[k])
           /\ \A k \in 0..Len(seq) : Uniting(seq)[k] \in Seq(X)
<1> DEFINE N == Len(seq)
           Q == Seq(X)
           a == <<>>
           F == [k \in 1..N |-> [r \in Q |-> AppendNew(r, seq[k])]]
           Loop(t) == t = [k \in 0..N |-> IF k = 0 THEN a
                                          ELSE AppendNew(t[k - 1], seq[k])]
<1>1. N \in Nat
  OBVIOUS
<1>2. a \in Q
  OBVIOUS
<1>3. \A k \in 1..N : \A r \in Q : AppendNew(r, seq[k]) \in Q
  <2>1. \A k \in 1..N : seq[k] \in X
    OBVIOUS
  <2> HIDE DEF N
  <2>2. QED
    BY <2>1 DEF AppendNew
<1> HIDE DEF Q
<1>4. PICK r \in [0..N -> Q] : r[0] = a /\ \A k \in 1..N : r[k] = F[k][r[k - 1]]
  <2>1. F \in [1..N -> [Q -> Q]] /\ N \in Nat
    BY <1>1, <1>3
  <2>2. ASSUME NEW M \in Nat, NEW G \in [1..M -> [Q -> Q]], NEW x \in Q
        PROVE  \E r \in [0..M -> Q] : r[0] = x /\ \A k \in 1..M : r[k] = G[k][r[k - 1]]
    BY LoopExists
  <2> HIDE DEF N, F, a
  <2>3. QED
    BY <1>2, <2>1, <2>2
<1> HIDE DEF N, a
<1>5. \A k \in 1..N : r[k] = AppendNew(r[k - 1], seq[k])
  <2>1. \A k \in 1..N : r[k - 1] \in Q
    BY <1>1, <1>4
  <2>2. QED
    BY <1>4, <2>1
<1>6. Loop(r)
  <2>1. \A k \in 0..N : r[k] = IF k = 0 THEN a ELSE AppendNew(r[k - 1], seq[k])
    BY <1>1, <1>4, <1>5
  <2>2. QED
    BY <1>4, <2>1
<1>7. Loop(Uniting(seq))
  BY <1>6 DEF Uniting, N, a
<1> HIDE DEF F
<1>8. ASSUME NEW t, Loop(t)
      PROVE  t[0] = a /\ \A k \in 1..N : t[k] = AppendNew(t[k - 1], seq[k])
  <2>1. t[0] = a
    BY <1>1, <1>8
  <2>2. ASSUME NEW k \in 1..N PROVE t[k] = AppendNew(t[k - 1], seq[k])
    <3>1. k \in 0..N /\ k # 0
      BY <1>1
    <3>2. QED
      BY <1>8, <3>1
  <2>3. QED
    BY <2>1, <2>2
<1> HIDE DEF Loop
<1>9. /\ Uniting(seq)[0] = a
      /\ \A k \in 1..N : Uniting(seq)[k] = AppendNew(Uniting(seq)[k - 1], seq[k])
  BY <1>7, <1>8
<1>10. \A k \in 0..N : Uniting(seq)[k] \in Q
  <2>1. \A k \in 1..N : Uniting(seq)[k - 1] \in Q => Uniting(seq)[k] \in Q
    BY <1>3, <1>9
  <2>2. QED
    BY <1>1, <1>2, <1>9, <2>1, Throughout
<1> QED
  BY <1>1, <1>9, <1>10 DEF Q, N, a

\* It leaves out nothing else, and has nothing twice.
LEMMA DistinctFacts ==
    ASSUME NEW s, IsSeq(s)
    PROVE  IsSeq(Distinct(s)) /\ Range(Distinct(s)) = Range(s) /\ IsInjective(Distinct(s))
<1> DEFINE X == Range(s)
           N == Len(s)
           U == Uniting(s)
           Right(q, k) == Range(q) = {s[j] : j \in 1..k} /\ IsInjective(q)
           G == {k \in 0..N : Right(U[k], k)}
<1>1. s \in Seq(X) /\ DOMAIN s = 1..N /\ N \in 0..N
  BY SeqFacts DEF IsSeq
<1>2. X = {s[j] : j \in 1..N}
  BY <1>1 DEF Range
<1> HIDE DEF X
<1>3. /\ N \in Nat /\ U[0] = <<>>
      /\ \A k \in 1..N : U[k] = AppendNew(U[k - 1], s[k])
      /\ \A k \in 0..N : U[k] \in Seq(X)
  BY <1>1, UnitingTurns
<1>4. \A k \in 1..N : s[k] \in X
  BY <1>2
<1> HIDE DEF N, U
<1>5. 0 \in G
  BY <1>3 DEF Range, IsInjective
<1>6. ASSUME NEW k \in 1..N, k - 1 \in G PROVE k \in G
  <2>1. k - 1 \in 0..N /\ k \in 0..N /\ (1..k) = (1..(k - 1)) \cup {k}
    BY <1>3
  <2>2. PICK q : q = U[k - 1]
    OBVIOUS
  <2>3. q \in Seq(X) /\ Right(q, k - 1) /\ s[k] \in X
    BY <1>3, <1>4, <1>6, <2>1, <2>2
  <2>4. {s[j] : j \in 1..k} = {s[j] : j \in 1..(k - 1)} \cup {s[k]}
    BY <2>1
  <2>5. U[k] = AppendNew(q, s[k])
    BY <1>3, <2>2
  <2>6. Contains(q, s[k]) <=> s[k] \in Range(q)
    <3>1. DOMAIN q = 1..Len(q)
      BY <2>3
    <3>2. QED
      BY <3>1 DEF Contains, Range
  <2>7. CASE s[k] \notin Range(q)
    <3>1. /\ Range(Append(q, s[k])) = Range(q) \cup {s[k]}
          /\ IsInjective(Append(q, s[k]))
      BY <2>3, <2>7, AppendFacts
    <3>2. U[k] = Append(q, s[k])
      BY <2>5, <2>6, <2>7 DEF AppendNew
    <3>3. QED
      BY <2>1, <2>3, <2>4, <3>1, <3>2
  <2>8. CASE s[k] \in Range(q)
    <3>1. U[k] = q
      BY <2>5, <2>6, <2>8 DEF AppendNew
    <3>2. QED
      BY <2>1, <2>3, <2>4, <2>8, <3>1
  <2>9. QED
    BY <2>7, <2>8
<1> HIDE DEF G
<1>7. 0..N \subseteq G
  BY <1>3, <1>5, <1>6, Turnwise
<1>8. U[N] \in Seq(X) /\ Right(U[N], N)
  BY <1>1, <1>3, <1>7 DEF G
<1>9. IsSeq(U[N])
  BY <1>8, SeqIsSeq
<1>10. QED
  BY <1>2, <1>8, <1>9 DEF Distinct, U, N, X

-----------------------------------------------------------------------------
(* Entries by name.                                                         *)

\* Of the entries of a name there is a last one.
LEMMA LastNamedFacts ==
    ASSUME NEW seq, IsSeq(seq), NEW n \in NamesOf(seq)
    PROVE  LET k == LastNamed(seq, n)
           IN  /\ k \in DOMAIN seq /\ seq[k].name = n
               /\ \A j \in (k + 1)..Len(seq) : seq[j].name # n
<1> DEFINE N == Len(seq)
           Named == {j \in DOMAIN seq : seq[j].name = n}
           T == {N - j : j \in Named}
<1>1. N \in Nat /\ DOMAIN seq = 1..N
  BY SeqFacts
<1>2. Named # {}
  BY DEF NamesOf, Range
<1> HIDE DEF N
<1>3. T \subseteq Nat /\ T # {}
  BY <1>1, <1>2
<1> HIDE DEF T
<1>4. PICK x \in T : \A y \in T : ~(<<y, x>> \in OpToRel(<, Nat))
  BY <1>3, NatLessThanWellFounded, WFMin
<1>5. \A y \in T : ~(y < x)
  BY <1>3, <1>4 DEF OpToRel
<1>6. PICK k \in Named : x = N - k
  BY DEF T
<1>7. \A j \in Named : ~(N - j < N - k)
  BY <1>5, <1>6 DEF T
<1>8. ASSUME NEW j \in (k + 1)..N PROVE seq[j].name # n
  <2>1. k \in 1..N
    BY <1>1
  <2>2. j \in 1..N /\ N - j < N - k
    BY <1>1, <2>1
  <2>3. QED
    BY <1>1, <1>7, <2>2
<1>9. \E i \in DOMAIN seq : seq[i].name = n /\ \A j \in (i + 1)..Len(seq) : seq[j].name # n
  BY <1>8 DEF N
<1>10. QED
  BY <1>9 DEF LastNamed

\* Each name has an entry of that name, and if there is only one, has that.
LEMMA ByNameFacts ==
    ASSUME NEW seq, IsSeq(seq)
    PROVE  /\ DOMAIN ByName(seq) = NamesOf(seq)
           /\ \A n \in NamesOf(seq) :
                 ByName(seq)[n] \in Range(seq) /\ ByName(seq)[n].name = n
           /\ \A x \in Range(seq) :
                 x.name \in NamesOf(seq)
                 /\ ((\A y \in Range(seq) : y.name = x.name => y = x) => ByName(seq)[x.name] = x)
<1>1. DOMAIN ByName(seq) = NamesOf(seq)
  BY DEF ByName
<1>2. ASSUME NEW n \in NamesOf(seq)
      PROVE  ByName(seq)[n] \in Range(seq) /\ ByName(seq)[n].name = n
  <2>1. ByName(seq)[n] = seq[LastNamed(seq, n)]
    BY DEF ByName
  <2>2. LastNamed(seq, n) \in DOMAIN seq /\ seq[LastNamed(seq, n)].name = n
    BY LastNamedFacts
  <2>3. QED
    BY <2>1, <2>2 DEF Range
<1>3. ASSUME NEW x \in Range(seq) PROVE x.name \in NamesOf(seq)
  BY DEF NamesOf
<1>4. QED
  BY <1>1, <1>2, <1>3

\* A name that the second sequence has is that of one of its entries.
LEMMA ByNameOfConcat ==
    ASSUME NEW a, NEW b, IsSeq(a), IsSeq(b), NEW n \in NamesOf(b)
    PROVE  n \in NamesOf(a \o b) /\ ByName(a \o b)[n] \in Range(b)
<1> DEFINE c == a \o b
           k == LastNamed(c, n)
<1>1. /\ IsSeq(c) /\ Range(c) = Range(a) \cup Range(b) /\ Len(c) = Len(a) + Len(b)
      /\ \A i \in 1..(Len(a) + Len(b)) : c[i] = IF i <= Len(a) THEN a[i] ELSE b[i - Len(a)]
  BY ConcatFacts
<1>2. /\ Len(a) \in Nat /\ DOMAIN a = 1..Len(a)
      /\ Len(b) \in Nat /\ DOMAIN b = 1..Len(b)
      /\ DOMAIN c = 1..Len(c)
  BY <1>1, SeqFacts
<1> HIDE DEF c
<1>3. n \in NamesOf(c)
  BY <1>1 DEF NamesOf
<1>4. k \in DOMAIN c /\ c[k].name = n /\ \A j \in (k + 1)..Len(c) : c[j].name # n
  BY <1>1, <1>3, LastNamedFacts
<1>5. PICK i \in DOMAIN b : b[i].name = n
  BY DEF NamesOf, Range
<1> HIDE DEF k
<1>6. Len(a) + i \in 1..Len(c) /\ c[Len(a) + i] = b[i]
  <2>1. Len(a) + i \in 1..(Len(a) + Len(b)) /\ ~(Len(a) + i <= Len(a)) /\ (Len(a) + i) - Len(a) = i
    BY <1>2
  <2>2. QED
    BY <1>1, <2>1
<1>7. Len(a) + i <= k
  BY <1>2, <1>4, <1>5, <1>6
<1>8. k \in 1..(Len(a) + Len(b)) /\ ~(k <= Len(a)) /\ k - Len(a) \in DOMAIN b
  BY <1>1, <1>2, <1>4, <1>7
<1>9. c[k] \in Range(b)
  BY <1>1, <1>8 DEF Range
<1>10. ByName(c)[n] = c[k]
  BY <1>3 DEF ByName, k
<1>11. QED
  BY <1>3, <1>9, <1>10 DEF c

NamedOnce(seq) == \A j, k \in DOMAIN seq : seq[j].name = seq[k].name => j = k

\* merge_seed keeps one entry of each name, the seed's if it has one (mapper.rs:469).
LEMMA OverlayFacts ==
    ASSUME NEW a, NEW b, IsSeq(a), IsSeq(b)
    PROVE  LET o == Overlay(a, b)
           IN  /\ IsSeq(o) /\ NamedOnce(o) /\ NamesOf(o) = NamesOf(a) \cup NamesOf(b)
               /\ \A x \in Range(o) : x \in Range(b) \/ (x \in Range(a) /\ x.name \notin NamesOf(b))
<1> DEFINE all == a \o b
           list == [k \in DOMAIN all |-> all[k].name]
           names == Distinct(list)
           o == Overlay(a, b)
<1>1. IsSeq(all) /\ Range(all) = Range(a) \cup Range(b)
  BY ConcatFacts
<1>2. Len(all) \in Nat /\ DOMAIN all = 1..Len(all)
  BY <1>1, SeqFacts
<1> HIDE DEF all
<1>3. IsSeq(list) /\ Range(list) = NamesOf(all)
  <2>1. DOMAIN list = 1..Len(all) /\ list = [k \in DOMAIN list |-> list[k]]
    BY <1>2
  <2>2. Range(list) = NamesOf(all)
    BY DEF Range, NamesOf
  <2> HIDE DEF list
  <2>3. QED
    BY <1>2, <2>1, <2>2, TableIsSeq
<1> HIDE DEF list
<1>4. IsSeq(names) /\ Range(names) = NamesOf(all) /\ IsInjective(names)
  BY <1>3, DistinctFacts
<1>5. Len(names) \in Nat /\ DOMAIN names = 1..Len(names)
  BY <1>4, SeqFacts
<1>6. o = [k \in DOMAIN names |-> ByName(all)[names[k]]]
  BY DEF Overlay, list, all
<1> HIDE DEF o, names
<1>7. IsSeq(o)
  <2>1. DOMAIN o = 1..Len(names) /\ o = [k \in DOMAIN o |-> o[k]]
    BY <1>5, <1>6
  <2>2. QED
    BY <1>5, <2>1, TableIsSeq
<1>8. \A k \in DOMAIN names : names[k] \in NamesOf(all)
  BY <1>4 DEF Range
<1>9. /\ DOMAIN ByName(all) = NamesOf(all)
      /\ \A n \in NamesOf(all) : ByName(all)[n] \in Range(all) /\ ByName(all)[n].name = n
  BY <1>1, ByNameFacts
<1>10. DOMAIN o = DOMAIN names /\ \A k \in DOMAIN o : o[k].name = names[k] /\ o[k] \in Range(all)
  BY <1>6, <1>8, <1>9
<1>11. NamedOnce(o)
  BY <1>4, <1>10 DEF NamedOnce, IsInjective
<1>12. NamesOf(o) = NamesOf(a) \cup NamesOf(b)
  <2>1. NamesOf(o) = Range(names)
    BY <1>10 DEF NamesOf, Range
  <2>2. NamesOf(all) = NamesOf(a) \cup NamesOf(b)
    BY <1>1 DEF NamesOf
  <2>3. QED
    BY <1>4, <2>1, <2>2
<1>13. ASSUME NEW x \in Range(o)
       PROVE  x \in Range(b) \/ (x \in Range(a) /\ x.name \notin NamesOf(b))
  <2>1. PICK k \in DOMAIN o : x = o[k]
    BY DEF Range
  <2>2. x = ByName(all)[x.name] /\ x \in Range(all)
    BY <1>6, <1>10, <2>1
  <2>3. x.name \in NamesOf(b) => x \in Range(b)
    BY <2>2, ByNameOfConcat DEF all
  <2>4. QED
    BY <1>1, <2>2, <2>3
<1>14. QED
  BY <1>7, <1>11, <1>12, <1>13 DEF o

\* Where each name is held once, the registry has as many names as there are entries,
\* of each branch as well (registry.rs from_manifest).
LEMMA NamedOnceCount ==
    ASSUME NEW seq, IsSeq(seq), NamedOnce(seq)
    PROVE  /\ Cardinality(DOMAIN ByName(seq)) = Len(seq)
           /\ \A branch : Cardinality({n \in DOMAIN ByName(seq) : ByName(seq)[n].branch = branch})
                             = CountOf(seq, branch)
<1> DEFINE N == Len(seq)
<1>1. N \in Nat /\ DOMAIN seq = 1..N
  BY SeqFacts
<1>2. IsFiniteSet(DOMAIN seq) /\ Cardinality(DOMAIN seq) = N
  <2>1. IsFiniteSet(1..N) /\ Cardinality(1..N) = N
    <3> HIDE DEF N
    <3>1. QED
      BY <1>1, FS_Interval
  <2>2. QED
    BY <1>1, <2>1
<1>3. /\ DOMAIN ByName(seq) = NamesOf(seq)
      /\ \A k \in DOMAIN seq : seq[k].name \in NamesOf(seq) /\ ByName(seq)[seq[k].name] = seq[k]
  <2>1. \A x, y \in Range(seq) : y.name = x.name => y = x
    BY DEF Range, NamedOnce
  <2>2. \A k \in DOMAIN seq : seq[k] \in Range(seq)
    BY DEF Range
  <2>3. QED
    BY <2>1, <2>2, ByNameFacts
<1>4. ASSUME NEW D \in SUBSET DOMAIN seq
      PROVE  Cardinality({seq[k].name : k \in D}) = Cardinality(D)
  <2> DEFINE T == {seq[k].name : k \in D}
             f == [k \in D |-> seq[k].name]
  <2>1. IsFiniteSet(D)
    BY <1>2, FS_Subset
  <2>2. f \in Bijection(D, T)
    BY DEF Bijection, Injection, Surjection, IsInjective, NamedOnce
  <2> HIDE DEF f, T
  <2>3. ExistsBijection(D, T)
    BY <2>2 DEF ExistsBijection
  <2>4. QED
    BY <2>1, <2>3, FS_Bijection DEF T
<1>5. NamesOf(seq) = {seq[k].name : k \in DOMAIN seq}
  BY DEF NamesOf, Range
<1>6. ASSUME NEW branch
      PROVE  Cardinality({n \in DOMAIN ByName(seq) : ByName(seq)[n].branch = branch})
                = CountOf(seq, branch)
  <2> DEFINE D == {k \in DOMAIN seq : seq[k].branch = branch}
  <2>1. {n \in DOMAIN ByName(seq) : ByName(seq)[n].branch = branch} = {seq[k].name : k \in D}
    BY <1>3, <1>5
  <2>2. Cardinality({seq[k].name : k \in D}) = Cardinality(D)
    BY <1>4
  <2>3. QED
    BY <2>1, <2>2 DEF CountOf
<1>7. QED
  BY <1>2, <1>3, <1>4, <1>5, <1>6

-----------------------------------------------------------------------------
(* The parser (owl.rs:180).                                                 *)

MaybeName == Name \cup {NoName}

ClassRecord == [parents : Seq(Name), enumeration : BOOLEAN]

PropertyRecord ==
    [kind : {"object", "data"}, domain : MaybeName, range : MaybeName,
     parents : Seq(Name), inverse : MaybeName]

Maps(V) == UNION {[D -> V] : D \in SUBSET Name}

Owl == [classes : Maps(ClassRecord), properties : Maps(PropertyRecord),
        enumerations : Maps(Seq(Name))]

\* The class, property and owner that the parser is at are in the model.
ParserState ==
    {p \in [owl : Owl, class : MaybeName, property : MaybeName, domain : MaybeName,
            range : MaybeName, in_one_of : BOOLEAN, owner : MaybeName, values : Seq(Name)] :
        /\ p.class # NoName => p.class \in DOMAIN p.owl.classes
        /\ p.owner # NoName => p.owner \in DOMAIN p.owl.classes
        /\ p.property # NoName => p.property \in DOMAIN p.owl.properties}

Tag == {"Class", "Thing", "ObjectProperty", "DatatypeProperty", "subClassOf",
        "subPropertyOf", "inverseOf", "domain", "range", "oneOf"}

XmlEvent == [at : {"start", "empty", "end"}, tag : Tag, ref : MaybeName]

LEMMA NoNameIsNone == NoName \notin Name
  BY NameAssumption DEF Name

LEMMA MapFacts ==
    ASSUME NEW V, NEW m
    PROVE  m \in Maps(V) <=> DOMAIN m \in SUBSET Name /\ m \in [DOMAIN m -> V]
  BY DEF Maps

LEMMA PutFacts ==
    ASSUME NEW m, NEW n, NEW v
    PROVE  /\ DOMAIN Put(m, n, v) = DOMAIN m \cup {n} /\ Put(m, n, v)[n] = v
           /\ \A x \in DOMAIN m : x # n => Put(m, n, v)[x] = m[x]
           /\ DOMAIN OrInsert(m, n, v) = DOMAIN m \cup {n}
  BY DEF Put, OrInsert

LEMMA MapPut ==
    ASSUME NEW V, NEW m \in Maps(V), NEW n \in Name, NEW v \in V
    PROVE  Put(m, n, v) \in Maps(V) /\ OrInsert(m, n, v) \in Maps(V)
<1> DEFINE w == Put(m, n, v)
<1>1. DOMAIN m \in SUBSET Name /\ m \in [DOMAIN m -> V]
  BY MapFacts
<1>2. w \in [DOMAIN m \cup {n} -> V] /\ DOMAIN w = DOMAIN m \cup {n}
  BY <1>1 DEF Put
<1> HIDE DEF w
<1>3. w \in Maps(V)
  BY <1>1, <1>2, MapFacts
<1>4. QED
  BY <1>3 DEF OrInsert, w

LEMMA MapExcept ==
    ASSUME NEW V, NEW m \in Maps(V), NEW n \in DOMAIN m, NEW v \in V
    PROVE  [m EXCEPT ![n] = v] \in Maps(V)
  BY MapFacts

LEMMA AppendNewType ==
    ASSUME NEW s \in Seq(Name), NEW x \in Name
    PROVE  /\ AppendNew(s, x) \in Seq(Name)
           /\ Range(AppendNew(s, x)) \subseteq Range(s) \cup {x}
<1>1. Append(s, x) \in Seq(Name) /\ Range(Append(s, x)) = Range(s) \cup {x}
  BY AppendFacts
<1>2. QED
  BY <1>1 DEF AppendNew

\* The same, part by part.
HasParts(p) ==
    /\ p = [owl |-> p.owl, class |-> p.class, property |-> p.property,
            domain |-> p.domain, range |-> p.range, in_one_of |-> p.in_one_of,
            owner |-> p.owner, values |-> p.values]
    /\ p.owl = [classes |-> p.owl.classes, properties |-> p.owl.properties,
                enumerations |-> p.owl.enumerations]

PartsTyped(p) ==
    /\ p.owl.classes \in Maps(ClassRecord) /\ p.owl.properties \in Maps(PropertyRecord)
    /\ p.owl.enumerations \in Maps(Seq(Name))
    /\ p.class \in MaybeName /\ p.property \in MaybeName
    /\ p.domain \in MaybeName /\ p.range \in MaybeName
    /\ p.in_one_of \in BOOLEAN /\ p.owner \in MaybeName /\ p.values \in Seq(Name)
    /\ p.class # NoName => p.class \in DOMAIN p.owl.classes
    /\ p.owner # NoName => p.owner \in DOMAIN p.owl.classes
    /\ p.property # NoName => p.property \in DOMAIN p.owl.properties

LEMMA ParserStateParts ==
    ASSUME NEW p
    PROVE  p \in ParserState <=> HasParts(p) /\ PartsTyped(p)
<1>1. ASSUME p \in ParserState PROVE HasParts(p) /\ PartsTyped(p)
  BY <1>1 DEF ParserState, Owl, HasParts, PartsTyped
<1>2. ASSUME HasParts(p), PartsTyped(p) PROVE p \in ParserState
  <2>1. p.owl \in Owl
    BY <1>2 DEF HasParts, PartsTyped, Owl
  <2>2. QED
    BY <1>2, <2>1 DEF HasParts, PartsTyped, ParserState
<1>3. QED
  BY <1>1, <1>2

\* What is about classes leaves the properties alone.
LeavesProperties(p, s) ==
    /\ s.owl.properties = p.owl.properties
    /\ s.domain = p.domain /\ s.range = p.range

LEMMA OpenClassFields ==
    ASSUME NEW p \in ParserState, NEW e \in XmlEvent
    PROVE  LET s == OpenClass(p, e)
           IN  /\ s \in ParserState /\ LeavesProperties(p, s)
               /\ s.in_one_of = p.in_one_of
               /\ s.property = IF e.at = "start" /\ e.ref # NoName /\ ~p.in_one_of
                               THEN NoName ELSE p.property
<1>0. HasParts(p) /\ PartsTyped(p)
  BY ParserStateParts
<1> DEFINE s == OpenClass(p, e)
<1>1. CASE e.ref = NoName
  BY <1>1 DEF OpenClass, LeavesProperties
<1>2. CASE e.ref # NoName /\ p.in_one_of
  <2> DEFINE v == Append(p.values, e.ref)
  <2>1. e.ref \in Name /\ v \in Seq(Name)
    BY <1>2, <1>0 DEF PartsTyped, XmlEvent, MaybeName
  <2>2. s = [p EXCEPT !.values = v]
    BY <1>2 DEF OpenClass
  <2> HIDE DEF v, s
  <2>3. s = [owl |-> [classes |-> p.owl.classes, properties |-> p.owl.properties,
                      enumerations |-> p.owl.enumerations],
             class |-> p.class, property |-> p.property, domain |-> p.domain,
             range |-> p.range, in_one_of |-> p.in_one_of, owner |-> p.owner, values |-> v]
    BY <2>2, <1>0 DEF HasParts, PartsTyped
  <2>4. s \in ParserState
    BY <2>1, <2>3, <1>0, ParserStateParts DEF HasParts, PartsTyped
  <2>5. QED
    BY <1>2, <2>3, <2>4 DEF LeavesProperties, s
<1>3. CASE e.ref # NoName /\ ~p.in_one_of
  <2> DEFINE c == OrInsert(p.owl.classes, e.ref, NewClass)
             q == IF e.at = "start" THEN NoName ELSE p.property
  <2>1. e.ref \in Name /\ NewClass \in ClassRecord
    BY <1>3 DEF XmlEvent, MaybeName, NewClass, ClassRecord
  <2>2. c \in Maps(ClassRecord) /\ DOMAIN c = DOMAIN p.owl.classes \cup {e.ref}
    <3>1. PICK k, n : k = p.owl.classes /\ n = e.ref
      OBVIOUS
    <3>2. k \in Maps(ClassRecord) /\ n \in Name /\ NewClass \in ClassRecord
      BY <1>0, <2>1, <3>1 DEF PartsTyped
    <3>3. OrInsert(k, n, NewClass) \in Maps(ClassRecord)
      BY <3>2, MapPut
    <3>4. DOMAIN OrInsert(k, n, NewClass) = DOMAIN k \cup {n}
      BY PutFacts
    <3>5. QED
      BY <3>1, <3>3, <3>4
  <2>3. s = [p EXCEPT !.class = e.ref, !.property = q, !.owl.classes = c]
    BY <1>3 DEF OpenClass
  <2>4. q \in MaybeName /\ (q # NoName => q \in DOMAIN p.owl.properties)
    BY <1>0 DEF PartsTyped, MaybeName
  <2> HIDE DEF c, q, s
  <2>5. s = [owl |-> [classes |-> c, properties |-> p.owl.properties,
                      enumerations |-> p.owl.enumerations],
             class |-> e.ref, property |-> q, domain |-> p.domain,
             range |-> p.range, in_one_of |-> p.in_one_of, owner |-> p.owner,
             values |-> p.values]
    BY <2>3, <1>0 DEF HasParts, PartsTyped
  <2>6. e.ref \in MaybeName /\ e.ref \in DOMAIN c
        /\ (p.owner # NoName => p.owner \in DOMAIN c)
    BY <2>1, <2>2, <1>0 DEF PartsTyped, MaybeName
  <2>7. s \in ParserState
    BY <2>2, <2>4, <2>5, <2>6, <1>0, ParserStateParts DEF HasParts, PartsTyped
  <2>8. QED
    BY <1>3, <2>5, <2>7 DEF LeavesProperties, s, q
<1>4. QED
  BY <1>1, <1>2, <1>3, <1>0 DEF HasParts, PartsTyped

\* A property starts afresh, with the pending domain and range.
LEMMA OpenPropertyFields ==
    ASSUME NEW p \in ParserState, NEW e \in XmlEvent
    PROVE  LET s == OpenProperty(p, e)
               before == p.owl.properties
               after == s.owl.properties
           IN  /\ s \in ParserState /\ s.in_one_of = p.in_one_of
               /\ e.ref = NoName => s = p
               /\ e.ref # NoName =>
                     /\ s.property = e.ref /\ s.domain = NoName /\ s.range = NoName
                     /\ DOMAIN after = DOMAIN before \cup {e.ref}
                     /\ \A n \in DOMAIN before : n # e.ref => after[n] = before[n]
                     /\ after[e.ref].domain = p.domain /\ after[e.ref].range = p.range
                     /\ after[e.ref].parents = <<>> /\ after[e.ref].inverse = NoName
<1>0. HasParts(p) /\ PartsTyped(p)
  BY ParserStateParts
<1> DEFINE s == OpenProperty(p, e)
<1>1. CASE e.ref = NoName
  BY <1>1 DEF OpenProperty
<1>2. CASE e.ref # NoName
  <2> DEFINE kind == IF e.tag = "ObjectProperty" THEN "object" ELSE "data"
             read == NewProperty(kind, p.domain, p.range)
             m == Put(p.owl.properties, e.ref, read)
  <2>1. /\ read.domain = p.domain /\ read.range = p.range
        /\ read.parents = <<>> /\ read.inverse = NoName /\ e.ref \in Name
    BY <1>2 DEF NewProperty, XmlEvent, MaybeName
  <2>2. read \in PropertyRecord
    <3>1. /\ kind \in {"object", "data"} /\ p.domain \in MaybeName /\ p.range \in MaybeName
          /\ NoName \in MaybeName /\ <<>> \in Seq(Name)
      BY <1>0 DEF PartsTyped, MaybeName
    <3>2. QED
      BY <3>1 DEF NewProperty, PropertyRecord
  <2>3. s = [p EXCEPT !.property = e.ref, !.class = NoName, !.domain = NoName,
                      !.range = NoName, !.owl.properties = m]
    BY <1>2 DEF OpenProperty
  <2> HIDE DEF read
  <2>4. /\ m \in Maps(PropertyRecord) /\ DOMAIN m = DOMAIN p.owl.properties \cup {e.ref}
        /\ m[e.ref] = read
        /\ \A x \in DOMAIN p.owl.properties : x # e.ref => m[x] = p.owl.properties[x]
    <3>1. PICK k, n : k = p.owl.properties /\ n = e.ref
      OBVIOUS
    <3>2. k \in Maps(PropertyRecord) /\ n \in Name
      BY <1>0, <2>1, <3>1 DEF PartsTyped
    <3>3. Put(k, n, read) \in Maps(PropertyRecord)
      BY <2>2, <3>2, MapPut
    <3>4. /\ DOMAIN Put(k, n, read) = DOMAIN k \cup {n} /\ Put(k, n, read)[n] = read
          /\ \A x \in DOMAIN k : x # n => Put(k, n, read)[x] = k[x]
      BY DEF Put
    <3>5. QED
      BY <3>1, <3>3, <3>4
  <2> HIDE DEF m, s
  <2>5. s = [owl |-> [classes |-> p.owl.classes, properties |-> m,
                      enumerations |-> p.owl.enumerations],
             class |-> NoName, property |-> e.ref, domain |-> NoName,
             range |-> NoName, in_one_of |-> p.in_one_of, owner |-> p.owner,
             values |-> p.values]
    BY <2>3, <1>0 DEF HasParts, PartsTyped
  <2>6. e.ref \in MaybeName /\ NoName \in MaybeName /\ e.ref \in DOMAIN m
    BY <2>1, <2>4 DEF MaybeName
  <2>7. s \in ParserState
    BY <2>4, <2>5, <2>6, <1>0, ParserStateParts DEF HasParts, PartsTyped
  <2>8. QED
    BY <1>2, <2>1, <2>4, <2>5, <2>7 DEF s
<1>3. QED
  BY <1>1, <1>2

\* What is said of the property before it goes to that, and with none before it
\* only a domain or range is kept.
LEMMA DescribeFields ==
    ASSUME NEW p \in ParserState, NEW e \in XmlEvent,
           e.tag \in {"subPropertyOf", "inverseOf", "domain", "range"}
    PROVE  LET s == Describe(p, e)
               before == p.owl.properties
               after == s.owl.properties
           IN  /\ s \in ParserState /\ s.in_one_of = p.in_one_of /\ s.property = p.property
               /\ e.ref = NoName => s = p
               /\ p.property = NoName /\ e.tag \notin {"domain", "range"} => s = p
               /\ e.ref # NoName /\ p.property # NoName =>
                     /\ s.domain = p.domain /\ s.range = p.range
                     /\ DOMAIN after = DOMAIN before
                     /\ \A n \in DOMAIN before : n # p.property => after[n] = before[n]
                     /\ after[p.property].domain =
                           IF e.tag = "domain" THEN e.ref ELSE before[p.property].domain
                     /\ after[p.property].range =
                           IF e.tag = "range" THEN e.ref ELSE before[p.property].range
                     /\ after[p.property].inverse =
                           IF e.tag = "inverseOf" THEN e.ref ELSE before[p.property].inverse
                     /\ Range(after[p.property].parents) \subseteq
                           Range(before[p.property].parents)
                              \cup (IF e.tag = "subPropertyOf" THEN {e.ref} ELSE {})
<1>0. HasParts(p) /\ PartsTyped(p)
  BY ParserStateParts
<1> DEFINE s == Describe(p, e)
<1>1. CASE e.ref = NoName
  BY <1>1 DEF Describe
<1>2. CASE e.ref # NoName /\ p.property = NoName
  <2>1. e.ref \in MaybeName
    BY DEF XmlEvent
  <2>2. CASE e.tag = "domain"
    <3>1. s = [p EXCEPT !.domain = e.ref]
      BY <1>2, <2>2 DEF Describe
    <3> HIDE DEF s
    <3>2. s = [owl |-> [classes |-> p.owl.classes, properties |-> p.owl.properties,
                        enumerations |-> p.owl.enumerations],
               class |-> p.class, property |-> p.property, domain |-> e.ref,
               range |-> p.range, in_one_of |-> p.in_one_of, owner |-> p.owner,
               values |-> p.values]
      BY <3>1, <1>0 DEF HasParts, PartsTyped
    <3>3. s \in ParserState
      BY <2>1, <3>2, <1>0, ParserStateParts DEF HasParts, PartsTyped
    <3>4. QED
      BY <1>2, <2>2, <3>2, <3>3 DEF s
  <2>3. CASE e.tag = "range"
    <3>1. s = [p EXCEPT !.range = e.ref]
      BY <1>2, <2>3 DEF Describe
    <3> HIDE DEF s
    <3>2. s = [owl |-> [classes |-> p.owl.classes, properties |-> p.owl.properties,
                        enumerations |-> p.owl.enumerations],
               class |-> p.class, property |-> p.property, domain |-> p.domain,
               range |-> e.ref, in_one_of |-> p.in_one_of, owner |-> p.owner,
               values |-> p.values]
      BY <3>1, <1>0 DEF HasParts, PartsTyped
    <3>3. s \in ParserState
      BY <2>1, <3>2, <1>0, ParserStateParts DEF HasParts, PartsTyped
    <3>4. QED
      BY <1>2, <2>3, <3>2, <3>3 DEF s
  <2>4. CASE e.tag \notin {"domain", "range"}
    BY <1>2, <2>4 DEF Describe
  <2>5. QED
    BY <2>2, <2>3, <2>4
<1>3. CASE e.ref # NoName /\ p.property # NoName
  <2> DEFINE this == p.owl.properties[p.property]
             new == CASE e.tag = "subPropertyOf" -> [this EXCEPT !.parents = AppendNew(@, e.ref)]
                      [] e.tag = "inverseOf" -> [this EXCEPT !.inverse = e.ref]
                      [] e.tag = "domain" -> [this EXCEPT !.domain = e.ref]
                      [] OTHER -> [this EXCEPT !.range = e.ref]
             m == [p.owl.properties EXCEPT ![p.property] = new]
  <2>1. e.ref \in Name /\ e.ref \in MaybeName
    BY <1>3 DEF XmlEvent, MaybeName
  <2>2. this \in PropertyRecord /\ p.property \in DOMAIN p.owl.properties
    BY <1>3, <1>0, MapFacts DEF HasParts, PartsTyped
  <2>3. s = [p EXCEPT !.owl.properties[p.property] = new]
    BY <1>3 DEF Describe
  <2> HIDE DEF s, this
  <2>4. AppendNew(this.parents, e.ref) \in Seq(Name)
        /\ Range(AppendNew(this.parents, e.ref)) \subseteq Range(this.parents) \cup {e.ref}
    <3>1. this.parents \in Seq(Name)
      BY <2>2 DEF PropertyRecord
    <3>2. QED
      BY <2>1, <3>1, AppendNewType
  <2>5. /\ new \in PropertyRecord
        /\ new.domain = IF e.tag = "domain" THEN e.ref ELSE this.domain
        /\ new.range = IF e.tag = "range" THEN e.ref ELSE this.range
        /\ new.inverse = IF e.tag = "inverseOf" THEN e.ref ELSE this.inverse
        /\ new.parents = IF e.tag = "subPropertyOf" THEN AppendNew(this.parents, e.ref)
                                                    ELSE this.parents
    BY <2>1, <2>2, <2>4 DEF PropertyRecord
  <2>6. Range(new.parents) \subseteq
           Range(this.parents) \cup (IF e.tag = "subPropertyOf" THEN {e.ref} ELSE {})
    <3> HIDE DEF new
    <3>1. QED
      BY <2>4, <2>5
  <2> HIDE DEF new
  <2>7. m \in Maps(PropertyRecord)
    BY <2>2, <2>5, <1>0, MapExcept DEF HasParts, PartsTyped
  <2>8. /\ DOMAIN m = DOMAIN p.owl.properties /\ m[p.property] = new
        /\ \A n \in DOMAIN p.owl.properties : n # p.property => m[n] = p.owl.properties[n]
    BY <2>2
  <2>9. s = [p EXCEPT !.owl.properties = m]
    BY <2>3, <1>0 DEF HasParts, PartsTyped
  <2> HIDE DEF m
  <2>10. s = [owl |-> [classes |-> p.owl.classes, properties |-> m,
                       enumerations |-> p.owl.enumerations],
              class |-> p.class, property |-> p.property, domain |-> p.domain,
              range |-> p.range, in_one_of |-> p.in_one_of, owner |-> p.owner,
              values |-> p.values]
    BY <2>9, <1>0 DEF HasParts, PartsTyped
  <2>11. s \in ParserState
    BY <2>7, <2>8, <2>10, <1>0, ParserStateParts DEF HasParts, PartsTyped
  <2>12. s.owl.properties = m /\ s.domain = p.domain /\ s.range = p.range
         /\ s.in_one_of = p.in_one_of /\ s.property = p.property
    BY <2>10
  <2>13. QED
    BY <1>3, <2>5, <2>6, <2>8, <2>11, <2>12 DEF s, this
<1>4. QED
  BY <1>1, <1>2, <1>3, <1>0 DEF HasParts, PartsTyped

\* What else is about classes: their parents, and oneOf, which ends where it ends.
LEMMA AddParentFields ==
    ASSUME NEW p \in ParserState, NEW e \in XmlEvent
    PROVE  LET s == AddParent(p, e)
           IN  /\ s \in ParserState /\ LeavesProperties(p, s)
               /\ s.in_one_of = p.in_one_of /\ s.property = p.property
<1>0. HasParts(p) /\ PartsTyped(p)
  BY ParserStateParts
<1> DEFINE s == AddParent(p, e)
<1>1. CASE p.class = NoName \/ e.ref = NoName
  BY <1>1 DEF AddParent, LeavesProperties
<1>2. CASE p.class # NoName /\ e.ref # NoName
  <2> DEFINE this == p.owl.classes[p.class]
             new == [this EXCEPT !.parents = AppendNew(@, e.ref)]
             m == [p.owl.classes EXCEPT ![p.class] = new]
  <2>1. e.ref \in Name
    BY <1>2 DEF XmlEvent, MaybeName
  <2>2. this \in ClassRecord /\ p.class \in DOMAIN p.owl.classes
    BY <1>0, <1>2, MapFacts DEF PartsTyped
  <2>3. s = [p EXCEPT !.owl.classes[p.class].parents = AppendNew(@, e.ref)]
    BY <1>2 DEF AddParent
  <2> HIDE DEF s
  <2>4. s = [p EXCEPT !.owl.classes = m]
    BY <1>0, <2>3 DEF HasParts
  <2> HIDE DEF this
  <2>5. AppendNew(this.parents, e.ref) \in Seq(Name)
    <3>1. this.parents \in Seq(Name)
      BY <2>2 DEF ClassRecord
    <3>2. QED
      BY <2>1, <3>1, AppendNewType
  <2>6. new \in ClassRecord
    BY <2>2, <2>5 DEF ClassRecord
  <2> HIDE DEF new
  <2>7. m \in Maps(ClassRecord)
    BY <1>0, <2>2, <2>6, MapExcept DEF PartsTyped
  <2>8. DOMAIN m = DOMAIN p.owl.classes
    OBVIOUS
  <2> HIDE DEF m
  <2>9. s = [owl |-> [classes |-> m, properties |-> p.owl.properties,
                      enumerations |-> p.owl.enumerations],
             class |-> p.class, property |-> p.property, domain |-> p.domain, range |-> p.range,
             in_one_of |-> p.in_one_of, owner |-> p.owner, values |-> p.values]
    BY <1>0, <2>4 DEF HasParts
  <2>10. s \in ParserState
    BY <1>0, <2>7, <2>8, <2>9, ParserStateParts DEF HasParts, PartsTyped
  <2>11. QED
    BY <2>9, <2>10 DEF LeavesProperties, s
<1>3. QED
  BY <1>1, <1>2

LEMMA OpenOneOfFields ==
    ASSUME NEW p \in ParserState
    PROVE  LET s == OpenOneOf(p)
           IN  s \in ParserState /\ LeavesProperties(p, s) /\ s.property = p.property
<1>1. NoName \in MaybeName /\ <<>> \in Seq(Name)
  BY DEF MaybeName
<1>2. OpenOneOf(p) \in ParserState
  BY <1>1 DEF OpenOneOf, ParserState
<1>3. QED
  BY <1>2 DEF OpenOneOf, LeavesProperties, ParserState

LEMMA CloseOneOfFields ==
    ASSUME NEW p \in ParserState
    PROVE  LET s == CloseOneOf(p)
           IN  /\ s \in ParserState /\ LeavesProperties(p, s)
               /\ s.property = p.property /\ ~s.in_one_of
<1>0. HasParts(p) /\ PartsTyped(p)
  BY ParserStateParts
<1> DEFINE s == CloseOneOf(p)
           closed == [p EXCEPT !.in_one_of = FALSE, !.values = <<>>, !.owner = NoName]
<1>1. NoName \in MaybeName /\ <<>> \in Seq(Name)
  BY DEF MaybeName
<1>2. /\ closed \in ParserState /\ closed.owl = p.owl /\ LeavesProperties(p, closed)
      /\ closed.property = p.property /\ ~closed.in_one_of /\ closed.owner = NoName
      /\ closed.class = p.class /\ closed.domain = p.domain /\ closed.range = p.range
  BY <1>1 DEF ParserState, LeavesProperties
<1>3. CASE ~p.in_one_of \/ p.owner = NoName \/ p.values = <<>>
  BY <1>2, <1>3 DEF CloseOneOf
<1>4. CASE ~(~p.in_one_of \/ p.owner = NoName \/ p.values = <<>>)
  <2> DEFINE this == p.owl.classes[p.owner]
             new == [this EXCEPT !.enumeration = TRUE]
             c == [p.owl.classes EXCEPT ![p.owner] = new]
             l == Put(p.owl.enumerations, p.owner, p.values)
  <2>1. this \in ClassRecord /\ p.owner \in DOMAIN p.owl.classes /\ p.owner \in Name
    BY <1>0, <1>4, MapFacts DEF PartsTyped, MaybeName
  <2>2. s = [closed EXCEPT !.owl.enumerations = Put(@, p.owner, p.values),
                           !.owl.classes[p.owner].enumeration = TRUE]
    BY <1>4 DEF CloseOneOf
  <2> HIDE DEF s, closed
  <2>3. HasParts(closed) /\ PartsTyped(closed)
    BY <1>2, ParserStateParts
  <2>4. s = [closed EXCEPT !.owl.enumerations = l, !.owl.classes = c]
    BY <1>2, <2>2, <2>3 DEF HasParts
  <2>5. new \in ClassRecord
    BY <2>1 DEF ClassRecord
  <2> HIDE DEF new
  <2>6. c \in Maps(ClassRecord)
    BY <1>0, <2>1, <2>5, MapExcept DEF PartsTyped
  <2>7. DOMAIN c = DOMAIN p.owl.classes
    OBVIOUS
  <2>8. l \in Maps(Seq(Name))
    <3>1. PICK k, n, v : k = p.owl.enumerations /\ n = p.owner /\ v = p.values
      OBVIOUS
    <3>2. k \in Maps(Seq(Name)) /\ n \in Name /\ v \in Seq(Name)
      BY <1>0, <2>1, <3>1 DEF PartsTyped
    <3>3. Put(k, n, v) \in Maps(Seq(Name))
      BY <3>2, MapPut
    <3>4. QED
      BY <3>1, <3>3
  <2> HIDE DEF c, l
  <2>9. s = [owl |-> [classes |-> c, properties |-> closed.owl.properties,
                      enumerations |-> l],
             class |-> closed.class, property |-> closed.property, domain |-> closed.domain,
             range |-> closed.range, in_one_of |-> closed.in_one_of,
             owner |-> closed.owner, values |-> closed.values]
    BY <2>3, <2>4 DEF HasParts
  <2>10. s \in ParserState
    BY <1>2, <2>3, <2>6, <2>7, <2>8, <2>9, ParserStateParts DEF HasParts, PartsTyped
  <2>11. QED
    BY <1>2, <2>9, <2>10 DEF LeavesProperties, s
<1>5. QED
  BY <1>3, <1>4

\* The end of a property gives it the pending domain and range, if there are any.
LEMMA ClosePropertyFields ==
    ASSUME NEW p \in ParserState
    PROVE  LET s == CloseProperty(p)
           IN  /\ s \in ParserState /\ s.in_one_of = p.in_one_of
               /\ p.property = NoName => s = p
               /\ p.property # NoName /\ p.domain = NoName /\ p.range = NoName =>
                     LeavesProperties(p, s)
<1>0. HasParts(p) /\ PartsTyped(p)
  BY ParserStateParts
<1> DEFINE s == CloseProperty(p)
<1>1. CASE p.property = NoName
  BY <1>1 DEF CloseProperty
<1>2. CASE p.property # NoName
  <2> DEFINE this == p.owl.properties[p.property]
             new == [this EXCEPT !.domain = IfNone(@, p.domain), !.range = IfNone(@, p.range)]
             m == [p.owl.properties EXCEPT ![p.property] = new]
             d == IF this.domain = NoName THEN NoName ELSE p.domain
             r == IF this.range = NoName THEN NoName ELSE p.range
  <2>1. this \in PropertyRecord /\ p.property \in DOMAIN p.owl.properties
    BY <1>0, <1>2, MapFacts DEF PartsTyped
  <2>2. s = [p EXCEPT !.property = NoName, !.domain = d, !.range = r,
                      !.owl.properties[p.property] = new]
    BY <1>2 DEF CloseProperty
  <2> HIDE DEF s
  <2>3. s = [p EXCEPT !.property = NoName, !.domain = d, !.range = r, !.owl.properties = m]
    BY <1>0, <2>2 DEF HasParts
  <2>4. d \in MaybeName /\ r \in MaybeName /\ NoName \in MaybeName
    BY <1>0 DEF PartsTyped, MaybeName
  <2>5. p.domain = NoName => d = NoName
    OBVIOUS
  <2>6. p.range = NoName => r = NoName
    OBVIOUS
  <2> HIDE DEF this, d, r
  <2>7. new \in PropertyRecord
    BY <1>0, <2>1 DEF PropertyRecord, PartsTyped, IfNone
  <2>8. p.domain = NoName /\ p.range = NoName => new = this
    BY <2>1 DEF PropertyRecord, IfNone
  <2> HIDE DEF new
  <2>9. m \in Maps(PropertyRecord)
    BY <1>0, <2>1, <2>7, MapExcept DEF PartsTyped
  <2>10. DOMAIN m = DOMAIN p.owl.properties
    OBVIOUS
  <2>11. p.domain = NoName /\ p.range = NoName => m = p.owl.properties
    <3>1. p.owl.properties \in [DOMAIN p.owl.properties -> PropertyRecord]
      BY <1>0, MapFacts DEF PartsTyped
    <3>2. new = this => m = p.owl.properties
      BY <3>1 DEF this
    <3>3. QED
      BY <2>8, <3>2
  <2> HIDE DEF m
  <2>12. s = [owl |-> [classes |-> p.owl.classes, properties |-> m,
                      enumerations |-> p.owl.enumerations],
             class |-> p.class, property |-> NoName, domain |-> d, range |-> r,
             in_one_of |-> p.in_one_of, owner |-> p.owner, values |-> p.values]
    BY <1>0, <2>3 DEF HasParts
  <2>13. s \in ParserState
    BY <1>0, <2>4, <2>9, <2>10, <2>12, ParserStateParts DEF HasParts, PartsTyped
  <2>14. QED
    BY <1>2, <2>5, <2>6, <2>11, <2>12, <2>13 DEF LeavesProperties, s
<1>3. QED
  BY <1>1, <1>2

LEMMA EndClassFields ==
    ASSUME NEW p \in ParserState
    PROVE  LET s == [p EXCEPT !.class = NoName]
           IN  /\ s \in ParserState /\ LeavesProperties(p, s)
               /\ s.property = p.property /\ s.in_one_of = p.in_one_of
<1>0. HasParts(p) /\ PartsTyped(p)
  BY ParserStateParts
<1> DEFINE s == [p EXCEPT !.class = NoName]
<1>1. s = [owl |-> [classes |-> p.owl.classes, properties |-> p.owl.properties,
                      enumerations |-> p.owl.enumerations],
             class |-> NoName, property |-> p.property, domain |-> p.domain, range |-> p.range,
             in_one_of |-> p.in_one_of, owner |-> p.owner, values |-> p.values]
  BY <1>0 DEF HasParts
<1> HIDE DEF s
<1>2. NoName \in MaybeName
  BY DEF MaybeName
<1>3. s \in ParserState
  BY <1>0, <1>1, <1>2, ParserStateParts DEF HasParts, PartsTyped
<1>4. QED
  BY <1>1, <1>3 DEF LeavesProperties, s

\* Every event leads from a state of the parser to one.
LEMMA ReadEventType ==
    ASSUME NEW p \in ParserState, NEW e \in XmlEvent
    PROVE  ReadEvent(p, e) \in ParserState
<1>1. /\ OpenClass(p, e) \in ParserState /\ OpenProperty(p, e) \in ParserState
      /\ AddParent(p, e) \in ParserState /\ OpenOneOf(p) \in ParserState
      /\ CloseOneOf(p) \in ParserState /\ CloseProperty(p) \in ParserState
      /\ [p EXCEPT !.class = NoName] \in ParserState
  BY OpenClassFields, OpenPropertyFields, AddParentFields, OpenOneOfFields,
     CloseOneOfFields, ClosePropertyFields, EndClassFields
<1>2. e.tag \in {"subPropertyOf", "inverseOf", "domain", "range"} => Describe(p, e) \in ParserState
  BY DescribeFields
<1>3. QED
  BY <1>1, <1>2 DEF ReadEvent

\* Reading goes event by event, from state to state (owl.rs).
LEMMA ReadingTurns ==
    ASSUME NEW p \in ParserState, NEW events, IsSeq(events), Range(events) \subseteq XmlEvent
    PROVE  /\ Len(events) \in Nat /\ Reading(p, events)[0] = p
           /\ \A k \in 1..Len(events) : Reading(p, events)[k] = ReadEvent(Reading(p, events)[k - 1], events[k])
           /\ \A k \in 0..Len(events) : Reading(p, events)[k] \in ParserState
<1> DEFINE N == Len(events)
           Q == ParserState
           a == p
           F == [k \in 1..N |-> [r \in Q |-> ReadEvent(r, events[k])]]
           Loop(t) == t = [k \in 0..N |-> IF k = 0 THEN a
                                          ELSE ReadEvent(t[k - 1], events[k])]
<1>1. N \in Nat
  BY SeqFacts
<1>2. a \in Q
  OBVIOUS
<1>3. \A k \in 1..N : \A r \in Q : ReadEvent(r, events[k]) \in Q
  <2>1. \A k \in 1..N : events[k] \in XmlEvent
    BY SeqFacts
  <2> HIDE DEF N
  <2>2. QED
    BY <2>1, ReadEventType
<1> HIDE DEF Q
<1>4. PICK r \in [0..N -> Q] : r[0] = a /\ \A k \in 1..N : r[k] = F[k][r[k - 1]]
  <2>1. F \in [1..N -> [Q -> Q]] /\ N \in Nat
    BY <1>1, <1>3
  <2>2. ASSUME NEW M \in Nat, NEW G \in [1..M -> [Q -> Q]], NEW x \in Q
        PROVE  \E r \in [0..M -> Q] : r[0] = x /\ \A k \in 1..M : r[k] = G[k][r[k - 1]]
    BY LoopExists
  <2> HIDE DEF N, F, a
  <2>3. QED
    BY <1>2, <2>1, <2>2
<1> HIDE DEF N, a
<1>5. \A k \in 1..N : r[k] = ReadEvent(r[k - 1], events[k])
  <2>1. \A k \in 1..N : r[k - 1] \in Q
    BY <1>1, <1>4
  <2>2. QED
    BY <1>4, <2>1
<1>6. Loop(r)
  <2>1. \A k \in 0..N : r[k] = IF k = 0 THEN a ELSE ReadEvent(r[k - 1], events[k])
    BY <1>1, <1>4, <1>5
  <2>2. QED
    BY <1>4, <2>1
<1>7. Loop(Reading(p, events))
  BY <1>6 DEF Reading, N, a
<1> HIDE DEF F
<1>8. ASSUME NEW t, Loop(t)
      PROVE  t[0] = a /\ \A k \in 1..N : t[k] = ReadEvent(t[k - 1], events[k])
  <2>1. t[0] = a
    BY <1>1, <1>8
  <2>2. ASSUME NEW k \in 1..N PROVE t[k] = ReadEvent(t[k - 1], events[k])
    <3>1. k \in 0..N /\ k # 0
      BY <1>1
    <3>2. QED
      BY <1>8, <3>1
  <2>3. QED
    BY <2>1, <2>2
<1> HIDE DEF Loop
<1>9. /\ Reading(p, events)[0] = a
      /\ \A k \in 1..N : Reading(p, events)[k] = ReadEvent(Reading(p, events)[k - 1], events[k])
  BY <1>7, <1>8
<1>10. \A k \in 0..N : Reading(p, events)[k] \in Q
  <2>1. \A k \in 1..N : Reading(p, events)[k - 1] \in Q => Reading(p, events)[k] \in Q
    BY <1>3, <1>9
  <2>2. QED
    BY <1>1, <1>2, <1>9, <2>1, Throughout
<1> QED
  BY <1>1, <1>9, <1>10 DEF Q, N, a

LEMMA OneFacts ==
    ASSUME NEW x
    PROVE  /\ IsSeq(<<x>>) /\ Range(<<x>>) = {x} /\ Len(<<x>>) = 1 /\ <<x>>[1] = x
           /\ IsSeq(<<>>) /\ Range(<<>>) = {} /\ Len(<<>>) = 0
<1>1. <<x>> \in Seq({x}) /\ Range(<<x>>) = {x} /\ Len(<<x>>) = 1 /\ <<x>>[1] = x
  BY DEF Range
<1>2. <<>> \in Seq({x}) /\ Range(<<>>) = {} /\ Len(<<>>) = 0
  BY DEF Range
<1>3. QED
  BY <1>1, <1>2 DEF IsSeq

Some(t, n) == IF n = NoName THEN <<>> ELSE <<Event("empty", t, n)>>

Each(t, names) == [k \in DOMAIN names |-> Event("empty", t, names[k])]

LEMMA SomeFacts ==
    ASSUME NEW t, NEW n
    PROVE  /\ IsSeq(Some(t, n))
           /\ n = NoName => Range(Some(t, n)) = {}
           /\ n # NoName => Range(Some(t, n)) = {Event("empty", t, n)}
  BY OneFacts DEF Some

LEMMA EachFacts ==
    ASSUME NEW t, NEW names, IsSeq(names)
    PROVE  /\ IsSeq(Each(t, names))
           /\ Range(Each(t, names)) = {Event("empty", t, n) : n \in Range(names)}
<1> DEFINE s == Each(t, names)
<1>1. Len(names) \in Nat /\ DOMAIN names = 1..Len(names)
  BY SeqFacts
<1>2. DOMAIN s = 1..Len(names) /\ s = [k \in DOMAIN s |-> s[k]]
  BY <1>1 DEF Each
<1>3. Range(s) = {Event("empty", t, n) : n \in Range(names)}
  BY DEF Each, Range
<1> HIDE DEF s
<1>4. IsSeq(s)
  BY <1>1, <1>2, TableIsSeq
<1>5. QED
  BY <1>3, <1>4 DEF s

StartOneOf == Event("start", "oneOf", NoName)
EndOneOf == Event("end", "oneOf", NoName)

\* A oneOf that starts ends further on.
Closes(s) ==
    \A j \in DOMAIN s : s[j] = StartOneOf => \E i \in DOMAIN s : i > j /\ s[i] = EndOneOf

LEMMA ClosesConcat ==
    ASSUME NEW s, NEW t, IsSeq(s), IsSeq(t), Closes(s), Closes(t)
    PROVE  Closes(s \o t)
<1> DEFINE c == s \o t
<1>1. /\ IsSeq(c) /\ Len(c) = Len(s) + Len(t)
      /\ \A k \in 1..(Len(s) + Len(t)) : c[k] = IF k <= Len(s) THEN s[k] ELSE t[k - Len(s)]
  BY ConcatFacts
<1>2. /\ Len(s) \in Nat /\ DOMAIN s = 1..Len(s)
      /\ Len(t) \in Nat /\ DOMAIN t = 1..Len(t)
      /\ DOMAIN c = 1..Len(c)
  BY <1>1, SeqFacts
<1> HIDE DEF c
<1>3. ASSUME NEW j \in DOMAIN c, c[j] = StartOneOf
      PROVE  \E i \in DOMAIN c : i > j /\ c[i] = EndOneOf
  <2>1. CASE j <= Len(s)
    <3>1. j \in DOMAIN s /\ s[j] = StartOneOf
      BY <1>1, <1>2, <1>3, <2>1
    <3>2. PICK i \in DOMAIN s : i > j /\ s[i] = EndOneOf
      BY <3>1 DEF Closes
    <3>3. i \in DOMAIN c /\ c[i] = s[i]
      BY <1>1, <1>2
    <3>4. QED
      BY <3>2, <3>3
  <2>2. CASE ~(j <= Len(s))
    <3>1. j - Len(s) \in DOMAIN t /\ t[j - Len(s)] = StartOneOf
      BY <1>1, <1>2, <1>3, <2>2
    <3>2. PICK i \in DOMAIN t : i > j - Len(s) /\ t[i] = EndOneOf
      BY <3>1 DEF Closes
    <3>3. i + Len(s) \in DOMAIN c /\ ~(i + Len(s) <= Len(s)) /\ (i + Len(s)) - Len(s) = i
          /\ i + Len(s) > j
      BY <1>1, <1>2, <3>2
    <3>4. c[i + Len(s)] = t[i]
      BY <1>1, <1>2, <3>3
    <3>5. QED
      BY <3>2, <3>3, <3>4
  <2>3. QED
    BY <2>1, <2>2
<1>4. QED
  BY <1>3 DEF Closes, c

LEMMA ClosesWithout ==
    ASSUME NEW s, StartOneOf \notin Range(s)
    PROVE  Closes(s)
  BY DEF Closes, Range

OneOf(values) ==
    IF values = <<>> THEN <<>>
    ELSE <<Event("start", "oneOf", NoName)>> \o Each("Thing", values)
            \o <<Event("end", "oneOf", NoName)>>

LEMMA OneOfFacts ==
    ASSUME NEW values, IsSeq(values)
    PROVE  /\ IsSeq(OneOf(values)) /\ Closes(OneOf(values))
           /\ Range(OneOf(values)) \subseteq
                 {StartOneOf, EndOneOf} \cup {Event("empty", "Thing", v) : v \in Range(values)}
<1> DEFINE a == <<StartOneOf>>
           b == Each("Thing", values)
           c == <<EndOneOf>>
<1>1. /\ IsSeq(a) /\ Range(a) = {StartOneOf} /\ Len(a) = 1
      /\ IsSeq(c) /\ Range(c) = {EndOneOf} /\ Len(c) = 1 /\ c[1] = EndOneOf
  BY OneFacts
<1>2. IsSeq(b) /\ Range(b) = {Event("empty", "Thing", v) : v \in Range(values)}
  BY EachFacts
<1> HIDE DEF a, b, c
<1>3. IsSeq(a \o b) /\ Range(a \o b) = Range(a) \cup Range(b) /\ Len(a \o b) \in Nat
  BY <1>1, <1>2, ConcatFacts, SeqFacts
<1> DEFINE ab == a \o b
           s == ab \o c
<1> HIDE DEF ab
<1>4. /\ IsSeq(s) /\ Range(s) = Range(ab) \cup Range(c) /\ Len(s) = Len(ab) + Len(c)
      /\ \A k \in 1..(Len(ab) + Len(c)) : s[k] = IF k <= Len(ab) THEN ab[k] ELSE c[k - Len(ab)]
  BY <1>1, <1>3, ConcatFacts DEF ab
<1> HIDE DEF s
<1>5. Closes(s)
  <2>1. /\ DOMAIN s = 1..(Len(ab) + 1) /\ Len(ab) \in Nat
        /\ Len(ab) + 1 \in DOMAIN s /\ s[Len(ab) + 1] = EndOneOf
    <3>1. DOMAIN s = 1..Len(s) /\ Len(ab) \in Nat
      BY <1>3, <1>4, SeqFacts DEF ab
    <3>2. Len(ab) + 1 \in 1..(Len(ab) + Len(c)) /\ ~(Len(ab) + 1 <= Len(ab))
          /\ (Len(ab) + 1) - Len(ab) = 1
      BY <1>1, <3>1
    <3>3. QED
      BY <1>1, <1>4, <3>1, <3>2
  <2>2. StartOneOf # EndOneOf
    BY DEF StartOneOf, EndOneOf, Event
  <2>3. ASSUME NEW j \in DOMAIN s, s[j] = StartOneOf
        PROVE  \E i \in DOMAIN s : i > j /\ s[i] = EndOneOf
    <3>1. j # Len(ab) + 1
      BY <2>1, <2>2, <2>3
    <3>2. Len(ab) + 1 > j
      BY <2>1, <3>1
    <3>3. QED
      BY <2>1, <3>2
  <2>4. QED
    BY <2>3 DEF Closes
<1>6. CASE values = <<>>
  <2>1. OneOf(values) = <<>>
    BY <1>6 DEF OneOf
  <2>2. StartOneOf \notin Range(<<>>)
    BY OneFacts
  <2>3. Closes(<<>>)
    BY <2>2, ClosesWithout
  <2>4. QED
    BY <2>1, <2>3, OneFacts
<1>7. CASE values # <<>>
  <2>1. OneOf(values) = s
    BY <1>7 DEF OneOf, s, ab, a, b, c, StartOneOf, EndOneOf
  <2>2. QED
    BY <1>1, <1>2, <1>3, <1>4, <1>5, <2>1 DEF ab
<1>8. QED
  BY <1>6, <1>7

\* How a declaration is written, piece by piece.
TagOf(d) == CASE d.kind = "class" -> "Class"
              [] d.kind = "object" -> "ObjectProperty"
              [] OTHER -> "DatatypeProperty"

ParentTag(d) == IF d.kind = "class" THEN "subClassOf" ELSE "subPropertyOf"

Inside(d) ==
    Some("ObjectProperty", d.nested) \o Each(ParentTag(d), d.parents) \o OneOf(d.values)
        \o Some("domain", d.domain) \o Some("range", d.range) \o Some("inverseOf", d.inverse)

SomeEvent(t, n) == IF n = NoName THEN {} ELSE {Event("empty", t, n)}

InnerEvents(d) ==
    UNION {SomeEvent("ObjectProperty", d.nested),
           {Event("empty", ParentTag(d), n) : n \in Range(d.parents)},
           {StartOneOf, EndOneOf} \cup {Event("empty", "Thing", v) : v \in Range(d.values)},
           SomeEvent("domain", d.domain), SomeEvent("range", d.range),
           SomeEvent("inverseOf", d.inverse)}

LEMMA EventParts ==
    ASSUME NEW at, NEW tag, NEW ref
    PROVE  /\ Event(at, tag, ref).at = at /\ Event(at, tag, ref).tag = tag
           /\ Event(at, tag, ref).ref = ref
           /\ at \in {"start", "empty", "end"} /\ tag \in Tag /\ ref \in MaybeName =>
                 Event(at, tag, ref) \in XmlEvent
  BY DEF Event, XmlEvent

LEMMA DeclarationParts ==
    ASSUME NEW d \in Declaration
    PROVE  /\ d.kind \in {"class", "object", "data"} /\ d.name \in Name
           /\ IsSeq(d.parents) /\ Range(d.parents) \subseteq Name
           /\ IsSeq(d.values) /\ Range(d.values) \subseteq Name
           /\ d.domain \in MaybeName /\ d.range \in MaybeName
           /\ d.inverse \in MaybeName /\ d.nested \in MaybeName
<1>1. d.parents \in Seq(Name) /\ d.values \in Seq(Name)
  BY DEF Declaration
<1>2. /\ IsSeq(d.parents) /\ Range(d.parents) \subseteq Name
      /\ IsSeq(d.values) /\ Range(d.values) \subseteq Name
  BY <1>1, SeqIsSeq
<1>3. QED
  BY <1>2 DEF Declaration, MaybeName

\* What two pieces of a document have, and where a oneOf in them ends.
Piece(s, E) == IsSeq(s) /\ Closes(s) /\ Range(s) \subseteq E

LEMMA PieceConcat ==
    ASSUME NEW s, NEW t, NEW E, Piece(s, E), Piece(t, E)
    PROVE  Piece(s \o t, E) /\ Range(s) \subseteq Range(s \o t) /\ Range(t) \subseteq Range(s \o t)
<1>1. IsSeq(s) /\ IsSeq(t) /\ Closes(s) /\ Closes(t)
  BY DEF Piece
<1>2. IsSeq(s \o t) /\ Range(s \o t) = Range(s) \cup Range(t)
  BY <1>1, ConcatFacts
<1>3. Closes(s \o t)
  BY <1>1, ClosesConcat
<1>4. QED
  BY <1>2, <1>3 DEF Piece

LEMMA InsideFacts ==
    ASSUME NEW d \in Declaration
    PROVE  /\ Piece(Inside(d), InnerEvents(d))
           /\ SomeEvent("domain", d.domain) \subseteq Range(Inside(d))
           /\ SomeEvent("range", d.range) \subseteq Range(Inside(d))
<1> DEFINE E == InnerEvents(d)
           a == Some("ObjectProperty", d.nested)
           b == Each(ParentTag(d), d.parents)
           c == OneOf(d.values)
           x == Some("domain", d.domain)
           y == Some("range", d.range)
           z == Some("inverseOf", d.inverse)
<1>1. ASSUME NEW t, NEW n, t # "oneOf"
      PROVE  /\ Piece(Some(t, n), SomeEvent(t, n))
             /\ Range(Some(t, n)) = SomeEvent(t, n)
  <2>1. IsSeq(Some(t, n)) /\ Range(Some(t, n)) = SomeEvent(t, n)
    BY SomeFacts DEF SomeEvent
  <2>2. StartOneOf \notin Range(Some(t, n))
    BY <1>1, <2>1, EventParts DEF SomeEvent, StartOneOf
  <2>3. QED
    BY <2>1, <2>2, ClosesWithout DEF Piece
<1>2. /\ Piece(a, E) /\ Piece(x, E) /\ Piece(y, E) /\ Piece(z, E)
      /\ Range(x) = SomeEvent("domain", d.domain) /\ Range(y) = SomeEvent("range", d.range)
  BY <1>1 DEF Piece, InnerEvents
<1>3. Piece(b, E)
  <2>1. IsSeq(b) /\ Range(b) = {Event("empty", ParentTag(d), n) : n \in Range(d.parents)}
    BY DeclarationParts, EachFacts
  <2>2. ParentTag(d) # "oneOf"
    BY DEF ParentTag
  <2>3. StartOneOf \notin Range(b)
    BY <2>1, <2>2, EventParts DEF StartOneOf
  <2>4. Closes(b)
    BY <2>3, ClosesWithout
  <2>5. QED
    BY <2>1, <2>4 DEF Piece, InnerEvents
<1>4. Piece(c, E)
  BY DeclarationParts, OneOfFacts DEF Piece, InnerEvents
<1>5. Inside(d) = a \o b \o c \o x \o y \o z
  BY DEF Inside
<1> HIDE DEF E, a, b, c, x, y, z
<1>6. Piece(a \o b \o c, E)
  BY <1>2, <1>3, <1>4, PieceConcat
<1> DEFINE abc == a \o b \o c
<1> HIDE DEF abc
<1>7. Piece(abc \o x, E) /\ Range(x) \subseteq Range(abc \o x)
  BY <1>2, <1>6, PieceConcat DEF abc
<1> DEFINE abcx == abc \o x
<1> HIDE DEF abcx
<1>8. Piece(abcx \o y, E) /\ Range(x) \subseteq Range(abcx \o y) /\ Range(y) \subseteq Range(abcx \o y)
  BY <1>2, <1>7, PieceConcat DEF abcx
<1> DEFINE abcxy == abcx \o y
<1> HIDE DEF abcxy
<1>9. /\ Piece(abcxy \o z, E)
      /\ Range(x) \subseteq Range(abcxy \o z) /\ Range(y) \subseteq Range(abcxy \o z)
  BY <1>2, <1>8, PieceConcat DEF abcxy
<1>10. Inside(d) = abcxy \o z
  BY <1>5 DEF abcxy, abcx, abc
<1>11. QED
  BY <1>2, <1>9, <1>10 DEF E

\* A declaration starts with its name; what is inside comes after that, and then its
\* end.
LEMMA EventsFacts ==
    ASSUME NEW d \in Declaration
    PROVE  LET ev == Events(d)
               n == Len(Events(d))
           IN  /\ IsSeq(ev) /\ Range(ev) \subseteq XmlEvent /\ Closes(ev)
               /\ n \in Nat \ {0} /\ DOMAIN ev = 1..n
               /\ n > 1 => ev[1] = Event("start", TagOf(d), d.name)
               /\ n = 1 => ev[1] = Event("empty", TagOf(d), d.name)
               /\ \A k \in 2..n :
                     ev[k] \in InnerEvents(d) \/ (k = n /\ ev[k] = Event("end", TagOf(d), NoName))
               /\ n > 1 => ev[n] = Event("end", TagOf(d), NoName)
               /\ SomeEvent("domain", d.domain) \subseteq Range(ev)
               /\ SomeEvent("range", d.range) \subseteq Range(ev)
<1> DEFINE ev == Events(d)
           i == Inside(d)
           first == Event("start", TagOf(d), d.name)
           bare == Event("empty", TagOf(d), d.name)
           last == Event("end", TagOf(d), NoName)
           E == InnerEvents(d)
           Sides0 == SomeEvent("domain", d.domain) \cup SomeEvent("range", d.range)
<1>1. IsSeq(i) /\ Closes(i) /\ Range(i) \subseteq E /\ Sides0 \subseteq Range(i)
  BY InsideFacts DEF Piece
<1>2. /\ TagOf(d) \in {"Class", "ObjectProperty", "DatatypeProperty"}
      /\ ParentTag(d) \in {"subClassOf", "subPropertyOf"}
  BY DEF TagOf, ParentTag
<1>3. first \in XmlEvent /\ bare \in XmlEvent /\ last \in XmlEvent
  <2>1. d.name \in MaybeName /\ NoName \in MaybeName /\ TagOf(d) \in Tag
    BY <1>2, DeclarationParts DEF MaybeName, Tag
  <2>2. QED
    BY <2>1, EventParts
<1>4. E \subseteq XmlEvent
  <2>1. ASSUME NEW t \in Tag, NEW n \in MaybeName PROVE Event("empty", t, n) \in XmlEvent
    BY EventParts
  <2>2. StartOneOf \in XmlEvent /\ EndOneOf \in XmlEvent
    <3>1. NoName \in MaybeName /\ "oneOf" \in Tag
      BY DEF MaybeName, Tag
    <3>2. QED
      BY <3>1, EventParts DEF StartOneOf, EndOneOf
  <2>3. \A n \in Range(d.parents) \cup Range(d.values) : n \in MaybeName
    BY DeclarationParts DEF MaybeName
  <2>4. /\ {"ObjectProperty", "domain", "range", "inverseOf", "Thing"} \subseteq Tag
        /\ ParentTag(d) \in Tag
    BY <1>2 DEF Tag
  <2>5. \A t \in Tag, n \in MaybeName : SomeEvent(t, n) \subseteq XmlEvent
    BY <2>1 DEF SomeEvent
  <2>6. QED
    BY <2>1, <2>2, <2>3, <2>4, <2>5, DeclarationParts DEF InnerEvents
<1>5. ev = IF i = <<>> THEN <<bare>> ELSE <<first>> \o i \o <<last>>
  BY DEF Events, Inside, Some, Each, OneOf, TagOf, ParentTag
<1>6. StartOneOf \notin {first, bare, last}
  BY <1>2, EventParts DEF StartOneOf
<1> HIDE DEF ev, i, first, bare, last, E, Sides0
<1>7. CASE i = <<>>
  <2>1. ev = <<bare>>
    BY <1>5, <1>7
  <2>2. IsSeq(ev) /\ Range(ev) = {bare} /\ Len(ev) = 1 /\ ev[1] = bare
    BY <2>1, OneFacts
  <2>3. DOMAIN ev = 1..1
    BY <2>2, SeqFacts
  <2>4. Closes(ev)
    BY <1>6, <2>2, ClosesWithout
  <2>5. Sides0 = {}
    BY <1>1, <1>7, OneFacts
  <2>6. QED
    BY <1>3, <2>2, <2>3, <2>4, <2>5 DEF ev, bare, Sides0
<1>8. CASE i # <<>>
  <2> DEFINE a == <<first>>
             c == <<last>>
             b == a \o i
  <2>1. /\ IsSeq(a) /\ Range(a) = {first} /\ Len(a) = 1 /\ a[1] = first
        /\ IsSeq(c) /\ Range(c) = {last} /\ Len(c) = 1 /\ c[1] = last
        /\ Closes(a) /\ Closes(c)
    BY <1>6, OneFacts, ClosesWithout
  <2> HIDE DEF a, c
  <2>2. /\ IsSeq(b) /\ Range(b) = {first} \cup Range(i) /\ Len(b) = 1 + Len(i) /\ Closes(b)
        /\ \A k \in 1..(1 + Len(i)) : b[k] = IF k <= 1 THEN a[k] ELSE i[k - 1]
    <3>1. /\ IsSeq(a \o i) /\ Range(a \o i) = Range(a) \cup Range(i)
          /\ Len(a \o i) = Len(a) + Len(i)
          /\ \A k \in 1..(Len(a) + Len(i)) : (a \o i)[k] = IF k <= Len(a) THEN a[k] ELSE i[k - Len(a)]
      BY <1>1, <2>1, ConcatFacts
    <3>2. Closes(a \o i)
      BY <1>1, <2>1, ClosesConcat
    <3>3. QED
      BY <2>1, <3>1, <3>2
  <2> HIDE DEF b
  <2>3. /\ IsSeq(b \o c) /\ Range(b \o c) = Range(b) \cup {last} /\ Len(b \o c) = Len(b) + 1
        /\ \A k \in 1..(Len(b) + 1) : (b \o c)[k] = IF k <= Len(b) THEN b[k] ELSE c[k - Len(b)]
        /\ Closes(b \o c)
    <3>1. /\ IsSeq(b \o c) /\ Range(b \o c) = Range(b) \cup Range(c)
          /\ Len(b \o c) = Len(b) + Len(c)
          /\ \A k \in 1..(Len(b) + Len(c)) : (b \o c)[k] = IF k <= Len(b) THEN b[k] ELSE c[k - Len(b)]
      BY <2>1, <2>2, ConcatFacts
    <3>2. Closes(b \o c)
      BY <2>1, <2>2, ClosesConcat
    <3>3. QED
      BY <2>1, <3>1, <3>2
  <2>4. ev = b \o c
    BY <1>5, <1>8 DEF a, b, c
  <2> DEFINE n == Len(ev)
  <2>5. /\ IsSeq(ev) /\ Range(ev) = {first, last} \cup Range(i) /\ n = Len(b) + 1 /\ Closes(ev)
        /\ \A k \in 1..n : ev[k] = IF k <= Len(b) THEN b[k] ELSE c[k - Len(b)]
    BY <2>2, <2>3, <2>4
  <2>6. /\ DOMAIN i = 1..Len(i) /\ Len(i) \in Nat /\ n \in Nat /\ Len(b) \in Nat
        /\ n = Len(i) + 2 /\ DOMAIN ev = 1..n
    BY <1>1, <2>2, <2>5, SeqFacts
  <2> HIDE DEF n
  <2>7. ev[1] = first
    <3>1. 1 \in 1..n /\ 1 <= Len(b) /\ 1 \in 1..(1 + Len(i)) /\ 1 <= 1
      BY <2>2, <2>6
    <3>2. ev[1] = b[1] /\ b[1] = a[1]
      BY <2>2, <2>5, <3>1
    <3>3. QED
      BY <2>1, <3>2
  <2>8. ev[n] = last
    <3>1. n \in 1..n /\ ~(n <= Len(b)) /\ n - Len(b) = 1
      BY <2>5, <2>6
    <3>2. ev[n] = c[1]
      BY <2>5, <3>1
    <3>3. QED
      BY <2>1, <3>2
  <2>9. ASSUME NEW k \in 2..n, k # n PROVE ev[k] \in E
    <3>1. k \in 1..n /\ k <= Len(b) /\ k \in 1..(1 + Len(i)) /\ ~(k <= 1) /\ k - 1 \in DOMAIN i
      BY <2>2, <2>6, <2>9
    <3>2. ev[k] = b[k] /\ b[k] = i[k - 1]
      BY <2>2, <2>5, <3>1
    <3>3. i[k - 1] \in Range(i)
      BY <3>1 DEF Range
    <3>4. QED
      BY <1>1, <3>2, <3>3
  <2>10. n > 1 /\ n \in Nat \ {0}
    BY <2>6
  <2>11. Range(ev) \subseteq XmlEvent
    BY <1>1, <1>3, <1>4, <2>5
  <2>12. Sides0 \subseteq Range(ev)
    BY <1>1, <2>5
  <2>13. QED
    BY <2>5, <2>6, <2>7, <2>8, <2>9, <2>10, <2>11, <2>12 DEF ev, first, last, E, n, Sides0
<1>9. QED
  BY <1>7, <1>8

-----------------------------------------------------------------------------
(* The resolution of domains.                                               *)

OfferRecord ==
    [to : Name, domain : MaybeName, range : MaybeName, kind : {"object", "data"}]

\* A set of numbers has a least one.
LEMMA MinFacts ==
    ASSUME NEW S \in SUBSET Nat, S # {}
    PROVE  Min(S) \in S
<1>1. PICK x \in S : \A y \in S : ~(<<y, x>> \in OpToRel(<, Nat))
  BY NatLessThanWellFounded, WFMin
<1>2. S \subseteq Nat /\ x \in S /\ \A y \in S : ~(y < x)
  BY <1>1 DEF OpToRel
<1>3. \A y \in S : x <= y
  BY <1>2
<1>4. QED
  BY <1>2, <1>3 DEF Min

\* What is offered for a side is what one of the offers gives.
LEMMA FirstGivenFacts ==
    ASSUME NEW offers, IsSeq(offers), NEW n, NEW side
    PROVE  FirstGiven(offers, n, side) # NoName =>
              \E o \in Range(offers) : o.to = n /\ o[side] = FirstGiven(offers, n, side)
<1> DEFINE given == {k \in DOMAIN offers : offers[k].to = n /\ offers[k][side] # NoName}
<1>1. SUFFICES ASSUME given # {}
               PROVE  \E o \in Range(offers) : o.to = n /\ o[side] = offers[Min(given)][side]
  BY DEF FirstGiven
<1>2. given \in SUBSET Nat
  BY SeqFacts
<1>3. Min(given) \in given
  <2> HIDE DEF given
  <2>1. QED
    BY <1>1, <1>2, MinFacts
<1>4. QED
  BY <1>3, SeqFacts

\* A record that gets a domain, a range and a kind.
LEMMA RecordFilled ==
    ASSUME NEW r \in PropertyRecord, NEW v \in MaybeName, NEW w \in MaybeName,
           NEW kind \in {"object", "data"}
    PROVE  LET s == [r EXCEPT !.domain = v, !.range = w, !.kind = kind]
           IN  /\ s \in PropertyRecord /\ s.domain = v /\ s.range = w
               /\ s.parents = r.parents /\ s.inverse = r.inverse /\ s.kind = kind
  BY DEF PropertyRecord

\* What the properties hold when all that is offered is accepted.
Accepted(m, offers, a) ==
    /\ DOMAIN a = DOMAIN m \cup {o.to : o \in Range(offers)}
    /\ \A n \in DOMAIN m :
          /\ a[n].parents = m[n].parents /\ a[n].inverse = m[n].inverse
          /\ m[n].domain # NoName => a[n].domain = m[n].domain
          /\ m[n].range # NoName => a[n].range = m[n].range
    /\ \A n \in DOMAIN a \ DOMAIN m : a[n].parents = <<>> /\ a[n].inverse = NoName
    /\ \A n \in DOMAIN a :
          a[n].domain # NoName =>
             \/ n \in DOMAIN m /\ a[n].domain = m[n].domain
             \/ \E o \in Range(offers) : o.to = n /\ o.domain = a[n].domain
    /\ \A n \in DOMAIN a :
          a[n].range # NoName =>
             \/ n \in DOMAIN m /\ a[n].range = m[n].range
             \/ \E o \in Range(offers) : o.to = n /\ o.range = a[n].range

LEMMA AcceptAllFacts ==
    ASSUME NEW m \in Maps(PropertyRecord), NEW offers, IsSeq(offers),
           Range(offers) \subseteq OfferRecord
    PROVE  AcceptAll(m, offers) \in Maps(PropertyRecord) /\ Accepted(m, offers, AcceptAll(m, offers))
<1> DEFINE partners == {offers[k].to : k \in DOMAIN offers}
           fresh == NewProperty("object", NoName, NoName)
           known == [n \in DOMAIN m \cup partners |-> IF n \in DOMAIN m THEN m[n] ELSE fresh]
           isData(n) == \E k \in DOMAIN offers : offers[k].to = n /\ offers[k].kind = "data"
           v(n) == IfNone(known[n].domain, FirstGiven(offers, n, "domain"))
           w(n) == IfNone(known[n].range, FirstGiven(offers, n, "range"))
           kind(n) == IF isData(n) THEN "data" ELSE known[n].kind
           a == [n \in DOMAIN known |->
                    [known[n] EXCEPT !.domain = v(n), !.range = w(n), !.kind = kind(n)]]
<1>1. AcceptAll(m, offers) = a
  BY DEF AcceptAll
<1>2. partners = {o.to : o \in Range(offers)} /\ partners \subseteq Name
  BY DEF Range, OfferRecord
<1>3. DOMAIN m \subseteq Name /\ m \in [DOMAIN m -> PropertyRecord]
  BY MapFacts
<1>4. /\ fresh \in PropertyRecord /\ fresh.parents = <<>> /\ fresh.inverse = NoName
      /\ fresh.domain = NoName /\ fresh.range = NoName
  BY DEF NewProperty, PropertyRecord, MaybeName
<1> HIDE DEF fresh, partners
<1>5. /\ DOMAIN known = DOMAIN m \cup partners
      /\ \A n \in DOMAIN known : /\ known[n] \in PropertyRecord
                                 /\ n \in DOMAIN m => known[n] = m[n]
                                 /\ n \notin DOMAIN m => known[n] = fresh
  BY <1>3, <1>4
<1>6. \A n, side : FirstGiven(offers, n, side) # NoName =>
         \E o \in Range(offers) : o.to = n /\ o[side] = FirstGiven(offers, n, side)
  BY FirstGivenFacts
<1>7. \A n : /\ FirstGiven(offers, n, "domain") # NoName =>
                  \E o \in Range(offers) : o.to = n /\ o.domain = FirstGiven(offers, n, "domain")
             /\ FirstGiven(offers, n, "range") # NoName =>
                  \E o \in Range(offers) : o.to = n /\ o.range = FirstGiven(offers, n, "range")
  BY <1>6
<1>8. \A o \in Range(offers) : o.domain \in MaybeName /\ o.range \in MaybeName
  BY DEF OfferRecord
<1> HIDE DEF known
<1>9. ASSUME NEW n \in DOMAIN known
      PROVE  v(n) \in MaybeName /\ w(n) \in MaybeName /\ kind(n) \in {"object", "data"}
  <2>1. /\ FirstGiven(offers, n, "domain") \in MaybeName
        /\ FirstGiven(offers, n, "range") \in MaybeName
    BY <1>7, <1>8 DEF MaybeName
  <2>2. /\ known[n].domain \in MaybeName /\ known[n].range \in MaybeName
        /\ known[n].kind \in {"object", "data"}
    BY <1>5 DEF PropertyRecord
  <2> HIDE DEF isData
  <2>3. QED
    BY <2>1, <2>2 DEF IfNone
<1>10. ASSUME NEW n \in DOMAIN known
       PROVE  /\ a[n] \in PropertyRecord /\ a[n].domain = v(n) /\ a[n].range = w(n)
              /\ a[n].parents = known[n].parents /\ a[n].inverse = known[n].inverse
  <2>1. v(n) \in MaybeName /\ w(n) \in MaybeName /\ kind(n) \in {"object", "data"}
    BY <1>9
  <2>2. known[n] \in PropertyRecord
    BY <1>5
  <2>3. a[n] = [known[n] EXCEPT !.domain = v(n), !.range = w(n), !.kind = kind(n)]
    OBVIOUS
  <2> HIDE DEF v, w, kind, a
  <2>4. PICK r, x, y, z : r = known[n] /\ x = v(n) /\ y = w(n) /\ z = kind(n)
    OBVIOUS
  <2>5. r \in PropertyRecord /\ x \in MaybeName /\ y \in MaybeName /\ z \in {"object", "data"}
    BY <2>1, <2>2, <2>4
  <2>6. LET s == [r EXCEPT !.domain = x, !.range = y, !.kind = z]
        IN  /\ s \in PropertyRecord /\ s.domain = x /\ s.range = y
            /\ s.parents = r.parents /\ s.inverse = r.inverse
    BY <2>5 DEF PropertyRecord
  <2>7. a[n] = [r EXCEPT !.domain = x, !.range = y, !.kind = z]
    BY <2>3, <2>4
  <2>8. QED
    BY <2>4, <2>6, <2>7
<1>11. DOMAIN a = DOMAIN known /\ a = [n \in DOMAIN a |-> a[n]]
  OBVIOUS
<1> HIDE DEF a
<1>12. a \in Maps(PropertyRecord)
  <2>1. a \in [DOMAIN a -> PropertyRecord]
    BY <1>10, <1>11
  <2>2. DOMAIN a \in SUBSET Name
    BY <1>2, <1>3, <1>5, <1>11
  <2>3. QED
    BY <2>1, <2>2, MapFacts
<1> HIDE DEF v, w
<1>13. \A n \in DOMAIN m :
          /\ a[n].parents = m[n].parents /\ a[n].inverse = m[n].inverse
          /\ m[n].domain # NoName => a[n].domain = m[n].domain
          /\ m[n].range # NoName => a[n].range = m[n].range
  BY <1>5, <1>10 DEF v, w, IfNone
<1>14. \A n \in DOMAIN a \ DOMAIN m : a[n].parents = <<>> /\ a[n].inverse = NoName
  BY <1>4, <1>5, <1>10, <1>11
<1>15. \A n \in DOMAIN a :
          a[n].domain # NoName =>
             \/ n \in DOMAIN m /\ a[n].domain = m[n].domain
             \/ \E o \in Range(offers) : o.to = n /\ o.domain = a[n].domain
  BY <1>4, <1>5, <1>7, <1>10, <1>11 DEF v, IfNone
<1>16. \A n \in DOMAIN a :
          a[n].range # NoName =>
             \/ n \in DOMAIN m /\ a[n].range = m[n].range
             \/ \E o \in Range(offers) : o.to = n /\ o.range = a[n].range
  BY <1>4, <1>5, <1>7, <1>10, <1>11 DEF w, IfNone
<1>17. DOMAIN a = DOMAIN m \cup {o.to : o \in Range(offers)}
  BY <1>2, <1>5, <1>11
<1>18. Accepted(m, offers, a)
  BY <1>13, <1>14, <1>15, <1>16, <1>17 DEF Accepted
<1>19. QED
  BY <1>1, <1>12, <1>18

\* What inverses offer: each with an inverse, to it, its range as the domain and its
\* domain as the range.
LEMMA InverseOffersFacts ==
    ASSUME NEW m \in Maps(PropertyRecord)
    PROVE  LET o == InverseOffers(m)
           IN  /\ IsSeq(o) /\ Range(o) \subseteq OfferRecord
               /\ \A x \in Range(o) : \E n \in DOMAIN m :
                     /\ m[n].inverse # NoName /\ x.to = m[n].inverse
                     /\ x.domain = m[n].range /\ x.range = m[n].domain
<1> DEFINE D == {n \in DOMAIN m : m[n].inverse # NoName}
           names == Inverses(m)
           o == InverseOffers(m)
<1>1. DOMAIN m \subseteq Name /\ \A n \in DOMAIN m : m[n] \in PropertyRecord
  BY MapFacts
<1>2. D \in SUBSET Name
  BY <1>1
<1>3. names = Sorted(D)
  BY DEF Inverses
<1> HIDE DEF D
<1>4. IsSeq(names) /\ Range(names) = D
  BY <1>2, <1>3, SortedFacts
<1> HIDE DEF names
<1>5. Len(names) \in Nat /\ DOMAIN names = 1..Len(names) /\ \A k \in DOMAIN names : names[k] \in D
  BY <1>4, SeqFacts
<1>6. o = [k \in DOMAIN names |->
             Offer(m[names[k]].inverse, m[names[k]].range, m[names[k]].domain, "object")]
  BY DEF InverseOffers, names
<1>7. /\ DOMAIN o = 1..Len(names) /\ o = [k \in DOMAIN o |-> o[k]]
      /\ \A k \in DOMAIN o :
            o[k] = Offer(m[names[k]].inverse, m[names[k]].range, m[names[k]].domain, "object")
  BY <1>5, <1>6
<1> HIDE DEF o
<1>8. IsSeq(o)
  BY <1>5, <1>7, TableIsSeq
<1>9. ASSUME NEW x \in Range(o)
      PROVE  /\ x \in OfferRecord
             /\ \E n \in DOMAIN m :
                   /\ m[n].inverse # NoName /\ x.to = m[n].inverse
                   /\ x.domain = m[n].range /\ x.range = m[n].domain
  <2>1. PICK k \in DOMAIN o : x = o[k]
    BY DEF Range
  <2>2. PICK n : n = names[k] /\ n \in D
    BY <1>5, <1>7, <2>1
  <2>3. x = Offer(m[n].inverse, m[n].range, m[n].domain, "object")
    BY <1>7, <2>1, <2>2
  <2>4. n \in DOMAIN m /\ m[n].inverse # NoName /\ m[n] \in PropertyRecord
    BY <1>1, <2>2 DEF D
  <2>5. m[n].inverse \in Name /\ m[n].range \in MaybeName /\ m[n].domain \in MaybeName
    BY <2>4 DEF PropertyRecord, MaybeName
  <2>6. x \in OfferRecord /\ x.to = m[n].inverse /\ x.domain = m[n].range /\ x.range = m[n].domain
    BY <2>3, <2>5 DEF Offer, OfferRecord
  <2>7. QED
    BY <2>4, <2>6
<1>10. QED
  BY <1>8, <1>9 DEF o

\* What a property is offered by those it refines.
LEMMA InheritanceFacts ==
    ASSUME NEW m \in Maps(PropertyRecord), NEW n \in DOMAIN m
    PROVE  LET o == Inheritance(m, n)
           IN  /\ IsSeq(o) /\ Range(o) \subseteq OfferRecord
               /\ \A x \in Range(o) : \E p \in DOMAIN m \cap Range(m[n].parents) :
                     x.to = n /\ x.domain = m[p].domain /\ x.range = m[p].range
<1> DEFINE parents == Only(m[n].parents, DOMAIN m)
           o == Inheritance(m, n)
<1>1. /\ DOMAIN m \subseteq Name /\ \A p \in DOMAIN m : m[p] \in PropertyRecord
      /\ n \in Name
  BY MapFacts
<1>2. m[n].parents \in Seq(Name)
  BY <1>1 DEF PropertyRecord
<1>3. PICK s, d : s = m[n].parents /\ d = DOMAIN m
  OBVIOUS
<1>4. IsSeq(s)
  BY <1>2, <1>3, SeqIsSeq
<1>5. IsSeq(Only(s, d)) /\ Range(Only(s, d)) = Range(s) \cap d
  BY <1>4, OnlyFacts
<1>6. IsSeq(parents) /\ Range(parents) = Range(m[n].parents) \cap DOMAIN m
  BY <1>3, <1>5
<1> HIDE DEF parents
<1>7. /\ Len(parents) \in Nat /\ DOMAIN parents = 1..Len(parents)
      /\ \A k \in DOMAIN parents : parents[k] \in Range(parents)
  BY <1>6, SeqFacts
<1>8. o = [k \in DOMAIN parents |->
             Offer(n, m[parents[k]].domain, m[parents[k]].range, m[parents[k]].kind)]
  BY DEF Inheritance, parents
<1>9. /\ DOMAIN o = 1..Len(parents) /\ o = [k \in DOMAIN o |-> o[k]]
      /\ \A k \in DOMAIN o :
            o[k] = Offer(n, m[parents[k]].domain, m[parents[k]].range, m[parents[k]].kind)
  BY <1>7, <1>8
<1> HIDE DEF o
<1>10. IsSeq(o)
  BY <1>7, <1>9, TableIsSeq
<1>11. ASSUME NEW x \in Range(o)
       PROVE  /\ x \in OfferRecord
              /\ \E p \in DOMAIN m \cap Range(m[n].parents) :
                    x.to = n /\ x.domain = m[p].domain /\ x.range = m[p].range
  <2>1. PICK k \in DOMAIN o : x = o[k]
    BY DEF Range
  <2>2. PICK p : p = parents[k] /\ p \in DOMAIN m \cap Range(m[n].parents)
    BY <1>6, <1>7, <1>9, <2>1
  <2>3. x = Offer(n, m[p].domain, m[p].range, m[p].kind)
    BY <1>9, <2>1, <2>2
  <2>4. m[p] \in PropertyRecord
    BY <1>1, <2>2
  <2>5. m[p].kind \in {"object", "data"} /\ m[p].range \in MaybeName /\ m[p].domain \in MaybeName
    BY <2>4 DEF PropertyRecord
  <2>6. x \in OfferRecord /\ x.to = n /\ x.domain = m[p].domain /\ x.range = m[p].range
    BY <1>1, <2>3, <2>5 DEF Offer, OfferRecord
  <2>7. QED
    BY <2>2, <2>6
<1>12. QED
  BY <1>10, <1>11 DEF o

\* Offers by a property that another one names as a parent, to that other one.
InheritedOffers(m) ==
    {o \in OfferRecord : \E n \in DOMAIN m : \E p \in DOMAIN m \cap Range(m[n].parents) :
        o.to = n /\ o.domain = m[p].domain /\ o.range = m[p].range}

\* A turn of a loop that puts sequences one behind the other.
Gather(before, more) == before \o more

LEMMA SeqConcat ==
    ASSUME NEW X, NEW s \in Seq(X), NEW t, IsSeq(t), Range(t) \subseteq X
    PROVE  Gather(s, t) \in Seq(X)
<1>1. t \in Seq(X)
  BY SeqMonotonic DEF IsSeq
<1>2. QED
  BY <1>1, ConcatProperties DEF Gather

\* The offers of all refinements are collected property by property (owl.rs).
LEMMA InheritingTurns ==
    ASSUME NEW m \in Maps(PropertyRecord)
    PROVE  /\ Len(Sorted(DOMAIN m)) \in Nat /\ Inheriting(m)[0] = <<>>
           /\ \A k \in 1..Len(Sorted(DOMAIN m)) : Inheriting(m)[k] = Gather(Inheriting(m)[k - 1], Inheritance(m, Sorted(DOMAIN m)[k]))
           /\ \A k \in 0..Len(Sorted(DOMAIN m)) : Inheriting(m)[k] \in Seq(InheritedOffers(m))
<1> DEFINE N == Len(Sorted(DOMAIN m))
           Q == Seq(InheritedOffers(m))
           a == <<>>
           F == [k \in 1..N |-> [r \in Q |-> Gather(r, Inheritance(m, Sorted(DOMAIN m)[k]))]]
           Loop(t) == t = [k \in 0..N |-> IF k = 0 THEN a
                                          ELSE t[k - 1] \o Inheritance(m, Sorted(DOMAIN m)[k])]
<1>1. N \in Nat
  <2>1. DOMAIN m \in SUBSET Name
    BY MapFacts
  <2>2. QED
    BY <2>1, SortedFacts, SeqFacts
<1>2. a \in Q
  BY EmptySeq
<1>3. \A k \in 1..N : \A r \in Q : Gather(r, Inheritance(m, Sorted(DOMAIN m)[k])) \in Q
  <2>1. DOMAIN m \in SUBSET Name
    BY MapFacts
  <2>2. PICK names : names = Sorted(DOMAIN m)
    OBVIOUS
  <2>3. IsSeq(names) /\ Range(names) = DOMAIN m
    BY <2>1, <2>2, SortedFacts
  <2>4. \A k \in 1..N : names[k] \in DOMAIN m
    BY <2>2, <2>3, SeqFacts
  <2>5. ASSUME NEW n \in DOMAIN m
        PROVE  IsSeq(Inheritance(m, n)) /\ Range(Inheritance(m, n)) \subseteq InheritedOffers(m)
    BY InheritanceFacts DEF InheritedOffers
  <2> HIDE DEF N
  <2>6. ASSUME NEW k \in 1..N, NEW r \in Q PROVE Gather(r, Inheritance(m, Sorted(DOMAIN m)[k])) \in Q
    <3>1. PICK n \in DOMAIN m : n = Sorted(DOMAIN m)[k]
      BY <2>2, <2>4
    <3>2. PICK s, t, X : s = r /\ t = Inheritance(m, n) /\ X = InheritedOffers(m)
      OBVIOUS
    <3>3. s \in Seq(X) /\ IsSeq(t) /\ Range(t) \subseteq X
      BY <2>5, <2>6, <3>2
    <3>4. Gather(s, t) \in Seq(X)
      BY <3>3, SeqConcat
    <3>5. QED
      BY <3>1, <3>2, <3>4
  <2>7. QED
    BY <2>6
<1> HIDE DEF Q
<1>4. PICK r \in [0..N -> Q] : r[0] = a /\ \A k \in 1..N : r[k] = F[k][r[k - 1]]
  <2>1. F \in [1..N -> [Q -> Q]] /\ N \in Nat
    BY <1>1, <1>3
  <2>2. ASSUME NEW M \in Nat, NEW G \in [1..M -> [Q -> Q]], NEW x \in Q
        PROVE  \E r \in [0..M -> Q] : r[0] = x /\ \A k \in 1..M : r[k] = G[k][r[k - 1]]
    BY LoopExists
  <2> HIDE DEF N, F, a
  <2>3. QED
    BY <1>2, <2>1, <2>2
<1> HIDE DEF N, a
<1>5. \A k \in 1..N : r[k] = Gather(r[k - 1], Inheritance(m, Sorted(DOMAIN m)[k]))
  <2>1. \A k \in 1..N : r[k - 1] \in Q
    BY <1>1, <1>4
  <2>2. QED
    BY <1>4, <2>1
<1>6. Loop(r)
  <2>1. \A k \in 0..N : r[k] = IF k = 0 THEN a ELSE Gather(r[k - 1], Inheritance(m, Sorted(DOMAIN m)[k]))
    BY <1>1, <1>4, <1>5
  <2>2. QED
    BY <1>4, <2>1 DEF Gather
<1>7. Loop(Inheriting(m))
  BY <1>6 DEF Inheriting, N, a
<1> HIDE DEF F
<1>8. ASSUME NEW t, Loop(t)
      PROVE  t[0] = a /\ \A k \in 1..N : t[k] = Gather(t[k - 1], Inheritance(m, Sorted(DOMAIN m)[k]))
  <2>1. t[0] = a
    BY <1>1, <1>8
  <2>2. ASSUME NEW k \in 1..N PROVE t[k] = Gather(t[k - 1], Inheritance(m, Sorted(DOMAIN m)[k]))
    <3>1. k \in 0..N /\ k # 0
      BY <1>1
    <3>2. QED
      BY <1>8, <3>1 DEF Gather
  <2>3. QED
    BY <2>1, <2>2
<1> HIDE DEF Loop
<1>9. /\ Inheriting(m)[0] = a
      /\ \A k \in 1..N : Inheriting(m)[k] = Gather(Inheriting(m)[k - 1], Inheritance(m, Sorted(DOMAIN m)[k]))
  BY <1>7, <1>8
<1>10. \A k \in 0..N : Inheriting(m)[k] \in Q
  <2>1. \A k \in 1..N : Inheriting(m)[k - 1] \in Q => Inheriting(m)[k] \in Q
    BY <1>3, <1>9
  <2>2. QED
    BY <1>1, <1>2, <1>9, <2>1, Throughout
<1> QED
  BY <1>1, <1>9, <1>10 DEF Q, N, a

\* Everything that is inherited is offered by a property that is named as a parent.
LEMMA InheritancesFacts ==
    ASSUME NEW m \in Maps(PropertyRecord)
    PROVE  IsSeq(Inheritances(m)) /\ Range(Inheritances(m)) \subseteq InheritedOffers(m)
<1>1. Len(Sorted(DOMAIN m)) \in 0..Len(Sorted(DOMAIN m))
  BY InheritingTurns
<1>2. Inheritances(m) \in Seq(InheritedOffers(m))
  BY <1>1, InheritingTurns DEF Inheritances
<1>3. QED
  BY <1>2, SeqIsSeq

-----------------------------------------------------------------------------
(* The ancestors of a class.                                                *)

Walk == [stack : Seq(Name), seen : SUBSET Name, found : Seq(Name)]

LEMMA PushType ==
    ASSUME NEW walk \in Walk, NEW parent \in Name
    PROVE  Push(walk, parent) \in Walk
<1> DEFINE found == Append(walk.found, parent)
           stack == Append(walk.stack, parent)
           seen == walk.seen \cup {parent}
<1>1. /\ walk = [stack |-> walk.stack, seen |-> walk.seen, found |-> walk.found]
      /\ walk.stack \in Seq(Name) /\ walk.seen \in SUBSET Name /\ walk.found \in Seq(Name)
  BY DEF Walk
<1>2. found \in Seq(Name) /\ stack \in Seq(Name) /\ seen \in SUBSET Name
  BY <1>1, AppendProperties
<1>3. Push(walk, parent) = IF parent \in walk.seen THEN walk
                           ELSE [walk EXCEPT !.seen = seen, !.found = found, !.stack = stack]
  BY DEF Push
<1> HIDE DEF found, stack, seen
<1>4. [walk EXCEPT !.seen = seen, !.found = found, !.stack = stack] \in Walk
  BY <1>2 DEF Walk
<1>5. QED
  BY <1>3, <1>4

\* The parents of a class are pushed one by one (owl.rs ancestors_of).
LEMMA PushingTurns ==
    ASSUME NEW walk \in Walk, NEW parents, IsSeq(parents), Range(parents) \subseteq Name
    PROVE  /\ Len(parents) \in Nat /\ Pushing(walk, parents)[0] = walk
           /\ \A k \in 1..Len(parents) : Pushing(walk, parents)[k] = Push(Pushing(walk, parents)[k - 1], parents[k])
           /\ \A k \in 0..Len(parents) : Pushing(walk, parents)[k] \in Walk
<1> DEFINE N == Len(parents)
           Q == Walk
           a == walk
           F == [k \in 1..N |-> [r \in Q |-> Push(r, parents[k])]]
           Loop(t) == t = [k \in 0..N |-> IF k = 0 THEN a
                                          ELSE Push(t[k - 1], parents[k])]
<1>1. N \in Nat
  BY SeqFacts
<1>2. a \in Q
  OBVIOUS
<1>3. \A k \in 1..N : \A r \in Q : Push(r, parents[k]) \in Q
  <2>1. \A k \in 1..N : parents[k] \in Name
    BY SeqFacts
  <2> HIDE DEF N
  <2>2. QED
    BY <2>1, PushType
<1> HIDE DEF Q
<1>4. PICK r \in [0..N -> Q] : r[0] = a /\ \A k \in 1..N : r[k] = F[k][r[k - 1]]
  <2>1. F \in [1..N -> [Q -> Q]] /\ N \in Nat
    BY <1>1, <1>3
  <2>2. ASSUME NEW M \in Nat, NEW G \in [1..M -> [Q -> Q]], NEW x \in Q
        PROVE  \E r \in [0..M -> Q] : r[0] = x /\ \A k \in 1..M : r[k] = G[k][r[k - 1]]
    BY LoopExists
  <2> HIDE DEF N, F, a
  <2>3. QED
    BY <1>2, <2>1, <2>2
<1> HIDE DEF N, a
<1>5. \A k \in 1..N : r[k] = Push(r[k - 1], parents[k])
  <2>1. \A k \in 1..N : r[k - 1] \in Q
    BY <1>1, <1>4
  <2>2. QED
    BY <1>4, <2>1
<1>6. Loop(r)
  <2>1. \A k \in 0..N : r[k] = IF k = 0 THEN a ELSE Push(r[k - 1], parents[k])
    BY <1>1, <1>4, <1>5
  <2>2. QED
    BY <1>4, <2>1
<1>7. Loop(Pushing(walk, parents))
  BY <1>6 DEF Pushing, N, a
<1> HIDE DEF F
<1>8. ASSUME NEW t, Loop(t)
      PROVE  t[0] = a /\ \A k \in 1..N : t[k] = Push(t[k - 1], parents[k])
  <2>1. t[0] = a
    BY <1>1, <1>8
  <2>2. ASSUME NEW k \in 1..N PROVE t[k] = Push(t[k - 1], parents[k])
    <3>1. k \in 0..N /\ k # 0
      BY <1>1
    <3>2. QED
      BY <1>8, <3>1
  <2>3. QED
    BY <2>1, <2>2
<1> HIDE DEF Loop
<1>9. /\ Pushing(walk, parents)[0] = a
      /\ \A k \in 1..N : Pushing(walk, parents)[k] = Push(Pushing(walk, parents)[k - 1], parents[k])
  BY <1>7, <1>8
<1>10. \A k \in 0..N : Pushing(walk, parents)[k] \in Q
  <2>1. \A k \in 1..N : Pushing(walk, parents)[k - 1] \in Q => Pushing(walk, parents)[k] \in Q
    BY <1>3, <1>9
  <2>2. QED
    BY <1>1, <1>2, <1>9, <2>1, Throughout
<1> QED
  BY <1>1, <1>9, <1>10 DEF Q, N, a

LEMMA PopType ==
    ASSUME NEW classes \in Maps(ClassRecord), NEW walk \in Walk
    PROVE  Pop(classes, walk) \in Walk
<1> DEFINE current == Last(walk.stack)
           front == Front(walk.stack)
           popped == [walk EXCEPT !.stack = front]
           parents == classes[current].parents
<1>1. /\ walk = [stack |-> walk.stack, seen |-> walk.seen, found |-> walk.found]
      /\ walk.stack \in Seq(Name) /\ walk.seen \in SUBSET Name /\ walk.found \in Seq(Name)
  BY DEF Walk
<1>2. Pop(classes, walk) = IF walk.stack = <<>> THEN walk
                           ELSE IF current \notin DOMAIN classes THEN popped
                           ELSE Pushing(popped, parents)[Len(parents)]
  BY DEF Pop
<1> HIDE DEF current
<1>3. CASE walk.stack = <<>>
  BY <1>2, <1>3
<1>4. CASE walk.stack # <<>>
  <2>1. front \in Seq(Name)
    <3>1. PICK s : s = walk.stack /\ s \in Seq(Name) /\ s # <<>>
      BY <1>1, <1>4
    <3>2. Len(s) \in Nat /\ Len(s) > 0 /\ \A k \in 1..Len(s) : s[k] \in Name
      BY <3>1, EmptySeq
    <3>3. SubSeq(s, 1, Len(s) - 1) \in Seq(Name)
      BY <3>2, SubSeqProperties, <3>1
    <3>4. QED
      BY <3>1, <3>3 DEF Front
  <2> HIDE DEF front
  <2>2. popped = [stack |-> front, seen |-> walk.seen, found |-> walk.found]
    BY <1>1
  <2>3. popped \in Walk
    BY <1>1, <2>1, <2>2 DEF Walk
  <2> HIDE DEF popped
  <2>4. CASE current \notin DOMAIN classes
    BY <1>2, <1>4, <2>3, <2>4
  <2>5. CASE current \in DOMAIN classes
    <3>1. parents \in Seq(Name)
      <4>1. classes[current] \in ClassRecord
        BY <2>5, MapFacts
      <4>2. QED
        BY <4>1 DEF ClassRecord
    <3> HIDE DEF parents
    <3>2. IsSeq(parents) /\ Range(parents) \subseteq Name
      BY <3>1, SeqIsSeq
    <3>3. Len(parents) \in 0..Len(parents)
      BY <3>2, SeqFacts
    <3>4. Pushing(popped, parents)[Len(parents)] \in Walk
      BY <2>3, <3>2, <3>3, PushingTurns
    <3>5. QED
      BY <1>2, <1>4, <2>5, <3>4
  <2>6. QED
    BY <2>4, <2>5
<1>5. QED
  BY <1>3, <1>4

\* The walk up from a class takes one class from its stack at a time (owl.rs ancestors_of).
LEMMA ClimbingTurns ==
    ASSUME NEW classes \in Maps(ClassRecord), NEW start \in Name
    PROVE  /\ (Len(NameOrder) + 1) \in Nat /\ Climbing(classes, start)[0] = [stack |-> <<start>>, seen |-> {start}, found |-> <<>>]
           /\ \A k \in 1..(Len(NameOrder) + 1) : Climbing(classes, start)[k] = Pop(classes, Climbing(classes, start)[k - 1])
           /\ \A k \in 0..(Len(NameOrder) + 1) : Climbing(classes, start)[k] \in Walk
<1> DEFINE N == (Len(NameOrder) + 1)
           Q == Walk
           a == [stack |-> <<start>>, seen |-> {start}, found |-> <<>>]
           F == [k \in 1..N |-> [r \in Q |-> Pop(classes, r)]]
           Loop(t) == t = [k \in 0..N |-> IF k = 0 THEN a
                                          ELSE Pop(classes, t[k - 1])]
<1>1. N \in Nat
  <2>1. IsSeq(NameOrder)
    BY NameAssumption DEF IsSeq
  <2>2. QED
    BY <2>1, SeqFacts
<1>2. a \in Q
  <2>1. <<start>> \in Seq(Name) /\ <<>> \in Seq(Name)
    BY EmptySeq
  <2>2. QED
    BY <2>1 DEF Walk
<1>3. \A k \in 1..N : \A r \in Q : Pop(classes, r) \in Q
  BY PopType
<1> HIDE DEF Q
<1>4. PICK r \in [0..N -> Q] : r[0] = a /\ \A k \in 1..N : r[k] = F[k][r[k - 1]]
  <2>1. F \in [1..N -> [Q -> Q]] /\ N \in Nat
    BY <1>1, <1>3
  <2>2. ASSUME NEW M \in Nat, NEW G \in [1..M -> [Q -> Q]], NEW x \in Q
        PROVE  \E r \in [0..M -> Q] : r[0] = x /\ \A k \in 1..M : r[k] = G[k][r[k - 1]]
    BY LoopExists
  <2> HIDE DEF N, F, a
  <2>3. QED
    BY <1>2, <2>1, <2>2
<1> HIDE DEF N, a
<1>5. \A k \in 1..N : r[k] = Pop(classes, r[k - 1])
  <2>1. \A k \in 1..N : r[k - 1] \in Q
    BY <1>1, <1>4
  <2>2. QED
    BY <1>4, <2>1
<1>6. Loop(r)
  <2>1. \A k \in 0..N : r[k] = IF k = 0 THEN a ELSE Pop(classes, r[k - 1])
    BY <1>1, <1>4, <1>5
  <2>2. QED
    BY <1>4, <2>1
<1>7. Loop(Climbing(classes, start))
  BY <1>6 DEF Climbing, N, a
<1> HIDE DEF F
<1>8. ASSUME NEW t, Loop(t)
      PROVE  t[0] = a /\ \A k \in 1..N : t[k] = Pop(classes, t[k - 1])
  <2>1. t[0] = a
    BY <1>1, <1>8
  <2>2. ASSUME NEW k \in 1..N PROVE t[k] = Pop(classes, t[k - 1])
    <3>1. k \in 0..N /\ k # 0
      BY <1>1
    <3>2. QED
      BY <1>8, <3>1
  <2>3. QED
    BY <2>1, <2>2
<1> HIDE DEF Loop
<1>9. /\ Climbing(classes, start)[0] = a
      /\ \A k \in 1..N : Climbing(classes, start)[k] = Pop(classes, Climbing(classes, start)[k - 1])
  BY <1>7, <1>8
<1>10. \A k \in 0..N : Climbing(classes, start)[k] \in Q
  <2>1. \A k \in 1..N : Climbing(classes, start)[k - 1] \in Q => Climbing(classes, start)[k] \in Q
    BY <1>3, <1>9
  <2>2. QED
    BY <1>1, <1>2, <1>9, <2>1, Throughout
<1> QED
  BY <1>1, <1>9, <1>10 DEF Q, N, a

LEMMA AncestorsFacts ==
    ASSUME NEW classes \in Maps(ClassRecord), NEW start \in Name
    PROVE  IsSeq(AncestorsOf(classes, start)) /\ Range(AncestorsOf(classes, start)) \subseteq Name
<1>1. Len(NameOrder) + 1 \in 0..(Len(NameOrder) + 1)
  BY ClimbingTurns
<1>2. Climbing(classes, start)[Len(NameOrder) + 1] \in Walk
  BY <1>1, ClimbingTurns
<1>3. AncestorsOf(classes, start) \in Seq(Name)
  BY <1>2 DEF Walk, AncestorsOf
<1>4. QED
  BY <1>3, SeqIsSeq

-----------------------------------------------------------------------------
(* The mapping to a manifest.                                               *)

\* What is made of each element of a sequence is a sequence.
LEMMA ImageIsSeq ==
    ASSUME NEW s, IsSeq(s), NEW f, f = [k \in DOMAIN f |-> f[k]], DOMAIN f = DOMAIN s
    PROVE  IsSeq(f) /\ Len(f) = Len(s)
  BY SeqFacts, TableIsSeq

LEMMA OwlParts ==
    ASSUME NEW owl \in Owl
    PROVE  /\ owl.classes \in Maps(ClassRecord) /\ owl.properties \in Maps(PropertyRecord)
           /\ owl.enumerations \in Maps(Seq(Name))
           /\ DOMAIN owl.classes \subseteq Name /\ DOMAIN owl.properties \subseteq Name
           /\ DOMAIN owl.enumerations \subseteq Name
<1>1. /\ owl.classes \in Maps(ClassRecord) /\ owl.properties \in Maps(PropertyRecord)
      /\ owl.enumerations \in Maps(Seq(Name))
  BY DEF Owl
<1>2. QED
  BY <1>1, MapFacts

\* The manifest names of the classes a domain stands for.
DomainClasses(owl, domain) ==
    {Display[c] : c \in {domain} \cup Range(AncestorsOf(owl.classes, domain))}

\* The class of an attribute is one of the taxonomy, if it has one, and its domain's or
\* one above it.
LEMMA ParentClassFacts ==
    ASSUME NEW owl \in Owl, NEW domain \in MaybeName, NEW displays
    PROVE  LET parent == ParentClass(owl, domain, displays)
           IN  /\ parent \in displays \cup {NoParent}
               /\ parent # NoParent => parent \in DomainClasses(owl, domain)
<1> DEFINE all == <<domain>> \o AncestorsOf(owl.classes, domain)
           S == {n \in Name : Display[n] \in displays}
           held == Only(all, S)
<1>1. ParentClass(owl, domain, displays)
         = IF domain = NoName \/ held = <<>> THEN NoParent ELSE Display[Head(held)]
  BY DEF ParentClass
<1>2. CASE domain = NoName
  BY <1>1, <1>2
<1>3. CASE domain # NoName
  <2>1. domain \in Name
    BY <1>3 DEF MaybeName
  <2>2. PICK up : up = AncestorsOf(owl.classes, domain)
    OBVIOUS
  <2>3. IsSeq(up)
    BY <2>1, <2>2, OwlParts, AncestorsFacts
  <2>4. PICK one : one = <<domain>>
    OBVIOUS
  <2>5. IsSeq(one) /\ Range(one) = {domain}
    BY <2>4, OneFacts
  <2>6. IsSeq(one \o up) /\ Range(one \o up) = Range(one) \cup Range(up)
    BY <2>3, <2>5, ConcatFacts
  <2>7. IsSeq(all) /\ Range(all) = {domain} \cup Range(AncestorsOf(owl.classes, domain))
    BY <2>2, <2>4, <2>5, <2>6
  <2> HIDE DEF all, S
  <2>8. IsSeq(held) /\ Range(held) = Range(all) \cap S
    BY <2>7, OnlyFacts
  <2> HIDE DEF held
  <2>9. CASE held # <<>>
    <3>1. Head(held) \in Range(held)
      BY <2>8, <2>9, HeadTailProperties DEF IsSeq
    <3>2. Head(held) \in S /\ Head(held) \in Range(all)
      BY <2>8, <3>1
    <3>3. Display[Head(held)] \in DomainClasses(owl, domain)
      BY <2>7, <3>2 DEF DomainClasses
    <3>4. QED
      BY <1>1, <1>3, <2>9, <3>2, <3>3 DEF S
  <2>10. QED
    BY <1>1, <2>9
<1>4. QED
  BY <1>2, <1>3

\* Those that are imported, each once.
LEMMA ImportedFacts ==
    ASSUME NEW owl \in Owl, NEW displays
    PROVE  LET names == Imported(owl, displays)
               kept == {n \in DOMAIN owl.properties :
                          ParentClass(owl, owl.properties[n].domain, displays) # NoParent}
           IN  /\ IsSeq(names) /\ Range(names) = kept
               /\ Len(names) = Cardinality(kept) /\ IsFiniteSet(DOMAIN owl.properties)
<1> DEFINE names == Imported(owl, displays)
           kept == {n \in DOMAIN owl.properties :
                      ParentClass(owl, owl.properties[n].domain, displays) # NoParent}
           all == Sorted(DOMAIN owl.properties)
<1>1. DOMAIN owl.properties \in SUBSET Name
  BY OwlParts
<1>2. /\ IsSeq(all) /\ Range(all) = DOMAIN owl.properties /\ IsInjective(all)
      /\ IsFiniteSet(DOMAIN owl.properties)
  BY <1>1, SortedFacts
<1>3. names = Only(all, kept)
  BY DEF Imported
<1>4. kept \subseteq DOMAIN owl.properties
  OBVIOUS
<1> HIDE DEF names, kept, all
<1>5. IsSeq(names) /\ Range(names) = kept /\ IsInjective(names)
  BY <1>2, <1>3, <1>4, OnlyFacts
<1>6. QED
  BY <1>2, <1>5, InjectiveLength DEF names, kept

LEMMA AttributesFacts ==
    ASSUME NEW owl \in Owl, NEW displays
    PROVE  LET seq == Attributes(owl, displays)
           IN  /\ IsSeq(seq)
               /\ \A x \in Range(seq) : x.kind = "attribute" /\ x.parent \in displays
               /\ \A x \in Range(seq) : \E n \in DOMAIN owl.properties :
                     x.name = Display[n] /\ x.parent \in DomainClasses(owl, owl.properties[n].domain)
               /\ \A n \in Range(Imported(owl, displays)) :
                     \E x \in Range(seq) : x.name = Display[n]
<1> DEFINE names == Imported(owl, displays)
           parent(n) == ParentClass(owl, owl.properties[n].domain, displays)
           seq == Attributes(owl, displays)
<1>1. /\ IsSeq(names)
      /\ Range(names) = {n \in DOMAIN owl.properties : parent(n) # NoParent}
  BY ImportedFacts
<1>2. \A n \in DOMAIN owl.properties :
         /\ parent(n) \in displays \cup {NoParent}
         /\ parent(n) # NoParent => parent(n) \in DomainClasses(owl, owl.properties[n].domain)
  <2>1. ASSUME NEW n \in DOMAIN owl.properties PROVE owl.properties[n].domain \in MaybeName
    <3>1. owl.properties[n] \in PropertyRecord
      BY OwlParts, MapFacts
    <3>2. QED
      BY <3>1 DEF PropertyRecord
  <2>2. QED
    BY <2>1, ParentClassFacts
<1>3. seq = [k \in DOMAIN names |-> AttributeElement(names[k], parent(names[k]))]
  BY DEF Attributes
<1> HIDE DEF names, parent
<1>4. /\ DOMAIN seq = DOMAIN names /\ seq = [k \in DOMAIN seq |-> seq[k]]
      /\ \A k \in DOMAIN names : seq[k] = AttributeElement(names[k], parent(names[k]))
  BY <1>3
<1> HIDE DEF seq
<1>5. IsSeq(seq)
  BY <1>1, <1>4, ImageIsSeq
<1>6. \A n, p : /\ AttributeElement(n, p).kind = "attribute"
                /\ AttributeElement(n, p).parent = p /\ AttributeElement(n, p).name = Display[n]
  BY DEF AttributeElement
<1>7. \A k \in DOMAIN names :
         /\ names[k] \in DOMAIN owl.properties /\ parent(names[k]) \in displays
         /\ parent(names[k]) \in DomainClasses(owl, owl.properties[names[k]].domain)
  <2>1. \A k \in DOMAIN names : names[k] \in Range(names)
    BY <1>1, SeqFacts
  <2>2. QED
    BY <1>1, <1>2, <2>1
<1>8. \A x \in Range(seq) : \E k \in DOMAIN names : x = seq[k]
  BY <1>4 DEF Range
<1>9. \A n \in Range(names) : \E x \in Range(seq) : x.name = Display[n]
  <2>1. ASSUME NEW n \in Range(names) PROVE \E x \in Range(seq) : x.name = Display[n]
    <3>1. PICK k \in DOMAIN names : names[k] = n
      BY <1>1, SeqFacts
    <3>2. seq[k] \in Range(seq) /\ seq[k].name = Display[n]
      BY <1>4, <1>6, <3>1 DEF Range
    <3>3. QED
      BY <3>2
  <2>2. QED
    BY <2>1
<1>10. \A x \in Range(seq) :
          /\ x.kind = "attribute" /\ x.parent \in displays
          /\ \E n \in DOMAIN owl.properties :
                x.name = Display[n] /\ x.parent \in DomainClasses(owl, owl.properties[n].domain)
  <2>1. ASSUME NEW x \in Range(seq)
        PROVE  /\ x.kind = "attribute" /\ x.parent \in displays
               /\ \E n \in DOMAIN owl.properties :
                     x.name = Display[n] /\ x.parent \in DomainClasses(owl, owl.properties[n].domain)
    <3>1. PICK k \in DOMAIN names : x = seq[k]
      BY <1>8
    <3>2. x = AttributeElement(names[k], parent(names[k]))
      BY <1>4, <3>1
    <3>3. QED
      BY <1>6, <1>7, <3>2
  <2>2. QED
    BY <2>1
<1>11. QED
  BY <1>5, <1>9, <1>10 DEF names, seq

LEMMA NamesFacts ==
    ASSUME NEW a, NEW b, IsSeq(a), IsSeq(b)
    PROVE  NamesOf(a \o b) = NamesOf(a) \cup NamesOf(b)
<1>1. Range(a \o b) = Range(a) \cup Range(b)
  BY ConcatFacts
<1> QED
  BY <1>1 DEF NamesOf

LEMMA NodesFacts ==
    ASSUME NEW owl, NEW branch, NEW classes \in SUBSET Name
    PROVE  LET seq == Nodes(owl, branch, classes)
           IN  /\ IsSeq(seq)
               /\ \A x \in Range(seq) : \E n \in classes : x = TaxonomyNode(owl, branch, n)
               /\ NamesOf(seq) = {Display[n] : n \in classes}
<1> DEFINE names == Sorted(classes)
           seq == Nodes(owl, branch, classes)
<1>1. IsSeq(names) /\ Range(names) = classes
  BY SortedFacts
<1>2. seq = [k \in DOMAIN names |-> TaxonomyNode(owl, branch, names[k])]
  BY DEF Nodes
<1> HIDE DEF names
<1>3. /\ DOMAIN seq = DOMAIN names /\ seq = [k \in DOMAIN seq |-> seq[k]]
      /\ \A k \in DOMAIN names : seq[k] = TaxonomyNode(owl, branch, names[k])
  BY <1>2
<1> HIDE DEF seq
<1>4. IsSeq(seq)
  BY <1>1, <1>3, ImageIsSeq
<1>5. \A x \in Range(seq) : \E n \in classes : x = TaxonomyNode(owl, branch, n)
  <2>1. ASSUME NEW x \in Range(seq) PROVE \E n \in classes : x = TaxonomyNode(owl, branch, n)
    <3>1. PICK k \in DOMAIN names : x = seq[k]
      BY <1>3 DEF Range
    <3>2. names[k] \in classes
      BY <1>1, SeqFacts
    <3>3. QED
      BY <1>3, <3>1, <3>2
  <2>2. QED
    BY <2>1
<1>6. \A n \in classes : \E x \in Range(seq) : x = TaxonomyNode(owl, branch, n)
  <2>1. ASSUME NEW n \in classes PROVE \E x \in Range(seq) : x = TaxonomyNode(owl, branch, n)
    <3>1. PICK k \in DOMAIN names : names[k] = n
      BY <1>1, SeqFacts
    <3>2. seq[k] \in Range(seq) /\ seq[k] = TaxonomyNode(owl, branch, n)
      BY <1>3, <3>1 DEF Range
    <3>3. QED
      BY <3>2
  <2>2. QED
    BY <2>1
<1>7. \A n : TaxonomyNode(owl, branch, n).name = Display[n]
  BY DEF TaxonomyNode
<1>8. NamesOf(seq) = {Display[n] : n \in classes}
  BY <1>5, <1>6, <1>7 DEF NamesOf
<1>9. QED
  BY <1>4, <1>5, <1>8 DEF seq

LEMMA ClassElementsFacts ==
    ASSUME NEW nodes, IsSeq(nodes)
    PROVE  LET seq == ClassElements(nodes)
           IN  /\ IsSeq(seq) /\ NamesOf(seq) = NamesOf(nodes)
               /\ \A x \in Range(seq) : \E y \in Range(nodes) : x = ClassElement(y)
               /\ \A y \in Range(nodes) : ClassElement(y) \in Range(seq)
<1> DEFINE seq == ClassElements(nodes)
<1>1. seq = [k \in DOMAIN nodes |-> ClassElement(nodes[k])]
  BY DEF ClassElements
<1>2. /\ DOMAIN seq = DOMAIN nodes /\ seq = [k \in DOMAIN seq |-> seq[k]]
      /\ \A k \in DOMAIN nodes : seq[k] = ClassElement(nodes[k])
  BY <1>1
<1> HIDE DEF seq
<1>3. IsSeq(seq)
  BY <1>2, ImageIsSeq
<1>4. \A x \in Range(seq) : \E y \in Range(nodes) : x = ClassElement(y)
  BY <1>2 DEF Range
<1>5. \A y \in Range(nodes) : ClassElement(y) \in Range(seq)
  BY <1>2 DEF Range
<1>6. \A y : ClassElement(y).name = y.name
  BY DEF ClassElement
<1>7. NamesOf(seq) = NamesOf(nodes)
  BY <1>4, <1>5, <1>6 DEF NamesOf
<1>8. QED
  BY <1>3, <1>4, <1>5, <1>7 DEF seq

\* The taxonomy that an import makes of an ontology.
LEMMA TaxonomyFacts ==
    ASSUME NEW owl \in Owl, NEW options,
           TaxonomyNames(owl, options).objects \cup TaxonomyNames(owl, options).actions
              \subseteq DOMAIN owl.classes
    PROVE  LET names == TaxonomyNames(owl, options)
               seq == Taxonomy(owl, options)
           IN  /\ IsSeq(seq)
               /\ NamesOf(seq) = {Display[n] : n \in names.objects \cup names.actions}
               /\ \A x \in Range(seq) : \E n \in names.objects \cup names.actions :
                     \E branch : x = TaxonomyNode(owl, branch, n)
<1> DEFINE o == TaxonomyNames(owl, options).objects
           a == TaxonomyNames(owl, options).actions
           s == Nodes(owl, "object", o)
           t == Nodes(owl, "action", a)
<1>1. Taxonomy(owl, options) = s \o t
  BY DEF Taxonomy
<1>2. o \in SUBSET Name /\ a \in SUBSET Name
  BY OwlParts
<1> HIDE DEF o, a
<1>3. /\ IsSeq(s) /\ NamesOf(s) = {Display[n] : n \in o}
      /\ \A x \in Range(s) : \E n \in o : x = TaxonomyNode(owl, "object", n)
  BY <1>2, NodesFacts
<1>4. /\ IsSeq(t) /\ NamesOf(t) = {Display[n] : n \in a}
      /\ \A x \in Range(t) : \E n \in a : x = TaxonomyNode(owl, "action", n)
  BY <1>2, NodesFacts
<1> HIDE DEF s, t
<1>5. IsSeq(s \o t) /\ Range(s \o t) = Range(s) \cup Range(t)
  BY <1>3, <1>4, ConcatFacts
<1>6. NamesOf(s \o t) = NamesOf(s) \cup NamesOf(t)
  BY <1>3, <1>4, NamesFacts
<1>7. NamesOf(s \o t) = {Display[n] : n \in o \cup a}
  BY <1>3, <1>4, <1>6
<1>8. \A x \in Range(s \o t) : \E n \in o \cup a : \E branch : x = TaxonomyNode(owl, branch, n)
  BY <1>3, <1>4, <1>5
<1>9. QED
  BY <1>1, <1>5, <1>7, <1>8 DEF o, a

\* The code lists: all there is to know is that they are in a sequence.
LEMMA LackFacts ==
    ASSUME NEW min \in Nat, NEW n \in Nat
    PROVE  Lack(min, n) \in Nat /\ Lack(min, n) <= min
  BY DEF Lack

LEMMA ToppedFacts ==
    ASSUME NEW min \in Nat, NEW lists, NEW more, IsSeq(lists), IsSeq(more)
    PROVE  IsSeq(Topped(min, lists, more))
<1>1. PICK n : n = Lack(min, Len(lists))
  OBVIOUS
<1>2. n \in Nat
  BY <1>1, LackFacts, SeqFacts
<1>3. PICK top : top = Upto(more, n)
  OBVIOUS
<1>4. IsSeq(top)
  BY <1>2, <1>3, UptoFacts
<1>5. IsSeq(lists \o top)
  BY <1>4, ConcatFacts
<1>6. QED
  BY <1>1, <1>3, <1>5 DEF Topped

LEMMA FreshListsFacts ==
    ASSUME NEW names, IsSeq(names)
    PROVE  IsSeq(FreshLists(names))
<1>1. /\ DOMAIN FreshLists(names) = DOMAIN names
      /\ FreshLists(names) = [k \in DOMAIN FreshLists(names) |-> FreshLists(names)[k]]
  BY DEF FreshLists
<1>2. QED
  BY <1>1, ImageIsSeq

LEMMA DisplaysFacts ==
    ASSUME NEW classes \in SUBSET Name
    PROVE  IsSeq(Displays(classes))
<1> DEFINE names == Sorted(classes)
<1>1. IsSeq(names)
  BY SortedFacts
<1>2. Displays(classes) = [k \in DOMAIN names |-> Display[names[k]]]
  BY DEF Displays
<1> HIDE DEF names
<1>3. /\ DOMAIN Displays(classes) = DOMAIN names
      /\ Displays(classes) = [k \in DOMAIN Displays(classes) |-> Displays(classes)[k]]
  BY <1>2
<1>4. QED
  BY <1>1, <1>3, ImageIsSeq

LEMMA EnumerationListsFacts ==
    ASSUME NEW owl \in Owl
    PROVE  IsSeq(EnumerationLists(owl))
<1> DEFINE names == Sorted(DOMAIN owl.enumerations)
           seq == EnumerationLists(owl)
<1>1. DOMAIN owl.enumerations \in SUBSET Name
  BY OwlParts
<1>2. IsSeq(names)
  BY <1>1, SortedFacts
<1>3. seq = [k \in DOMAIN names |->
               CodeList(Display[names[k]], {Display[v] : v \in Range(owl.enumerations[names[k]])})]
  BY DEF EnumerationLists
<1> HIDE DEF names
<1>4. DOMAIN seq = DOMAIN names /\ seq = [k \in DOMAIN seq |-> seq[k]]
  BY <1>3
<1> HIDE DEF seq
<1>5. QED
  BY <1>2, <1>4, ImageIsSeq DEF seq

\* The lists for single values.
SingleLists(owl) == UNION {Range(SinglesOf(owl, n)) : n \in DOMAIN owl.enumerations}

LEMMA SinglesOfFacts ==
    ASSUME NEW owl \in Owl, NEW n \in DOMAIN owl.enumerations
    PROVE  IsSeq(SinglesOf(owl, n)) /\ Range(SinglesOf(owl, n)) \subseteq SingleLists(owl)
<1> DEFINE values == owl.enumerations[n]
           seq == SinglesOf(owl, n)
<1>1. values \in Seq(Name)
  BY OwlParts, MapFacts
<1>2. seq = [k \in DOMAIN values |->
               LET v == values[k] IN CodeList(<<Display[n], Display[v]>>, {Display[v]})]
  BY DEF SinglesOf
<1> HIDE DEF values
<1>3. IsSeq(values)
  BY <1>1, SeqIsSeq
<1>4. DOMAIN seq = DOMAIN values /\ seq = [k \in DOMAIN seq |-> seq[k]]
  BY <1>2
<1> HIDE DEF seq
<1>5. IsSeq(seq)
  BY <1>3, <1>4, ImageIsSeq
<1>6. QED
  BY <1>5 DEF seq, SingleLists

\* The lists for single values are made enumeration by enumeration (mapper.rs).
LEMMA SinglesTurns ==
    ASSUME NEW owl \in Owl
    PROVE  /\ Len(Sorted(DOMAIN owl.enumerations)) \in Nat /\ Singles(owl)[0] = <<>>
           /\ \A k \in 1..Len(Sorted(DOMAIN owl.enumerations)) : Singles(owl)[k] = Gather(Singles(owl)[k - 1], SinglesOf(owl, Sorted(DOMAIN owl.enumerations)[k]))
           /\ \A k \in 0..Len(Sorted(DOMAIN owl.enumerations)) : Singles(owl)[k] \in Seq(SingleLists(owl))
<1> DEFINE N == Len(Sorted(DOMAIN owl.enumerations))
           Q == Seq(SingleLists(owl))
           a == <<>>
           F == [k \in 1..N |-> [r \in Q |-> Gather(r, SinglesOf(owl, Sorted(DOMAIN owl.enumerations)[k]))]]
           Loop(t) == t = [k \in 0..N |-> IF k = 0 THEN a
                                          ELSE t[k - 1] \o SinglesOf(owl, Sorted(DOMAIN owl.enumerations)[k])]
<1>1. N \in Nat
  <2>1. DOMAIN owl.enumerations \in SUBSET Name
    BY OwlParts
  <2>2. QED
    BY <2>1, SortedFacts, SeqFacts
<1>2. a \in Q
  BY EmptySeq
<1>3. \A k \in 1..N : \A r \in Q : Gather(r, SinglesOf(owl, Sorted(DOMAIN owl.enumerations)[k])) \in Q
  <2>1. DOMAIN owl.enumerations \in SUBSET Name
    BY OwlParts
  <2>2. PICK names : names = Sorted(DOMAIN owl.enumerations)
    OBVIOUS
  <2>3. IsSeq(names) /\ Range(names) = DOMAIN owl.enumerations
    BY <2>1, <2>2, SortedFacts
  <2>4. \A k \in 1..N : names[k] \in DOMAIN owl.enumerations
    BY <2>2, <2>3, SeqFacts
  <2>5. ASSUME NEW n \in DOMAIN owl.enumerations
        PROVE  IsSeq(SinglesOf(owl, n)) /\ Range(SinglesOf(owl, n)) \subseteq SingleLists(owl)
    BY SinglesOfFacts
  <2> HIDE DEF N
  <2>6. ASSUME NEW k \in 1..N, NEW r \in Q
        PROVE  Gather(r, SinglesOf(owl, Sorted(DOMAIN owl.enumerations)[k])) \in Q
    <3>1. PICK n \in DOMAIN owl.enumerations : n = Sorted(DOMAIN owl.enumerations)[k]
      BY <2>2, <2>4
    <3>2. PICK s, t, X : s = r /\ t = SinglesOf(owl, n) /\ X = SingleLists(owl)
      OBVIOUS
    <3>3. s \in Seq(X) /\ IsSeq(t) /\ Range(t) \subseteq X
      BY <2>5, <2>6, <3>2
    <3>4. Gather(s, t) \in Seq(X)
      BY <3>3, SeqConcat
    <3>5. QED
      BY <3>1, <3>2, <3>4
  <2>7. QED
    BY <2>6
<1> HIDE DEF Q
<1>4. PICK r \in [0..N -> Q] : r[0] = a /\ \A k \in 1..N : r[k] = F[k][r[k - 1]]
  <2>1. F \in [1..N -> [Q -> Q]] /\ N \in Nat
    BY <1>1, <1>3
  <2>2. ASSUME NEW M \in Nat, NEW G \in [1..M -> [Q -> Q]], NEW x \in Q
        PROVE  \E r \in [0..M -> Q] : r[0] = x /\ \A k \in 1..M : r[k] = G[k][r[k - 1]]
    BY LoopExists
  <2> HIDE DEF N, F, a
  <2>3. QED
    BY <1>2, <2>1, <2>2
<1> HIDE DEF N, a
<1>5. \A k \in 1..N : r[k] = Gather(r[k - 1], SinglesOf(owl, Sorted(DOMAIN owl.enumerations)[k]))
  <2>1. \A k \in 1..N : r[k - 1] \in Q
    BY <1>1, <1>4
  <2>2. QED
    BY <1>4, <2>1
<1>6. Loop(r)
  <2>1. \A k \in 0..N : r[k] = IF k = 0 THEN a ELSE Gather(r[k - 1], SinglesOf(owl, Sorted(DOMAIN owl.enumerations)[k]))
    BY <1>1, <1>4, <1>5
  <2>2. QED
    BY <1>4, <2>1 DEF Gather
<1>7. Loop(Singles(owl))
  BY <1>6 DEF Singles, N, a
<1> HIDE DEF F
<1>8. ASSUME NEW t, Loop(t)
      PROVE  t[0] = a /\ \A k \in 1..N : t[k] = Gather(t[k - 1], SinglesOf(owl, Sorted(DOMAIN owl.enumerations)[k]))
  <2>1. t[0] = a
    BY <1>1, <1>8
  <2>2. ASSUME NEW k \in 1..N PROVE t[k] = Gather(t[k - 1], SinglesOf(owl, Sorted(DOMAIN owl.enumerations)[k]))
    <3>1. k \in 0..N /\ k # 0
      BY <1>1
    <3>2. QED
      BY <1>8, <3>1 DEF Gather
  <2>3. QED
    BY <2>1, <2>2
<1> HIDE DEF Loop
<1>9. /\ Singles(owl)[0] = a
      /\ \A k \in 1..N : Singles(owl)[k] = Gather(Singles(owl)[k - 1], SinglesOf(owl, Sorted(DOMAIN owl.enumerations)[k]))
  BY <1>7, <1>8
<1>10. \A k \in 0..N : Singles(owl)[k] \in Q
  <2>1. \A k \in 1..N : Singles(owl)[k - 1] \in Q => Singles(owl)[k] \in Q
    BY <1>3, <1>9
  <2>2. QED
    BY <1>1, <1>2, <1>9, <2>1, Throughout
<1> QED
  BY <1>1, <1>9, <1>10 DEF Q, N, a

LEMMA PadCodeListsFacts ==
    ASSUME NEW owl \in Owl, NEW lists, IsSeq(lists), NEW min \in Nat
    PROVE  IsSeq(PadCodeLists(owl, lists, min))
<1> DEFINE classes == DOMAIN owl.classes
           without(held) == {n \in classes : Display[n] \notin NamesOf(held)}
           codes == FreshLists(Displays(CodeLike \cap without(lists)))
           coded == Topped(min, lists, codes)
           singles == Singles(owl)[Len(Sorted(DOMAIN owl.enumerations))]
           valued == Topped(min, coded, singles)
           rest == FreshLists(Distinct(Displays(without(valued))))
<1>1. PadCodeLists(owl, lists, min) = Topped(min, valued, rest)
  BY DEF PadCodeLists
<1>2. classes \subseteq Name
  BY OwlParts
<1>3. \A held : without(held) \in SUBSET Name /\ CodeLike \cap without(held) \in SUBSET Name
  BY <1>2
<1>4. IsSeq(singles)
  <2>1. Len(Sorted(DOMAIN owl.enumerations)) \in 0..Len(Sorted(DOMAIN owl.enumerations))
    BY SinglesTurns
  <2>2. singles \in Seq(SingleLists(owl))
    BY <2>1, SinglesTurns
  <2> HIDE DEF singles
  <2>3. QED
    BY <2>2, SeqIsSeq
<1> HIDE DEF without, singles
<1>5. IsSeq(codes)
  <2>1. PICK names : names = Displays(CodeLike \cap without(lists))
    OBVIOUS
  <2>2. IsSeq(names)
    BY <1>3, <2>1, DisplaysFacts
  <2>3. QED
    BY <2>1, <2>2, FreshListsFacts
<1> HIDE DEF codes
<1>6. IsSeq(coded)
  BY <1>5, ToppedFacts
<1> HIDE DEF coded
<1>7. IsSeq(valued)
  BY <1>4, <1>6, ToppedFacts
<1> HIDE DEF valued
<1>8. IsSeq(rest)
  <2>1. PICK names : names = Displays(without(valued))
    OBVIOUS
  <2>2. IsSeq(names)
    BY <1>3, <2>1, DisplaysFacts
  <2>3. IsSeq(Distinct(names))
    BY <2>2, DistinctFacts
  <2>4. PICK once : once = Distinct(names)
    OBVIOUS
  <2>5. IsSeq(FreshLists(once))
    BY <2>3, <2>4, FreshListsFacts
  <2>6. QED
    BY <2>1, <2>4, <2>5
<1> HIDE DEF rest
<1>9. IsSeq(Topped(min, valued, rest))
  BY <1>7, <1>8, ToppedFacts
<1>10. QED
  BY <1>1, <1>9

\* A manifest, part by part.
IsManifest(m) ==
    m = [taxonomy |-> m.taxonomy, elements |-> m.elements, code_lists |-> m.code_lists]

InSequence(m) ==
    IsManifest(m) /\ IsSeq(m.taxonomy) /\ IsSeq(m.elements) /\ IsSeq(m.code_lists)

\* That every class the taxonomy has from the ontology is one of it.
NamesHeld(owl, options) ==
    TaxonomyNames(owl, options).objects \cup TaxonomyNames(owl, options).actions \subseteq DOMAIN owl.classes

LEMMA MappedFacts ==
    ASSUME NEW owl \in Owl, NEW options \in Option, NamesHeld(owl, options)
    PROVE  LET m == Mapped(owl, options)
               attributes == Attributes(owl, NamesOf(Taxonomy(owl, options)))
           IN  /\ InSequence(m) /\ m.taxonomy = Taxonomy(owl, options)
               /\ Range(m.elements) = Range(ClassElements(m.taxonomy)) \cup Range(attributes)
<1> DEFINE m == Mapped(owl, options)
           t == Taxonomy(owl, options)
           attributes == Attributes(owl, NamesOf(t))
           classes == ClassElements(t)
           lists == PadCodeLists(owl, EnumerationLists(owl), options.min_code_lists)
<1>1. m = [taxonomy |-> t, elements |-> classes \o attributes, code_lists |-> lists]
  BY DEF Mapped
<1>2. IsSeq(t)
  BY TaxonomyFacts DEF NamesHeld
<1> HIDE DEF t
<1>3. IsSeq(attributes)
  BY AttributesFacts
<1> HIDE DEF attributes
<1>4. IsSeq(classes)
  BY <1>2, ClassElementsFacts
<1> HIDE DEF classes
<1>5. /\ IsSeq(classes \o attributes)
      /\ Range(classes \o attributes) = Range(classes) \cup Range(attributes)
  BY <1>3, <1>4, ConcatFacts
<1>6. IsSeq(lists)
  <2>1. options.min_code_lists \in Nat
    BY DEF Option
  <2>2. PICK min : min = options.min_code_lists
    OBVIOUS
  <2>3. PICK first : first = EnumerationLists(owl)
    OBVIOUS
  <2>4. IsSeq(first)
    BY <2>3, EnumerationListsFacts
  <2>5. IsSeq(PadCodeLists(owl, first, min))
    BY <2>1, <2>2, <2>4, PadCodeListsFacts
  <2>6. QED
    BY <2>2, <2>3, <2>5
<1> HIDE DEF lists, m
<1>7. /\ m.taxonomy = t /\ m.elements = classes \o attributes /\ m.code_lists = lists
      /\ IsManifest(m)
  BY <1>1 DEF IsManifest
<1>8. InSequence(m)
  BY <1>2, <1>5, <1>6, <1>7 DEF InSequence
<1>9. QED
  BY <1>5, <1>7, <1>8 DEF m, t, attributes, classes

\* How many nodes a taxonomy has of a branch.
LEMMA CountFacts ==
    ASSUME NEW seq, IsSeq(seq), NEW branch
    PROVE  CountOf(seq, branch) \in Nat
<1> DEFINE S == {k \in DOMAIN seq : seq[k].branch = branch}
           N == Len(seq)
<1>1. N \in Nat /\ DOMAIN seq = 1..N
  BY SeqFacts
<1> HIDE DEF N
<1>2. IsFiniteSet(1..N) /\ S \subseteq 1..N
  BY <1>1, FS_Interval
<1> HIDE DEF S
<1>3. IsFiniteSet(S)
  BY <1>2, FS_Subset
<1>4. Cardinality(S) \in Nat
  BY <1>3, FS_CardinalityType
<1>5. QED
  BY <1>4 DEF CountOf, S

ObjectNode(k) == [name |-> SyntheticObject(k), branch |-> "object", parent |-> ObjectName]
ActionNode(k) == [name |-> SyntheticAction(k), branch |-> "action", parent |-> ActionName]

LEMMA SyntheticFacts ==
    ASSUME NEW seq, IsSeq(seq), NEW options \in Option
    PROVE  LET nodes == SyntheticNodes(seq, options)
           IN  /\ IsSeq(nodes) /\ NamedOnce(nodes)
               /\ \A x \in Range(nodes) : \E k \in 1..(options.min_objects + options.min_actions) :
                     x = ObjectNode(k) \/ x = ActionNode(k)
<1> DEFINE m == Lack(options.min_objects, CountOf(seq, "object"))
           n == Lack(options.min_actions, CountOf(seq, "action"))
           nodes == SyntheticNodes(seq, options)
           most == options.min_objects + options.min_actions
<1>1. options.min_objects \in Nat /\ options.min_actions \in Nat
  BY DEF Option
<1>2. m \in Nat /\ n \in Nat /\ m + n <= most /\ most \in Nat
  <2>1. PICK c, d, i, j : /\ c = CountOf(seq, "object") /\ d = CountOf(seq, "action")
                          /\ i = options.min_objects /\ j = options.min_actions
    OBVIOUS
  <2>2. c \in Nat /\ d \in Nat /\ i \in Nat /\ j \in Nat
    BY <1>1, <2>1, CountFacts
  <2>3. Lack(i, c) \in Nat /\ Lack(i, c) <= i /\ Lack(j, d) \in Nat /\ Lack(j, d) <= j
    BY <2>2, LackFacts
  <2>4. QED
    BY <2>1, <2>2, <2>3
<1>3. nodes = [k \in 1..(m + n) |-> IF k <= m THEN ObjectNode(k) ELSE ActionNode(k)]
  BY DEF SyntheticNodes, ObjectNode, ActionNode
<1> HIDE DEF m, n, most
<1>4. /\ DOMAIN nodes = 1..(m + n) /\ nodes = [k \in DOMAIN nodes |-> nodes[k]]
      /\ \A k \in 1..(m + n) : nodes[k] = IF k <= m THEN ObjectNode(k) ELSE ActionNode(k)
  BY <1>3
<1> HIDE DEF nodes
<1>5. m + n \in Nat
  BY <1>2
<1>6. IsSeq(nodes)
  BY <1>4, <1>5, TableIsSeq
<1>7. \A k \in 1..(m + n) : k \in 1..most
  BY <1>2
<1>8. ASSUME NEW x \in Range(nodes)
      PROVE  \E k \in 1..most : x = ObjectNode(k) \/ x = ActionNode(k)
  <2>1. PICK k \in 1..(m + n) : x = nodes[k]
    BY <1>4 DEF Range
  <2>2. QED
    BY <1>4, <1>7, <2>1
<1>9. \A j, k \in 1..(m + n) : nodes[j].name = nodes[k].name => j = k
  <2>1. ASSUME NEW j \in 1..(m + n), NEW k \in 1..(m + n), nodes[j].name = nodes[k].name
        PROVE  j = k
    <3>1. /\ nodes[j].name = <<"ImportedObject", j>> \/ nodes[j].name = <<"ImportedAction", j>>
          /\ nodes[k].name = <<"ImportedObject", k>> \/ nodes[k].name = <<"ImportedAction", k>>
      BY <1>4 DEF ObjectNode, ActionNode, SyntheticObject, SyntheticAction
    <3>2. nodes[j].name[2] = j /\ nodes[k].name[2] = k
      BY <3>1
    <3>3. QED
      BY <2>1, <3>2
  <2>2. QED
    BY <2>1
<1>10. NamedOnce(nodes)
  BY <1>4, <1>9 DEF NamedOnce
<1>11. QED
  BY <1>6, <1>8, <1>10 DEF nodes, most

\* What is imported, before the synthetic types are appended.
Merged(owl, options) == IF options.merge THEN MergeSeed(Mapped(owl, options), Core) ELSE Mapped(owl, options)

LEMMA CoreSequences ==
    /\ IsSeq(Core.taxonomy) /\ IsSeq(Core.elements) /\ IsSeq(Core.code_lists)
    /\ NamedOnce(Core.taxonomy) /\ NamedOnce(Core.elements)
    /\ CanLoad(Core) /\ {ObjectName, ActionName} \subseteq NamesOf(Core.taxonomy)
  BY ImportAssumption DEF CoreLoads, IsSeq, NamedOnce

\* A manifest with the core model merged in has each name once.
LEMMA MergedFacts ==
    ASSUME NEW owl \in Owl, NEW options \in Option, NamesHeld(owl, options)
    PROVE  LET m == Merged(owl, options)
               mapped == Mapped(owl, options)
           IN  /\ InSequence(m)
               /\ options.merge =>
                     /\ NamedOnce(m.taxonomy) /\ NamedOnce(m.code_lists)
                     /\ m.taxonomy = Overlay(mapped.taxonomy, Core.taxonomy)
                     /\ m.elements = Overlay(mapped.elements, Core.elements)
               /\ ~options.merge => m = mapped
<1> DEFINE m == Merged(owl, options)
<1>1. PICK a : a = Mapped(owl, options)
  OBVIOUS
<1>2. InSequence(a)
  BY <1>1, MappedFacts
<1>3. CASE options.merge
  <2> DEFINE t == Overlay(a.taxonomy, Core.taxonomy)
             e == Overlay(a.elements, Core.elements)
             c == Overlay(a.code_lists, Core.code_lists)
  <2>1. m = [taxonomy |-> t, elements |-> e, code_lists |-> c]
    BY <1>1, <1>3 DEF Merged, MergeSeed
  <2>2. PICK x, y, z, u, v, w : /\ x = a.taxonomy /\ y = a.elements /\ z = a.code_lists
                                /\ u = Core.taxonomy /\ v = Core.elements /\ w = Core.code_lists
    OBVIOUS
  <2>3. IsSeq(x) /\ IsSeq(y) /\ IsSeq(z) /\ IsSeq(u) /\ IsSeq(v) /\ IsSeq(w)
    BY <1>2, <2>2, CoreSequences DEF InSequence
  <2>4. /\ IsSeq(Overlay(x, u)) /\ NamedOnce(Overlay(x, u))
        /\ IsSeq(Overlay(y, v)) /\ IsSeq(Overlay(z, w)) /\ NamedOnce(Overlay(z, w))
    BY <2>3, OverlayFacts
  <2>5. /\ IsSeq(t) /\ NamedOnce(t) /\ IsSeq(e) /\ IsSeq(c) /\ NamedOnce(c)
    BY <2>2, <2>4
  <2> HIDE DEF t, e, c, m
  <2>6. m.taxonomy = t /\ m.elements = e /\ m.code_lists = c /\ IsManifest(m)
    BY <2>1 DEF IsManifest
  <2>7. InSequence(m) /\ NamedOnce(m.taxonomy) /\ NamedOnce(m.code_lists)
    BY <2>5, <2>6 DEF InSequence
  <2>8. QED
    BY <1>1, <1>3, <2>6, <2>7 DEF m, t, e
<1>4. CASE ~options.merge
  BY <1>1, <1>2, <1>4 DEF Merged
<1>5. QED
  BY <1>3, <1>4

\* What an import that succeeds reports.
LEMMA ImportFacts ==
    ASSUME NEW owl \in Owl, NEW options \in Option, Import(owl, Core, options).ok
    PROVE  LET r == Import(owl, Core, options)
               m == Merged(owl, options)
               nodes == SyntheticNodes(m.taxonomy, options)
               displays == NamesOf(Taxonomy(owl, options))
           IN  /\ NamesHeld(owl, options) /\ InSequence(r.manifest)
               /\ r.manifest.taxonomy = m.taxonomy \o nodes
               /\ r.manifest.elements = m.elements \o ClassElements(nodes)
               /\ r.manifest.code_lists = m.code_lists
               /\ r.imported = Len(Imported(owl, displays))
               /\ r.total = Cardinality(DOMAIN owl.properties)
<1> DEFINE r == Import(owl, Core, options)
           m == Merged(owl, options)
           nodes == SyntheticNodes(m.taxonomy, options)
           displays == NamesOf(Taxonomy(owl, options))
<1>1. NamesHeld(owl, options)
  <2>1. ASSUME ~NamesHeld(owl, options) PROVE FALSE
    <3>1. Import(owl, Core, options) = Failed
      BY <2>1 DEF Import, NamesHeld
    <3>2. QED
      BY <3>1 DEF Failed
  <2>2. QED
    BY <2>1
<1>2. Mapped(owl, options).taxonomy = Taxonomy(owl, options)
  BY <1>1, MappedFacts
<1>3. r = [ok |-> TRUE, imported |-> Len(Imported(owl, NamesOf(Mapped(owl, options).taxonomy))),
           total |-> Cardinality(DOMAIN owl.properties), manifest |-> AppendSynthetic(m, options)]
  BY <1>1 DEF Import, NamesHeld, Merged
<1>4. /\ r.imported = Len(Imported(owl, displays)) /\ r.total = Cardinality(DOMAIN owl.properties)
      /\ r.manifest = AppendSynthetic(m, options)
  BY <1>2, <1>3
<1>5. InSequence(m)
  BY <1>1, MergedFacts
<1> HIDE DEF m, r, displays
<1>6. IsSeq(nodes)
  <2>1. PICK t : t = m.taxonomy
    OBVIOUS
  <2>2. IsSeq(t)
    BY <1>5, <2>1 DEF InSequence
  <2>3. IsSeq(SyntheticNodes(t, options))
    BY <2>2, SyntheticFacts
  <2>4. QED
    BY <2>1, <2>3
<1>7. r.manifest = [m EXCEPT !.taxonomy = @ \o nodes, !.elements = @ \o ClassElements(nodes)]
  BY <1>4 DEF AppendSynthetic
<1> HIDE DEF nodes
<1>8. IsSeq(ClassElements(nodes))
  BY <1>6, ClassElementsFacts
<1>9. PICK t, e, c, x : /\ t = m.taxonomy /\ e = m.elements /\ c = m.code_lists
                        /\ x = ClassElements(nodes)
  OBVIOUS
<1>10. IsSeq(t) /\ IsSeq(e) /\ IsSeq(c) /\ IsSeq(x)
  BY <1>5, <1>8, <1>9 DEF InSequence
<1>11. IsSeq(t \o nodes) /\ IsSeq(e \o x)
  BY <1>6, <1>10, ConcatFacts
<1>12. PICK u, v : u = t \o nodes /\ v = e \o x
  OBVIOUS
<1>13. r.manifest = [taxonomy |-> u, elements |-> v, code_lists |-> c]
  BY <1>5, <1>7, <1>9, <1>12 DEF InSequence, IsManifest
<1>14. /\ r.manifest.taxonomy = u /\ r.manifest.elements = v /\ r.manifest.code_lists = c
       /\ IsManifest(r.manifest)
  BY <1>13 DEF IsManifest
<1>15. InSequence(r.manifest)
  BY <1>10, <1>11, <1>12, <1>14 DEF InSequence
<1>16. QED
  BY <1>1, <1>4, <1>9, <1>12, <1>14, <1>15 DEF r, m, nodes, displays

LEMMA LackingFacts ==
    ASSUME NEW held, NEW seq, IsSeq(seq)
    PROVE  IsSeq(Lacking(held, seq)) /\ Range(Lacking(held, seq)) \subseteq Range(seq)
           /\ \A x \in Range(Lacking(held, seq)) : x.name \notin NamesOf(held)
<1> DEFINE S == {x \in Range(seq) : x.name \in MetadataNames \ NamesOf(held)}
<1>1. Lacking(held, seq) = Only(seq, S)
  BY DEF Lacking
<1>2. \A x \in S : x \in Range(seq) /\ x.name \notin NamesOf(held)
  OBVIOUS
<1> HIDE DEF S
<1>3. IsSeq(Only(seq, S)) /\ Range(Only(seq, S)) = Range(seq) \cap S
  BY OnlyFacts
<1>4. QED
  BY <1>1, <1>2, <1>3

\* The manifest with the metadata classes of the core model.
LEMMA WithMetadataFacts ==
    ASSUME NEW m, InSequence(m)
    PROVE  LET w == WithMetadata(m, Core)
           IN  /\ InSequence(w)
               /\ w.taxonomy = m.taxonomy \o Lacking(m.taxonomy, Core.taxonomy)
               /\ w.elements = m.elements \o Lacking(m.elements, Core.elements)
               /\ w.code_lists = m.code_lists
<1> DEFINE w == WithMetadata(m, Core)
<1>1. w = [m EXCEPT !.taxonomy = @ \o Lacking(@, Core.taxonomy),
                    !.elements = @ \o Lacking(@, Core.elements)]
  BY DEF WithMetadata
<1> HIDE DEF w
<1>2. PICK t, e, c, x, y : /\ t = m.taxonomy /\ e = m.elements /\ c = m.code_lists
                           /\ x = Lacking(m.taxonomy, Core.taxonomy)
                           /\ y = Lacking(m.elements, Core.elements)
  OBVIOUS
<1>3. IsSeq(x) /\ IsSeq(y)
  BY <1>2, CoreSequences, LackingFacts
<1>4. IsSeq(t) /\ IsSeq(e) /\ IsSeq(c)
  BY <1>2 DEF InSequence
<1>5. IsSeq(t \o x) /\ IsSeq(e \o y)
  BY <1>3, <1>4, ConcatFacts
<1>6. PICK u, v : u = t \o x /\ v = e \o y
  OBVIOUS
<1>7. w = [taxonomy |-> u, elements |-> v, code_lists |-> c]
  BY <1>1, <1>2, <1>6 DEF InSequence, IsManifest
<1>8. w.taxonomy = u /\ w.elements = v /\ w.code_lists = c /\ IsManifest(w)
  BY <1>7 DEF IsManifest
<1>9. InSequence(w)
  BY <1>4, <1>5, <1>6, <1>8 DEF InSequence
<1>10. QED
  BY <1>2, <1>6, <1>8, <1>9 DEF w

-----------------------------------------------------------------------------
(* The stages of an import.                                                 *)

\* What is known at each stage: a report is that of the ontology read, the registry
\* that of the manifest reported, and a manifest is refused only if it cannot load.
Stage ==
    /\ parser \in ParserState /\ opts \in Options
    /\ phase \in {"reading", "resolving", "resolved", "written", "loaded", "refused"}
    /\ phase \in {"written", "loaded", "refused"} => report = Import(parser.owl, Core, opts)
    /\ phase \in {"written", "loaded"} => report.ok
    /\ phase = "loaded" => registry = RegistryOf(Loaded) /\ CanLoad(Loaded)
    /\ phase = "refused" /\ report.ok => ~CanLoad(Loaded)
    /\ check.at # "idle" => phase = "loaded"

LEMMA DeclarationsTyped ==
    ASSUME NEW d \in Declarations
    PROVE  d \in Declaration
  BY ImportAssumption

LEMMA ReadType ==
    ASSUME NEW p \in ParserState, NEW d \in Declaration
    PROVE  Reading(p, Events(d))[Len(Events(d))] \in ParserState
<1>1. PICK events : events = Events(d)
  OBVIOUS
<1>2. IsSeq(events) /\ Range(events) \subseteq XmlEvent
  BY <1>1, EventsFacts
<1>3. Len(events) \in 0..Len(events)
  BY <1>2, SeqFacts
<1>4. Reading(p, events)[Len(events)] \in ParserState
  BY <1>2, <1>3, ReadingTurns
<1>5. QED
  BY <1>1, <1>4

\* The properties after a turn of the resolution.
TurnedBy(properties) ==
    AcceptAll(AcceptAll(properties, InverseOffers(properties)),
              Inheritances(AcceptAll(properties, InverseOffers(properties))))

LEMMA TurnType ==
    ASSUME NEW m \in Maps(PropertyRecord)
    PROVE  TurnedBy(m) \in Maps(PropertyRecord)
<1>1. PICK offers : offers = InverseOffers(m)
  OBVIOUS
<1>2. IsSeq(offers) /\ Range(offers) \subseteq OfferRecord
  BY <1>1, InverseOffersFacts
<1>3. AcceptAll(m, offers) \in Maps(PropertyRecord)
  BY <1>2, AcceptAllFacts
<1>4. PICK turned \in Maps(PropertyRecord) : turned = AcceptAll(m, offers)
  BY <1>3
<1>5. PICK more : more = Inheritances(turned)
  OBVIOUS
<1>6. IsSeq(more) /\ Range(more) \subseteq OfferRecord
  BY <1>5, InheritancesFacts DEF InheritedOffers
<1>7. AcceptAll(turned, more) \in Maps(PropertyRecord)
  BY <1>6, AcceptAllFacts
<1>8. QED
  BY <1>1, <1>4, <1>5, <1>7 DEF TurnedBy

\* The parser's state with other properties that have at least the names.
LEMMA PropertiesReplaced ==
    ASSUME NEW p \in ParserState, NEW m \in Maps(PropertyRecord),
           DOMAIN p.owl.properties \subseteq DOMAIN m
    PROVE  LET s == [p EXCEPT !.owl.properties = m]
           IN  /\ s \in ParserState /\ s.owl.properties = m
               /\ s.owl.classes = p.owl.classes /\ s.owl.enumerations = p.owl.enumerations
<1>0. HasParts(p) /\ PartsTyped(p)
  BY ParserStateParts
<1> DEFINE s == [p EXCEPT !.owl.properties = m]
<1>1. s = [owl |-> [classes |-> p.owl.classes, properties |-> m,
                    enumerations |-> p.owl.enumerations],
           class |-> p.class, property |-> p.property, domain |-> p.domain, range |-> p.range,
           in_one_of |-> p.in_one_of, owner |-> p.owner, values |-> p.values]
  BY <1>0 DEF HasParts
<1> HIDE DEF s
<1>2. s \in ParserState
  BY <1>0, <1>1, ParserStateParts DEF HasParts, PartsTyped
<1>3. QED
  BY <1>1, <1>2 DEF s

LEMMA TurnKeepsNames ==
    ASSUME NEW m \in Maps(PropertyRecord)
    PROVE  DOMAIN m \subseteq DOMAIN TurnedBy(m)
<1>1. PICK offers : offers = InverseOffers(m)
  OBVIOUS
<1>2. IsSeq(offers) /\ Range(offers) \subseteq OfferRecord
  BY <1>1, InverseOffersFacts
<1>3. /\ AcceptAll(m, offers) \in Maps(PropertyRecord)
      /\ DOMAIN AcceptAll(m, offers) = DOMAIN m \cup {o.to : o \in Range(offers)}
  BY <1>2, AcceptAllFacts DEF Accepted
<1>4. PICK turned \in Maps(PropertyRecord) : turned = AcceptAll(m, offers)
  BY <1>3
<1>5. PICK more : more = Inheritances(turned)
  OBVIOUS
<1>6. IsSeq(more) /\ Range(more) \subseteq OfferRecord
  BY <1>5, InheritancesFacts DEF InheritedOffers
<1>7. DOMAIN AcceptAll(turned, more) = DOMAIN turned \cup {o.to : o \in Range(more)}
  BY <1>6, AcceptAllFacts DEF Accepted
<1>8. QED
  BY <1>1, <1>3, <1>4, <1>5, <1>7 DEF TurnedBy

LEMMA InitialParser == NewParser \in ParserState
<1>1. NewParser = [owl |-> [classes |-> <<>>, properties |-> <<>>, enumerations |-> <<>>],
                   class |-> NoName, property |-> NoName, domain |-> NoName, range |-> NoName,
                   in_one_of |-> FALSE, owner |-> NoName, values |-> <<>>]
  BY DEF NewParser, EmptyOwl
<1>2. DOMAIN <<>> = {} /\ <<>> \in [{} -> ClassRecord] /\ <<>> \in [{} -> PropertyRecord]
      /\ <<>> \in [{} -> Seq(Name)] /\ <<>> \in Seq(Name)
  BY EmptySeq
<1>3. <<>> \in Maps(ClassRecord) /\ <<>> \in Maps(PropertyRecord) /\ <<>> \in Maps(Seq(Name))
  BY <1>2, MapFacts
<1>4. HasParts(NewParser)
  BY <1>1 DEF HasParts
<1>5. PartsTyped(NewParser)
  BY <1>1, <1>2, <1>3 DEF PartsTyped, MaybeName
<1>6. QED
  BY <1>4, <1>5, ParserStateParts

LEMMA StageStarts == Init => Stage
<1> SUFFICES ASSUME Init PROVE Stage
  OBVIOUS
<1>1. parser \in ParserState
  BY InitialParser DEF Init
<1>2. check.at = "idle" /\ phase = "reading" /\ opts \in Options
  BY DEF Init, NoCheck
<1>3. QED
  BY <1>1, <1>2 DEF Stage

LEMMA StageKept == Stage /\ [Next]_vars => Stage'
<1> SUFFICES ASSUME Stage, [Next]_vars PROVE Stage'
  OBVIOUS
<1>1. ASSUME NEW d \in Declarations, Read(d) PROVE Stage'
  <2>1. parser' \in ParserState
    BY <1>1, DeclarationsTyped, ReadType DEF Read, Stage
  <2>2. phase = "reading" /\ phase' = "reading" /\ opts' = opts /\ check' = check
    BY <1>1 DEF Read
  <2>3. check'.at = "idle"
    BY <2>2 DEF Stage
  <2>4. QED
    BY <2>1, <2>2, <2>3 DEF Stage
<1>2. CASE EndDocument
  <2>1. /\ phase = "reading" /\ phase' = "resolving" /\ opts' = opts /\ check' = check
        /\ parser' = parser
    BY <1>2 DEF EndDocument
  <2>2. check'.at = "idle"
    BY <2>1 DEF Stage
  <2>3. QED
    BY <2>1, <2>2 DEF Stage
<1>3. CASE Resolve
  <2>1. /\ phase = "resolving" /\ phase' \in {"resolving", "resolved"}
        /\ opts' = opts /\ check' = check
        /\ parser' = [parser EXCEPT !.owl.properties = TurnedBy(parser.owl.properties)]
    BY <1>3 DEF Resolve, TurnedBy
  <2>2. parser \in ParserState /\ parser.owl.properties \in Maps(PropertyRecord)
    BY ParserStateParts DEF Stage, PartsTyped
  <2>3. PICK m : m = TurnedBy(parser.owl.properties)
    OBVIOUS
  <2>4. m \in Maps(PropertyRecord) /\ DOMAIN parser.owl.properties \subseteq DOMAIN m
    BY <2>2, <2>3, TurnType, TurnKeepsNames
  <2>5. parser' \in ParserState
    BY <2>1, <2>2, <2>3, <2>4, PropertiesReplaced
  <2>6. check'.at = "idle"
    BY <2>1 DEF Stage
  <2>7. QED
    BY <2>1, <2>5, <2>6 DEF Stage
<1>4. CASE WriteManifest
  <2>1. /\ phase = "resolved" /\ opts' = opts /\ check' = check /\ parser' = parser
        /\ report' = Import(parser.owl, Core, opts)
        /\ phase' = IF report'.ok THEN "written" ELSE "refused"
    BY <1>4 DEF WriteManifest
  <2>2. check'.at = "idle"
    BY <2>1 DEF Stage
  <2>3. QED
    BY <2>1, <2>2 DEF Stage
<1>5. CASE Load
  <2>1. /\ phase = "written" /\ opts' = opts /\ check' = check /\ parser' = parser
        /\ report' = report /\ phase' = IF CanLoad(Loaded) THEN "loaded" ELSE "refused"
        /\ registry' = IF CanLoad(Loaded) THEN RegistryOf(Loaded) ELSE registry
    BY <1>5 DEF Load
  <2>2. Loaded' = Loaded
    BY <2>1 DEF Loaded
  <2>3. check'.at = "idle"
    BY <2>1 DEF Stage
  <2>4. QED
    BY <2>1, <2>2, <2>3 DEF Stage
<1>6. ASSUME /\ phase' = phase /\ opts' = opts /\ parser' = parser
             /\ report' = report /\ registry' = registry
             /\ check.at # "idle" \/ phase = "loaded" \/ check' = check
      PROVE  Stage'
  <2>1. Loaded' = Loaded
    BY <1>6 DEF Loaded
  <2>2. QED
    BY <1>6, <2>1 DEF Stage
<1>7. ASSUME NEW i \in Instances, StartValidation(i) PROVE Stage'
  BY <1>6, <1>7 DEF StartValidation
<1>8. CASE Climb
  BY <1>6, <1>8 DEF Climb
<1>9. CASE Conclude
  BY <1>6, <1>9 DEF Conclude
<1>10. CASE UNCHANGED vars
  BY <1>6, <1>10 DEF vars
<1>11. QED
  BY <1>1, <1>2, <1>3, <1>4, <1>5, <1>7, <1>8, <1>9, <1>10 DEF Next

\* The manifest that is loaded is made of sequences.
LEMMA LoadedFacts ==
    ASSUME Stage, phase \in {"written", "loaded", "refused"}, report.ok
    PROVE  /\ parser.owl \in Owl /\ opts \in Option /\ report = Import(parser.owl, Core, opts)
           /\ InSequence(report.manifest) /\ InSequence(Loaded)
           /\ Loaded.taxonomy
                 = report.manifest.taxonomy \o Lacking(report.manifest.taxonomy, Core.taxonomy)
           /\ Loaded.elements
                 = report.manifest.elements \o Lacking(report.manifest.elements, Core.elements)
           /\ Loaded.code_lists = report.manifest.code_lists
<1>1. parser.owl \in Owl /\ opts \in Option /\ report = Import(parser.owl, Core, opts)
  BY ImportAssumption DEF Stage, ParserState
<1>2. InSequence(report.manifest)
  BY <1>1, ImportFacts
<1>3. PICK m : m = report.manifest
  OBVIOUS
<1>4. LET w == WithMetadata(m, Core)
      IN  /\ InSequence(w)
          /\ w.taxonomy = m.taxonomy \o Lacking(m.taxonomy, Core.taxonomy)
          /\ w.elements = m.elements \o Lacking(m.elements, Core.elements)
          /\ w.code_lists = m.code_lists
  BY <1>2, <1>3, WithMetadataFacts
<1>5. QED
  BY <1>1, <1>2, <1>3, <1>4 DEF Loaded

LEMMA RegistryParts ==
    ASSUME NEW m
    PROVE  /\ RegistryOf(m).elements = ByName(m.elements)
           /\ RegistryOf(m).taxonomy = ByName(m.taxonomy)
           /\ RegistryOf(m).code_lists = ByName(m.code_lists)
  BY DEF RegistryOf

LEMMA NamesFinite ==
    ASSUME NEW seq, IsSeq(seq)
    PROVE  IsFiniteSet(NamesOf(seq))
<1>1. IsFiniteSet(Range(seq))
  BY InjectiveLength
<1>2. PICK S : S = Range(seq) /\ IsFiniteSet(S)
  BY <1>1
<1> DEFINE f == [x \in S |-> x.name]
           T == {x.name : x \in S}
<1>3. f \in Surjection(S, T)
  BY DEF Surjection
<1> HIDE DEF f, T
<1>4. IsFiniteSet(T)
  BY <1>2, <1>3, FS_Surjection
<1>5. QED
  BY <1>2, <1>4 DEF T, NamesOf

LEMMA MostClassesFacts ==
    ASSUME Stage, phase = "loaded"
    PROVE  /\ MostClasses \in Nat
           /\ IsFiniteSet(DOMAIN registry.taxonomy \cup DOMAIN registry.elements)
<1>1. InSequence(Loaded) /\ registry = RegistryOf(Loaded)
  BY LoadedFacts DEF Stage
<1>2. PICK t, e : t = Loaded.taxonomy /\ e = Loaded.elements
  OBVIOUS
<1>3. IsSeq(t) /\ IsSeq(e)
  BY <1>1, <1>2 DEF InSequence
<1>4. DOMAIN ByName(t) = NamesOf(t) /\ DOMAIN ByName(e) = NamesOf(e)
  BY <1>3, ByNameFacts
<1>5. DOMAIN registry.taxonomy = NamesOf(t) /\ DOMAIN registry.elements = NamesOf(e)
  BY <1>1, <1>2, <1>4, RegistryParts
<1>6. IsFiniteSet(NamesOf(t)) /\ IsFiniteSet(NamesOf(e))
  BY <1>3, NamesFinite
<1>7. IsFiniteSet(DOMAIN registry.taxonomy \cup DOMAIN registry.elements)
  BY <1>5, <1>6, FS_Union
<1>8. Cardinality(DOMAIN registry.taxonomy \cup DOMAIN registry.elements) \in Nat
  BY <1>7, FS_CardinalityType
<1>9. QED
  BY <1>7, <1>8 DEF MostClasses

-----------------------------------------------------------------------------
(* The validation.                                                          *)

AllUp(S) == UNION {Up(c) : c \in S}

UpIsIn(C) == \A c \in C : Up(c) \subseteq C

\* From a class a turn never leads out of a set that has the class above each of its own.
LEMMA AboveTurns ==
    ASSUME NEW class, NEW C, class \in C, UpIsIn(C), MostClasses \in Nat
    PROVE  /\ MostClasses \in Nat /\ Above(class)[0] = {class}
           /\ \A k \in 1..MostClasses : Above(class)[k] = AllUp(Above(class)[k - 1])
           /\ \A k \in 0..MostClasses : Above(class)[k] \in (SUBSET C)
<1> DEFINE N == MostClasses
           Q == (SUBSET C)
           a == {class}
           F == [k \in 1..N |-> [r \in Q |-> AllUp(r)]]
           Loop(t) == t = [k \in 0..N |-> IF k = 0 THEN a
                                          ELSE UNION {Up(c) : c \in t[k - 1]}]
<1>1. N \in Nat
  OBVIOUS
<1>2. a \in Q
  OBVIOUS
<1>3. \A k \in 1..N : \A r \in Q : AllUp(r) \in Q
  BY DEF AllUp, UpIsIn
<1> HIDE DEF Q
<1>4. PICK r \in [0..N -> Q] : r[0] = a /\ \A k \in 1..N : r[k] = F[k][r[k - 1]]
  <2>1. F \in [1..N -> [Q -> Q]] /\ N \in Nat
    BY <1>1, <1>3
  <2>2. ASSUME NEW M \in Nat, NEW G \in [1..M -> [Q -> Q]], NEW x \in Q
        PROVE  \E r \in [0..M -> Q] : r[0] = x /\ \A k \in 1..M : r[k] = G[k][r[k - 1]]
    BY LoopExists
  <2> HIDE DEF N, F, a
  <2>3. QED
    BY <1>2, <2>1, <2>2
<1> HIDE DEF N, a
<1>5. \A k \in 1..N : r[k] = AllUp(r[k - 1])
  <2>1. \A k \in 1..N : r[k - 1] \in Q
    BY <1>1, <1>4
  <2>2. QED
    BY <1>4, <2>1
<1>6. Loop(r)
  <2>1. \A k \in 0..N : r[k] = IF k = 0 THEN a ELSE AllUp(r[k - 1])
    BY <1>1, <1>4, <1>5
  <2>2. QED
    BY <1>4, <2>1 DEF AllUp
<1>7. Loop(Above(class))
  BY <1>6 DEF Above, N, a
<1> HIDE DEF F
<1>8. ASSUME NEW t, Loop(t)
      PROVE  t[0] = a /\ \A k \in 1..N : t[k] = AllUp(t[k - 1])
  <2>1. t[0] = a
    BY <1>1, <1>8
  <2>2. ASSUME NEW k \in 1..N PROVE t[k] = AllUp(t[k - 1])
    <3>1. k \in 0..N /\ k # 0
      BY <1>1
    <3>2. QED
      BY <1>8, <3>1 DEF AllUp
  <2>3. QED
    BY <2>1, <2>2
<1> HIDE DEF Loop
<1>9. /\ Above(class)[0] = a
      /\ \A k \in 1..N : Above(class)[k] = AllUp(Above(class)[k - 1])
  BY <1>7, <1>8
<1>10. \A k \in 0..N : Above(class)[k] \in Q
  <2>1. \A k \in 1..N : Above(class)[k - 1] \in Q => Above(class)[k] \in Q
    BY <1>3, <1>9
  <2>2. QED
    BY <1>1, <1>2, <1>9, <2>1, Throughout
<1> QED
  BY <1>1, <1>9, <1>10 DEF Q, N, a

\* The classes that the validation under way has found, with the one it is at, are the
\* instance's class and with each but the last the one above it.
Climbed ==
    LET C == check.classes \cup {check.current} IN
    check.at = "climb" =>
        /\ check.instance.class \in C
        /\ \A c \in check.classes : Up(c) \subseteq C

\* In the end they are all there are, and what they ask for is there.
Concluded ==
    check.at = "done" /\ check.valid =>
        /\ check.instance.class \in check.classes \cup {NoParent}
        /\ \A c \in check.classes : Up(c) \subseteq check.classes \cup {NoParent}
        /\ AttributesHold

CheckHasParts ==
    /\ check.at \in {"idle", "climb", "done"}
    /\ DOMAIN check = {"at", "instance", "current", "classes", "valid"}

Validating == Stage /\ CheckHasParts /\ Climbed /\ Concluded

LEMMA ValidatingStarts == Init => Validating
<1> SUFFICES ASSUME Init PROVE Validating
  OBVIOUS
<1>1. Stage
  BY StageStarts
<1>2. check.at = "idle" /\ DOMAIN check = {"at", "instance", "current", "classes", "valid"}
  BY DEF Init, NoCheck
<1>3. QED
  BY <1>1, <1>2 DEF Validating, CheckHasParts, Climbed, Concluded

LEMMA ValidatingKept == Validating /\ [Next]_vars => Validating'
<1> SUFFICES ASSUME Validating, [Next]_vars PROVE Validating'
  OBVIOUS
<1>1. Stage'
  BY StageKept DEF Validating
<1>2. ASSUME registry' = registry, check' = check PROVE Validating'
  <2>1. Climbed' = Climbed /\ Concluded' = Concluded
    BY <1>2 DEF Climbed, Concluded, Up, AttributesHold
  <2>2. QED
    BY <1>1, <1>2, <2>1 DEF Validating, CheckHasParts
<1>3. CASE Load
  <2>1. check' = check /\ check.at = "idle"
    BY <1>3 DEF Load, Validating, Stage, CheckHasParts
  <2>2. QED
    BY <1>1, <2>1 DEF Validating, CheckHasParts, Climbed, Concluded
<1>4. ASSUME NEW i \in Instances, StartValidation(i) PROVE Validating'
  <2>1. CASE Knows(registry, i.class)
    <3>1. check' = [at |-> "climb", instance |-> i, current |-> i.class,
                    classes |-> {}, valid |-> FALSE]
      BY <1>4, <2>1 DEF StartValidation
    <3>2. /\ check'.at = "climb" /\ check'.instance = i /\ check'.current = i.class
          /\ check'.classes = {} /\ DOMAIN check' = {"at", "instance", "current", "classes", "valid"}
      BY <3>1
    <3>3. QED
      BY <1>1, <3>2 DEF Validating, CheckHasParts, Climbed, Concluded
  <2>2. CASE ~Knows(registry, i.class)
    <3>1. check' = [NoCheck EXCEPT !.at = "done", !.instance = i]
      BY <1>4, <2>2 DEF StartValidation
    <3>2. /\ check'.at = "done" /\ ~check'.valid
          /\ DOMAIN check' = {"at", "instance", "current", "classes", "valid"}
      BY <3>1 DEF NoCheck
    <3>3. QED
      BY <1>1, <3>2 DEF Validating, CheckHasParts, Climbed, Concluded
  <2>3. QED
    BY <2>1, <2>2
<1>5. CASE Climb
  <2> DEFINE found == check.classes \cup {check.current}
             above == ParentOf(registry, check.current)
  <2>1. /\ check.at = "climb" /\ check.current # NoParent /\ registry' = registry
        /\ check' = [check EXCEPT !.classes = found, !.current = above]
    BY <1>5 DEF Climb
  <2>2. DOMAIN check = {"at", "instance", "current", "classes", "valid"}
    BY DEF Validating, CheckHasParts
  <2>3. /\ check'.at = "climb" /\ check'.instance = check.instance /\ check'.current = above
        /\ check'.classes = found /\ DOMAIN check' = {"at", "instance", "current", "classes", "valid"}
    BY <2>1, <2>2
  <2>4. Up(check.current) = {check.current, above}
    BY <2>1 DEF Up
  <2>5. /\ check.instance.class \in found
        /\ \A c \in check.classes : Up(c) \subseteq found
    BY <2>1 DEF Validating, Climbed
  <2>6. \A c \in found : Up(c) \subseteq found \cup {above}
    BY <2>4, <2>5
  <2>7. \A c : Up(c)' = Up(c)
    BY <2>1 DEF Up
  <2> HIDE DEF found, above
  <2>8. Climbed'
    BY <2>3, <2>5, <2>6, <2>7 DEF Climbed
  <2>9. QED
    BY <1>1, <2>3, <2>8 DEF Validating, CheckHasParts, Concluded
<1>6. CASE Conclude
  <2>1. /\ check.at = "climb" /\ check.current = NoParent /\ registry' = registry
        /\ check' = [check EXCEPT !.at = "done", !.valid = AttributesHold]
    BY <1>6 DEF Conclude
  <2>2. DOMAIN check = {"at", "instance", "current", "classes", "valid"}
    BY DEF Validating, CheckHasParts
  <2>3. /\ check'.at = "done" /\ check'.instance = check.instance
        /\ check'.classes = check.classes /\ (check'.valid <=> AttributesHold)
        /\ DOMAIN check' = {"at", "instance", "current", "classes", "valid"}
    BY <2>1, <2>2
  <2>4. /\ check.instance.class \in check.classes \cup {NoParent}
        /\ \A c \in check.classes : Up(c) \subseteq check.classes \cup {NoParent}
    BY <2>1 DEF Validating, Climbed
  <2>5. \A c : Up(c)' = Up(c)
    BY <2>1 DEF Up
  <2>6. AttributesHold' <=> AttributesHold
    BY <2>1, <2>3 DEF AttributesHold
  <2>7. Concluded'
    BY <2>3, <2>4, <2>5, <2>6 DEF Concluded
  <2>8. QED
    BY <1>1, <2>3, <2>7 DEF Validating, CheckHasParts, Climbed
<1>7. QED
  BY <1>2, <1>3, <1>4, <1>5, <1>6
     DEF Next, vars, Read, EndDocument, Resolve, WriteManifest

LEMMA CompleteWhenDone == Validating => ValidationIsComplete
<1> SUFFICES ASSUME Validating, check.at = "done", check.valid,
                    NEW a \in DOMAIN registry.elements,
                    registry.elements[a].kind = "attribute", registry.elements[a].mandatory,
                    registry.elements[a].parent \in ClassesAbove(check.instance.class) \ {NoParent}
             PROVE  a \in check.instance.properties
  BY DEF ValidationIsComplete
<1>1. PICK C, class : C = check.classes \cup {NoParent} /\ class = check.instance.class
  OBVIOUS
<1>2. class \in C /\ UpIsIn(C) /\ AttributesHold
  BY <1>1 DEF Validating, Concluded, Up, UpIsIn
<1>3. MostClasses \in Nat
  BY MostClassesFacts DEF Validating, Stage
<1>4. MostClasses \in 0..MostClasses
  BY <1>3
<1>5. Above(class)[MostClasses] \in SUBSET C
  BY <1>2, <1>3, <1>4, AboveTurns
<1>6. registry.elements[a].parent \in check.classes
  BY <1>1, <1>5 DEF ClassesAbove
<1>7. a \in AttributesFor(registry, registry.elements[a].parent)
  BY DEF AttributesFor
<1>8. QED
  BY <1>2, <1>6, <1>7 DEF AttributesHold

\* ValidationIsComplete, for every registry a stack may have: an instance that the
\* validator passes has every mandatory attribute of its class and those above, however
\* many they are (validate.rs validate_required_attributes, registry.rs ancestors_of).
THEOREM ValidationComplete == Spec => []ValidationIsComplete
<1>1. Init => Validating
  BY ValidatingStarts
<1>2. Validating /\ [Next]_vars => Validating'
  BY ValidatingKept
<1>3. Validating => ValidationIsComplete
  BY CompleteWhenDone
<1>4. QED
  BY <1>1, <1>2, <1>3, PTL DEF Spec

-----------------------------------------------------------------------------
(* The coverage that is asked for.                                          *)

LEMMA NamedOnceConcat ==
    ASSUME NEW a, NEW b, IsSeq(a), IsSeq(b), NamedOnce(a), NamedOnce(b),
           NamesOf(a) \cap NamesOf(b) = {}
    PROVE  NamedOnce(a \o b)
<1> DEFINE s == a \o b
<1>1. /\ IsSeq(s) /\ Len(s) = Len(a) + Len(b)
      /\ \A k \in 1..(Len(a) + Len(b)) : s[k] = IF k <= Len(a) THEN a[k] ELSE b[k - Len(a)]
  BY ConcatFacts
<1> HIDE DEF s
<1>2. /\ Len(a) \in Nat /\ Len(b) \in Nat /\ DOMAIN a = 1..Len(a) /\ DOMAIN b = 1..Len(b)
      /\ DOMAIN s = 1..(Len(a) + Len(b))
  BY <1>1, SeqFacts
<1>3. /\ \A k \in DOMAIN a : a[k].name \in NamesOf(a)
      /\ \A k \in DOMAIN b : b[k].name \in NamesOf(b)
  BY SeqFacts DEF NamesOf
<1>4. ASSUME NEW j \in DOMAIN s, NEW k \in DOMAIN s, s[j].name = s[k].name PROVE j = k
  <2>1. CASE j <= Len(a) /\ k <= Len(a)
    <3>1. j \in DOMAIN a /\ k \in DOMAIN a /\ s[j] = a[j] /\ s[k] = a[k]
      BY <1>1, <1>2, <2>1
    <3>2. QED
      BY <1>4, <3>1 DEF NamedOnce
  <2>2. CASE ~(j <= Len(a)) /\ ~(k <= Len(a))
    <3>1. /\ j - Len(a) \in DOMAIN b /\ k - Len(a) \in DOMAIN b
          /\ s[j] = b[j - Len(a)] /\ s[k] = b[k - Len(a)]
      BY <1>1, <1>2, <2>2
    <3>2. j - Len(a) = k - Len(a)
      BY <1>4, <3>1 DEF NamedOnce
    <3>3. QED
      BY <1>2, <3>2
  <2>3. CASE j <= Len(a) /\ ~(k <= Len(a))
    <3>1. j \in DOMAIN a /\ k - Len(a) \in DOMAIN b /\ s[j] = a[j] /\ s[k] = b[k - Len(a)]
      BY <1>1, <1>2, <2>3
    <3>2. QED
      BY <1>3, <1>4, <3>1
  <2>4. CASE ~(j <= Len(a)) /\ k <= Len(a)
    <3>1. k \in DOMAIN a /\ j - Len(a) \in DOMAIN b /\ s[k] = a[k] /\ s[j] = b[j - Len(a)]
      BY <1>1, <1>2, <2>4
    <3>2. QED
      BY <1>3, <1>4, <3>1
  <2>5. QED
    BY <2>1, <2>2, <2>3, <2>4
<1>5. QED
  BY <1>4 DEF NamedOnce, s

\* With nothing in it.
LEMMA EmptyFacts ==
    ASSUME NEW s, IsSeq(s), Range(s) = {}
    PROVE  s = <<>> /\ NamedOnce(s) /\ NamesOf(s) = {}
<1>1. Len(s) \in Nat /\ DOMAIN s = 1..Len(s) /\ \A k \in DOMAIN s : s[k] \in Range(s)
  BY SeqFacts
<1>2. Len(s) = 0
  <2>1. 1 \notin DOMAIN s
    BY <1>1
  <2>2. QED
    BY <1>1, <2>1
<1>3. s = <<>>
  BY <1>2, EmptySeq DEF IsSeq
<1>4. DOMAIN s = {}
  BY <1>1, <1>2
<1>5. QED
  BY <1>3, <1>4 DEF NamedOnce, NamesOf

\* No name of a synthetic node is used by the ontology or the core model.
LEMMA SyntheticNames ==
    ASSUME NEW o \in Options, NEW seq, IsSeq(seq), NEW x \in Range(SyntheticNodes(seq, o))
    PROVE  x.name \notin Range(Display) \cup NamesOf(Core.taxonomy) \cup NamesOf(Core.elements)
<1>1. o \in Option
  BY ImportAssumption
<1>2. PICK k \in 1..(o.min_objects + o.min_actions) : x = ObjectNode(k) \/ x = ActionNode(k)
  BY <1>1, SyntheticFacts
<1>3. x.name = SyntheticObject(k) \/ x.name = SyntheticAction(k)
  BY <1>2 DEF ObjectNode, ActionNode
<1>4. QED
  BY <1>3, ImportAssumption DEF SyntheticIsFresh

LEMMA DisplayFacts == \A n \in Name : Display[n] \in Range(Display)
  BY DisplayAssumption DEF Range

\* The names of the taxonomy that is imported.
LEMMA MappedNames ==
    ASSUME NEW owl \in Owl, NEW o \in Option, NamesHeld(owl, o)
    PROVE  /\ NamesOf(Mapped(owl, o).taxonomy) \subseteq {Display[n] : n \in DOMAIN owl.classes}
           /\ NamesOf(Mapped(owl, o).taxonomy) \subseteq Range(Display)
<1>1. Mapped(owl, o).taxonomy = Taxonomy(owl, o)
  BY MappedFacts
<1>2. NamesOf(Taxonomy(owl, o))
        = {Display[n] : n \in TaxonomyNames(owl, o).objects \cup TaxonomyNames(owl, o).actions}
  BY TaxonomyFacts DEF NamesHeld
<1>3. DOMAIN owl.classes \subseteq Name
  BY OwlParts
<1>4. QED
  BY <1>1, <1>2, <1>3, DisplayFacts DEF NamesHeld

\* What is loaded with the core model merged in: the merged taxonomy and the synthetic
\* nodes, with each name once, nothing of the core model lacking.
LEMMA LoadedMerged ==
    ASSUME Stage, phase \in {"written", "loaded", "refused"}, report.ok, opts.merge
    PROVE  LET m == Merged(parser.owl, opts)
               nodes == SyntheticNodes(m.taxonomy, opts)
           IN  /\ InSequence(m) /\ IsSeq(nodes) /\ NamedOnce(Loaded.taxonomy)
               /\ Loaded.taxonomy = m.taxonomy \o nodes
               /\ Loaded.elements
                     = (m.elements \o ClassElements(nodes))
                          \o Lacking(m.elements \o ClassElements(nodes), Core.elements)
               /\ NamedOnce(Loaded.code_lists)
               /\ NamesOf(m.taxonomy)
                     = NamesOf(Mapped(parser.owl, opts).taxonomy) \cup NamesOf(Core.taxonomy)
<1>1. /\ parser.owl \in Owl /\ opts \in Option /\ report = Import(parser.owl, Core, opts)
      /\ Loaded.taxonomy
            = report.manifest.taxonomy \o Lacking(report.manifest.taxonomy, Core.taxonomy)
      /\ Loaded.elements
            = report.manifest.elements \o Lacking(report.manifest.elements, Core.elements)
      /\ Loaded.code_lists = report.manifest.code_lists
  BY LoadedFacts
<1>2. PICK m, nodes : m = Merged(parser.owl, opts) /\ nodes = SyntheticNodes(m.taxonomy, opts)
  OBVIOUS
<1>3. /\ NamesHeld(parser.owl, opts)
      /\ report.manifest.taxonomy = m.taxonomy \o nodes
      /\ report.manifest.elements = m.elements \o ClassElements(nodes)
      /\ report.manifest.code_lists = m.code_lists
  BY <1>1, <1>2, ImportFacts
<1>4. /\ InSequence(m) /\ NamedOnce(m.taxonomy) /\ NamedOnce(m.code_lists)
      /\ m.taxonomy = Overlay(Mapped(parser.owl, opts).taxonomy, Core.taxonomy)
  BY <1>1, <1>2, <1>3, MergedFacts
<1>5. PICK a, b, t : /\ a = Mapped(parser.owl, opts).taxonomy /\ b = Core.taxonomy
                     /\ t = m.taxonomy
  OBVIOUS
<1>6. IsSeq(a) /\ IsSeq(b) /\ IsSeq(t)
  BY <1>1, <1>3, <1>4, <1>5, MappedFacts, CoreSequences DEF InSequence
<1>7. NamesOf(t) = NamesOf(a) \cup NamesOf(b)
  BY <1>4, <1>5, <1>6, OverlayFacts
<1>8. NamesOf(a) \subseteq Range(Display)
  BY <1>1, <1>3, <1>5, MappedNames
<1>9. IsSeq(nodes) /\ NamedOnce(nodes)
  BY <1>1, <1>2, <1>5, <1>6, SyntheticFacts
<1>10. NamesOf(t) \cap NamesOf(nodes) = {}
  <2>1. ASSUME NEW x \in Range(nodes) PROVE x.name \notin NamesOf(t)
    <3>1. x.name \notin Range(Display) \cup NamesOf(Core.taxonomy)
      BY <1>2, <1>5, <1>6, <2>1, SyntheticNames DEF Stage
    <3>2. QED
      BY <1>5, <1>7, <1>8, <3>1
  <2>2. QED
    BY <2>1 DEF NamesOf
<1>11. NamedOnce(t \o nodes) /\ IsSeq(t \o nodes) /\ NamesOf(t) \subseteq NamesOf(t \o nodes)
  <2>1. NamedOnce(t)
    BY <1>4, <1>5
  <2>2. QED
    BY <1>6, <1>9, <1>10, <2>1, NamedOnceConcat, ConcatFacts, NamesFacts
<1>12. PICK whole : whole = t \o nodes
  OBVIOUS
<1>13. Lacking(whole, b) = <<>>
  <2>1. PICK lacking : lacking = Lacking(whole, b)
    OBVIOUS
  <2>2. /\ IsSeq(lacking) /\ Range(lacking) \subseteq Range(b)
        /\ \A x \in Range(lacking) : x.name \notin NamesOf(whole)
    BY <1>6, <2>1, LackingFacts
  <2>3. \A x \in Range(b) : x.name \in NamesOf(whole)
    BY <1>7, <1>11, <1>12 DEF NamesOf
  <2>4. Range(lacking) = {}
    BY <2>2, <2>3
  <2>5. QED
    BY <2>1, <2>2, <2>4, EmptyFacts
<1>14. Loaded.taxonomy = whole
  <2>1. Loaded.taxonomy = whole \o <<>>
    BY <1>1, <1>3, <1>5, <1>12, <1>13
  <2>2. whole \o <<>> = whole
    BY <1>11, <1>12, ConcatEmptySeq DEF IsSeq
  <2>3. QED
    BY <2>1, <2>2
<1>15. QED
  BY <1>1, <1>2, <1>3, <1>4, <1>5, <1>7, <1>9, <1>11, <1>12, <1>14

LEMMA EarnedWhenLoaded == Stage => ComplianceIsEarned
<1> SUFFICES ASSUME Stage, phase = "loaded", opts.merge, IsCompliant(Loaded, registry, opts)
             PROVE  /\ Cardinality({n \in DOMAIN registry.taxonomy :
                                      registry.taxonomy[n].branch = "object"}) >= opts.min_objects
                    /\ Cardinality({n \in DOMAIN registry.taxonomy :
                                      registry.taxonomy[n].branch = "action"}) >= opts.min_actions
                    /\ Cardinality(DOMAIN registry.code_lists) >= opts.min_code_lists
  BY DEF ComplianceIsEarned
<1>1. report.ok /\ registry = RegistryOf(Loaded)
  BY DEF Stage
<1>2. NamedOnce(Loaded.taxonomy) /\ NamedOnce(Loaded.code_lists) /\ InSequence(Loaded)
  BY <1>1, LoadedMerged, LoadedFacts
<1>3. PICK t, c : t = Loaded.taxonomy /\ c = Loaded.code_lists
  OBVIOUS
<1>4. IsSeq(t) /\ IsSeq(c) /\ NamedOnce(t) /\ NamedOnce(c)
  BY <1>2, <1>3 DEF InSequence
<1>5. registry.taxonomy = ByName(t) /\ registry.code_lists = ByName(c)
  BY <1>1, <1>3, RegistryParts
<1>6. \A branch : Cardinality({n \in DOMAIN ByName(t) : ByName(t)[n].branch = branch})
                     = CountOf(t, branch)
  BY <1>4, NamedOnceCount
<1>7. Cardinality(DOMAIN ByName(c)) = Len(c)
  BY <1>4, NamedOnceCount
<1>8. /\ CountOf(t, "object") >= opts.min_objects /\ CountOf(t, "action") >= opts.min_actions
      /\ Len(c) >= opts.min_code_lists
  BY <1>3 DEF IsCompliant, Covers
<1>9. QED
  BY <1>5, <1>6, <1>7, <1>8

\* ComplianceIsEarned, for every ontology and all options: what the checker counts in a
\* manifest with the core model merged in is there under as many names (mapper.rs
\* merge_seed, mim-compliance checker.rs).
THEOREM ComplianceEarned == Spec => []ComplianceIsEarned
<1>1. Init => Stage
  BY StageStarts
<1>2. Stage /\ [Next]_vars => Stage'
  BY StageKept
<1>3. Stage => ComplianceIsEarned
  BY EarnedWhenLoaded
<1>4. QED
  BY <1>1, <1>2, <1>3, PTL DEF Spec

-----------------------------------------------------------------------------
(* The attributes that are reported.                                        *)

LEMMA NamesOfParts ==
    ASSUME NEW seq
    PROVE  /\ \A x \in Range(seq) : x.name \in NamesOf(seq)
           /\ \A n \in NamesOf(seq) : \E x \in Range(seq) : x.name = n
  BY DEF NamesOf

\* The parts that a loaded manifest is put together from.
LEMMA LoadedParts ==
    ASSUME Stage, phase \in {"written", "loaded", "refused"}, report.ok
    PROVE  LET mapped == Mapped(parser.owl, opts)
               m == Merged(parser.owl, opts)
               nodes == SyntheticNodes(m.taxonomy, opts)
           IN  /\ NamesHeld(parser.owl, opts) /\ InSequence(mapped) /\ InSequence(m) /\ IsSeq(nodes)
               /\ NamesOf(mapped.taxonomy) \subseteq NamesOf(m.taxonomy)
               /\ NamesOf(mapped.elements) \subseteq NamesOf(m.elements)
               /\ Range(m.elements) \subseteq Range(mapped.elements) \cup Range(Core.elements)
               /\ Range(m.taxonomy) \subseteq Range(mapped.taxonomy) \cup Range(Core.taxonomy)
               /\ NamesOf(m.taxonomy) \subseteq NamesOf(Loaded.taxonomy)
               /\ NamesOf(m.elements) \subseteq NamesOf(Loaded.elements)
               /\ Range(Loaded.elements) \subseteq
                     Range(m.elements) \cup Range(ClassElements(nodes)) \cup Range(Core.elements)
               /\ Range(Loaded.taxonomy) \subseteq
                     Range(m.taxonomy) \cup Range(nodes) \cup Range(Core.taxonomy)
<1>1. /\ parser.owl \in Owl /\ opts \in Option /\ report = Import(parser.owl, Core, opts)
      /\ Loaded.taxonomy
            = report.manifest.taxonomy \o Lacking(report.manifest.taxonomy, Core.taxonomy)
      /\ Loaded.elements
            = report.manifest.elements \o Lacking(report.manifest.elements, Core.elements)
  BY LoadedFacts
<1>2. PICK mapped, m, nodes : /\ mapped = Mapped(parser.owl, opts) /\ m = Merged(parser.owl, opts)
                              /\ nodes = SyntheticNodes(m.taxonomy, opts)
  OBVIOUS
<1>3. /\ NamesHeld(parser.owl, opts)
      /\ report.manifest.taxonomy = m.taxonomy \o nodes
      /\ report.manifest.elements = m.elements \o ClassElements(nodes)
  BY <1>1, <1>2, ImportFacts
<1>4. /\ InSequence(mapped) /\ InSequence(m)
      /\ ~opts.merge => m = mapped
      /\ opts.merge => /\ m.taxonomy = Overlay(mapped.taxonomy, Core.taxonomy)
                       /\ m.elements = Overlay(mapped.elements, Core.elements)
  BY <1>1, <1>2, <1>3, MappedFacts, MergedFacts
<1>5. PICK a, b, c, d, t, e : /\ a = mapped.taxonomy /\ b = Core.taxonomy /\ t = m.taxonomy
                              /\ c = mapped.elements /\ d = Core.elements /\ e = m.elements
  OBVIOUS
<1>6. IsSeq(a) /\ IsSeq(b) /\ IsSeq(c) /\ IsSeq(d) /\ IsSeq(t) /\ IsSeq(e)
  BY <1>4, <1>5, CoreSequences DEF InSequence
<1>7. /\ NamesOf(a) \subseteq NamesOf(t) /\ Range(t) \subseteq Range(a) \cup Range(b)
      /\ NamesOf(c) \subseteq NamesOf(e) /\ Range(e) \subseteq Range(c) \cup Range(d)
  <2>1. CASE opts.merge
    <3>1. t = Overlay(a, b) /\ e = Overlay(c, d)
      BY <1>4, <1>5, <2>1
    <3>2. /\ NamesOf(Overlay(a, b)) = NamesOf(a) \cup NamesOf(b)
          /\ NamesOf(Overlay(c, d)) = NamesOf(c) \cup NamesOf(d)
          /\ \A x \in Range(Overlay(a, b)) : x \in Range(b) \/ x \in Range(a)
          /\ \A x \in Range(Overlay(c, d)) : x \in Range(d) \/ x \in Range(c)
      BY <1>6, OverlayFacts
    <3>3. QED
      BY <3>1, <3>2
  <2>2. CASE ~opts.merge
    <3>1. m = mapped
      BY <1>4, <2>2
    <3>2. t = a /\ e = c
      BY <1>5, <3>1
    <3>3. QED
      BY <3>2
  <2>3. QED
    BY <2>1, <2>2
<1>8. IsSeq(nodes)
  BY <1>1, <1>2, <1>5, <1>6, SyntheticFacts
<1>9. PICK classes : classes = ClassElements(nodes) /\ IsSeq(classes)
  BY <1>8, ClassElementsFacts
<1>10. PICK u, v : u = t \o nodes /\ v = e \o classes
  OBVIOUS
<1>11. /\ IsSeq(u) /\ Range(u) = Range(t) \cup Range(nodes) /\ NamesOf(t) \subseteq NamesOf(u)
       /\ IsSeq(v) /\ Range(v) = Range(e) \cup Range(classes) /\ NamesOf(e) \subseteq NamesOf(v)
  BY <1>6, <1>8, <1>9, <1>10, ConcatFacts, NamesFacts
<1>12. PICK x, y : x = Lacking(u, b) /\ y = Lacking(v, d)
  OBVIOUS
<1>13. IsSeq(x) /\ Range(x) \subseteq Range(b) /\ IsSeq(y) /\ Range(y) \subseteq Range(d)
  BY <1>6, <1>12, LackingFacts
<1>14. /\ Range(u \o x) = Range(u) \cup Range(x) /\ NamesOf(u) \subseteq NamesOf(u \o x)
       /\ Range(v \o y) = Range(v) \cup Range(y) /\ NamesOf(v) \subseteq NamesOf(v \o y)
  BY <1>11, <1>13, ConcatFacts, NamesFacts
<1>15. Loaded.taxonomy = u \o x /\ Loaded.elements = v \o y
  BY <1>1, <1>3, <1>5, <1>9, <1>10, <1>12
<1>16. /\ NamesOf(t) \subseteq NamesOf(Loaded.taxonomy)
       /\ NamesOf(e) \subseteq NamesOf(Loaded.elements)
       /\ Range(Loaded.elements) \subseteq Range(e) \cup Range(classes) \cup Range(d)
       /\ Range(Loaded.taxonomy) \subseteq Range(t) \cup Range(nodes) \cup Range(b)
  BY <1>11, <1>13, <1>14, <1>15
<1>17. QED
  BY <1>2, <1>3, <1>4, <1>5, <1>7, <1>8, <1>9, <1>16

LEMMA ReportedWhenLoaded == Stage => ReportedIsLoaded
<1> SUFFICES ASSUME Stage, phase = "loaded", MeetsTarget(report), NoTwins,
                    NEW n \in DOMAIN parser.owl.properties
             PROVE  LET class == registry.elements[Display[n]].parent IN
                    /\ Display[n] \in DOMAIN registry.elements
                    /\ Knows(registry, class) /\ Display[n] \in AttributesFor(registry, class)
                    /\ class \in Upward(parser.owl.properties[n].domain)
  BY DEF ReportedIsLoaded
<1>1. /\ report.ok /\ registry = RegistryOf(Loaded) /\ parser.owl \in Owl /\ opts \in Option
      /\ report = Import(parser.owl, Core, opts) /\ InSequence(Loaded)
  BY LoadedFacts DEF Stage
<1>2. PICK owl, mapped, m, nodes :
         /\ owl = parser.owl /\ mapped = Mapped(owl, opts) /\ m = Merged(owl, opts)
         /\ nodes = SyntheticNodes(m.taxonomy, opts)
  OBVIOUS
<1>3. PICK displays : displays = NamesOf(Taxonomy(owl, opts))
  OBVIOUS
<1>4. /\ NamesHeld(owl, opts) /\ InSequence(mapped) /\ InSequence(m) /\ IsSeq(nodes)
      /\ NamesOf(mapped.taxonomy) \subseteq NamesOf(m.taxonomy)
      /\ NamesOf(mapped.elements) \subseteq NamesOf(m.elements)
      /\ Range(m.elements) \subseteq Range(mapped.elements) \cup Range(Core.elements)
      /\ NamesOf(m.taxonomy) \subseteq NamesOf(Loaded.taxonomy)
      /\ NamesOf(m.elements) \subseteq NamesOf(Loaded.elements)
      /\ Range(Loaded.elements) \subseteq
            Range(m.elements) \cup Range(ClassElements(nodes)) \cup Range(Core.elements)
  BY <1>1, <1>2, LoadedParts
<1>5. /\ mapped.taxonomy = Taxonomy(owl, opts)
      /\ Range(mapped.elements) = Range(ClassElements(mapped.taxonomy))
                                     \cup Range(Attributes(owl, displays))
  BY <1>1, <1>2, <1>3, <1>4, MappedFacts
<1>6. n \in Range(Imported(owl, displays))
  <2> DEFINE kept == {p \in DOMAIN owl.properties :
                        ParentClass(owl, owl.properties[p].domain, displays) # NoParent}
  <2>1. /\ Range(Imported(owl, displays)) = kept /\ Len(Imported(owl, displays)) = Cardinality(kept)
        /\ IsFiniteSet(DOMAIN owl.properties)
    BY <1>1, <1>2, ImportedFacts
  <2>2. /\ report.imported = Len(Imported(owl, displays))
        /\ report.total = Cardinality(DOMAIN owl.properties)
    BY <1>1, <1>2, <1>3, ImportFacts
  <2>3. Cardinality(kept) = Cardinality(DOMAIN owl.properties)
    BY <2>1, <2>2 DEF MeetsTarget
  <2>4. kept \subseteq DOMAIN owl.properties
    OBVIOUS
  <2> HIDE DEF kept
  <2>5. kept = DOMAIN owl.properties
    BY <2>1, <2>3, <2>4, FS_Subset
  <2>6. QED
    BY <1>2, <2>1, <2>5
<1>7. PICK x \in Range(Attributes(owl, displays)) : x.name = Display[n]
  BY <1>1, <1>2, <1>6, AttributesFacts
<1>8. Display[n] \in NamesOf(Loaded.elements)
  <2>1. x \in Range(mapped.elements)
    BY <1>5
  <2>2. Display[n] \in NamesOf(mapped.elements)
    BY <1>7, <2>1 DEF NamesOf
  <2>3. QED
    BY <1>4, <2>2
<1>9. /\ Display[n] \in Range(Display)
      /\ Display[n] \notin {Display[c] : c \in DOMAIN owl.classes} \cup NamesOf(Core.elements)
  <2>1. n \in Name
    BY <1>1, OwlParts
  <2>2. Display[n] \in {Display[p] : p \in DOMAIN parser.owl.properties}
    OBVIOUS
  <2>3. QED
    BY <1>2, <2>1, <2>2, DisplayFacts DEF NoTwins
<1>10. ASSUME NEW y \in Range(Loaded.elements), y.name = Display[n]
       PROVE  /\ y.kind = "attribute" /\ y.parent \in displays
              /\ y.parent \in DomainClasses(owl, owl.properties[n].domain)
  <2>1. y \notin Range(Core.elements)
    BY <1>9, <1>10, NamesOfParts
  <2>2. y \notin Range(ClassElements(nodes))
    <3>1. SUFFICES ASSUME y \in Range(ClassElements(nodes)) PROVE FALSE
      OBVIOUS
    <3>2. PICK z \in Range(nodes) : y = ClassElement(z)
      BY <1>4, <3>1, ClassElementsFacts
    <3>3. z.name = Display[n]
      BY <1>10, <3>2 DEF ClassElement
    <3>4. PICK t : t = m.taxonomy /\ IsSeq(t)
      BY <1>4 DEF InSequence
    <3>5. z.name \notin Range(Display)
      BY <1>2, <3>4, SyntheticNames DEF Stage
    <3>6. QED
      BY <1>9, <3>3, <3>5
  <2>3. y \notin Range(ClassElements(mapped.taxonomy))
    <3>1. SUFFICES ASSUME y \in Range(ClassElements(mapped.taxonomy)) PROVE FALSE
      OBVIOUS
    <3>2. PICK t : t = mapped.taxonomy /\ IsSeq(t)
      BY <1>4 DEF InSequence
    <3>3. y.name \in NamesOf(ClassElements(t))
      BY <3>1, <3>2, NamesOfParts
    <3>4. y.name \in NamesOf(t)
      BY <3>2, <3>3, ClassElementsFacts
    <3>5. NamesOf(t) \subseteq {Display[c] : c \in DOMAIN owl.classes}
      BY <1>1, <1>2, <1>4, <3>2, MappedNames
    <3>6. QED
      BY <1>9, <1>10, <3>4, <3>5
  <2>4. y \in Range(Attributes(owl, displays))
    BY <1>4, <1>5, <1>10, <2>1, <2>2, <2>3
  <2>5. owl \in Owl
    BY <1>1, <1>2
  <2>6. /\ y.kind = "attribute" /\ y.parent \in displays
        /\ \E p \in DOMAIN owl.properties :
              y.name = Display[p] /\ y.parent \in DomainClasses(owl, owl.properties[p].domain)
    BY <2>4, <2>5, AttributesFacts
  <2>7. \A p \in DOMAIN owl.properties : Display[p] = Display[n] => p = n
    BY <1>2 DEF NoTwins
  <2>8. QED
    BY <1>10, <2>6, <2>7
<1>11. PICK e, t : e = Loaded.elements /\ t = Loaded.taxonomy
  OBVIOUS
<1>12. IsSeq(e) /\ IsSeq(t)
  BY <1>1, <1>11 DEF InSequence
<1>13. registry.elements = ByName(e) /\ registry.taxonomy = ByName(t)
  BY <1>1, <1>11, RegistryParts
<1>14. /\ DOMAIN ByName(e) = NamesOf(e) /\ DOMAIN ByName(t) = NamesOf(t)
       /\ \A k \in NamesOf(e) : ByName(e)[k] \in Range(e) /\ ByName(e)[k].name = k
  BY <1>12, ByNameFacts
<1>15. PICK entry : entry = registry.elements[Display[n]]
  OBVIOUS
<1>16. /\ Display[n] \in DOMAIN registry.elements /\ entry.kind = "attribute"
       /\ entry.parent \in displays
       /\ entry.parent \in DomainClasses(owl, owl.properties[n].domain)
  BY <1>8, <1>10, <1>11, <1>13, <1>14, <1>15
<1>17. entry.parent \in DOMAIN registry.taxonomy
  BY <1>3, <1>4, <1>5, <1>11, <1>13, <1>14, <1>16
<1>18. entry.parent \in Upward(parser.owl.properties[n].domain)
  BY <1>2, <1>16 DEF Upward, DomainClasses
<1>19. QED
  BY <1>15, <1>16, <1>17, <1>18 DEF Knows, AttributesFor

\* ReportedIsLoaded, for every ontology and all options: what an import counts as imported
\* is an attribute in the registry that a stack makes of the manifest (mapper.rs
\* import_owl_attributes, meets_owl_coverage_target).
THEOREM ReportedLoaded == Spec => []ReportedIsLoaded
<1>1. Init => Stage
  BY StageStarts
<1>2. Stage /\ [Next]_vars => Stage'
  BY StageKept
<1>3. Stage => ReportedIsLoaded
  BY ReportedWhenLoaded
<1>4. QED
  BY <1>1, <1>2, <1>3, PTL DEF Spec

-----------------------------------------------------------------------------
(* The integrity of what is imported.                                       *)

\* Every plain class is in the taxonomy, whatever it is padded with.
LEMMA PlainIsNamed ==
    ASSUME NEW owl, NEW o
    PROVE  PlainClasses(owl) \subseteq TaxonomyNames(owl, o).objects \cup TaxonomyNames(owl, o).actions
<1> DEFINE plain == PlainClasses(owl)
           actions == DescendantsOf(owl.classes, ActionRoot) \cup {ActionRoot}
           names == [objects |-> plain \ actions, actions |-> actions]
           held == IF o.authoritative THEN names ELSE Padded(owl, names, o)
<1>1. TaxonomyNames(owl, o) = WithDomainClasses(owl, held)
  BY DEF TaxonomyNames
<1> HIDE DEF actions, plain
<1>2. /\ DOMAIN names = {"objects", "actions"} /\ plain \subseteq names.objects \cup names.actions
  OBVIOUS
<1> HIDE DEF names
<1>3. /\ DOMAIN Padded(owl, names, o) = {"objects", "actions"}
      /\ plain \subseteq Padded(owl, names, o).objects \cup Padded(owl, names, o).actions
  <2> DEFINE all == DOMAIN owl.classes
             a == Filled(o.min_objects, names.objects, all \ names.actions)
             b == Filled(o.min_actions, names.actions, EventLike \cap all)
             c == Filled(o.min_objects, a \ b, all \ b)
             d == Filled(o.min_actions, b, all)
  <2>1. Padded(owl, names, o) = [objects |-> c \ d, actions |-> d]
    BY DEF Padded
  <2>2. \A min, S, T : S \subseteq Filled(min, S, T)
    BY DEF Filled
  <2>3. names.objects \subseteq a /\ names.actions \subseteq b
    BY <2>2
  <2>4. a \ b \subseteq c /\ b \subseteq d
    BY <2>2
  <2> HIDE DEF a, b, c, d
  <2>5. plain \subseteq (c \ d) \cup d
    BY <1>2, <2>3, <2>4
  <2>6. QED
    BY <2>1, <2>5
<1>4. DOMAIN held = {"objects", "actions"} /\ plain \subseteq held.objects \cup held.actions
  BY <1>2, <1>3
<1> HIDE DEF held
<1>5. /\ held.objects \subseteq WithDomainClasses(owl, held).objects
      /\ WithDomainClasses(owl, held).actions = held.actions
  BY <1>4 DEF WithDomainClasses
<1>6. QED
  BY <1>1, <1>4, <1>5 DEF plain

LEMMA NonEmpty ==
    ASSUME NEW seq, IsSeq(seq), seq # <<>>
    PROVE  NamesOf(seq) # {}
<1>1. Head(seq) \in Range(seq)
  BY HeadTailProperties DEF IsSeq
<1>2. QED
  BY <1>1 DEF NamesOf

\* What the entries of the core model have above them is in the core model.
LEMMA CoreIntegral ==
    /\ \A x \in Range(Core.taxonomy) : x.parent \in NamesOf(Core.taxonomy) \cup {NoParent}
    /\ \A x \in Range(Core.elements) :
          x.parent \in NamesOf(Core.taxonomy) \cup NamesOf(Core.elements) \cup {NoParent}
    /\ NamesOf(Core.taxonomy) # {} /\ NamesOf(Core.elements) # {}
<1>1. PICK t, e : t = Core.taxonomy /\ e = Core.elements
  OBVIOUS
<1>2. IsSeq(t) /\ IsSeq(e) /\ NamedOnce(t) /\ NamedOnce(e)
  BY <1>1, CoreSequences
<1>3. t # <<>> /\ e # <<>> /\ IsIntegral(RegistryOf(Core))
  BY <1>1, CoreSequences DEF CanLoad
<1>4. ASSUME NEW s, IsSeq(s), NamedOnce(s), NEW x \in Range(s)
      PROVE  x.name \in NamesOf(s) /\ ByName(s)[x.name] = x
  <2>1. \A y \in Range(s) : y.name = x.name => y = x
    <3>1. PICK j \in DOMAIN s : s[j] = x
      BY <1>4, SeqFacts
    <3>2. ASSUME NEW y \in Range(s), y.name = x.name PROVE y = x
      <4>1. PICK k \in DOMAIN s : s[k] = y
        BY <1>4, SeqFacts
      <4>2. j = k
        BY <1>4, <3>1, <3>2, <4>1 DEF NamedOnce
      <4>3. QED
        BY <3>1, <4>1, <4>2
    <3>3. QED
      BY <3>2
  <2>2. QED
    BY <1>4, <2>1, ByNameFacts
<1>5. DOMAIN ByName(t) = NamesOf(t) /\ DOMAIN ByName(e) = NamesOf(e)
  BY <1>2, ByNameFacts
<1>6. /\ \A n \in NamesOf(t) : ByName(t)[n].parent \in NamesOf(t) \cup {NoParent}
      /\ \A n \in NamesOf(e) : ByName(e)[n].parent \in NamesOf(t) \cup NamesOf(e) \cup {NoParent}
  BY <1>1, <1>3, <1>5, RegistryParts DEF IsIntegral
<1>7. ASSUME NEW x \in Range(t) PROVE x.parent \in NamesOf(t) \cup {NoParent}
  <2>1. x.name \in NamesOf(t) /\ ByName(t)[x.name] = x
    BY <1>2, <1>4
  <2>2. QED
    BY <1>6, <2>1
<1>8. ASSUME NEW x \in Range(e) PROVE x.parent \in NamesOf(t) \cup NamesOf(e) \cup {NoParent}
  <2>1. x.name \in NamesOf(e) /\ ByName(e)[x.name] = x
    BY <1>2, <1>4
  <2>2. QED
    BY <1>6, <2>1
<1>9. NamesOf(t) # {} /\ NamesOf(e) # {}
  BY <1>2, <1>3, NonEmpty
<1>10. QED
  BY <1>1, <1>7, <1>8, <1>9

\* What is made of an ontology that is closed has above it what is in the taxonomy.
LEMMA MappedIntegral ==
    ASSUME NEW owl \in Owl, NEW o \in Option, NamesHeld(owl, o), Closed(owl)
    PROVE  /\ \A x \in Range(Mapped(owl, o).taxonomy) :
                 x.parent \in NamesOf(Mapped(owl, o).taxonomy) \cup {NoParent}
           /\ \A x \in Range(Mapped(owl, o).elements) :
                 x.parent \in NamesOf(Mapped(owl, o).taxonomy) \cup {NoParent}
<1> DEFINE classes == TaxonomyNames(owl, o).objects \cup TaxonomyNames(owl, o).actions
<1>1. PICK t, e : t = Mapped(owl, o).taxonomy /\ e = Mapped(owl, o).elements
  OBVIOUS
<1>2. t = Taxonomy(owl, o)
  BY <1>1, MappedFacts
<1>3. /\ IsSeq(t) /\ NamesOf(t) = {Display[n] : n \in classes}
      /\ \A x \in Range(t) : \E n \in classes : \E branch : x = TaxonomyNode(owl, branch, n)
  BY <1>2, TaxonomyFacts DEF NamesHeld
<1>4. PlainClasses(owl) \subseteq classes
  BY PlainIsNamed
<1>5. classes \subseteq DOMAIN owl.classes
  BY DEF NamesHeld
<1> HIDE DEF classes
<1>6. ASSUME NEW n \in classes, NEW branch
      PROVE  TaxonomyNode(owl, branch, n).parent \in NamesOf(t) \cup {NoParent}
  <2>1. owl.classes[n].parents # <<>> => Head(owl.classes[n].parents) \in classes
    BY <1>4, <1>5 DEF Closed
  <2>2. TaxonomyNode(owl, branch, n).parent = NoParent
           \/ /\ owl.classes[n].parents # <<>>
              /\ TaxonomyNode(owl, branch, n).parent = Display[Head(owl.classes[n].parents)]
    BY DEF TaxonomyNode
  <2>3. QED
    BY <1>3, <2>1, <2>2
<1>7. \A x \in Range(t) : x.parent \in NamesOf(t) \cup {NoParent}
  BY <1>3, <1>6
<1>8. ASSUME NEW x \in Range(e) PROVE x.parent \in NamesOf(t) \cup {NoParent}
  <2>1. PICK displays : displays = NamesOf(t)
    OBVIOUS
  <2>2. x \in Range(ClassElements(t)) \cup Range(Attributes(owl, displays))
    BY <1>1, <1>2, <2>1, MappedFacts
  <2>3. CASE x \in Range(ClassElements(t))
    <3>1. PICK y \in Range(t) : x = ClassElement(y)
      BY <1>3, <2>3, ClassElementsFacts
    <3>2. x.parent = y.parent
      BY <3>1 DEF ClassElement
    <3>3. QED
      BY <1>7, <3>2
  <2>4. CASE x \in Range(Attributes(owl, displays))
    BY <2>1, <2>4, AttributesFacts
  <2>5. QED
    BY <2>2, <2>3, <2>4
<1>9. QED
  BY <1>1, <1>7, <1>8

LEMMA LoadsWhenClosed ==
    ASSUME Stage, phase \in {"written", "loaded", "refused"}, report.ok, opts.merge,
           Closed(parser.owl)
    PROVE  CanLoad(Loaded)
<1>1. parser.owl \in Owl /\ opts \in Option /\ InSequence(Loaded)
  BY LoadedFacts
<1>2. PICK mapped, m, nodes :
         /\ mapped = Mapped(parser.owl, opts) /\ m = Merged(parser.owl, opts)
         /\ nodes = SyntheticNodes(m.taxonomy, opts)
  OBVIOUS
<1>3. /\ NamesHeld(parser.owl, opts) /\ InSequence(mapped) /\ InSequence(m) /\ IsSeq(nodes)
      /\ NamesOf(mapped.taxonomy) \subseteq NamesOf(m.taxonomy)
      /\ Range(m.elements) \subseteq Range(mapped.elements) \cup Range(Core.elements)
      /\ Range(m.taxonomy) \subseteq Range(mapped.taxonomy) \cup Range(Core.taxonomy)
      /\ NamesOf(m.taxonomy) \subseteq NamesOf(Loaded.taxonomy)
      /\ NamesOf(m.elements) \subseteq NamesOf(Loaded.elements)
      /\ Range(Loaded.elements) \subseteq
            Range(m.elements) \cup Range(ClassElements(nodes)) \cup Range(Core.elements)
      /\ Range(Loaded.taxonomy) \subseteq
            Range(m.taxonomy) \cup Range(nodes) \cup Range(Core.taxonomy)
  BY <1>2, LoadedParts
<1>4. /\ NamesOf(Core.taxonomy) \subseteq NamesOf(Loaded.taxonomy)
      /\ NamesOf(Core.elements) \subseteq NamesOf(Loaded.elements)
  <2>1. NamesOf(Core.taxonomy) \subseteq NamesOf(m.taxonomy)
    BY <1>2, LoadedMerged
  <2>2. m.elements = Overlay(mapped.elements, Core.elements)
    BY <1>1, <1>2, <1>3, MergedFacts
  <2>3. PICK c, d : c = mapped.elements /\ d = Core.elements
    OBVIOUS
  <2>4. IsSeq(c) /\ IsSeq(d)
    BY <1>3, <2>3, CoreSequences DEF InSequence
  <2>5. NamesOf(Overlay(c, d)) = NamesOf(c) \cup NamesOf(d)
    BY <2>4, OverlayFacts
  <2>6. QED
    BY <1>3, <2>1, <2>2, <2>3, <2>5
<1>5. PICK held : held = NamesOf(Loaded.taxonomy) \cup {NoParent}
  OBVIOUS
<1>6. NamesOf(mapped.taxonomy) \subseteq held /\ NamesOf(Core.taxonomy) \subseteq held /\ NoParent \in held
  BY <1>3, <1>4, <1>5
<1>7. /\ \A x \in Range(mapped.taxonomy) : x.parent \in held
      /\ \A x \in Range(mapped.elements) : x.parent \in held
  BY <1>1, <1>2, <1>3, <1>6, MappedIntegral
<1>8. /\ \A x \in Range(Core.taxonomy) : x.parent \in held
      /\ \A x \in Range(Core.elements) : x.parent \in held \cup NamesOf(Loaded.elements)
  BY <1>4, <1>6, CoreIntegral
<1>9. \A x \in Range(nodes) : x.parent \in held
  <2>1. PICK t : t = m.taxonomy /\ IsSeq(t)
    BY <1>3 DEF InSequence
  <2>2. ASSUME NEW x \in Range(nodes) PROVE x.parent \in {ObjectName, ActionName}
    <3>1. \E k : x = ObjectNode(k) \/ x = ActionNode(k)
      BY <1>1, <1>2, <2>1, SyntheticFacts
    <3>2. QED
      BY <3>1 DEF ObjectNode, ActionNode
  <2>3. QED
    BY <1>6, <2>2, CoreSequences
<1>10. \A x \in Range(ClassElements(nodes)) : x.parent \in held
  <2>1. ASSUME NEW x \in Range(ClassElements(nodes)) PROVE x.parent \in held
    <3>1. PICK y \in Range(nodes) : x = ClassElement(y)
      BY <1>3, ClassElementsFacts
    <3>2. x.parent = y.parent
      BY <3>1 DEF ClassElement
    <3>3. QED
      BY <1>9, <3>2
  <2>2. QED
    BY <2>1
<1>11. PICK t, e : t = Loaded.taxonomy /\ e = Loaded.elements
  OBVIOUS
<1>12. IsSeq(t) /\ IsSeq(e)
  BY <1>1, <1>11 DEF InSequence
<1>13. /\ \A x \in Range(t) : x.parent \in held
       /\ \A x \in Range(e) : x.parent \in held \cup NamesOf(e)
  BY <1>3, <1>7, <1>8, <1>9, <1>10, <1>11
<1>14. /\ DOMAIN ByName(t) = NamesOf(t) /\ DOMAIN ByName(e) = NamesOf(e)
       /\ \A n \in NamesOf(t) : ByName(t)[n] \in Range(t)
       /\ \A n \in NamesOf(e) : ByName(e)[n] \in Range(e)
  BY <1>12, ByNameFacts
<1>15. /\ RegistryOf(Loaded).taxonomy = ByName(t)
       /\ RegistryOf(Loaded).elements = ByName(e)
  BY <1>11, RegistryParts
<1>16. IsIntegral(RegistryOf(Loaded))
  BY <1>5, <1>11, <1>13, <1>14, <1>15 DEF IsIntegral
<1>17. t # <<>> /\ e # <<>>
  <2>1. NamesOf(t) # {} /\ NamesOf(e) # {}
    BY <1>4, <1>11, CoreIntegral
  <2>2. NamesOf(<<>>) = {}
    BY DEF NamesOf, Range
  <2>3. QED
    BY <2>1, <2>2
<1>18. QED
  BY <1>11, <1>16, <1>17 DEF CanLoad

LEMMA LoadsWhenRefused == Stage => ImportsLoad
  BY LoadsWhenClosed DEF Stage, ImportsLoad

\* ImportsLoad, for every ontology, every core model that loads by itself, and all
\* options: with the core model merged in, what is imported from a closed ontology is
\* never refused for its integrity (mapper.rs merge_seed, append_synthetic_coverage;
\* registry.rs validate_integrity).
THEOREM ClosedImportsLoad == Spec => []ImportsLoad
<1>1. Init => Stage
  BY StageStarts
<1>2. Stage /\ [Next]_vars => Stage'
  BY StageKept
<1>3. Stage => ImportsLoad
  BY LoadsWhenRefused
<1>4. QED
  BY <1>1, <1>2, <1>3, PTL DEF Spec

-----------------------------------------------------------------------------
(* What reading a declaration does to the properties.                       *)

LEMMA ReadEventCases ==
    ASSUME NEW p, NEW e
    PROVE  /\ e.at # "end" /\ e.tag \in {"Class", "Thing"} => ReadEvent(p, e) = OpenClass(p, e)
           /\ e.at # "end" /\ e.tag \in {"ObjectProperty", "DatatypeProperty"} =>
                 ReadEvent(p, e) = OpenProperty(p, e)
           /\ e.at # "end" /\ e.tag \in {"subPropertyOf", "inverseOf", "domain", "range"} =>
                 ReadEvent(p, e) = Describe(p, e)
           /\ e.at # "end" /\ e.tag = "subClassOf" => ReadEvent(p, e) = AddParent(p, e)
           /\ e.at = "start" /\ e.tag = "oneOf" => ReadEvent(p, e) = OpenOneOf(p)
           /\ e.at = "end" /\ e.tag = "oneOf" => ReadEvent(p, e) = CloseOneOf(p)
           /\ e.at = "end" /\ e.tag = "Class" => ReadEvent(p, e) = [p EXCEPT !.class = NoName]
           /\ e.at = "end" /\ e.tag \in {"ObjectProperty", "DatatypeProperty"} =>
                 ReadEvent(p, e) = CloseProperty(p)
<1>1. e.at # "end" /\ e.tag \in {"Class", "Thing"} => ReadEvent(p, e) = OpenClass(p, e)
  BY DEF ReadEvent, IsPropertyTag
<1>2. e.at # "end" /\ e.tag \in {"ObjectProperty", "DatatypeProperty"} =>
         ReadEvent(p, e) = OpenProperty(p, e)
  BY DEF ReadEvent, IsPropertyTag
<1>3. e.at # "end" /\ e.tag \in {"subPropertyOf", "inverseOf", "domain", "range"} =>
         ReadEvent(p, e) = Describe(p, e)
  BY DEF ReadEvent, IsPropertyTag
<1>4. e.at # "end" /\ e.tag = "subClassOf" => ReadEvent(p, e) = AddParent(p, e)
  BY DEF ReadEvent, IsPropertyTag
<1>5. e.at = "start" /\ e.tag = "oneOf" => ReadEvent(p, e) = OpenOneOf(p)
  BY DEF ReadEvent, IsPropertyTag
<1>6. e.at = "end" /\ e.tag = "oneOf" => ReadEvent(p, e) = CloseOneOf(p)
  BY DEF ReadEvent, IsPropertyTag
<1>7. e.at = "end" /\ e.tag = "Class" => ReadEvent(p, e) = [p EXCEPT !.class = NoName]
  BY DEF ReadEvent, IsPropertyTag
<1>8. e.at = "end" /\ e.tag \in {"ObjectProperty", "DatatypeProperty"} =>
         ReadEvent(p, e) = CloseProperty(p)
  BY DEF ReadEvent, IsPropertyTag
<1>9. QED
  BY <1>1, <1>2, <1>3, <1>4, <1>5, <1>6, <1>7, <1>8

\* The forms that what is written inside a declaration may have.
LEMMA InnerEventForms ==
    ASSUME NEW d \in Declaration, Flat(d), NEW e \in InnerEvents(d)
    PROVE  \/ e = StartOneOf
           \/ e = EndOneOf
           \/ \E v \in Name : e = Event("empty", "Thing", v)
           \/ \E n \in Range(d.parents) : e = Event("empty", ParentTag(d), n)
           \/ d.domain # NoName /\ e = Event("empty", "domain", d.domain)
           \/ d.range # NoName /\ e = Event("empty", "range", d.range)
           \/ d.inverse # NoName /\ e = Event("empty", "inverseOf", d.inverse)
<1>1. Range(d.values) \subseteq Name
  BY DeclarationParts
<1>2. \A t, n : e \in SomeEvent(t, n) => n # NoName /\ e = Event("empty", t, n)
  BY DEF SomeEvent
<1>3. e \notin SomeEvent("ObjectProperty", d.nested)
  BY <1>2 DEF Flat
<1>4. QED
  BY <1>1, <1>2, <1>3 DEF InnerEvents

\* oneOf, and what is in it.
LEMMA OneOfEvents ==
    ASSUME NEW q \in ParserState, NEW e,
           e = StartOneOf \/ e = EndOneOf \/ \E v \in Name : e = Event("empty", "Thing", v)
    PROVE  LET s == ReadEvent(q, e)
           IN  /\ s \in ParserState /\ LeavesProperties(q, s) /\ s.property = q.property
               /\ e = EndOneOf => ~s.in_one_of
               /\ e # StartOneOf /\ e # EndOneOf => s.in_one_of = q.in_one_of
<1>1. CASE e = StartOneOf
  <2>1. e.at = "start" /\ e.tag = "oneOf"
    BY <1>1, EventParts DEF StartOneOf
  <2>2. ReadEvent(q, e) = OpenOneOf(q)
    BY <2>1, ReadEventCases
  <2>3. e # EndOneOf
    BY <2>1, EventParts DEF EndOneOf
  <2>4. QED
    BY <1>1, <2>2, <2>3, OpenOneOfFields
<1>2. CASE e = EndOneOf
  <2>1. e.at = "end" /\ e.tag = "oneOf"
    BY <1>2, EventParts DEF EndOneOf
  <2>2. ReadEvent(q, e) = CloseOneOf(q)
    BY <2>1, ReadEventCases
  <2>3. QED
    BY <1>2, <2>2, CloseOneOfFields
<1>3. ASSUME NEW v \in Name, e = Event("empty", "Thing", v)
      PROVE  LET s == ReadEvent(q, e)
             IN  /\ s \in ParserState /\ LeavesProperties(q, s) /\ s.property = q.property
                 /\ e = EndOneOf => ~s.in_one_of
                 /\ e # StartOneOf /\ e # EndOneOf => s.in_one_of = q.in_one_of
  <2>1. e.at = "empty" /\ e.tag = "Thing" /\ e \in XmlEvent
    BY <1>3, EventParts DEF Tag, MaybeName
  <2>2. ReadEvent(q, e) = OpenClass(q, e)
    BY <2>1, ReadEventCases
  <2>3. e # EndOneOf
    BY <2>1, EventParts DEF EndOneOf
  <2>4. /\ OpenClass(q, e) \in ParserState /\ LeavesProperties(q, OpenClass(q, e))
        /\ OpenClass(q, e).in_one_of = q.in_one_of /\ OpenClass(q, e).property = q.property
    BY <2>1, OpenClassFields
  <2>5. QED
    BY <2>2, <2>3, <2>4
<1>4. QED
  BY <1>1, <1>2, <1>3

\* What is inside a class, of which nothing is about a property.
LEMMA InnerOfClass ==
    ASSUME NEW d \in Declaration, Flat(d), d.kind = "class", d.domain = NoName, d.range = NoName,
           NEW e \in InnerEvents(d), NEW q \in ParserState, q.property = NoName
    PROVE  LET s == ReadEvent(q, e)
           IN  /\ LeavesProperties(q, s) /\ s.property = NoName
               /\ e = EndOneOf => ~s.in_one_of
               /\ e # StartOneOf /\ e # EndOneOf => s.in_one_of = q.in_one_of
<1>1. CASE e = StartOneOf \/ e = EndOneOf \/ \E v \in Name : e = Event("empty", "Thing", v)
  BY <1>1, OneOfEvents
<1>2. ASSUME NEW n \in Range(d.parents), e = Event("empty", "subClassOf", n)
      PROVE  LET s == ReadEvent(q, e)
             IN  /\ LeavesProperties(q, s) /\ s.property = NoName
                 /\ e # EndOneOf /\ s.in_one_of = q.in_one_of
  <2>1. n \in MaybeName
    BY DeclarationParts DEF MaybeName
  <2>2. e.at = "empty" /\ e.tag = "subClassOf" /\ e \in XmlEvent
    BY <1>2, <2>1, EventParts DEF Tag
  <2>3. ReadEvent(q, e) = AddParent(q, e) /\ e # EndOneOf
    BY <2>2, ReadEventCases, EventParts DEF EndOneOf
  <2>4. QED
    BY <2>2, <2>3, AddParentFields
<1>3. ASSUME d.inverse # NoName, e = Event("empty", "inverseOf", d.inverse)
      PROVE  ReadEvent(q, e) = q /\ e # EndOneOf
  <2>1. d.inverse \in MaybeName
    BY DeclarationParts
  <2>2. e.at = "empty" /\ e.tag = "inverseOf" /\ e \in XmlEvent
    BY <1>3, <2>1, EventParts DEF Tag
  <2>3. ReadEvent(q, e) = Describe(q, e) /\ e # EndOneOf
    BY <2>2, ReadEventCases, EventParts DEF EndOneOf
  <2>4. QED
    BY <2>2, <2>3, DescribeFields
<1>4. ParentTag(d) = "subClassOf"
  BY DEF ParentTag
<1>5. QED
  BY <1>1, <1>2, <1>3, <1>4, InnerEventForms DEF LeavesProperties

\* How the properties may differ after an event inside the property d.
Tells(d, before, after) ==
    /\ DOMAIN after = DOMAIN before
    /\ \A n \in DOMAIN before : n # d.name => after[n] = before[n]
    /\ after[d.name].domain \in {before[d.name].domain, d.domain}
    /\ after[d.name].range \in {before[d.name].range, d.range}
    /\ after[d.name].inverse \in {before[d.name].inverse, d.inverse}
    /\ Range(after[d.name].parents) \subseteq Range(before[d.name].parents) \cup Range(d.parents)

DomainEvent(d) == Event("empty", "domain", d.domain)
RangeEvent(d) == Event("empty", "range", d.range)

LEMMA DescribeProperty ==
    ASSUME NEW d \in Declaration, NEW q \in ParserState, q.property = d.name,
           q.domain = NoName, q.range = NoName,
           NEW t \in {"subPropertyOf", "inverseOf", "domain", "range"}, NEW n \in Name,
           NEW e, e = Event("empty", t, n),
           t = "subPropertyOf" => n \in Range(d.parents),
           t = "inverseOf" => n = d.inverse,
           t = "domain" => n = d.domain,
           t = "range" => n = d.range
    PROVE  LET s == ReadEvent(q, e)
           IN  /\ s.property = d.name /\ s.domain = NoName /\ s.range = NoName
               /\ Tells(d, q.owl.properties, s.owl.properties)
               /\ s.in_one_of = q.in_one_of /\ e # EndOneOf
               /\ e = DomainEvent(d) => s.owl.properties[d.name].domain = d.domain
               /\ e = RangeEvent(d) => s.owl.properties[d.name].range = d.range
<1>1. e.at = "empty" /\ e.tag = t /\ e.ref = n /\ e \in XmlEvent
  BY EventParts DEF Tag, MaybeName
<1>2. ReadEvent(q, e) = Describe(q, e)
  BY <1>1, ReadEventCases
<1>3. e # EndOneOf
  BY <1>1, EventParts DEF EndOneOf
<1>4. n # NoName /\ d.name # NoName
  BY DeclarationParts, NoNameIsNone
<1>5. PICK s : s = Describe(q, e)
  OBVIOUS
<1>6. PICK before, after : before = q.owl.properties /\ after = s.owl.properties
  OBVIOUS
<1>7. /\ s.in_one_of = q.in_one_of /\ s.property = d.name
      /\ s.domain = NoName /\ s.range = NoName
      /\ DOMAIN after = DOMAIN before
      /\ \A x \in DOMAIN before : x # d.name => after[x] = before[x]
      /\ after[d.name].domain = IF t = "domain" THEN n ELSE before[d.name].domain
      /\ after[d.name].range = IF t = "range" THEN n ELSE before[d.name].range
      /\ after[d.name].inverse = IF t = "inverseOf" THEN n ELSE before[d.name].inverse
      /\ Range(after[d.name].parents) \subseteq
            Range(before[d.name].parents) \cup (IF t = "subPropertyOf" THEN {n} ELSE {})
  <2>1. e.tag \in {"subPropertyOf", "inverseOf", "domain", "range"}
    BY <1>1
  <2>2. e.ref # NoName /\ q.property # NoName
    BY <1>1, <1>4
  <2>3. /\ s.in_one_of = q.in_one_of /\ s.property = q.property
        /\ s.domain = q.domain /\ s.range = q.range
        /\ DOMAIN s.owl.properties = DOMAIN q.owl.properties
        /\ \A x \in DOMAIN q.owl.properties :
              x # q.property => s.owl.properties[x] = q.owl.properties[x]
        /\ s.owl.properties[q.property].domain =
              IF e.tag = "domain" THEN e.ref ELSE q.owl.properties[q.property].domain
        /\ s.owl.properties[q.property].range =
              IF e.tag = "range" THEN e.ref ELSE q.owl.properties[q.property].range
        /\ s.owl.properties[q.property].inverse =
              IF e.tag = "inverseOf" THEN e.ref ELSE q.owl.properties[q.property].inverse
        /\ Range(s.owl.properties[q.property].parents) \subseteq
              Range(q.owl.properties[q.property].parents)
                 \cup (IF e.tag = "subPropertyOf" THEN {e.ref} ELSE {})
    BY <1>1, <1>5, <2>1, <2>2, DescribeFields
  <2>4. QED
    BY <1>1, <1>6, <2>3
<1>8. Tells(d, before, after)
  BY <1>7 DEF Tells
<1>9. e = DomainEvent(d) => t = "domain"
  BY <1>1, EventParts DEF DomainEvent
<1>10. e = RangeEvent(d) => t = "range"
  BY <1>1, EventParts DEF RangeEvent
<1>11. QED
  BY <1>2, <1>3, <1>5, <1>6, <1>7, <1>8, <1>9, <1>10

\* What is inside a property: nothing but what the declaration says is said of it.
LEMMA InnerOfProperty ==
    ASSUME NEW d \in Declaration, Flat(d), d.kind # "class", NEW e \in InnerEvents(d),
           NEW q \in ParserState, q.property = d.name, q.domain = NoName, q.range = NoName
    PROVE  LET s == ReadEvent(q, e)
           IN  /\ s.property = d.name /\ s.domain = NoName /\ s.range = NoName
               /\ Tells(d, q.owl.properties, s.owl.properties)
               /\ e = EndOneOf => ~s.in_one_of
               /\ e # StartOneOf /\ e # EndOneOf => s.in_one_of = q.in_one_of
               /\ e = DomainEvent(d) => s.owl.properties[d.name].domain = d.domain
               /\ e = RangeEvent(d) => s.owl.properties[d.name].range = d.range
<1>1. CASE e = StartOneOf \/ e = EndOneOf \/ \E v \in Name : e = Event("empty", "Thing", v)
  <2>1. PICK s : s = ReadEvent(q, e)
    OBVIOUS
  <2>2. /\ LeavesProperties(q, s) /\ s.property = q.property
        /\ e = EndOneOf => ~s.in_one_of
        /\ e # StartOneOf /\ e # EndOneOf => s.in_one_of = q.in_one_of
    BY <1>1, <2>1, OneOfEvents
  <2>3. e # DomainEvent(d) /\ e # RangeEvent(d)
    <3>1. e.tag \in {"oneOf", "Thing"}
      BY <1>1, EventParts DEF StartOneOf, EndOneOf
    <3>2. QED
      BY <3>1, EventParts DEF DomainEvent, RangeEvent
  <2>4. Tells(d, q.owl.properties, s.owl.properties)
    BY <2>2 DEF Tells, LeavesProperties
  <2>5. QED
    BY <2>1, <2>2, <2>3, <2>4 DEF LeavesProperties
<1>2. ParentTag(d) = "subPropertyOf"
  BY DEF ParentTag
<1>3. ASSUME NEW n \in Range(d.parents), e = Event("empty", "subPropertyOf", n)
      PROVE  LET s == ReadEvent(q, e)
             IN  /\ s.property = d.name /\ s.domain = NoName /\ s.range = NoName
                 /\ Tells(d, q.owl.properties, s.owl.properties)
                 /\ s.in_one_of = q.in_one_of /\ e # EndOneOf
                 /\ e = DomainEvent(d) => s.owl.properties[d.name].domain = d.domain
                 /\ e = RangeEvent(d) => s.owl.properties[d.name].range = d.range
  <2>1. n \in Name
    BY DeclarationParts
  <2>2. PICK t : t = "subPropertyOf"
    OBVIOUS
  <2>3. QED
    BY <1>3, <2>1, <2>2, DescribeProperty
<1>4. ASSUME NEW t \in {"inverseOf", "domain", "range"},
             NEW n, n # NoName, e = Event("empty", t, n),
             t = "inverseOf" => n = d.inverse, t = "domain" => n = d.domain,
             t = "range" => n = d.range
      PROVE  LET s == ReadEvent(q, e)
             IN  /\ s.property = d.name /\ s.domain = NoName /\ s.range = NoName
                 /\ Tells(d, q.owl.properties, s.owl.properties)
                 /\ s.in_one_of = q.in_one_of /\ e # EndOneOf
                 /\ e = DomainEvent(d) => s.owl.properties[d.name].domain = d.domain
                 /\ e = RangeEvent(d) => s.owl.properties[d.name].range = d.range
  <2>1. n \in Name
    BY <1>4, DeclarationParts DEF MaybeName
  <2>2. QED
    BY <1>4, <2>1, DescribeProperty
<1>5. CASE d.domain # NoName /\ e = Event("empty", "domain", d.domain)
  <2>1. PICK t, n : t = "domain" /\ n = d.domain
    OBVIOUS
  <2>2. QED
    BY <1>4, <1>5, <2>1
<1>6. CASE d.range # NoName /\ e = Event("empty", "range", d.range)
  <2>1. PICK t, n : t = "range" /\ n = d.range
    OBVIOUS
  <2>2. QED
    BY <1>4, <1>6, <2>1
<1>7. CASE d.inverse # NoName /\ e = Event("empty", "inverseOf", d.inverse)
  <2>1. PICK t, n : t = "inverseOf" /\ n = d.inverse
    OBVIOUS
  <2>2. QED
    BY <1>4, <1>7, <2>1
<1>8. QED
  BY <1>1, <1>2, <1>3, <1>5, <1>6, <1>7, InnerEventForms

\* A oneOf that is open is closed by an event still to come.
StillOpen(ev, k, q) == q.in_one_of => \E j \in DOMAIN ev : j > k /\ ev[j] = EndOneOf

LEMMA OpenKept ==
    ASSUME NEW ev, IsSeq(ev), Closes(ev), NEW k \in 1..Len(ev), NEW q, NEW s,
           StillOpen(ev, k - 1, q), ev[k] = EndOneOf => ~s.in_one_of,
           ev[k] # StartOneOf /\ ev[k] # EndOneOf => s.in_one_of = q.in_one_of
    PROVE  StillOpen(ev, k, s)
<1>1. DOMAIN ev = 1..Len(ev) /\ Len(ev) \in Nat
  BY SeqFacts
<1>2. SUFFICES ASSUME s.in_one_of PROVE \E j \in DOMAIN ev : j > k /\ ev[j] = EndOneOf
  BY DEF StillOpen
<1>3. CASE ev[k] = StartOneOf
  BY <1>1, <1>3 DEF Closes
<1>4. CASE ev[k] # StartOneOf
  <2>1. q.in_one_of /\ ev[k] # EndOneOf
    BY <1>2, <1>4
  <2>2. PICK j \in DOMAIN ev : j > k - 1 /\ ev[j] = EndOneOf
    BY <2>1 DEF StillOpen
  <2>3. j > k
    BY <1>1, <2>1, <2>2
  <2>4. QED
    BY <2>2, <2>3
<1>5. QED
  BY <1>3, <1>4

LEMMA OpenEnds ==
    ASSUME NEW ev, IsSeq(ev), NEW q, StillOpen(ev, Len(ev), q)
    PROVE  ~q.in_one_of
<1>1. DOMAIN ev = 1..Len(ev) /\ Len(ev) \in Nat
  BY SeqFacts
<1> QED
  BY <1>1 DEF StillOpen

\* A class that is read leaves the properties as they were.
LEMMA ReadClass ==
    ASSUME NEW d \in Declaration, Flat(d), d.kind = "class", d.domain = NoName, d.range = NoName,
           NEW p \in ParserState, ~p.in_one_of
    PROVE  LET q == Reading(p, Events(d))[Len(Events(d))]
           IN  LeavesProperties(p, q) /\ ~q.in_one_of
<1>1. PICK ev, n, r : ev = Events(d) /\ n = Len(ev) /\ r = Reading(p, ev)
  OBVIOUS
<1>2. TagOf(d) = "Class" /\ d.name \in Name /\ d.name # NoName
  BY DeclarationParts, NoNameIsNone DEF TagOf
<1>3. /\ IsSeq(ev) /\ Range(ev) \subseteq XmlEvent /\ Closes(ev)
      /\ n \in Nat \ {0} /\ DOMAIN ev = 1..n
      /\ n > 1 => ev[1] = Event("start", "Class", d.name)
      /\ n = 1 => ev[1] = Event("empty", "Class", d.name)
      /\ \A k \in 2..n :
            ev[k] \in InnerEvents(d) \/ (k = n /\ ev[k] = Event("end", "Class", NoName))
  BY <1>1, <1>2, EventsFacts
<1>4. /\ r[0] = p
      /\ \A k \in 1..n : r[k] = ReadEvent(r[k - 1], ev[k])
      /\ \A k \in 0..n : r[k] \in ParserState
  BY <1>1, <1>3, ReadingTurns
<1>5. 1 \in 1..n /\ 1 - 1 = 0 /\ n \in 0..n
  BY <1>3
<1>6. ev[1] \in XmlEvent
  BY <1>3, <1>5 DEF Range
<1>7. r[1] = ReadEvent(p, ev[1])
  <2>1. r[1] = ReadEvent(r[1 - 1], ev[1])
    BY <1>4, <1>5
  <2>2. QED
    BY <1>4, <1>5, <2>1
<1>8. /\ ev[1].at \in {"start", "empty"} /\ ev[1].tag = "Class" /\ ev[1].ref = d.name
      /\ n > 1 => ev[1].at = "start"
  <2>1. CASE n = 1
    BY <1>3, <2>1, EventParts
  <2>2. CASE n > 1
    BY <1>3, <2>2, EventParts
  <2>3. QED
    BY <1>3, <2>1, <2>2
<1>9. r[1] = OpenClass(p, ev[1])
  BY <1>7, <1>8, ReadEventCases
<1>10. /\ LeavesProperties(p, r[1]) /\ ~r[1].in_one_of
       /\ n > 1 => r[1].property = NoName
  BY <1>2, <1>6, <1>8, <1>9, OpenClassFields
<1>11. CASE n = 1
  BY <1>1, <1>10, <1>11
<1>12. CASE n > 1
  <2> DEFINE J(k) == LeavesProperties(p, r[k]) /\ r[k].property = NoName /\ StillOpen(ev, k, r[k])
             G == {k \in 0..n : k = 0 \/ J(k)}
  <2>1. 0 \in G
    BY <1>3
  <2>2. ASSUME NEW k \in 1..n, k - 1 \in G PROVE J(k)
    <3>1. CASE k = 1
      BY <1>10, <1>12, <3>1 DEF StillOpen
    <3>2. CASE k # 1
      <4>1. k \in 2..n /\ k - 1 \in 0..n /\ k - 1 # 0
        BY <1>3, <3>2
      <4>2. J(k - 1)
        BY <2>2, <4>1
      <4>3. PICK q, s : q = r[k - 1] /\ s = r[k]
        OBVIOUS
      <4>4. s = ReadEvent(q, ev[k]) /\ q \in ParserState /\ q.property = NoName
        BY <1>4, <4>1, <4>2, <4>3
      <4>5. /\ LeavesProperties(q, s) /\ s.property = NoName
            /\ ev[k] = EndOneOf => ~s.in_one_of
            /\ ev[k] # StartOneOf /\ ev[k] # EndOneOf => s.in_one_of = q.in_one_of
        <5>1. CASE ev[k] \in InnerEvents(d)
          BY <4>4, <5>1, InnerOfClass
        <5>2. CASE ev[k] = Event("end", "Class", NoName)
          <6>1. ev[k].at = "end" /\ ev[k].tag = "Class"
            BY <5>2, EventParts
          <6>2. s = [q EXCEPT !.class = NoName]
            BY <4>4, <6>1, ReadEventCases
          <6>3. ev[k] # EndOneOf
            BY <6>1, EventParts DEF EndOneOf
          <6>4. QED
            BY <4>4, <6>2, <6>3, EndClassFields
        <5>3. QED
          BY <1>3, <4>1, <5>1, <5>2
      <4>6. LeavesProperties(p, s)
        BY <4>2, <4>3, <4>5 DEF LeavesProperties
      <4>7. StillOpen(ev, k, s)
        <5>1. StillOpen(ev, k - 1, q) /\ k \in 1..Len(ev)
          BY <1>1, <4>2, <4>3
        <5>2. QED
          BY <1>3, <4>5, <5>1, OpenKept
      <4>8. QED
        BY <4>3, <4>5, <4>6, <4>7
    <3>3. QED
      BY <3>1, <3>2
  <2> HIDE DEF J
  <2>3. \A k \in 1..n : k - 1 \in G => k \in G
    BY <1>3, <2>2
  <2> HIDE DEF G
  <2>4. 0..n \subseteq G
    BY <1>3, <2>1, <2>3, Turnwise
  <2>5. J(n)
    BY <1>3, <1>5, <2>4 DEF G
  <2>6. LeavesProperties(p, r[n]) /\ StillOpen(ev, Len(ev), r[n])
    BY <1>1, <2>5 DEF J
  <2>7. ~r[n].in_one_of
    BY <1>3, <2>6, OpenEnds
  <2>8. QED
    BY <1>1, <2>6, <2>7
<1>13. QED
  BY <1>3, <1>11, <1>12

\* What a property's record has of its declaration, and what it has after some events.
Exact(record, d) ==
    /\ record.domain = d.domain /\ record.range = d.range
    /\ record.inverse \in {NoName, d.inverse} /\ Range(record.parents) \subseteq Range(d.parents)

Partly(record, d) ==
    /\ record.domain \in {NoName, d.domain} /\ record.range \in {NoName, d.range}
    /\ record.inverse \in {NoName, d.inverse} /\ Range(record.parents) \subseteq Range(d.parents)

\* The properties with the one that is declared.
Joins(n, before, after) ==
    /\ DOMAIN after = DOMAIN before \cup {n}
    /\ \A x \in DOMAIN before : x # n => after[x] = before[x]

LEMMA TellsMore ==
    ASSUME NEW d, NEW first, NEW before, NEW after,
           Joins(d.name, first, before), Partly(before[d.name], d), Tells(d, before, after)
    PROVE  /\ Joins(d.name, first, after) /\ Partly(after[d.name], d)
           /\ before[d.name].domain = d.domain => after[d.name].domain = d.domain
           /\ before[d.name].range = d.range => after[d.name].range = d.range
<1>1. Joins(d.name, first, after)
  BY DEF Joins, Tells
<1>2. Partly(after[d.name], d)
  BY DEF Partly, Tells
<1>3. QED
  BY <1>1, <1>2 DEF Tells

\* A property that is read has exactly the domain and range it was declared with.
LEMMA ReadProperty ==
    ASSUME NEW d \in Declaration, Flat(d), d.kind # "class",
           NEW p \in ParserState, ~p.in_one_of, p.domain = NoName, p.range = NoName
    PROVE  LET q == Reading(p, Events(d))[Len(Events(d))]
           IN  /\ ~q.in_one_of /\ q.domain = NoName /\ q.range = NoName
               /\ Joins(d.name, p.owl.properties, q.owl.properties)
               /\ Exact(q.owl.properties[d.name], d)
<1>1. PICK ev, n, r, first : /\ ev = Events(d) /\ n = Len(ev) /\ r = Reading(p, ev)
                             /\ first = p.owl.properties
  OBVIOUS
<1>2. /\ TagOf(d) \in {"ObjectProperty", "DatatypeProperty"} /\ d.name \in Name /\ d.name # NoName
      /\ d.domain \in MaybeName /\ d.range \in MaybeName
  BY DeclarationParts, NoNameIsNone DEF TagOf
<1>3. PICK tag \in {"ObjectProperty", "DatatypeProperty"} : tag = TagOf(d)
  BY <1>2
<1>4. /\ IsSeq(ev) /\ Range(ev) \subseteq XmlEvent /\ Closes(ev)
      /\ n \in Nat \ {0} /\ DOMAIN ev = 1..n
      /\ n > 1 => ev[1] = Event("start", tag, d.name)
      /\ n = 1 => ev[1] = Event("empty", tag, d.name)
      /\ \A k \in 2..n :
            ev[k] \in InnerEvents(d) \/ (k = n /\ ev[k] = Event("end", tag, NoName))
      /\ n > 1 => ev[n] = Event("end", tag, NoName)
      /\ SomeEvent("domain", d.domain) \subseteq Range(ev)
      /\ SomeEvent("range", d.range) \subseteq Range(ev)
  BY <1>1, <1>3, EventsFacts
<1>5. /\ r[0] = p
      /\ \A k \in 1..n : r[k] = ReadEvent(r[k - 1], ev[k])
      /\ \A k \in 0..n : r[k] \in ParserState
  BY <1>1, <1>4, ReadingTurns
<1>6. 1 \in 1..n /\ 1 - 1 = 0 /\ n \in 0..n
  BY <1>4
<1>7. ev[1] \in XmlEvent
  BY <1>4, <1>6 DEF Range
<1>8. r[1] = ReadEvent(p, ev[1])
  <2>1. r[1] = ReadEvent(r[1 - 1], ev[1])
    BY <1>5, <1>6
  <2>2. QED
    BY <1>5, <1>6, <2>1
<1>9. ev[1].at \in {"start", "empty"} /\ ev[1].tag = tag /\ ev[1].ref = d.name
  <2>1. CASE n = 1
    BY <1>4, <2>1, EventParts
  <2>2. CASE n > 1
    BY <1>4, <2>2, EventParts
  <2>3. QED
    BY <1>4, <2>1, <2>2
<1>10. r[1] = OpenProperty(p, ev[1])
  BY <1>8, <1>9, ReadEventCases
<1>11. /\ r[1].property = d.name /\ r[1].domain = NoName /\ r[1].range = NoName
       /\ ~r[1].in_one_of /\ Joins(d.name, first, r[1].owl.properties)
       /\ r[1].owl.properties[d.name].domain = NoName
       /\ r[1].owl.properties[d.name].range = NoName
       /\ r[1].owl.properties[d.name].inverse = NoName
       /\ r[1].owl.properties[d.name].parents = <<>>
  <2>1. PICK e, s : e = ev[1] /\ s = OpenProperty(p, e)
    OBVIOUS
  <2>2. e \in XmlEvent /\ e.ref = d.name /\ e.ref # NoName
    BY <1>2, <1>7, <1>9, <2>1
  <2>3. /\ s.in_one_of = p.in_one_of
        /\ s.property = e.ref /\ s.domain = NoName /\ s.range = NoName
        /\ DOMAIN s.owl.properties = DOMAIN p.owl.properties \cup {e.ref}
        /\ \A x \in DOMAIN p.owl.properties :
              x # e.ref => s.owl.properties[x] = p.owl.properties[x]
        /\ s.owl.properties[e.ref].domain = p.domain /\ s.owl.properties[e.ref].range = p.range
        /\ s.owl.properties[e.ref].parents = <<>> /\ s.owl.properties[e.ref].inverse = NoName
    BY <2>1, <2>2, OpenPropertyFields
  <2>4. Joins(d.name, first, s.owl.properties)
    BY <1>1, <2>2, <2>3 DEF Joins
  <2>5. r[1] = s
    BY <1>10, <2>1
  <2>6. QED
    BY <2>2, <2>3, <2>4, <2>5
<1>12. Partly(r[1].owl.properties[d.name], d)
  <2>1. Range(<<>>) = {}
    BY DEF Range
  <2>2. QED
    BY <1>11, <2>1 DEF Partly
<1>13. ev[1] # DomainEvent(d) /\ ev[1] # RangeEvent(d)
  BY <1>9, EventParts DEF DomainEvent, RangeEvent
<1>14. CASE n = 1
  <2>1. \A e \in Range(ev) : e = ev[1]
    BY <1>4, <1>14 DEF Range
  <2>2. d.domain = NoName /\ d.range = NoName
    BY <1>4, <1>13, <2>1 DEF SomeEvent, DomainEvent, RangeEvent
  <2>3. Exact(r[1].owl.properties[d.name], d)
    BY <1>11, <1>12, <2>2 DEF Exact, Partly
  <2>4. QED
    BY <1>1, <1>11, <1>14, <2>3
<1>15. CASE n > 1
  <2> DEFINE this(k) == r[k].owl.properties[d.name]
             J(k) == /\ r[k].domain = NoName /\ r[k].range = NoName
                     /\ StillOpen(ev, k, r[k])
                     /\ k # n => r[k].property = d.name
                     /\ Joins(d.name, first, r[k].owl.properties)
                     /\ Partly(this(k), d)
                     /\ \A j \in 1..k : ev[j] = DomainEvent(d) => this(k).domain = d.domain
                     /\ \A j \in 1..k : ev[j] = RangeEvent(d) => this(k).range = d.range
             G == {k \in 0..n : k = 0 \/ J(k)}
  <2>1. 0 \in G
    BY <1>4
  <2>2. ASSUME NEW k \in 1..n, k - 1 \in G PROVE J(k)
    <3>1. CASE k = 1
      <4>1. \A j \in 1..k : j = 1
        BY <3>1
      <4>2. StillOpen(ev, k, r[k])
        BY <1>11, <3>1 DEF StillOpen
      <4>3. QED
        BY <1>11, <1>12, <1>13, <3>1, <4>1, <4>2
    <3>2. CASE k # 1
      <4>1. k \in 2..n /\ k - 1 \in 0..n /\ k - 1 # 0 /\ k - 1 # n
        BY <1>4, <3>2
      <4>2. J(k - 1)
        BY <2>2, <4>1
      <4>3. PICK q, s, e : q = r[k - 1] /\ s = r[k] /\ e = ev[k]
        OBVIOUS
      <4>4. PICK before, after : before = q.owl.properties /\ after = s.owl.properties
        OBVIOUS
      <4>5. /\ s = ReadEvent(q, e) /\ q \in ParserState /\ q.property = d.name
            /\ q.domain = NoName /\ q.range = NoName /\ StillOpen(ev, k - 1, q)
            /\ Joins(d.name, first, before) /\ Partly(before[d.name], d)
        BY <1>5, <4>1, <4>2, <4>3, <4>4
      <4>6. /\ \A j \in 1..(k - 1) : ev[j] = DomainEvent(d) => before[d.name].domain = d.domain
            /\ \A j \in 1..(k - 1) : ev[j] = RangeEvent(d) => before[d.name].range = d.range
        BY <4>2, <4>3, <4>4
      <4>7. /\ s.domain = NoName /\ s.range = NoName
            /\ k # n => s.property = d.name
            /\ Tells(d, before, after)
            /\ e = EndOneOf => ~s.in_one_of
            /\ e # StartOneOf /\ e # EndOneOf => s.in_one_of = q.in_one_of
            /\ e = DomainEvent(d) => after[d.name].domain = d.domain
            /\ e = RangeEvent(d) => after[d.name].range = d.range
        <5>1. CASE e \in InnerEvents(d)
          BY <4>4, <4>5, <5>1, InnerOfProperty
        <5>2. CASE k = n /\ e = Event("end", tag, NoName)
          <6>1. e.at = "end" /\ e.tag = tag
            BY <5>2, EventParts
          <6>2. s = CloseProperty(q)
            BY <4>5, <6>1, ReadEventCases
          <6>3. e # EndOneOf /\ e # DomainEvent(d) /\ e # RangeEvent(d)
            BY <6>1, EventParts DEF EndOneOf, DomainEvent, RangeEvent
          <6>4. LeavesProperties(q, s) /\ s.in_one_of = q.in_one_of
            BY <1>2, <4>5, <6>2, ClosePropertyFields
          <6>5. after = before /\ s.domain = NoName /\ s.range = NoName
            BY <4>4, <4>5, <6>4 DEF LeavesProperties
          <6>6. Tells(d, before, after)
            BY <6>5 DEF Tells
          <6>7. QED
            BY <5>2, <6>3, <6>4, <6>5, <6>6
        <5>3. QED
          BY <1>4, <4>1, <4>3, <5>1, <5>2
      <4>8. /\ Joins(d.name, first, after) /\ Partly(after[d.name], d)
            /\ before[d.name].domain = d.domain => after[d.name].domain = d.domain
            /\ before[d.name].range = d.range => after[d.name].range = d.range
        BY <4>5, <4>7, TellsMore
      <4>9. StillOpen(ev, k, s)
        <5>1. k \in 1..Len(ev)
          BY <1>1
        <5>2. /\ ev[k] = EndOneOf => ~s.in_one_of
              /\ ev[k] # StartOneOf /\ ev[k] # EndOneOf => s.in_one_of = q.in_one_of
          BY <4>3, <4>7
        <5>3. QED
          BY <1>4, <4>5, <5>1, <5>2, OpenKept
      <4>10. /\ \A j \in 1..k : ev[j] = DomainEvent(d) => after[d.name].domain = d.domain
             /\ \A j \in 1..k : ev[j] = RangeEvent(d) => after[d.name].range = d.range
        <5>1. \A j \in 1..k : j = k \/ j \in 1..(k - 1)
          OBVIOUS
        <5>2. QED
          BY <4>3, <4>6, <4>7, <4>8, <5>1
      <4>11. QED
        BY <4>3, <4>4, <4>7, <4>8, <4>9, <4>10
    <3>3. QED
      BY <3>1, <3>2
  <2> HIDE DEF J
  <2>3. \A k \in 1..n : k - 1 \in G => k \in G
    BY <1>4, <2>2
  <2> HIDE DEF G
  <2>4. 0..n \subseteq G
    BY <1>4, <2>1, <2>3, Turnwise
  <2>5. J(n)
    BY <1>4, <1>6, <2>4 DEF G
  <2>6. PICK q, record : q = r[n] /\ record = q.owl.properties[d.name]
    OBVIOUS
  <2>7. /\ q.domain = NoName /\ q.range = NoName /\ StillOpen(ev, Len(ev), q)
        /\ Joins(d.name, first, q.owl.properties) /\ Partly(record, d)
        /\ \A j \in 1..n : ev[j] = DomainEvent(d) => record.domain = d.domain
        /\ \A j \in 1..n : ev[j] = RangeEvent(d) => record.range = d.range
    BY <1>1, <2>5, <2>6 DEF J
  <2>8. ~q.in_one_of
    BY <1>4, <2>7, OpenEnds
  <2>9. d.domain # NoName => record.domain = d.domain
    <3>1. SUFFICES ASSUME d.domain # NoName PROVE record.domain = d.domain
      OBVIOUS
    <3>2. DomainEvent(d) \in Range(ev)
      BY <1>4, <3>1 DEF SomeEvent, DomainEvent
    <3>3. PICK j \in 1..n : ev[j] = DomainEvent(d)
      BY <1>4, <3>2 DEF Range
    <3>4. QED
      BY <2>7, <3>3
  <2>10. d.range # NoName => record.range = d.range
    <3>1. SUFFICES ASSUME d.range # NoName PROVE record.range = d.range
      OBVIOUS
    <3>2. RangeEvent(d) \in Range(ev)
      BY <1>4, <3>1 DEF SomeEvent, RangeEvent
    <3>3. PICK j \in 1..n : ev[j] = RangeEvent(d)
      BY <1>4, <3>2 DEF Range
    <3>4. QED
      BY <2>7, <3>3
  <2>11. Exact(record, d)
    BY <2>7, <2>9, <2>10 DEF Partly, Exact
  <2>12. QED
    BY <1>1, <2>6, <2>7, <2>8, <2>11
<1>16. QED
  BY <1>4, <1>14, <1>15

-----------------------------------------------------------------------------
(* What a side of a property may come from.                                 *)

\* A turn of the search: what is found with all that it draws from.
Grow(S) == {r \in PropertySides : r \in S \/ \E s \in S : Draws(s, r)}

\* There are as many sides as can be counted.
LEMMA SidesFinite == IsFiniteSet(PropertySides) /\ Cardinality(PropertySides) \in Nat
<1>1. IsFiniteSet(Name)
  BY SortedFacts
<1>2. IsFiniteSet(Sides)
  <2>1. IsFiniteSet({"domain"}) /\ IsFiniteSet({"range"})
    BY FS_Singleton
  <2>2. PICK a, b : a = {"domain"} /\ b = {"range"}
    OBVIOUS
  <2>3. IsFiniteSet(a \cup b)
    BY <2>1, <2>2, FS_Union
  <2>4. Sides = a \cup b
    BY <2>2 DEF Sides
  <2>5. QED
    BY <2>3, <2>4
<1>3. PropertySides = Name \X Sides
  BY DEF PropertySides
<1>4. IsFiniteSet(Name \X Sides)
  BY <1>1, <1>2, FS_Product
<1>5. QED
  BY <1>3, <1>4, FS_CardinalityType

IsSide(n, side) == <<n, side>> \in PropertySides

\* The search for what a side comes from, turn by turn.
LEMMA DrawnTurns ==
    ASSUME NEW n, NEW side, IsSide(n, side)
    PROVE  /\ Cardinality(PropertySides) \in Nat /\ DrawnFrom(n, side)[0] = {<<n, side>>}
           /\ \A k \in 1..Cardinality(PropertySides) : DrawnFrom(n, side)[k] = Grow(DrawnFrom(n, side)[k - 1])
           /\ \A k \in 0..Cardinality(PropertySides) : DrawnFrom(n, side)[k] \in (SUBSET PropertySides)
<1> DEFINE N == Cardinality(PropertySides)
           Q == (SUBSET PropertySides)
           a == {<<n, side>>}
           F == [k \in 1..N |-> [r \in Q |-> Grow(r)]]
           Loop(t) == t = [k \in 0..N |-> IF k = 0 THEN a
                                          ELSE LET before == t[k - 1] IN {r \in PropertySides : r \in before \/ \E s \in before : Draws(s, r)}]
<1>1. N \in Nat
  BY SidesFinite
<1>2. a \in Q
  BY DEF IsSide
<1>3. \A k \in 1..N : \A r \in Q : Grow(r) \in Q
  BY DEF Grow
<1> HIDE DEF Q
<1>4. PICK r \in [0..N -> Q] : r[0] = a /\ \A k \in 1..N : r[k] = F[k][r[k - 1]]
  <2>1. F \in [1..N -> [Q -> Q]] /\ N \in Nat
    BY <1>1, <1>3
  <2>2. ASSUME NEW M \in Nat, NEW G \in [1..M -> [Q -> Q]], NEW x \in Q
        PROVE  \E r \in [0..M -> Q] : r[0] = x /\ \A k \in 1..M : r[k] = G[k][r[k - 1]]
    BY LoopExists
  <2> HIDE DEF N, F, a
  <2>3. QED
    BY <1>2, <2>1, <2>2
<1> HIDE DEF N, a
<1>5. \A k \in 1..N : r[k] = Grow(r[k - 1])
  <2>1. \A k \in 1..N : r[k - 1] \in Q
    BY <1>1, <1>4
  <2>2. QED
    BY <1>4, <2>1
<1>6. Loop(r)
  <2>1. \A k \in 0..N : r[k] = IF k = 0 THEN a ELSE Grow(r[k - 1])
    BY <1>1, <1>4, <1>5
  <2>2. QED
    BY <1>4, <2>1 DEF Grow
<1>7. Loop(DrawnFrom(n, side))
  BY <1>6 DEF DrawnFrom, N, a
<1> HIDE DEF F
<1>8. ASSUME NEW t, Loop(t)
      PROVE  t[0] = a /\ \A k \in 1..N : t[k] = Grow(t[k - 1])
  <2>1. t[0] = a
    BY <1>1, <1>8
  <2>2. ASSUME NEW k \in 1..N PROVE t[k] = Grow(t[k - 1])
    <3>1. k \in 0..N /\ k # 0
      BY <1>1
    <3>2. QED
      BY <1>8, <3>1 DEF Grow
  <2>3. QED
    BY <2>1, <2>2
<1> HIDE DEF Loop
<1>9. /\ DrawnFrom(n, side)[0] = a
      /\ \A k \in 1..N : DrawnFrom(n, side)[k] = Grow(DrawnFrom(n, side)[k - 1])
  BY <1>7, <1>8
<1>10. \A k \in 0..N : DrawnFrom(n, side)[k] \in Q
  <2>1. \A k \in 1..N : DrawnFrom(n, side)[k - 1] \in Q => DrawnFrom(n, side)[k] \in Q
    BY <1>3, <1>9
  <2>2. QED
    BY <1>1, <1>2, <1>9, <2>1, Throughout
<1> QED
  BY <1>1, <1>9, <1>10 DEF Q, N, a

LEMMA SourcesStay ==
    ASSUME said' = said
    PROVE  \A n, side : AllSources(n, side)' = AllSources(n, side)
  BY DEF AllSources, DrawnFrom, Draws, PropertiesSaid

\* The sources of a side are the side and all that any of them draws from.
LEMMA SourcesFacts ==
    ASSUME NEW n, NEW side, IsSide(n, side)
    PROVE  /\ <<n, side>> \in AllSources(n, side) /\ AllSources(n, side) \subseteq PropertySides
           /\ Grow(AllSources(n, side)) = AllSources(n, side)
<1> DEFINE N == Cardinality(PropertySides)
           D == DrawnFrom(n, side)
           J(k) == /\ <<n, side>> \in D[k]
                   /\ Cardinality(D[k]) >= k + 1 \/ Grow(D[k]) = D[k]
           G == {k \in 0..N : J(k)}
<1>1. /\ N \in Nat /\ D[0] = {<<n, side>>}
      /\ \A k \in 1..N : D[k] = Grow(D[k - 1])
      /\ \A k \in 0..N : D[k] \in SUBSET PropertySides
  BY DrawnTurns
<1>2. IsFiniteSet(PropertySides)
  BY SidesFinite
<1>3. AllSources(n, side) = D[N]
  BY DEF AllSources
<1> HIDE DEF N, D
<1>4. \A k \in 0..N : /\ IsFiniteSet(D[k]) /\ Cardinality(D[k]) \in Nat
                      /\ Cardinality(D[k]) <= Cardinality(PropertySides)
                      /\ Cardinality(PropertySides) = Cardinality(D[k]) => PropertySides = D[k]
  <2>1. SUFFICES ASSUME NEW k \in 0..N
                 PROVE  /\ IsFiniteSet(D[k]) /\ Cardinality(D[k]) \in Nat
                        /\ Cardinality(D[k]) <= Cardinality(PropertySides)
                        /\ Cardinality(PropertySides) = Cardinality(D[k]) => PropertySides = D[k]
    OBVIOUS
  <2>2. D[k] \in SUBSET PropertySides
    BY <1>1
  <2>3. QED
    BY <1>2, <2>2, FS_Subset, FS_CardinalityType
<1>5. J(0)
  <2>1. Cardinality(D[0]) = 1
    BY <1>1, FS_Singleton
  <2>2. QED
    BY <1>1, <2>1
<1>6. ASSUME NEW k \in 1..N, J(k - 1) PROVE J(k)
  <2>1. k - 1 \in 0..N /\ k \in 0..N /\ D[k] = Grow(D[k - 1])
    BY <1>1
  <2>2. D[k - 1] \subseteq D[k]
    <3>1. D[k - 1] \in SUBSET PropertySides
      BY <1>1, <2>1
    <3>2. QED
      BY <2>1, <3>1 DEF Grow
  <2>3. CASE Grow(D[k - 1]) = D[k - 1]
    BY <1>6, <2>1, <2>3
  <2>4. CASE Cardinality(D[k - 1]) >= k /\ Grow(D[k - 1]) # D[k - 1]
    <3>1. PICK S, T : S = D[k] /\ T = D[k - 1]
      OBVIOUS
    <3>2. IsFiniteSet(S) /\ T \in SUBSET S /\ S # T
      BY <1>4, <2>1, <2>2, <2>4, <3>1
    <3>3. Cardinality(T) <= Cardinality(S) /\ Cardinality(S) # Cardinality(T)
      BY <3>2, FS_Subset
    <3>4. Cardinality(S) \in Nat /\ Cardinality(T) \in Nat
      BY <1>4, <2>1, <3>1
    <3>5. Cardinality(S) >= k + 1
      BY <2>4, <3>1, <3>3, <3>4
    <3>6. QED
      BY <1>6, <2>2, <3>1, <3>5
  <2>5. QED
    BY <1>6, <2>3, <2>4
<1> HIDE DEF J
<1>7. 0 \in G /\ \A k \in 1..N : k - 1 \in G => k \in G
  BY <1>1, <1>5, <1>6
<1> HIDE DEF G
<1>8. 0..N \subseteq G
  BY <1>1, <1>7, Turnwise
<1>9. J(N) /\ N \in 0..N
  BY <1>1, <1>8 DEF G
<1>10. Grow(D[N]) = D[N]
  <2>1. CASE Cardinality(D[N]) >= N + 1
    BY <1>1, <1>4, <1>9, <2>1 DEF N
  <2>2. QED
    BY <1>9, <2>1 DEF J
<1>11. D[N] \in SUBSET PropertySides
  BY <1>1, <1>9
<1>12. QED
  BY <1>3, <1>9, <1>10, <1>11 DEF J

\* They are in every set that has the side and all that its elements draw from.
LEMMA SourcesLeast ==
    ASSUME NEW n, NEW side, IsSide(n, side), NEW C, <<n, side>> \in C,
           \A s \in C : \A r \in PropertySides : Draws(s, r) => r \in C
    PROVE  AllSources(n, side) \subseteq C
<1> DEFINE N == Cardinality(PropertySides)
           D == DrawnFrom(n, side)
<1>1. /\ N \in Nat /\ D[0] = {<<n, side>>}
      /\ \A k \in 1..N : D[k] = Grow(D[k - 1])
  BY DrawnTurns
<1>2. AllSources(n, side) = D[N]
  BY DEF AllSources
<1> HIDE DEF N, D
<1>3. D[0] \in SUBSET C
  BY <1>1
<1>4. \A k \in 1..N : D[k - 1] \in SUBSET C => D[k] \in SUBSET C
  <2>1. ASSUME NEW S \in SUBSET C PROVE Grow(S) \in SUBSET C
    BY <2>1 DEF Grow
  <2>2. QED
    BY <1>1, <2>1
<1>5. \A k \in 0..N : D[k] \in SUBSET C
  BY <1>1, <1>3, <1>4, Throughout
<1>6. QED
  BY <1>1, <1>2, <1>5

\* What a source of a side draws from, with its sources, are sources of the side.
LEMMA SourcesOfSource ==
    ASSUME NEW n, NEW side, IsSide(n, side), NEW x, NEW other, IsSide(x, other),
           Draws(<<n, side>>, <<x, other>>)
    PROVE  AllSources(x, other) \subseteq AllSources(n, side)
<1>1. PICK A : A = AllSources(n, side)
  OBVIOUS
<1>2. <<n, side>> \in A /\ A \subseteq PropertySides /\ Grow(A) = A
  BY <1>1, SourcesFacts
<1>3. \A s \in A : \A r \in PropertySides : Draws(s, r) => r \in A
  BY <1>2 DEF Grow
<1>4. <<x, other>> \in A
  BY <1>2, <1>3 DEF IsSide
<1>5. AllSources(x, other) \subseteq A
  BY <1>3, <1>4, SourcesLeast
<1>6. QED
  BY <1>1, <1>5

-----------------------------------------------------------------------------
(* What the ontology said is kept.                                          *)

\* That a side of n may have the value: one of its sources was declared with it.
GivenBy(n, side, value) == \E s \in AllSources(n, side) : value \in ToldOf(s[1], s[2])

MayHold(n, domain, range) ==
    /\ domain # NoName => GivenBy(n, "domain", domain)
    /\ range # NoName => GivenBy(n, "range", range)

\* The properties keep what they were declared with, and hold nothing that was not
\* declared of one that they draw from.
Grounded(m) ==
    /\ \A d \in PropertiesSaid :
          /\ d.name \in DOMAIN m
          /\ d.domain # NoName => m[d.name].domain = d.domain
          /\ d.range # NoName => m[d.name].range = d.range
    /\ \A n \in DOMAIN m : \A p \in Range(m[n].parents) :
          \E d \in PropertiesSaid : d.name = n /\ p \in Range(d.parents)
    /\ \A n \in DOMAIN m :
          m[n].inverse # NoName =>
             \E d \in PropertiesSaid : d.name = n /\ d.inverse = m[n].inverse
    /\ \A n \in DOMAIN m : MayHold(n, m[n].domain, m[n].range)

\* What offers nothing that the one it is offered to may not hold leaves them so.
LEMMA GroundedByOffers ==
    ASSUME NEW m \in Maps(PropertyRecord), Grounded(m), NEW offers, IsSeq(offers),
           Range(offers) \subseteq OfferRecord,
           \A o \in Range(offers) : MayHold(o.to, o.domain, o.range)
    PROVE  Grounded(AcceptAll(m, offers))
<1>1. PICK a : a = AcceptAll(m, offers)
  OBVIOUS
<1>2. Accepted(m, offers, a)
  BY <1>1, AcceptAllFacts
<1>3. \A d \in PropertiesSaid :
         /\ d.name \in DOMAIN a
         /\ d.domain # NoName => a[d.name].domain = d.domain
         /\ d.range # NoName => a[d.name].range = d.range
  BY <1>2 DEF Grounded, Accepted
<1>4. ASSUME NEW n \in DOMAIN a, NEW p \in Range(a[n].parents)
      PROVE  \E d \in PropertiesSaid : d.name = n /\ p \in Range(d.parents)
  <2>1. CASE n \in DOMAIN m
    BY <1>2, <1>4, <2>1 DEF Grounded, Accepted
  <2>2. CASE n \notin DOMAIN m
    <3>1. a[n].parents = <<>>
      BY <1>2, <1>4, <2>2 DEF Accepted
    <3>2. Range(<<>>) = {}
      BY DEF Range
    <3>3. QED
      BY <1>4, <3>1, <3>2
  <2>3. QED
    BY <2>1, <2>2
<1>5. ASSUME NEW n \in DOMAIN a, a[n].inverse # NoName
      PROVE  \E d \in PropertiesSaid : d.name = n /\ d.inverse = a[n].inverse
  <2>1. n \in DOMAIN m
    BY <1>2, <1>5 DEF Accepted
  <2>2. QED
    BY <1>2, <1>5, <2>1 DEF Grounded, Accepted
<1>6. ASSUME NEW n \in DOMAIN a PROVE MayHold(n, a[n].domain, a[n].range)
  <2>1. ASSUME a[n].domain # NoName PROVE GivenBy(n, "domain", a[n].domain)
    <3>1. CASE n \in DOMAIN m /\ a[n].domain = m[n].domain
      BY <2>1, <3>1 DEF Grounded, MayHold
    <3>2. CASE \E o \in Range(offers) : o.to = n /\ o.domain = a[n].domain
      BY <2>1, <3>2 DEF MayHold
    <3>3. QED
      BY <1>2, <1>6, <2>1, <3>1, <3>2 DEF Accepted
  <2>2. ASSUME a[n].range # NoName PROVE GivenBy(n, "range", a[n].range)
    <3>1. CASE n \in DOMAIN m /\ a[n].range = m[n].range
      BY <2>2, <3>1 DEF Grounded, MayHold
    <3>2. CASE \E o \in Range(offers) : o.to = n /\ o.range = a[n].range
      BY <2>2, <3>2 DEF MayHold
    <3>3. QED
      BY <1>2, <1>6, <2>2, <3>1, <3>2 DEF Accepted
  <2>3. QED
    BY <2>1, <2>2 DEF MayHold
<1>7. Grounded(a)
  BY <1>3, <1>4, <1>5, <1>6 DEF Grounded
<1>8. QED
  BY <1>1, <1>7

\* What a side draws from gives it what it has itself.
LEMMA GivenOnward ==
    ASSUME NEW n \in Name, NEW side \in Sides, NEW x \in Name, NEW other \in Sides,
           Draws(<<n, side>>, <<x, other>>), NEW value, GivenBy(x, other, value)
    PROVE  GivenBy(n, side, value)
<1>1. IsSide(n, side) /\ IsSide(x, other)
  BY DEF IsSide, PropertySides
<1>2. AllSources(x, other) \subseteq AllSources(n, side)
  BY <1>1, SourcesOfSource
<1>3. QED
  BY <1>2 DEF GivenBy

\* An inverse is offered nothing that it may not hold.
LEMMA InversesMayHold ==
    ASSUME NEW m \in Maps(PropertyRecord), Grounded(m), NEW o \in Range(InverseOffers(m))
    PROVE  MayHold(o.to, o.domain, o.range)
<1>1. /\ o \in OfferRecord
      /\ \E n \in DOMAIN m : /\ m[n].inverse # NoName /\ o.to = m[n].inverse
                             /\ o.domain = m[n].range /\ o.range = m[n].domain
  BY InverseOffersFacts
<1>2. PICK n \in DOMAIN m : /\ m[n].inverse # NoName /\ o.to = m[n].inverse
                            /\ o.domain = m[n].range /\ o.range = m[n].domain
  BY <1>1
<1>3. n \in Name /\ o.to \in Name
  BY <1>1, MapFacts DEF OfferRecord
<1>4. PICK d \in PropertiesSaid : d.name = n /\ d.inverse = o.to
  BY <1>2 DEF Grounded
<1>5. /\ Draws(<<o.to, "domain">>, <<n, "range">>)
      /\ Draws(<<o.to, "range">>, <<n, "domain">>)
  BY <1>4 DEF Draws, Turned
<1>6. "domain" \in Sides /\ "range" \in Sides
  BY DEF Sides
<1>7. MayHold(n, m[n].domain, m[n].range)
  BY DEF Grounded
<1>8. ASSUME o.domain # NoName PROVE GivenBy(o.to, "domain", o.domain)
  <2>1. GivenBy(n, "range", o.domain)
    BY <1>2, <1>7, <1>8 DEF MayHold
  <2>2. QED
    BY <1>3, <1>5, <1>6, <2>1, GivenOnward
<1>9. ASSUME o.range # NoName PROVE GivenBy(o.to, "range", o.range)
  <2>1. GivenBy(n, "domain", o.range)
    BY <1>2, <1>7, <1>9 DEF MayHold
  <2>2. QED
    BY <1>3, <1>5, <1>6, <2>1, GivenOnward
<1>10. QED
  BY <1>8, <1>9 DEF MayHold

\* Nor is a property by those that it refines.
LEMMA HeirsMayHold ==
    ASSUME NEW m \in Maps(PropertyRecord), Grounded(m), NEW o \in InheritedOffers(m)
    PROVE  MayHold(o.to, o.domain, o.range)
<1>1. PICK n \in DOMAIN m, p \in DOMAIN m : /\ p \in Range(m[n].parents) /\ o.to = n
                                            /\ o.domain = m[p].domain /\ o.range = m[p].range
  BY DEF InheritedOffers
<1>2. n \in Name /\ p \in Name
  BY MapFacts
<1>3. PICK d \in PropertiesSaid : d.name = n /\ p \in Range(d.parents)
  BY <1>1 DEF Grounded
<1>4. /\ Draws(<<n, "domain">>, <<p, "domain">>)
      /\ Draws(<<n, "range">>, <<p, "range">>)
  BY <1>3 DEF Draws
<1>5. "domain" \in Sides /\ "range" \in Sides
  BY DEF Sides
<1>6. MayHold(p, o.domain, o.range)
  BY <1>1 DEF Grounded
<1>7. ASSUME o.domain # NoName PROVE GivenBy(n, "domain", o.domain)
  <2>1. GivenBy(p, "domain", o.domain)
    BY <1>6, <1>7 DEF MayHold
  <2>2. QED
    BY <1>2, <1>4, <1>5, <2>1, GivenOnward
<1>8. ASSUME o.range # NoName PROVE GivenBy(n, "range", o.range)
  <2>1. GivenBy(p, "range", o.range)
    BY <1>6, <1>8 DEF MayHold
  <2>2. QED
    BY <1>2, <1>4, <1>5, <2>1, GivenOnward
<1>9. QED
  BY <1>1, <1>7, <1>8 DEF MayHold

\* A turn of the resolution keeps the properties grounded.
LEMMA TurnGrounded ==
    ASSUME NEW m \in Maps(PropertyRecord), Grounded(m)
    PROVE  Grounded(TurnedBy(m))
<1>1. PICK offers : offers = InverseOffers(m)
  OBVIOUS
<1>2. IsSeq(offers) /\ Range(offers) \subseteq OfferRecord
  BY <1>1, InverseOffersFacts
<1>3. \A o \in Range(offers) : MayHold(o.to, o.domain, o.range)
  BY <1>1, InversesMayHold
<1>4. AcceptAll(m, offers) \in Maps(PropertyRecord) /\ Grounded(AcceptAll(m, offers))
  BY <1>2, <1>3, AcceptAllFacts, GroundedByOffers
<1>5. PICK turned \in Maps(PropertyRecord) : turned = AcceptAll(m, offers) /\ Grounded(turned)
  BY <1>4
<1>6. PICK more : more = Inheritances(turned)
  OBVIOUS
<1>7. IsSeq(more) /\ Range(more) \subseteq InheritedOffers(turned)
  BY <1>6, InheritancesFacts
<1>8. /\ Range(more) \subseteq OfferRecord
      /\ \A o \in Range(more) : MayHold(o.to, o.domain, o.range)
  BY <1>5, <1>7, HeirsMayHold DEF InheritedOffers
<1>9. Grounded(AcceptAll(turned, more))
  BY <1>5, <1>7, <1>8, GroundedByOffers
<1>10. QED
  BY <1>1, <1>5, <1>6, <1>9 DEF TurnedBy

\* While a plain document is read the properties are those that were declared, each as
\* it was declared, and nothing is pending.
AsDeclared(p, declared) ==
    /\ p.domain = NoName /\ p.range = NoName /\ ~p.in_one_of
    /\ DOMAIN p.owl.properties = {d.name : d \in declared}
    /\ \A d \in declared : Exact(p.owl.properties[d.name], d)

\* One more declaration, of a name of its own.
LEMMA DeclaredMore ==
    ASSUME NEW declared, NEW d \in Declaration, Flat(d),
           d.kind = "class" => d.domain = NoName /\ d.range = NoName,
           \A e \in declared : e.name # d.name,
           NEW p \in ParserState, AsDeclared(p, declared)
    PROVE  LET q == Reading(p, Events(d))[Len(Events(d))]
           IN  AsDeclared(q, IF d.kind = "class" THEN declared ELSE declared \cup {d})
<1>1. PICK q : q = Reading(p, Events(d))[Len(Events(d))]
  OBVIOUS
<1>2. ~p.in_one_of /\ p.domain = NoName /\ p.range = NoName
  BY DEF AsDeclared
<1>3. ASSUME d.kind = "class" PROVE AsDeclared(q, declared)
  <2>1. LeavesProperties(p, q) /\ ~q.in_one_of
    BY <1>1, <1>2, <1>3, ReadClass
  <2>2. QED
    BY <2>1 DEF LeavesProperties, AsDeclared
<1>4. ASSUME d.kind # "class" PROVE AsDeclared(q, declared \cup {d})
  <2>1. /\ ~q.in_one_of /\ q.domain = NoName /\ q.range = NoName
        /\ Joins(d.name, p.owl.properties, q.owl.properties)
        /\ Exact(q.owl.properties[d.name], d)
    BY <1>1, <1>2, <1>4, ReadProperty
  <2>2. DOMAIN q.owl.properties = {e.name : e \in declared \cup {d}}
    BY <2>1 DEF Joins, AsDeclared
  <2>3. ASSUME NEW e \in declared PROVE Exact(q.owl.properties[e.name], e)
    <3>1. e.name \in DOMAIN p.owl.properties /\ e.name # d.name
      BY DEF AsDeclared
    <3>2. q.owl.properties[e.name] = p.owl.properties[e.name]
      BY <2>1, <3>1 DEF Joins
    <3>3. QED
      BY <3>2 DEF AsDeclared
  <2>4. QED
    BY <2>1, <2>2, <2>3 DEF AsDeclared
<1>5. QED
  BY <1>1, <1>3, <1>4

\* What is as it was declared is grounded.
LEMMA DeclaredGrounded ==
    ASSUME NEW p \in ParserState, AsDeclared(p, PropertiesSaid)
    PROVE  Grounded(p.owl.properties)
<1>1. PICK m : m = p.owl.properties
  OBVIOUS
<1>2. /\ m \in Maps(PropertyRecord) /\ DOMAIN m = {d.name : d \in PropertiesSaid}
      /\ \A d \in PropertiesSaid : Exact(m[d.name], d)
  BY <1>1, ParserStateParts DEF PartsTyped, AsDeclared
<1>3. DOMAIN m \subseteq Name
  BY <1>2, MapFacts
<1>4. ASSUME NEW n \in DOMAIN m PROVE \E d \in PropertiesSaid : d.name = n /\ Exact(m[n], d)
  BY <1>2
<1>5. ASSUME NEW n \in DOMAIN m PROVE MayHold(n, m[n].domain, m[n].range)
  <2>1. PICK d \in PropertiesSaid : d.name = n /\ Exact(m[n], d)
    BY <1>4
  <2>2. n \in Name /\ "domain" \in Sides /\ "range" \in Sides
    BY <1>3 DEF Sides
  <2>3. IsSide(n, "domain") /\ IsSide(n, "range")
    BY <2>2 DEF IsSide, PropertySides
  <2>4. <<n, "domain">> \in AllSources(n, "domain") /\ <<n, "range">> \in AllSources(n, "range")
    BY <2>3, SourcesFacts
  <2>5. m[n].domain = d.domain /\ m[n].range = d.range
    BY <2>1 DEF Exact
  <2>6. m[n].domain # NoName => m[n].domain \in ToldOf(n, "domain")
    BY <2>1, <2>5 DEF ToldOf
  <2>7. m[n].range # NoName => m[n].range \in ToldOf(n, "range")
    BY <2>1, <2>5 DEF ToldOf
  <2>8. m[n].domain # NoName => GivenBy(n, "domain", m[n].domain)
    BY <2>4, <2>6 DEF GivenBy
  <2>9. m[n].range # NoName => GivenBy(n, "range", m[n].range)
    BY <2>4, <2>7 DEF GivenBy
  <2>10. QED
    BY <2>8, <2>9 DEF MayHold
<1>6. \A d \in PropertiesSaid : /\ d.name \in DOMAIN m
                                /\ d.domain # NoName => m[d.name].domain = d.domain
                                /\ d.range # NoName => m[d.name].range = d.range
  BY <1>2 DEF Exact
<1>7. \A n \in DOMAIN m : \A x \in Range(m[n].parents) :
         \E d \in PropertiesSaid : d.name = n /\ x \in Range(d.parents)
  BY <1>4 DEF Exact
<1>8. \A n \in DOMAIN m :
         m[n].inverse # NoName =>
            \E d \in PropertiesSaid : d.name = n /\ d.inverse = m[n].inverse
  BY <1>4 DEF Exact
<1>9. Grounded(m)
  BY <1>5, <1>6, <1>7, <1>8 DEF Grounded
<1>10. QED
  BY <1>1, <1>9

\* What is grounded in a plain document is what OntologyIsKept asks for.
LEMMA KeptWhenGrounded ==
    ASSUME PlainDocument => Grounded(parser.owl.properties)
    PROVE  OntologyIsKept
<1>1. SUFFICES ASSUME PlainDocument, NEW n \in DOMAIN parser.owl.properties, NEW side \in Sides
               PROVE  LET held == parser.owl.properties[n][side] IN
                      IF ToldOf(n, side) # {} THEN held \in ToldOf(n, side)
                      ELSE held # NoName =>
                              \E s \in AllSources(n, side) : held \in ToldOf(s[1], s[2])
  BY DEF OntologyIsKept
<1>2. PICK m : m = parser.owl.properties
  OBVIOUS
<1>3. n \in DOMAIN m /\ Grounded(m)
  BY <1>1, <1>2
<1>4. ASSUME ToldOf(n, side) # {} PROVE m[n][side] \in ToldOf(n, side)
  <2>1. PICK d \in PropertiesSaid : d.name = n /\ d[side] # NoName
    BY <1>4 DEF ToldOf
  <2>2. /\ d.domain # NoName => m[n].domain = d.domain
        /\ d.range # NoName => m[n].range = d.range
    BY <1>3, <2>1 DEF Grounded
  <2>3. CASE side = "domain"
    <3>1. m[n].domain = d.domain /\ d.domain # NoName
      BY <2>1, <2>2, <2>3
    <3>2. m[n].domain \in ToldOf(n, "domain")
      BY <2>1, <3>1 DEF ToldOf
    <3>3. QED
      BY <2>3, <3>2
  <2>4. CASE side = "range"
    <3>1. m[n].range = d.range /\ d.range # NoName
      BY <2>1, <2>2, <2>4
    <3>2. m[n].range \in ToldOf(n, "range")
      BY <2>1, <3>1 DEF ToldOf
    <3>3. QED
      BY <2>4, <3>2
  <2>5. QED
    BY <2>3, <2>4 DEF Sides
<1>5. ASSUME m[n][side] # NoName
      PROVE  \E s \in AllSources(n, side) : m[n][side] \in ToldOf(s[1], s[2])
  <2>1. MayHold(n, m[n].domain, m[n].range)
    BY <1>3 DEF Grounded
  <2>2. CASE side = "domain"
    <3>1. GivenBy(n, "domain", m[n].domain)
      BY <1>5, <2>1, <2>2 DEF MayHold
    <3>2. QED
      BY <2>2, <3>1 DEF GivenBy
  <2>3. CASE side = "range"
    <3>1. GivenBy(n, "range", m[n].range)
      BY <1>5, <2>1, <2>3 DEF MayHold
    <3>2. QED
      BY <2>3, <3>1 DEF GivenBy
  <2>4. QED
    BY <2>2, <2>3 DEF Sides
<1>6. QED
  BY <1>2, <1>4, <1>5

ReadAsDeclared ==
    phase = "reading" /\ PlainDocument => AsDeclared(parser, PropertiesSaid)

ResolvedGrounded ==
    phase # "reading" /\ PlainDocument => Grounded(parser.owl.properties)

Faithful == Stage /\ said \in Seq(Declarations) /\ ReadAsDeclared /\ ResolvedGrounded

\* Being grounded is about the properties and what was said.
LEMMA GroundedAfter ==
    ASSUME said' = said, NEW m, Grounded(m), parser'.owl.properties = m
    PROVE  Grounded(parser.owl.properties)'
<1>1. \A n, side : AllSources(n, side)' = AllSources(n, side)
  BY SourcesStay
<1>2. PropertiesSaid' = PropertiesSaid
  BY DEF PropertiesSaid
<1>3. \A n, side, v : GivenBy(n, side, v)' <=> GivenBy(n, side, v)
  BY <1>1, <1>2 DEF GivenBy, ToldOf
<1>4. \A n, v, w : MayHold(n, v, w)' <=> MayHold(n, v, w)
  BY <1>3 DEF MayHold
<1>5. QED
  BY <1>2, <1>4 DEF Grounded

LEMMA PlainStays ==
    ASSUME said' = said
    PROVE  PlainDocument' <=> PlainDocument
  BY DEF PlainDocument, Flat

LEMMA FaithfulStarts == Init => Faithful
<1> SUFFICES ASSUME Init PROVE Faithful
  OBVIOUS
<1>1. Stage
  BY StageStarts
<1>2. said = <<>> /\ phase = "reading" /\ parser = NewParser
  BY DEF Init
<1>3. said \in Seq(Declarations) /\ Range(said) = {}
  BY <1>2, EmptySeq DEF Range
<1>4. PropertiesSaid = {}
  BY <1>3 DEF PropertiesSaid
<1>5. /\ parser.domain = NoName /\ parser.range = NoName /\ ~parser.in_one_of
      /\ DOMAIN parser.owl.properties = {}
  BY <1>2 DEF NewParser, EmptyOwl
<1>6. AsDeclared(parser, {})
  BY <1>5 DEF AsDeclared
<1>7. QED
  BY <1>1, <1>2, <1>3, <1>4, <1>6 DEF Faithful, ReadAsDeclared, ResolvedGrounded

\* Reading one more declaration.
LEMMA FaithfulRead ==
    ASSUME Faithful, Stage', NEW d \in Declarations, Read(d)
    PROVE  Faithful'
<1>1. /\ phase = "reading" /\ phase' = "reading" /\ d \notin Range(said)
      /\ said' = Append(said, d) /\ parser' = Reading(parser, Events(d))[Len(Events(d))]
  BY DEF Read
<1>2. said' \in Seq(Declarations) /\ Range(said') = Range(said) \cup {d}
  BY <1>1, AppendFacts DEF Faithful
<1>3. ASSUME PlainDocument' PROVE AsDeclared(parser, PropertiesSaid)'
  <2>1. /\ \A e \in Range(said') : Flat(e)
        /\ \A e \in Range(said') : e.kind = "class" => e.domain = NoName /\ e.range = NoName
        /\ \A e, f \in Range(said') : e.name = f.name => e = f
    BY <1>3 DEF PlainDocument, Flat
  <2>2. PlainDocument
    BY <1>2, <2>1 DEF PlainDocument
  <2>3. AsDeclared(parser, PropertiesSaid)
    BY <1>1, <2>2 DEF Faithful, ReadAsDeclared
  <2>4. \A e \in Range(said) : e.name # d.name
    BY <1>1, <1>2, <2>1
  <2>5. PICK declared : declared = PropertiesSaid
    OBVIOUS
  <2>6. \A e \in declared : e.name # d.name
    BY <2>4, <2>5 DEF PropertiesSaid
  <2>7. PropertiesSaid' = IF d.kind = "class" THEN declared ELSE declared \cup {d}
    BY <1>2, <2>5 DEF PropertiesSaid
  <2>8. PICK p \in ParserState : p = parser
    BY DEF Faithful, Stage
  <2>9. d \in Declaration /\ AsDeclared(p, declared)
    BY <2>3, <2>5, <2>8, DeclarationsTyped
  <2>10. PICK q : q = Reading(p, Events(d))[Len(Events(d))]
    OBVIOUS
  <2>11. Flat(d) /\ (d.kind = "class" => d.domain = NoName /\ d.range = NoName)
    BY <1>2, <2>1
  <2>12. AsDeclared(q, IF d.kind = "class" THEN declared ELSE declared \cup {d})
    BY <2>6, <2>9, <2>10, <2>11, DeclaredMore
  <2>13. AsDeclared(q, PropertiesSaid')
    BY <2>7, <2>12
  <2>14. parser' = q
    BY <1>1, <2>8, <2>10
  <2>15. QED
    BY <2>13, <2>14 DEF AsDeclared
<1>4. ReadAsDeclared' /\ ResolvedGrounded'
  BY <1>1, <1>3 DEF ReadAsDeclared, ResolvedGrounded
<1>5. QED
  BY <1>2, <1>4 DEF Faithful

LEMMA FaithfulKept == Faithful /\ [Next]_vars => Faithful'
<1> SUFFICES ASSUME Faithful, [Next]_vars PROVE Faithful'
  OBVIOUS
<1>1. Stage'
  BY StageKept DEF Faithful
<1>2. ASSUME NEW d \in Declarations, Read(d) PROVE Faithful'
  BY <1>1, <1>2, FaithfulRead
<1>3. ASSUME said' = said, phase' # "reading",
             PlainDocument => Grounded(parser.owl.properties)' PROVE Faithful'
  <2>1. said' \in Seq(Declarations)
    BY <1>3 DEF Faithful
  <2>2. ReadAsDeclared' /\ ResolvedGrounded'
    BY <1>3, PlainStays DEF ReadAsDeclared, ResolvedGrounded
  <2>3. QED
    BY <1>1, <2>1, <2>2 DEF Faithful
<1>4. CASE EndDocument
  <2>1. phase = "reading" /\ phase' # "reading" /\ said' = said /\ parser' = parser
    BY <1>4 DEF EndDocument
  <2>2. ASSUME PlainDocument PROVE Grounded(parser.owl.properties)'
    <3>1. AsDeclared(parser, PropertiesSaid) /\ parser \in ParserState
      BY <2>1, <2>2 DEF Faithful, ReadAsDeclared, Stage
    <3>2. PICK m : m = parser.owl.properties
      OBVIOUS
    <3>3. Grounded(m)
      BY <3>1, <3>2, DeclaredGrounded
    <3>4. QED
      BY <2>1, <3>2, <3>3, GroundedAfter
  <2>3. QED
    BY <1>3, <2>1, <2>2
<1>5. CASE Resolve
  <2>1. /\ phase = "resolving" /\ phase' # "reading" /\ said' = said
        /\ parser' = [parser EXCEPT !.owl.properties = TurnedBy(parser.owl.properties)]
    BY <1>5 DEF Resolve, TurnedBy
  <2>2. parser \in ParserState
    BY DEF Faithful, Stage
  <2>3. PICK m : m = parser.owl.properties
    OBVIOUS
  <2>4. m \in Maps(PropertyRecord)
    BY <2>2, <2>3, ParserStateParts DEF PartsTyped
  <2>5. PICK w : w = TurnedBy(m)
    OBVIOUS
  <2>6. w \in Maps(PropertyRecord) /\ DOMAIN parser.owl.properties \subseteq DOMAIN w
    BY <2>3, <2>4, <2>5, TurnType, TurnKeepsNames
  <2>7. parser'.owl.properties = w
    BY <2>1, <2>2, <2>3, <2>5, <2>6, PropertiesReplaced
  <2>8. ASSUME PlainDocument PROVE Grounded(parser.owl.properties)'
    <3>1. Grounded(m)
      BY <2>1, <2>3, <2>8 DEF Faithful, ResolvedGrounded
    <3>2. Grounded(w)
      BY <2>4, <2>5, <3>1, TurnGrounded
    <3>3. QED
      BY <2>1, <2>7, <3>2, GroundedAfter
  <2>9. QED
    BY <1>3, <2>1, <2>8
<1>6. ASSUME said' = said, parser' = parser, phase # "reading", phase' # "reading" PROVE Faithful'
  <2>1. ASSUME PlainDocument PROVE Grounded(parser.owl.properties)'
    <3>1. PICK m : m = parser.owl.properties
      OBVIOUS
    <3>2. Grounded(m)
      BY <1>6, <2>1, <3>1 DEF Faithful, ResolvedGrounded
    <3>3. QED
      BY <1>6, <3>1, <3>2, GroundedAfter
  <2>2. QED
    BY <1>3, <1>6, <2>1
<1>7. CASE WriteManifest
  BY <1>6, <1>7 DEF WriteManifest
<1>8. CASE Load
  BY <1>6, <1>8 DEF Load
<1>9. ASSUME said' = said, parser' = parser, phase' = phase PROVE Faithful'
  <2>1. CASE phase # "reading"
    BY <1>6, <1>9, <2>1
  <2>2. CASE phase = "reading"
    <3>1. PropertiesSaid' = PropertiesSaid
      BY <1>9 DEF PropertiesSaid
    <3>2. AsDeclared(parser, PropertiesSaid)' <=> AsDeclared(parser, PropertiesSaid)
      BY <1>9, <3>1 DEF AsDeclared
    <3>3. ReadAsDeclared' /\ ResolvedGrounded'
      BY <1>9, <2>2, <3>2, PlainStays DEF Faithful, ReadAsDeclared, ResolvedGrounded
    <3>4. QED
      BY <1>1, <1>9, <3>3 DEF Faithful
  <2>3. QED
    BY <2>1, <2>2
<1>10. ASSUME NEW i \in Instances, StartValidation(i) PROVE Faithful'
  BY <1>9, <1>10 DEF StartValidation
<1>11. CASE Climb
  BY <1>9, <1>11 DEF Climb
<1>12. CASE Conclude
  BY <1>9, <1>12 DEF Conclude
<1>13. CASE UNCHANGED vars
  BY <1>9, <1>13 DEF vars
<1>14. QED
  BY <1>2, <1>4, <1>5, <1>7, <1>8, <1>10, <1>11, <1>12, <1>13 DEF Next

LEMMA KeptWhenFaithful == Faithful => OntologyIsKept
<1> SUFFICES ASSUME Faithful PROVE OntologyIsKept
  OBVIOUS
<1>1. ASSUME PlainDocument PROVE Grounded(parser.owl.properties)
  <2>1. CASE phase = "reading"
    BY <1>1, <2>1, DeclaredGrounded DEF Faithful, ReadAsDeclared, Stage
  <2>2. CASE phase # "reading"
    BY <1>1, <2>2 DEF Faithful, ResolvedGrounded
  <2>3. QED
    BY <2>1, <2>2
<1>2. QED
  BY <1>1, KeptWhenGrounded

\* From a plain document a property keeps the domain and range it was declared with,
\* and gets none that was not declared of a property it may take that from, however many
\* turns the resolution takes and in whatever order the names come (owl.rs
\* resolve_property_domains).
THEOREM OntologyKept == Spec => []OntologyIsKept
<1>1. Init => Faithful
  BY FaithfulStarts
<1>2. Faithful /\ [Next]_vars => Faithful'
  BY FaithfulKept
<1>3. Faithful => OntologyIsKept
  BY KeptWhenFaithful
<1>4. QED
  BY <1>1, <1>2, <1>3, PTL DEF Spec

-----------------------------------------------------------------------------
(* The end of the resolution.                                               *)

\* A turn takes no domain away.
LEMMA TurnKeepsDomains ==
    ASSUME NEW m \in Maps(PropertyRecord)
    PROVE  WithDomain(m) \subseteq WithDomain(TurnedBy(m))
<1>1. PICK offers : offers = InverseOffers(m)
  OBVIOUS
<1>2. IsSeq(offers) /\ Range(offers) \subseteq OfferRecord
  BY <1>1, InverseOffersFacts
<1>3. /\ AcceptAll(m, offers) \in Maps(PropertyRecord)
      /\ Accepted(m, offers, AcceptAll(m, offers))
  BY <1>2, AcceptAllFacts
<1>4. PICK turned \in Maps(PropertyRecord) :
         turned = AcceptAll(m, offers) /\ Accepted(m, offers, turned)
  BY <1>3
<1>5. PICK more : more = Inheritances(turned)
  OBVIOUS
<1>6. IsSeq(more) /\ Range(more) \subseteq OfferRecord
  BY <1>5, InheritancesFacts DEF InheritedOffers
<1>7. Accepted(turned, more, AcceptAll(turned, more))
  BY <1>6, AcceptAllFacts
<1>8. PICK after : after = AcceptAll(turned, more)
  OBVIOUS
<1>9. WithDomain(m) \subseteq WithDomain(turned)
  BY <1>4 DEF WithDomain, Accepted
<1>10. WithDomain(turned) \subseteq WithDomain(after)
  BY <1>7, <1>8 DEF WithDomain, Accepted
<1>11. after = TurnedBy(m)
  BY <1>1, <1>4, <1>5, <1>8 DEF TurnedBy
<1>12. QED
  BY <1>9, <1>10, <1>11

\* A step that goes on resolving gives a property a domain that had none.
TurnAdvances ==
    phase = "resolving" /\ phase' = "resolving" =>
        LET before == WithDomain(parser.owl.properties)
            after  == WithDomain(parser'.owl.properties)
        IN  /\ before \subseteq after /\ Cardinality(before) < Cardinality(after)
            /\ Cardinality(after) <= Cardinality(Name)

\* As long as the resolution goes on each turn gives a property a domain that had none,
\* and takes none away, so it ends after one turn more than there are names: the
\* bound on the loop of owl.rs resolve_property_domains, for every ontology.
THEOREM ResolutionAdvances == Spec => [][TurnAdvances]_vars
<1>1. Init => Stage
  BY StageStarts
<1>2. Stage /\ [Next]_vars => Stage'
  BY StageKept
<1>3. Stage /\ [Next]_vars => [TurnAdvances]_vars
  <2>1. SUFFICES ASSUME Stage, Next, phase = "resolving", phase' = "resolving"
                 PROVE  TurnAdvances
    BY DEF TurnAdvances
  <2>2. check.at = "idle"
    BY <2>1 DEF Stage
  <2>3. Resolve
    BY <2>1, <2>2 DEF Next, Read, EndDocument, WriteManifest, Load, StartValidation, Climb, Conclude
  <2>4. PICK m : m = parser.owl.properties
    OBVIOUS
  <2>5. PICK w : w = TurnedBy(m)
    OBVIOUS
  <2>6. /\ parser' = [parser EXCEPT !.owl.properties = w]
        /\ Cardinality(WithDomain(w)) # Cardinality(WithDomain(m))
    BY <2>1, <2>3, <2>4, <2>5 DEF Resolve, TurnedBy
  <2>7. parser \in ParserState /\ m \in Maps(PropertyRecord)
    BY <2>1, <2>4, ParserStateParts DEF Stage, PartsTyped
  <2>8. /\ w \in Maps(PropertyRecord) /\ DOMAIN m \subseteq DOMAIN w
        /\ WithDomain(m) \subseteq WithDomain(w)
    BY <2>5, <2>7, TurnType, TurnKeepsNames, TurnKeepsDomains
  <2>9. parser'.owl.properties = w
    BY <2>4, <2>6, <2>7, <2>8, PropertiesReplaced
  <2>10. PICK S, T : S = WithDomain(w) /\ T = WithDomain(m)
    OBVIOUS
  <2>11. S \in SUBSET Name /\ T \in SUBSET S
    BY <2>8, <2>10, MapFacts DEF WithDomain
  <2>12. IsFiniteSet(Name)
    BY SortedFacts
  <2>13. IsFiniteSet(S) /\ Cardinality(S) <= Cardinality(Name) /\ Cardinality(S) \in Nat
    BY <2>11, <2>12, FS_Subset, FS_CardinalityType
  <2>14. IsFiniteSet(T) /\ Cardinality(T) <= Cardinality(S) /\ Cardinality(T) \in Nat
    BY <2>11, <2>13, FS_Subset, FS_CardinalityType
  <2>15. Cardinality(T) < Cardinality(S)
    BY <2>6, <2>10, <2>13, <2>14
  <2>16. QED
    BY <2>4, <2>9, <2>10, <2>11, <2>13, <2>15 DEF TurnAdvances
<1>4. QED
  BY <1>1, <1>2, <1>3, PTL DEF Spec

-----------------------------------------------------------------------------
(* The end of a climb.                                                      *)

KnownClasses == DOMAIN registry.taxonomy \cup DOMAIN registry.elements

\* What the climb has found, and where it is, are classes of the registry.
AmongKnown ==
    check.at = "climb" =>
        /\ check.classes \subseteq KnownClasses \ {NoParent}
        /\ check.current \in KnownClasses \cup {NoParent}

\* A class of a registry that was loaded has a parent that it knows.
LEMMA ParentKnown ==
    ASSUME IsIntegral(registry), NEW n
    PROVE  ParentOf(registry, n) \in KnownClasses \cup {NoParent}
  BY DEF ParentOf, IsIntegral, KnownClasses

LEMMA AmongKnownStarts == Init => AmongKnown
  BY DEF Init, NoCheck, AmongKnown

LEMMA AmongKnownKept == Validating /\ AmongKnown /\ [Next]_vars => AmongKnown'
<1> SUFFICES ASSUME Validating, AmongKnown, [Next]_vars PROVE AmongKnown'
  OBVIOUS
<1>1. DOMAIN check = {"at", "instance", "current", "classes", "valid"}
  BY DEF Validating, CheckHasParts
<1>2. ASSUME registry' = registry, check' = check PROVE AmongKnown'
  BY <1>2 DEF AmongKnown, KnownClasses
<1>3. CASE Load
  BY <1>3 DEF Load, Validating, Stage, CheckHasParts, AmongKnown
<1>4. ASSUME NEW i \in Instances, StartValidation(i) PROVE AmongKnown'
  <2>1. CASE Knows(registry, i.class)
    <3>1. /\ check' = [at |-> "climb", instance |-> i, current |-> i.class,
                       classes |-> {}, valid |-> FALSE]
          /\ registry' = registry
      BY <1>4, <2>1 DEF StartValidation
    <3>2. check'.current = i.class /\ check'.classes = {}
      BY <3>1
    <3>3. i.class \in KnownClasses'
      BY <2>1, <3>1 DEF Knows, KnownClasses
    <3>4. QED
      BY <3>2, <3>3 DEF AmongKnown
  <2>2. CASE ~Knows(registry, i.class)
    <3>1. check' = [NoCheck EXCEPT !.at = "done", !.instance = i]
      BY <1>4, <2>2 DEF StartValidation
    <3>2. check'.at = "done"
      BY <3>1 DEF NoCheck
    <3>3. QED
      BY <3>2 DEF AmongKnown
  <2>3. QED
    BY <2>1, <2>2
<1>5. CASE Climb
  <2>1. /\ check.at = "climb" /\ check.current # NoParent /\ registry' = registry
        /\ check'.classes = check.classes \cup {check.current}
        /\ check'.current = ParentOf(registry, check.current)
    BY <1>1, <1>5 DEF Climb
  <2>2. IsIntegral(registry)
    BY <2>1 DEF Validating, Stage, CanLoad
  <2>3. check'.current \in KnownClasses \cup {NoParent}
    BY <2>1, <2>2, ParentKnown
  <2>4. KnownClasses' = KnownClasses
    BY <2>1 DEF KnownClasses
  <2>5. QED
    BY <2>1, <2>3, <2>4 DEF AmongKnown
<1>6. CASE Conclude
  <2>1. check'.at = "done"
    BY <1>1, <1>6 DEF Conclude
  <2>2. QED
    BY <2>1 DEF AmongKnown
<1>7. QED
  BY <1>2, <1>3, <1>4, <1>5, <1>6
     DEF Next, vars, Read, EndDocument, Resolve, WriteManifest

\* A climb that comes to a class again has found all there is above, and no root in it.
LEMMA NeverTwice ==
    ASSUME Validating, AmongKnown, check.at = "climb", HasRoot(check.instance.class)
    PROVE  check.current \notin check.classes
<1>1. SUFFICES ASSUME check.current \in check.classes PROVE FALSE
  OBVIOUS
<1>2. PICK C, class : C = check.classes /\ class = check.instance.class
  OBVIOUS
<1>3. class \in C /\ UpIsIn(C) /\ NoParent \notin C
  BY <1>1, <1>2 DEF Validating, Climbed, UpIsIn, AmongKnown
<1>4. MostClasses \in Nat
  BY MostClassesFacts DEF Validating, Stage
<1>5. MostClasses \in 0..MostClasses
  BY <1>4
<1>6. Above(class)[MostClasses] \in SUBSET C
  BY <1>3, <1>4, <1>5, AboveTurns
<1>7. NoParent \in Above(class)[MostClasses]
  BY <1>2 DEF HasRoot, ClassesAbove
<1>8. QED
  BY <1>3, <1>6, <1>7

\* A step that goes on climbing finds a class that was not found.
StepAdvances ==
    check.at = "climb" /\ check'.at = "climb" /\ HasRoot(check.instance.class) =>
        /\ check.classes \subseteq check'.classes
        /\ Cardinality(check.classes) < Cardinality(check'.classes)
        /\ Cardinality(check'.classes) <= Cardinality(KnownClasses)

\* As long as a validation climbs from a class with a root above it each step finds one
\* class more, so the climb ends after as many steps as the registry has classes: the
\* bound on the loop of registry.rs ancestors_of, for every registry a stack may have.
THEOREM ClimbAdvances == Spec => [][StepAdvances]_vars
<1>1. Init => Validating /\ AmongKnown
  BY ValidatingStarts, AmongKnownStarts
<1>2. Validating /\ AmongKnown /\ [Next]_vars => (Validating /\ AmongKnown)'
  BY ValidatingKept, AmongKnownKept
<1>3. Validating /\ AmongKnown /\ [Next]_vars => [StepAdvances]_vars
  <2>1. SUFFICES ASSUME Validating, AmongKnown, Next, check.at = "climb", check'.at = "climb",
                        HasRoot(check.instance.class)
                 PROVE  /\ check.classes \subseteq check'.classes
                        /\ Cardinality(check.classes) < Cardinality(check'.classes)
                        /\ Cardinality(check'.classes) <= Cardinality(KnownClasses)
    BY DEF StepAdvances
  <2>2. phase = "loaded" /\ DOMAIN check = {"at", "instance", "current", "classes", "valid"}
    BY <2>1 DEF Validating, Stage, CheckHasParts
  <2>3. ~Conclude
    BY <2>1, <2>2 DEF Conclude
  <2>4. Climb
    BY <2>1, <2>2, <2>3
       DEF Next, Read, EndDocument, Resolve, WriteManifest, Load, StartValidation
  <2>5. PICK S, x : S = check.classes /\ x = check.current
    OBVIOUS
  <2>6. check'.classes = S \cup {x} /\ x # NoParent
    BY <2>2, <2>4, <2>5 DEF Climb
  <2>7. x \notin S
    BY <2>1, <2>5, NeverTwice
  <2>8. PICK K : K = KnownClasses /\ IsFiniteSet(K)
    BY <2>1, <2>2, MostClassesFacts DEF Validating, KnownClasses
  <2>9. S \in SUBSET K /\ (S \cup {x}) \in SUBSET K
    BY <2>1, <2>5, <2>6, <2>8 DEF AmongKnown
  <2>10. IsFiniteSet(S) /\ Cardinality(S) \in Nat /\ Cardinality(S \cup {x}) <= Cardinality(K)
    BY <2>8, <2>9, FS_Subset, FS_CardinalityType
  <2>11. Cardinality(S \cup {x}) = Cardinality(S) + 1
    BY <2>7, <2>10, FS_AddElement
  <2>12. QED
    BY <2>5, <2>6, <2>8, <2>10, <2>11
<1>4. QED
  BY <1>1, <1>2, <1>3, PTL DEF Spec
=============================================================================

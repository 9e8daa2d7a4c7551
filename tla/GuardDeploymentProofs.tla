------------------------ MODULE GuardDeploymentProofs -------------------------
(***************************************************************************)
(* A deployed guard, for every configuration, registry and document, every *)
(* fault and any number of changes, transfers and forwards: what leaves an *)
(* accredited deployment is on durable record, what a forward reports as   *)
(* delivered was delivered, and the NATO policy of the store governs the   *)
(* domains it was loaded over.  Reading a document, loading a registry and *)
(* building a store are loops; what they make is proved turn by turn.      *)
(***************************************************************************)
EXTENDS GuardDeployment, AuditLog, SequenceTheorems, WellFoundedInduction, TLAPS

-----------------------------------------------------------------------------
(* Induction and recursion up to a bound.                                   *)

\* A set of numbers that has 0 and, with a number, the next up to N, has all of
\* them up to N.
LEMMA UpTo ==
    ASSUME NEW N \in Nat, NEW S, 0 \in S,
           \A k \in 1..N : k - 1 \in S => k \in S
    PROVE  0..N \subseteq S
<1> DEFINE T == (0..N) \ S
<1>1. SUFFICES ASSUME T # {} PROVE FALSE
  OBVIOUS
<1>2. T \subseteq Nat
  OBVIOUS
<1>3. PICK x \in T : \A y \in T : ~(<<y, x>> \in OpToRel(<, Nat))
  BY <1>1, <1>2, NatLessThanWellFounded, WFMin
<1>4. x \in T /\ \A y \in T : ~(y < x)
  BY <1>2, <1>3 DEF OpToRel
<1>5. x \in 1..N /\ x \notin S
  BY <1>4
<1>6. x - 1 \in 0..N /\ x - 1 < x /\ x - 1 \notin T
  BY <1>4, <1>5
<1>7. QED
  BY <1>5, <1>6

\* A loop of N turns, each of which maps states to states, has a state after every
\* turn.
LEMMA LoopExists ==
    ASSUME NEW S, NEW a \in S, NEW N \in Nat, NEW F \in [1..N -> [S -> S]]
    PROVE  \E r \in [0..N -> S] : r[0] = a /\ \A k \in 1..N : r[k] = F[k][r[k - 1]]
<1> DEFINE Loop(n, r) == r[0] = a /\ \A k \in 1..n : r[k] = F[k][r[k - 1]]
           G == {n \in 0..N : \E r \in [0..n -> S] : Loop(n, r)}
<1>1. 0 \in G
  <2>1. [k \in 0..0 |-> a] \in [0..0 -> S] /\ Loop(0, [k \in 0..0 |-> a])
    OBVIOUS
  <2>2. \E r \in [0..0 -> S] : Loop(0, r)
    BY <2>1
  <2>3. 0 \in 0..N
    OBVIOUS
  <2> HIDE DEF Loop
  <2>4. QED
    BY <2>2, <2>3
<1>2. ASSUME NEW n \in 1..N, n - 1 \in G PROVE n \in G
  <2>1. PICK r \in [0..(n - 1) -> S] : Loop(n - 1, r)
    BY <1>2
  <2> DEFINE s == [k \in 0..n |-> IF k = n THEN F[n][r[n - 1]] ELSE r[k]]
  <2>2. /\ r \in [0..(n - 1) -> S] /\ r[0] = a
        /\ \A k \in 1..(n - 1) : r[k] = F[k][r[k - 1]]
    BY <2>1
  <2>3. F[n] \in [S -> S] /\ r[n - 1] \in S
    BY <2>2
  <2>4. s \in [0..n -> S] /\ s[0] = a
    BY <2>2, <2>3
  <2>5. ASSUME NEW k \in 1..n PROVE s[k] = F[k][s[k - 1]]
    <3>1. k \in 0..n /\ k - 1 \in 0..n /\ k - 1 # n
      OBVIOUS
    <3>2. s[k - 1] = r[k - 1]
      BY <3>1
    <3>3. CASE k = n
      BY <3>1, <3>2, <3>3
    <3>4. CASE k # n
      <4>1. k \in 1..(n - 1)
        BY <3>4
      <4>2. s[k] = r[k] /\ r[k] = F[k][r[k - 1]]
        BY <2>2, <3>1, <3>4, <4>1
      <4>3. QED
        BY <3>2, <4>2
    <3>5. QED
      BY <3>3, <3>4
  <2> HIDE DEF s
  <2>6. Loop(n, s)
    BY <2>4, <2>5
  <2>7. \E q \in [0..n -> S] : Loop(n, q)
    BY <2>4, <2>6
  <2>8. n \in 0..N
    OBVIOUS
  <2> HIDE DEF Loop
  <2>9. QED
    BY <2>7, <2>8
<1> HIDE DEF G
<1>3. 0..N \subseteq G
  BY <1>1, <1>2, UpTo
<1>4. N \in G
  BY <1>3
<1>5. QED
  BY <1>4 DEF G

\* What holds at the start of a loop and is kept by its turns holds throughout.
LEMMA Throughout ==
    ASSUME NEW N \in Nat, NEW t, NEW S, t[0] \in S,
           \A k \in 1..N : t[k - 1] \in S => t[k] \in S
    PROVE  \A k \in 0..N : t[k] \in S
<1> DEFINE G == {k \in 0..N : t[k] \in S}
<1>1. 0 \in G /\ \A k \in 1..N : k - 1 \in G => k \in G
  OBVIOUS
<1> HIDE DEF G
<1>2. 0..N \subseteq G
  BY <1>1, UpTo
<1> QED
  BY <1>2 DEF G

-----------------------------------------------------------------------------
(* Reading a document.                                                      *)

\* What a document may release to are countries.
Categories ==
    {c \in UNION {[names -> SpifCategory] : names \in SUBSET CategoryName} :
        RELEASABLE \in DOMAIN c => c[RELEASABLE].allowed_values \subseteq Country}

ReadPolicy(id) == [policy_id: {id}, allowed_classifications: SUBSET Level,
                   categories: Categories, validations: SUBSET SpifValidation]

Read(id) == [policy: ReadPolicy(id), in_classification: BOOLEAN]

\* What each kind of element makes of what has been read (parser.rs:52-134).
LEMMA ElementRead ==
    ASSUME NEW id, NEW r \in Read(id), NEW e \in SpifElement
    PROVE  LET s == ReadElement(r, e)
               names == DOMAIN r.policy.categories
           IN  /\ s \in Read(id)
               /\ e.tag \in {"class", "category", "validation"}
               /\ e.tag = "class" => ~s.in_classification
               /\ e.tag = "validation" => s.in_classification
               /\ e.tag = "category" => s.in_classification = r.in_classification
               /\ DOMAIN s.policy.categories =
                     IF e.tag = "category" /\ ~r.in_classification THEN names \cup {e.name}
                                                                   ELSE names
<1> DEFINE s == ReadElement(r, e)
<1>1. /\ r.policy \in ReadPolicy(id) /\ r.in_classification \in BOOLEAN
      /\ r.policy.categories \in Categories
      /\ r = [policy |-> r.policy, in_classification |-> r.in_classification]
  BY DEF Read, ReadPolicy
<1>2. CASE e \in [tag: {"class"}, level: Level]
  <2>1. s = [policy |-> [r.policy EXCEPT !.allowed_classifications = @ \cup {e.level}],
             in_classification |-> FALSE] /\ e.tag = "class"
    BY <1>2 DEF ReadElement
  <2>2. QED
    BY <1>1, <1>2, <2>1 DEF Read, ReadPolicy
<1>3. CASE e \in [tag: {"validation"}, rule: SpifValidation]
  <2>1. s = [policy |-> [r.policy EXCEPT !.validations = @ \cup {e.rule}],
             in_classification |-> TRUE] /\ e.tag = "validation"
    BY <1>3 DEF ReadElement
  <2>2. QED
    BY <1>1, <1>3, <2>1 DEF Read, ReadPolicy
<1>4. CASE e \in [tag: {"category"}, name: CategoryName, body: SpifCategory]
  <2>1. e.tag = "category" /\ e.name \in CategoryName /\ e.body \in SpifCategory
        /\ (e.name = RELEASABLE => e.body.allowed_values \subseteq Country)
    BY <1>4 DEF SpifElement
  <2>2. CASE r.in_classification
    BY <1>1, <2>1, <2>2 DEF ReadElement
  <2>3. CASE ~r.in_classification
    <3> DEFINE c == r.policy.categories
               d == PutFirst(c, e.name, e.body)
    <3>1. s = [r EXCEPT !.policy.categories = d]
      BY <2>1, <2>3 DEF ReadElement
    <3>2. PICK names \in SUBSET CategoryName : c \in [names -> SpifCategory]
      BY <1>1 DEF Categories
    <3>3. DOMAIN d = names \cup {e.name}
          /\ \A n \in DOMAIN d : d[n] = IF n \in names THEN c[n] ELSE e.body
      BY <3>2 DEF PutFirst, PutOver
    <3>4. d \in [names \cup {e.name} -> SpifCategory]
      BY <2>1, <3>2, <3>3 DEF PutFirst, PutOver
    <3>5. d \in Categories
      <4>1. names \cup {e.name} \in SUBSET CategoryName
        BY <2>1, <3>2
      <4>2. RELEASABLE \in DOMAIN d => d[RELEASABLE].allowed_values \subseteq Country
        BY <1>1, <2>1, <3>2, <3>3 DEF Categories
      <4> HIDE DEF d
      <4>3. QED
        BY <3>4, <4>1, <4>2 DEF Categories
    <3> HIDE DEF d
    <3>6. s.policy \in ReadPolicy(id) /\ s.policy.categories = d
          /\ s = [policy |-> s.policy, in_classification |-> r.in_classification]
      BY <1>1, <3>1, <3>5 DEF Read, ReadPolicy
    <3>7. QED
      BY <1>1, <2>1, <2>3, <3>2, <3>3, <3>6 DEF Read
  <2>4. QED
    BY <1>1, <2>2, <2>3
<1>5. QED
  BY <1>2, <1>3, <1>4 DEF SpifElement

\* The loop over a document's elements is what its turns make it.
LEMMA ReadingTurns ==
    ASSUME NEW doc \in SpifDocument
    PROVE  LET N == Len(doc.elements)
           IN  /\ N \in Nat /\ DOMAIN doc.elements = 1..N
               /\ Reading(doc)[0] = [policy |-> Blank(doc.policy_id), in_classification |-> FALSE]
               /\ \A k \in 1..N : Reading(doc)[k]
                                     = ReadElement(Reading(doc)[k - 1], doc.elements[k])
               /\ \A k \in 0..N : Reading(doc)[k] \in Read(doc.policy_id)
<1> DEFINE N == Len(doc.elements)
           S == Read(doc.policy_id)
           a == [policy |-> Blank(doc.policy_id), in_classification |-> FALSE]
           F == [k \in 1..N |-> [r \in S |-> ReadElement(r, doc.elements[k])]]
           Loop(t) == t = [k \in 0..N |-> IF k = 0 THEN a
                                          ELSE ReadElement(t[k - 1], doc.elements[k])]
<1>1. N \in Nat /\ DOMAIN doc.elements = 1..N /\ \A k \in 1..N : doc.elements[k] \in SpifElement
  BY DEF SpifDocument
<1>2. a \in S
  <2>1. NoCategories \in Categories
    BY DEF NoCategories, Categories
  <2>2. QED
    BY <2>1 DEF Blank, Read, ReadPolicy
<1>3. \A k \in 1..N : \A r \in S : ReadElement(r, doc.elements[k]) \in S
  BY <1>1, ElementRead
<1>4. PICK r \in [0..N -> S] : r[0] = a /\ \A k \in 1..N : r[k] = F[k][r[k - 1]]
  <2>1. F \in [1..N -> [S -> S]]
    BY <1>3
  <2> HIDE DEF N, S, a, F
  <2>2. QED
    BY <1>1, <1>2, <2>1, LoopExists
<1>5. \A k \in 1..N : r[k] = ReadElement(r[k - 1], doc.elements[k])
  <2>1. \A k \in 1..N : r[k - 1] \in S
    BY <1>1, <1>4
  <2>2. QED
    BY <1>4, <2>1
<1>6. Loop(r)
  <2> HIDE DEF a
  <2>1. QED
    BY <1>1, <1>4, <1>5
<1>7. Loop(Reading(doc))
  BY <1>6 DEF Reading
<1> HIDE DEF S, F
<1>8. ASSUME NEW t, Loop(t)
      PROVE  t[0] = a /\ \A k \in 1..N : t[k] = ReadElement(t[k - 1], doc.elements[k])
  <2> HIDE DEF a
  <2>1. QED
    BY <1>1, <1>8
<1>9. /\ Reading(doc)[0] = a
      /\ \A k \in 1..N : Reading(doc)[k] = ReadElement(Reading(doc)[k - 1], doc.elements[k])
  <2> HIDE DEF a, Loop
  <2>1. QED
    BY <1>7, <1>8
<1>10. \A k \in 0..N : Reading(doc)[k] \in S
  <2> HIDE DEF a, N
  <2>1. Reading(doc)[0] \in S
    BY <1>2, <1>9
  <2>2. \A k \in 1..N : Reading(doc)[k - 1] \in S => Reading(doc)[k] \in S
    BY <1>3, <1>9
  <2>3. QED
    BY <1>1, <2>1, <2>2, Throughout
<1> QED
  BY <1>1, <1>9, <1>10 DEF S

\* A category is dropped when a validation came before it and no classification of
\* the policy since.
Dropped(doc, k) ==
    \E j \in 1..k : /\ doc.elements[j].tag = "validation"
                    /\ \A i \in j..k : doc.elements[i].tag # "class"

Kept(doc, n) ==
    {doc.elements[k].name : k \in {k \in 1..n :
        doc.elements[k].tag = "category" /\ ~Dropped(doc, k)}}

\* What a document is read to: its identifier, the categories that are not dropped,
\* and countries to release to (parser.rs:52-134).
LEMMA ParsedPolicy ==
    ASSUME NEW doc \in SpifDocument
    PROVE  /\ Parsed(doc) \in ReadPolicy(doc.policy_id)
           /\ DOMAIN Parsed(doc).categories = Kept(doc, Len(doc.elements))
<1> DEFINE N == Len(doc.elements)
           R == Reading(doc)
           S == {k \in 0..N : /\ R[k].in_classification <=> Dropped(doc, k)
                              /\ DOMAIN R[k].policy.categories = Kept(doc, k)}
<1>1. /\ N \in Nat /\ DOMAIN doc.elements = 1..N
      /\ R[0] = [policy |-> Blank(doc.policy_id), in_classification |-> FALSE]
      /\ \A k \in 1..N : R[k] = ReadElement(R[k - 1], doc.elements[k])
      /\ \A k \in 0..N : R[k] \in Read(doc.policy_id)
      /\ \A k \in 1..N : doc.elements[k] \in SpifElement
  BY ReadingTurns DEF SpifDocument
<1> HIDE DEF R
<1>2. 0 \in S
  <2>1. ~Dropped(doc, 0) /\ Kept(doc, 0) = {} /\ 0 \in 0..N
    BY <1>1 DEF Dropped, Kept
  <2>2. ~R[0].in_classification /\ DOMAIN R[0].policy.categories = {}
    BY <1>1 DEF Blank, NoCategories
  <2> QED
    BY <2>1, <2>2
<1>3. ASSUME NEW k \in 1..N, k - 1 \in S PROVE k \in S
  <2> DEFINE e == doc.elements[k]
             names == DOMAIN R[k - 1].policy.categories
  <2>1. e \in SpifElement /\ R[k - 1] \in Read(doc.policy_id) /\ R[k] = ReadElement(R[k - 1], e)
        /\ k \in 0..N /\ R[k - 1].in_classification \in BOOLEAN
        /\ R[k].in_classification \in BOOLEAN
    BY <1>1 DEF Read
  <2>2. (R[k - 1].in_classification <=> Dropped(doc, k - 1)) /\ names = Kept(doc, k - 1)
    BY <1>3
  <2>3. Kept(doc, k) = IF e.tag = "category" /\ ~Dropped(doc, k)
                       THEN Kept(doc, k - 1) \cup {e.name} ELSE Kept(doc, k - 1)
    <3>1. 1..k = 1..(k - 1) \cup {k}
      BY <1>1
    <3>2. QED
      BY <3>1 DEF Kept
  <2>4. /\ e.tag = "class" => ~Dropped(doc, k)
        /\ e.tag = "validation" => Dropped(doc, k)
        /\ e.tag = "category" => (Dropped(doc, k) <=> Dropped(doc, k - 1))
    BY <1>1 DEF Dropped
  <2>5. /\ e.tag \in {"class", "category", "validation"}
        /\ e.tag = "class" => ~R[k].in_classification
        /\ e.tag = "validation" => R[k].in_classification
        /\ e.tag = "category" => R[k].in_classification = R[k - 1].in_classification
        /\ DOMAIN R[k].policy.categories =
              IF e.tag = "category" /\ ~R[k - 1].in_classification THEN names \cup {e.name}
                                                                   ELSE names
    <3> HIDE DEF e
    <3>1. PICK r \in Read(doc.policy_id) : r = R[k - 1]
      BY <2>1
    <3>2. PICK x \in SpifElement : x = e
      BY <2>1
    <3>3. PICK s : s = ReadElement(r, x)
      OBVIOUS
    <3>4. /\ x.tag \in {"class", "category", "validation"}
          /\ x.tag = "class" => ~s.in_classification
          /\ x.tag = "validation" => s.in_classification
          /\ x.tag = "category" => s.in_classification = r.in_classification
          /\ DOMAIN s.policy.categories =
                IF x.tag = "category" /\ ~r.in_classification
                THEN DOMAIN r.policy.categories \cup {x.name} ELSE DOMAIN r.policy.categories
      BY <3>3, ElementRead, ZenonT(30)
    <3>5. R[k] = s
      BY <2>1, <3>1, <3>2, <3>3
    <3>6. QED
      BY <3>1, <3>2, <3>4, <3>5
  <2> HIDE DEF e, names
  <2>6. R[k].in_classification <=> Dropped(doc, k)
    BY <2>1, <2>2, <2>4, <2>5
  <2>7. DOMAIN R[k].policy.categories = Kept(doc, k)
    BY <2>1, <2>2, <2>3, <2>4, <2>5
  <2>8. QED
    BY <2>1, <2>6, <2>7
<1> HIDE DEF S
<1>4. N \in S
  <2>1. 0..N \subseteq S
    BY <1>1, <1>2, <1>3, UpTo
  <2>2. QED
    BY <1>1, <2>1
<1>5. Parsed(doc) = R[N].policy
  BY DEF Parsed, R
<1> QED
  BY <1>1, <1>4, <1>5 DEF S, Read

-----------------------------------------------------------------------------
(* Loading a registry.                                                      *)

LoadedPolicies ==
    {r \in UNION {[ids -> UNION {ReadPolicy(id) : id \in PolicyId}] : ids \in SUBSET PolicyId} :
        \A id \in DOMAIN r : r[id] \in ReadPolicy(id)}

\* One more document loaded: its policy is found under its own identifier
\* (registry.rs:29-40).
LEMMA RegisteredLoads ==
    ASSUME NEW r \in LoadedPolicies, NEW doc \in SpifDocument, Parses(doc)
    PROVE  /\ Registered(r, Parsed(doc)) \in LoadedPolicies
           /\ DOMAIN Registered(r, Parsed(doc)) = DOMAIN r \cup {doc.policy_id}
           /\ Registered(r, Parsed(doc))[doc.policy_id] = Parsed(doc)
<1> DEFINE P == UNION {ReadPolicy(id) : id \in PolicyId}
<1>1. PICK p : p = Parsed(doc)
  OBVIOUS
<1>2. p \in ReadPolicy(doc.policy_id) /\ doc.policy_id \in PolicyId /\ p.policy_id = doc.policy_id
  BY <1>1, ParsedPolicy DEF Parses, SpifDocument, ReadPolicy
<1>3. p \in P
  BY <1>2
<1>4. PICK ids \in SUBSET PolicyId : r \in [ids -> P]
  BY DEF LoadedPolicies
<1> HIDE DEF P
<1> DEFINE n == PutOver(r, doc.policy_id, p)
<1>5. /\ n \in [ids \cup {doc.policy_id} -> P] /\ DOMAIN n = ids \cup {doc.policy_id}
      /\ n[doc.policy_id] = p /\ \A id \in ids \ {doc.policy_id} : n[id] = r[id]
  BY <1>3, <1>4 DEF PutOver
<1>6. ids \cup {doc.policy_id} \in SUBSET PolicyId
  BY <1>2
<1>7. \A id \in ids : r[id] \in ReadPolicy(id)
  BY <1>4 DEF LoadedPolicies
<1> HIDE DEF n
<1>8. n \in LoadedPolicies
  BY <1>2, <1>5, <1>6, <1>7 DEF LoadedPolicies, P
<1>9. n = Registered(r, Parsed(doc))
  BY <1>1, <1>2 DEF Registered, n
<1> QED
  BY <1>1, <1>4, <1>5, <1>8, <1>9

\* The loop over the documents of a registry is what its turns make it.
LEMMA LoadingTurns ==
    ASSUME NEW docs \in Seq(SpifDocument), Loads(docs)
    PROVE  LET N == Len(docs)
           IN  /\ N \in Nat /\ Loading(docs)[0] = EmptyRegistry
               /\ \A k \in 1..N : Loading(docs)[k]
                                     = Registered(Loading(docs)[k - 1], Parsed(docs[k]))
               /\ \A k \in 0..N : Loading(docs)[k] \in LoadedPolicies
<1> DEFINE N == Len(docs)
           S == LoadedPolicies
           F == [k \in 1..N |-> [r \in S |-> Registered(r, Parsed(docs[k]))]]
           Loop(t) == t = [k \in 0..N |-> IF k = 0 THEN EmptyRegistry
                                          ELSE Registered(t[k - 1], Parsed(docs[k]))]
<1>1. N \in Nat /\ \A k \in 1..N : docs[k] \in SpifDocument /\ Parses(docs[k])
  BY DEF Loads
<1>2. EmptyRegistry \in S
  <2> DEFINE P == UNION {ReadPolicy(id) : id \in PolicyId}
  <2> HIDE DEF P
  <2>1. EmptyRegistry \in [{} -> P] /\ DOMAIN EmptyRegistry = {} /\ {} \in SUBSET PolicyId
    BY DEF EmptyRegistry
  <2>2. QED
    BY <2>1 DEF LoadedPolicies, P
<1>3. \A k \in 1..N : \A r \in S : Registered(r, Parsed(docs[k])) \in S
  BY <1>1, RegisteredLoads
<1>4. PICK r \in [0..N -> S] : r[0] = EmptyRegistry /\ \A k \in 1..N : r[k] = F[k][r[k - 1]]
  <2>1. F \in [1..N -> [S -> S]]
    BY <1>3
  <2>2. PICK a : a = EmptyRegistry
    OBVIOUS
  <2> HIDE DEF N, S, F
  <2>3. N \in Nat /\ a \in S
    BY <1>1, <1>2, <2>2
  <2>4. \E r \in [0..N -> S] : r[0] = a /\ \A k \in 1..N : r[k] = F[k][r[k - 1]]
    BY <2>1, <2>3, LoopExists
  <2>5. QED
    BY <2>2, <2>4
<1>5. \A k \in 1..N : r[k] = Registered(r[k - 1], Parsed(docs[k]))
  <2>1. \A k \in 1..N : r[k - 1] \in S
    BY <1>1, <1>4
  <2>2. QED
    BY <1>4, <2>1
<1>6. Loop(r)
  BY <1>1, <1>4, <1>5
<1>7. Loop(Loading(docs))
  BY <1>6 DEF Loading
<1> HIDE DEF S, F
<1>8. ASSUME NEW t, Loop(t)
      PROVE  t[0] = EmptyRegistry /\ \A k \in 1..N : t[k] = Registered(t[k - 1], Parsed(docs[k]))
  BY <1>1, <1>8
<1>9. /\ Loading(docs)[0] = EmptyRegistry
      /\ \A k \in 1..N : Loading(docs)[k] = Registered(Loading(docs)[k - 1], Parsed(docs[k]))
  <2> HIDE DEF Loop
  <2>1. QED
    BY <1>7, <1>8
<1>10. \A k \in 0..N : Loading(docs)[k] \in S
  <2> HIDE DEF N
  <2>1. Loading(docs)[0] \in S
    BY <1>2, <1>9
  <2>2. \A k \in 1..N : Loading(docs)[k - 1] \in S => Loading(docs)[k] \in S
    BY <1>3, <1>9
  <2>3. QED
    BY <1>1, <2>1, <2>2, Throughout
<1> QED
  BY <1>1, <1>9, <1>10 DEF S

\* What load_spif_registry hands on is a registry (config.rs:304-319).
LEMMA LoadedIsRegistry ==
    ASSUME NEW docs \in Seq(SpifDocument), Loads(docs)
    PROVE  IsRegistry(LoadedRegistry(docs))
<1>1. PICK r : r = LoadedRegistry(docs)
  OBVIOUS
<1>2. r \in LoadedPolicies
  BY <1>1, LoadingTurns DEF LoadedRegistry
<1>3. DOMAIN r \subseteq PolicyId /\ \A id \in DOMAIN r : r[id] \in ReadPolicy(id)
  BY <1>2 DEF LoadedPolicies
<1>4. ASSUME NEW id \in DOMAIN r
      PROVE  r[id].policy_id = id /\ ReleasableValues(r[id]) \subseteq Country
  BY <1>3 DEF ReadPolicy, Categories, ReleasableValues
<1> QED
  BY <1>1, <1>3, <1>4 DEF IsRegistry

\* load_spif_xml's registry holds the one policy.
LEMMA OneDocument ==
    ASSUME NEW doc \in SpifDocument, Parses(doc)
    PROVE  LET r == LoadedRegistry(<<doc>>)
           IN  /\ IsRegistry(r) /\ DOMAIN r = {doc.policy_id}
               /\ r[doc.policy_id] = Parsed(doc)
<1>1. PICK docs : docs = <<doc>>
  OBVIOUS
<1>2. docs \in Seq(SpifDocument) /\ Len(docs) = 1 /\ docs[1] = doc /\ Loads(docs)
  BY <1>1 DEF Loads
<1>3. /\ Loading(docs)[0] = EmptyRegistry
      /\ Loading(docs)[1] = Registered(Loading(docs)[1 - 1], Parsed(docs[1]))
      /\ Loading(docs)[0] \in LoadedPolicies
  BY <1>2, LoadingTurns
<1>4. LoadedRegistry(docs) = Registered(EmptyRegistry, Parsed(doc))
  BY <1>2, <1>3 DEF LoadedRegistry
<1>5. PICK r : r = LoadedRegistry(docs)
  OBVIOUS
<1>6. IsRegistry(r)
  BY <1>2, <1>5, LoadedIsRegistry
<1>7. EmptyRegistry \in LoadedPolicies
  BY <1>3
<1>8. /\ DOMAIN r = DOMAIN EmptyRegistry \cup {doc.policy_id}
      /\ r[doc.policy_id] = Parsed(doc)
  BY <1>4, <1>5, <1>7, RegisteredLoads
<1>9. DOMAIN EmptyRegistry = {}
  BY DEF EmptyRegistry
<1> QED
  BY <1>1, <1>5, <1>6, <1>8, <1>9

-----------------------------------------------------------------------------
(* The operations of the store.                                             *)

Domains == UNION {[ids -> Domain] : ids \in SUBSET DomainId}

Rules                 == Seq(StoredRule)
Store(rules, spifs)   == [domains: Domains, rules: rules, spifs: {spifs}]
Outcome(rules, spifs) == [ok: BOOLEAN, store: Store(rules, spifs)]

SoundStore(s) == s \in Store({s.rules}, s.spifs) /\ IsRegistry(s.spifs)

\* The same store under other rules.
SameButRules(s, t) == t \in Store({t.rules}, s.spifs) /\ t.domains = s.domains

\* The store's NATO policy governs the domains outside `but'.
Governed(s, but) ==
    Nato \in DOMAIN s.spifs /\ ReleasableValues(s.spifs[Nato]) # {} =>
        \A d \in DOMAIN s.domains \ but :
            s.domains[d].releasable_to = ReleasableValues(s.spifs[Nato])

\* A store without policies is governed by none.
LEMMA BuiltIsSound ==
    ASSUME NEW s \in Store(Rules, EmptyRegistry)
    PROVE  SoundStore(s) /\ Governed(s, {})
<1>1. s \in Store({s.rules}, s.spifs) /\ s.spifs = EmptyRegistry
  BY DEF Store
<1>2. IsRegistry(EmptyRegistry) /\ Nato \notin DOMAIN EmptyRegistry
  BY DEF IsRegistry, EmptyRegistry
<1> QED
  BY <1>1, <1>2 DEF SoundStore, Governed

\* An administration point starts from a sound store (store.rs:40-58).
LEMMA EmptyStoreSound ==
    EmptyStore \in Store(Rules, EmptyRegistry) /\ SoundStore(EmptyStore)
<1>1. EmptyStore.domains \in [{} -> Domain] /\ {} \in SUBSET DomainId
  BY DEF EmptyStore
<1>2. EmptyStore.domains \in Domains
  BY <1>1 DEF Domains
<1>3. EmptyStore.rules \in Rules /\ EmptyStore.spifs = EmptyRegistry
      /\ EmptyStore = [domains |-> EmptyStore.domains, rules |-> EmptyStore.rules,
                       spifs |-> EmptyStore.spifs]
  BY DEF EmptyStore, Rules
<1>4. IsRegistry(EmptyRegistry)
  BY DEF IsRegistry, EmptyRegistry
<1> QED
  BY <1>2, <1>3, <1>4 DEF SoundStore, Store

\* Registering a domain adds or replaces that domain alone (store.rs).
LEMMA DomainInserted ==
    ASSUME NEW R, NEW x, NEW s \in Store(R, x), NEW d \in Domain,
           NEW id \in DomainId \cup {NoDomainId}
    PROVE  LET out == InsertDomain(s, id, d)
           IN  /\ out \in Outcome(R, x)
               /\ out.ok => /\ DOMAIN out.store.domains = DOMAIN s.domains \cup {id}
                            /\ \A e \in DOMAIN s.domains \ {id} :
                                  out.store.domains[e] = s.domains[e]
<1> DEFINE n == PutOver(s.domains, id, d)
           t == [s EXCEPT !.domains = n]
<1>1. CASE id = NoDomainId
  BY <1>1 DEF InsertDomain, Error, Outcome
<1>2. CASE id # NoDomainId
  <2>1. id \in DomainId /\ s.domains \in Domains
    BY <1>2 DEF Store
  <2>2. PICK ids \in SUBSET DomainId : s.domains \in [ids -> Domain]
    BY <2>1 DEF Domains
  <2>3. /\ n \in [ids \cup {id} -> Domain] /\ DOMAIN n = DOMAIN s.domains \cup {id}
        /\ \A e \in DOMAIN s.domains \ {id} : n[e] = s.domains[e]
    BY <2>2 DEF PutOver
  <2>4. ids \cup {id} \in SUBSET DomainId
    BY <2>1
  <2> HIDE DEF n
  <2>5. n \in Domains
    BY <2>3, <2>4 DEF Domains
  <2>6. t \in Store(R, x) /\ t.domains = n
    BY <2>5 DEF Store
  <2> HIDE DEF t
  <2>7. InsertDomain(s, id, d) = [ok |-> TRUE, store |-> t]
    BY <1>2 DEF InsertDomain, Ok, t, n
  <2>8. QED
    BY <2>3, <2>6, <2>7 DEF Outcome
<1> QED
  BY <1>1, <1>2

\* Inserting a rule, accepted or refused, leaves a store (store.rs:88-119).
LEMMA RuleInserted ==
    ASSUME NEW x, NEW s \in Store(Rules, x), NEW rule \in StoredRule
    PROVE  LET out == InsertRule(s, rule)
           IN  out \in Outcome(Rules, x)
<1>1. s.rules \in Rules /\ Append(s.rules, rule) \in Rules
  BY DEF Store, Rules
<1>2. [s EXCEPT !.rules = Append(s.rules, rule)] \in Store(Rules, x)
  BY <1>1 DEF Store
<1>3. PICK t : t = [s EXCEPT !.rules = Append(s.rules, rule)]
  OBVIOUS
<1>4. [ok |-> TRUE, store |-> t] \in Outcome(Rules, x)
      /\ [ok |-> FALSE, store |-> s] \in Outcome(Rules, x)
  BY <1>2, <1>3 DEF Outcome
<1>5. \/ InsertRule(s, rule) = [ok |-> TRUE, store |-> t]
      \/ InsertRule(s, rule) = [ok |-> FALSE, store |-> s]
  BY <1>3 DEF InsertRule, Ok, Error
<1> QED
  BY <1>4, <1>5

\* Adding or removing a rule leaves the rest of the store alone.
LEMMA RulesChanged ==
    ASSUME NEW s, SoundStore(s), NEW rule, NEW id
    PROVE  /\ SameButRules(s, InsertRule(s, rule).store)
           /\ SameButRules(s, RemoveRule(s, id).store)
<1>1. ASSUME NEW rules PROVE SameButRules(s, [s EXCEPT !.rules = rules])
  BY DEF SoundStore, SameButRules, Store
<1>2. SameButRules(s, s)
  BY DEF SoundStore, SameButRules
<1>3. /\ InsertRule(s, rule).store \in {s, [s EXCEPT !.rules = Append(s.rules, rule)]}
      /\ RemoveRule(s, id).store \in
            {s, [s EXCEPT !.rules = SelectSeq(s.rules, LAMBDA r : r.id # id)]}
  BY DEF InsertRule, RemoveRule, Ok, Error
<1> QED
  BY <1>1, <1>2, <1>3

\* Inserting a domain as it is configured leaves a store (config.rs:386-402).
LEMMA Configured ==
    ASSUME NEW x, NEW s \in Store(Rules, x), NEW d \in ConfiguredDomain
    PROVE  InsertConfigured(s, d) \in Outcome(Rules, x)
<1>1. CASE d.domain.max_classification = Unparsable
  BY <1>1 DEF InsertConfigured, Error, Outcome
<1>2. CASE d.domain.max_classification # Unparsable
  <2>1. d.domain \in Domain /\ d.id \in DomainId \cup {NoDomainId}
    BY <1>2 DEF ConfiguredDomain, Domain
  <2>2. InsertConfigured(s, d) = InsertDomain(s, d.id, d.domain)
    BY <1>2 DEF InsertConfigured
  <2>3. QED
    BY <2>1, <2>2, DomainInserted
<1> QED
  BY <1>1, <1>2

ListsDomains(seq) == seq \in Seq(ConfiguredDomain)
ListsRules(seq)   == seq \in Seq(StoredRule)

\* The loop over the domains of a configuration, and the one over its rules.
LEMMA AllConfigured ==
    ASSUME NEW x, NEW out \in Outcome(Rules, x), NEW seq, ListsDomains(seq)
    PROVE  EachOf(out, InsertConfigured, seq) \in Outcome(Rules, x)
<1> DEFINE N == Len(seq)
           S == Outcome(Rules, x)
           Do(o, k) == IF o.ok THEN InsertConfigured(o.store, seq[k]) ELSE o
           F == [k \in 1..N |-> [o \in S |-> Do(o, k)]]
           Loop(t) == t = [k \in 0..N |-> IF k = 0 THEN out ELSE Do(t[k - 1], k)]
<1>1. N \in Nat /\ \A k \in 1..N : seq[k] \in ConfiguredDomain
  BY DEF ListsDomains
<1>2. \A k \in 1..N : \A o \in S : Do(o, k) \in S
  <2>1. ASSUME NEW k \in 1..N, NEW o \in S, o.ok PROVE InsertConfigured(o.store, seq[k]) \in S
    <3>1. o.store \in Store(Rules, x)
      BY DEF Outcome
    <3>2. QED
      BY <1>1, <3>1, Configured
  <2>2. QED
    BY <2>1
<1>3. PICK r \in [0..N -> S] : r[0] = out /\ \A k \in 1..N : r[k] = F[k][r[k - 1]]
  <2>1. F \in [1..N -> [S -> S]]
    BY <1>2
  <2>2. PICK a : a = out
    OBVIOUS
  <2>3. N \in Nat /\ a \in S
    BY <1>1, <2>2
  <2> HIDE DEF N, S, F
  <2>4. \E r \in [0..N -> S] : r[0] = a /\ \A k \in 1..N : r[k] = F[k][r[k - 1]]
    BY <2>1, <2>3, LoopExists
  <2>5. QED
    BY <2>2, <2>4
<1>4. \A k \in 1..N : r[k] = Do(r[k - 1], k)
  <2>1. \A k \in 1..N : r[k - 1] \in S
    BY <1>1, <1>3
  <2> HIDE DEF Do
  <2>2. QED
    BY <1>3, <2>1
<1>5. Loop(r)
  <2>1. N \in Nat
    BY <1>1
  <2> HIDE DEF Do, S, F, N
  <2>2. QED
    BY <2>1, <1>3, <1>4
<1>6. PICK t : Loop(t) /\ EachOf(out, InsertConfigured, seq) = t[N]
  <2>1. EachOf(out, InsertConfigured, seq) = (CHOOSE t : Loop(t))[N]
    BY DEF EachOf, AndThen
  <2>2. Loop(CHOOSE t : Loop(t))
    <3> HIDE DEF Loop
    <3>1. QED
      BY <1>5
  <2> HIDE DEF Loop
  <2>3. QED
    BY <2>1, <2>2
<1>7. t[0] = out /\ \A k \in 1..N : t[k] = Do(t[k - 1], k)
  <2> HIDE DEF Do
  <2>1. QED
    BY <1>1, <1>6
<1>8. \A k \in 0..N : t[k] \in S
  <2> HIDE DEF N, Do, S
  <2>1. t[0] \in S
    BY <1>7 DEF S
  <2>2. \A k \in 1..N : t[k - 1] \in S => t[k] \in S
    BY <1>2, <1>7
  <2>3. QED
    BY <1>1, <2>1, <2>2, Throughout
<1> QED
  BY <1>1, <1>6, <1>8

\* The loop over the configured rules leaves a store (config.rs:321-351).
LEMMA AllRulesInserted ==
    ASSUME NEW x, NEW out \in Outcome(Rules, x), NEW seq, ListsRules(seq)
    PROVE  EachOf(out, InsertRule, seq) \in Outcome(Rules, x)
<1> DEFINE N == Len(seq)
           S == Outcome(Rules, x)
           Do(o, k) == IF o.ok THEN InsertRule(o.store, seq[k]) ELSE o
           F == [k \in 1..N |-> [o \in S |-> Do(o, k)]]
           Loop(t) == t = [k \in 0..N |-> IF k = 0 THEN out ELSE Do(t[k - 1], k)]
<1>1. N \in Nat /\ \A k \in 1..N : seq[k] \in StoredRule
  BY DEF ListsRules
<1>2. \A k \in 1..N : \A o \in S : Do(o, k) \in S
  <2>1. ASSUME NEW k \in 1..N, NEW o \in S, o.ok PROVE InsertRule(o.store, seq[k]) \in S
    <3>1. o.store \in Store(Rules, x)
      BY DEF Outcome
    <3>2. QED
      BY <1>1, <3>1, RuleInserted
  <2>2. QED
    BY <2>1
<1>3. PICK r \in [0..N -> S] : r[0] = out /\ \A k \in 1..N : r[k] = F[k][r[k - 1]]
  <2>1. F \in [1..N -> [S -> S]]
    BY <1>2
  <2>2. PICK a : a = out
    OBVIOUS
  <2>3. N \in Nat /\ a \in S
    BY <1>1, <2>2
  <2> HIDE DEF N, S, F
  <2>4. \E r \in [0..N -> S] : r[0] = a /\ \A k \in 1..N : r[k] = F[k][r[k - 1]]
    BY <2>1, <2>3, LoopExists
  <2>5. QED
    BY <2>2, <2>4
<1>4. \A k \in 1..N : r[k] = Do(r[k - 1], k)
  <2>1. \A k \in 1..N : r[k - 1] \in S
    BY <1>1, <1>3
  <2> HIDE DEF Do
  <2>2. QED
    BY <1>3, <2>1
<1>5. Loop(r)
  <2>1. N \in Nat
    BY <1>1
  <2> HIDE DEF Do, S, F, N
  <2>2. QED
    BY <2>1, <1>3, <1>4
<1>6. PICK t : Loop(t) /\ EachOf(out, InsertRule, seq) = t[N]
  <2>1. EachOf(out, InsertRule, seq) = (CHOOSE t : Loop(t))[N]
    BY DEF EachOf, AndThen
  <2>2. Loop(CHOOSE t : Loop(t))
    <3> HIDE DEF Loop
    <3>1. QED
      BY <1>5
  <2> HIDE DEF Loop
  <2>3. QED
    BY <2>1, <2>2
<1>7. t[0] = out /\ \A k \in 1..N : t[k] = Do(t[k - 1], k)
  <2> HIDE DEF Do
  <2>1. QED
    BY <1>1, <1>6
<1>8. \A k \in 0..N : t[k] \in S
  <2> HIDE DEF N, Do, S
  <2>1. t[0] \in S
    BY <1>7 DEF S
  <2>2. \A k \in 1..N : t[k - 1] \in S => t[k] \in S
    BY <1>2, <1>7
  <2>3. QED
    BY <1>1, <2>1, <2>2, Throughout
<1> QED
  BY <1>1, <1>6, <1>8

\* Registering a registry's policies and refreshing the domains keeps a sound store
\* sound; a NATO policy among them governs every domain the store has by then, and
\* otherwise what governed before goes on governing (spif_admin.rs:11-75).
LEMMA Administering ==
    ASSUME NEW s, SoundStore(s), NEW r, IsRegistry(r), Administer(s, r).ok
    PROVE  LET t == Administer(s, r).store
           IN  /\ SoundStore(t)
               /\ DOMAIN t.spifs = DOMAIN s.spifs \cup DOMAIN r
               /\ \A id \in DOMAIN r : id \notin DOMAIN s.spifs /\ t.spifs[id] = r[id]
               /\ \A id \in DOMAIN s.spifs : t.spifs[id] = s.spifs[id]
               /\ \A but : Governed(s, but) => Governed(t, but)
               /\ Nato \in DOMAIN r /\ ReleasableValues(r[Nato]) # {} => Governed(t, {})
<1> DEFINE all == [id \in DOMAIN r \cup DOMAIN s.spifs |->
                      IF id \in DOMAIN r THEN r[id] ELSE s.spifs[id]]
           u == [s EXCEPT !.spifs = all]
           t == ApplySpif(u, r)
<1>1. DOMAIN r \cap DOMAIN s.spifs = {} /\ Administer(s, r) = Ok(t)
  BY DEF Administer, AndThen, RegisterAll, Ok, Error
<1>2. /\ DOMAIN all = DOMAIN s.spifs \cup DOMAIN r
      /\ \A id \in DOMAIN r : all[id] = r[id]
      /\ \A id \in DOMAIN s.spifs : all[id] = s.spifs[id]
  BY <1>1
<1>3. IsRegistry(all)
  <2> HIDE DEF all
  <2>1. QED
    BY <1>2 DEF IsRegistry, SoundStore
<1> HIDE DEF all
<1>4. u \in Store({s.rules}, all) /\ u.spifs = all /\ u.domains = s.domains /\ s.domains \in Domains
  BY DEF SoundStore, Store
<1> HIDE DEF u
<1>5. PICK ids \in SUBSET DomainId : s.domains \in [ids -> Domain]
  BY <1>4 DEF Domains
<1> DEFINE values == ReleasableValues(r[Nato])
           n == [d \in DOMAIN u.domains |-> [u.domains[d] EXCEPT !.releasable_to = values]]
<1>6. CASE Nato \in DOMAIN r /\ values # {}
  <2>1. r[Nato].policy_id = Nato /\ values \subseteq Country
    BY <1>6 DEF IsRegistry
  <2>2. t = [u EXCEPT !.domains = n]
    BY <1>6, <2>1 DEF ApplySpif, SyncReleasability
  <2>3. n \in [ids -> Domain] /\ \A d \in ids : n[d].releasable_to = values
    BY <1>4, <1>5, <2>1 DEF Domain
  <2> HIDE DEF values, n
  <2>4. n \in Domains
    BY <2>3 DEF Domains
  <2>5. t \in Store({s.rules}, all) /\ t.spifs = all /\ t.domains = n
    BY <1>4, <2>2, <2>4 DEF Store
  <2>6. SoundStore(t)
    <3>1. t.rules = s.rules
      BY <2>5 DEF Store
    <3>2. QED
      BY <1>3, <2>5, <3>1 DEF SoundStore
  <2>7. Governed(t, {}) /\ \A but : Governed(t, but)
    BY <1>2, <1>6, <2>3, <2>5 DEF Governed, values
  <2>8. QED
    BY <1>1, <1>2, <2>5, <2>6, <2>7 DEF Ok
<1>7. CASE ~(Nato \in DOMAIN r /\ values # {})
  <2>1. t = u
    BY <1>7 DEF ApplySpif, SyncReleasability
  <2>2. SoundStore(t)
    <3>1. t.rules = s.rules
      BY <1>4, <2>1 DEF Store
    <3>2. QED
      BY <1>3, <1>4, <2>1, <3>1 DEF SoundStore
  <2>3. \A but : Governed(s, but) => Governed(t, but)
    BY <1>2, <1>4, <1>7, <2>1 DEF Governed
  <2>4. QED
    BY <1>1, <1>2, <1>4, <1>7, <2>1, <2>2, <2>3 DEF Ok
<1> QED
  BY <1>6, <1>7

\* Loading a document adds the one policy that it is read to.
LEMMA DocumentLoaded ==
    ASSUME NEW s, SoundStore(s), NEW but, Governed(s, but),
           NEW doc \in SpifDocument, LoadSpif(s, doc).ok
    PROVE  LET t == LoadSpif(s, doc).store
           IN  /\ SoundStore(t)
               /\ DOMAIN t.spifs = DOMAIN s.spifs \cup {doc.policy_id}
               /\ t.spifs[doc.policy_id] = Parsed(doc)
               /\ \A id \in DOMAIN s.spifs : t.spifs[id] = s.spifs[id]
               /\ Governed(t, but)
               /\ doc.policy_id = Nato /\ ReleasableValues(Parsed(doc)) # {} => Governed(t, {})
<1>1. PICK r : r = LoadedRegistry(<<doc>>)
  OBVIOUS
<1>2. Parses(doc) /\ LoadSpif(s, doc) = Administer(s, r)
  BY <1>1 DEF LoadSpif, Error
<1>3. IsRegistry(r) /\ DOMAIN r = {doc.policy_id} /\ r[doc.policy_id] = Parsed(doc)
  BY <1>1, <1>2, OneDocument
<1>4. Administer(s, r).ok
  BY <1>2
<1> DEFINE t == Administer(s, r).store
<1>5. /\ SoundStore(t)
      /\ DOMAIN t.spifs = DOMAIN s.spifs \cup DOMAIN r
      /\ \A id \in DOMAIN r : id \notin DOMAIN s.spifs /\ t.spifs[id] = r[id]
      /\ \A id \in DOMAIN s.spifs : t.spifs[id] = s.spifs[id]
      /\ \A b : Governed(s, b) => Governed(t, b)
      /\ Nato \in DOMAIN r /\ ReleasableValues(r[Nato]) # {} => Governed(t, {})
  BY <1>3, <1>4, Administering
<1>6. Governed(t, but)
  BY <1>5
<1> QED
  BY <1>2, <1>3, <1>4, <1>5, <1>6

\* A configuration that builds gives a sound store, governed throughout
\* (config.rs:96-151).
LEMMA BuiltStore ==
    ASSUME NEW c \in Configs, BuildPolicyStore(c).ok
    PROVE  SoundStore(BuildPolicyStore(c).store) /\ Governed(BuildPolicyStore(c).store, {})
<1> DEFINE built == EachOf(EachOf(Ok(EmptyStore), InsertConfigured, c.domains), InsertRule, c.rules)
<1>1. ListsDomains(c.domains) /\ ListsRules(c.rules) /\ c.spifs \in Seq(SpifDocument)
  BY DeploymentAssumption DEF ListsDomains, ListsRules
<1>2. Ok(EmptyStore) \in Outcome(Rules, EmptyRegistry)
  BY EmptyStoreSound DEF Ok, Outcome
<1>3. EachOf(Ok(EmptyStore), InsertConfigured, c.domains) \in Outcome(Rules, EmptyRegistry)
  BY <1>1, <1>2, AllConfigured
<1>4. built \in Outcome(Rules, EmptyRegistry)
  <2>1. PICK o : o = EachOf(Ok(EmptyStore), InsertConfigured, c.domains)
    OBVIOUS
  <2>2. EachOf(o, InsertRule, c.rules) \in Outcome(Rules, EmptyRegistry)
    BY <1>1, <1>3, <2>1, AllRulesInserted
  <2>3. QED
    BY <2>1, <2>2
<1>5. PICK b : b = built
  OBVIOUS
<1>6. /\ SoundStore(b.store) /\ Governed(b.store, {}) /\ b.ok \in BOOLEAN
  <2>1. b.store \in Store(Rules, EmptyRegistry) /\ b.ok \in BOOLEAN
    BY <1>4, <1>5 DEF Outcome
  <2>2. QED
    BY <2>1, BuiltIsSound
<1> HIDE DEF built
<1>7. CASE c.spifs = <<>>
  <2>1. BuildPolicyStore(c) = b
    BY <1>5, <1>7 DEF BuildPolicyStore, built
  <2>2. QED
    BY <1>6, <2>1
<1>8. CASE c.spifs # <<>>
  <2>1. BuildPolicyStore(c) = IF b.ok THEN IF Loads(c.spifs)
                                           THEN Administer(b.store, LoadedRegistry(c.spifs))
                                           ELSE Error(b.store)
                                      ELSE b
    BY <1>5, <1>8 DEF BuildPolicyStore, built, AndThen
  <2>2. Loads(c.spifs) /\ BuildPolicyStore(c) = Administer(b.store, LoadedRegistry(c.spifs))
    BY <2>1 DEF Error
  <2>3. PICK r : r = LoadedRegistry(c.spifs)
    OBVIOUS
  <2>4. IsRegistry(r) /\ Administer(b.store, r).ok
    BY <1>1, <2>2, <2>3, LoadedIsRegistry
  <2>5. SoundStore(Administer(b.store, r).store) /\ Governed(Administer(b.store, r).store, {})
    BY <1>6, <2>4, Administering
  <2>6. QED
    BY <2>2, <2>3, <2>5
<1> QED
  BY <1>7, <1>8

\* So does a registry a guard is made from (pap.rs, spif_admin.rs).
LEMMA SpifStore ==
    ASSUME NEW registry \in Registries, StoreFromSpif(registry).ok
    PROVE  /\ SoundStore(StoreFromSpif(registry).store)
           /\ Governed(StoreFromSpif(registry).store, {})
<1> DEFINE high == SpifDomain(registry, Secret)
           low  == SpifDomain(registry, Restricted)
           x    == EmptyRegistry
<1>1. IsRegistry(registry) /\ Nato \in DOMAIN registry
  BY DeploymentAssumption DEF StoreFromSpif, Error
<1>2. ReleasableValues(registry[Nato]) \subseteq Country
  BY <1>1 DEF IsRegistry
<1>3. /\ HighId \in DomainId /\ LowId \in DomainId /\ SpifRule \in RuleId
      /\ Secret \in Level /\ Restricted \in Level /\ DefaultReleasable \subseteq Country
  BY StoreAssumption
<1>4. high \in Domain /\ low \in Domain
  BY <1>2, <1>3 DEF SpifDomain, Domain
<1> HIDE DEF high, low
<1>5. PICK o1 : o1 = InsertDomain(EmptyStore, HighId, high)
  OBVIOUS
<1>6. o1 \in Outcome(Rules, x) /\ o1.store \in Store(Rules, x)
  <2>1. EmptyStore \in Store(Rules, x)
    BY EmptyStoreSound
  <2>2. o1 \in Outcome(Rules, x)
    BY <1>3, <1>4, <1>5, <2>1, DomainInserted
  <2>3. QED
    BY <2>2 DEF Outcome
<1>7. PICK o2 : o2 = IF o1.ok THEN InsertDomain(o1.store, LowId, low) ELSE o1
  OBVIOUS
<1>8. o2 \in Outcome(Rules, x) /\ o2.store \in Store(Rules, x)
  <2>1. o2 \in Outcome(Rules, x)
    BY <1>3, <1>4, <1>6, <1>7, DomainInserted
  <2>2. QED
    BY <2>1 DEF Outcome
<1>9. PICK o3 : o3 = IF o2.ok THEN InsertRule(o2.store, Rule(SpifRule, HighId, LowId)) ELSE o2
  OBVIOUS
<1>10. o3 \in Outcome(Rules, x) /\ o3.store \in Store(Rules, x)
  <2>1. Rule(SpifRule, HighId, LowId) \in StoredRule
    BY <1>3 DEF Rule, StoredRule
  <2>2. o3 \in Outcome(Rules, x)
    BY <1>8, <1>9, <2>1, RuleInserted
  <2>3. QED
    BY <2>2 DEF Outcome
<1>11. StoreFromSpif(registry) = IF o3.ok THEN Administer(o3.store, registry) ELSE o3
  BY <1>1, <1>5, <1>7, <1>9 DEF StoreFromSpif, AndThen, Ok, high, low
<1>12. SoundStore(o3.store) /\ Governed(o3.store, {})
  BY <1>10, BuiltIsSound
<1>13. StoreFromSpif(registry) = Administer(o3.store, registry) /\ Administer(o3.store, registry).ok
  BY <1>11
<1>14. SoundStore(Administer(o3.store, registry).store)
       /\ Governed(Administer(o3.store, registry).store, {})
  BY <1>1, <1>12, <1>13, Administering
<1> QED
  BY <1>13, <1>14

-----------------------------------------------------------------------------
(* The log, the transfers and the forwarding of the log.                    *)

Forward == [at: Destination \cup {"idle"}, export: Nat, attempt: 0..(Attempts - 1),
            result: {"none", "ok", "error"}, since: Nat, calls: Nat]

\* What a forward exports is no older than its beginning, and no longer than the log.
TrailTyped ==
    /\ config \in Configs
    /\ changes \in 0..MaxChanges /\ transfers \in 0..MaxTransfers
    /\ log \in 0..transfers /\ delivered \in [Destination -> 0..log]
    /\ forward \in Forward
    /\ forward.since <= log /\ forward.export <= log
    /\ forward.at # "idle" => forward.since <= forward.export

\* The destinations that a forward has behind it.
Served ==
    CASE forward.at = "http" -> {"file"}
      [] forward.at = "syslog" -> {"file", "http"}
      [] forward.at = "idle" /\ forward.result = "ok" -> Destination
      [] OTHER -> {}

\* Those of them that are configured hold the log as it was when the forward began.
ServedHold ==
    FailClosed(config) /\ "reset" \notin Faults =>
        \A d \in config.siem \cap Served : delivered[d] >= forward.since

TrailInv == TrailTyped /\ ServedHold

\* The guard in service is the one its configuration asks for, as long as it comes
\* from there, and so is every release.
DurableInv ==
    /\ guard.origin = "config" =>
          /\ guard.accredited = IsAccreditedProfile(config)
          /\ IsAccreditedProfile(config) => guard.sink = "worm"
    /\ AccreditedReleasesAreDurable

\* A deployment that has transferred and forwarded nothing yet (guard.rs:25-32).
LEMMA InitTrail == Init => TrailInv
<1> SUFFICES ASSUME Init PROVE TrailInv
  OBVIOUS
<1>1. Attempts \in Nat \ {0} /\ MaxChanges \in Nat /\ MaxTransfers \in Nat
  BY DeploymentAssumption
<1>2. TrailTyped
  BY <1>1 DEF Init, TrailTyped, Forward, Idle, Destination
<1>3. Served = {}
  BY DEF Init, Served, Idle
<1> QED
  BY <1>2, <1>3 DEF TrailInv, ServedHold

\* Every turn of a forward goes on to a destination with a new export, or ends well.
LEMMA TurnFields ==
    ASSUME TrailTyped, NEW d \in Destination \cup {"end"}
    PROVE  /\ Turn(d) \in Forward
           /\ Turn(d).since = forward.since /\ Turn(d).calls = forward.calls
           /\ Turn(d).at = IF d = "end" THEN "idle" ELSE d
           /\ d = "end" => Turn(d).result = "ok" /\ Turn(d).export = forward.export
           /\ d # "end" => Turn(d).export = log
<1>1. Attempts \in Nat \ {0} /\ log \in Nat /\ forward \in Forward
  BY DeploymentAssumption DEF TrailTyped
<1>2. CASE d = "end"
  <2>1. Turn(d) = [forward EXCEPT !.at = "idle", !.result = "ok"]
    BY <1>2 DEF Turn
  <2>2. QED
    BY <1>1, <1>2, <2>1 DEF Forward
<1>3. CASE d # "end"
  <2>1. Turn(d) = [forward EXCEPT !.at = d, !.export = log, !.attempt = 0]
    BY <1>3 DEF Turn
  <2>2. 0 \in 0..(Attempts - 1)
    BY <1>1
  <2>3. QED
    BY <1>1, <1>3, <2>1, <2>2 DEF Forward, Destination
<1> QED
  BY <1>2, <1>3

\* A destination that is skipped, takes the log or fails (siem.rs:23-92).
LEMMA ForwardStepTrail ==
    ASSUME TrailInv, NEW d \in Destination, Skip(d) \/ Deliver(d) \/ Fail(d)
    PROVE  TrailInv'
<1>1. /\ config \in Configs /\ log \in 0..transfers /\ transfers \in 0..MaxTransfers
      /\ delivered \in [Destination -> 0..log] /\ forward \in Forward
      /\ Attempts \in Nat \ {0} /\ MaxTransfers \in Nat
  BY DeploymentAssumption DEF TrailInv, TrailTyped
<1>2. /\ forward.at = d /\ forward.since \in Nat /\ forward.export \in Nat
      /\ forward.since <= forward.export /\ forward.export <= log
  BY <1>1 DEF TrailInv, TrailTyped, Skip, Deliver, Fail, Forwarding, Forward, Destination
<1>3. UNCHANGED <<config, changes, log, transfers>>
  BY DEF Skip, Deliver, Fail, Forwarding
<1>4. After(d) \in Destination \cup {"end"} /\ After(d) # "file" /\ After(d) # d
  BY DEF After, Destination
<1>5. delivered' \in [Destination -> 0..log]
  BY <1>1, <1>2 DEF Skip, Deliver, Fail, Destination
<1>6. \A e \in Destination \ {d} : delivered'[e] = delivered[e]
  BY <1>1 DEF Skip, Deliver, Fail, Destination
<1>7. CASE forward' = Turn(After(d)) /\ (d \in config.siem /\ "reset" \notin Faults
                                            /\ FailClosed(config) => delivered'[d] >= forward.since)
  <2>1. TrailTyped'
    BY <1>1, <1>2, <1>3, <1>4, <1>5, <1>7, TurnFields DEF TrailInv, TrailTyped
  <2>2. Served' \subseteq Served \cup {d}
    BY <1>2, <1>7, TurnFields DEF After, Served, Destination, TrailInv
  <2>3. forward'.since = forward.since
    BY <1>4, <1>7, TurnFields DEF TrailInv
  <2>4. ServedHold'
    BY <1>3, <1>6, <1>7, <2>2, <2>3 DEF TrailInv, ServedHold, FailClosed, IsAccreditedProfile,
       Served, Destination
  <2>5. QED
    BY <2>1, <2>4 DEF TrailInv
<1>8. CASE Skip(d)
  BY <1>7, <1>8 DEF Skip
<1>9. CASE Deliver(d)
  <2>1. "reset" \notin Faults => delivered'[d] = forward.export
    BY <1>1, <1>9 DEF Deliver
  <2>2. QED
    BY <1>2, <1>7, <1>9, <2>1 DEF Deliver
<1>10. CASE Fail(d)
  <2>1. CASE TryLeft(d)
    <3>1. forward' = [forward EXCEPT !.attempt = forward.attempt + 1]
      BY <1>10, <2>1 DEF Fail
    <3>2. forward.attempt + 1 \in 0..(Attempts - 1)
      BY <1>1, <2>1 DEF TryLeft, MaxAttempts, Forward
    <3>3. forward' \in Forward /\ forward'.since = forward.since /\ forward'.at = forward.at
          /\ forward'.export = forward.export /\ forward'.result = forward.result
      BY <1>1, <3>1, <3>2 DEF Forward
    <3>4. TrailTyped'
      BY <1>1, <1>2, <1>3, <1>5, <3>3 DEF TrailInv, TrailTyped
    <3>5. Served' = Served /\ d \notin Served
      BY <1>2, <3>3 DEF Served, Destination
    <3>6. ServedHold'
      BY <1>3, <1>6, <3>3, <3>5 DEF TrailInv, ServedHold, FailClosed, IsAccreditedProfile,
         Served, Destination
    <3>7. QED
      BY <3>4, <3>6 DEF TrailInv
  <2>2. CASE ~TryLeft(d) /\ FailClosed(config)
    <3>1. forward' = [forward EXCEPT !.at = "idle", !.result = "error"]
      BY <1>10, <2>2 DEF Fail, GiveUp
    <3>2. forward' \in Forward /\ forward'.since = forward.since /\ forward'.at = "idle"
          /\ forward'.export = forward.export /\ forward'.result = "error"
      BY <1>1, <3>1 DEF Forward
    <3>3. TrailTyped'
      BY <1>1, <1>2, <1>3, <1>5, <3>2 DEF TrailInv, TrailTyped
    <3>4. Served' = {}
      BY <3>2 DEF Served
    <3>5. QED
      BY <3>3, <3>4 DEF TrailInv, ServedHold
  <2>3. CASE ~TryLeft(d) /\ ~FailClosed(config)
    <3>1. forward' = Turn(After(d))
      BY <1>10, <2>3 DEF Fail, GiveUp
    <3>2. QED
      BY <1>7, <2>3, <3>1
  <2>4. QED
    BY <2>1, <2>2, <2>3
<1> QED
  BY <1>8, <1>9, <1>10

\* A step that leaves the log, the destinations and the forward alone.
LEMMA TrailKept ==
    ASSUME TrailInv, UNCHANGED <<config, log, transfers, delivered, forward>>,
           changes' \in 0..MaxChanges
    PROVE  TrailInv'
BY DEF TrailInv, TrailTyped, ServedHold, Served, FailClosed, IsAccreditedProfile

\* Every step keeps the trail.
LEMMA StepTrail == TrailInv /\ [Next]_vars => TrailInv'
<1> SUFFICES ASSUME TrailInv, [Next]_vars PROVE TrailInv'
  OBVIOUS
<1>1. changes \in 0..MaxChanges /\ MaxChanges \in Nat /\ MaxTransfers \in Nat
      /\ Attempts \in Nat \ {0}
  BY DeploymentAssumption DEF TrailInv, TrailTyped
<1>2. CASE UNCHANGED vars
  BY <1>1, <1>2, TrailKept DEF vars
<1>3. CASE Configure \/ Redeploy \/ \E registry \in Registries : ConfigureFromSpif(registry)
  <2>1. UNCHANGED <<config, changes, log, transfers, delivered, forward>>
    BY <1>3 DEF Configure, Redeploy, ConfigureFromSpif
  <2>2. QED
    BY <1>1, <2>1, TrailKept
<1>4. ASSUME NEW outcome, Administered(outcome) PROVE TrailInv'
  BY <1>1, <1>4, TrailKept DEF Administered
<1>5. ASSUME NEW l, NEW recorded \in BOOLEAN, Transfer(l, recorded) PROVE TrailInv'
  <2>1. /\ UNCHANGED <<config, changes, delivered, forward>>
        /\ transfers' = transfers + 1 /\ transfers' \in 0..MaxTransfers
        /\ log' \in {log, log + 1}
    BY <1>1, <1>5 DEF Transfer, TrailInv, TrailTyped
  <2>2. TrailTyped'
    BY <1>1, <2>1 DEF TrailInv, TrailTyped, Forward
  <2>3. QED
    BY <2>1, <2>2 DEF TrailInv, ServedHold, Served, FailClosed, IsAccreditedProfile
<1>6. CASE StartForward
  <2>1. /\ UNCHANGED <<config, changes, log, transfers, delivered>>
        /\ forward' = [at |-> "file", export |-> log, attempt |-> 0, result |-> "none",
                       since |-> log, calls |-> forward.calls + 1]
    BY <1>6 DEF StartForward, Forwarding
  <2>2. TrailTyped'
    BY <1>1, <2>1 DEF TrailInv, TrailTyped, Forward, Destination
  <2>3. Served' = {}
    BY <2>1 DEF Served
  <2>4. QED
    BY <2>2, <2>3 DEF TrailInv, ServedHold
<1>7. CASE ForwardStep
  BY <1>7, ForwardStepTrail DEF ForwardStep
<1> QED
  BY <1>2, <1>3, <1>4, <1>5, <1>6, <1>7 DEF Next, RegisterDomain, AddRule, DropRule, Load

\* A forward that has ended well in a deployment that fails closed has been taken by
\* every configured destination (config.rs:237-265, siem.rs:24-46).
THEOREM ForwardsAreDelivered == Spec => []ForwardedIsDelivered
<1>1. TrailInv => ForwardedIsDelivered
  BY DeploymentAssumption DEF TrailInv, TrailTyped, ServedHold, Served, ForwardedIsDelivered,
     Destination
<1> QED
  BY <1>1, InitTrail, StepTrail, PTL DEF Spec

-----------------------------------------------------------------------------
(* Releases of an accredited deployment.                                    *)

\* Nothing has been released and no guard is in service.
LEMMA InitDurable == Init => DurableInv
BY DEF Init, DurableInv, NoGuard, AccreditedReleasesAreDurable

\* A configuration that builds with an accredited profile logs to a write-once sink
\* (config.rs:173-189).
LEMMA BuiltIsDurable ==
    ASSUME Builds(config)
    PROVE  LET g == BuildGuard(config)
           IN  /\ g.accredited = IsAccreditedProfile(config)
               /\ IsAccreditedProfile(config) => g.sink = "worm"
BY DEF Builds, ValidProfile, BuildGuard

\* Every step keeps releases behind their records.
LEMMA StepDurable == DurableInv /\ [Next]_vars => DurableInv'
<1> SUFFICES ASSUME DurableInv, [Next]_vars PROVE DurableInv'
  OBVIOUS
<1>1. ASSUME UNCHANGED <<config, guard, released>> PROVE DurableInv'
  BY <1>1 DEF DurableInv, AccreditedReleasesAreDurable, IsAccreditedProfile
<1>2. CASE UNCHANGED vars
  BY <1>1, <1>2 DEF vars
<1>3. CASE Configure
  <2>1. UNCHANGED <<config, released>> /\ guard' = BuildGuard(config) /\ Builds(config)
    BY <1>3 DEF Configure
  <2>2. QED
    BY <2>1, BuiltIsDurable DEF DurableInv, AccreditedReleasesAreDurable, IsAccreditedProfile
<1>4. CASE Redeploy \/ \E registry \in Registries : ConfigureFromSpif(registry)
  <2>1. UNCHANGED <<config, released>> /\ guard'.origin # "config"
    <3>1. CASE Redeploy
      <4>1. guard' = [[[[guard EXCEPT !.store = prp] EXCEPT !.accredited = FALSE]
                         EXCEPT !.sink = "memory"] EXCEPT !.origin = "prp"]
        BY <3>1 DEF Redeploy
      <4>2. QED
        BY <3>1, <4>1 DEF Redeploy
    <3>2. QED
      BY <1>4, <3>1 DEF ConfigureFromSpif
  <2>2. QED
    BY <2>1 DEF DurableInv, AccreditedReleasesAreDurable
<1>5. ASSUME NEW outcome, Administered(outcome) PROVE DurableInv'
  BY <1>1, <1>5 DEF Administered
<1>6. ASSUME NEW l, NEW recorded \in BOOLEAN, Transfer(l, recorded) PROVE DurableInv'
  <2>1. /\ UNCHANGED <<config, guard>>
        /\ released' \subseteq released \cup
             {[origin |-> guard.origin, sink |-> guard.sink, recorded |-> recorded]}
        /\ released' # released => GoesOn(recorded)
    BY <1>6 DEF Transfer
  <2>2. ASSUME NEW r \in released', r.origin = "config", IsAccreditedProfile(config)
        PROVE  r.recorded /\ r.sink = "worm"
    <3>1. CASE r \in released
      BY <2>2, <3>1 DEF DurableInv, AccreditedReleasesAreDurable, IsAccreditedProfile
    <3>2. CASE r \notin released
      <4>1. r = [origin |-> guard.origin, sink |-> guard.sink, recorded |-> recorded]
            /\ GoesOn(recorded)
        BY <2>1, <3>2
      <4>2. guard.accredited = IsAccreditedProfile(config) /\ guard.sink = "worm"
        BY <2>2, <4>1 DEF DurableInv
      <4>3. QED
        BY <2>2, <4>1, <4>2 DEF GoesOn
    <3>3. QED
      BY <3>1, <3>2
  <2>3. QED
    BY <2>1, <2>2 DEF DurableInv, AccreditedReleasesAreDurable, IsAccreditedProfile
<1>7. CASE StartForward \/ ForwardStep
  BY <1>1, <1>7 DEF StartForward, ForwardStep, Skip, Deliver, Fail, Forwarding
<1> QED
  BY <1>2, <1>3, <1>4, <1>5, <1>6, <1>7 DEF Next, RegisterDomain, AddRule, DropRule, Load

\* Nothing leaves an accredited deployment that is not on record in a write-once log
\* (config.rs:173-189, transfer.rs).
THEOREM ReleasesAreDurable == Spec => []AccreditedReleasesAreDurable
<1>1. DurableInv => AccreditedReleasesAreDurable
  BY DEF DurableInv
<1> QED
  BY <1>1, InitDurable, StepDurable, PTL DEF Spec
-----------------------------------------------------------------------------
(* The administration point's store.                                        *)

\* A document that was loaded is in the store as it was read, whatever is loaded or
\* registered after it: the store takes an identifier once.
StoreInv ==
    /\ config \in Configs
    /\ SoundStore(prp) /\ late \subseteq DomainId /\ Governed(prp, late)
    /\ guard.in_service \in BOOLEAN /\ guard.sink \in {"memory", "file", "worm"}
    /\ ~guard.in_service => loaded = NoDocument
    /\ loaded # NoDocument =>
          /\ loaded \in SpifDocument
          /\ loaded.policy_id \in DOMAIN prp.spifs
          /\ prp.spifs[loaded.policy_id] = Parsed(loaded)

\* No store has been built yet.
LEMMA InitStore == Init => StoreInv
<1> SUFFICES ASSUME Init PROVE StoreInv
  OBVIOUS
<1>1. SoundStore(prp) /\ prp.spifs = EmptyRegistry
  BY EmptyStoreSound DEF Init, EmptyStore
<1>2. Governed(prp, late)
  BY <1>1 DEF Governed, EmptyRegistry
<1> QED
  BY <1>1, <1>2 DEF Init, StoreInv, NoGuard

\* A step of an administrator that leaves the policies as they are.
LEMMA DomainsChange ==
    ASSUME StoreInv, NEW out, out.store \in Store({out.store.rules}, prp.spifs),
           Administered(out),
           loaded' = loaded, late' \subseteq DomainId, Governed(out.store, late')
    PROVE  StoreInv'
<1>1. /\ prp' = out.store /\ config' = config /\ guard' = guard /\ guard.in_service
  BY DEF Administered
<1>2. SoundStore(prp') /\ prp'.spifs = prp.spifs
  BY <1>1 DEF StoreInv, SoundStore, Store
<1> QED
  BY <1>1, <1>2 DEF StoreInv

\* Every step keeps the store governed and the document that was loaded last.
LEMMA StepStore == StoreInv /\ [Next]_vars => StoreInv'
<1> SUFFICES ASSUME StoreInv, [Next]_vars PROVE StoreInv'
  OBVIOUS
<1>1. /\ SoundStore(prp) /\ Governed(prp, late) /\ config \in Configs
      /\ prp \in Store({prp.rules}, prp.spifs) /\ IsRegistry(prp.spifs)
  BY DEF StoreInv, SoundStore
<1>2. ASSUME UNCHANGED <<config, prp, guard, loaded, late>> PROVE StoreInv'
  BY <1>2 DEF StoreInv
<1>3. CASE UNCHANGED vars
  BY <1>2, <1>3 DEF vars
<1>4. CASE Configure
  <2>1. /\ prp' = BuildPolicyStore(config).store /\ BuildPolicyStore(config).ok
        /\ UNCHANGED <<config, loaded>> /\ late' = {}
        /\ guard' = BuildGuard(config) /\ loaded = NoDocument
    BY <1>4 DEF Configure, Builds, BuildGuard, StoreInv
  <2>2. SoundStore(prp') /\ Governed(prp', {})
    BY <1>1, <2>1, BuiltStore
  <2>3. guard'.in_service /\ guard'.sink \in {"memory", "file", "worm"}
    BY <1>1, <2>1, DeploymentAssumption DEF BuildGuard
  <2>4. QED
    BY <1>1, <2>1, <2>2, <2>3 DEF StoreInv, BuildGuard
<1>5. ASSUME NEW registry \in Registries, ConfigureFromSpif(registry) PROVE StoreInv'
  <2>1. /\ prp' = StoreFromSpif(registry).store /\ StoreFromSpif(registry).ok
        /\ UNCHANGED <<config, loaded>> /\ late' = {} /\ loaded = NoDocument
        /\ guard'.in_service = TRUE /\ guard'.sink = "memory"
    BY <1>5 DEF ConfigureFromSpif, StoreInv
  <2>2. SoundStore(prp') /\ Governed(prp', {})
    BY <2>1, SpifStore
  <2>3. QED
    BY <1>1, <2>1, <2>2 DEF StoreInv
<1>6. ASSUME NEW d \in NewDomains, RegisterDomain(d.id, d.domain) PROVE StoreInv'
  <2> DEFINE out == InsertDomain(prp, d.id, d.domain)
  <2>1. /\ Administered(out) /\ out.ok /\ late' = late \cup {d.id} /\ loaded' = loaded
    BY <1>6 DEF RegisterDomain, Administered
  <2>2. d.id \in DomainId \cup {NoDomainId} /\ d.domain \in Domain
    BY DeploymentAssumption
  <2>3. d.id \in DomainId
    BY <2>1, <2>2 DEF InsertDomain, Error
  <2>4. /\ out \in Outcome({prp.rules}, prp.spifs)
        /\ DOMAIN out.store.domains = DOMAIN prp.domains \cup {d.id}
        /\ \A e \in DOMAIN prp.domains \ {d.id} : out.store.domains[e] = prp.domains[e]
    BY <1>1, <2>1, <2>2, DomainInserted
  <2> HIDE DEF out
  <2>5. out.store.spifs = prp.spifs /\ out.store \in Store({out.store.rules}, prp.spifs)
    BY <2>4 DEF Outcome, Store
  <2>6. Governed(out.store, late')
    BY <1>1, <2>1, <2>4, <2>5 DEF Governed
  <2>7. QED
    BY <2>1, <2>3, <2>5, <2>6, DomainsChange DEF StoreInv
<1>7. ASSUME NEW out, Administered(out), SameButRules(prp, out.store), UNCHANGED <<loaded, late>>
      PROVE  StoreInv'
  <2>1. out.store \in Store({out.store.rules}, prp.spifs) /\ out.store.spifs = prp.spifs
    BY <1>7 DEF SameButRules, Store
  <2>2. Governed(out.store, late')
    BY <1>1, <1>7, <2>1 DEF Governed, SameButRules
  <2>3. late' \subseteq DomainId
    BY <1>7 DEF StoreInv
  <2>4. QED
    BY <1>7, <2>1, <2>2, <2>3, DomainsChange
<1>8. ASSUME NEW rule \in NewRules, AddRule(rule) PROVE StoreInv'
  BY <1>1, <1>7, <1>8, RulesChanged DEF AddRule
<1>9. ASSUME NEW id \in RuleId, DropRule(id) PROVE StoreInv'
  BY <1>1, <1>7, <1>9, RulesChanged DEF DropRule
<1>10. ASSUME NEW doc \in Documents, Load(doc) PROVE StoreInv'
  <2>1. /\ doc \in SpifDocument /\ LoadSpif(prp, doc).ok /\ prp' = LoadSpif(prp, doc).store
        /\ loaded' = doc /\ UNCHANGED <<config, guard>> /\ guard.in_service
        /\ late' = IF doc.policy_id = Nato /\ ReleasableValues(Parsed(doc)) # {}
                   THEN {} ELSE late
    BY <1>10, DeploymentAssumption DEF Load, Administered
  <2>2. /\ SoundStore(prp')
        /\ DOMAIN prp'.spifs = DOMAIN prp.spifs \cup {doc.policy_id}
        /\ prp'.spifs[doc.policy_id] = Parsed(doc)
        /\ Governed(prp', late)
        /\ doc.policy_id = Nato /\ ReleasableValues(Parsed(doc)) # {} => Governed(prp', {})
    BY <1>1, <2>1, DocumentLoaded
  <2>3. late' \subseteq DomainId /\ Governed(prp', late')
    BY <2>1, <2>2 DEF StoreInv
  <2>4. QED
    BY <2>1, <2>2, <2>3 DEF StoreInv
<1>11. CASE Redeploy
  <2>1. UNCHANGED <<config, prp, loaded, late>> /\ guard.in_service
        /\ guard' = [[[[guard EXCEPT !.store = prp] EXCEPT !.accredited = FALSE]
                       EXCEPT !.sink = "memory"] EXCEPT !.origin = "prp"]
    BY <1>11 DEF Redeploy
  <2>2. guard'.in_service = TRUE /\ guard'.sink \in {"memory", "file", "worm"}
    BY <2>1 DEF StoreInv
  <2>3. QED
    BY <2>1, <2>2 DEF StoreInv
<1>12. CASE StartForward \/ ForwardStep \/ \E l \in Labels, recorded \in BOOLEAN :
                                             Transfer(l, recorded)
  BY <1>2, <1>12 DEF StartForward, ForwardStep, Skip, Deliver, Fail, Forwarding, Transfer
<1> QED
  BY <1>3, <1>4, <1>5, <1>6, <1>8, <1>9, <1>10, <1>11, <1>12 DEF Next

\* Types of the store, the guard and the trail (config.rs, guard.rs, siem.rs).
THEOREM TypeCorrect == Spec => []TypeOK
<1>1. StoreInv /\ TrailInv => TypeOK
  <2> SUFFICES ASSUME StoreInv, TrailInv PROVE TypeOK
    OBVIOUS
  <2>1. PICK ids \in SUBSET DomainId : prp.domains \in [ids -> Domain]
    BY DEF StoreInv, SoundStore, Store, Domains
  <2>2. DOMAIN prp.spifs \subseteq PolicyId
    BY DEF StoreInv, SoundStore, IsRegistry
  <2>3. QED
    BY <2>1, <2>2 DEF StoreInv, TrailInv, TrailTyped, Forward, TypeOK
<1> QED
  BY <1>1, InitStore, StepStore, InitTrail, StepTrail, PTL DEF Spec

\* A NATO policy's list of countries is what every domain releases to, but for those
\* registered since (spif_admin.rs:11-40, 62-75).
THEOREM NatoGoverns == Spec => []NatoGovernsReleasability
<1>1. StoreInv => NatoGovernsReleasability
  BY DEF StoreInv, Governed, NatoGovernsReleasability
<1> QED
  BY <1>1, InitStore, StepStore, PTL DEF Spec

\* The parser keeps the categories of a document but those that follow a validation
\* without a classification in between (parser.rs:52-134).
THEOREM CategoriesKept == Spec => []CategoriesAreKept
<1>1. StoreInv => CategoriesAreKept
  <2> SUFFICES ASSUME StoreInv, loaded # NoDocument
               PROVE  DOMAIN prp.spifs[loaded.policy_id].categories =
                   {loaded.elements[k].name : k \in {k \in DOMAIN loaded.elements :
                       /\ loaded.elements[k].tag = "category"
                       /\ \A j \in 1..k : loaded.elements[j].tag = "validation" =>
                             \E i \in j..k : loaded.elements[i].tag = "class"}}
    BY DEF CategoriesAreKept
  <2>1. loaded \in SpifDocument /\ prp.spifs[loaded.policy_id] = Parsed(loaded)
    BY DEF StoreInv
  <2>2. DOMAIN Parsed(loaded).categories = Kept(loaded, Len(loaded.elements))
        /\ DOMAIN loaded.elements = 1..Len(loaded.elements)
    BY <2>1, ParsedPolicy, ReadingTurns
  <2>3. QED
    BY <2>1, <2>2 DEF Kept, Dropped
<1> QED
  BY <1>1, InitStore, StepStore, PTL DEF Spec

-----------------------------------------------------------------------------
(* The audit log that a deployment records in, for every set of callers and *)
(* sinks and any number of records: types, the chain of a reloaded JSONL    *)
(* file, and what the sidecar of a write-once file vouches for.             *)

Piece == Envelope \cup Debris

-----------------------------------------------------------------------------
(* What an append does to the file.                                        *)

\* An envelope about to be sealed is one, and no debris (chain.rs:66).
LEMMA SealIsEnvelope ==
    ASSUME LogTypeOK, NEW c \in Caller, sealing[c] # NoRecord
    PROVE  /\ Seal(c) \in Envelope /\ Seal(c) \notin Debris
           /\ RecordHash(Seal(c)) \in Hash
           /\ sealing[c] \in Record
<1>1. sealing[c] \in Record /\ previous \in Hash
  BY DEF LogTypeOK
<1>2. Seal(c) \in Envelope
  BY <1>1 DEF Seal, Envelope
<1>3. Append(previous, sealing[c]) \in Hash
  BY <1>1, AppendProperties DEF Hash
<1>4. RecordHash(Seal(c)) = Append(previous, sealing[c])
  BY DEF RecordHash, Seal
<1>5. QED
  BY <1>1, <1>2, <1>3, <1>4, AuditAssumption DEF Debris

\* A file that does not end in a fragment grows by what is written to it, and one
\* that does keeps its length (log.rs:247, worm.rs:112).
LEMMA FileGrows ==
    ASSUME LogTypeOK, NEW e \in Piece
    PROVE  /\ Written(e) \in Seq(Piece) /\ Cut \in Seq(Piece)
           /\ ~EndsInFragment => Cut = Append(file, Fragment)
           /\ Sink # "memory" /\ ~EndsInFragment => Written(e) = Append(file, e)
<1>1. file \in Seq(Piece) /\ Fragment \in Piece /\ Spoiled \in Piece
  BY DEF LogTypeOK, Piece, Debris
<1>2. Append(file, e) \in Seq(Piece) /\ Append(file, Fragment) \in Seq(Piece)
  BY <1>1, AppendProperties
<1>3. ASSUME EndsInFragment PROVE [file EXCEPT ![Len(file)] = Spoiled] \in Seq(Piece)
  <2>1. Len(file) \in 1..Len(file)
    BY <1>1, <1>3, EmptySeq, LenProperties DEF EndsInFragment
  <2>2. QED
    BY <1>1, <2>1, ExceptSeq
<1>4. Written(e) \in Seq(Piece)
  BY <1>1, <1>2, <1>3 DEF Written
<1>5. Cut \in Seq(Piece)
  BY <1>1, <1>2 DEF Cut
<1>6. QED
  BY <1>4, <1>5 DEF Cut, Written

\* Appending leaves every piece where it is.
LEMMA AppendKeeps ==
    ASSUME NEW f \in Seq(Piece), NEW e \in Piece
    PROVE  /\ Append(f, e) \in Seq(Piece)
           /\ Len(f) \in Nat /\ DOMAIN f = 1..Len(f)
           /\ Len(Append(f, e)) = Len(f) + 1
           /\ DOMAIN Append(f, e) = 1..(Len(f) + 1)
           /\ \A k \in DOMAIN f : Append(f, e)[k] = f[k]
           /\ Append(f, e)[Len(f) + 1] = e
           /\ Append(f, e) # <<>>
<1>1. QED
  BY AppendProperties, LenProperties, EmptySeq

\* A file without debris consists of envelopes, and its last one has a hash
\* (chain.rs:86).
LEMMA ParsedFile ==
    ASSUME file \in Seq(Piece), Parsable(file)
    PROVE  /\ file \in Seq(Envelope)
           /\ LastHash(file) \in Hash
           /\ ~EndsInFragment
<1>1. Len(file) \in Nat /\ DOMAIN file = 1..Len(file) /\ file \in [1..Len(file) -> Piece]
  BY LenProperties
<1>2. \A k \in 1..Len(file) : file[k] \in Envelope /\ file[k] \notin Debris
  BY <1>1, ElementOfSeq DEF Parsable, Piece
<1>3. file \in [1..Len(file) -> Envelope]
  BY <1>1, <1>2
<1>4. file \in Seq(Envelope)
  BY <1>1, <1>3, SeqDef
<1>5. ASSUME file # <<>>
      PROVE  /\ RecordHash(file[Len(file)]) \in Hash
             /\ file[Len(file)] # Fragment
  <2>1. Len(file) \in 1..Len(file)
    BY <1>1, <1>5, EmptySeq
  <2>2. file[Len(file)] \in Envelope /\ file[Len(file)] \notin Debris
    BY <1>2, <2>1
  <2>3. file[Len(file)].previous \in Hash /\ file[Len(file)].record \in Record
    BY <2>2 DEF Envelope
  <2>4. Append(file[Len(file)].previous, file[Len(file)].record) \in Hash
    BY <2>3, AppendProperties DEF Hash
  <2>5. QED
    BY <2>2, <2>4 DEF RecordHash, Debris
<1>6. Genesis \in Hash
  BY EmptySeq DEF Genesis, Hash
<1>7. QED
  BY <1>4, <1>5, <1>6 DEF LastHash, EndsInFragment

-----------------------------------------------------------------------------
(* The invariants.                                                          *)

\* A process that reloaded the log goes on from its last line; while it runs
\* nothing but whole lines is in the file.
ChainInv ==
    Startup = "reload" /\ "write_error" \notin SetupFaults =>
        /\ Parsable(file) => ChainVerifies(file)
        /\ running => Parsable(file) /\ previous = LastHash(file)

\* The sidecar lags behind the file, and neither it nor the running sink takes a
\* file that ends in a fragment for its own.
SidecarLags ==
    /\ \A r \in acked : ReadableWithin(manifest.byte_length, r)
    /\ manifest.byte_length <= Len(file)
    /\ manifest.byte_length = Len(file) => ~EndsInFragment
    /\ running /\ state.byte_length = Len(file) => ~EndsInFragment

SealInv == Sink = "worm" => SidecarLags

IInv == LogTypeOK /\ ChainInv /\ SealInv

\* The empty log (log.rs:142).
LEMMA InitSound == LogInit => IInv
<1> SUFFICES ASSUME LogInit PROVE IInv
  OBVIOUS
<1>1. /\ <<>> \in Hash /\ <<>> \in Seq(Envelope) /\ <<>> \in Seq(Record)
      /\ <<>> \in Seq(Envelope \cup Debris) /\ Len(file) = 0 /\ DOMAIN file = {}
  BY EmptySeq, LenProperties DEF Hash, LogInit
<1>2. NoManifest \in Manifest
  BY <1>1 DEF NoManifest, Manifest, Genesis
<1>3. LogTypeOK
  <2>1. made \in 0..MaxRecords /\ sealing \in [Caller -> Record \cup {NoRecord}]
    BY AuditAssumption DEF LogInit
  <2>2. setup \in Setups /\ running \in BOOLEAN /\ acked \subseteq Record
    BY DEF LogInit
  <2>3. previous \in Hash /\ envelopes \in Seq(Envelope) /\ records \in Seq(Record)
        /\ file \in Seq(Envelope \cup Debris) /\ manifest \in Manifest /\ state \in Manifest
    BY <1>1, <1>2 DEF LogInit, Genesis
  <2>4. QED
    BY <2>1, <2>2, <2>3 DEF LogTypeOK
<1>4. ChainInv
  BY <1>1 DEF LogInit, ChainInv, ChainVerifies
<1>5. SealInv
  BY <1>1 DEF LogInit, SealInv, SidecarLags, NoManifest, EndsInFragment
<1>6. QED
  BY <1>3, <1>4, <1>5 DEF IInv

-----------------------------------------------------------------------------
(* Types.                                                                   *)

\* What a process starts a WORM sink from is a manifest (worm.rs:59).
LEMMA OpeningTyped ==
    ASSUME LogTypeOK, WormOpens
    PROVE  OpeningState \in Manifest
<1>1. file \in Seq(Piece) /\ Len(file) \in Nat /\ manifest \in Manifest
  BY LenProperties DEF LogTypeOK, Piece
<1>2. CASE manifest = NoManifest
  BY <1>1, <1>2, ParsedFile DEF WormOpens, OpeningState, Manifest
<1>3. CASE manifest # NoManifest
  BY <1>1, <1>3 DEF OpeningState
<1>4. QED
  BY <1>2, <1>3

\* The manifest behind a line that was written.
LEMMA GrownTyped ==
    ASSUME LogTypeOK, NEW c \in Caller, sealing[c] # NoRecord
    PROVE  Grown(Seal(c)) \in Manifest
<1>1. Len(file) + 1 \in Nat /\ RecordHash(Seal(c)) \in Hash /\ state \in Manifest
  BY SealIsEnvelope, LenProperties DEF LogTypeOK
<1>2. QED
  BY <1>1 DEF Grown, Manifest

\* Every step keeps the types (log.rs:127-262, worm.rs:59-127).
LEMMA TypeKept == LogTypeOK /\ [LogNext]_logVars => LogTypeOK'
<1> SUFFICES ASSUME LogTypeOK, [LogNext]_logVars PROVE LogTypeOK'
  OBVIOUS
<1> USE DEF LogTypeOK
<1>0. Genesis \in Hash /\ <<>> \in Seq(Envelope) /\ <<>> \in Seq(Record)
      /\ NoManifest \in Manifest
  BY EmptySeq DEF Genesis, Hash, NoManifest, Manifest
<1>1. ASSUME Open, UNCHANGED setup PROVE LogTypeOK'
  BY <1>0, <1>1, OpeningTyped DEF Open
<1>2. ASSUME Reload, UNCHANGED setup PROVE LogTypeOK'
  BY <1>2, ParsedFile DEF Reload, Piece
<1>3. ASSUME NEW c \in Caller, Begin(c), UNCHANGED setup PROVE LogTypeOK'
  <2>1. made + 1 \in Record /\ made + 1 \in 0..MaxRecords
    BY <1>3, AuditAssumption DEF Begin, Record
  <2>2. Append(records, made + 1) \in Seq(Record)
    BY <2>1, AppendProperties
  <2>3. sealing' \in [Caller -> Record \cup {NoRecord}]
    BY <1>3, <2>1 DEF Begin
  <2>4. QED
    BY <1>3, <2>1, <2>2, <2>3 DEF Begin
<1>4. ASSUME NEW c \in Caller, Commit(c), UNCHANGED setup PROVE LogTypeOK'
  <2>1. /\ Seal(c) \in Envelope /\ RecordHash(Seal(c)) \in Hash /\ sealing[c] \in Record
        /\ Grown(Seal(c)) \in Manifest
    BY <1>4, SealIsEnvelope, GrownTyped DEF Commit
  <2>2. Written(Seal(c)) \in Seq(Envelope \cup Debris)
    BY <2>1, FileGrows DEF Piece
  <2>3. Append(envelopes, Seal(c)) \in Seq(Envelope)
    BY <2>1, AppendProperties
  <2>4. sealing' \in [Caller -> Record \cup {NoRecord}] /\ acked' \subseteq Record
    BY <1>4, <2>1 DEF Commit
  <2>5. QED
    BY <1>4, <2>1, <2>2, <2>3, <2>4 DEF Commit
<1>5. ASSUME NEW c \in Caller, AppendFails(c), UNCHANGED setup PROVE LogTypeOK'
  <2>1. Written(Seal(c)) \in Seq(Envelope \cup Debris) /\ Cut \in Seq(Envelope \cup Debris)
    BY <1>5, SealIsEnvelope, FileGrows DEF AppendFails, Piece
  <2>2. file' \in Seq(Envelope \cup Debris)
    BY <1>5, <2>1 DEF AppendFails
  <2>3. sealing' \in [Caller -> Record \cup {NoRecord}]
    BY <1>5 DEF AppendFails
  <2>4. QED
    BY <1>5, <2>2, <2>3 DEF AppendFails
<1>6. ASSUME NEW c \in Caller, ManifestFails(c), UNCHANGED setup PROVE LogTypeOK'
  <2>1. Written(Seal(c)) \in Seq(Envelope \cup Debris) /\ Grown(Seal(c)) \in Manifest
    BY <1>6, SealIsEnvelope, FileGrows, GrownTyped DEF ManifestFails, Piece
  <2>2. sealing' \in [Caller -> Record \cup {NoRecord}]
    BY <1>6 DEF ManifestFails
  <2>3. QED
    BY <1>6, <2>1, <2>2 DEF ManifestFails
<1>7. ASSUME NEW c \in Caller, CrashInAppend(c), UNCHANGED setup PROVE LogTypeOK'
  <2>1. /\ Written(Seal(c)) \in Seq(Envelope \cup Debris) /\ Cut \in Seq(Envelope \cup Debris)
        /\ Grown(Seal(c)) \in Manifest
    BY <1>7, SealIsEnvelope, FileGrows, GrownTyped DEF CrashInAppend, Piece
  <2>2. file' \in Seq(Envelope \cup Debris) /\ manifest' \in Manifest
    BY <1>7, <2>1 DEF CrashInAppend
  <2>3. QED
    BY <1>0, <1>7, <2>2 DEF CrashInAppend, Stop
<1>8. ASSUME Crash, UNCHANGED setup PROVE LogTypeOK'
  BY <1>0, <1>8 DEF Crash, Stop
<1>9. CASE UNCHANGED logVars
  BY <1>9 DEF logVars
<1>10. QED
  BY <1>1, <1>2, <1>3, <1>4, <1>5, <1>6, <1>7, <1>8, <1>9 DEF LogNext, Step

-----------------------------------------------------------------------------
(* The chain of a reloaded file.                                            *)

\* A line sealed on the hash of the last one continues the chain (chain.rs:66).
LEMMA ChainGrows ==
    ASSUME LogTypeOK, NEW c \in Caller, sealing[c] # NoRecord,
           Parsable(file), ChainVerifies(file), previous = LastHash(file),
           file' = Append(file, Seal(c))
    PROVE  Parsable(file)' /\ ChainVerifies(file)' /\ LastHash(file)' = RecordHash(Seal(c))
<1>1. file \in Seq(Piece) /\ Seal(c) \in Piece /\ Seal(c) \notin Debris
  BY SealIsEnvelope DEF LogTypeOK, Piece
<1>2. /\ Len(file) \in Nat /\ DOMAIN file = 1..Len(file)
      /\ Len(file') = Len(file) + 1 /\ DOMAIN file' = 1..(Len(file) + 1)
      /\ \A k \in DOMAIN file : file'[k] = file[k]
      /\ file'[Len(file) + 1] = Seal(c) /\ file' # <<>>
  BY <1>1, AppendKeeps
<1>3. Parsable(file)'
  BY <1>1, <1>2 DEF Parsable
<1>4. ChainVerifies(file)'
  <2> SUFFICES ASSUME NEW k \in DOMAIN file'
               PROVE  file'[k].previous = IF k = 1 THEN Genesis ELSE RecordHash(file'[k - 1])
    BY DEF ChainVerifies
  <2>1. CASE k \in DOMAIN file
    BY <1>2, <2>1 DEF ChainVerifies
  <2>2. CASE k = Len(file) + 1
    <3>1. file'[k].previous = LastHash(file)
      BY <1>2, <2>2 DEF Seal
    <3>2. CASE file = <<>>
      BY <2>2, <3>1, <3>2, EmptySeq DEF LastHash
    <3>3. CASE file # <<>>
      <4>1. Len(file) \in DOMAIN file /\ k # 1
        BY <1>1, <1>2, <2>2, <3>3, EmptySeq
      <4>2. file'[k - 1] = file[Len(file)]
        BY <1>2, <2>2, <4>1
      <4>3. QED
        BY <3>1, <3>3, <4>1, <4>2 DEF LastHash
    <3>4. QED
      BY <3>2, <3>3
  <2>3. QED
    BY <1>2, <2>1, <2>2
<1>5. LastHash(file)' = RecordHash(Seal(c))
  BY <1>2 DEF LastHash
<1>6. QED
  BY <1>3, <1>4, <1>5

\* A reload takes a whole chain and goes on from its end; a crash leaves it whole,
\* or a file that no reload accepts (log.rs:222-262).
LEMMA ChainKept == LogTypeOK /\ ChainInv /\ [LogNext]_logVars => ChainInv'
<1> SUFFICES ASSUME LogTypeOK, ChainInv, [LogNext]_logVars PROVE ChainInv'
  OBVIOUS
<1>s. setup' = setup
  BY DEF LogNext, logVars
<1> SUFFICES ASSUME Startup = "reload", "write_error" \notin SetupFaults
             PROVE  (/\ Parsable(file) => ChainVerifies(file)
                     /\ running => Parsable(file) /\ previous = LastHash(file))'
  BY <1>s DEF ChainInv, Startup, SetupFaults
<1>0. /\ Parsable(file) => ChainVerifies(file)
      /\ running => Parsable(file) /\ previous = LastHash(file)
      /\ Sink = "file"
  BY AuditAssumption DEF ChainInv, LogTypeOK, Sink, Startup
<1>1. ASSUME NEW c \in Caller, running, sealing[c] # NoRecord
      PROVE  /\ Written(Seal(c)) = Append(file, Seal(c)) /\ Cut = Append(file, Fragment)
  BY <1>0, <1>1, ParsedFile, SealIsEnvelope, FileGrows DEF LogTypeOK, Piece
<1>2. CASE Open
  BY <1>2 DEF Open
<1>3. CASE Reload
  BY <1>0, <1>3 DEF Reload, LastHash, Parsable, ChainVerifies
<1>4. ASSUME NEW c \in Caller, Begin(c) PROVE UNCHANGED <<file, running, previous>>
  BY <1>4 DEF Begin
<1>5. ASSUME NEW c \in Caller, Commit(c)
      PROVE  /\ Parsable(file)' /\ ChainVerifies(file)'
             /\ previous' = LastHash(file)'
  BY <1>0, <1>1, <1>5, ChainGrows DEF Commit, SinkAccepts
<1>6. ASSUME NEW c \in Caller, AppendFails(c) PROVE UNCHANGED <<file, running, previous>>
  BY <1>6 DEF AppendFails
<1>7. ASSUME NEW c \in Caller, ManifestFails(c) PROVE FALSE
  BY <1>0, <1>7 DEF ManifestFails
<1>8. ASSUME NEW c \in Caller, CrashInAppend(c)
      PROVE  ~running' /\ (Parsable(file)' => ChainVerifies(file)')
  <2>1. running /\ sealing[c] # NoRecord /\ ~running'
    BY <1>8 DEF CrashInAppend, SinkAccepts, Stop
  <2>2. CASE file' = Written(Seal(c))
    BY <1>0, <1>1, <2>1, <2>2, ChainGrows
  <2>3. CASE file' = Cut
    <3>1. file' = Append(file, Fragment) /\ file \in Seq(Piece) /\ Fragment \in Piece
      BY <1>1, <2>1, <2>3 DEF LogTypeOK, Piece, Debris
    <3>2. Len(file) + 1 \in DOMAIN file' /\ file'[Len(file) + 1] = Fragment
      BY <3>1, AppendKeeps
    <3>3. ~Parsable(file)'
      BY <3>2 DEF Parsable, Debris
    <3>4. QED
      BY <2>1, <3>3
  <2>4. QED
    BY <1>8, <2>1, <2>2, <2>3 DEF CrashInAppend
<1>9. CASE Crash
  BY <1>0, <1>9 DEF Crash, Stop, Parsable, ChainVerifies
<1>10. ASSUME UNCHANGED <<file, running, previous>>
       PROVE  (/\ Parsable(file) => ChainVerifies(file)
               /\ running => Parsable(file) /\ previous = LastHash(file))'
  BY <1>0, <1>10 DEF Parsable, ChainVerifies, LastHash
<1>11. CASE UNCHANGED logVars
  BY <1>10, <1>11 DEF logVars
<1>12. QED
  BY <1>2, <1>3, <1>4, <1>5, <1>6, <1>7, <1>8, <1>9, <1>10, <1>11 DEF LogNext, Step

-----------------------------------------------------------------------------
(* What the sidecar vouches for.                                            *)

\* Nothing that can be read back is lost by an append, or by a longer length.
LEMMA ReadableKept ==
    ASSUME file \in Seq(Piece), NEW e \in Piece, file' = file \/ file' = Append(file, e),
           NEW n \in Int, NEW m \in Int, n <= m, NEW r, ReadableWithin(n, r)
    PROVE  ReadableWithin(m, r)'
<1>1. PICK k \in DOMAIN file : k <= n /\ file[k] \notin Debris /\ file[k].record = r
  BY DEF ReadableWithin
<1>2. k \in DOMAIN file' /\ file'[k] = file[k] /\ k \in Int
  BY AppendKeeps
<1>3. QED
  BY <1>1, <1>2 DEF ReadableWithin

\* The steps that write to a WORM file that the sink accepts (worm.rs:112).
LEMMA WormGrows ==
    ASSUME LogTypeOK, SealInv, Sink = "worm", SinkAccepts, NEW c \in Caller, sealing[c] # NoRecord
    PROVE  /\ ~EndsInFragment
           /\ Written(Seal(c)) = Append(file, Seal(c)) /\ Cut = Append(file, Fragment)
           /\ Grown(Seal(c)).byte_length = Len(file) + 1
           /\ state.byte_length = Len(file)
           /\ Seal(c) \in Piece /\ Fragment \in Piece /\ file \in Seq(Piece)
           /\ Len(Append(file, Seal(c))) = Len(file) + 1
           /\ Len(Append(file, Fragment)) = Len(file) + 1
           /\ Append(file, Seal(c))[Len(file) + 1] = Seal(c)
           /\ Append(file, Seal(c)) # <<>> /\ Len(file) + 1 \in DOMAIN Append(file, Seal(c))
           /\ Seal(c) # Fragment /\ Seal(c).record = sealing[c] /\ Seal(c) \notin Debris
<1>1. state.byte_length = Len(file) /\ running
  BY DEF SinkAccepts
<1>2. ~EndsInFragment
  BY <1>1 DEF SealInv, SidecarLags
<1>3. Seal(c) \in Piece /\ Fragment \in Piece /\ file \in Seq(Piece) /\ Seal(c) \notin Debris
  BY SealIsEnvelope DEF LogTypeOK, Piece, Debris
<1>4. Seal(c) # Fragment /\ Seal(c).record = sealing[c]
  BY <1>3 DEF Debris, Seal
<1>5. QED
  BY <1>1, <1>2, <1>3, <1>4, FileGrows, AppendKeeps DEF Grown

\* Every step of a log with a write-once sink leaves the sidecar behind the file,
\* and what was acknowledged within its length (worm.rs:59-127).
LEMMA SealKept == LogTypeOK /\ SealInv /\ [LogNext]_logVars => SealInv'
<1> SUFFICES ASSUME LogTypeOK, SealInv, [LogNext]_logVars PROVE SealInv'
  OBVIOUS
<1>s. setup' = setup
  BY DEF LogNext, logVars
<1> SUFFICES ASSUME Sink = "worm"
             PROVE  SidecarLags'
  BY <1>s DEF SealInv, Sink
<1>0. /\ \A r \in acked : ReadableWithin(manifest.byte_length, r)
      /\ manifest.byte_length <= Len(file)
      /\ manifest.byte_length = Len(file) => ~EndsInFragment
      /\ running /\ state.byte_length = Len(file) => ~EndsInFragment
      /\ file \in Seq(Piece) /\ Len(file) \in Nat
      /\ manifest.byte_length \in Int /\ state.byte_length \in Int
  BY LenProperties DEF SealInv, SidecarLags, LogTypeOK, Piece, Manifest
<1>1. CASE Open
  <2>1. OpeningState \in Manifest /\ WormOpens /\ UNCHANGED <<file, acked>>
        /\ manifest' = OpeningState /\ state' = OpeningState
    BY <1>1, OpeningTyped DEF Open
  <2>2. OpeningState.byte_length = Len(file) /\ manifest.byte_length <= Len(file)
    BY <1>0, <2>1 DEF OpeningState, WormOpens
  <2>3. ~EndsInFragment
    <3>1. CASE manifest = NoManifest
      BY <1>0, <2>1, <3>1, ParsedFile DEF WormOpens
    <3>2. CASE manifest # NoManifest
      BY <1>0, <2>1, <3>2 DEF WormOpens
    <3>3. QED
      BY <3>1, <3>2
  <2>4. \A r \in acked : ReadableWithin(Len(file), r)
    BY <1>0 DEF ReadableWithin
  <2>5. QED
    BY <1>0, <2>1, <2>2, <2>3, <2>4 DEF SidecarLags, ReadableWithin, EndsInFragment
<1>2. CASE Reload
  BY <1>2, AuditAssumption DEF Reload, LogTypeOK, Sink, Startup
<1>3. ASSUME NEW c \in Caller, Begin(c)
      PROVE  UNCHANGED <<acked, manifest, file, running, state>>
  BY <1>3 DEF Begin
<1>4. ASSUME NEW c \in Caller, Commit(c)
      PROVE  SidecarLags'
  <2>1. SinkAccepts /\ sealing[c] # NoRecord
    BY <1>4 DEF Commit
  <2>2. /\ file' = Append(file, Seal(c)) /\ Len(file') = Len(file) + 1
        /\ manifest'.byte_length = Len(file) + 1 /\ acked' = acked \cup {sealing[c]}
        /\ file'[Len(file) + 1] = Seal(c) /\ Len(file) + 1 \in DOMAIN file'
        /\ Seal(c) # Fragment /\ Seal(c) \notin Debris /\ Seal(c).record = sealing[c]
        /\ Seal(c) \in Piece
    BY <1>4, <2>1, WormGrows DEF Commit
  <2>3. \A r \in acked : ReadableWithin(manifest.byte_length, r)'
    BY <1>0, <2>2, ReadableKept
  <2>4. ASSUME NEW r, r = sealing[c] PROVE ReadableWithin(manifest.byte_length, r)'
    BY <1>0, <2>2, <2>4 DEF ReadableWithin
  <2>5. ~EndsInFragment'
    BY <2>2 DEF EndsInFragment
  <2>6. QED
    BY <1>0, <2>2, <2>3, <2>4, <2>5 DEF SidecarLags, ReadableWithin
<1>5. ASSUME NEW c \in Caller, sealing[c] # NoRecord, SinkAccepts,
             UNCHANGED <<acked, manifest>>,
             \/ file' = Append(file, Fragment) /\ (~running' \/ state' = state)
             \/ file' = Append(file, Seal(c))
      PROVE  SidecarLags'
  <2>1. \A r \in acked : ReadableWithin(manifest.byte_length, r)'
    BY <1>0, <1>5, WormGrows, ReadableKept
  <2>2. manifest.byte_length < Len(file') /\ Len(file') = Len(file) + 1
    BY <1>0, <1>5, WormGrows
  <2>3. (running /\ state.byte_length = Len(file) => ~EndsInFragment)'
    <3>1. CASE file' = Append(file, Fragment)
      BY <1>0, <1>5, <2>2, <3>1, WormGrows
    <3>2. CASE file' = Append(file, Seal(c))
      BY <1>5, <2>2, <3>2, WormGrows DEF EndsInFragment
    <3>3. QED
      BY <1>5, <3>1, <3>2
  <2>4. QED
    BY <1>0, <1>5, <2>1, <2>2, <2>3 DEF SidecarLags, ReadableWithin
<1>6. ASSUME UNCHANGED <<acked, manifest, file>>, running' => running /\ state' = state
      PROVE  SidecarLags'
  BY <1>0, <1>6 DEF SidecarLags, ReadableWithin, EndsInFragment
<1>7. ASSUME NEW c \in Caller, AppendFails(c) PROVE SidecarLags'
  <2>1. CASE file' = file
    BY <1>6, <1>7, <2>1 DEF AppendFails
  <2>2. CASE SinkAccepts /\ file' \in {Cut, Written(Seal(c))}
    BY <1>5, <1>7, <2>2, WormGrows DEF AppendFails
  <2>3. QED
    BY <1>7, <2>1, <2>2 DEF AppendFails
<1>8. ASSUME NEW c \in Caller, ManifestFails(c) PROVE SidecarLags'
  BY <1>5, <1>8, WormGrows DEF ManifestFails
<1>9. ASSUME NEW c \in Caller, CrashInAppend(c) PROVE SidecarLags'
  <2>1. SinkAccepts /\ sealing[c] # NoRecord /\ ~running' /\ UNCHANGED acked
    BY <1>9 DEF CrashInAppend, Stop
  <2>2. CASE file' \in {Cut, Written(Seal(c))} /\ UNCHANGED manifest
    BY <1>5, <2>1, <2>2, WormGrows
  <2>3. CASE file' = Written(Seal(c)) /\ manifest' = Grown(Seal(c))
    <3>1. /\ file' = Append(file, Seal(c)) /\ Len(file') = Len(file) + 1
          /\ manifest'.byte_length = Len(file) + 1
          /\ file'[Len(file) + 1] = Seal(c) /\ Seal(c) # Fragment /\ Seal(c) \in Piece
      BY <2>1, <2>3, WormGrows
    <3>2. \A r \in acked : ReadableWithin(manifest.byte_length, r)'
      BY <1>0, <3>1, ReadableKept
    <3>3. ~EndsInFragment'
      BY <3>1 DEF EndsInFragment
    <3>4. QED
      BY <1>0, <2>1, <3>1, <3>2, <3>3 DEF SidecarLags, ReadableWithin
  <2>4. QED
    BY <1>9, <2>2, <2>3 DEF CrashInAppend
<1>10. CASE Crash
  <2>1. UNCHANGED <<acked, manifest, file>> /\ ~running'
    BY <1>10 DEF Crash, Stop
  <2>2. QED
    BY <1>6, <2>1
<1>11. CASE UNCHANGED logVars
  BY <1>6, <1>11 DEF logVars
<1>12. QED
  BY <1>1, <1>2, <1>3, <1>4, <1>6, <1>7, <1>8, <1>9, <1>10, <1>11 DEF LogNext, Step

-----------------------------------------------------------------------------
(* The theorems.                                                            *)

\* The inductive invariant holds of every behaviour of the log
\* (log.rs:127-262, worm.rs:59-127).
THEOREM AlwaysSound == LogSpec => []IInv
<1>1. IInv /\ [LogNext]_logVars => IInv'
  BY TypeKept, ChainKept, SealKept DEF IInv
<1>2. QED
  BY InitSound, <1>1, PTL DEF LogSpec

\* The log, its sinks and its callers stay well typed (log.rs:127, worm.rs:14).
THEOREM LogTypeCorrect == LogSpec => []LogTypeOK
<1>1. IInv => LogTypeOK
  BY DEF IInv
<1>2. QED
  BY <1>1, AlwaysSound, PTL

\* Whatever stops a log that reloads its file, a file that the next reload accepts
\* is one chain from GENESIS (log.rs:168, 222).
THEOREM ReloadedChainVerifies == LogSpec => []FileChainVerifies
<1>1. IInv => FileChainVerifies
  BY DEF IInv, ChainInv, FileChainVerifies
<1>2. QED
  BY <1>1, AlwaysSound, PTL

\* A truncation of a WORM file that loses an acknowledged record is noticed,
\* whatever failed or stopped before (worm.rs:59, 112, 127).
THEOREM AcknowledgedAreVouchedFor == LogSpec => []AcknowledgedIsSealed
<1>1. IInv => AcknowledgedIsSealed
  BY DEF IInv, SealInv, SidecarLags, AcknowledgedIsSealed
<1>2. QED
  BY <1>1, AlwaysSound, PTL
=============================================================================

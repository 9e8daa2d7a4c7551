------------------------- MODULE ExchangeNodeProofs --------------------------
(***************************************************************************)
(* An exchange node, for every set of requests, instances, subjects and    *)
(* labels, stores and journals of any length: who is answered, what is     *)
(* stored, who opens a release, and what a client that pages has seen.     *)
(* They rest on what a label keeps in JSON and in a package, and on the    *)
(* loops that order the store and cut its pages, which are proved first.   *)
(***************************************************************************)
EXTENDS ExchangeNode, BrokerStateProofs

-----------------------------------------------------------------------------
(* What a label's JSON keeps of it, whatever the label: enough for every   *)
(* decision of the policy decision point, so that a package that has been  *)
(* through a ZIP is opened by exactly those who may read its payload under *)
(* the label it was made with, and verifies for exactly that payload       *)
(* (crates/mim-stanag4774/src/json.rs, crates/mim-ztdf/src).               *)

\* What validation and the decision point look at is written to JSON and read back.
LEMMA JsonKeepsFields ==
    ASSUME NEW l
    PROVE  LET r == FromJson(ToJson(l))
           IN  /\ r.classification = l.classification
               /\ r.categories = l.categories
               /\ r.policy = AnyLevelOf(l.policy.identifier, None)
BY DEF ToJson, FromJson, NewLabel

\* JSON leaves out the colour, the marking, the alternatives and the policy's object
\* identifier; whatever it leaves out, the policy decision point sees the same
\* resource (json.rs, pip.rs).
THEOREM JsonKeepsResource ==
    ASSUME NEW l
    PROVE  Resource(FromJson(ToJson(l))) = Resource(l)
BY JsonKeepsFields DEF Resource, ReleasableCountries, RestrictiveValues

\* A valid label of a classification level comes back valid: the policy that is read
\* allows every level (json.rs, policy.rs).
THEOREM JsonKeepsValidity ==
    ASSUME NEW l, IsValid(l), l.classification \in Level
    PROVE  IsValid(FromJson(ToJson(l)))
<1>1. AnyLevelOf(l.policy.identifier, None).identifier = l.policy.identifier
      /\ AnyLevelOf(l.policy.identifier, None).levels = Level
  BY DEF AnyLevelOf
<1> QED BY <1>1, JsonKeepsFields DEF IsValid

\* So does one that the SPIF policies accept.
LEMMA JsonKeepsSpif ==
    ASSUME NEW l, SpifValid(l), l.classification \in Level
    PROVE  SpifValid(FromJson(ToJson(l)))
<1>1. IsValid(FromJson(ToJson(l)))
  BY JsonKeepsValidity DEF SpifValid
<1>2. AnyLevelOf(l.policy.identifier, None).identifier = l.policy.identifier
  BY DEF AnyLevelOf
<1> QED BY <1>1, <1>2, JsonKeepsFields DEF SpifValid, SpifRequires

-----------------------------------------------------------------------------
(* Packages.                                                                *)

\* A manifest that create has written has one assertion, which is the label's.
LEMMA ManifestOfCreated ==
    ASSUME NEW l, NEW plaintext, NEW cek, NEW signer, NEW kas
    PROVE  LET m == ZtdfManifest(l, plaintext, cek, signer, kas)
           IN  /\ NatoLabels(m) = {1}
               /\ NatoLabelAssertion(m) = ManifestAssertion(l, plaintext, signer)
               /\ ManifestLabel(m) = FromJson(ToJson(l))
<1> DEFINE m == ZtdfManifest(l, plaintext, cek, signer, kas)
           a == ManifestAssertion(l, plaintext, signer)
<1>1. m.assertions = <<a>> /\ a.id = "nato-label-1" /\ a.statement = ToJson(l)
  BY DEF ZtdfManifest, ManifestAssertion
<1>2. NatoLabels(m) = {1}
  BY <1>1 DEF NatoLabels
<1>3. Min({1}) = 1
  BY DEF Min
<1>4. NatoLabelAssertion(m) = a
  BY <1>1, <1>2, <1>3 DEF NatoLabelAssertion
<1> QED BY <1>1, <1>2, <1>4 DEF ManifestLabel

\* A package that has been through a ZIP is opened, with the key, by exactly those
\* subjects that may read an object under the label the package was made with
\* (package.rs: from_zip_sealed, decrypt_with_policy).
THEOREM SealedOpensForReaders ==
    ASSUME NEW l, NEW plaintext, NEW cek, NEW signer, NEW kas, NEW s, NEW d,
           IsValid(l), l.classification \in Level
    PROVE  MayDecrypt(Sealed(Zipped(CreatedPackage(l, plaintext, cek, signer, kas))), s, d)
              <=> MayAccess(s, Resource(l), d)
<1> DEFINE m == ZtdfManifest(l, plaintext, cek, signer, kas)
           p == Sealed(Zipped(CreatedPackage(l, plaintext, cek, signer, kas)))
<1>1. p.manifest = m
  BY DEF Sealed, Zipped, CreatedPackage, ZtdfPackage
<1>2. HasManifestLabel(m) /\ Resource(ManifestLabel(m)) = Resource(l)
  BY ManifestOfCreated, JsonKeepsValidity, JsonKeepsResource DEF HasManifestLabel
<1> QED BY <1>1, <1>2 DEF MayDecrypt

\* The release verifies for its payload under its signer's key, and for no other
\* payload and no other key, although the sealed package has no digest of its own
\* (package.rs: verify_release, verify_binding_plaintext; assertion.rs).
THEOREM SealedHoldsItsPayload ==
    ASSUME NEW l, NEW plaintext, NEW cek, NEW signer, NEW kas, NEW q, NEW key,
           CanPackage(l), l.classification \in Level
    PROVE  ReleaseVerifies(Sealed(Zipped(CreatedPackage(l, plaintext, cek, signer, kas))), q, key)
              <=> q = plaintext /\ key = signer
<1> DEFINE m == ZtdfManifest(l, plaintext, cek, signer, kas)
           p == Sealed(Zipped(CreatedPackage(l, plaintext, cek, signer, kas)))
           a == AssertionOfManifest(m, Digest(q))
<1>1. p.manifest = m /\ ~(p.binding.assertion.digest # NoDigest)
  BY DEF Sealed, Zipped, CreatedPackage, ZtdfPackage, BindingDataObject, AssertionOfManifest
<1>2. ManifestIsValid(m)
  BY ManifestOfCreated DEF ManifestIsValid, ZtdfManifest, ManifestAssertion
<1>3. HasManifestLabel(m) /\ SpifValid(ManifestLabel(m))
  BY ManifestOfCreated, JsonKeepsValidity, JsonKeepsSpif
     DEF HasManifestLabel, CanPackage, CanAssert
<1>4. /\ a.label = ManifestLabel(m) /\ a.digest = Digest(q) /\ a.key_id = signer
      /\ a.signed = ToXml(l)
      /\ a.signature = SignNmbBinding(signer, ToXml(l), Digest(plaintext))
  BY ManifestOfCreated DEF AssertionOfManifest, ManifestAssertion, Assertion
<1>5. AssertionVerifies(a, q, key) <=> q = plaintext /\ key = signer
  BY <1>3, <1>4 DEF AssertionVerifies, VerifyNmbBinding, SignNmbBinding, Digest
<1>6. BindingVerifies(p, q, key) <=> HasManifestLabel(m) /\ AssertionVerifies(a, q, key)
  BY <1>1 DEF BindingVerifies
<1> QED BY <1>1, <1>2, <1>3, <1>5, <1>6 DEF ReleaseVerifies

-----------------------------------------------------------------------------
(* Loops.                                                                   *)

\* What holds before a loop and after each of its turns holds throughout.
LEMMA Throughout ==
    ASSUME NEW N \in Nat, NEW S, NEW t, t[0] \in S,
           \A k \in 1..N : t[k - 1] \in S => t[k] \in S
    PROVE  \A k \in 0..N : t[k] \in S
<1> DEFINE G == {k \in 0..N : t[k] \in S}
<1>1. 0 \in G /\ \A k \in 1..N : k - 1 \in G => k \in G
  OBVIOUS
<1> HIDE DEF G
<1>2. 0..N \subseteq G
  BY <1>1, UpTo
<1>3. QED
  BY <1>2 DEF G

\* A turn of a loop that keeps what is in S.
Keep(before, x, S) == IF x \in S THEN Append(before, x) ELSE before

\* The loop of a filter is what its turns make it (broker.rs, secured.rs).
LEMMA KeptTurns ==
    ASSUME NEW X, NEW s \in Seq(X), NEW S
    PROVE  /\ Len(s) \in Nat /\ DOMAIN s = 1..Len(s)
           /\ Kept(s, S)[0] = <<>>
           /\ \A k \in 1..Len(s) : Kept(s, S)[k] = Keep(Kept(s, S)[k - 1], s[k], S)
           /\ \A k \in 0..Len(s) : Kept(s, S)[k] \in Seq(X)
<1> DEFINE N == Len(s)
           Q == Seq(X)
           a == <<>>
           F == [k \in 1..N |-> [r \in Q |-> Keep(r, s[k], S)]]
           Loop(t) == t = [k \in 0..N |-> IF k = 0 THEN a
                                          ELSE LET before == t[k - 1]
                                               IN  IF s[k] \in S THEN Append(before, s[k])
                                                                 ELSE before]
<1>1. N \in Nat /\ DOMAIN s = 1..N /\ \A k \in 1..N : s[k] \in X
  OBVIOUS
<1>2. a \in Q
  OBVIOUS
<1>3. \A k \in 1..N : \A r \in Q : Keep(r, s[k], S) \in Q
  BY <1>1 DEF Keep
<1> HIDE DEF Q
<1>4. PICK r \in [0..N -> Q] : r[0] = a /\ \A k \in 1..N : r[k] = F[k][r[k - 1]]
  <2>1. F \in [1..N -> [Q -> Q]] /\ N \in Nat
    BY <1>1, <1>3
  <2>2. ASSUME NEW M \in Nat, NEW G \in [1..M -> [Q -> Q]], NEW x \in Q
        PROVE  \E r \in [0..M -> Q] : r[0] = x /\ \A k \in 1..M : r[k] = G[k][r[k - 1]]
    BY LoopExists
  <2> HIDE DEF N, F, a
  <2>3. QED
    BY <1>2, <2>1, <2>2
<1>5. \A k \in 1..N : r[k] = Keep(r[k - 1], s[k], S)
  <2>1. \A k \in 1..N : r[k - 1] \in Q
    BY <1>1, <1>4
  <2>2. QED
    BY <1>4, <2>1
<1>6. Loop(r)
  <2> HIDE DEF a
  <2>1. \A k \in 0..N : r[k] = IF k = 0 THEN a ELSE Keep(r[k - 1], s[k], S)
    BY <1>1, <1>4, <1>5
  <2> HIDE DEF N
  <2>2. QED
    BY <1>4, <2>1 DEF Keep
<1>7. Loop(Kept(s, S))
  BY <1>6 DEF Kept
<1> HIDE DEF F
<1>8. ASSUME NEW t, Loop(t)
      PROVE  t[0] = a /\ \A k \in 1..N : t[k] = Keep(t[k - 1], s[k], S)
  <2> HIDE DEF a
  <2>1. t[0] = a
    BY <1>1, <1>8
  <2>2. ASSUME NEW k \in 1..N PROVE t[k] = Keep(t[k - 1], s[k], S)
    <3>1. k \in 0..N /\ k # 0
      BY <1>1
    <3> HIDE DEF N
    <3>2. QED
      BY <1>8, <3>1 DEF Keep
  <2>3. QED
    BY <2>1, <2>2
<1>9. /\ Kept(s, S)[0] = a
      /\ \A k \in 1..N : Kept(s, S)[k] = Keep(Kept(s, S)[k - 1], s[k], S)
  <2> HIDE DEF Loop, a
  <2>1. QED
    BY <1>7, <1>8
<1>10. \A k \in 0..N : Kept(s, S)[k] \in Q
  <2> HIDE DEF N, a
  <2>1. \A k \in 1..N : Kept(s, S)[k - 1] \in Q => Kept(s, S)[k] \in Q
    BY <1>3, <1>9
  <2>2. QED
    BY <1>1, <1>2, <1>9, <2>1, Throughout
<1> QED
  BY <1>1, <1>9, <1>10 DEF Q

LEMMA ToSetAppend ==
    ASSUME NEW X, NEW q \in Seq(X), NEW x \in X
    PROVE  ToSet(Append(q, x)) = ToSet(q) \cup {x}
<1> DEFINE n == Len(q)
           r == Append(q, x)
<1>1. /\ n \in Nat /\ DOMAIN q = 1..n /\ DOMAIN r = 1..(n + 1)
      /\ \A k \in 1..n : r[k] = q[k]
      /\ r[n + 1] = x
  OBVIOUS
<1> HIDE DEF n, r
<1>2. DOMAIN r = DOMAIN q \cup {n + 1}
  BY <1>1
<1>3. QED
  BY <1>1, <1>2 DEF ToSet, r

\* It keeps what it is asked to keep, and nothing else.
LEMMA KeptElements ==
    ASSUME NEW X, NEW s \in Seq(X), NEW S
    PROVE  \A k \in 0..Len(s) : ToSet(Kept(s, S)[k]) = {s[j] : j \in 1..k} \cap S
<1> DEFINE N == Len(s)
           K == Kept(s, S)
           G == {k \in 0..N : ToSet(K[k]) = {s[j] : j \in 1..k} \cap S}
<1>1. /\ N \in Nat /\ K[0] = <<>>
      /\ \A k \in 1..N : K[k] = Keep(K[k - 1], s[k], S)
      /\ \A k \in 0..N : K[k] \in Seq(X)
      /\ \A k \in 1..N : s[k] \in X
  BY KeptTurns
<1> HIDE DEF N, K
<1>2. 0 \in G
  BY <1>1 DEF ToSet
<1>3. ASSUME NEW k \in 1..N, k - 1 \in G PROVE k \in G
  <2>1. k - 1 \in 0..N /\ k \in 0..N /\ (1..k) = (1..(k - 1)) \cup {k}
    BY <1>1
  <2>2. PICK q : q = K[k - 1]
    OBVIOUS
  <2>3. q \in Seq(X) /\ ToSet(q) = {s[j] : j \in 1..(k - 1)} \cap S /\ s[k] \in X
    BY <1>1, <1>3, <2>1, <2>2
  <2>4. {s[j] : j \in 1..k} = {s[j] : j \in 1..(k - 1)} \cup {s[k]}
    BY <2>1
  <2>5. K[k] = Keep(q, s[k], S)
    BY <1>1, <2>2
  <2>6. CASE s[k] \in S
    <3>1. ToSet(Append(q, s[k])) = ToSet(q) \cup {s[k]}
      BY <2>3, ToSetAppend
    <3>2. K[k] = Append(q, s[k])
      BY <2>5, <2>6 DEF Keep
    <3>3. QED
      BY <2>1, <2>3, <2>4, <2>6, <3>1, <3>2
  <2>7. CASE s[k] \notin S
    BY <2>1, <2>3, <2>4, <2>5, <2>7 DEF Keep
  <2>8. QED
    BY <2>6, <2>7
<1> HIDE DEF G
<1>4. 0..N \subseteq G
  BY <1>1, <1>2, <1>3, UpTo
<1>5. QED
  BY <1>4 DEF G, N, K

LEMMA OnlyElements ==
    ASSUME NEW X, NEW s \in Seq(X), NEW S
    PROVE  Only(s, S) \in Seq(X) /\ ToSet(Only(s, S)) = ToSet(s) \cap S
<1>1. Len(s) \in Nat /\ DOMAIN s = 1..Len(s) /\ Len(s) \in 0..Len(s)
  OBVIOUS
<1>2. /\ Kept(s, S)[Len(s)] \in Seq(X)
      /\ ToSet(Kept(s, S)[Len(s)]) = {s[j] : j \in 1..Len(s)} \cap S
  <2>1. \A k \in 0..Len(s) : Kept(s, S)[k] \in Seq(X)
    BY KeptTurns
  <2>2. \A k \in 0..Len(s) : ToSet(Kept(s, S)[k]) = {s[j] : j \in 1..k} \cap S
    BY KeptElements
  <2>3. QED
    BY <1>1, <2>1, <2>2
<1>3. ToSet(s) = {s[j] : j \in 1..Len(s)}
  BY <1>1 DEF ToSet
<1>4. QED
  BY <1>2, <1>3 DEF Only

\* What has been kept stays where it is.
LEMMA KeptStays ==
    ASSUME NEW X, NEW s \in Seq(X), NEW S, NEW k \in 1..Len(s), s[k] \in S
    PROVE  LET p == Len(Kept(s, S)[k])
           IN  p \in DOMAIN Only(s, S) /\ Only(s, S)[p] = s[k]
<1> DEFINE N == Len(s)
           K == Kept(s, S)
           p == Len(K[k])
           Holds(q) == p \in 1..Len(q) /\ q[p] = s[k]
           G == {j \in 0..N : j >= k => Holds(K[j])}
<1>1. /\ N \in Nat /\ k \in 1..N
      /\ \A j \in 1..N : K[j] = Keep(K[j - 1], s[j], S)
      /\ \A j \in 0..N : K[j] \in Seq(X)
      /\ \A j \in 1..N : s[j] \in X
  BY KeptTurns
<1> HIDE DEF N, K
<1>2. k - 1 \in 0..N /\ k \in 0..N /\ 0 \in 0..N
  BY <1>1
<1>3. Holds(K[k])
  <2>1. PICK q : q = K[k - 1]
    OBVIOUS
  <2>2. q \in Seq(X) /\ K[k] = Append(q, s[k]) /\ s[k] \in X
    BY <1>1, <1>2, <2>1 DEF Keep
  <2>3. QED
    BY <2>2
<1>4. p \in Nat
  BY <1>1, <1>2
<1> HIDE DEF p
<1>5. 0 \in G
  BY <1>1, <1>2
<1>6. ASSUME NEW j \in 1..N, j - 1 \in G PROVE j \in G
  <2>1. j \in 0..N /\ j - 1 \in 0..N
    BY <1>1
  <2>2. CASE j = k
    BY <1>3, <2>1, <2>2
  <2>3. CASE j < k
    BY <1>1, <2>1, <2>3
  <2>4. CASE j > k
    <3>1. PICK q : q = K[j - 1]
      OBVIOUS
    <3>2. j - 1 >= k
      BY <1>1, <2>1, <2>4
    <3>3. q \in Seq(X) /\ Holds(q) /\ K[j] = Keep(q, s[j], S) /\ s[j] \in X
      BY <1>1, <1>6, <2>1, <3>1, <3>2
    <3>4. Holds(Append(q, s[j]))
      BY <1>4, <3>3
    <3>5. Holds(K[j])
      <4> HIDE DEF Holds
      <4>1. QED
        BY <3>3, <3>4 DEF Keep
    <3>6. QED
      BY <2>1, <3>5
  <2>5. QED
    BY <1>1, <2>1, <2>2, <2>3, <2>4
<1> HIDE DEF G
<1>7. 0..N \subseteq G
  BY <1>1, <1>5, <1>6, UpTo
<1>8. Holds(K[N]) /\ K[N] \in Seq(X)
  BY <1>1, <1>7 DEF G
<1>9. K[N] = Only(s, S)
  BY DEF K, N, Only
<1>10. QED
  BY <1>8, <1>9 DEF p, K

\* A longer list that keeps at least as much moves nothing forward.
LEMMA KeptGrows ==
    ASSUME NEW X, NEW s \in Seq(X), NEW t \in Seq(X), NEW S, NEW T,
           Len(s) <= Len(t),
           \A k \in 1..Len(s) : t[k] = s[k] /\ (s[k] \in S => s[k] \in T)
    PROVE  \A k \in 0..Len(s) : Len(Kept(s, S)[k]) <= Len(Kept(t, T)[k])
<1> DEFINE N == Len(s)
           K == Kept(s, S)
           L == Kept(t, T)
           G == {k \in 0..N : Len(K[k]) <= Len(L[k])}
<1>1. /\ N \in Nat /\ K[0] = <<>>
      /\ \A k \in 1..N : K[k] = Keep(K[k - 1], s[k], S)
      /\ \A k \in 0..N : K[k] \in Seq(X)
      /\ \A k \in 1..N : s[k] \in X
  BY KeptTurns
<1>2. /\ L[0] = <<>>
      /\ \A k \in 1..N : L[k] = Keep(L[k - 1], s[k], T)
      /\ \A k \in 0..N : L[k] \in Seq(X)
  <2>1. /\ Len(t) \in Nat /\ L[0] = <<>>
        /\ \A k \in 1..Len(t) : L[k] = Keep(L[k - 1], t[k], T)
        /\ \A k \in 0..Len(t) : L[k] \in Seq(X)
    BY KeptTurns
  <2>2. 1..N \subseteq 1..Len(t) /\ 0..N \subseteq 0..Len(t)
    BY <1>1, <2>1
  <2> HIDE DEF L
  <2>3. QED
    BY <2>1, <2>2
<1>3. \A k \in 1..N : s[k] \in S => s[k] \in T
  OBVIOUS
<1> HIDE DEF N, K, L
<1>4. 0 \in G
  BY <1>1, <1>2
<1>5. ASSUME NEW k \in 1..N, k - 1 \in G PROVE k \in G
  <2>1. k - 1 \in 0..N /\ k \in 0..N
    BY <1>1
  <2>2. PICK q : q = K[k - 1]
    OBVIOUS
  <2>3. PICK r : r = L[k - 1]
    OBVIOUS
  <2>4. PICK x : x = s[k]
    OBVIOUS
  <2>5. /\ q \in Seq(X) /\ r \in Seq(X) /\ x \in X /\ Len(q) <= Len(r)
        /\ K[k] = Keep(q, x, S) /\ L[k] = Keep(r, x, T) /\ (x \in S => x \in T)
    BY <1>1, <1>2, <1>3, <1>5, <2>1, <2>2, <2>3, <2>4
  <2>6. /\ Len(Append(q, x)) = Len(q) + 1 /\ Len(Append(r, x)) = Len(r) + 1
        /\ Len(q) \in Nat /\ Len(r) \in Nat
    BY <2>5
  <2>7. Len(Keep(q, x, S)) <= Len(Keep(r, x, T))
    BY <2>5, <2>6 DEF Keep
  <2>8. QED
    BY <2>1, <2>5, <2>7
<1> HIDE DEF G
<1>6. 0..N \subseteq G
  BY <1>1, <1>4, <1>5, UpTo
<1>7. QED
  BY <1>6 DEF G, N, K, L

\* A turn of the loop that orders the store.
Placed(before, o) == IF o \in ToSet(before) THEN before ELSE Append(before, o)

\* The order of the store is what the entries of the journal make it (broker.rs).
LEMMA OrderingTurns ==
    ASSUME NEW b \in Broker
    PROVE  /\ Len(b.journal) \in Nat /\ DOMAIN b.journal = 1..Len(b.journal)
           /\ Ordering(b)[0] = <<>>
           /\ \A k \in 1..Len(b.journal) :
                 Ordering(b)[k] = Placed(Ordering(b)[k - 1], b.journal[k].oid)
           /\ \A k \in 0..Len(b.journal) : Ordering(b)[k] \in Seq(Oid)
<1> DEFINE N == Len(b.journal)
           Q == Seq(Oid)
           a == <<>>
           F == [k \in 1..N |-> [r \in Q |-> Placed(r, b.journal[k].oid)]]
           Loop(t) == t = [k \in 0..N |-> IF k = 0 THEN a
                                          ELSE LET before == t[k - 1]
                                                   o      == b.journal[k].oid
                                               IN  IF o \in ToSet(before) THEN before
                                                                          ELSE Append(before, o)]
<1>1. N \in Nat /\ DOMAIN b.journal = 1..N
  BY DEF Broker
<1>2. a \in Q
  OBVIOUS
<1>3. \A k \in 1..N : \A r \in Q : Placed(r, b.journal[k].oid) \in Q
  <2>1. \A k \in 1..N : b.journal[k].oid \in Oid
    BY <1>1, EntryFields
  <2>2. QED
    BY <2>1 DEF Placed
<1> HIDE DEF Q
<1>4. PICK r \in [0..N -> Q] : r[0] = a /\ \A k \in 1..N : r[k] = F[k][r[k - 1]]
  <2>1. F \in [1..N -> [Q -> Q]] /\ N \in Nat
    BY <1>1, <1>3
  <2>2. ASSUME NEW M \in Nat, NEW G \in [1..M -> [Q -> Q]], NEW x \in Q
        PROVE  \E r \in [0..M -> Q] : r[0] = x /\ \A k \in 1..M : r[k] = G[k][r[k - 1]]
    BY LoopExists
  <2> HIDE DEF N, F, a
  <2>3. QED
    BY <1>2, <2>1, <2>2
<1>5. \A k \in 1..N : r[k] = Placed(r[k - 1], b.journal[k].oid)
  <2>1. \A k \in 1..N : r[k - 1] \in Q
    BY <1>1, <1>4
  <2>2. QED
    BY <1>4, <2>1
<1>6. Loop(r)
  <2> HIDE DEF a
  <2>1. \A k \in 0..N : r[k] = IF k = 0 THEN a ELSE Placed(r[k - 1], b.journal[k].oid)
    BY <1>1, <1>4, <1>5
  <2> HIDE DEF N
  <2>2. QED
    BY <1>4, <2>1 DEF Placed
<1>7. Loop(Ordering(b))
  BY <1>6 DEF Ordering
<1> HIDE DEF F
<1>8. ASSUME NEW t, Loop(t)
      PROVE  t[0] = a /\ \A k \in 1..N : t[k] = Placed(t[k - 1], b.journal[k].oid)
  <2> HIDE DEF a
  <2>1. t[0] = a
    BY <1>1, <1>8
  <2>2. ASSUME NEW k \in 1..N PROVE t[k] = Placed(t[k - 1], b.journal[k].oid)
    <3>1. k \in 0..N /\ k # 0
      BY <1>1
    <3> HIDE DEF N
    <3>2. QED
      BY <1>8, <3>1 DEF Placed
  <2>3. QED
    BY <2>1, <2>2
<1>9. /\ Ordering(b)[0] = a
      /\ \A k \in 1..N : Ordering(b)[k] = Placed(Ordering(b)[k - 1], b.journal[k].oid)
  <2> HIDE DEF Loop, a
  <2>1. QED
    BY <1>7, <1>8
<1>10. \A k \in 0..N : Ordering(b)[k] \in Q
  <2> HIDE DEF N, a
  <2>1. \A k \in 1..N : Ordering(b)[k - 1] \in Q => Ordering(b)[k] \in Q
    BY <1>3, <1>9
  <2>2. QED
    BY <1>1, <1>2, <1>9, <2>1, Throughout
<1> QED
  BY <1>1, <1>9, <1>10 DEF Q

LEMMA StoredOrderType ==
    ASSUME NEW b \in Broker
    PROVE  StoredOrder(b) \in Seq(Oid)
<1>1. /\ Len(b.journal) \in Nat
      /\ \A k \in 0..Len(b.journal) : Ordering(b)[k] \in Seq(Oid)
  BY OrderingTurns
<1>2. Len(b.journal) \in 0..Len(b.journal)
  BY <1>1
<1>3. QED
  BY <1>1, <1>2 DEF StoredOrder

\* An entry of the journal leaves the order as it is, or adds its object in the
\* end (broker.rs:192, 289).
LEMMA OrderGrows ==
    ASSUME NEW b \in Broker, NEW c \in Broker, NEW e \in Entry,
           c.journal = Append(b.journal, e)
    PROVE  StoredOrder(c) = Placed(StoredOrder(b), e.oid)
<1> DEFINE N == Len(b.journal)
           B == Ordering(b)
           C == Ordering(c)
           G == {k \in 0..N : C[k] = B[k]}
<1>1. /\ N \in Nat /\ B[0] = <<>>
      /\ \A k \in 1..N : B[k] = Placed(B[k - 1], b.journal[k].oid)
  BY OrderingTurns
<1>2. /\ Len(c.journal) = N + 1 /\ c.journal[N + 1] = e
      /\ \A k \in 1..N : c.journal[k] = b.journal[k]
  BY DEF Broker
<1>3. /\ C[0] = <<>>
      /\ \A k \in 1..(N + 1) : C[k] = Placed(C[k - 1], c.journal[k].oid)
  <2>1. \A k \in 1..Len(c.journal) : C[k] = Placed(C[k - 1], c.journal[k].oid)
    BY OrderingTurns
  <2>2. C[0] = <<>>
    BY OrderingTurns
  <2> HIDE DEF C
  <2>3. QED
    BY <1>2, <2>1, <2>2
<1> HIDE DEF N, B, C
<1>4. 0 \in G
  BY <1>1, <1>3
<1>5. ASSUME NEW k \in 1..N, k - 1 \in G PROVE k \in G
  <2>1. k \in 0..N /\ k \in 1..(N + 1)
    BY <1>1
  <2>2. QED
    BY <1>1, <1>2, <1>3, <1>5, <2>1
<1> HIDE DEF G
<1>6. 0..N \subseteq G
  BY <1>1, <1>4, <1>5, UpTo
<1>7. C[N] = B[N]
  BY <1>1, <1>6 DEF G
<1>8. C[N + 1] = Placed(C[N], e.oid)
  <2>1. N + 1 \in 1..(N + 1) /\ (N + 1) - 1 = N
    BY <1>1
  <2>2. C[N + 1] = Placed(C[(N + 1) - 1], c.journal[N + 1].oid)
    BY <1>3, <2>1
  <2>3. QED
    BY <1>2, <2>1, <2>2
<1>9. StoredOrder(c) = C[N + 1] /\ StoredOrder(b) = B[N]
  BY <1>2 DEF StoredOrder, C, B, N
<1>10. QED
  BY <1>7, <1>8, <1>9

-----------------------------------------------------------------------------
(* What is stored, and where it comes from.                                 *)

\* The sound brokers that store nothing but what is in W.
Holding(W) == {b \in Broker : SoundBroker(b) /\ \A o \in Stored(b) : b.store[o] \in W}

\* A put adds what it puts (broker.rs:192).
LEMMA PutHolds ==
    ASSUME NEW W, NEW b \in Holding(W), NEW i \in ValidInstance, i \in W
    PROVE  PutObject(b, i.oid, i) \in Holding(W)
<1>1. b \in Broker /\ SoundBroker(b) /\ \A o \in Stored(b) : b.store[o] \in W
  BY DEF Holding
<1>2. i \in Instance /\ i.oid \in Oid
  BY BrokerAssumption, NodeAssumption
<1>3. PICK o : o = i.oid
  OBVIOUS
<1>4. PICK c : c = PutObject(b, o, i)
  OBVIOUS
<1>5. SoundBroker(c) /\ c \in Broker
  BY <1>1, <1>2, <1>3, <1>4, PutSound DEF SoundBroker
<1>6. c.store = [b.store EXCEPT ![o] = i] /\ b.store \in [Oid -> Instance \cup {NoInstance}]
  BY <1>1, <1>2, <1>3, <1>4, PutFields DEF Broker
<1>7. \A x \in Stored(c) : c.store[x] \in W
  BY <1>1, <1>6 DEF Stored
<1>8. QED
  BY <1>3, <1>4, <1>5, <1>7 DEF Holding

\* A delete keeps the contents (broker.rs:289).
LEMMA DeleteHolds ==
    ASSUME NEW W, NEW b \in Holding(W), NEW o \in Stored(b)
    PROVE  DeleteObject(b, o) \in Holding(W)
<1>1. b \in Broker /\ SoundBroker(b) /\ \A x \in Stored(b) : b.store[x] \in W
  BY DEF Holding
<1>2. o \in Oid
  BY DEF Stored
<1>3. PICK c : c = DeleteObject(b, o)
  OBVIOUS
<1>4. SoundBroker(c) /\ c \in Broker
  BY <1>1, <1>3, DeleteSound DEF SoundBroker
<1>5. c.store = b.store
  BY <1>1, <1>2, <1>3, DeleteFields
<1>6. \A x \in Stored(c) : c.store[x] \in W
  BY <1>1, <1>5 DEF Stored
<1>7. QED
  BY <1>3, <1>4, <1>6 DEF Holding

\* What is not refused is valid (broker.rs:192, secured.rs).
LEMMA AcceptedIsValid ==
    ASSUME NEW b, NEW s, NEW i, WriteRefusal(b, s, i) = 201
    PROVE  i \in ValidInstance /\ Permits(s, i)
BY DEF WriteRefusal

\* The bulk load of the node's own instances adds some of them (broker.rs:315).
LEMMA PublishedHolds ==
    ASSUME NEW W, NEW b \in Holding(W), ToSet(Own) \subseteq W
    PROVE  Published(b)[Len(Own)] \in Holding(W)
<1> DEFINE N == Len(Own)
           Q == Holding(W)
           stored == {k \in DOMAIN Own :
                         \A j \in 1..k : WriteRefusal(b, NodeSubject, Own[j]) = 201}
           Turn(before, k) == IF k \in stored THEN PutObject(before, Own[k].oid, Own[k])
                                              ELSE before
           F == [k \in 1..N |-> [r \in Q |-> Turn(r, k)]]
           Loop(t) == t = [k \in 0..N |-> IF k = 0 THEN b
                                          ELSE LET before == t[k - 1]
                                               IN  IF k \in stored
                                                   THEN PutObject(before, Own[k].oid, Own[k])
                                                   ELSE before]
<1>1. N \in Nat /\ DOMAIN Own = 1..N
  BY NodeAssumption
<1>2. \A k \in stored : Own[k] \in ValidInstance /\ Own[k] \in W
  <2>1. ASSUME NEW k \in stored PROVE Own[k] \in ValidInstance /\ Own[k] \in W
    <3>1. k \in 1..k /\ k \in DOMAIN Own
      BY <1>1
    <3>2. WriteRefusal(b, NodeSubject, Own[k]) = 201
      BY <3>1
    <3>3. Own[k] \in ToSet(Own)
      BY <3>1 DEF ToSet
    <3>4. QED
      BY <3>2, <3>3, AcceptedIsValid
  <2>2. QED
    BY <2>1
<1> HIDE DEF stored
<1>3. \A k \in 1..N : \A r \in Q : Turn(r, k) \in Q
  BY <1>2, PutHolds
<1>4. b \in Q
  OBVIOUS
<1> HIDE DEF Q
<1>5. PICK r \in [0..N -> Q] : r[0] = b /\ \A k \in 1..N : r[k] = F[k][r[k - 1]]
  <2>1. F \in [1..N -> [Q -> Q]] /\ N \in Nat
    <3> HIDE DEF Turn
    <3>1. QED
      BY <1>1, <1>3
  <2>2. ASSUME NEW M \in Nat, NEW G \in [1..M -> [Q -> Q]], NEW x \in Q
        PROVE  \E r \in [0..M -> Q] : r[0] = x /\ \A k \in 1..M : r[k] = G[k][r[k - 1]]
    BY LoopExists
  <2> HIDE DEF N, F
  <2>3. QED
    BY <1>4, <2>1, <2>2
<1>6. \A k \in 1..N : r[k] = Turn(r[k - 1], k)
  <2> HIDE DEF Turn
  <2>1. \A k \in 1..N : r[k - 1] \in Q
    BY <1>1, <1>5
  <2>2. QED
    BY <1>5, <2>1
<1>7. Loop(r)
  <2>1. \A k \in 0..N : r[k] = IF k = 0 THEN b ELSE Turn(r[k - 1], k)
    <3> HIDE DEF Turn
    <3>1. QED
      BY <1>1, <1>5, <1>6
  <2> HIDE DEF N
  <2>2. QED
    BY <1>5, <2>1
<1>8. Loop(Published(b))
  BY <1>7 DEF Published, stored
<1> HIDE DEF F
<1>9. ASSUME NEW t, Loop(t)
      PROVE  t[0] = b /\ \A k \in 1..N : t[k] = Turn(t[k - 1], k)
  <2>1. t[0] = b
    BY <1>1, <1>9
  <2>2. ASSUME NEW k \in 1..N PROVE t[k] = Turn(t[k - 1], k)
    <3>1. k \in 0..N /\ k # 0
      BY <1>1
    <3> HIDE DEF N
    <3>2. QED
      BY <1>9, <3>1
  <2>3. QED
    BY <2>1, <2>2
<1>10. /\ Published(b)[0] = b
       /\ \A k \in 1..N : Published(b)[k] = Turn(Published(b)[k - 1], k)
  <2> HIDE DEF Loop, Turn
  <2>1. QED
    BY <1>8, <1>9
<1>11. \A k \in 0..N : Published(b)[k] \in Q
  <2> HIDE DEF N, Turn
  <2>1. \A k \in 1..N : Published(b)[k - 1] \in Q => Published(b)[k] \in Q
    BY <1>3, <1>10
  <2>2. QED
    BY <1>1, <1>4, <1>10, <2>1, Throughout
<1>12. N \in 0..N
  BY <1>1
<1>13. QED
  BY <1>11, <1>12 DEF Q

\* What is wrong with an envelope is never that it was stored (routes.rs).
LEMMA EnvelopeRefusals ==
    ASSUME NEW r
    PROVE  /\ EnvelopeRefusal(r) # 201
           /\ EnvelopeRefusal(r) = 0 =>
                 /\ r.envelope.assertion # NoAssertion
                 /\ r.envelope.assertion.key_id \in TrustedKey
                 /\ RestVerifies(r.envelope, r.envelope.assertion.key_id)
                 /\ IsFound(SubjectOf(r))
BY DEF EnvelopeRefusal, NotResolved

\* An envelope that verifies carries its signer's word for its payload
\* (rest_envelope.rs, assertion.rs).
LEMMA AcceptedIsSigned ==
    ASSUME NEW r \in PutRequest, EnvelopeRefusal(r) = 0
    PROVE  DeserializedInstance(r.envelope.payload) \in Signed
<1> DEFINE e == r.envelope
           a == e.assertion
<1>1. a # NoAssertion /\ a.key_id \in TrustedKey /\ RestVerifies(e, a.key_id)
  BY EnvelopeRefusals
<1>2. a.signature = SignNmbBinding(a.key_id, a.signed, e.payload)
  BY <1>1 DEF RestVerifies, AssertionVerifies, VerifyNmbBinding, Digest
<1>3. \E key \in TrustedKey : a.signature = SignNmbBinding(key, a.signed, e.payload)
  BY <1>1, <1>2
<1>4. QED
  BY <1>1, <1>3 DEF Signed

\* What a request does to the store: a trusted signer's put, a delete of what is
\* stored, or the node's own bulk load (routes.rs, secured.rs).
PutStep(r) ==
    LET i == DeserializedInstance(r.envelope.payload)
    IN  /\ EnvelopeRefusal(r) = 0
        /\ WriteRefusal(broker, SubjectOf(r).subject, i) = 201
        /\ i \in ValidInstance
        /\ broker' = PutObject(broker, i.oid, i)

DeleteStep(r) ==
    r.oid \in Stored(broker) /\ broker' = DeleteObject(broker, r.oid)

PublishStep == broker.journal = <<>> /\ broker' = Published(broker)[Len(Own)]

LEMMA PutSteps ==
    ASSUME NEW r \in PutRequest, Put(r)
    PROVE  \/ PutStep(r) /\ walk' = WalkOn(broker')
              /\ answer'.status = 201 /\ ~answer'.released
           \/ broker' = broker /\ walk' = walk /\ answer'.status # 200 /\ ~answer'.released
<1> DEFINE i == DeserializedInstance(r.envelope.payload)
           s == SubjectOf(r).subject
           status == IF EnvelopeRefusal(r) # 0 THEN EnvelopeRefusal(r)
                                               ELSE WriteRefusal(broker, s, i)
<1>1. CASE status = 201
  <2>1. EnvelopeRefusal(r) = 0 /\ WriteRefusal(broker, s, i) = 201
    BY <1>1, EnvelopeRefusals
  <2>2. i \in ValidInstance
    BY <2>1, AcceptedIsValid
  <2>3. /\ broker' = PutObject(broker, i.oid, i) /\ walk' = WalkOn(broker')
        /\ answer' = Answered(r, s, 201, NoBody)
    BY <1>1 DEF Put
  <2>4. QED
    BY <2>1, <2>2, <2>3 DEF PutStep, Answered
<1>2. CASE status # 201
  <2>1. status # 200
    BY DEF EnvelopeRefusal, NotResolved, WriteRefusal
  <2>2. broker' = broker /\ walk' = walk /\ answer' = Refusal(status)
    BY <1>2 DEF Put
  <2>3. QED
    BY <2>1, <2>2 DEF Refusal
<1>3. QED
  BY <1>1, <1>2

LEMMA DeleteSteps ==
    ASSUME NEW r \in OidRequest, Delete(r)
    PROVE  \/ DeleteStep(r) /\ walk' = WalkOn(broker') /\ IsFound(SubjectOf(r))
              /\ answer' = Answered(r, SubjectOf(r).subject, 200, NoBody)
           \/ broker' = broker /\ walk' = walk /\ answer'.status # 200 /\ ~answer'.released
<1> DEFINE found == SubjectOf(r)
           status == IF ~IsFound(found) THEN NotResolved(found)
                     ELSE ReadRefusal(broker, found.subject, r.oid)
<1>1. CASE status = 200
  <2>1. IsFound(found) /\ r.oid \in Stored(broker)
    BY <1>1 DEF NotResolved, ReadRefusal
  <2>2. QED
    BY <1>1, <2>1 DEF Delete, DeleteStep
<1>2. CASE status # 200
  BY <1>2 DEF Delete, Refusal
<1>3. QED
  BY <1>1, <1>2

LEMMA BrokerSteps ==
    ASSUME [Next]_vars
    PROVE  \/ \E r \in PutRequest : PutStep(r)
           \/ \E r \in OidRequest : DeleteStep(r)
           \/ PublishStep
           \/ broker' = broker
<1>1. CASE \E r \in PutRequest : Put(r)
  BY <1>1, PutSteps
<1>2. CASE PublishOwn
  BY <1>2 DEF PublishOwn, PublishStep
<1>3. CASE \E r \in OidRequest : Get(r) \/ Delete(r)
  BY <1>3, DeleteSteps DEF Get
<1>4. CASE \E r \in Reader : Sync(r) \/ Open(r)
  BY <1>4 DEF Sync, Open
<1>5. CASE \E r \in QueryRequest : GetByFilter(r) \/ StartWalk(r)
  BY <1>5 DEF GetByFilter, StartWalk
<1>6. CASE NextPage
  BY <1>6 DEF NextPage
<1>7. CASE \E r \in ReleaseRequest : Release(r)
  BY <1>7 DEF Release
<1>8. CASE UNCHANGED vars
  BY <1>8 DEF vars
<1>9. QED
  BY <1>1, <1>2, <1>3, <1>4, <1>5, <1>6, <1>7, <1>8 DEF Next

LEMMA BrokerStepHolds ==
    ASSUME broker \in Holding(ToSet(Own) \cup Signed), [Next]_vars
    PROVE  broker' \in Holding(ToSet(Own) \cup Signed)
<1> DEFINE W == ToSet(Own) \cup Signed
<1>1. CASE \E r \in PutRequest : PutStep(r)
  <2>1. PICK r \in PutRequest : PutStep(r)
    BY <1>1
  <2>2. PICK i : i = DeserializedInstance(r.envelope.payload)
    OBVIOUS
  <2>3. i \in ValidInstance /\ i \in W /\ broker' = PutObject(broker, i.oid, i)
    BY <2>1, <2>2, AcceptedIsSigned DEF PutStep
  <2>4. QED
    BY <2>3, PutHolds
<1>2. CASE \E r \in OidRequest : DeleteStep(r)
  BY <1>2, DeleteHolds DEF DeleteStep
<1>3. CASE PublishStep
  BY <1>3, PublishedHolds DEF PublishStep
<1>4. CASE broker' = broker
  BY <1>4
<1>5. QED
  BY <1>1, <1>2, <1>3, <1>4, BrokerSteps

LEMMA InitHolds == Init => broker \in Holding(ToSet(Own) \cup Signed)
<1>1. \A o \in Oid : NewBroker.store[o] = NoInstance
  BY DEF NewBroker
<1>2. NewBroker \in Holding(ToSet(Own) \cup Signed)
  BY <1>1, NewBrokerSound DEF Holding, SoundBroker, Stored
<1>3. QED
  BY <1>2 DEF Init

LEMMA AlwaysHolding == Spec => []( broker \in Holding(ToSet(Own) \cup Signed) )
<1>1. broker \in Holding(ToSet(Own) \cup Signed) /\ [Next]_vars
         => (broker \in Holding(ToSet(Own) \cup Signed))'
  BY BrokerStepHolds
<1>2. QED
  BY <1>1, InitHolds, PTL DEF Spec

\* Nothing is stored but what the node published itself and what a trusted signer
\* signed, whoever asks for what in whatever order (envelope.rs, rest_envelope.rs,
\* assertion.rs).
THEOREM StoredStaysSigned == Spec => []StoredIsSigned
<1>1. broker \in Holding(ToSet(Own) \cup Signed) => StoredIsSigned
  BY DEF Holding, StoredIsSigned
<1>2. QED
  BY <1>1, AlwaysHolding, PTL

-----------------------------------------------------------------------------
(* Who is answered.                                                         *)

\* Whatever the directory finds for a name is a subject and nothing beside it
\* (subject_resolver.rs, ldap_pip.rs, live_ldap.rs).
IsAnswer(x) == x = Found(x.subject) \/ ~IsFound(x)

LEMMA AttributesAnswer ==
    ASSUME NEW entry
    PROVE  /\ IsAnswer(ToSubjectAttributes(entry))
           /\ IsFound(ToSubjectAttributes(entry))
                 => ToSubjectAttributes(entry).subject = entry
BY DEF ToSubjectAttributes, IsAnswer, IsFound, Found, NoSubject

LEMMA NoAnswer ==
    ASSUME NEW error \in {"invalid", "not_found"}
    PROVE  IsAnswer(NoSubject(error)) /\ ~IsFound(NoSubject(error))
BY DEF IsAnswer, IsFound, NoSubject

LEMMA PrincipalAnswer ==
    ASSUME NEW d, NEW name
    PROVE  IsAnswer(ResolvePrincipal(d, name))
<1>1. IsAnswer(SearchPrincipal(d, name))
  BY AttributesAnswer, NoAnswer DEF SearchPrincipal
<1>2. QED
  BY <1>1, AttributesAnswer, NoAnswer DEF ResolvePrincipal

LEMMA NameAnswer ==
    ASSUME NEW d, NEW name
    PROVE  /\ IsAnswer(ResolveCertFingerprint(d, name))
           /\ IsAnswer(Resolve(d, name))
<1>1. IsAnswer(ResolveCertFingerprint(d, name))
  BY PrincipalAnswer, NoAnswer DEF ResolveCertFingerprint
<1>2. IsAnswer(ResolveCertCnOrPrincipal(d, name))
  BY PrincipalAnswer DEF ResolveCertCnOrPrincipal, ResolveCertCn
<1>3. IsAnswer(Resolve(d, name))
  BY <1>1, <1>2, NoAnswer DEF Resolve
<1>4. QED
  BY <1>1, <1>3

\* A subject that a header was resolved to is named by that header.
LEMMA HeaderNames ==
    ASSUME NEW headers, NEW h \in Header \ {"bearer"}, headers[h] # None, NEW x,
           x \in {Resolve(TheDirectory, headers[h]),
                  ResolveCertFingerprint(TheDirectory, headers[h])},
           IsFound(x)
    PROVE  NamedBy(headers, x.subject)
<1>1. IsAnswer(x)
  BY NameAnswer
<1>2. Found(x.subject) = x
  BY <1>1 DEF IsAnswer
<1>3. QED
  BY <1>2 DEF NamedBy

\* The subject of a request is one that a credential of the request names, or the
\* fallback where no identity is required (identity.rs).
LEMMA ResolvedIsNamed ==
    ASSUME NEW r, IsFound(SubjectOf(r))
    PROVE  NamedBy(HeadersOf(r), SubjectOf(r).subject)
<1>1. PICK headers : headers = HeadersOf(r)
  OBVIOUS
<1>2. PICK x : x = ResolveRequestSubject(TheDirectory, headers)
  OBVIOUS
<1>3. SubjectOf(r) = IF ~IsFound(x) /\ Config.fallback # Nobody
                           /\ ~Config.require_client_identity
                     THEN Found(Config.fallback) ELSE x
  BY <1>1, <1>2 DEF SubjectOf, ResolveForRequest
<1>4. CASE ~IsFound(x)
  BY <1>1, <1>3, <1>4 DEF NamedBy, Found
<1>5. CASE IsFound(x)
  <2> DEFINE d == TheDirectory
  <2>1. CASE headers.bearer # None
    <3>1. x = ToSubjectAttributes(headers.bearer)
      BY <1>2, <2>1 DEF ResolveRequestSubject
    <3>2. headers.bearer = x.subject
      BY <1>5, <3>1, AttributesAnswer
    <3>3. QED
      BY <1>1, <1>3, <1>5, <3>2 DEF NamedBy
  <2>2. CASE headers.bearer = None
    <3>1. \E h \in Header \ {"bearer"} :
             /\ headers[h] # None
             /\ x \in {Resolve(d, headers[h]), ResolveCertFingerprint(d, headers[h])}
      <4>1. CASE headers.principal # None
        <5>1. x = Resolve(d, headers["principal"])
          BY <1>2, <2>2, <4>1 DEF ResolveRequestSubject
        <5>2. QED
          BY <4>1, <5>1 DEF Header
      <4>2. CASE headers.principal = None /\ headers.cert_sha256 # None
        <5>1. x = ResolveCertFingerprint(d, headers["cert_sha256"])
          BY <1>2, <2>2, <4>2 DEF ResolveRequestSubject
        <5>2. QED
          BY <4>2, <5>1 DEF Header
      <4>3. CASE /\ headers.principal = None /\ headers.cert_sha256 = None
                 /\ headers.client_cn # None
        <5>1. x = Resolve(d, headers["client_cn"])
          BY <1>2, <2>2, <4>3 DEF ResolveRequestSubject
        <5>2. QED
          BY <4>3, <5>1 DEF Header
      <4>4. CASE /\ headers.principal = None /\ headers.cert_sha256 = None
                 /\ headers.client_cn = None /\ headers.tls_cn # None
        <5>1. x = Resolve(d, headers["tls_cn"])
          BY <1>2, <2>2, <4>4 DEF ResolveRequestSubject
        <5>2. QED
          BY <4>4, <5>1 DEF Header
      <4>5. CASE /\ headers.principal = None /\ headers.cert_sha256 = None
                 /\ headers.client_cn = None /\ headers.tls_cn = None
        <5>1. x = NoSubject("not_found")
          BY <1>2, <2>2, <4>5 DEF ResolveRequestSubject
        <5>2. QED
          BY <1>5, <5>1, NoAnswer
      <4>6. QED
        BY <4>1, <4>2, <4>3, <4>4, <4>5
    <3>2. QED
      BY <1>1, <1>3, <1>5, <3>1, HeaderNames
  <2>3. QED
    BY <2>1, <2>2
<1>6. QED
  BY <1>4, <1>5

\* The offset and the limit of a query (rest.rs, routes.rs).
IsQuery(q) == {q.offset, q.limit} \subseteq Nat \cup {NoParameter}

\* A page is a list of what is paged, and has what lies between its offset and its
\* end (broker.rs:341).
LEMMA PageElements ==
    ASSUME NEW X, NEW s \in Seq(X), NEW offset \in Nat, NEW limit \in Nat \cup {NoParameter}
    PROVE  /\ Paginate(s, offset, limit) \in Seq(X)
           /\ \A p \in DOMAIN s :
                 offset < p /\ limit \in Nat /\ p <= offset + limit =>
                    s[p] \in ToSet(Paginate(s, offset, limit))
<1> DEFINE n == Len(s)
           m == IF offset + 1 <= n THEN n - offset ELSE 0
           rest == SubSeq(s, offset + 1, n)
<1>1. n \in Nat /\ DOMAIN s = 1..n /\ \A k \in 1..n : s[k] \in X
  OBVIOUS
<1>2. \A k \in (offset + 1)..n : s[k] \in X
  BY <1>1
<1> HIDE DEF n
<1>3. /\ rest \in Seq(X) /\ Len(rest) = m /\ m \in Nat /\ DOMAIN rest = 1..m
      /\ \A k \in 1..m : rest[k] = s[k + offset] /\ rest[k] \in X
  <2>1. offset + 1 \in Int /\ n \in Int
    BY <1>1
  <2>2. /\ rest \in Seq(X)
        /\ Len(rest) = IF offset + 1 <= n THEN n - (offset + 1) + 1 ELSE 0
        /\ \A k \in 1..(n - (offset + 1) + 1) : rest[k] = s[offset + 1 + k - 1]
    BY <1>2, <2>1, SubSeqProperties
  <2>3. m \in Nat /\ Len(rest) = m
    BY <1>1, <2>2
  <2>4. \A k \in 1..m : /\ k \in 1..(n - (offset + 1) + 1)
                        /\ offset + 1 + k - 1 = k + offset /\ k + offset \in 1..n
    BY <1>1
  <2> HIDE DEF rest, m
  <2>5. \A k \in 1..m : rest[k] = s[k + offset]
    BY <2>2, <2>4
  <2>6. DOMAIN rest = 1..m
    BY <2>2, <2>3
  <2>7. QED
    BY <1>1, <2>2, <2>3, <2>4, <2>5, <2>6
<1>4. CASE limit = NoParameter \/ limit > Len(rest)
  <2>1. Paginate(s, offset, limit) = rest
    BY <1>4 DEF Paginate, n
  <2>2. ASSUME NEW p \in DOMAIN s, offset < p
        PROVE  s[p] \in ToSet(rest)
    <3>1. p - offset \in 1..m /\ (p - offset) + offset = p
      BY <1>1, <2>2
    <3> HIDE DEF rest, m
    <3>2. rest[p - offset] = s[p] /\ p - offset \in DOMAIN rest
      BY <1>3, <3>1
    <3>3. QED
      BY <3>2 DEF ToSet
  <2> HIDE DEF rest
  <2>3. QED
    BY <1>3, <2>1, <2>2
<1>5. CASE ~(limit = NoParameter \/ limit > Len(rest))
  <2> DEFINE page == SubSeq(rest, 1, limit)
  <2>1. Paginate(s, offset, limit) = page /\ limit \in Nat /\ limit <= m
    BY <1>3, <1>5 DEF Paginate, n
  <2> HIDE DEF rest, m
  <2>2. /\ page \in Seq(X) /\ Len(page) = IF 1 <= limit THEN limit - 1 + 1 ELSE 0
        /\ \A k \in 1..(limit - 1 + 1) : page[k] = rest[1 + k - 1]
    <3>1. limit \in Int /\ 1 \in Int /\ \A k \in 1..limit : rest[k] \in X
      BY <1>3, <2>1
    <3>2. QED
      BY <3>1, SubSeqProperties
  <2>3. ASSUME NEW p \in DOMAIN s, offset < p, p <= offset + limit
        PROVE  s[p] \in ToSet(page)
    <3>1. p - offset \in 1..limit /\ (p - offset) + offset = p /\ p - offset \in 1..m
      BY <1>1, <2>1, <1>3, <2>3
    <3>2. rest[p - offset] = s[p]
      BY <1>3, <3>1
    <3>3. page[p - offset] = rest[p - offset] /\ p - offset \in DOMAIN page
      <4> HIDE DEF page
      <4>1. p - offset \in 1..(limit - 1 + 1) /\ 1 + (p - offset) - 1 = p - offset
        BY <1>1, <2>1, <3>1
      <4>2. DOMAIN page = 1..Len(page) /\ Len(page) = limit
        BY <2>1, <2>2, <3>1
      <4>3. QED
        BY <2>1, <2>2, <4>1, <4>2, <3>1
    <3>4. QED
      BY <3>2, <3>3 DEF ToSet
  <2> HIDE DEF page
  <2>4. QED
    BY <2>1, <2>2, <2>3
<1>6. QED
  BY <1>4, <1>5

\* What an answer says of the store behind it: ReadersAreEntitled, and that what it
\* names is there.
Entitled(b, a) ==
    a.status = 200 =>
        /\ NamedBy(a.headers, a.to)
        /\ \A o \in a.body.oids : o \in Stored(b) /\ Permits(a.to, b.store[o])

\* The answer to a query is the page of its matches that its reader may see
\* (routes.rs, secured.rs).
LEMMA QueryAnswers ==
    ASSUME broker \in Broker, NEW r, NEW q, IsQuery(q)
    PROVE  LET a == QueryAnswer(r, q)
           IN  /\ Entitled(broker, a) /\ a.body.oids \subseteq Oid /\ ~a.released
               /\ Asks(q) /\ IsFound(SubjectOf(r)) =>
                     /\ a.body.oids = ToSet(Page(broker, q))
                                        \cap {o \in Stored(broker) :
                                                 Permits(SubjectOf(r).subject, broker.store[o])}
                     /\ NegotiateFormat(r.accept, "json") = "json" =>
                           a.body.total = Len(Matches(broker, q))
<1> DEFINE s == SubjectOf(r).subject
           May == {o \in Stored(broker) : Permits(s, broker.store[o])}
           page == Page(broker, q)
           a == QueryAnswer(r, q)
<1>1. CASE ~(Asks(q) /\ IsFound(SubjectOf(r)))
  <2>1. PICK n \in {400, 403} : a = Refusal(n)
    BY <1>1 DEF QueryAnswer, NotResolved
  <2>2. a.status # 200 /\ a.body.oids = {} /\ ~a.released
    BY <2>1 DEF Refusal, NoBody, Body
  <2>3. QED
    BY <1>1, <2>2 DEF Entitled
<1>2. CASE Asks(q) /\ IsFound(SubjectOf(r))
  <2>1. Matches(broker, q) \in Seq(Oid)
    BY StoredOrderType, OnlyElements DEF Matches
  <2>2. page \in Seq(Oid)
    <3>1. PICK offset : offset = IF q.offset = NoParameter THEN 0 ELSE q.offset
      OBVIOUS
    <3>2. offset \in Nat /\ q.limit \in Nat \cup {NoParameter}
      BY <3>1 DEF IsQuery
    <3>3. QED
      BY <2>1, <3>1, <3>2, PageElements DEF Page
  <2>3. ToSet(Only(page, May)) = ToSet(page) \cap May
    BY <2>2, OnlyElements
  <2>4. ToSet(page) \subseteq Oid
    BY <2>2 DEF ToSet
  <2>5. a = Answered(r, s, 200,
                     InstancesBody(broker, Only(page, May), NegotiateFormat(r.accept, "json"),
                                   Len(Matches(broker, q))))
    BY <1>2 DEF QueryAnswer, PermittedPage
  <2> HIDE DEF page
  <2>6. /\ a.body.oids = ToSet(Only(page, May)) /\ ~a.released
        /\ NegotiateFormat(r.accept, "json") = "json" =>
              a.body.total = Len(Matches(broker, q))
        /\ a.to = s /\ a.headers = HeadersOf(r)
    BY <2>5 DEF Answered, InstancesBody, Body
  <2>7. NamedBy(a.headers, a.to)
    BY <1>2, <2>6, ResolvedIsNamed
  <2> HIDE DEF a
  <2>8. Entitled(broker, a) /\ a.body.oids \subseteq Oid
    BY <2>3, <2>4, <2>6, <2>7 DEF Entitled
  <2>9. QED
    BY <1>2, <2>3, <2>6, <2>8 DEF a, page
<1>3. QED
  BY <1>1, <1>2

\* What can be read is stored, and permitted to its reader (secured.rs).
LEMMA ReadableIsPermitted ==
    ASSUME NEW s, NEW o, ReadRefusal(broker, s, o) = 200
    PROVE  o \in Stored(broker) /\ Permits(s, broker.store[o])
BY DEF ReadRefusal

LEMMA GetEntitled ==
    ASSUME NEW r, Get(r)
    PROVE  Entitled(broker', answer') /\ ~answer'.released
<1> DEFINE found == SubjectOf(r)
           status == IF ~ValidMimVersion(r.version) THEN 400
                     ELSE IF ~IsFound(found) THEN NotResolved(found)
                     ELSE ReadRefusal(broker, found.subject, r.oid)
<1>1. broker' = broker
  BY DEF Get
<1>2. CASE status = 200
  <2>1. IsFound(found) /\ ReadRefusal(broker, found.subject, r.oid) = 200
    BY <1>2 DEF NotResolved
  <2>2. /\ answer'.to = found.subject /\ answer'.headers = HeadersOf(r)
        /\ answer'.body.oids = ToSet(<<r.oid>>) /\ ~answer'.released
    BY <1>2 DEF Get, Answered, InstancesBody, Body
  <2>3. ToSet(<<r.oid>>) = {r.oid}
    BY DEF ToSet
  <2>4. QED
    BY <1>1, <2>1, <2>2, <2>3, ResolvedIsNamed, ReadableIsPermitted DEF Entitled
<1>3. CASE status # 200
  BY <1>3 DEF Get, Refusal, Entitled
<1>4. QED
  BY <1>2, <1>3

LEMMA SyncEntitled ==
    ASSUME NEW r, Sync(r)
    PROVE  Entitled(broker', answer') /\ ~answer'.released
<1> DEFINE found == SubjectOf(r)
           visible == VisibleEntries(broker, found.subject)
           put == {e \in visible : e.operation = "PutObject"}
<1>1. broker' = broker
  BY DEF Sync
<1>2. CASE ~IsFound(found)
  BY <1>2 DEF Sync, Refusal, Entitled, NotResolved
<1>3. CASE IsFound(found)
  <2>1. /\ answer'.to = found.subject /\ answer'.headers = HeadersOf(r)
        /\ answer'.body.oids = {e.oid : e \in put} /\ ~answer'.released
    BY <1>3 DEF Sync, Answered, Body
  <2>2. \A e \in put : ReadRefusal(broker, found.subject, e.oid) = 200
    BY DEF VisibleEntries, Readable
  <2> HIDE DEF put
  <2>3. QED
    BY <1>1, <1>3, <2>1, <2>2, ResolvedIsNamed, ReadableIsPermitted DEF Entitled
<1>4. QED
  BY <1>2, <1>3

LEMMA OpenEntitled ==
    ASSUME NEW r, Open(r)
    PROVE  Entitled(broker', answer')
<1>1. IsFound(SubjectOf(r))
  BY DEF Open
<1>2. CASE answer' = Refusal(403)
  BY <1>2 DEF Refusal, Entitled
<1>3. CASE answer' # Refusal(403)
  <2>1. PICK instances :
           answer' = [Answered(r, SubjectOf(r).subject, 200, Body({}, instances, 0))
                        EXCEPT !.released = TRUE]
    BY <1>3 DEF Open
  <2>2. /\ answer'.to = SubjectOf(r).subject /\ answer'.headers = HeadersOf(r)
        /\ answer'.body.oids = {}
    BY <2>1 DEF Answered, Body
  <2>3. QED
    BY <1>1, <2>2, ResolvedIsNamed DEF Entitled
<1>4. QED
  BY <1>2, <1>3

-----------------------------------------------------------------------------
(* A client that pages.                                                     *)

Walk == [request: QueryRequest, query: {r.query : r \in QueryRequest},
         subject: {SubjectOf(r).subject : r \in QueryRequest},
         offset: Nat, seen: SUBSET Oid, shrunk: BOOLEAN, done: BOOLEAN, base: SUBSET Oid]

\* Every page of a walk is asked for by the same client for the same query.
WalkTyped(w) ==
    /\ w \in Walk
    /\ IsFound(SubjectOf(w.request)) /\ Asks(w.query)
    /\ w.subject = SubjectOf(w.request).subject
    /\ NegotiateFormat(w.request.accept, "json") = "json"

\* An object that is among the matches behind the walk's offset.
Ahead(b, w, o) ==
    LET order == StoredOrder(b)
        S     == Selected(b, w.query)
    IN  \E k \in DOMAIN order :
            order[k] = o /\ o \in S /\ Len(Kept(order, S)[k]) > w.offset

\* PagesCoverReadable alone is not inductive: as long as no match has gone, what the
\* walk has not seen of its base lies ahead of it.
Covers(b, w) ==
    /\ w.base \subseteq Readable(b, w.subject) \cap ToSet(Matches(b, w.query))
    /\ ~w.shrunk => \A o \in w.base : o \in w.seen \/ Ahead(b, w, o)
    /\ w.done /\ ~w.shrunk => w.base \subseteq w.seen

LEMMA MatchesType ==
    ASSUME NEW b \in Broker, NEW q
    PROVE  /\ StoredOrder(b) \in Seq(Oid) /\ Matches(b, q) \in Seq(Oid)
           /\ ToSet(Matches(b, q)) = ToSet(StoredOrder(b)) \cap Selected(b, q)
<1>1. StoredOrder(b) \in Seq(Oid)
  BY StoredOrderType
<1>2. QED
  BY <1>1, OnlyElements DEF Matches

\* A change of the store moves no match of the walk to a page it has had, unless a
\* match goes away (broker.rs:192, 241).
LEMMA AheadStays ==
    ASSUME NEW b \in Broker, NEW c \in Broker, NEW e \in Entry,
           c.journal = Append(b.journal, e), NEW w, w.offset \in Nat,
           ToSet(Matches(b, w.query)) \subseteq ToSet(Matches(c, w.query)),
           NEW o, Ahead(b, w, o)
    PROVE  Ahead(c, w, o)
<1>1. PICK s : s = StoredOrder(b)
  OBVIOUS
<1>2. PICK t : t = StoredOrder(c)
  OBVIOUS
<1>3. PICK S : S = Selected(b, w.query)
  OBVIOUS
<1>4. PICK T : T = Selected(c, w.query)
  OBVIOUS
<1>5. s \in Seq(Oid) /\ t \in Seq(Oid) /\ ToSet(s) \cap S \subseteq ToSet(t) \cap T
  BY <1>1, <1>2, <1>3, <1>4, MatchesType
<1>6. t = Placed(s, e.oid) /\ e.oid \in Oid
  BY <1>1, <1>2, OrderGrows DEF Entry
<1>7. PICK x : x = e.oid
  OBVIOUS
<1>8. Len(s) \in Nat /\ DOMAIN s = 1..Len(s)
  BY <1>5
<1>9. Len(s) <= Len(t) /\ \A k \in 1..Len(s) : t[k] = s[k] /\ k \in DOMAIN t
  BY <1>5, <1>6, <1>7 DEF Placed
<1>10. \A k \in 1..Len(s) : s[k] \in S => s[k] \in T
  BY <1>5, <1>8 DEF ToSet
<1>11. \A k \in 0..Len(s) : Len(Kept(s, S)[k]) <= Len(Kept(t, T)[k])
  BY <1>5, <1>9, <1>10, KeptGrows
<1>12. PICK k \in DOMAIN s : s[k] = o /\ o \in S /\ Len(Kept(s, S)[k]) > w.offset
  BY <1>1, <1>3 DEF Ahead
<1>13. k \in 1..Len(s) /\ k \in 0..Len(s)
  BY <1>8, <1>12
<1>14. Len(Kept(s, S)[k]) \in Nat /\ Len(Kept(t, T)[k]) \in Nat
  <2>1. Kept(s, S)[k] \in Seq(Oid)
    BY <1>5, <1>13, KeptTurns
  <2>2. k \in 0..Len(t) /\ Len(t) \in Nat
    BY <1>5, <1>8, <1>9, <1>13
  <2>3. Kept(t, T)[k] \in Seq(Oid)
    BY <1>5, <2>2, KeptTurns
  <2>4. QED
    BY <2>1, <2>3
<1>15. Len(Kept(t, T)[k]) > w.offset
  <2>1. PICK m \in Nat : m = Len(Kept(s, S)[k])
    BY <1>14
  <2>2. PICK n \in Nat : n = Len(Kept(t, T)[k])
    BY <1>14
  <2>3. m <= n /\ m > w.offset
    BY <1>11, <1>12, <1>13, <2>1, <2>2
  <2>4. n > w.offset
    BY <2>3
  <2>5. QED
    BY <2>2, <2>4
<1>16. t[k] = o /\ k \in DOMAIN t /\ o \in T
  BY <1>9, <1>10, <1>12, <1>13
<1>17. QED
  BY <1>2, <1>4, <1>15, <1>16 DEF Ahead

\* The fields of a walk after a change of the store.
LEMMA WalkOnFields ==
    ASSUME NEW c, walk # NoWalk, WalkTyped(walk)
    PROVE  LET w == WalkOn(c)
           IN  /\ WalkTyped(w)
               /\ w.query = walk.query /\ w.subject = walk.subject
               /\ w.offset = walk.offset /\ w.offset \in Nat
               /\ w.seen = walk.seen /\ w.done = walk.done
               /\ w.base = walk.base \cap Readable(c, walk.subject)
                                     \cap ToSet(Matches(c, walk.query))
               /\ w.shrunk <=> \/ walk.shrunk
                               \/ ~(ToSet(Matches(broker, walk.query))
                                        \subseteq ToSet(Matches(c, walk.query)))
<1>1. PICK base : base = walk.base \cap Readable(c, walk.subject)
                            \cap ToSet(Matches(c, walk.query))
  OBVIOUS
<1>2. PICK shrunk \in BOOLEAN :
         shrunk <=> \/ walk.shrunk
                    \/ ~(ToSet(Matches(broker, walk.query))
                             \subseteq ToSet(Matches(c, walk.query)))
  OBVIOUS
<1>3. walk \in Walk
  BY DEF WalkTyped
<1>4. WalkOn(c) = [walk EXCEPT !.base = base, !.shrunk = shrunk]
  BY <1>1, <1>2, <1>3 DEF WalkOn, Walk
<1>5. base \in SUBSET Oid
  BY <1>1, <1>3 DEF Walk
<1>6. PICK w : w = WalkOn(c)
  OBVIOUS
<1>7. /\ w \in Walk /\ w.request = walk.request /\ w.query = walk.query
      /\ w.subject = walk.subject /\ w.offset = walk.offset /\ w.offset \in Nat
      /\ w.seen = walk.seen /\ w.done = walk.done /\ w.base = base /\ w.shrunk = shrunk
  BY <1>3, <1>4, <1>5, <1>6 DEF Walk
<1>8. WalkTyped(w)
  BY <1>7 DEF WalkTyped
<1>9. QED
  BY <1>1, <1>2, <1>6, <1>7, <1>8

\* A put or a delete while a client pages (broker.rs:192, 289).
LEMMA ChangeCovers ==
    ASSUME broker \in Broker, NEW c \in Broker, NEW e \in Entry,
           c.journal = Append(broker.journal, e),
           walk # NoWalk, WalkTyped(walk), Covers(broker, walk)
    PROVE  WalkTyped(WalkOn(c)) /\ Covers(c, WalkOn(c))
<1>1. PICK w : w = WalkOn(c)
  OBVIOUS
<1>2. /\ WalkTyped(w) /\ w.query = walk.query /\ w.subject = walk.subject
      /\ w.offset = walk.offset /\ w.offset \in Nat
      /\ w.seen = walk.seen /\ w.done = walk.done
      /\ w.base = walk.base \cap Readable(c, walk.subject) \cap ToSet(Matches(c, walk.query))
      /\ w.shrunk <=> \/ walk.shrunk
                      \/ ~(ToSet(Matches(broker, walk.query))
                               \subseteq ToSet(Matches(c, walk.query)))
  BY <1>1, WalkOnFields
<1>3. ASSUME ~w.shrunk, NEW o \in w.base PROVE o \in w.seen \/ Ahead(c, w, o)
  <2>1. o \in walk.seen \/ Ahead(broker, walk, o)
    BY <1>2, <1>3 DEF Covers
  <2>2. Ahead(broker, walk, o) => Ahead(broker, w, o)
    BY <1>2 DEF Ahead
  <2>3. ToSet(Matches(broker, w.query)) \subseteq ToSet(Matches(c, w.query))
    BY <1>2, <1>3
  <2>4. Ahead(broker, w, o) => Ahead(c, w, o)
    BY <1>2, <2>3, AheadStays
  <2>5. QED
    BY <1>2, <2>1, <2>2, <2>4
<1>4. w.base \subseteq Readable(c, w.subject) \cap ToSet(Matches(c, w.query))
  BY <1>2
<1>5. w.done /\ ~w.shrunk => w.base \subseteq w.seen
  BY <1>2 DEF Covers
<1>6. QED
  BY <1>1, <1>2, <1>3, <1>4, <1>5 DEF Covers

\* The node's own bulk load, of which a walk can only have begun before any object
\* was stored.
LEMMA LoadCovers ==
    ASSUME broker \in Broker, broker.journal = <<>>, NEW c,
           walk # NoWalk, WalkTyped(walk), Covers(broker, walk)
    PROVE  WalkTyped(WalkOn(c)) /\ Covers(c, WalkOn(c))
<1>1. PICK w : w = WalkOn(c)
  OBVIOUS
<1>2. /\ WalkTyped(w) /\ w.query = walk.query /\ w.subject = walk.subject
      /\ w.base = walk.base \cap Readable(c, walk.subject) \cap ToSet(Matches(c, walk.query))
  BY <1>1, WalkOnFields
<1>3. StoredOrder(broker) = <<>>
  <2>1. Ordering(broker)[0] = <<>> /\ Len(broker.journal) = 0
    BY OrderingTurns
  <2>2. QED
    BY <2>1 DEF StoredOrder
<1>4. ToSet(Matches(broker, walk.query)) = {}
  <2>1. ToSet(StoredOrder(broker)) = {}
    BY <1>3 DEF ToSet
  <2>2. QED
    BY <2>1, MatchesType
<1>5. walk.base = {} /\ w.base = {}
  BY <1>2, <1>4 DEF Covers
<1>6. QED
  BY <1>1, <1>2, <1>5 DEF Covers

\* A walk begins with everything ahead of it.
LEMMA StartCovers ==
    ASSUME broker \in Broker, NEW r \in QueryRequest, StartWalk(r)
    PROVE  WalkTyped(walk') /\ Covers(broker, walk')
<1>1. PICK s : s = SubjectOf(r).subject
  OBVIOUS
<1>2. PICK base : base = Readable(broker, s) \cap ToSet(Matches(broker, r.query))
  OBVIOUS
<1>3. PICK w : w = walk'
  OBVIOUS
<1>4. /\ w = [request |-> r, query |-> r.query, subject |-> s, offset |-> 0, seen |-> {},
              shrunk |-> FALSE, done |-> FALSE, base |-> base]
      /\ Asks(r.query) /\ IsFound(SubjectOf(r))
      /\ NegotiateFormat(r.accept, "json") = "json"
  BY <1>1, <1>2, <1>3 DEF StartWalk
<1>5. base \in SUBSET Oid
  BY <1>2 DEF Readable
<1>6. /\ w.request = r /\ w.query = r.query /\ w.subject = s /\ w.offset = 0
      /\ w.base = base /\ ~w.done
  BY <1>4
<1>7. w \in Walk
  BY <1>1, <1>4, <1>5 DEF Walk
<1>8. WalkTyped(w)
  BY <1>1, <1>4, <1>6, <1>7 DEF WalkTyped
<1>9. ASSUME NEW o \in base PROVE Ahead(broker, w, o)
  <2>1. PICK order : order = StoredOrder(broker)
    OBVIOUS
  <2>2. PICK S : S = Selected(broker, r.query)
    OBVIOUS
  <2>3. order \in Seq(Oid) /\ o \in ToSet(order) /\ o \in S
    BY <1>2, <1>9, <2>1, <2>2, MatchesType
  <2>4. PICK k \in DOMAIN order : order[k] = o
    BY <2>3 DEF ToSet
  <2>5. k \in 1..Len(order)
    BY <2>3, <2>4
  <2>6. Len(Kept(order, S)[k]) \in DOMAIN Only(order, S) /\ Only(order, S) \in Seq(Oid)
    BY <2>3, <2>4, <2>5, KeptStays, OnlyElements
  <2>7. Len(Kept(order, S)[k]) > 0
    BY <2>6
  <2>8. QED
    BY <1>6, <2>1, <2>2, <2>3, <2>4, <2>7 DEF Ahead
<1>10. QED
  BY <1>2, <1>3, <1>6, <1>8, <1>9 DEF Covers

\* The next page is cut from the same matches, whatever its offset.
LEMMA PageOfMatches ==
    ASSUME broker \in Broker, NEW q, NEW offset \in Nat
    PROVE  LET n == PageOf(q, offset)
           IN  /\ IsQuery(n) /\ (Asks(q) => Asks(n))
               /\ Matches(broker, n) = Matches(broker, q)
               /\ Page(broker, n) = Paginate(Matches(broker, q), offset, PageSize)
<1>1. PICK n : n = PageOf(q, offset)
  OBVIOUS
<1>2. /\ n.filter = q.filter /\ n.class = q.class /\ n.name = q.name /\ n.value = q.value
      /\ n.offset = offset /\ n.limit = PageSize
  BY <1>1 DEF PageOf, Query
<1>3. PageSize \in Nat /\ n.offset # NoParameter
  BY <1>2, NodeAssumption
<1>4. IsQuery(n)
  BY <1>2, <1>3 DEF IsQuery
<1>5. Asks(q) => Asks(n)
  BY <1>2 DEF Asks
<1>6. \A i : Selects(n, i) <=> Selects(q, i)
  BY <1>2 DEF Selects, MatchesFilter, MatchesClass
<1>7. Selected(broker, n) = Selected(broker, q)
  BY <1>6 DEF Selected
<1>8. Matches(broker, n) = Matches(broker, q)
  BY <1>7 DEF Matches
<1>9. Page(broker, n) = Paginate(Matches(broker, q), offset, PageSize)
  BY <1>2, <1>3, <1>8 DEF Page
<1>10. QED
  BY <1>1, <1>4, <1>5, <1>8, <1>9

\* A page brings what lies ahead of the walk and before the next page, and the last
\* page is the one that reaches the total (broker.rs:341, secured.rs).
LEMMA NextPageCovers ==
    ASSUME broker \in Broker, NextPage, WalkTyped(walk), Covers(broker, walk)
    PROVE  WalkTyped(walk') /\ Covers(broker, walk') /\ Entitled(broker, answer')
           /\ ~answer'.released
<1>1. PICK q : q = walk.query
  OBVIOUS
<1>2. PICK offset : offset = walk.offset
  OBVIOUS
<1>3. PICK n : n = PageOf(q, offset)
  OBVIOUS
<1>4. PICK M : M = Matches(broker, q)
  OBVIOUS
<1>5. PICK s : s = walk.subject
  OBVIOUS
<1>6. PICK seen : seen = walk.seen \cup answer'.body.oids
  OBVIOUS
<1>7. PICK size : size = PageSize
  OBVIOUS
<1>8. PICK done \in BOOLEAN : done <=> offset + size >= answer'.body.total
  OBVIOUS
<1>9. /\ walk \in Walk /\ offset \in Nat /\ size \in Nat \ {0}
      /\ IsFound(SubjectOf(walk.request)) /\ Asks(q) /\ s = SubjectOf(walk.request).subject
      /\ NegotiateFormat(walk.request.accept, "json") = "json"
  BY <1>1, <1>2, <1>5, <1>7, NodeAssumption DEF WalkTyped, Walk
<1>10. /\ IsQuery(n) /\ Asks(n) /\ Matches(broker, n) = M
       /\ Page(broker, n) = Paginate(M, offset, size)
  BY <1>3, <1>4, <1>7, <1>9, PageOfMatches
<1>11. PICK a : a = answer'
  OBVIOUS
<1>12. a = QueryAnswer(walk.request, n)
  BY <1>1, <1>2, <1>3, <1>11 DEF NextPage
<1>13. PICK r : r = walk.request
  OBVIOUS
<1>14. /\ Entitled(broker, a) /\ a.body.oids \subseteq Oid /\ ~a.released
       /\ a.body.oids = ToSet(Page(broker, n))
                           \cap {o \in Stored(broker) : Permits(s, broker.store[o])}
       /\ a.body.total = Len(M)
  <2>1. /\ IsFound(SubjectOf(r)) /\ s = SubjectOf(r).subject
        /\ NegotiateFormat(r.accept, "json") = "json"
    BY <1>9, <1>13
  <2>2. LET x == QueryAnswer(r, n)
        IN  /\ Entitled(broker, x) /\ x.body.oids \subseteq Oid /\ ~x.released
            /\ x.body.oids = ToSet(Page(broker, n))
                               \cap {o \in Stored(broker) : Permits(s, broker.store[o])}
            /\ x.body.total = Len(Matches(broker, n))
    BY <1>10, <2>1, QueryAnswers
  <2>3. QED
    BY <1>10, <1>12, <1>13, <2>2
<1>15. PICK w : w = walk'
  OBVIOUS
<1>16. w = [walk EXCEPT !.offset = offset + size, !.seen = seen, !.done = done]
  <2>1. (offset + size >= answer'.body.total) = done
    BY <1>8
  <2>2. walk' = [walk EXCEPT !.offset = offset + size, !.seen = seen,
                             !.done = offset + size >= answer'.body.total]
    <3>1. walk' = [walk EXCEPT !.offset = walk.offset + PageSize,
                               !.seen = walk.seen \cup answer'.body.oids,
                               !.done = walk.offset + PageSize >= answer'.body.total]
      BY <1>9 DEF NextPage, Walk
    <3>2. QED
      BY <1>2, <1>6, <1>7, <3>1
  <2>3. QED
    BY <1>15, <2>1, <2>2
<1>17. seen \in SUBSET Oid /\ offset + size \in Nat
  BY <1>6, <1>9, <1>11, <1>14 DEF Walk
<1>18. /\ w \in Walk /\ w.request = walk.request /\ w.query = q /\ w.subject = s
       /\ w.offset = offset + size /\ w.seen = seen /\ w.done = done
       /\ w.base = walk.base /\ w.shrunk = walk.shrunk
  BY <1>1, <1>5, <1>9, <1>16, <1>17 DEF Walk
<1>19. WalkTyped(w)
  BY <1>9, <1>18 DEF WalkTyped
<1>20. M \in Seq(Oid)
  BY <1>4, MatchesType
<1>21. ASSUME ~walk.shrunk, NEW o \in walk.base, o \notin seen
       PROVE  Ahead(broker, w, o) /\ ~done
  <2>1. Ahead(broker, walk, o)
    BY <1>6, <1>21 DEF Covers
  <2>2. PICK order : order = StoredOrder(broker)
    OBVIOUS
  <2>3. PICK S : S = Selected(broker, q)
    OBVIOUS
  <2>4. PICK k \in DOMAIN order :
            order[k] = o /\ o \in S /\ Len(Kept(order, S)[k]) > offset
    BY <1>1, <1>2, <2>1, <2>2, <2>3 DEF Ahead
  <2>5. order \in Seq(Oid) /\ M = Only(order, S)
    BY <1>4, <2>2, <2>3, MatchesType DEF Matches
  <2>6. k \in 1..Len(order)
    BY <2>4, <2>5
  <2>7. PICK p : p = Len(Kept(order, S)[k])
    OBVIOUS
  <2>8. p \in DOMAIN M /\ M[p] = o
    BY <2>4, <2>5, <2>6, <2>7, KeptStays
  <2>9. p \in 1..Len(M) /\ Len(M) \in Nat /\ offset < p
    BY <1>20, <2>4, <2>7, <2>8
  <2>10. o \in Stored(broker) /\ Permits(s, broker.store[o])
    BY <1>5, ReadableIsPermitted DEF Covers, Readable
  <2>11. ~(p <= offset + size)
    <3>1. ASSUME p <= offset + size PROVE FALSE
      <4>1. o \in ToSet(Paginate(M, offset, size))
        BY <1>9, <1>20, <2>8, <2>9, <3>1, PageElements
      <4>2. o \in a.body.oids
        BY <1>10, <1>14, <2>10, <4>1
      <4>3. QED
        BY <1>6, <1>11, <1>21, <4>2
    <3>2. QED
      BY <3>1
  <2>12. p > offset + size /\ ~(offset + size >= Len(M))
    BY <1>9, <2>9, <2>11
  <2>13. Ahead(broker, w, o)
    BY <1>18, <2>2, <2>3, <2>4, <2>7, <2>12 DEF Ahead
  <2>14. QED
    BY <1>8, <1>11, <1>14, <2>12, <2>13
<1>22. Covers(broker, w)
  <2>1. w.base \subseteq Readable(broker, w.subject) \cap ToSet(Matches(broker, w.query))
    BY <1>1, <1>5, <1>18 DEF Covers
  <2>2. ~w.shrunk => \A o \in w.base : o \in w.seen \/ Ahead(broker, w, o)
    BY <1>18, <1>21
  <2>3. w.done /\ ~w.shrunk => w.base \subseteq w.seen
    BY <1>18, <1>21
  <2>4. QED
    BY <2>1, <2>2, <2>3 DEF Covers
<1>23. QED
  BY <1>11, <1>14, <1>15, <1>19, <1>22

-----------------------------------------------------------------------------
(* Every step.                                                              *)

WalkCovered == walk # NoWalk => WalkTyped(walk) /\ Covers(broker, walk)

NodeInv ==
    /\ broker \in Holding(ToSet(Own) \cup Signed)
    /\ Entitled(broker, answer)
    /\ WalkCovered

LEMMA PutKeeps ==
    ASSUME NodeInv, NEW r \in PutRequest, Put(r)
    PROVE  Entitled(broker', answer') /\ WalkCovered' /\ ~answer'.released
<1>1. broker \in Broker
  BY DEF NodeInv, Holding
<1>2. CASE PutStep(r) /\ walk' = WalkOn(broker') /\ answer'.status = 201 /\ ~answer'.released
  <2>1. PICK i \in ValidInstance : broker' = PutObject(broker, i.oid, i)
    BY <1>2 DEF PutStep
  <2>2. i \in Instance /\ i.oid \in Oid
    BY BrokerAssumption, NodeAssumption
  <2>3. PICK o : o = i.oid
    OBVIOUS
  <2>4. PICK c : c = broker'
    OBVIOUS
  <2>5. PICK e : e = NewEntry(broker, "PutObject", o)
    OBVIOUS
  <2>6. c \in Broker /\ c.journal = Append(broker.journal, e) /\ o \in Oid
    BY <1>1, <2>1, <2>2, <2>3, <2>4, <2>5, PutFields
  <2>7. e \in Entry
    BY <1>1, <2>5, <2>6, BrokerAssumption
       DEF NewEntry, Entry, Operation, NextSequence, Sequence, Broker
  <2>8. walk # NoWalk => WalkTyped(WalkOn(c)) /\ Covers(c, WalkOn(c))
    BY <1>1, <2>6, <2>7, ChangeCovers DEF NodeInv, WalkCovered
  <2>9. walk = NoWalk => walk' = NoWalk
    BY <1>2 DEF WalkOn
  <2>10. WalkCovered'
    BY <1>2, <2>4, <2>8, <2>9 DEF WalkCovered
  <2>11. QED
    BY <1>2, <2>10 DEF Entitled
<1>3. CASE broker' = broker /\ walk' = walk /\ answer'.status # 200 /\ ~answer'.released
  BY <1>3 DEF NodeInv, WalkCovered, Entitled
<1>4. QED
  BY <1>2, <1>3, PutSteps

LEMMA DeleteKeeps ==
    ASSUME NodeInv, NEW r \in OidRequest, Delete(r)
    PROVE  Entitled(broker', answer') /\ WalkCovered' /\ ~answer'.released
<1>1. broker \in Broker
  BY DEF NodeInv, Holding
<1>2. CASE /\ DeleteStep(r) /\ walk' = WalkOn(broker') /\ IsFound(SubjectOf(r))
           /\ answer' = Answered(r, SubjectOf(r).subject, 200, NoBody)
  <2>1. PICK o : o = r.oid
    OBVIOUS
  <2>2. o \in Oid /\ broker' = DeleteObject(broker, o)
    BY <1>2, <2>1 DEF DeleteStep, Stored
  <2>3. PICK c : c = broker'
    OBVIOUS
  <2>4. PICK e : e = NewEntry(broker, "DeleteObject", o)
    OBVIOUS
  <2>5. c \in Broker /\ c.journal = Append(broker.journal, e)
    BY <1>1, <2>2, <2>3, <2>4, DeleteFields
  <2>6. e \in Entry
    BY <1>1, <2>2, <2>4, BrokerAssumption
       DEF NewEntry, Entry, Operation, NextSequence, Sequence, Broker
  <2>7. walk # NoWalk => WalkTyped(WalkOn(c)) /\ Covers(c, WalkOn(c))
    BY <1>1, <2>5, <2>6, ChangeCovers DEF NodeInv, WalkCovered
  <2>8. walk = NoWalk => walk' = NoWalk
    BY <1>2 DEF WalkOn
  <2>9. WalkCovered'
    BY <1>2, <2>3, <2>7, <2>8 DEF WalkCovered
  <2>10. /\ answer'.to = SubjectOf(r).subject /\ answer'.headers = HeadersOf(r)
         /\ answer'.body.oids = {} /\ ~answer'.released
    BY <1>2 DEF Answered, NoBody, Body
  <2>11. Entitled(broker', answer')
    BY <1>2, <2>10, ResolvedIsNamed DEF Entitled
  <2>12. QED
    BY <2>9, <2>10, <2>11
<1>3. CASE broker' = broker /\ walk' = walk /\ answer'.status # 200 /\ ~answer'.released
  BY <1>3 DEF NodeInv, WalkCovered, Entitled
<1>4. QED
  BY <1>2, <1>3, DeleteSteps

\* A bulk load comes before anything was stored, and so before anything was answered.
LEMMA PublishKeeps ==
    ASSUME NodeInv, PublishOwn
    PROVE  Entitled(broker', answer') /\ WalkCovered'
<1>1. broker \in Broker /\ SoundBroker(broker) /\ Entitled(broker, answer)
  BY DEF NodeInv, Holding
<1>2. broker.journal = <<>> /\ walk' = WalkOn(broker') /\ answer' = answer
  BY DEF PublishOwn
<1>3. Stored(broker) = {}
  <2>1. \A o \in Oid : ~PutIn(broker, o)
    BY <1>2 DEF PutIn
  <2>2. QED
    BY <1>1, <2>1 DEF SoundBroker, Journalled
<1>4. Entitled(broker', answer')
  BY <1>1, <1>2, <1>3 DEF Entitled
<1>5. PICK c : c = broker'
  OBVIOUS
<1>6. walk # NoWalk => WalkTyped(WalkOn(c)) /\ Covers(c, WalkOn(c))
  BY <1>1, <1>2, LoadCovers DEF NodeInv, WalkCovered
<1>7. walk = NoWalk => walk' = NoWalk
  BY <1>2 DEF WalkOn
<1>8. WalkCovered'
  BY <1>2, <1>5, <1>6, <1>7 DEF WalkCovered
<1>9. QED
  BY <1>4, <1>8

LEMMA NodeStep ==
    ASSUME NodeInv, [Next]_vars
    PROVE  NodeInv'
<1>1. broker \in Broker
  BY DEF NodeInv, Holding
<1>2. (broker \in Holding(ToSet(Own) \cup Signed))'
  BY BrokerStepHolds DEF NodeInv
<1>3. Entitled(broker', answer') /\ WalkCovered'
  <2>1. CASE \E r \in PutRequest : Put(r)
    BY <2>1, PutKeeps
  <2>2. CASE PublishOwn
    BY <2>2, PublishKeeps
  <2>3. CASE \E r \in OidRequest : Get(r)
    <3>1. PICK r \in OidRequest : Get(r)
      BY <2>3
    <3>2. broker' = broker /\ walk' = walk
      BY <3>1 DEF Get
    <3>3. QED
      BY <3>1, <3>2, GetEntitled DEF NodeInv, WalkCovered
  <2>4. CASE \E r \in OidRequest : Delete(r)
    BY <2>4, DeleteKeeps
  <2>5. CASE \E r \in Reader : Sync(r)
    <3>1. PICK r \in Reader : Sync(r)
      BY <2>5
    <3>2. broker' = broker /\ walk' = walk
      BY <3>1 DEF Sync
    <3>3. QED
      BY <3>1, <3>2, SyncEntitled DEF NodeInv, WalkCovered
  <2>6. CASE \E r \in Reader : Open(r)
    <3>1. PICK r \in Reader : Open(r)
      BY <2>6
    <3>2. broker' = broker /\ walk' = walk
      BY <3>1 DEF Open
    <3>3. QED
      BY <3>1, <3>2, OpenEntitled DEF NodeInv, WalkCovered
  <2>7. CASE \E r \in QueryRequest : GetByFilter(r)
    <3>1. PICK r \in QueryRequest : GetByFilter(r)
      BY <2>7
    <3>2. broker' = broker /\ walk' = walk /\ answer' = QueryAnswer(r, r.query)
      BY <3>1 DEF GetByFilter
    <3>3. IsQuery(r.query)
      BY NodeAssumption DEF IsQuery
    <3>4. Entitled(broker, answer')
      BY <1>1, <3>2, <3>3, QueryAnswers
    <3>5. QED
      BY <3>2, <3>4 DEF NodeInv, WalkCovered
  <2>8. CASE \E r \in QueryRequest : StartWalk(r)
    <3>1. PICK r \in QueryRequest : StartWalk(r)
      BY <2>8
    <3>2. broker' = broker /\ answer' = answer
      BY <3>1 DEF StartWalk
    <3>3. WalkTyped(walk') /\ Covers(broker, walk')
      BY <1>1, <3>1, StartCovers
    <3>4. QED
      BY <3>2, <3>3 DEF NodeInv, WalkCovered
  <2>9. CASE NextPage
    <3>1. walk # NoWalk /\ broker' = broker
      BY <2>9 DEF NextPage
    <3>2. WalkTyped(walk') /\ Covers(broker, walk') /\ Entitled(broker, answer')
      BY <1>1, <2>9, <3>1, NextPageCovers DEF NodeInv, WalkCovered
    <3>3. QED
      BY <3>1, <3>2 DEF WalkCovered
  <2>10. CASE \E r \in ReleaseRequest : Release(r)
    BY <2>10 DEF Release, NodeInv, WalkCovered
  <2>11. CASE UNCHANGED vars
    BY <2>11 DEF vars, NodeInv, WalkCovered
  <2>12. QED
    BY <2>1, <2>2, <2>3, <2>4, <2>5, <2>6, <2>7, <2>8, <2>9, <2>10, <2>11 DEF Next
<1>4. QED
  BY <1>2, <1>3 DEF NodeInv

LEMMA AlwaysNodeInv == Spec => []NodeInv
<1>1. Init => NodeInv
  <2>1. ASSUME Init PROVE Entitled(broker, answer) /\ WalkCovered
    BY <2>1 DEF Init, Refusal, Entitled, WalkCovered
  <2>2. QED
    BY <2>1, InitHolds DEF NodeInv
<1>2. NodeInv /\ [Next]_vars => NodeInv'
  BY NodeStep
<1>3. QED
  BY <1>1, <1>2, PTL DEF Spec

\* Whoever is answered with an object is a subject that a credential of the request
\* names, and may read the object under the label it is stored with (routes.rs,
\* identity.rs, secured.rs).
THEOREM AnsweredAreEntitled == Spec => []ReadersAreEntitled
<1>1. NodeInv => ReadersAreEntitled
  BY DEF NodeInv, Entitled, ReadersAreEntitled
<1>2. QED
  BY <1>1, AlwaysNodeInv, PTL

\* A client that pages until the total has had every object its reader could read
\* all along, unless a match went away (broker.rs, secured.rs).
THEOREM WalksCover == Spec => []PagesCoverReadable
<1>1. NodeInv => PagesCoverReadable
  BY DEF NodeInv, WalkCovered, Covers, PagesCoverReadable
<1>2. QED
  BY <1>1, AlwaysNodeInv, PTL

-----------------------------------------------------------------------------
(* What a release carries.                                                  *)

Marked == [tag_name: CategoryName, category_type: CategoryType,
           values: SUBSET (Country \cup Caveat)]

\* A category as the guard's decision leaves it.
Narrowed(c, countries) ==
    IF c.tag_name = RELEASABLE THEN [c EXCEPT !.values = @ \cap countries] ELSE c

LEMMA NarrowedFields ==
    ASSUME NEW c \in Marked, NEW countries
    PROVE  LET n == Narrowed(c, countries)
           IN  /\ n \in Marked
               /\ n.tag_name = c.tag_name /\ n.category_type = c.category_type
               /\ n.values = IF c.tag_name = RELEASABLE THEN c.values \cap countries
                                                        ELSE c.values
BY DEF Narrowed, Marked

LEMMA DecisionLabels ==
    ASSUME NEW r
    PROVE  Permit(r).label = r /\ Downgrade(r).label = r
BY DEF Permit, Downgrade

\* The guard's subject holds no caveat, so that a label the guard lets through has no
\* restrictive category (pdp.rs, transfer.rs).
LEMMA LetThrough ==
    ASSUME NEW l, IsLabel(l), IsValid(l), NEW decided,
           decided = EvaluateCrossDomain(GuardSubject(l), Resource(l), NodeDomain,
                                         TargetDomain, TRUE),
           decided.effect \in {"permit", "downgrade"}
    PROVE  /\ \A c \in ToSet(l.categories) : c.category_type # "restrictive"
           /\ decided.label.classification \in Level
           /\ decided.label.releasable \subseteq ReleasableCountries(l)
           /\ decided.label = [classification |-> decided.label.classification,
                               releasable |-> decided.label.releasable, caveats |-> {}]
<1>1. PICK level : level = l.classification
  OBVIOUS
<1>2. PICK countries : countries = ReleasableCountries(l)
  OBVIOUS
<1>3. PICK caveats : caveats = RestrictiveValues(l)
  OBVIOUS
<1>4. PICK r : r = [classification |-> level, releasable |-> countries, caveats |-> caveats]
  OBVIOUS
<1>5. Resource(l) = r
  BY <1>1, <1>2, <1>3, <1>4 DEF Resource
<1>6. PICK s : s = GuardSubject(l)
  OBVIOUS
<1>7. level \in Level /\ TargetDomain.max_classification \in Level /\ s.caveats = {}
  BY <1>1, <1>6, NodeAssumption DEF IsLabel, Domain, GuardSubject
<1>8. /\ ~Refused(s, r, NodeDomain, TargetDomain)
      /\ decided = Permit(r) \/ decided = DowngradedLabel(r, TargetDomain)
  <2>1. decided = EvaluateCrossDomain(s, r, NodeDomain, TargetDomain, TRUE)
    BY <1>5, <1>6
  <2>2. Failure.effect = "error" /\ Deny.effect = "deny"
    BY DEF Failure, Deny
  <2>3. QED
    BY <2>1, <2>2 DEF EvaluateCrossDomain
<1>9. caveats = {}
  BY <1>4, <1>7, <1>8 DEF Refused, HoldsCaveats
<1>10. \A c \in ToSet(l.categories) : c.category_type # "restrictive"
  <2>1. \A c \in ToSet(l.categories) : c.values # {}
    BY DEF IsValid
  <2>2. QED
    BY <1>3, <1>9, <2>1 DEF RestrictiveValues, ValuesOf
<1>11. PICK x : x = decided.label
  OBVIOUS
<1>12. \E c \in Level : \E k \in SUBSET countries :
          x = [classification |-> c, releasable |-> k, caveats |-> {}]
  <2>1. CASE decided = Permit(r)
    <3>1. x = r
      BY <1>11, <2>1, DecisionLabels
    <3>2. QED
      BY <1>4, <1>7, <1>9, <3>1
  <2>2. CASE decided = DowngradedLabel(r, TargetDomain)
    <3>1. PICK top : top = TargetDomain.max_classification
      OBVIOUS
    <3>2. PICK kept : kept = KeptCountries(r, TargetDomain)
      OBVIOUS
    <3>3. kept \subseteq countries
      BY <1>4, <3>2 DEF KeptCountries
    <3>4. PICK down : down = [r EXCEPT !.classification = top, !.releasable = kept]
      OBVIOUS
    <3>5. down = [classification |-> top, releasable |-> kept, caveats |-> caveats]
      BY <1>4, <3>4
    <3>6. decided = Downgrade(down)
      <4>1. decided = Downgrade(down) \/ decided = Failure
        BY <2>2, <3>1, <3>2, <3>4 DEF DowngradedLabel
      <4>2. Failure.effect = "error"
        BY DEF Failure
      <4>3. QED
        BY <4>1, <4>2
    <3>7. x = down
      BY <1>11, <3>6, DecisionLabels
    <3>8. QED
      BY <1>7, <1>9, <3>1, <3>3, <3>5, <3>7
  <2>3. QED
    BY <1>8, <2>1, <2>2
<1>13. /\ x.classification \in Level /\ x.releasable \subseteq countries
       /\ x = [classification |-> x.classification, releasable |-> x.releasable,
               caveats |-> {}]
  BY <1>12
<1>14. QED
  BY <1>2, <1>10, <1>11, <1>13

\* The label on the package is, for every decision point that meets it, the one the
\* guard decided on (transfer.rs, downgrade.rs).
LEMMA EffectiveResource ==
    ASSUME NEW l, IsLabel(l), IsValid(l), NEW decided,
           decided = EvaluateCrossDomain(GuardSubject(l), Resource(l), NodeDomain,
                                         TargetDomain, TRUE),
           decided.effect \in {"permit", "downgrade"}
    PROVE  LET out == EffectiveLabel(l, decided.label)
           IN  Resource(out) = decided.label /\ out.classification \in Level
<1>1. PICK d : d = decided.label
  OBVIOUS
<1>2. /\ \A c \in ToSet(l.categories) : c.category_type # "restrictive"
      /\ d.classification \in Level /\ d.releasable \subseteq ReleasableCountries(l)
      /\ d = [classification |-> d.classification, releasable |-> d.releasable,
              caveats |-> {}]
  BY <1>1, LetThrough
<1>3. PICK cats : cats = l.categories
  OBVIOUS
<1>4. cats \in Seq(Marked) /\ {"classification", "categories"} \subseteq DOMAIN l
  BY <1>3 DEF IsLabel, Marked
<1>5. PICK kept : kept = [k \in DOMAIN cats |-> Narrowed(cats[k], d.releasable)]
  OBVIOUS
<1>6. kept \in Seq(Marked) /\ DOMAIN kept = DOMAIN cats
      /\ \A k \in DOMAIN cats : cats[k] \in Marked /\ kept[k] = Narrowed(cats[k], d.releasable)
  <2>1. Len(cats) \in Nat /\ DOMAIN cats = 1..Len(cats)
        /\ \A k \in DOMAIN cats : cats[k] \in Marked
    BY <1>4
  <2>2. \A k \in DOMAIN cats : Narrowed(cats[k], d.releasable) \in Marked
    BY <2>1, NarrowedFields
  <2>3. QED
    BY <1>5, <2>1, <2>2
<1>7. PICK S : S = {c \in ToSet(kept) : c.values # {}}
  OBVIOUS
<1>8. PICK out : out = EffectiveLabel(l, d)
  OBVIOUS
<1>9. out.classification = d.classification /\ out.categories = Only(kept, S)
  <2>1. out = [l EXCEPT !.classification = d.classification, !.categories = Only(kept, S)]
    BY <1>3, <1>5, <1>7, <1>8 DEF EffectiveLabel, Narrowed
  <2>2. QED
    BY <1>4, <2>1
<1>10. ToSet(out.categories) = S
  <2>1. ToSet(Only(kept, S)) = ToSet(kept) \cap S
    BY <1>6, OnlyElements
  <2>2. QED
    BY <1>7, <1>9, <2>1
<1>11. \A c \in S : \E k \in DOMAIN cats : c = Narrowed(cats[k], d.releasable)
  BY <1>6, <1>7 DEF ToSet
<1>12. \A k \in DOMAIN cats : cats[k] \in ToSet(l.categories)
  BY <1>3 DEF ToSet
<1>13. RestrictiveValues(out) = {}
  <2>1. ASSUME NEW c \in S PROVE c.category_type # "restrictive"
    <3>1. PICK k \in DOMAIN cats : c = Narrowed(cats[k], d.releasable)
      BY <1>11
    <3>2. cats[k] \in Marked
      BY <1>6
    <3>3. c.category_type = cats[k].category_type
      BY <3>1, <3>2, NarrowedFields
    <3>4. QED
      BY <1>2, <1>12, <3>3
  <2>2. QED
    BY <1>10, <2>1 DEF RestrictiveValues, ValuesOf
<1>14. ReleasableCountries(out) = d.releasable
  <2>1. ASSUME NEW x \in ReleasableCountries(out) PROVE x \in d.releasable
    <3>1. PICK c \in S : c.tag_name = RELEASABLE /\ x \in c.values
      BY <1>10, <2>1 DEF ReleasableCountries, ValuesOf
    <3>2. PICK k \in DOMAIN cats : c = Narrowed(cats[k], d.releasable)
      BY <1>11
    <3>3. cats[k] \in Marked
      BY <1>6
    <3>4. c.tag_name = cats[k].tag_name
          /\ (cats[k].tag_name = RELEASABLE => c.values = cats[k].values \cap d.releasable)
      BY <3>2, <3>3, NarrowedFields
    <3>5. QED
      BY <3>1, <3>4
  <2>2. ASSUME NEW x \in d.releasable PROVE x \in ReleasableCountries(out)
    <3>1. PICK b \in ToSet(cats) : b.tag_name = RELEASABLE /\ x \in b.values
      BY <1>2, <1>3, <2>2 DEF ReleasableCountries, ValuesOf
    <3>2. PICK k \in DOMAIN cats : cats[k] = b
      BY <3>1 DEF ToSet
    <3>3. PICK c : c = Narrowed(b, d.releasable)
      OBVIOUS
    <3>4. b \in Marked /\ kept[k] = c
      BY <1>6, <3>2, <3>3
    <3>5. c.tag_name = RELEASABLE /\ c.values = b.values \cap d.releasable
      <4>1. PICK D : D = d.releasable
        OBVIOUS
      <4>2. /\ Narrowed(b, D).tag_name = b.tag_name
            /\ Narrowed(b, D).values = IF b.tag_name = RELEASABLE THEN b.values \cap D
                                                                 ELSE b.values
        <5>1. b \in Marked
          BY <3>4
        <5>2. QED
          BY <5>1, NarrowedFields
      <4>3. QED
        BY <3>1, <3>3, <4>1, <4>2
    <3>6. x \in c.values /\ c \in ToSet(kept)
      <4>1. x \in c.values
        BY <2>2, <3>1, <3>5
      <4>2. k \in DOMAIN kept /\ kept[k] = c
        BY <1>6, <3>2, <3>4
      <4>3. QED
        BY <4>1, <4>2 DEF ToSet
    <3>7. c \in S
      BY <1>7, <3>6
    <3>8. QED
      BY <1>10, <3>5, <3>6, <3>7 DEF ReleasableCountries, ValuesOf
  <2>3. QED
    BY <2>1, <2>2
<1>15. Resource(out) = d
  BY <1>2, <1>9, <1>13, <1>14 DEF Resource
<1>16. QED
  BY <1>1, <1>2, <1>8, <1>9, <1>15

\* Whoever may open what was released is cleared for the label the guard put on it.
Guarded(p) ==
    \A r \in Reader :
        MayDecrypt(Sealed(p.zip), SubjectOf(r).subject, TargetDomain) =>
            MayAccess(SubjectOf(r).subject, p.label, TargetDomain)

\* ReceiversAreCleared alone says nothing of a package that nobody has opened yet.
Cleared ==
    /\ package # NoPackage => Guarded(package)
    /\ answer.released => package # NoPackage /\ MayAccess(answer.to, package.label, TargetDomain)

LEMMA ReleaseGuards ==
    ASSUME NEW r \in ReleaseRequest, Release(r)
    PROVE  Guarded(package')
<1>1. PICK l : l = r.label
  OBVIOUS
<1>2. PICK decided :
         decided = EvaluateCrossDomain(GuardSubject(l), Resource(l), NodeDomain, TargetDomain,
                                       TRUE)
  OBVIOUS
<1>3. PICK out : out = EffectiveLabel(l, decided.label)
  OBVIOUS
<1>4. PICK text :
         /\ CanExchangeLabelled(l) /\ decided.effect \in {"permit", "downgrade"}
         /\ CanPackage(out)
         /\ package' = [zip |-> Zipped(CreatedPackage(out, text, 1, NodeKey, Kas)),
                        label |-> decided.label]
  BY <1>1, <1>2, <1>3 DEF Release
<1>5. IsLabel(l) /\ IsValid(l)
  BY <1>1, <1>4, NodeAssumption DEF CanExchangeLabelled
<1>6. Resource(out) = decided.label /\ out.classification \in Level
  BY <1>2, <1>3, <1>4, <1>5, EffectiveResource
<1>7. IsValid(out)
  BY <1>4 DEF CanPackage, CanAssert
<1>8. PICK zip : zip = Zipped(CreatedPackage(out, text, 1, NodeKey, Kas))
  OBVIOUS
<1>9. \A q \in Reader :
         MayDecrypt(Sealed(zip), SubjectOf(q).subject, TargetDomain) =>
            MayAccess(SubjectOf(q).subject, Resource(out), TargetDomain)
  BY <1>6, <1>7, <1>8, SealedOpensForReaders
<1>10. package'.zip = zip /\ package'.label = decided.label
  BY <1>4, <1>8
<1>11. QED
  BY <1>6, <1>9, <1>10 DEF Guarded

LEMMA OpenClears ==
    ASSUME NEW r \in Reader, Open(r), Guarded(package)
    PROVE  answer'.released => MayAccess(answer'.to, package.label, TargetDomain)
<1>1. PICK s : s = SubjectOf(r).subject
  OBVIOUS
<1>2. CASE answer' = Refusal(403)
  BY <1>2 DEF Refusal
<1>3. CASE answer' # Refusal(403)
  <2>1. MayDecrypt(Sealed(package.zip), s, TargetDomain)
        /\ \E instances : answer' = [Answered(r, s, 200, Body({}, instances, 0))
                                        EXCEPT !.released = TRUE]
    BY <1>1, <1>3 DEF Open
  <2>2. answer'.to = s
    BY <2>1 DEF Answered
  <2>3. QED
    BY <1>1, <2>1, <2>2 DEF Guarded
<1>4. QED
  BY <1>2, <1>3

LEMMA ClearedStep ==
    ASSUME NodeInv, Cleared, [Next]_vars
    PROVE  Cleared'
<1>1. CASE \E r \in PutRequest : Put(r)
  <2>1. PICK r \in PutRequest : Put(r)
    BY <1>1
  <2>2. package' = package
    BY <2>1 DEF Put
  <2>3. QED
    BY <2>1, <2>2, PutKeeps DEF Cleared
<1>2. CASE PublishOwn
  BY <1>2 DEF PublishOwn, Cleared
<1>3. CASE \E r \in OidRequest : Get(r)
  <2>1. PICK r \in OidRequest : Get(r)
    BY <1>3
  <2>2. package' = package
    BY <2>1 DEF Get
  <2>3. QED
    BY <2>1, <2>2, GetEntitled DEF Cleared
<1>4. CASE \E r \in OidRequest : Delete(r)
  <2>1. PICK r \in OidRequest : Delete(r)
    BY <1>4
  <2>2. package' = package
    BY <2>1 DEF Delete
  <2>3. QED
    BY <2>1, <2>2, DeleteKeeps DEF Cleared
<1>5. CASE \E r \in Reader : Sync(r)
  <2>1. PICK r \in Reader : Sync(r)
    BY <1>5
  <2>2. package' = package
    BY <2>1 DEF Sync
  <2>3. QED
    BY <2>1, <2>2, SyncEntitled DEF Cleared
<1>6. CASE \E r \in Reader : Open(r)
  <2>1. PICK r \in Reader : Open(r)
    BY <1>6
  <2>2. package' = package /\ package # NoPackage
    BY <2>1 DEF Open
  <2>3. QED
    BY <2>1, <2>2, OpenClears DEF Cleared
<1>7. CASE \E r \in QueryRequest : GetByFilter(r)
  <2>1. PICK r \in QueryRequest : GetByFilter(r)
    BY <1>7
  <2>2. package' = package /\ answer' = QueryAnswer(r, r.query)
    BY <2>1 DEF GetByFilter
  <2>3. broker \in Broker /\ IsQuery(r.query)
    BY NodeAssumption DEF NodeInv, Holding, IsQuery
  <2>4. ~answer'.released
    BY <2>2, <2>3, QueryAnswers
  <2>5. QED
    BY <2>2, <2>4 DEF Cleared
<1>8. CASE \E r \in QueryRequest : StartWalk(r)
  BY <1>8 DEF StartWalk, Cleared
<1>9. CASE NextPage
  <2>1. package' = package /\ walk # NoWalk
    BY <1>9 DEF NextPage
  <2>2. ~answer'.released
    BY <1>9, <2>1, NextPageCovers DEF NodeInv, Holding, WalkCovered
  <2>3. QED
    BY <2>1, <2>2 DEF Cleared
<1>10. CASE \E r \in ReleaseRequest : Release(r)
  <2>1. PICK r \in ReleaseRequest : Release(r)
    BY <1>10
  <2>2. package = NoPackage /\ answer' = answer
    BY <2>1 DEF Release
  <2>3. ~answer.released
    BY <2>2 DEF Cleared
  <2>4. QED
    BY <2>1, <2>2, <2>3, ReleaseGuards DEF Cleared
<1>11. CASE UNCHANGED vars
  BY <1>11 DEF vars, Cleared
<1>12. QED
  BY <1>1, <1>2, <1>3, <1>4, <1>5, <1>6, <1>7, <1>8, <1>9, <1>10, <1>11 DEF Next

\* Whoever opens a release is cleared, in the domain it was released to, for the label
\* the guard put on it, although the package carries only what the manifest's JSON
\* keeps of that label (transfer.rs, package.rs, json.rs).
THEOREM OpenersAreCleared == Spec => []ReceiversAreCleared
<1>1. Init => Cleared
  BY DEF Init, Refusal, Cleared
<1>2. NodeInv /\ Cleared /\ [Next]_vars => Cleared'
  BY ClearedStep
<1>3. Cleared => ReceiversAreCleared
  BY DEF Cleared, ReceiversAreCleared
<1>4. QED
  BY <1>1, <1>2, <1>3, AlwaysNodeInv, PTL DEF Spec

=============================================================================

-------------------------- MODULE QueryCacheProofs --------------------------
(***************************************************************************)
(* Proofs about QueryCache, for any number of calls, keys and entries and  *)
(* any TTL: how fresh a reader's answer is, and the bound on the cache.    *)
(***************************************************************************)
EXTENDS QueryCache, FiniteSetTheorems, TLAPS

\* put keeps the other entries as they are, and adds no other key.
LEMMA StoredEntries ==
    ASSUME NEW k, NEW entry, cache' \in Stored(k, entry),
           NEW q \in DOMAIN cache'
    PROVE  \/ q \in DOMAIN cache /\ cache'[q] = cache[q]
           \/ q = k /\ cache'[q] = entry /\ Ttl # 0
<1>1. CASE Ttl = 0
  BY <1>1 DEF Stored
<1>2. CASE Ttl # 0
  <2>1. PICK ks \in Evictions :
           cache' = [p \in (DOMAIN cache \ ks) \cup {k} |-> IF p = k THEN entry ELSE cache[p]]
    BY <1>2 DEF Stored
  <2>2. q \in (DOMAIN cache \ ks) \cup {k}
    BY <2>1
  <2>3. cache'[q] = IF q = k THEN entry ELSE cache[q]
    BY <2>1, <2>2
  <2>4. QED
    BY <1>2, <2>2, <2>3
<1>3. QED
  BY <1>1, <1>2

\* Clearing, and dropping one key, leave the other entries as they are.
LEMMA WithoutEntries ==
    ASSUME NEW ks
    PROVE  /\ DOMAIN Without(cache, ks) = DOMAIN cache \ ks
           /\ \A q \in DOMAIN cache \ ks : Without(cache, ks)[q] = cache[q]
  BY DEF Without

\* A step that adds no entry, acknowledges nothing, changes nothing in the
\* world and leaves the calls that fetched entries alone keeps EntryInv.
LEMMA EntriesUndisturbed ==
    ASSUME TypeOK, EntryInv,
           \A q \in DOMAIN cache' : q \in DOMAIN cache /\ cache'[q] = cache[q],
           Acknowledged' = Acknowledged, world' = world, when' = when, over' = over,
           took' = took, now' = now,
           \A r \in Reads : pc[r] = "answered" => pc'[r] = "answered"
    PROVE  EntryInv'
  BY DEF EntryInv, TypeOK, Entries

LEMMA InitInv == Init => IInv
<1> SUFFICES ASSUME Init PROVE IInv
  OBVIOUS
<1>1. DOMAIN cache = {}
  BY DEF Init
<1>2. TypeOK
  BY <1>1 DEF Init, TypeOK
<1>3. Acknowledged = {}
  BY DEF Init, Acknowledged
<1>4. WorldInv /\ ReadInv /\ EntryInv
  BY <1>1, <1>3 DEF Init, WorldInv, ReadInv, EntryInv
<1>5. QED
  BY <1>2, <1>4 DEF IInv

LEMMA StepInv == IInv /\ [Next]_vars => IInv'
<1> SUFFICES ASSUME IInv, [Next]_vars PROVE IInv'
  OBVIOUS
<1>0. TypeOK /\ WorldInv /\ ReadInv /\ EntryInv
  BY DEF IInv
<1> USE DEF history
<1>1. ASSUME NEW r \in Reads, Hit(r) PROVE IInv'
  <2>1. key[r] \in DOMAIN cache /\ cache[key[r]] \in Entries
    BY <1>0, <1>1 DEF Hit, Fresh, TypeOK
  <2>2. TypeOK'
    BY <1>0, <1>1, <2>1 DEF Hit, TypeOK, Acknowledged, Changes, Entries
  <2>3. Acknowledged' = Acknowledged
    BY <1>0, <1>1, ConstantsAssumption DEF Hit, TypeOK, Acknowledged
  <2>4. WorldInv' /\ ReadInv'
    BY <1>0, <1>1, <2>3 DEF Hit, TypeOK, WorldInv, ReadInv
  <2>5. EntryInv'
    BY <1>0, <1>1, <2>3, EntriesUndisturbed DEF Hit, TypeOK
  <2>6. QED
    BY <2>2, <2>4, <2>5 DEF IInv
<1>2. ASSUME NEW r \in Reads, Miss(r) PROVE IInv'
  <2>1. \A q \in DOMAIN cache' : q \in DOMAIN cache /\ cache'[q] = cache[q]
    BY <1>2, WithoutEntries DEF Miss
  <2>2. TypeOK'
    BY <1>0, <1>2, <2>1 DEF Miss, TypeOK, Acknowledged, Changes
  <2>3. Acknowledged' = Acknowledged
    BY <1>0, <1>2, ConstantsAssumption DEF Miss, TypeOK, Acknowledged
  <2>4. WorldInv' /\ ReadInv'
    BY <1>0, <1>2, <2>3 DEF Miss, TypeOK, WorldInv, ReadInv
  <2>5. EntryInv'
    BY <1>0, <1>2, <2>1, <2>3, EntriesUndisturbed DEF Miss, TypeOK
  <2>6. QED
    BY <2>2, <2>4, <2>5 DEF IInv
<1>3. ASSUME NEW r \in Reads, Look(r) PROVE IInv'
  <2>1. TypeOK'
    BY <1>0, <1>3 DEF Look, TypeOK
  <2>2. Acknowledged' = Acknowledged
    BY <1>0, <1>3, ConstantsAssumption DEF Look, TypeOK, Acknowledged
  <2>3. WorldInv' /\ ReadInv'
    BY <1>0, <1>3, <2>2 DEF Look, TypeOK, WorldInv, ReadInv
  <2>4. EntryInv'
    BY <1>0, <1>3, <2>2, EntriesUndisturbed DEF Look, TypeOK
  <2>5. QED
    BY <2>1, <2>3, <2>4 DEF IInv
<1>4. ASSUME NEW r \in Reads, Store(r) PROVE IInv'
  <2> DEFINE entry == [expires |-> now + Ttl, value |-> value[r], from |-> r]
  <2>1. \A q \in DOMAIN cache' :
            \/ q \in DOMAIN cache /\ cache'[q] = cache[q]
            \/ q = key[r] /\ cache'[q] = entry
    BY <1>4, StoredEntries DEF Store
  <2>2. entry \in Entries /\ key[r] \in Keys
    BY <1>0, ConstantsAssumption DEF TypeOK, Entries
  <2>3. took'[r] = now - looked[r] /\ took'[r] \in Nat
    BY <1>0, <1>4 DEF Store, TypeOK, ReadInv
  <2>4. TypeOK'
    <3>1. DOMAIN cache' \subseteq Keys /\ \A k \in DOMAIN cache' : cache'[k] \in Entries
      BY <1>0, <2>1, <2>2 DEF TypeOK
    <3>2. QED
      BY <1>0, <1>4, <2>3, <3>1 DEF Store, TypeOK
  <2>5. Acknowledged' = Acknowledged
    BY <1>0, <1>4, ConstantsAssumption DEF Store, TypeOK, Acknowledged
  <2>6. WorldInv' /\ ReadInv'
    BY <1>0, <1>4, <2>5 DEF Store, TypeOK, WorldInv, ReadInv
  <2>7. EntryInv'
    <3> SUFFICES ASSUME NEW k \in DOMAIN cache'
                 PROVE  /\ pc'[cache'[k].from] = "answered"
                        /\ Acknowledged' \subseteq cache'[k].value \cup over'[cache'[k].from]
                        /\ cache'[k].expires <= now' + Ttl
                        /\ \A x \in world' \ cache'[k].value :
                              cache'[k].expires <= when'[x] + took'[cache'[k].from] + Ttl
      BY DEF EntryInv
    <3>1. CASE k \in DOMAIN cache /\ cache'[k] = cache[k]
      <4>1. cache[k].from \in Reads /\ cache[k].from # r
        BY <1>0, <1>4, <3>1 DEF Store, TypeOK, Entries, EntryInv
      <4>2. took'[cache[k].from] = took[cache[k].from] /\ pc'[cache[k].from] = pc[cache[k].from]
        BY <1>0, <1>4, <4>1 DEF Store, TypeOK
      <4>3. QED
        BY <1>0, <1>4, <2>5, <3>1, <4>2 DEF Store, EntryInv
    <3>2. CASE k = key[r] /\ cache'[k] = entry
      <4>1. pc'[r] = "answered"
        BY <1>0, <1>4 DEF Store, TypeOK
      <4>2. Acknowledged \subseteq value[r] \cup over[r]
        BY <1>0, <1>4 DEF Store, ReadInv
      <4>3. ASSUME NEW x \in world \ value[r]
            PROVE  now + Ttl <= when[x] + took'[r] + Ttl
        <5>1. looked[r] <= when[x] /\ looked[r] \in Nat /\ when[x] \in Nat /\ now \in Nat /\ Ttl \in Nat
          BY <1>0, <1>4, ConstantsAssumption DEF Store, ReadInv, TypeOK
        <5>2. QED
          BY <5>1, <2>3
      <4>4. now + Ttl <= now' + Ttl
        BY <1>0, <1>4, ConstantsAssumption DEF Store, TypeOK
      <4>5. QED
        BY <1>4, <2>5, <3>2, <4>1, <4>2, <4>3, <4>4 DEF Store
    <3>3. QED
      BY <2>1, <3>1, <3>2
  <2>8. QED
    BY <2>4, <2>6, <2>7 DEF IInv
<1>5. ASSUME NEW r \in Reads, Fail(r) PROVE IInv'
  <2>1. TypeOK'
    BY <1>0, <1>5 DEF Fail, TypeOK
  <2>2. Acknowledged' = Acknowledged
    BY <1>0, <1>5, ConstantsAssumption DEF Fail, TypeOK, Acknowledged
  <2>3. WorldInv' /\ ReadInv'
    BY <1>0, <1>5, <2>2 DEF Fail, TypeOK, WorldInv, ReadInv
  <2>4. EntryInv'
    BY <1>0, <1>5, <2>2, EntriesUndisturbed DEF Fail, TypeOK
  <2>5. QED
    BY <2>1, <2>3, <2>4 DEF IInv
<1>6. ASSUME NEW w \in Writes, Send(w) \/ Reject(w) PROVE IInv'
  <2>1. TypeOK'
    BY <1>0, <1>6 DEF Send, Reject, TypeOK
  <2>2. Acknowledged' = Acknowledged
    BY <1>0, <1>6 DEF Send, Reject, TypeOK, Acknowledged
  <2>3. \A r \in Reads : pc'[r] = pc[r]
    BY <1>0, <1>6, ConstantsAssumption DEF Send, Reject, TypeOK
  <2>4. WorldInv' /\ ReadInv'
    BY <1>0, <1>6, <2>2, <2>3 DEF Send, Reject, WorldInv, ReadInv
  <2>5. EntryInv'
    BY <1>0, <1>6, <2>2, <2>3, EntriesUndisturbed DEF Send, Reject
  <2>6. QED
    BY <2>1, <2>4, <2>5 DEF IInv
<1>7. ASSUME NEW w \in Writes, Acknowledge(w) PROVE IInv'
  <2>1. \A q \in DOMAIN cache' : w \in Silent /\ q \in DOMAIN cache /\ cache'[q] = cache[q]
    BY <1>0, <1>7, WithoutEntries DEF Acknowledge, TypeOK
  <2>2. TypeOK'
    BY <1>0, <1>7, <2>1 DEF Acknowledge, TypeOK, Changes
  <2>3. /\ Acknowledged \subseteq Acknowledged'
        /\ Acknowledged' \subseteq Acknowledged \cup {w}
        /\ w \in Silent => Acknowledged' = Acknowledged
        /\ w \in world
    BY <1>0, <1>7 DEF Acknowledge, TypeOK, Acknowledged
  <2>4. \A r \in Reads : pc'[r] = pc[r]
    BY <1>0, <1>7, ConstantsAssumption DEF Acknowledge, TypeOK
  <2>5. WorldInv'
    BY <1>0, <1>7, <2>3 DEF Acknowledge, WorldInv
  <2>6. ReadInv'
    BY <1>0, <1>7, <2>3, <2>4 DEF Acknowledge, ReadInv
  <2>7. EntryInv'
    <3>1. \A r \in Reads : over[r] \subseteq over'[r]
      BY <1>7 DEF Acknowledge
    <3>2. QED
      BY <1>0, <1>7, <2>1, <2>3, <2>4, <3>1 DEF Acknowledge, EntryInv, TypeOK, Entries
  <2>8. QED
    BY <2>2, <2>5, <2>6, <2>7 DEF IInv
<1>8. ASSUME NEW x \in Changes, Happen(x) PROVE IInv'
  <2>1. TypeOK'
    BY <1>0, <1>8 DEF Happen, TypeOK
  <2>2. Acknowledged' = Acknowledged
    BY <1>8 DEF Happen, Acknowledged
  <2>3. \A y \in world' : \/ y = x /\ when'[y] = now
                          \/ y \in world /\ when'[y] = when[y]
    <3>1. world' = world \cup {x} /\ x \notin world /\ when' = [when EXCEPT ![x] = now]
      BY <1>8 DEF Happen
    <3>2. world \subseteq Changes /\ when \in [Changes -> Nat]
      BY <1>0 DEF TypeOK
    <3>3. QED
      BY <3>1, <3>2
  <2>4. WorldInv'
    BY <1>0, <1>8, <2>2, <2>3 DEF Happen, WorldInv, TypeOK
  <2>5. ReadInv'
    <3> SUFFICES ASSUME NEW r \in Reads, pc[r] = "looked"
                 PROVE  \A y \in world' \ value[r] : looked[r] <= when'[y]
      BY <1>0, <1>8, <2>2 DEF Happen, ReadInv
    <3>1. QED
      BY <1>0, <2>3 DEF ReadInv
  <2>6. EntryInv'
    <3> SUFFICES ASSUME NEW k \in DOMAIN cache, NEW y \in world' \ cache[k].value
                 PROVE  cache[k].expires <= when'[y] + took[cache[k].from] + Ttl
      BY <1>0, <1>8, <2>2 DEF Happen, EntryInv
    <3>1. CASE y \in world /\ when'[y] = when[y]
      BY <1>0, <3>1 DEF EntryInv
    <3>2. CASE when'[y] = now
      <4>1. cache[k].expires <= now + Ttl /\ took[cache[k].from] \in Nat
        BY <1>0 DEF EntryInv, TypeOK, Entries
      <4>2. cache[k].expires \in Nat /\ now \in Nat /\ Ttl \in Nat
        BY <1>0, ConstantsAssumption DEF TypeOK, Entries
      <4>3. QED
        BY <3>2, <4>1, <4>2
    <3>3. QED
      BY <2>3, <3>1, <3>2
  <2>7. QED
    BY <2>1, <2>4, <2>5, <2>6 DEF IInv
<1>9. CASE Tick
  <2>1. Acknowledged' = Acknowledged
    BY <1>9 DEF Tick, Acknowledged
  <2>2. TypeOK' /\ WorldInv' /\ ReadInv'
    BY <1>0, <1>9, <2>1 DEF Tick, TypeOK, WorldInv, ReadInv
  <2>3. EntryInv'
    <3>1. \A k \in DOMAIN cache : cache[k].expires <= now' + Ttl
      BY <1>0, <1>9, ConstantsAssumption DEF Tick, EntryInv, TypeOK, Entries
    <3>2. QED
      BY <1>0, <1>9, <2>1, <3>1 DEF Tick, EntryInv
  <2>4. QED
    BY <2>2, <2>3 DEF IInv
<1>10. CASE UNCHANGED vars
  <2>1. Acknowledged' = Acknowledged
    BY <1>10 DEF vars, Acknowledged
  <2>2. QED
    BY <1>0, <1>10, <2>1 DEF vars, IInv, TypeOK, WorldInv, ReadInv, EntryInv
<1>11. QED
  BY <1>1, <1>2, <1>3, <1>4, <1>5, <1>6, <1>7, <1>8, <1>9, <1>10 DEF Next

THEOREM Invariance == Spec => []IInv
<1>1. QED
  BY InitInv, StepInv, PTL DEF Spec

\* An answer, once given, stays, and only a hit or a store gives one.
LEMMA AnswerStep ==
    ASSUME TypeOK, [Next]_vars, NEW r \in Reads
    PROVE  /\ over[r] \subseteq over'[r]
           /\ pc[r] = "answered" =>
                 before'[r] = before[r] /\ value'[r] = value[r] /\ source'[r] = source[r]
           /\ pc[r] # "answered" /\ pc'[r] = "answered" => Hit(r) \/ Store(r)
<1> DEFINE Stays == /\ over[r] \subseteq over'[r]
                    /\ pc[r] = "answered" =>
                         before'[r] = before[r] /\ value'[r] = value[r] /\ source'[r] = source[r]
                    /\ pc[r] # "answered" /\ pc'[r] = "answered" => Hit(r) \/ Store(r)
<1> USE DEF TypeOK, history
<1>1. ASSUME NEW s \in Reads, Hit(s) PROVE Stays
  <2>1. CASE s = r
    BY <1>1, <2>1 DEF Hit
  <2>2. CASE s # r
    BY <1>1, <2>2 DEF Hit
  <2>3. QED
    BY <2>1, <2>2
<1>2. ASSUME NEW s \in Reads, Miss(s) PROVE Stays
  BY <1>2 DEF Miss
<1>3. ASSUME NEW s \in Reads, Look(s) PROVE Stays
  BY <1>3 DEF Look
<1>4. ASSUME NEW s \in Reads, Store(s) PROVE Stays
  <2>1. CASE s = r
    BY <1>4, <2>1 DEF Store
  <2>2. CASE s # r
    BY <1>4, <2>2 DEF Store
  <2>3. QED
    BY <2>1, <2>2
<1>5. ASSUME NEW s \in Reads, Fail(s) PROVE Stays
  BY <1>5 DEF Fail
<1>6. ASSUME NEW w \in Writes, Send(w) \/ Acknowledge(w) \/ Reject(w) PROVE Stays
  BY <1>6, ConstantsAssumption DEF Send, Acknowledge, Reject
<1>7. ASSUME NEW x \in Changes, Happen(x) PROVE Stays
  BY <1>7 DEF Happen
<1>8. CASE Tick \/ UNCHANGED vars
  BY <1>8 DEF Tick, vars
<1>9. Stays
  BY <1>1, <1>2, <1>3, <1>4, <1>5, <1>6, <1>7, <1>8 DEF Next
<1>10. QED
  BY <1>9

\* A hit is an answer of a read that was called before it, so what it lacks
\* of the acknowledged mutations overtook that read.
LEMMA OwnWritesStep == IInv /\ OwnWritesAreSeen /\ [Next]_vars => OwnWritesAreSeen'
<1> SUFFICES ASSUME IInv, OwnWritesAreSeen, [Next]_vars,
                    NEW r \in Reads, pc'[r] = "answered"
             PROVE  before'[r] \subseteq value'[r] \cup over'[source'[r]]
  BY DEF OwnWritesAreSeen
<1>0. TypeOK /\ ReadInv /\ EntryInv
  BY DEF IInv
<1>1. \A s \in Reads : over[s] \subseteq over'[s]
  BY <1>0, AnswerStep
<1>2. CASE pc[r] = "answered"
  <2>1. before'[r] = before[r] /\ value'[r] = value[r] /\ source'[r] = source[r]
    BY <1>0, <1>2, AnswerStep
  <2>2. source[r] \in Reads
    BY <1>0 DEF TypeOK
  <2>3. QED
    BY <1>1, <1>2, <2>1, <2>2 DEF OwnWritesAreSeen
<1>3. CASE pc[r] # "answered" /\ Hit(r)
  <2>1. key[r] \in DOMAIN cache
    BY <1>3 DEF Hit, Fresh
  <2>2. Acknowledged \subseteq cache[key[r]].value \cup over[cache[key[r]].from]
    BY <1>0, <2>1 DEF EntryInv
  <2>3. /\ before'[r] = Acknowledged /\ value'[r] = cache[key[r]].value
        /\ source'[r] = cache[key[r]].from /\ over' = over
    BY <1>0, <1>3 DEF Hit, TypeOK
  <2>4. QED
    BY <2>2, <2>3
<1>4. CASE pc[r] # "answered" /\ Store(r)
  <2>1. before[r] \subseteq value[r] \cup over[r] /\ source[r] = r
    BY <1>0, <1>4 DEF Store, ReadInv
  <2>2. QED
    BY <1>0, <1>4, <2>1 DEF Store
<1>5. QED
  BY <1>0, <1>2, <1>3, <1>4, AnswerStep

\* What a caller reads lacks none of the mutations acknowledged to it before,
\* unless a read that was overtaken by one of them fetched it.
THEOREM ReadersSeeAcknowledgedWrites == Spec => []OwnWritesAreSeen
<1>1. Init => OwnWritesAreSeen
  BY DEF Init, OwnWritesAreSeen
<1>2. QED
  BY <1>1, Invariance, OwnWritesStep, PTL DEF Spec

\* A change nobody announced is hidden for at most one TTL and one fetch.
THEOREM StalenessIsBounded == Spec => HitsAreRecent
<1>1. IInv /\ [Next]_vars =>
        [\A r \in Reads : pc[r] = "idle" /\ pc'[r] = "answered" =>
          \A x \in world \ value'[r] : now <= when[x] + took[source'[r]] + Ttl]_vars
  <2> SUFFICES ASSUME IInv, Next, NEW r \in Reads, pc[r] = "idle", pc'[r] = "answered",
                      NEW x \in world \ value'[r]
               PROVE  now <= when[x] + took[source'[r]] + Ttl
    OBVIOUS
  <2>0. TypeOK /\ EntryInv
    BY DEF IInv
  <2>1. Hit(r)
    BY <2>0, AnswerStep DEF Store
  <2>2. key[r] \in DOMAIN cache /\ now <= cache[key[r]].expires
    BY <2>1 DEF Hit, Fresh
  <2>3. value'[r] = cache[key[r]].value /\ source'[r] = cache[key[r]].from
    BY <2>0, <2>1 DEF Hit, TypeOK
  <2>4. cache[key[r]].expires <= when[x] + took[source'[r]] + Ttl
    BY <2>0, <2>2, <2>3 DEF EntryInv
  <2>5. /\ now \in Nat /\ cache[key[r]].expires \in Nat /\ Ttl \in Nat
        /\ when[x] \in Nat /\ took[source'[r]] \in Nat
    BY <2>0, <2>2, <2>3, ConstantsAssumption DEF TypeOK, Entries
  <2>6. QED
    BY <2>2, <2>4, <2>5
<1>2. QED
  BY <1>1, Invariance, PTL DEF Spec, HitsAreRecent

\* Dropping entries, and putting one after making room for it, keep the bound.
LEMMA FewerEntries ==
    ASSUME TypeOK, Bounded, DOMAIN cache' \subseteq DOMAIN cache
    PROVE  Bounded'
<1>1. IsFiniteSet(DOMAIN cache)
  BY ConstantsAssumption, FS_Subset DEF TypeOK
<1>2. /\ Cardinality(DOMAIN cache') <= Cardinality(DOMAIN cache)
      /\ Cardinality(DOMAIN cache') \in Nat /\ Cardinality(DOMAIN cache) \in Nat
  BY <1>1, FS_Subset, FS_CardinalityType
<1>3. QED
  BY <1>2, ConstantsAssumption DEF Bounded

LEMMA OneMoreEntry ==
    ASSUME TypeOK, Bounded, NEW k, NEW entry, cache' \in Stored(k, entry)
    PROVE  Bounded'
<1>1. IsFiniteSet(DOMAIN cache) /\ Cardinality(DOMAIN cache) \in Nat
  BY ConstantsAssumption, FS_Subset, FS_CardinalityType DEF TypeOK
<1>2. CASE Ttl = 0
  BY <1>2 DEF Stored, Bounded
<1>3. CASE Ttl # 0
  <2>1. PICK ks \in Evictions : DOMAIN cache' = (DOMAIN cache \ ks) \cup {k}
    BY <1>3 DEF Stored
  <2> DEFINE kept == DOMAIN cache \ ks
  <2>2. IsFiniteSet(kept) /\ Cardinality(kept) \in Nat /\ Cardinality(kept) < MaxEntries
    <3>1. CASE Cardinality(DOMAIN cache) < MaxEntries
      <4>1. ks = {}
        BY <2>1, <3>1 DEF Evictions
      <4>2. QED
        BY <1>1, <3>1, <4>1
    <3>2. CASE ~(Cardinality(DOMAIN cache) < MaxEntries)
      <4>1. PICK o \in DOMAIN cache : ks = {o}
        BY <2>1, <3>2 DEF Evictions
      <4>2. Cardinality(kept) = Cardinality(DOMAIN cache) - 1 /\ IsFiniteSet(kept)
        BY <1>1, <4>1, FS_RemoveElement
      <4>3. Cardinality(kept) \in Nat
        BY <4>2, FS_CardinalityType
      <4>4. QED
        BY <1>1, <4>2, <4>3, ConstantsAssumption DEF Bounded
    <3>3. QED
      BY <3>1, <3>2
  <2>3. /\ Cardinality(kept \cup {k}) <= Cardinality(kept) + 1
        /\ Cardinality(kept \cup {k}) \in Nat
    <3>1. /\ IsFiniteSet(kept \cup {k})
          /\ Cardinality(kept \cup {k}) = IF k \in kept THEN Cardinality(kept)
                                         ELSE Cardinality(kept) + 1
      BY <2>2, FS_AddElement
    <3>2. Cardinality(kept \cup {k}) \in Nat
      BY <3>1, FS_CardinalityType
    <3>3. QED
      BY <2>2, <3>1, <3>2
  <2>4. QED
    BY <2>1, <2>2, <2>3, ConstantsAssumption DEF Bounded
<1>4. QED
  BY <1>2, <1>3

LEMMA BoundedStep == TypeOK /\ Bounded /\ [Next]_vars => Bounded'
<1> SUFFICES ASSUME TypeOK, Bounded, [Next]_vars PROVE Bounded'
  OBVIOUS
<1>1. ASSUME NEW r \in Reads, Store(r) PROVE Bounded'
  BY <1>1, OneMoreEntry DEF Store
<1>2. ASSUME NEW r \in Reads, Miss(r) PROVE Bounded'
  BY <1>2, WithoutEntries, FewerEntries DEF Miss
<1>3. ASSUME NEW w \in Writes, Acknowledge(w) PROVE Bounded'
  BY <1>3, WithoutEntries, FewerEntries DEF Acknowledge
<1>4. CASE UNCHANGED cache
  BY <1>4, FewerEntries
<1>5. QED
  BY <1>1, <1>2, <1>3, <1>4
     DEF Next, Hit, Look, Fail, Send, Reject, Happen, Tick, vars

\* The cache never grows past max_entries.
THEOREM CacheIsBounded == Spec => []Bounded
<1>1. Init => Bounded
  <2>1. Init => DOMAIN cache = {}
    BY DEF Init
  <2>2. QED
    BY <2>1, FS_EmptySet, ConstantsAssumption DEF Bounded
<1>2. IInv => TypeOK
  BY DEF IInv
<1>3. QED
  BY <1>1, <1>2, Invariance, BoundedStep, PTL DEF Spec
=============================================================================

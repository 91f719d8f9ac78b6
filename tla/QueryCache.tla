----------------------------- MODULE QueryCache -----------------------------
(***************************************************************************)
(* The query cache of cache.py as on_call_tool of server.py uses it.       *)
(* Handlers of the event loop interleave at their one await, the tool      *)
(* handler; looking up, storing and clearing are atomic.                   *)
(*                                                                         *)
(* What a read returns is abstracted to what it has seen: the set of       *)
(* changes, by mutating calls or by Slurm itself, that had taken effect    *)
(* when the remote command looked.                                         *)
(***************************************************************************)
EXTENDS Naturals, FiniteSets

CONSTANTS
    Reads,        \* calls of cacheable tools: read-only and idempotent
    Writes,       \* calls of tools that change something
    Silent,       \* the Writes after which nothing is invalidated (hpc.job.run)
    Events,       \* changes from outside: a job starts, ends
    Keys,         \* tool name and normalised arguments
    MaxEntries,   \* max_entries
    Ttl,          \* ttl_seconds
    MaxTime       \* bound of the clock

ASSUME ConstantsAssumption ==
    /\ Silent \subseteq Writes
    /\ Reads \cap Writes = {} /\ Writes \cap Events = {}
    /\ IsFiniteSet(Keys)
    /\ MaxEntries \in Nat \ {0}
    /\ Ttl \in Nat
    /\ MaxTime \in Nat

VARIABLES
    cache,    \* _data: an entry for some of the keys
    now,      \* the monotonic clock
    pc,       \* where each call stands
    key,      \* key[r]: the key of read r
    value,    \* value[r]: what read r saw or was given
    world,    \* the changes that have taken effect
    \* History, which the code does not keep:
    when,     \* when[x]: the time change x took effect
    looked,   \* looked[r]: the time the remote command of r looked
    took,     \* took[r]: the time between looking and storing
    source,   \* source[r]: the read that fetched what r answers
    before,   \* before[r]: changes acknowledged when r was called
    over      \* over[r]: changes acknowledged while r was in its handler

history == <<when, looked, took, source, before, over>>
vars == <<cache, now, pc, key, value, world, history>>

Changes == Writes \cup Events
Entries == [expires : Nat, value : SUBSET Changes, from : Reads]

TypeOK ==
    /\ DOMAIN cache \subseteq Keys
    /\ \A k \in DOMAIN cache : cache[k] \in Entries
    /\ now \in Nat
    /\ pc \in [Reads \cup Writes -> {"idle", "handler", "looked", "answered", "failed"}]
    /\ key \in [Reads -> Keys]
    /\ value \in [Reads -> SUBSET Changes]
    /\ world \in SUBSET Changes
    /\ when \in [Changes -> Nat]
    /\ looked \in [Reads -> Nat]
    /\ took \in [Reads -> Nat]
    /\ source \in [Reads -> Reads]
    /\ before \in [Reads -> SUBSET Changes]
    /\ over \in [Reads -> SUBSET Changes]

Init ==
    /\ cache = [k \in {} |-> <<>>]
    /\ now = 0
    /\ pc = [c \in Reads \cup Writes |-> "idle"]
    /\ key \in [Reads -> Keys]
    /\ value = [r \in Reads |-> {}]
    /\ world = {}
    /\ when = [x \in Changes |-> 0]
    /\ looked = [r \in Reads |-> 0]
    /\ took = [r \in Reads |-> 0]
    /\ source = [r \in Reads |-> r]
    /\ before = [r \in Reads |-> {}]
    /\ over = [r \in Reads |-> {}]

\* Mutations the agent was told have succeeded, and that clear the cache.
Acknowledged == {w \in Writes \ Silent : pc[w] = "answered"}

-----------------------------------------------------------------------------
(* QueryCache.                                                             *)

Without(data, ks) == [k \in DOMAIN data \ ks |-> data[k]]

\* get: an entry past its time counts as missing.
Fresh_Forever(k) == k \in DOMAIN cache

Fresh(k) == k \in DOMAIN cache /\ now <= cache[k].expires

\* put: room is made by dropping an entry that expires first, also when the
\* key itself is there already.
Evictions_None == {{}}

Evictions ==
    IF Cardinality(DOMAIN cache) < MaxEntries THEN {{}}
    ELSE {{k} : k \in {o \in DOMAIN cache :
                          \A p \in DOMAIN cache : cache[o].expires <= cache[p].expires}}

Stored(k, entry) ==
    IF Ttl = 0 THEN {cache}
    ELSE {[q \in (DOMAIN cache \ ks) \cup {k} |-> IF q = k THEN entry ELSE cache[q]]
             : ks \in Evictions}

-----------------------------------------------------------------------------
(* on_call_tool, for a cacheable tool.                                     *)

Hit(r) ==
    /\ pc[r] = "idle"
    /\ Ttl > 0
    /\ Fresh(key[r])
    /\ value' = [value EXCEPT ![r] = cache[key[r]].value]
    /\ pc' = [pc EXCEPT ![r] = "answered"]
    /\ source' = [source EXCEPT ![r] = cache[key[r]].from]
    /\ before' = [before EXCEPT ![r] = Acknowledged]
    /\ UNCHANGED <<cache, now, key, world, when, looked, took, over>>

Miss(r) ==
    /\ pc[r] = "idle"
    /\ Ttl = 0 \/ ~Fresh(key[r])
    /\ cache' = IF Ttl = 0 THEN cache ELSE Without(cache, {key[r]})
    /\ pc' = [pc EXCEPT ![r] = "handler"]
    /\ before' = [before EXCEPT ![r] = Acknowledged]
    /\ UNCHANGED <<now, key, value, world, when, looked, took, source, over>>

\* The remote command looks at the cluster.
Look(r) ==
    /\ pc[r] = "handler"
    /\ value' = [value EXCEPT ![r] = world]
    /\ looked' = [looked EXCEPT ![r] = now]
    /\ pc' = [pc EXCEPT ![r] = "looked"]
    /\ UNCHANGED <<cache, now, key, world, when, took, source, before, over>>

\* The handler returns: put, answer.
Store(r) ==
    /\ pc[r] = "looked"
    /\ cache' \in Stored(key[r], [expires |-> now + Ttl, value |-> value[r], from |-> r])
    /\ pc' = [pc EXCEPT ![r] = "answered"]
    /\ took' = [took EXCEPT ![r] = now - looked[r]]
    /\ UNCHANGED <<now, key, value, world, when, looked, source, before, over>>

\* The handler raises: nothing is stored.
Fail(r) ==
    /\ pc[r] \in {"handler", "looked"}
    /\ pc' = [pc EXCEPT ![r] = "failed"]
    /\ UNCHANGED <<cache, now, key, value, world, history>>

-----------------------------------------------------------------------------
(* on_call_tool, for a tool that changes something.                        *)

Send(w) ==
    /\ pc[w] = "idle"
    /\ pc' = [pc EXCEPT ![w] = "handler"]
    /\ UNCHANGED <<cache, now, key, value, world, history>>

\* The change happens; a call that was given up may still have its effect.
Happen(x) ==
    /\ x \notin world
    /\ x \in Writes => pc[x] \in {"handler", "failed"}
    /\ world' = world \cup {x}
    /\ when' = [when EXCEPT ![x] = now]
    /\ UNCHANGED <<cache, now, pc, key, value, looked, took, source, before, over>>

\* The handler returns: the cache is cleared, the success is reported.
Acknowledge_KeepsCache(w) ==
    /\ pc[w] = "handler" /\ w \in world
    /\ pc' = [pc EXCEPT ![w] = "answered"]
    /\ over' = [r \in Reads |-> IF pc[r] \in {"handler", "looked"}
                                THEN over[r] \cup {w} ELSE over[r]]
    /\ UNCHANGED <<cache, now, key, value, world, when, looked, took, source, before>>

Acknowledge(w) ==
    /\ pc[w] = "handler" /\ w \in world
    /\ cache' = IF w \in Silent THEN cache ELSE Without(cache, Keys)
    /\ pc' = [pc EXCEPT ![w] = "answered"]
    /\ over' = [r \in Reads |-> IF pc[r] \in {"handler", "looked"}
                                THEN over[r] \cup {w} ELSE over[r]]
    /\ UNCHANGED <<now, key, value, world, when, looked, took, source, before>>

\* The handler raises, a timeout for instance: the error is returned before
\* the line that clears the cache.
Reject(w) ==
    /\ pc[w] = "handler"
    /\ pc' = [pc EXCEPT ![w] = "failed"]
    /\ UNCHANGED <<cache, now, key, value, world, history>>

Tick ==
    /\ now < MaxTime
    /\ now' = now + 1
    /\ UNCHANGED <<cache, pc, key, value, world, history>>

Next ==
    \/ \E r \in Reads : Hit(r) \/ Miss(r) \/ Look(r) \/ Store(r) \/ Fail(r)
    \/ \E w \in Writes : Send(w) \/ Acknowledge(w) \/ Reject(w)
    \/ \E x \in Changes : Happen(x)
    \/ Tick

Spec == Init /\ [][Next]_vars

-----------------------------------------------------------------------------
(* Why reads are as fresh as they are: the inductive invariant.            *)

\* A read has seen everything acknowledged before it looked; what was
\* acknowledged after that, while it is still under way, is in over.
ReadInv ==
    \A r \in Reads :
        /\ before[r] \subseteq Acknowledged
        /\ pc[r] # "answered" => source[r] = r
        /\ pc[r] = "looked" =>
              /\ Acknowledged \subseteq value[r] \cup over[r]
              /\ looked[r] <= now
              /\ \A x \in world \ value[r] : looked[r] <= when[x]

\* So has an entry, which comes from a read that is over.
EntryInv ==
    \A k \in DOMAIN cache :
        /\ pc[cache[k].from] = "answered"
        /\ Acknowledged \subseteq cache[k].value \cup over[cache[k].from]
        /\ cache[k].expires <= now + Ttl
        /\ \A x \in world \ cache[k].value :
              cache[k].expires <= when[x] + took[cache[k].from] + Ttl

\* What was acknowledged has happened, and nothing happens ahead of time.
WorldInv == Acknowledged \subseteq world /\ \A x \in world : when[x] <= now

IInv == TypeOK /\ WorldInv /\ ReadInv /\ EntryInv

-----------------------------------------------------------------------------
(* Properties.                                                             *)

\* A caller sees every mutation acknowledged before it called, unless the
\* answer was fetched by a read that was under way when that mutation was
\* acknowledged.  An agent that makes one call at a time sees its own writes.
OwnWritesAreSeen ==
    \A r \in Reads :
        pc[r] = "answered" => before[r] \subseteq value[r] \cup over[source[r]]

\* What Slurm does by itself (and what a silent or failed call did) reaches
\* the reader with at most the delay of the TTL and one fetch: a hit that
\* misses a change comes no later than that after it.
HitsAreRecent ==
    [][\A r \in Reads : pc[r] = "idle" /\ pc'[r] = "answered" =>
          \A x \in world \ value'[r] : now <= when[x] + took[source'[r]] + Ttl]_vars

\* The cache never holds more than max_entries entries.
Bounded == Cardinality(DOMAIN cache) <= MaxEntries

\* "so a cached listing can never go stale after a change": no entry lacks a
\* mutation that was acknowledged.
NothingGoesStale ==
    \A k \in DOMAIN cache : Acknowledged \subseteq cache[k].value

=============================================================================

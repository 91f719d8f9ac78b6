------------------------------ MODULE Topology ------------------------------
(***************************************************************************)
(* TopologyService.probe of cluster/topology.py for one partition: facts   *)
(* about the compute nodes, from the session cache, from a JSON file that  *)
(* all instances of the account share, or from a probe job that is         *)
(* submitted, waited for and, when it is still queued, picked up by a      *)
(* later call.                                                             *)
(*                                                                         *)
(* A call submits at most one job, which is named after it.  Facts are     *)
(* known by the job they come from and by the time stamped on them.        *)
(***************************************************************************)
EXTENDS Naturals, FiniteSets

CONSTANTS
    Calls,        \* the probe calls, and the jobs they may submit
    Ttl,          \* topology.cache_ttl_seconds
    GiveUpAfter,  \* max(60, 4 * topology.wait_seconds)
    MaxTime,      \* bound of the clock
    SubmitLeaves, \* {"queued"} if a submit that raises may leave its job, else {}
    MaxFailures,  \* bound of the failing ssh calls and cancelled requests
    None

ASSUME ConstantsAssumption ==
    /\ IsFiniteSet(Calls)
    /\ Ttl \in Nat /\ GiveUpAfter \in Nat
    /\ MaxTime \in Nat /\ MaxFailures \in Nat
    /\ SubmitLeaves \subseteq {"queued"}
    /\ None \notin Calls

VARIABLES
    lock,      \* _lock: the call that holds it, or None
    pc,        \* where each call stands
    refresh,   \* refresh[c]: the argument of call c, "yes" or "no"
    mine,      \* mine[c]: the job call c is dealing with, or None
    fact,      \* fact[c]: the payload call c has built, or answers with
    pending,   \* _pending of the partition
    memory,    \* _memory of the partition
    file,      \* topology_<partition>.json
    job,       \* job[c]: the probe job submitted by call c
    now,       \* the clock
    failures,  \* ssh calls that failed, and requests cancelled, so far
    slowest    \* the longest time between stamping facts and caching them (history)

callVars == <<lock, pc, refresh, mine, fact>>
vars == <<callVars, pending, memory, file, job, now, failures, slowest>>

\* Facts of another instance are marked None.
Payloads == [at : Nat, from : Calls \cup {None}]
NoFact == [at |-> 0, from |-> None]

\* Absence is an entry that says so.
Absent == [here |-> "no", at |-> 0, fact |-> NoFact]
Entry(time, f) == [here |-> "yes", at |-> time, fact |-> f]
Entries == [here : {"yes", "no"}, at : Nat, fact : Payloads]

Steps == {"remote", "resume", "cancel", "collect", "wait", "output", "write"}
Answers == {"session-cache", "remote-cache", "probe-job", "pending", "error"}

TypeOK ==
    /\ lock \in Calls \cup {None}
    /\ pc \in [Calls -> {"idle"} \cup Steps \cup Answers]
    /\ refresh \in [Calls -> {"yes", "no"}]
    /\ mine \in [Calls -> Calls \cup {None}]
    /\ fact \in [Calls -> Payloads]
    /\ pending \in [job : Calls \cup {None}, started : Nat]
    /\ memory \in Entries
    /\ file \in Entries
    /\ job \in [Calls -> {"none", "queued", "completed", "failed"}]
    /\ now \in Nat
    /\ failures \in Nat
    /\ slowest \in Nat

NoPending == [job |-> None, started |-> 0]

Init ==
    /\ lock = None
    /\ pc = [c \in Calls |-> "idle"]
    /\ refresh \in [Calls -> {"yes", "no"}]
    /\ mine = [c \in Calls |-> None]
    /\ fact = [c \in Calls |-> NoFact]
    /\ pending = NoPending
    /\ memory = Absent
    /\ file = Absent
    /\ job = [c \in Calls |-> "none"]
    /\ now = 0
    /\ failures = 0
    /\ slowest = 0

-----------------------------------------------------------------------------

Goto(c, step) ==
    /\ pc' = [pc EXCEPT ![c] = step]
    /\ UNCHANGED <<lock, refresh>>

\* `async with`: the lock is released with whatever the call returns or raises.
Return(c, answer, f) ==
    /\ pc' = [pc EXCEPT ![c] = answer]
    /\ lock' = None
    /\ mine' = [mine EXCEPT ![c] = None]
    /\ fact' = [fact EXCEPT ![c] = f]
    /\ UNCHANGED refresh

\* An ssh call under way does not come back, or comes back with an error.
SshFails == failures < MaxFailures /\ failures' = failures + 1
SshWorks == UNCHANGED failures

Within(age, entry) == entry.here = "yes" /\ Ttl > 0 /\ age <= Ttl

\* _memory_lookup; an entry past its time is dropped.
SessionHit == Within(now - memory.at, memory)

\* _remote_cache_lookup judges by the time stamped on the facts.
RemoteHit_AnyAge == file.here = "yes" /\ Ttl > 0

RemoteHit == Within(now - file.fact.at, file)

\* _memory_put stamps the present time, also on facts from the file.
Remembered(f) == IF Ttl = 0 THEN memory ELSE Entry(now, f)

\* The lock is taken and the session cache consulted, without a refresh.
Enter(c) ==
    /\ pc[c] = "idle"
    /\ refresh[c] = "no"
    /\ lock = None
    /\ \/ /\ SessionHit
          /\ pc' = [pc EXCEPT ![c] = "session-cache"]
          /\ fact' = [fact EXCEPT ![c] = memory.fact]
          /\ UNCHANGED <<lock, memory>>
       \/ /\ ~SessionHit
          /\ pc' = [pc EXCEPT ![c] = "remote"]
          /\ lock' = c
          /\ memory' = Absent
          /\ UNCHANGED fact
    /\ UNCHANGED <<refresh, mine, pending, file, job, now, failures, slowest>>

\* With a refresh the caches are not looked at, and a queued job is forgotten
\* and cancelled first.
EnterRefresh_KeepsPending(c) ==
    /\ pc[c] = "idle"
    /\ refresh[c] = "yes"
    /\ lock = None
    /\ lock' = c
    /\ pc' = [pc EXCEPT ![c] = IF pending.job = None THEN "collect" ELSE "resume"]
    /\ UNCHANGED <<refresh, mine, fact, pending, memory, file, job, now, failures, slowest>>

EnterRefresh(c) ==
    /\ pc[c] = "idle"
    /\ refresh[c] = "yes"
    /\ lock = None
    /\ lock' = c
    /\ pc' = [pc EXCEPT ![c] = IF pending.job = None THEN "collect" ELSE "cancel"]
    /\ mine' = [mine EXCEPT ![c] = pending.job]
    /\ pending' = NoPending
    /\ UNCHANGED <<refresh, fact, memory, file, job, now, failures, slowest>>

\* The shared file.  Any error in reading it counts as a miss.
ReadRemote(c) ==
    /\ pc[c] = "remote"
    /\ \/ /\ RemoteHit /\ SshWorks
          /\ memory' = Remembered(file.fact)
          /\ Return(c, "remote-cache", file.fact)
       \/ /\ \/ ~RemoteHit /\ SshWorks
             \/ SshFails
          /\ Goto(c, IF pending.job = None THEN "collect" ELSE "resume")
          /\ UNCHANGED <<mine, fact, memory>>
    /\ UNCHANGED <<pending, file, job, now, slowest>>

\* status of the queued job: taken for lost on any error; picked up when it
\* is known to be over; else given up when it has been pending too long, or
\* left alone.  Slurm may be late in telling that a job is over.
Resume_DropsQueued(c) ==
    /\ pc[c] = "resume"
    /\ SshWorks
    /\ IF job[pending.job] = "queued"
       THEN Goto(c, "collect") /\ UNCHANGED mine
       ELSE Goto(c, "output") /\ mine' = [mine EXCEPT ![c] = pending.job]
    /\ pending' = NoPending
    /\ UNCHANGED <<fact, memory, file, job, now, slowest>>

Resume(c) ==
    /\ pc[c] = "resume"
    /\ \/ /\ SshFails
          /\ pending' = NoPending
          /\ Goto(c, "collect")
          /\ UNCHANGED <<mine, fact>>
       \/ /\ SshWorks
          /\ job[pending.job] # "queued"
          /\ pending' = NoPending
          /\ Goto(c, "output")
          /\ mine' = [mine EXCEPT ![c] = pending.job]
          /\ UNCHANGED fact
       \/ /\ SshWorks
          /\ now - pending.started > GiveUpAfter
          /\ pending' = NoPending
          /\ Goto(c, "cancel")
          /\ mine' = [mine EXCEPT ![c] = pending.job]
          /\ UNCHANGED fact
       \/ /\ SshWorks
          /\ now - pending.started <= GiveUpAfter
          /\ Return(c, "pending", NoFact)
          /\ UNCHANGED pending
    /\ UNCHANGED <<memory, file, job, now, slowest>>

\* slurm.cancel; its failure is ignored, whether or not scancel ran.
Cancel(c) ==
    /\ pc[c] = "cancel"
    /\ \/ /\ SshWorks \/ SshFails
          /\ job' = [job EXCEPT ![mine[c]] = IF @ = "queued" THEN "failed" ELSE @]
       \/ SshFails /\ UNCHANGED job
    /\ Goto(c, "collect")
    /\ mine' = [mine EXCEPT ![c] = None]
    /\ UNCHANGED <<fact, pending, memory, file, now, slowest>>

\* sinfo, the probe script, submit.  A submit that raises may leave its job in
\* the queue (LeaksAreKnown of module Submit).
Collect(c) ==
    /\ pc[c] = "collect"
    /\ \/ /\ SshWorks
          /\ job' = [job EXCEPT ![c] = "queued"]
          /\ mine' = [mine EXCEPT ![c] = c]
          /\ Goto(c, "wait")
          /\ UNCHANGED fact
       \/ /\ SshFails
          /\ \E left \in {"none"} \cup SubmitLeaves : job' = [job EXCEPT ![c] = left]
          /\ Return(c, "error", NoFact)
    /\ UNCHANGED <<pending, memory, file, now, slowest>>

\* wait: the job is over, or the deadline passes before that is known (then it
\* becomes the pending job), or a poll fails with an SshError.
Wait(c) ==
    /\ pc[c] = "wait"
    /\ \/ /\ SshWorks
          /\ job[c] # "queued"
          /\ Goto(c, "output")
          /\ UNCHANGED <<mine, fact, pending>>
       \/ /\ SshWorks
          /\ pending' = [job |-> c, started |-> now]
          /\ Return(c, "pending", NoFact)
       \/ /\ SshFails
          /\ Return(c, "error", NoFact)
          /\ UNCHANGED pending
    /\ UNCHANGED <<memory, file, job, now, slowest>>

\* _finalize: a job that did not complete is an error; otherwise its output
\* is read and the facts are stamped with the time of reading.
Output_AnyState(c) ==
    /\ pc[c] = "output"
    /\ SshWorks
    /\ fact' = [fact EXCEPT ![c] = [at |-> now, from |-> mine[c]]]
    /\ Goto(c, "write")
    /\ UNCHANGED <<mine, pending, memory, file, job, now, slowest>>

Output(c) ==
    /\ pc[c] = "output"
    /\ \/ /\ job[mine[c]] = "completed" /\ SshWorks
          /\ fact' = [fact EXCEPT ![c] = [at |-> now, from |-> mine[c]]]
          /\ Goto(c, "write")
          /\ UNCHANGED mine
       \/ job[mine[c]] # "completed" /\ SshWorks /\ Return(c, "error", NoFact)
       \/ SshFails /\ Return(c, "error", NoFact)
    /\ UNCHANGED <<pending, memory, file, job, now, slowest>>

\* The file is written, or not (an answer that is lost tells neither); then the
\* session cache.
Write(c) ==
    /\ pc[c] = "write"
    /\ \/ (SshWorks \/ SshFails) /\ file' = IF Ttl = 0 THEN file ELSE Entry(now, fact[c])
       \/ SshFails /\ UNCHANGED file
    /\ memory' = Remembered(fact[c])
    /\ slowest' = IF now - fact[c].at > slowest THEN now - fact[c].at ELSE slowest
    /\ Return(c, "probe-job", fact[c])
    /\ UNCHANGED <<pending, job, now>>

\* CancelledError at an await passes every `except`: the call ends where it
\* stands, and what the remote side was told to do may still happen.
Abort(c) ==
    /\ pc[c] \in Steps
    /\ SshFails
    /\ \/ UNCHANGED <<job, file>>
       \/ /\ pc[c] = "collect"
          /\ \E left \in SubmitLeaves : job' = [job EXCEPT ![c] = left]
          /\ UNCHANGED file
       \/ /\ pc[c] = "cancel"
          /\ job' = [job EXCEPT ![mine[c]] = IF @ = "queued" THEN "failed" ELSE @]
          /\ UNCHANGED file
       \/ /\ pc[c] = "write" /\ Ttl > 0
          /\ file' = Entry(now, fact[c])
          /\ UNCHANGED job
    /\ Return(c, "error", NoFact)
    /\ UNCHANGED <<pending, memory, now, slowest>>

-----------------------------------------------------------------------------
(* The surroundings.                                                       *)

JobEnds(j) ==
    /\ job[j] = "queued"
    /\ \E state \in {"completed", "failed"} : job' = [job EXCEPT ![j] = state]
    /\ UNCHANGED <<callVars, pending, memory, file, now, failures, slowest>>

\* Another instance writes facts it has just collected.
OthersWrite ==
    /\ file' = Entry(now, [at |-> now, from |-> None])
    /\ file' # file
    /\ UNCHANGED <<callVars, pending, memory, job, now, failures, slowest>>

Tick ==
    /\ now < MaxTime
    /\ now' = now + 1
    /\ UNCHANGED <<callVars, pending, memory, file, job, failures, slowest>>

Next ==
    \/ \E c \in Calls :
        \/ Enter(c) \/ EnterRefresh(c) \/ ReadRemote(c) \/ Resume(c) \/ Cancel(c)
        \/ Collect(c) \/ Wait(c) \/ Output(c) \/ Write(c) \/ Abort(c) \/ JobEnds(c)
    \/ OthersWrite
    \/ Tick

Spec == Init /\ [][Next]_vars

-----------------------------------------------------------------------------
(* Why probe jobs do not pile up: the inductive invariant.                 *)

Queued == {c \in Calls : job[c] = "queued"}

\* The jobs the service still knows of.
Known == {pending.job} \cup {mine[c] : c \in Calls}

\* Only the call that holds the lock is under way and deals with a job.
LockInv ==
    \A c \in Calls : /\ pc[c] \in Steps <=> lock = c
                     /\ mine[c] # None => pc[c] \in {"cancel", "wait", "output", "write"}
                     /\ pc[c] = "wait" => mine[c] = c
                     /\ pc[c] \in {"cancel", "output"} => mine[c] # None
                     /\ pc[c] = "resume" => pending.job # None
                     /\ pc[c] \in {"cancel", "collect", "wait", "output", "write"} =>
                            pending.job = None

\* A call has no job before it submits one, and reads no output of a queued job.
JobsInv ==
    /\ \A c \in Calls : pc[c] \in {"idle", "remote", "resume", "cancel", "collect"} =>
                            job[c] = "none"
    /\ \A c \in Calls : pc[c] \in {"output", "write"} => mine[c] \notin Queued

\* A queued job is forgotten only by a failing ssh call or a cancelled request.
ForgottenInv == Cardinality(Queued \ Known) <= failures

\* A call that refreshes never looks at a cache or at a queued job, and every
\* payload comes from a job that completed.
FactInv ==
    /\ \A c \in Calls :
        /\ refresh[c] = "yes" =>
              /\ pc[c] \notin {"remote", "resume", "session-cache", "remote-cache"}
              /\ pc[c] \in {"output", "write"} => mine[c] = c
        /\ pc[c] = "write" => fact[c].from = mine[c]
        /\ pc[c] = "probe-job" /\ refresh[c] = "yes" => fact[c].from = c
        /\ fact[c].from # None => job[fact[c].from] = "completed"
    /\ memory.fact.from # None => job[memory.fact.from] = "completed"
    /\ file.fact.from # None => job[file.fact.from] = "completed"

\* The session cache's own stamp is at most one TTL, or one slow write, ahead
\* of that of the facts.
AgeInv == memory.here = "yes" => memory.at <= memory.fact.at + Ttl + slowest

IInv == TypeOK /\ LockInv /\ JobsInv /\ ForgottenInv /\ FactInv /\ AgeInv

-----------------------------------------------------------------------------
(* Properties.                                                             *)

\* A waiting probe is reused or cancelled rather than duplicated: every probe
\* job beyond the first that is queued at once is due to an ssh call that
\* failed or to a request the client cancelled.
DuplicatesNeedFailures == Cardinality(Queued) <= 1 + failures

\* "a probe still waiting [...] is reused (or, eventually, cancelled) rather
\* than duplicated".
NoDuplicateProbe == Cardinality(Queued) <= 1

\* How old the facts are that the session cache serves: one TTL there, after
\* one TTL in the shared file, whose age is not carried over.
CachedFactsAge ==
    [][\A c \in Calls : pc[c] = "idle" /\ pc'[c] = "session-cache" =>
          now <= fact'[c].at + 2 * Ttl + slowest]_vars

\* A refresh answers with the facts of a job it submitted itself: neither
\* those of a cache nor those of a job that was waiting.
RefreshIsNew ==
    \A c \in Calls :
        refresh[c] = "yes" /\ pc[c] \in {"session-cache", "remote-cache", "probe-job"}
            => fact[c].from = c

\* Facts served or cached never come from a job that failed or was cancelled.
FactsOfCompletedJobs ==
    \A f \in {memory.fact, file.fact} \cup {fact[c] : c \in Calls} :
        f.from # None => job[f.from] = "completed"
=============================================================================

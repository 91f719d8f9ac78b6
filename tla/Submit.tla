------------------------------- MODULE Submit -------------------------------
(***************************************************************************)
(* SlurmManager.submit of one MCP instance: concurrent calls that count    *)
(* the instance's active jobs, hand a script to sbatch, check that Slurm   *)
(* knows the job, record its ownership and roll the job back if they       *)
(* cannot.                                                                 *)
(*                                                                         *)
(* The ownership registry appears as what it promises, OwnershipLedger     *)
(* (module Registry implements it).  A call makes at most one job, so the  *)
(* job is named after the call.  Slurm is two sources that may disagree:   *)
(* squeue knows every job that is not finished and forgets finished ones,  *)
(* sacct knows finished ones until it purges them and may lag, and writes  *)
(* a cancelled job's state as "CANCELLED by <uid>".                        *)
(***************************************************************************)
EXTENDS Naturals, FiniteSets

CONSTANTS
    Calls,          \* the submit calls, named after the jobs they make
    Earlier,        \* jobs this owner submitted and recorded before
    MaxConcurrent,  \* slurm.max_concurrent_jobs
    Faults,         \* what may go wrong, see FaultKinds
    None            \* nobody holds the submit lock

\* probe:      squeue or sacct exits with an error
\* lag:        sacct has not caught up with the job
\* lost:       ssh times out or drops; the remote command may have run
\* rollback:   scancel fails
\* abort:      the client cancels the request (CancelledError at an await)
\* unreadable: `cat` of an existing registry fails, which reads as "no jobs"
FaultKinds == {"probe", "lag", "lost", "rollback", "abort", "unreadable"}

ASSUME ConstantsAssumption ==
    /\ Calls \cap Earlier = {}
    /\ IsFiniteSet(Calls) /\ IsFiniteSet(Earlier)
    /\ MaxConcurrent \in Nat \ {0}
    /\ Faults \subseteq FaultKinds
    /\ None \notin Calls

VARIABLES
    lock,      \* _submit_lock: the call that holds it, or None
    pc,        \* pc[c]: where call c stands, or the answer it got
    ids,       \* ids[c]: the tracked jobs call c has read from the registry
    queue,     \* queue[c]: what squeue told call c
    slurm,     \* slurm[j]: the job itself
    entries,   \* the ledger: jobs of this owner with a record
    outcome    \* the ledger: verdicts of the register calls

callVars == <<lock, pc, ids, queue>>
ledgerVars == <<entries, outcome>>
vars == <<callVars, slurm, ledgerVars>>

Jobs == Calls \cup Earlier
Steps == {"ids", "squeue", "mine", "sacct", "sbatch", "verify", "account",
          "prepare", "register", "rollback"}

\* denied: the concurrency ceiling.   invalid: another check of the request.
\* failed: an error before a job was made, or sbatch's answer was lost.
\* unverified: Slurm could not confirm the job id sbatch returned.
\* rolledback / unrolled: not registered; scancel succeeded / did not.
Answers == {"ok", "denied", "invalid", "failed", "unverified", "rolledback",
            "unrolled", "aborted"}

NoAnswer == [ok |-> "yes", active |-> {}, ended |-> {}]

TypeOK ==
    /\ lock \in Calls \cup {None}
    /\ pc \in [Calls -> {"idle"} \cup Steps \cup Answers]
    /\ ids \in [Calls -> SUBSET Jobs]
    /\ queue \in [Calls -> [ok : {"yes", "no"}, active : SUBSET Jobs, ended : SUBSET Jobs]]
    /\ slurm \in [Jobs -> {"none", "live", "ended", "cancelled"}]
    /\ entries \in SUBSET Jobs
    /\ outcome \in [Calls -> {"idle", "pending", "ok", "refused", "unknown"}]

Ledger == INSTANCE OwnershipLedger WITH Writers <- Calls

Init ==
    /\ lock = None
    /\ pc = [c \in Calls |-> "idle"]
    /\ ids = [c \in Calls |-> {}]
    /\ queue = [c \in Calls |-> NoAnswer]
    /\ \E past \in [Earlier -> {"live", "ended", "cancelled"}] :
        /\ Cardinality({j \in Earlier : past[j] = "live"}) <= MaxConcurrent
        /\ slurm = [j \in Jobs |-> IF j \in Earlier THEN past[j] ELSE "none"]
    /\ Ledger!Init /\ entries = Earlier

Live(jobs) == {j \in jobs : slurm[j] = "live"}
Finished(jobs) == {j \in jobs : slurm[j] = "ended"}
Cancelled(jobs) == {j \in jobs : slurm[j] = "cancelled"}

-----------------------------------------------------------------------------
(* The call, under _submit_lock.                                           *)

\* `async with`: the lock is released however the call ends.
Return(c, answer) ==
    /\ pc' = [pc EXCEPT ![c] = answer]
    /\ lock' = None
    /\ ids' = [ids EXCEPT ![c] = {}]
    /\ queue' = [queue EXCEPT ![c] = NoAnswer]

Continue(c, step) ==
    /\ pc' = [pc EXCEPT ![c] = step]
    /\ UNCHANGED lock

\* Lock taken; the arguments, the working directory and the script's #SBATCH
\* defaults are checked.
Begin_Unlocked(c) ==
    /\ pc[c] = "idle"
    /\ lock' = c
    /\ pc' = [pc EXCEPT ![c] = "ids"]
    /\ UNCHANGED <<ids, queue, slurm, ledgerVars>>

Begin(c) ==
    /\ pc[c] = "idle"
    /\ lock = None
    /\ lock' = c
    /\ pc' = [pc EXCEPT ![c] = "ids"]
    /\ UNCHANGED <<ids, queue, slurm, ledgerVars>>

\* A check of the request fails: before the count, or after it with the
\* other resource ceilings.
Invalid(c) ==
    /\ pc[c] \in {"ids", "sbatch"}
    /\ Return(c, "invalid")
    /\ UNCHANGED <<slurm, ledgerVars>>

\* The ssh layer gives up before there is a job.
Lost(c) ==
    /\ "lost" \in Faults
    /\ pc[c] \in {"ids", "squeue", "mine", "sacct"}
    /\ Return(c, "failed")
    /\ UNCHANGED <<slurm, ledgerVars>>

TrackedRead == {entries} \cup IF "unreadable" \in Faults THEN {{}} ELSE {}

\* _queue_states, first half: the tracked ids.
ReadIds(c) ==
    /\ pc[c] = "ids"
    /\ \E read \in TrackedRead : ids' = [ids EXCEPT ![c] = read]
    /\ Continue(c, "squeue")
    /\ UNCHANGED <<queue, slurm, ledgerVars>>

\* _queue_states, second half.  A finished job may still be listed.  When a
\* batch of ids fails, the rows of the other batches are kept.
AskSqueue(c) ==
    /\ pc[c] = "squeue"
    /\ \E shown \in SUBSET ids[c], ok \in {"yes", "no"} :
        /\ ok = "yes" => Live(ids[c]) \subseteq shown
        /\ ok = "no" => "probe" \in Faults /\ ids[c] # {}
        /\ queue' = [queue EXCEPT ![c] =
               [ok |-> ok, active |-> Live(shown), ended |-> shown \ Live(shown)]]
    /\ Continue(c, "mine")
    /\ UNCHANGED <<ids, slurm, ledgerVars>>

\* count_active reads the registry again.
ReadMine(c) ==
    /\ pc[c] = "mine"
    /\ \E read \in TrackedRead : ids' = [ids EXCEPT ![c] = read]
    /\ Continue(c, "sacct")
    /\ UNCHANGED <<queue, slurm, ledgerVars>>

\* Rows sacct may print for these jobs: who is listed, and who with a state
\* that count_active takes as terminal.  "CANCELLED by <uid>" is not one: the
\* text is cut at "+" only and then compared with "CANCELLED".  A failed sacct
\* may have printed some of the rows.
AccountRows(jobs, acctOk) ==
    {rows \in [listed : SUBSET jobs, ended : SUBSET jobs] :
        /\ rows.ended \subseteq Finished(rows.listed)
        /\ "lag" \in Faults \/ rows.ended = Finished(rows.listed)
        /\ "lag" \in Faults \/ acctOk = "no" \/ Live(jobs) \subseteq rows.listed}

\* What count_active counts: a job squeue or, failing that, sacct reports as
\* not finished, and a job unknown to both unless both were really asked.
StillActive_ReleaseUnknown(q, jobs, rows, acctOk) ==
    LET unresolved == jobs \ (q.active \cup q.ended)
    IN  (jobs \cap q.active) \cup ((unresolved \cap rows.listed) \ rows.ended)

StillActive_NeverReleaseUnknown(q, jobs, rows, acctOk) ==
    LET unresolved == jobs \ (q.active \cup q.ended)
    IN  (jobs \cap q.active) \cup (unresolved \ rows.ended)

StillActive(q, jobs, rows, acctOk) ==
    LET unresolved == jobs \ (q.active \cup q.ended)
        unknown == unresolved \ rows.listed
    IN  (jobs \cap q.active) \cup ((unresolved \cap rows.listed) \ rows.ended)
            \cup (IF q.ok = "yes" /\ acctOk = "yes" THEN {} ELSE unknown)

\* count_active asks sacct about what squeue did not report as finished, and
\* validate_job_request compares the count with the ceiling.
Count(c) ==
    LET asked == ids[c] \ queue[c].ended
    IN  /\ pc[c] = "sacct"
        /\ \E acctOk \in {"yes", "no"} :
            /\ acctOk = "no" => "probe" \in Faults /\ asked # {}
            /\ \E rows \in AccountRows(asked, acctOk) :
                  IF Cardinality(StillActive(queue[c], ids[c], rows, acctOk)) >= MaxConcurrent
                  THEN Return(c, "denied")
                  ELSE /\ Continue(c, "sbatch")
                       /\ ids' = [ids EXCEPT ![c] = {}]
                       /\ queue' = [queue EXCEPT ![c] = NoAnswer]
        /\ UNCHANGED <<slurm, ledgerVars>>

\* sbatch accepts the script and prints the job id.
Sbatch(c) ==
    /\ pc[c] = "sbatch"
    /\ slurm' = [slurm EXCEPT ![c] = "live"]
    /\ Continue(c, "verify")
    /\ UNCHANGED <<ids, queue, ledgerVars>>

\* sbatch exits with an error, or its answer does not arrive; in the second
\* case there may be a job nobody knows the id of.
SbatchFails(c) ==
    /\ pc[c] = "sbatch"
    /\ \E made \in IF "lost" \in Faults THEN {"none", "live"} ELSE {"none"} :
          slurm' = [slurm EXCEPT ![c] = made]
    /\ Return(c, "failed")
    /\ UNCHANGED ledgerVars

\* squeue -j: does Slurm know the job id?
Verify(c) ==
    /\ pc[c] = "verify"
    /\ \/ Continue(c, "prepare") /\ UNCHANGED <<ids, queue>>
       \/ /\ "probe" \in Faults \/ slurm[c] # "live"
          /\ Continue(c, "account")
          /\ UNCHANGED <<ids, queue>>
       \/ "lost" \in Faults /\ Return(c, "unverified")
    /\ UNCHANGED <<slurm, ledgerVars>>

\* Otherwise sacct -j.  A job neither of them lists is refused.
VerifyByAccount(c) ==
    /\ pc[c] = "account"
    /\ \/ Continue(c, "prepare") /\ UNCHANGED <<ids, queue>>
       \/ /\ Faults \cap {"probe", "lag", "lost"} # {}
          /\ Return(c, "unverified")
    /\ UNCHANGED <<slurm, ledgerVars>>

\* Job directory and output links; then the record is sent to the registry.
Prepare(c) ==
    /\ pc[c] = "prepare"
    /\ \/ Continue(c, "register") /\ Ledger!Start(c)
       \/ Continue(c, "rollback") /\ UNCHANGED ledgerVars
    /\ UNCHANGED <<ids, queue, slurm>>

Registered(c) ==
    /\ pc[c] = "register"
    /\ Ledger!Confirm(c)
    /\ Return(c, "ok")
    /\ UNCHANGED slurm

NotRegistered_Swallowed(c) ==
    /\ pc[c] = "register"
    /\ Ledger!Refuse(c) \/ ("lost" \in Faults /\ Ledger!LoseTouch(c))
    /\ Return(c, "ok")
    /\ UNCHANGED slurm

NotRegistered(c) ==
    /\ pc[c] = "register"
    /\ Ledger!Refuse(c) \/ ("lost" \in Faults /\ Ledger!LoseTouch(c))
    /\ Continue(c, "rollback")
    /\ UNCHANGED <<ids, queue, slurm>>

\* scancel of the call's job.
Scancel(c) == slurm' = [slurm EXCEPT ![c] = IF @ = "live" THEN "cancelled" ELSE @]

\* scancel, and what the error says of it.  It fails for a job Slurm has
\* already forgotten, and it may have worked although its answer is lost.
Rollback_AlwaysClaimed(c) ==
    /\ pc[c] = "rollback"
    /\ \/ Scancel(c)
       \/ "rollback" \in Faults /\ UNCHANGED slurm
    /\ Return(c, "rolledback")
    /\ UNCHANGED ledgerVars

Rollback(c) ==
    /\ pc[c] = "rollback"
    /\ \/ Scancel(c) /\ Return(c, "rolledback")
       \/ /\ "rollback" \in Faults \/ slurm[c] # "live"
          /\ \/ UNCHANGED slurm
             \/ Scancel(c)
          /\ Return(c, "unrolled")
    /\ UNCHANGED ledgerVars

\* CancelledError at an await: not an Exception, so nothing is rolled back.
\* The remote command under way runs on.
Abort(c) ==
    /\ "abort" \in Faults
    /\ pc[c] \in Steps
    /\ \/ UNCHANGED slurm
       \/ pc[c] = "sbatch" /\ slurm' = [slurm EXCEPT ![c] = "live"]
       \/ pc[c] = "rollback" /\ Scancel(c)
    /\ Return(c, "aborted")
    /\ IF pc[c] = "register" THEN Ledger!LoseTouch(c) ELSE UNCHANGED ledgerVars

-----------------------------------------------------------------------------
(* The surroundings.                                                       *)

\* The registry script of call c commits: while the call waits for it, or
\* after the call lost touch with it.
Recorded(c) ==
    /\ Ledger!Record(c)
    /\ UNCHANGED <<callVars, slurm>>

\* A job finishes by itself or is cancelled.
JobEnds(j) ==
    /\ slurm[j] = "live"
    /\ \E end \in {"ended", "cancelled"} : slurm' = [slurm EXCEPT ![j] = end]
    /\ UNCHANGED <<callVars, ledgerVars>>

\* The agent does what the denial asks of it: it waits and submits again.
Resubmit(c) ==
    /\ pc[c] = "denied"
    /\ pc' = [pc EXCEPT ![c] = "idle"]
    /\ UNCHANGED <<lock, ids, queue, slurm, ledgerVars>>

CallStep(c) ==
    \/ Invalid(c) \/ Lost(c) \/ ReadIds(c) \/ AskSqueue(c) \/ ReadMine(c) \/ Count(c)
    \/ Sbatch(c) \/ SbatchFails(c) \/ Verify(c) \/ VerifyByAccount(c) \/ Prepare(c)
    \/ Registered(c) \/ NotRegistered(c) \/ Rollback(c)

Next ==
    \/ \E c \in Calls : Begin(c) \/ CallStep(c) \/ Abort(c) \/ Recorded(c) \/ Resubmit(c)
    \/ \E j \in Jobs : JobEnds(j)

Spec == Init /\ [][Next]_vars

\* asyncio runs every call that can go on, ssh and the registry answer or are
\* given up (command_timeout), jobs end (time_limit), and a denied agent asks
\* again.
Fairness ==
    /\ \A c \in Calls : /\ WF_vars(Begin(c)) /\ WF_vars(CallStep(c))
                        /\ WF_vars(Resubmit(c))
    /\ \A j \in Jobs : WF_vars(JobEnds(j))

FairSpec == Spec /\ Fairness

-----------------------------------------------------------------------------
(* Why the ceiling holds: the inductive invariant.                         *)

\* The call still knows the job and will record it or stop it.
InHand(c) == pc[c] \in {"verify", "account", "prepare", "register", "rollback"}

\* The live jobs this instance answers for.
Managed == {j \in Jobs : slurm[j] = "live" /\ (j \in entries \/ (j \in Calls /\ InHand(j)))}

\* Only the call that holds the lock is under way.
LockInv == \A c \in Calls : pc[c] \in Steps <=> lock = c

\* The call, its job and its record go through their states together.
RecordInv ==
    \A c \in Calls :
        /\ outcome[c] = "idle" => c \notin entries
        /\ outcome[c] = "pending" <=> pc[c] = "register"
        /\ pc[c] \in {"idle", "ids", "squeue", "mine", "sacct", "sbatch", "denied", "invalid"} =>
              slurm[c] = "none" /\ outcome[c] = "idle"
        /\ pc[c] = "ok" => c \in entries
        /\ pc[c] = "rolledback" => slurm[c] # "live"

\* A record that appears late is that of a job that was stopped.
LateRecordInv ==
    \A c \in Calls : outcome[c] = "unknown" => pc[c] = "rollback" \/ slurm[c] # "live"

\* What a call has read so far leaves no managed job out: none is missing
\* from the ids, none was reported as ended, and none escapes a squeue that
\* answered; and when the count is done there is room for one more.
CountInv ==
    \A c \in Calls :
        /\ pc[c] \in {"squeue", "sacct"} => Managed \subseteq ids[c]
        /\ pc[c] \in {"mine", "sacct"} =>
              /\ Managed \cap queue[c].ended = {}
              /\ queue[c].ok = "yes" => Managed \subseteq queue[c].active
        /\ pc[c] = "sbatch" => Cardinality(Managed) < MaxConcurrent

IInv ==
    /\ TypeOK /\ LockInv /\ RecordInv /\ LateRecordInv /\ CountInv
    /\ Cardinality(Managed) <= MaxConcurrent

-----------------------------------------------------------------------------
(* Properties.                                                             *)

\* slurm.max_concurrent_jobs: however calls interleave, probes fail and sacct
\* lags, the jobs the instance manages never exceed the ceiling.
CeilingKept == Cardinality(Managed) <= MaxConcurrent

\* A caller's answer agrees with Slurm and with the registry: a job reported
\* as submitted is recorded (so status, output and cancel will accept it), a
\* job reported as cancelled does not run, and a denied or invalid request
\* left no job behind.
AnswersHold ==
    \A c \in Calls :
        /\ pc[c] = "ok" => c \in entries
        /\ pc[c] = "rolledback" => slurm[c] # "live"
        /\ pc[c] \in {"denied", "invalid"} => slurm[c] = "none" /\ c \notin entries

\* Where a job can be left running without a record: only after an answer
\* that lost sbatch's reply, could not verify the id, or says that the
\* rollback failed.  Every other way out records the job or stops it.
LeaksAreKnown ==
    \A c \in Calls :
        slurm[c] = "live" /\ c \notin entries
            => InHand(c) \/ pc[c] \in {"failed", "unverified", "unrolled", "aborted"}

\* "A submitted job without an ownership record would either leak resources or
\* become unmanageable [...] so the job is rolled back": once submit has
\* answered for a job whose id it knew, the job is recorded, over, or named in
\* the answer as possibly running.
NoSilentLeak ==
    \A c \in Calls :
        slurm[c] = "live" /\ c \notin entries
            => InHand(c) \/ pc[c] \in {"failed", "unrolled"}

\* The recorded jobs that were cancelled: sacct may list each of them, as
\* "CANCELLED by <uid>", for as long as it keeps records.
Pinned == Cancelled(entries)

\* Every request is answered in the end, and the ceiling never becomes a
\* permanent refusal: slots of finished jobs are given back even when sacct
\* has purged them.  The exception is what count_active makes of a cancelled
\* job: it holds its slot while sacct lists it, though the configuration guide
\* says that CANCELLED jobs give theirs back.  Short of a ceiling's worth of
\* such jobs every request is served.
EveryCallIsServed ==
    \A c \in Calls :
        pc[c] = "idle" ~> \/ pc[c] \in Answers \ {"denied"}
                         \/ Cardinality(Pinned) >= MaxConcurrent
=============================================================================

----------------------------- MODULE WaitLoop -----------------------------
(***************************************************************************)
(* The queries of SlurmManager about one tracked job: status, queue, wait, *)
(* wait_and_diagnose, diagnose, output, accounting and cancel.  One call   *)
(* runs while Slurm works on the job; squeue tells the truth about a live  *)
(* job or fails, sacct knows the state it was last told, which may be an   *)
(* old one, and may fail or have no row.                                   *)
(***************************************************************************)
EXTENDS Integers

CONSTANTS
  EndLabels,    \* the ways in which Slurm may end the job
  Timeouts,     \* values of timeout_seconds
  Intervals,    \* values of poll_interval
  WaitMax,      \* slurm wait_max_seconds
  MaxRequeues   \* bound: how often Slurm requeues the job

ASSUME WaitLoopAssumption ==
  /\ "PENDING" \notin EndLabels /\ "RUNNING" \notin EndLabels
  /\ Timeouts \subseteq Nat /\ Intervals \subseteq Nat \ {0}
  /\ WaitMax \in Nat /\ MaxRequeues \in Nat

VARIABLES
  job,       \* the job's state in Slurm
  acct,      \* the state sacct knows, or "none"
  requeues,  \* how often the job was requeued
  kind,      \* the operation that runs
  at,        \* its next await
  limit,     \* deadline
  poll,      \* seconds between two looks
  waited,    \* waited: seconds slept so far
  seen,      \* the state text of the last status
  answer,    \* how the call ended
  look,      \* history: did squeue answer at the last look, had the job
             \* ended, did the answer say so, and when was it
  ending     \* history: the look that ended a wait

jobVars  == <<job, acct, requeues>>
argVars  == <<kind, limit, poll>>
waitVars == <<jobVars, argVars, at, waited, seen, answer, look, ending>>

Kinds   == {"status", "queue", "wait", "wait_and_diagnose", "diagnose", "output", "accounting", "cancel"}
Waits   == {"wait", "wait_and_diagnose"}
Answers == {"none", "refused", "error", "state", "listing", "ended", "gave up",
            "diagnosed", "text", "record", "cancelled"}
Steps   == {"begin", "squeue", "sacct", "known", "account", "output", "done"}

\* A state as it is printed: sacct appends the canceller to CANCELLED.
Text(label, suffix) == [label |-> label, suffix |-> suffix]
Unknown    == Text("UNKNOWN", "")
Printed(s) == Text(s, IF s = "CANCELLED" THEN " by uid" ELSE "")
Texts      == [label : EndLabels \cup {"PENDING", "RUNNING", "CANCELLED", "UNKNOWN"}, suffix : {"", " by uid"}]

Live == job \in {"PENDING", "RUNNING"}

\* The states at which wait and wait_and_diagnose stop.
Terminal == {"COMPLETED", "FAILED", "CANCELLED", "TIMEOUT", "OUT_OF_MEMORY", "NODE_FAIL", "PREEMPTED"}

\* The ends that wait does not know: four states that count_active takes for ends.
OddEnds == {"DEADLINE", "BOOT_FAIL", "REVOKED", "SPECIAL_EXIT"}

ASSUME EndLabelsAssumption == EndLabels \subseteq Terminal \cup OddEnds

\* state.split("+")[0].strip() in terminal: only a "+" suffix is dropped.
Recognised(t) == t.label \in Terminal /\ t.suffix \in {"", "+"}

NoLook == [heard |-> TRUE, ended |-> FALSE, told |-> FALSE, time |-> 0]

Smaller(a, b) == IF a < b THEN a ELSE b
Larger(a, b)  == IF a > b THEN a ELSE b

WaitInit ==
  /\ job = "PENDING" /\ acct = "none" /\ requeues = 0
  /\ kind = "none" /\ at = "begin"
  /\ limit = 0 /\ poll = 2 /\ waited = 0
  /\ seen = Unknown /\ answer = "none"
  /\ look = NoLook /\ ending = NoLook

Answer(a) == at' = "done" /\ answer' = a
Go(next)  == at' = next /\ UNCHANGED answer

-----------------------------------------------------------------------------
(* The call. *)

\* Deliberate variant: the configured maximum is forgotten.
BeginWait_Uncapped(k, t, i) ==
  /\ at = "begin" /\ k \in Waits
  /\ kind' = k
  /\ limit' = t
  /\ poll' = Larger(2, Smaller(i, 60))
  /\ Go("squeue")
  /\ UNCHANGED <<jobVars, waited, seen, look, ending>>

\* timeout_seconds and poll_interval are checked and brought into their ranges.
BeginWait(k, t, i) ==
  /\ at = "begin" /\ k \in Waits
  /\ kind' = k
  /\ limit' = Smaller(t, WaitMax)
  /\ poll' = Larger(2, Smaller(i, 60))
  /\ Go("squeue")
  /\ UNCHANGED <<jobVars, waited, seen, look, ending>>

\* The other operations; output and accounting look at neither queue nor state.
BeginOther(k) ==
  /\ at = "begin" /\ k \in Kinds \ Waits
  /\ kind' = k
  /\ Go(CASE k = "output" -> "output" [] k = "accounting" -> "account"
          [] k = "cancel" -> "known" [] OTHER -> "squeue")
  /\ UNCHANGED <<jobVars, limit, poll, waited, seen, look, ending>>

\* require_owned does not find the job, or an argument is not an acceptable number.
RefuseCall ==
  /\ at = "begin"
  /\ Answer("refused")
  /\ UNCHANGED <<jobVars, argVars, waited, seen, look, ending>>

\* Deliberate variant: squeue is only believed about a running job.
LookQueue_OnlyRunning(heard, listed) ==
  /\ at = "squeue"
  /\ listed => heard
  /\ (heard /\ Live) => listed
  /\ seen' = IF listed THEN Text(job, "") ELSE Unknown
  /\ look' = [heard |-> heard, ended |-> ~Live, told |-> listed /\ ~Live, time |-> waited]
  /\ Go(IF (listed /\ job = "RUNNING") \/ kind = "queue" THEN "known" ELSE "sacct")
  /\ UNCHANGED <<jobVars, argVars, waited, ending>>

\* _query_squeue: a live job is listed if squeue answers, an ended one perhaps.
LookQueue(heard, listed) ==
  /\ at = "squeue"
  /\ listed => heard
  /\ (heard /\ Live) => listed
  /\ seen' = IF listed THEN Text(job, "") ELSE Unknown
  /\ look' = [heard |-> heard, ended |-> ~Live, told |-> listed /\ ~Live, time |-> waited]
  /\ Go(IF listed \/ kind = "queue" THEN "known" ELSE "sacct")
  /\ UNCHANGED <<jobVars, argVars, waited, ending>>

\* The fallback of status: the first row of sacct, or UNKNOWN.
LookAccount(answered) ==
  /\ at = "sacct"
  /\ answered => acct # "none"
  /\ seen' = IF answered THEN Printed(acct) ELSE Unknown
  /\ look' = [look EXCEPT !.ended = @ \/ ~Live, !.told = answered /\ acct = job /\ ~Live]
  /\ Go("known")
  /\ UNCHANGED <<jobVars, argVars, waited, ending>>

ReturnState ==
  /\ at = "known" /\ kind \in {"status", "queue"}
  /\ Answer(IF kind = "status" THEN "state" ELSE "listing")
  /\ UNCHANGED <<jobVars, argVars, waited, seen, look, ending>>

\* The wait is over; wait_and_diagnose goes on as diagnose.
SeeEnd ==
  /\ at = "known" /\ kind \in Waits /\ Recognised(seen)
  /\ ending' = look
  /\ IF kind = "wait"
     THEN Answer("ended") /\ UNCHANGED kind
     ELSE Go("squeue") /\ kind' = "diagnose"
  /\ UNCHANGED <<jobVars, limit, poll, waited, seen, look>>

GiveUp ==
  /\ at = "known" /\ kind \in Waits /\ ~Recognised(seen)
  /\ waited >= limit
  /\ Answer("gave up")
  /\ UNCHANGED <<jobVars, argVars, waited, seen, look, ending>>

\* Deliberate variants: gives up after the last sleep without another look;
\* does not count its sleeps.
Sleep_ThenGivesUp ==
  /\ at = "known" /\ kind \in Waits /\ ~Recognised(seen)
  /\ waited < limit
  /\ waited' = waited + poll
  /\ IF waited' >= limit THEN Answer("gave up") ELSE Go("squeue")
  /\ UNCHANGED <<jobVars, argVars, seen, look, ending>>
Sleep_NotCounted ==
  /\ at = "known" /\ kind \in Waits /\ ~Recognised(seen)
  /\ waited < limit
  /\ Go("squeue")
  /\ UNCHANGED <<jobVars, argVars, waited, seen, look, ending>>

\* asyncio.sleep(poll), and then another look.
Sleep ==
  /\ at = "known" /\ kind \in Waits /\ ~Recognised(seen)
  /\ waited < limit
  /\ waited' = waited + poll
  /\ Go("squeue")
  /\ UNCHANGED <<jobVars, argVars, seen, look, ending>>

\* diagnose: the status, then the accounting record, whose absence is no error,
\* then the two tails.
Diagnose ==
  /\ at = "known" /\ kind = "diagnose"
  /\ Go("account")
  /\ UNCHANGED <<jobVars, argVars, waited, seen, look, ending>>

\* accounting: sacct with check; it fails or has no row (~found).
Account(found) ==
  /\ at = "account"
  /\ found => acct # "none"
  /\ IF kind = "diagnose" THEN Go("output")
     ELSE Answer(IF found THEN "record" ELSE "error")
  /\ UNCHANGED <<jobVars, argVars, waited, seen, look, ending>>

\* output: ensure_job_dir and a bounded tail; a missing log is an answer too.
Output ==
  /\ at = "output"
  /\ Answer(IF kind = "diagnose" THEN "diagnosed" ELSE "text")
  /\ UNCHANGED <<jobVars, argVars, waited, seen, look, ending>>

\* scancel is asked; Slurm may act on it at once, later or not at all.
Cancel(works) ==
  /\ at = "known" /\ kind = "cancel"
  /\ Answer(IF works THEN "cancelled" ELSE "error")
  /\ job' \in IF works /\ Live THEN {job, "CANCELLED"} ELSE {job}
  /\ UNCHANGED <<acct, requeues, argVars, waited, seen, look, ending>>

\* Any ssh call may raise, and so may ensure_job_dir; nothing here catches that.
WaitFails ==
  /\ at \in {"squeue", "sacct", "account", "output"}
  /\ Answer("error")
  /\ UNCHANGED <<jobVars, argVars, waited, seen, look, ending>>

-----------------------------------------------------------------------------
(* Slurm, as long as somebody asks. *)

Progress ==
  /\ Live /\ at # "done"
  /\ job' \in EndLabels \cup {"RUNNING"} /\ job' # job
  /\ UNCHANGED <<acct, requeues, argVars, at, waited, seen, answer, look, ending>>

\* A job that was preempted or lost its node goes back into the queue.
Requeue ==
  /\ job \in {"NODE_FAIL", "PREEMPTED"} /\ requeues < MaxRequeues /\ at # "done"
  /\ job' = "PENDING" /\ requeues' = requeues + 1
  /\ UNCHANGED <<acct, argVars, at, waited, seen, answer, look, ending>>

CatchUp ==
  /\ acct # job /\ acct' = job /\ at # "done"
  /\ UNCHANGED <<job, requeues, argVars, at, waited, seen, answer, look, ending>>

WaitStep ==
  \/ \E heard, listed \in BOOLEAN : LookQueue(heard, listed)
  \/ \E answered \in BOOLEAN : LookAccount(answered)
  \/ ReturnState \/ SeeEnd \/ GiveUp \/ Sleep
  \/ Diagnose \/ Output
  \/ \E found \in BOOLEAN : Account(found)
  \/ \E works \in BOOLEAN : Cancel(works)
  \/ WaitFails

WaitNext ==
  \/ \E k \in Waits, t \in Timeouts, i \in Intervals : BeginWait(k, t, i)
  \/ \E k \in Kinds \ Waits : BeginOther(k)
  \/ RefuseCall
  \/ WaitStep
  \/ Progress \/ Requeue \/ CatchUp

WaitSpec == WaitInit /\ [][WaitNext]_waitVars /\ WF_waitVars(WaitStep)

-----------------------------------------------------------------------------
(* Properties. *)

WaitTypeOK ==
  /\ job \in EndLabels \cup {"PENDING", "RUNNING", "CANCELLED"}
  /\ acct \in EndLabels \cup {"PENDING", "RUNNING", "CANCELLED", "none"}
  /\ requeues \in 0..MaxRequeues
  /\ kind \in Kinds \cup {"none"} /\ at \in Steps /\ answer \in Answers
  /\ seen \in Texts /\ limit \in 0..WaitMax /\ poll \in 2..60 /\ waited \in Nat
  /\ look \in [heard : BOOLEAN, ended : BOOLEAN, told : BOOLEAN, time : Nat]
  /\ ending \in [heard : BOOLEAN, ended : BOOLEAN, told : BOOLEAN, time : Nat]

\* A wait reports an end only of a job that had ended when it last asked,
\* although sacct lags and a job may be requeued; what can still mislead it is
\* a squeue that fails while a requeued job runs, since status ignores query_ok.
EndIsReal ==
  (answer = "ended" \/ ending # NoLook) =>
    ending.ended \/ (~ending.heard /\ requeues > 0)

\* A wait that gives up has looked after its last sleep, and if the job had
\* ended by then, squeue and sacct did not say so, or they said it in one of
\* the ways wait does not understand (OddEnds, and CANCELLED as sacct prints it).
GiveUpIsInformed ==
  answer = "gave up" =>
    /\ look.time = waited
    /\ look.told => seen.label \in OddEnds \/ seen.suffix = " by uid"

\* The sleeps of a wait go beyond its deadline by less than one interval.
WaitIsBounded == waited < limit + poll

\* Every call returns, whatever Slurm does with the job: a wait has its
\* deadline, and each command answers or is given up.
WaitReturns == at # "begin" ~> at = "done"
=============================================================================

------------------------------ MODULE Registry ------------------------------
(***************************************************************************)
(* The tracked-jobs registry of slurm/jobs.py: one JSON file on the login  *)
(* node that every MCP instance of the account updates by read, merge and  *)
(* guarded write.                                                          *)
(*                                                                         *)
(* A writer is one call of JobTracker.register and is named after the job  *)
(* it records (Slurm never hands out an id twice).  Its client half runs   *)
(* in the MCP process; its remote half is the shell script that            *)
(* _write_register sends through ssh.  The two halves fail independently:  *)
(* when the client times out only the local ssh process is killed, and the *)
(* script goes on by itself.                                               *)
(*                                                                         *)
(* A file's content is the set of jobs it holds, and the version token     *)
(* (md5 of the bytes) is the content itself: equal tokens, equal content.  *)
(***************************************************************************)
EXTENDS Naturals, FiniteSets

CONSTANTS
    Writers,           \* the register calls, named after their jobs
    Earlier,           \* jobs recorded before, by any instance
    MaxEntries,        \* the largest registry accepted (10000 in the code)
    LockAttempts,      \* _LOCK_ATTEMPTS
    RegisterAttempts,  \* _REGISTER_ATTEMPTS
    Faults,            \* what may go wrong on the way, see FaultKinds
    None               \* no lock directory

\* kill: a script dies without running its EXIT trap (SIGKILL, node reboot).
\* cut:  the connection ends before the whole payload went through.
FaultKinds == {"kill", "cut"}

Jobs == Earlier \cup Writers

ASSUME ConstantsAssumption ==
    /\ Writers \cap Earlier = {}
    /\ MaxEntries \in Nat /\ Cardinality(Earlier) <= MaxEntries
    /\ LockAttempts \in Nat \ {0}
    /\ RegisterAttempts \in Nat \ {0}
    /\ Faults \subseteq FaultKinds
    /\ None \notin Writers

VARIABLES
    reg,      \* content of tracked_jobs.json
    lock,     \* who made the present lock directory, or None (the code sees only that it exists)
    age,      \* "stale" once the lock directory is older than _LOCK_STALE_MINUTES
    pc,       \* pc[w]: client half of call w
    attempt,  \* attempt[w]: the pass of register's retry loop it is in
    at,       \* at[w]: where the remote script of call w stands
    tries,    \* tries[w]: n of the script's lock loop
    held,     \* held[w]: lock_held of the script
    token,    \* token[w]: the version its payload was merged from
    stdin,    \* stdin[w]: how much of the payload the node will have received
    tmp,      \* tmp[w]: content of its temporary file
    code      \* code[w]: its exit status

clientVars == <<pc, attempt>>
scriptVars == <<at, tries, held, token, stdin, tmp, code>>
vars == <<reg, lock, age, clientVars, scriptVars>>

\* A missing file, bytes that are not a JSON object, or the object of these
\* jobs.  A blank file counts as an object without jobs.
Contents == [form : {"absent", "garbled", "object"}, jobs : SUBSET Jobs]
Absent == [form |-> "absent", jobs |-> {}]
Garbled == [form |-> "garbled", jobs |-> {}]
Object(jobs) == [form |-> "object", jobs |-> jobs]

ScriptSteps == {"lock", "probe", "stale", "check", "write", "move", "cleanup"}
Returned == {"ok", "refused", "unknown"}

Ok == 0
Failed == 1
Conflict == 3  \* _REGISTRY_CONFLICT_EXIT

TypeOK ==
    /\ reg \in Contents
    /\ lock \in Writers \cup {None}
    /\ age \in {"fresh", "stale"}
    /\ pc \in [Writers -> {"idle", "reading", "waiting"} \cup Returned]
    /\ attempt \in [Writers -> 1..RegisterAttempts]
    /\ at \in [Writers -> ScriptSteps \cup {"none", "ended", "dead"}]
    /\ tries \in [Writers -> 0..LockAttempts]
    /\ held \in [Writers -> {0, 1}]
    /\ token \in [Writers -> Contents]
    /\ stdin \in [Writers -> {"whole", "part", "nothing"}]
    /\ tmp \in [Writers -> Contents]
    /\ code \in [Writers -> {Ok, Failed, Conflict}]

\* What register hands to _write_register: the snapshot and its own record.
Payload(w) == Object(token[w].jobs \cup {w})

Init ==
    /\ reg \in {Absent, Object(Earlier)}
    /\ lock = None
    /\ age = "fresh"
    /\ pc = [w \in Writers |-> "idle"]
    /\ attempt = [w \in Writers |-> 1]
    /\ at = [w \in Writers |-> "none"]
    /\ tries = [w \in Writers |-> 0]
    /\ held = [w \in Writers |-> 0]
    /\ token = [w \in Writers |-> Absent]
    /\ stdin = [w \in Writers |-> "whole"]
    /\ tmp = [w \in Writers |-> Absent]
    /\ code = [w \in Writers |-> Ok]

-----------------------------------------------------------------------------
(* The client half: JobTracker.register.                                   *)

\* register checks its arguments and the metadata directory (ensure_ready);
\* either may refuse before anything is read.
Begin(w) ==
    /\ pc[w] = "idle"
    /\ \E verdict \in {"reading", "refused"} : pc' = [pc EXCEPT ![w] = verdict]
    /\ UNCHANGED <<reg, lock, age, attempt, scriptVars>>

\* _read_register_snapshot took a version, or raised.  A `cat` that fails for
\* any reason is taken for a missing file.
Snapshots == IF reg = Garbled THEN {Absent} ELSE {reg, Absent}

\* _write_register sends nothing for more than 10000 entries.
WithinLimit_BeforeMerge(jobs, w) == Cardinality(jobs) <= MaxEntries

WithinLimit(jobs, w) == Cardinality(jobs \cup {w}) <= MaxEntries

\* One pass of the loop: snapshot, merge, script sent.
Read(w) ==
    /\ pc[w] = "reading"
    /\ \E t \in Snapshots :
        /\ WithinLimit(t.jobs, w)
        /\ token' = [token EXCEPT ![w] = t]
    /\ pc' = [pc EXCEPT ![w] = "waiting"]
    /\ at' = [at EXCEPT ![w] = "lock"]
    /\ tries' = [tries EXCEPT ![w] = 0]
    /\ held' = [held EXCEPT ![w] = 0]
    /\ tmp' = [tmp EXCEPT ![w] = Absent]
    /\ UNCHANGED <<reg, lock, age, attempt, stdin, code>>

\* The pass ends before a script is sent: ssh failed, the file is not a JSON
\* object, or the merged payload is over the limit.
ReadRefused(w) ==
    /\ pc[w] = "reading"
    /\ pc' = [pc EXCEPT ![w] = "refused"]
    /\ UNCHANGED <<reg, lock, age, attempt, scriptVars>>

\* A conflict is retried while attempts remain; another failure is final.
Reply_OneAttemptMore(w) ==
    /\ pc[w] = "waiting"
    /\ at[w] = "ended"
    /\ IF code[w] = Conflict /\ attempt[w] <= RegisterAttempts
       THEN /\ pc' = [pc EXCEPT ![w] = "reading"]
            /\ attempt' = [attempt EXCEPT ![w] = @ + 1]
       ELSE /\ pc' = [pc EXCEPT ![w] = IF code[w] = Ok THEN "ok" ELSE "refused"]
            /\ UNCHANGED attempt
    /\ UNCHANGED <<reg, lock, age, scriptVars>>

Reply(w) ==
    /\ pc[w] = "waiting"
    /\ at[w] = "ended"
    /\ IF code[w] = Conflict /\ attempt[w] < RegisterAttempts
       THEN /\ pc' = [pc EXCEPT ![w] = "reading"]
            /\ attempt' = [attempt EXCEPT ![w] = @ + 1]
       ELSE /\ pc' = [pc EXCEPT ![w] = IF code[w] = Ok THEN "ok" ELSE "refused"]
            /\ UNCHANGED attempt
    /\ UNCHANGED <<reg, lock, age, scriptVars>>

\* command_timeout expires or the connection drops (SshError): the local ssh
\* is killed, the script is not.  What it has not received by then it never
\* will: its stdin ends.
Timeout(w) ==
    /\ pc[w] = "waiting"
    /\ pc' = [pc EXCEPT ![w] = "unknown"]
    /\ \E s \in IF "cut" \in Faults THEN {"whole", "part", "nothing"} ELSE {"whole"} :
          stdin' = [stdin EXCEPT ![w] = s]
    /\ UNCHANGED <<reg, lock, age, attempt, at, tries, held, token, tmp, code>>

-----------------------------------------------------------------------------
(* The remote half: the script of _write_register, in its own order.       *)

Finish(w, status) ==
    /\ at' = [at EXCEPT ![w] = "cleanup"]
    /\ code' = [code EXCEPT ![w] = status]

Goto(w, step) ==
    /\ at' = [at EXCEPT ![w] = step]
    /\ UNCHANGED code

\* mkdir succeeds.
TakeLock(w) ==
    /\ at[w] = "lock"
    /\ tries[w] < LockAttempts
    /\ lock = None
    /\ lock' = w
    /\ age' = "fresh"
    /\ held' = [held EXCEPT ![w] = 1]
    /\ tries' = [tries EXCEPT ![w] = @ + 1]
    /\ Goto(w, "check")
    /\ UNCHANGED <<reg, clientVars, token, stdin, tmp>>

\* mkdir fails.
LockBusy_NotCounted(w) ==
    /\ at[w] = "lock"
    /\ tries[w] < LockAttempts
    /\ lock # None
    /\ Goto(w, "probe")
    /\ UNCHANGED <<reg, lock, age, clientVars, tries, held, token, stdin, tmp>>

LockBusy(w) ==
    /\ at[w] = "lock"
    /\ tries[w] < LockAttempts
    /\ lock # None
    /\ tries' = [tries EXCEPT ![w] = @ + 1]
    /\ Goto(w, "probe")
    /\ UNCHANGED <<reg, lock, age, clientVars, held, token, stdin, tmp>>

\* The loop runs out: "tracked-jobs lock is busy".
LockGiveUp(w) ==
    /\ at[w] = "lock"
    /\ tries[w] = LockAttempts
    /\ Finish(w, Failed)
    /\ UNCHANGED <<reg, lock, age, clientVars, tries, held, token, stdin, tmp>>

\* find ... -mmin: is the directory (if it is still there) old?  If not, sleep.
ProbeLock_AnyAge(w) ==
    /\ at[w] = "probe"
    /\ Goto(w, IF lock # None THEN "stale" ELSE "lock")
    /\ UNCHANGED <<reg, lock, age, clientVars, tries, held, token, stdin, tmp>>

ProbeLock_NeverStale(w) ==
    /\ at[w] = "probe"
    /\ Goto(w, "lock")
    /\ UNCHANGED <<reg, lock, age, clientVars, tries, held, token, stdin, tmp>>

ProbeLock(w) ==
    /\ at[w] = "probe"
    /\ Goto(w, IF lock # None /\ age = "stale" THEN "stale" ELSE "lock")
    /\ UNCHANGED <<reg, lock, age, clientVars, tries, held, token, stdin, tmp>>

\* rmdir of whatever directory is there by now; if there is none it fails and
\* the script sleeps.  Back to the top of the loop either way.
ReclaimLock(w) ==
    /\ at[w] = "stale"
    /\ lock' = None
    /\ age' = "fresh"
    /\ Goto(w, "lock")
    /\ UNCHANGED <<reg, clientVars, tries, held, token, stdin, tmp>>

\* md5sum of the file under the lock, compared with the expected version.  An
\* existing file that cannot be read is never overwritten.
CheckVersion_Skipped(w) ==
    /\ at[w] = "check"
    /\ Goto(w, "write")
    /\ UNCHANGED <<reg, lock, age, clientVars, tries, held, token, stdin, tmp>>

CheckVersion(w) ==
    /\ at[w] = "check"
    /\ \/ reg = token[w] /\ Goto(w, "write")
       \/ reg # token[w] /\ Finish(w, Conflict)
       \/ reg # Absent /\ Finish(w, Failed)
    /\ UNCHANGED <<reg, lock, age, clientVars, tries, held, token, stdin, tmp>>

\* What `cat > "$tmp"` reads until its stdin ends.  Only the whole payload is
\* a JSON object; a proper prefix is not, and no byte at all is a blank file.
Received(w) ==
    CASE stdin[w] = "whole" -> Payload(w)
      [] stdin[w] = "part" -> Garbled
      [] stdin[w] = "nothing" -> Object({})

WriteTemp(w) ==
    /\ at[w] = "write"
    /\ \/ /\ tmp' = [tmp EXCEPT ![w] = Received(w)]
          /\ Goto(w, "move")
       \/ /\ Finish(w, Failed)  \* no space, quota
          /\ UNCHANGED tmp
    /\ UNCHANGED <<reg, lock, age, clientVars, tries, held, token, stdin>>

\* mv -f: the file takes the new content in one step.
Move(w) ==
    /\ at[w] = "move"
    /\ \/ reg' = tmp[w] /\ Finish(w, Ok)
       \/ UNCHANGED reg /\ Finish(w, Failed)
    /\ UNCHANGED <<lock, age, clientVars, tries, held, token, stdin, tmp>>

\* The EXIT trap.  It removes the lock directory by its path.
Cleanup_AlwaysRmdir(w) ==
    /\ at[w] = "cleanup"
    /\ lock' = None
    /\ age' = "fresh"
    /\ tmp' = [tmp EXCEPT ![w] = Absent]
    /\ Goto(w, "ended")
    /\ UNCHANGED <<reg, clientVars, tries, held, token, stdin>>

Cleanup(w) ==
    /\ at[w] = "cleanup"
    /\ IF held[w] = 1
       THEN lock' = None /\ age' = "fresh"
       ELSE UNCHANGED <<lock, age>>
    /\ tmp' = [tmp EXCEPT ![w] = Absent]
    /\ Goto(w, "ended")
    /\ UNCHANGED <<reg, clientVars, tries, held, token, stdin>>

-----------------------------------------------------------------------------
(* The surroundings.                                                       *)

\* The script dies without its trap; its client, if it still waits, gets an
\* exit status that says nothing about the write.
Kill(w) ==
    /\ "kill" \in Faults
    /\ at[w] \in ScriptSteps
    /\ at' = [at EXCEPT ![w] = "dead"]
    /\ pc' = [pc EXCEPT ![w] = IF @ = "waiting" THEN "unknown" ELSE @]
    /\ UNCHANGED <<reg, lock, age, attempt, tries, held, token, stdin, tmp, code>>

\* Minutes pass.  Only a directory whose maker is dead lives that long: the
\* code counts on a live script holding it for well under a second.
LockAges ==
    /\ lock # None
    /\ at[lock] = "dead"
    /\ age = "fresh"
    /\ age' = "stale"
    /\ UNCHANGED <<reg, lock, clientVars, scriptVars>>

ClientStep(w) == Begin(w) \/ Read(w) \/ ReadRefused(w) \/ Reply(w) \/ Timeout(w)

ScriptStep(w) ==
    \/ TakeLock(w) \/ LockBusy(w) \/ LockGiveUp(w) \/ ProbeLock(w) \/ ReclaimLock(w)
    \/ CheckVersion(w) \/ WriteTemp(w) \/ Move(w) \/ Cleanup(w)

Next ==
    \/ \E w \in Writers : ClientStep(w) \/ ScriptStep(w) \/ Kill(w)
    \/ LockAges

Spec == Init /\ [][Next]_vars

\* The event loop resumes a call whose answer is there, and a script that is
\* not killed runs on: it waits for nothing but one second at a time.
Fairness ==
    \A w \in Writers :
        /\ WF_vars(Read(w) \/ ReadRefused(w) \/ Reply(w))
        /\ WF_vars(ScriptStep(w))

FairSpec == Spec /\ Fairness

-----------------------------------------------------------------------------
(* Why it works: the inductive invariant, in the parts the proofs use.  It *)
(* holds while no payload is cut and either no script is killed or there   *)
(* are at most two writers.  With a third one, two live scripts can        *)
(* reclaim the same old lock, one of them after the other has taken a new  *)
(* one.                                                                    *)

InLockedSection(w) == at[w] \in {"check", "write", "move"}

\* The lock directory belongs to the live script that believes it holds it: an
\* old one is a dead script's, and who is about to remove it is alone.
LockInv ==
    /\ age = "stale" => lock # None /\ at[lock] = "dead"
    /\ \A w \in Writers :
        /\ at[w] = "dead" => "kill" \in Faults
        /\ at[w] = "stale" => \A v \in Writers \ {w} : at[v] = "dead"
        /\ at[w] \in {"lock", "probe", "stale"} => held[w] = 0
        /\ InLockedSection(w) => held[w] = 1
        /\ held[w] = 1 /\ at[w] \in {"check", "write", "move", "cleanup"} => lock = w

\* What was compared under the lock is still in the file, and what is about
\* to replace it is that version and one more record.
VersionInv ==
    \A w \in Writers :
        /\ stdin[w] = "whole"
        /\ at[w] \in {"write", "move"} => reg = token[w]
        /\ at[w] = "move" => tmp[w] = Payload(w)

\* A job is in the file exactly when its script has committed (a dead one may
\* have or not), and the client half is never ahead of its script.
Committed(w) == at[w] \in {"cleanup", "ended"} /\ code[w] = Ok

RecordInv ==
    \A w \in Writers :
        /\ at[w] # "dead" => (w \in reg.jobs <=> Committed(w))
        /\ pc[w] = "idle" => at[w] = "none"
        /\ pc[w] \in {"reading", "refused"} => at[w] = "none" \/ (at[w] = "ended" /\ code[w] # Ok)
        /\ pc[w] = "ok" => at[w] = "ended" /\ code[w] = Ok

\* Every version a script carries, and the file itself, is within the limit.
LimitInv ==
    /\ Cardinality(reg.jobs) <= MaxEntries
    /\ \A w \in Writers : at[w] # "none" => WithinLimit(token[w].jobs, w)

IInv == TypeOK /\ LockInv /\ VersionInv /\ RecordInv /\ LimitInv

-----------------------------------------------------------------------------
(* Properties.                                                             *)

\* Two scripts are never both between taking the lock and leaving it: the
\* compare of one and the rename of the other never interleave.
MutualExclusion ==
    \A v, w \in Writers : InLockedSection(v) /\ InLockedSection(w) => v = w

\* The version a script compared is the one it replaces: no other commit
\* falls between its md5sum and its mv.
CommitReplacesCheckedVersion ==
    [][\A w \in Writers : at[w] = "move" /\ reg' # reg /\ at'[w] = "cleanup"
                              => reg = token[w]]_vars

\* A record, once in the file, is never dropped by a registration of another
\* instance.
RecordsSurvive == [][reg.jobs \subseteq reg'.jobs]_vars

\* The verdict a caller got agrees with the file for ever after: submit keeps
\* the job on "ok" and cancels it on "refused".
VerdictsHold ==
    \A w \in Writers : /\ pc[w] = "ok" => w \in reg.jobs
                       /\ pc[w] = "refused" => w \notin reg.jobs

\* The registry never grows past the limit above which every later read, and
\* with it every operation on a tracked job, would be refused.
NeverOverLimit == Cardinality(reg.jobs) <= MaxEntries

\* A call that was made returns, however the lock and the version race go.
CallsReturn ==
    \A w \in Writers : pc[w] \in {"reading", "waiting"} ~> pc[w] \in Returned

\* A dead writer's lock does not stop a later one: once it is stale, a script
\* with two passes of the lock loop left gets past it.
DeadLockYields ==
    \A w \in Writers :
        (/\ lock # None /\ age = "stale"
         /\ at[w] = "lock" /\ tries[w] + 1 < LockAttempts)
            ~> (lock = w \/ at[w] = "dead")

\* The detailed protocol implements the ledger.
Outcome == [w \in Writers |-> IF pc[w] \in {"reading", "waiting"} THEN "pending" ELSE pc[w]]

Ledger == INSTANCE OwnershipLedger WITH entries <- reg.jobs, outcome <- Outcome

ImplementsLedger == Ledger!Spec
=============================================================================

# A TLA+ verification of HPC-MCP

HPC-MCP is an MCP server with which coding agents work on an HPC cluster: files,
searches, Slurm jobs, probes of compute nodes, all through `ssh` to a login node
and often under an account that several people share. One server process per
agent runs one asyncio event loop; any number of server processes of the same
account share files under `$ROOT/.hpc-mcp` on the login node. This directory
models the parts of the server in which steps of several actors meet, checks
them with TLC, and proves the main results with TLAPS.

All paths below are relative to `src/src/hpc_mcp/` unless they start with `docs/`.

## The system

| component | code | state it keeps | operations | interacts with |
|---|---|---|---|---|
| call dispatch | `server.py` | none of its own | `on_call_tool`: validate, cache lookup, handler, store or clear, redact | every tool; the query cache |
| query cache | `cache.py` | `_data`: key, expiry, payload | `get`, `put` (evicts), `invalidate` | call dispatch |
| ownership registry | `slurm/jobs.py` | `tracked_jobs.json`, its lock directory and temporary files, all on the login node; `_initialized` | `register` (read, merge, guarded write, retry), `list_mine`, `require_owned`, `count_active`, `ensure_job_dir` | other server processes through the files; Slurm |
| Slurm manager | `slurm/manager.py` | `_submit_lock` | `submit`, `job_run`, `status`, `queue`, `wait`, `wait_and_diagnose`, `output`, `accounting`, `cancel`, `diagnose` | the registry, Slurm, the policy |
| Slurm policy | `security/slurm_policy.py` | none | `validate_job_request`, time and memory conversion | submit |
| topology service | `cluster/topology.py` | `_lock`, `_memory`, `_pending`; a JSON file per partition shared by all instances | `probe(partition, refresh)` | Slurm manager, file service |
| file service | `filesystem/*.py` | the user's files | list (paged), read (slice), write (optimistic), mkdir, delete, rename, search, upload, download | ssh, path policy |
| ssh layer | `ssh/manager.py`, `ssh/sftp.py` | one process per command | `run`, `run_raw`, `realpath`, batches | every component |
| policies | `security/*.py`, `shell/safe_exec.py` | none | path sandbox, command allow-list, cost budget | files, shell |
| tools, configuration, logging, redaction, snapshot | `tools/registry.py`, `config.py`, `mcp_config.py`, `logging.py`, `response_redactor.py`, `project/snapshot.py` | settings, audit log | schemas, parsing, formatting | – |

What is hard in it:

- **Two halves that fail apart.** A command is a local `ssh` process and a remote
  one. A timeout kills the local one (`ssh/manager.py:223`); the remote one goes on,
  with whatever part of its stdin it got.
- **Several writers of one file.** The registry is read, merged and replaced by
  processes that know nothing of each other; a lock directory and a compare-and-swap
  on the md5 of the file are all there is between them.
- **Interleaved handlers.** Every `await` in a handler lets other calls run: reads
  and mutations around the cache, submits around the count, probes around the
  pending job.
- **Sources that disagree.** squeue forgets finished jobs, sacct lags and purges,
  either may fail, and an empty answer looks the same in all cases.
- **Things left behind.** A lock directory, a job without a record, a queued probe
  nobody refers to, a record that appears after the call was given up.

What makes each component correct, in one line each: a registration is never lost
and its verdict is true for ever; the instance never manages more than
`max_concurrent_jobs` jobs, does not leave jobs behind silently and never refuses for
good; a cached answer is only as old as promised; a probe job is not duplicated, and
facts are as new as they claim; a wait ends when it should and for the reason it
names; an accepted write replaces the file its agent had seen, and no content is
torn without a sign; a listing leaves nothing out silently; every ssh call ends, and a
short answer is a complete one; a granted job is the one that was asked for, within the
limits; each setting is what the highest source says.

`PROJECT.json` lists the components with their status and every hazard with the
line where it bites and the properties that watch it.

## The modules

| module | models | proofs |
|---|---|---|
| `OwnershipLedger` | what the registry promises: a set that only grows, one record per call, verdicts that agree with it | – |
| `Registry` | `JobTracker.register` and the shell script of `_write_register`, any number of instances | `RegistryProofs` |
| `Submit` | `SlurmManager.submit` of one instance with `count_active`; the registry appears as `OwnershipLedger` | `SubmitProofs` |
| `QueryCache` | `QueryCache` and `on_call_tool` | `QueryCacheProofs` |
| `Topology` | `TopologyService.probe` for one partition | `TopologyProofs` |
| `WaitLoop` | the queries of `SlurmManager` about a job: status, queue, wait, wait_and_diagnose, diagnose, output, accounting, cancel | `ServerProofs` |
| `Files` | `FileService` and `TransferService` on one file: write, append, read, stat, delete, rename, mkdir, upload, download | `FilesProofs` |
| `Listing` | `FileService.list_dir` with pages and cursors | `ListingProofs` |
| `Transport` | `SshManager.run_raw` and `SftpClient._run_batch` | `ServerProofs` |
| `Policy` | script directives, `validate_job_request`, `_render_script`, `recommend_parallel` | `PolicyProofs` |
| `Settings` | `build_config` for each setting | `ServerProofs` |
| `Server` | the six modules above side by side | `ServerProofs` |
| `MCServer`, other `MC…` | the instances for TLC and its symmetry sets | – |

`Registry` implements `OwnershipLedger` (checked by TLC, proved by TLAPS), and
`Submit` is composed with `OwnershipLedger` instead of `Registry`: what is shown of
`Submit` rests on what the ledger promises, not on the protocol underneath.

Definitions that end in `_Something` next to an action (`Cleanup_AlwaysRmdir`) are
deliberately wrong variants of it. They are no part of any specification; each
property is tested by putting one in the place of the right definition and
watching the property fail.

### Registry

A writer is one call of `register`, named after its job (Slurm hands out an id
once). `pc[w]`, `attempt[w]` are its client half in the server process; `at[w]`, `tries[w]`,
`held[w]`, `token[w]`, `tmp[w]`, `code[w]` are its script on the login node; `reg`, `lock`,
`age` are the files they share. A content of the registry is the set of its jobs,
or "absent", or "garbled"; the md5 token is the content itself. The steps of the
script are its commands in their order: `mkdir` (`TakeLock`, `LockBusy`), `find`
(`ProbeLock`), `rmdir` (`ReclaimLock`), `md5sum` (`CheckVersion`), `cat` (`WriteTemp`),
`mv` (`Move`), the EXIT trap (`Cleanup`). `Timeout` detaches the client and leaves the script
running. `cat` of the registry may fail at any time, which reads as "absent".

Two faults can be switched on: `kill` (a script dies anywhere without its trap,
and a dead writer's lock ages) and `cut` (a client that goes away has sent only a
part of the payload). Symlink tests are left out: no step of the program makes a
symlink there.

### Submit

One action per await of `_submit_impl`, under `_submit_lock`: `ReadIds` and `AskSqueue`
(`_queue_states`), `ReadMine` and `Count` (`count_active`, then the ceiling), `Sbatch`, `Verify`,
`VerifyByAccount`, `Prepare`, `Registered`/`NotRegistered`, `Rollback`. Slurm is `slurm[j]`
(none, live, ended, cancelled); what squeue and sacct say about it is chosen within what the
faults allow. squeue lists live jobs and perhaps those that are over; a failing batch leaves
the rows of the others. sacct may lag, purge, or fail after printing some rows, and it prints
"CANCELLED by <uid>" for a cancelled job, which `count_active` does not take for an end:
`AccountRows` never has such a job among the ended ones.
`Abort` is `CancelledError`, which `except Exception` does not catch. `Recorded` is the
registry script committing, possibly long after its call gave up. `Managed` are
the live jobs the instance answers for: recorded, or in the hands of a call.
Request checks other than the ceiling are one nondeterministic refusal (`Invalid`).

### QueryCache

A read is what it has seen: the set of changes that had taken effect when its
remote command looked. The history variables (`when`, `looked`, `took`, `source`,
`before`, `over`) are not in the code; they are what the properties speak of.
`Silent` are mutating tools that do not clear the cache (`hpc.job.run`,
`server.py:137`). A call that raises (`Reject`) may have had its effect and clears nothing.

### Topology

A call submits at most one job, which carries its name. `memory`, `file`, `pending`
are the session cache, the shared JSON file and the queued probe; a payload is the
job it comes from and the time stamped on it. `SshFails` is any ssh call that raises,
`Abort` a cancelled request, both counted in `failures`; a submit that raises may leave
its job in the queue (that is what `LeaksAreKnown` of `Submit` allows), if the constant
`SubmitLeaves` says so. A cancel or a write of the file that raises may have happened all
the same. `OthersWrite` is another instance writing the shared file.
`wait` is one step: the loop of polls has no state besides its deadline.

### WaitLoop

One call at a time (`kind`), while Slurm moves the job: it may start, end in any of
`EndLabels`, be requeued after `PREEMPTED` or `NODE_FAIL`, and sacct follows with a delay
(`CatchUp`). `LookQueue` is squeue (a live job is listed whenever squeue answers; an
ended one perhaps), `LookAccount` the fallback to sacct, `SeeEnd`, `GiveUp`, `Sleep` the three ways on from
a look. `seen` is the text of the state, with the suffix sacct puts after `CANCELLED`. `look` and
`ending` remember what was true at the last look and at the one that ended the wait.

### Files

A call is a sequence of remote commands: resolve, `stat` (`Probe`), `sha256sum` (`Hash`), the
redirection (`Open`), the bytes one by one (`Send`), the exit (`FinishWrite`). The remote process
writes to an open file, which may be renamed or removed under it (`fd`). `GiveUpWrite` is the
client's timeout, after which the remote half goes on, or is cut off (`CutOff`). Between any
two steps another call, of this or another instance, may do anything. `others[c]` tells whether the
file has changed since c checked it, `blurred[c]` whether that happened in the second of the mtime
that c's agent saw. Two commands fail without a word: the `stat` before a write, whose failure means
"a new file" and lets the write go on (`Probe`), and `dd` in front of a pipe, whose failure, a directory
or an unreadable file included, makes a short or empty slice (`ReadSlice`). `probed[c].misled` remembers
that a call was told such a thing.

### Listing

A directory is the number of entries at each depth. `EnumerateLayer` is one remote
`find | head`: it may be cut by the room left on the page, by the output cap or because a
directory cannot be read, and `find` may or may not have written everything before `head`
goes (then the cut shows in no exit code). `ReturnPage` computes `truncated` and `next_cursor`, and
the agent follows the cursor to the end.

### Transport

One local process with its input, its output counted in bytes, the two readers and
the timer. The remote side reads, prints and exits in any order (`Remote…`); the event loop and the
timer are `LocalStep`. An sftp batch is a call with its own cap whose output may carry an
error although the exit code is 0 (`CompleteInWords`).

### Policy

`Merged` completes the agent's arguments by the directives of the script, `Valid` is
`validate_job_request`, `Rendered` the `#SBATCH` lines. A text is a number with a unit or with fields.
`SlurmSeconds`, `SlurmKib`, `SlurmCpus`, `SlurmMemory` and `SlurmGpus` say what Slurm makes of these lines; they
come from the documentation of sbatch, not from the code. `Advise` is `recommend_parallel` on any subset of the facts.

### Settings

`Table` is the table of settings as `build_config` reads them: sources in their order, range,
default. `Load` gives one setting a value in any of five places (command line, environment,
section, top level, hyphenated key) and computes what the configuration holds, whether the load
is refused, and whether a warning about an unread key is printed.

### Server

The six modules share no state: the wait loop, files, listings, single commands, the check
of a request and the start-up meet only through the cluster, which each of them models as
free to do anything. `part` chooses one of them, so the behaviours are the union of theirs and the
number of states their sum. What they have in common with the other modules is stated
there: `Files`, `WaitLoop`, `Submit` and `Topology` take from `Transport` that a call ends with a
result or an error and that its remote half may go on.

## The runs

| run | instance | what it shows |
|---|---|---|
| `Registry_safe` | 3 writers, 1 earlier job, room for 2 of the 3, 2 lock attempts, 2 passes, no faults | mutual exclusion, no lost commit, true verdicts, the entry limit, and the refinement of the ledger; clients may time out at any moment |
| `Registry_kill` | 2 writers, 3 lock attempts, 2 passes, kills | records and verdicts survive kills anywhere; every call returns; a dead writer's lock is reclaimed |
| `Registry_reclaim` | 3 writers, kills | violation: two scripts reclaim the same dead lock, a record is lost |
| `Registry_cut` | 2 writers, truncated payloads | violation: a truncated payload replaces the registry |
| `Submit_faults` | 3 calls, ceiling 2, failing probes, lag, lost answers | the ceiling holds, and so does the inductive invariant of its proof |
| `Submit_slots` | 2 calls, ceiling 2, two earlier jobs that are alive, ended or cancelled, lost answers, cancellations, failing rollbacks, fairness | answers are true; jobs are left behind only in the known ways; a denied caller who asks again is served in the end, as long as one slot is not held by a cancelled job |
| `Submit_leak` | 2 calls, failing probes, lag | violation: an unverified job is left running without a word |
| `QueryCache_serve` | 2 reads, 2 keys, 1 entry, one clearing and one silent mutation, one outside change, TTL 1, clock to 2 | own writes are seen, other changes after TTL + fetch, the bound holds |
| `QueryCache_race` | 2 reads, 1 mutation | violation: a read in flight brings the old answer back |
| `Topology_probe` | 3 calls, TTL 1, clock to 3, one failure | duplicates need a failure, a refresh is new, facts come from completed jobs, their age is bounded |
| `Topology_duplicate` | 2 calls, one failure | violation: a failed poll leads to a duplicate probe |
| `Server_parts` | one query of a job; two calls on a file; directories of depth and width 3; one command; scripts of two lines; one load of each setting | a wait tells the truth and every query returns; writes know what they replace and nothing is torn unannounced; a listing announces what it leaves out; short results are complete and every call ends; granted jobs fit the limits and are what was asked for; advice is accepted; the highest source of a setting wins |

**Bounds.** Three writers are needed for the reclaim race (the dead one and two that
find its lock) and three submits for a lock holder, a waiter and a job already
counted (`Submit_slots` has earlier jobs for the third); two of each do for the remaining hazards.
With two slots and two earlier jobs, one slot may be held by a cancelled job while both calls compete for the
other. `LockAttempts`, `RegisterAttempts` are 2
or 3 instead of 6: one attempt to fail and one to succeed, and a third for the
reclaiming, which costs a pass of its own. `MaxEntries` 3 with one earlier job and three
writers makes the limit bite. The clocks (`MaxTime`) run past TTL plus one fetch, for
`Topology` past two TTLs. `MaxFailures` 1 suffices for each failure branch of `Topology`; the
theorems do not depend on any of these numbers. `CHECK_DEADLOCK` is off everywhere because
every model ends when its calls have been answered.

In `Server_parts`: `WaitMax` 3 with timeouts 0, 3 and 9 and intervals 1, 2 and 70 gives a wait that looks
once, one of two looks and one that is clamped, and the interval is clamped at both ends;
one requeue is enough for an old answer of sacct. Two calls on a file are a writer or reader
and whoever disturbs it, by anything but an append, which opens and sends as a write does; a payload of two bytes is the smallest that can be torn, a clock of
two values has changes within and across a second. Directories of depth and width 3 with pages of
1 to 3 entries have pages that end within a layer, at its end, and after several layers. Outputs of up to
4 bytes in chunks of 2 reach caps of 0, 2 and 9 from both sides. Scripts have up to two
directives, enough for a repeated one and for one the code reads and one it does not. Times and sizes
are chosen on both sides of each check. All six modules are proved
for every instance; these bounds only limit what TLC looks at, and liveness.

**Symmetry** (writers, calls, reads and keys) is used only in runs of safety
properties.

**Fairness.** Three runs check liveness. `Registry_kill` assumes that the event loop
resumes a call whose answer is there (`Read`, `ReadRefused`, `Reply`) and that a script that has
not been killed runs on, since it waits for nothing but one second at a time; nothing
is assumed of `Timeout`, `Kill` or `LockAges`. `Submit_slots` assumes that a call with something
to do does it (ssh answers or is given up after `command_timeout`), that the free lock is
handed to every waiter in the end (asyncio locks are first come, first served), that jobs
end (`time_limit`), and that a denied agent asks again, as the denial tells it to. `Server_parts` assumes that a wait that can go on does (`WaitStep`: its
commands answer or are given up, its sleeps end) and that the event loop and the timer of a
command run (`LocalStep`), and nothing of Slurm or the remote side. `CallEnds` excepts a remote side
that never reads its input: the timer only starts once the input is written
(`ssh/manager.py:213`), so nothing ends that wait.

## What is proved

All theorems hold for every value of the constants that meets `ConstantsAssumption`
of their module. `PROJECT.json` lists those a reader should know of.

**RegistryProofs.** `TypeCorrect` needs nothing else. The rest assumes `SafeFaults`: timeouts at any
moment, no cut payload, and either no killed script and any number of writers, or scripts killed at
any step and at most two writers. `Registry_cut` shows the first hypothesis to be needed, and
`Registry_reclaim`, with three writers and kills, the second. None of the properties is
inductive. `IInv` adds: a live script between `mkdir` and its trap owns the lock, an old lock is a dead
script's, and a script about to remove an old lock is the only live one, which is where the number of
writers counts: the lock's maker is dead, and there is no third (`LockInv`); what was compared is still in the file until the rename, and the
temporary file is that version and one record (`VersionInv`); a job is in the file exactly
when its script has committed (a killed one may have or not), and the client is never ahead of its script
(`RecordInv`); the version each script carries is within the limit (`LimitInv`). From it
follow `LockExcludes`, `VerdictsAreTrue`, `LimitKept`, `CompareAndSwapIsAtomic`, `RecordsAreKept`, and step by
step `Refinement`: `Move` is the ledger's `Record`, `Reply` is `Confirm` or `Refuse`, `Timeout` is
`LoseTouch`, `Kill` is `LoseTouch` if the client still waits, every other script step is a stutter.

**SubmitProofs.** `AnswersAreTrue` and `LeaksAreTheKnownOnes` hold under every fault, from `CoreInv`
(types, the lock, and call, job and record going through their states together).
`CeilingHolds` assumes `CeilingFaults`: no failing rollback, no cancelled request and no
unreadable registry, each of which really lets the instance lose sight of a job
that runs. Its invariant adds that a record that appears late is that of a stopped
job (`LateRecordInv`) and that nothing a call has read so far leaves a managed job out
(`CountInv`): the ids contain all of them, none was reported as ended, and none
escapes a squeue that answered. That holds because, while the call holds the lock,
managed jobs only become fewer; `CountedAll` turns it into "the count is at least the
number of managed jobs". A cancelled job that still counts makes the count larger and does no harm here;
what it costs is the subject of `EveryCallIsServed`, which TLC checks.

**QueryCacheProofs.** `IInv` says that a read has seen everything acknowledged before it
looked, apart from what was acknowledged while it was under way, and that an entry
inherits this from the read that stored it, together with a bound on its expiry.
`ReadersSeeAcknowledgedWrites`, `StalenessIsBounded` and (by counting keys) `CacheIsBounded` follow.

**TopologyProofs.** Everything from `ConstantsAssumption` alone, for any number of calls,
failing ssh calls and cancelled requests. `IInv` says that the call in progress is the
one that holds the lock and that a job is either pending or in its hands (`LockInv`),
that no job exists for a call before it submits, and that none still queues once its
output is read (`JobsInv`), and that the queued jobs nobody refers to are at most as many
as the failures so far (`ForgottenInv`). With `OneKnown`, which says that at most one queued job
is referred to, `DuplicatesBounded` follows by counting. `FactInv` carries the origin of every payload
(`RefreshAnswersAreNew`, `FactsComeFromCompletedJobs`), `AgeInv` the age of what the session cache holds
(`FactsAgeBounded`).

**ServerProofs, the queries.** For any timeouts, intervals, ends and number of requeues. `WaitInv` says that sacct
knows an end of a running job only if the job was requeued (`AccountInv`), that an answer of
squeue without the job means it had ended, and that what the last look told is in the text
(`LookInv`). `EndIsReal`, `GiveUpIsInformed` and the bound of the sleeps (`WaitIsBounded`, which no run
checks) follow. `EndLabelsAssumption` is what `count_active` knows of Slurm's ends.

**ServerProofs, the SSH layer.** For any caps, chunks and output: what was kept is the beginning of what
was read, and the overflow flag says whether there was more (`StreamInv`).

**FilesProofs.** For any number of calls, any payload, slice lengths and clock, from
`FilesAssumption` (types of the constants). `FilesInv` has one part per thing a call may rely on.
`KnownInv` follows the expectations of a write from its first step to its `Open`: as long as nobody changed
the file since a check, the check still holds, and an equal mtime means equal content unless a
change fell into the same second. `GrowthInv` says how long the file is while it is written, which gives
`ReportedSizes`; after a failed probe an append is computed from 0, so that its sum is at most the length. `NothingTorn` speaks of files nobody writes, so the open ones need `PartialInv`: the file a
call has open consists of whole payloads up to a base, and after it of what the call has sent so
far, and no other call has it open unless the file counts as torn. A rename moves the open files
(`Redirected`), a removal unlinks them; both keep the invariant because it speaks of the file behind `fd[c]`
and not of a name. For readers, `ReadInv` compares what was read with the file the reader saw. It holds however
short a slice comes back, because the next one starts where the data ended and not where it should have; that a character cut by a slice is one of the old text needs `OldInv` and `TruncatedInv`: old bytes are at the
beginning of a file, all of them, or nowhere.

**ListingProofs.** For any depth, width and page size. `DoneInv` says that a depth behind the agent
was read as a whole, misread, or named by a truncated page; `PageInv` relates the place in the
page to the depth its cursor is computed from; a page that has read nothing yet cannot end
(`FreshGoesOn`). `MissingIsAnnounced` and `PagesAreDisjoint` (which no run checks) follow, and so do the
ranges (`ListingTypes`), which are not inductive without `PageInv`: a depth stays within the limit because
a cursor is one more than a depth below it.

**PolicyProofs.** For any limits, arguments and scripts. The work is in the conversions:
formatting a time and reading it as Slurm does gives it back (`TimeRoundTrip`), an accepted time is what
Slurm makes of it or less (`TimesAgree`), a size is rounded by less than a MiB (`SizesAgree`), and the CPUs of
tasks spread over nodes stay below the product that is checked (`SpreadFits`). That the last directive the
code understands is the last one sbatch sees (`DefaultsAgree`) needs the greatest element of a
finite set of naturals, taken from the well-foundedness of `<`. Together they give
`GrantFitsLimits` and `AskedIsGranted`. `GrantFitsLimits` says of memory and GPUs what the code sees to: the
ceiling on one node, n times the ceiling on n nodes. The documented ceiling per job cannot be proved for
several nodes, because it does not hold (see below).

`RecommendationFits` is proved from the same lemmas and the arithmetic of the advice: a quotient
times its divisor is no more than the dividend (`Quotient`), the ranks divide the cores (`RanksFill`), and so
each placement passes every check of `Valid` (`PlacementValid`). It assumes that there is a partition, without
which `validate_job_request` accepts nothing, and `TimeLimitAssumption`: `build_config` refuses a `max_time` that
`parse_time_limit` does not accept (`config.py:641`).

**ServerProofs, the configuration.** `Loaded` says which places of a load may be filled and that its outcome is that of
`Outcome`. `TableOrders` reads off the table that every setting but `local_roots` has one of five orders of
sources; each is a part of the documented one and asks the environment (`OrderIsDocumented`). So the first
source that gives a value is the highest place that does, or that place is a top-level key no setting
reads, which is reported or known (`LayersInOrder`).

**ServerProofs, the composition.** `ServerIsItsParts`: a behaviour of `Server` is one of each component, since a
step of one leaves the variables of the others alone. Hence `ServerTypes`, and `ServerKeepsPromises`: every
invariant of the run `Server_parts`, of the specification that TLC runs and for every instance. The fairness of
`Server` is that of the part that runs and plays no role in these proofs.

Every invariant a run checks is stated by a theorem. Model-checked only: liveness (`CallsReturn`, `DeadLockYields`,
`EveryCallIsServed`, `WaitReturns`, `CallEnds`), which is out of the prover's reach. The registry under kills with three writers is not proved because it is not
true (`Registry_reclaim`).

## Where the code and its documents part

Five runs are expected to fail; `PROJECT.json` quotes the sentences they refute.

1. Reclaiming a stale lock is two steps, and the second may remove a new lock (`slurm/jobs.py:175`).
2. A truncated payload is committed (`slurm/jobs.py:210`).
3. A submitted job that cannot be verified is not rolled back (`slurm/manager.py:233`).
4. A read in flight puts a stale answer into the cleared cache (`server.py:135`).
5. A failing poll makes the topology service forget a queued job (`cluster/topology.py:868`).

Other differences are stated in the properties as their exceptions, at the line where
the code decides, and have no run of their own:

- A recorded job that was cancelled holds its slot for as long as sacct lists it: sacct prints
  `CANCELLED by <uid>`, `count_active` compares the text before a `+` with `CANCELLED` (`slurm/jobs.py:398`). The configuration
  guide says that jobs in `CANCELLED` give their slot back at once (`docs/CONFIGURATION.md:65`). `max_concurrent_jobs` such jobs
  refuse every submit; that is the exception in `EveryCallIsServed`, and TLC finds it broken without it.
- `max_memory_mb` and `max_gpus` are ceilings per job in the configuration guide (`docs/CONFIGURATION.md:62-63`), but
  `--mem` and `--gres` are amounts per node and `validate_job_request` compares them as they stand
  (`security/slurm_policy.py:180`, `:190`): a job of n nodes may have n times the ceiling. A job that states no memory is not
  bounded by `max_memory_mb` at all; it gets the default of the partition.
- The probe of `write_file` is there to "report exactly what the write changed"; a probe that fails, for whatever
  reason, is read as "does not exist" (`filesystem/service.py:279`). An append then reports the length of what it
  added as the size of the file. (With an expectation the write is refused.)
- `dd | base64` hides the failure of `dd` (`filesystem/service.py:241`): a directory, an unreadable or a vanished file
  gives a successful empty slice with a `next_offset`, and an agent that pages on may do so for ever.
- `find | head` may be cut without a failing exit when `find` could write everything first
  (`filesystem/service.py:174`): the page is then not marked. `misread` marks these layers.
- `run_raw` appends a truncation marker and cuts it off again (`ssh/manager.py:203`): a result
  that fills the cap does not say whether it is complete.
- `wait` stops neither at `CANCELLED by <uid>`, as sacct prints it, nor at `DEADLINE`, `BOOT_FAIL`,
  `REVOKED` and `SPECIAL_EXIT`, which `count_active` takes for ends (`slurm/manager.py:571`). It gives up at its deadline.
- `0-12:30` is read as minutes and seconds (`security/slurm_policy.py:40`), by sbatch as hours and minutes.
- Script directives in the short form, `--gres` after a space and lines after the first command are
  read in another way than by sbatch, and any `--gres=name:N` counts as GPUs; a directive with neither
  `=` nor a space, or with a count that is no integer, ends the submit with a `ValueError` (`slurm/manager.py:376`).
- `mv -n` onto an existing file does nothing and is reported as a rename (`filesystem/service.py:404`).
- The check of the mtime does not see a change within the same second (`filesystem/service.py:284`).
- `local_roots` in the file wins over the environment and the command line, and `port`,
  `connect_timeout`, `command_timeout` and `strict_host_key_checking` at the top level are accepted in silence and not read
  (`config.py:415`). The text "0" is refused where the number 0 is accepted.

## Not modelled

- The path sandbox, command allow-list and cost budget: string checks without state; `Files` takes the
  verdict of the sandbox as a choice.
- The search (one bounded remote `grep` and the parsing of its output) and the project snapshot (a bounded sequence of reads).
- Tool schemas and the thin handlers of `tools/registry.py`, the audit log, redaction, and the registration
  of the server with MCP clients (`mcp_config.py`): formatting, with no state the other components depend on.
- Of the modelled components: several partitions of the topology service (they share only the
  lock); the parsers of sinfo, sacct and probe output; the error scan of `diagnose`; file
  modes and empty payloads; a live script that holds the registry lock for more than five minutes, which the code
  rules out by assumption (`slurm/jobs.py:100`); the command whitelist of the configuration.

## Plan

What is left, in this order:

1. `Submit` with an unreadable registry, where the ceiling is kept by the calls that
   could read it.
2. The path sandbox as operators over short paths with links, beside the creation of a file.

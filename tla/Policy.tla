------------------------------- MODULE Policy -------------------------------
(***************************************************************************)
(* What a job request becomes: the agent's arguments, completed by the     *)
(* #SBATCH lines of a job script, validated against the Slurm limits and   *)
(* rendered for sbatch; and the placements recommend_parallel derives from *)
(* the facts of a node.  A text is a number with a unit, or with fields    *)
(* separated by colons.                                                    *)
(***************************************************************************)
EXTENDS Integers, Sequences

CONSTANTS
  Units,        \* the units and the names that occur in texts
  Limits,       \* the limits: partitions, nodes, cpus, memory, gpus, time, jobs
  Requests,     \* arguments of hpc.slurm.submit
  Directives,   \* lines of job scripts
  MaxLines,     \* bound: #SBATCH lines of a script
  Machines,     \* compute nodes: cores, threads per core, NUMA domains, memory
  MaxActive     \* bound: active jobs when a request comes

\* A number, a name, a size ("64G"), a time ("2-12:30:00" is T(2, "-", <<12, 30, 0>>),
\* "90" is T(0, "plain", <<90>>)).
T(number, unit, fields) == [number |-> number, unit |-> unit, fields |-> fields]
None == T(0, "none", <<>>)
Num(n) == T(n, "plain", <<>>)

Parameters == {"partition", "nodes", "ntasks", "cpus", "memory", "time", "gpus"}

Words      == [number : Nat, unit : Units, fields : Seq(Nat)]
Spellings  == {"long", "spaced", "short", "bare", "other gres"}
Places     == {"head", "body", "far"}

ASSUME PolicyAssumption ==
  /\ {"none", "plain", "-"} \subseteq Units
  /\ Limits.nodes \in Nat \ {0} /\ Limits.cpus \in Nat \ {0} /\ Limits.jobs \in Nat \ {0}
  /\ Limits.memory \in Nat \ {0} /\ Limits.gpus \in Nat
  /\ Limits.partitions \in Seq(Words) /\ Limits.time \in Words
  /\ \A r \in Requests : r \in [Parameters -> Words]
  /\ \A d \in Directives :
       d \in [param : Parameters \cup {"exclusive"}, spelling : Spellings, value : Words, place : Places]
  /\ MaxLines \in Nat /\ MaxActive \in Nat
  /\ Machines \subseteq [cores : Nat, threads : Nat, numa : Nat, memory : Nat]

VARIABLES
  request,  \* the arguments
  script,   \* the #SBATCH lines of the script, or none if the command is no script
  verdict,  \* "none", "asked", "merging", "denied", "error", "granted" or "advised"
  granted,  \* the rendered #SBATCH lines
  machine, known, advice  \* a node, the facts that were collected, the advice

policyVars == <<request, script, verdict, granted, machine, known, advice>>

-----------------------------------------------------------------------------
(* Times and sizes. *)

Invalid == -1

Seconds(d, h, m, s) == d * 86400 + h * 3600 + m * 60 + s

\* Deliberate variant: two fields are minutes and seconds, whatever is before them.
ParseTime_MinutesFirst(t) ==
  LET f == t.fields IN
  CASE Len(f) = 1 -> f[1] * 60
    [] Len(f) = 2 -> Seconds(t.number, 0, f[1], f[2])
    [] Len(f) = 3 -> Seconds(t.number, f[1], f[2], f[3])
    [] OTHER -> Invalid

\* parse_time_limit.
ParseTime(t) ==
  LET f    == t.fields
      days == IF t.unit = "-" THEN t.number ELSE 0
      h    == IF Len(f) = 3 THEN f[1] ELSE IF days > 0 THEN f[1] ELSE 0
      m    == IF Len(f) = 3 THEN f[2] ELSE IF days > 0 THEN f[2] ELSE f[1]
      s    == IF Len(f) = 3 THEN f[3] ELSE IF days > 0 THEN 0 ELSE f[2]
      fine == m <= 59 /\ s <= 59 /\ (days > 0 \/ h <= 24) /\ Seconds(days, h, m, s) > 0 IN
  CASE t.unit = "plain" /\ Len(f) = 1 -> f[1] * 60
    [] t.unit \in {"plain", "-"} /\ Len(f) \in {2, 3} -> IF fine THEN Seconds(days, h, m, s) ELSE Invalid
    [] OTHER -> Invalid

\* build_config loads no other limit.
ASSUME TimeLimitAssumption == ParseTime(Limits.time) > 0

\* format_time_limit.
FormatTime(n) ==
  LET days == n \div 86400 IN
  T(days, IF days > 0 THEN "-" ELSE "plain", <<(n % 86400) \div 3600, (n % 3600) \div 60, n % 60>>)

\* parse_memory_mb: MiB.
ParseMemory(t) ==
  LET mb == CASE t.unit \in {"plain", "M"} -> t.number
              [] t.unit = "K" -> IF t.number < 1024 THEN 1 ELSE t.number \div 1024
              [] t.unit = "G" -> t.number * 1024
              [] t.unit = "T" -> t.number * 1024 * 1024
              [] OTHER -> Invalid IN
  IF t.fields = <<>> /\ mb > 0 THEN mb ELSE Invalid

-----------------------------------------------------------------------------
(* The script's directives. *)

\* A line is a parameter, its spelling ("long" --nodes=2 or --gres=gpu:2, "spaced"
\* --nodes 2, "short" -N 2, "bare" a flag without a value), its value, and its
\* place: before the first command, after it, or beyond line 200.
Read(d) == d.place # "far"

\* What _read_sbatch_defaults takes; GPUs have the one form --gres=gpu:N,
\* for which any other --gres=name:N is taken too, and an empty one as none.
Understood(d) ==
  /\ Read(d)
  /\ IF d.param = "gpus" THEN d.spelling \in {"long", "other gres"}
     ELSE d.spelling \in {"long", "spaced"} /\ d.value # None

\* A line with neither "=" nor " " cannot be split in two.
Unpackable(s) == \E i \in DOMAIN s : Read(s[i]) /\ s[i].spelling = "bare"

LastOf(I) == CHOOSE i \in I : \A j \in I : j <= i

\* A later line replaces an earlier one.
DefaultsOf(s, p) ==
  LET I == {i \in DOMAIN s : s[i].param = p /\ Understood(s[i])} IN
  IF I = {} THEN None ELSE s[LastOf(I)].value

\* An explicit argument, else the script's, else the default.
Fallback(p) == CASE p \in {"nodes", "ntasks", "cpus"} -> Num(1) [] p = "gpus" -> Num(0) [] OTHER -> None
Merged(r, s) ==
  [p \in Parameters |-> IF r[p] # None THEN r[p]
                         ELSE IF DefaultsOf(s, p) # None THEN DefaultsOf(s, p) ELSE Fallback(p)]

\* int() of a directive's text raises for anything but a number.
IsInteger(t) == t.unit = "plain" /\ t.fields = <<>>
MergeFails(q) == \E p \in {"nodes", "ntasks", "cpus", "gpus"} : ~IsInteger(q[p])

-----------------------------------------------------------------------------
(* Validation and rendering. *)

TimeOf(q) == IF q.time = None THEN Limits.time ELSE q.time

\* Deliberate variant: the nodes are forgotten.
CpusAllowed_PerNode(q) ==
  /\ q.ntasks.number >= 1 /\ q.cpus.number >= 1
  /\ q.ntasks.number * q.cpus.number <= Limits.cpus
\* max_cpus bounds nodes * ntasks * cpus_per_task.
CpusAllowed(q) ==
  /\ q.ntasks.number >= 1 /\ q.cpus.number >= 1
  /\ q.cpus.number <= Limits.cpus
  /\ q.nodes.number * q.ntasks.number * q.cpus.number <= Limits.cpus

\* validate_job_request.
Valid(q, active) ==
  /\ \E i \in DOMAIN Limits.partitions : q.partition \in {None, Limits.partitions[i]}
  /\ active < Limits.jobs
  /\ q.nodes.number \in 1..Limits.nodes
  /\ CpusAllowed(q)
  /\ q.gpus.number \in 0..Limits.gpus
  /\ q.memory # None => ParseMemory(q.memory) \in 1..Limits.memory
  /\ ParseTime(TimeOf(q)) \in 1..ParseTime(Limits.time)

\* _render_script: one line per parameter; 0 stands for a line that is left out.
Rendered(q) ==
  [partition |-> IF q.partition = None THEN Limits.partitions[1] ELSE q.partition,
   nodes |-> q.nodes.number, ntasks |-> q.ntasks.number, cpus |-> q.cpus.number,
   time |-> FormatTime(ParseTime(TimeOf(q))),
   memory |-> IF q.memory = None THEN 0 ELSE ParseMemory(q.memory),
   gpus |-> q.gpus.number]

NoJob == [nodes |-> 0]
NoMachine == [cores |-> 0, threads |-> 0, numa |-> 0, memory |-> 0]

PolicyInit ==
  /\ request = [p \in Parameters |-> None] /\ script = <<>>
  /\ verdict = "none" /\ granted = NoJob
  /\ machine = NoMachine /\ known = {} /\ advice = NoMachine

\* submit: a command that is no script has no directives to read.
Ask(r, isScript) ==
  /\ verdict = "none"
  /\ request' = r
  /\ verdict' = IF isScript THEN "asked" ELSE "merging"
  /\ UNCHANGED <<script, granted, machine, known, advice>>

ReadScript(s) ==
  /\ verdict = "asked"
  /\ script' = s
  /\ verdict' = IF Unpackable(s) THEN "error" ELSE "merging"
  /\ UNCHANGED <<request, granted, machine, known, advice>>

ScriptUnreadable ==
  /\ verdict = "asked" /\ verdict' = "denied"
  /\ UNCHANGED <<request, script, granted, machine, known, advice>>

Decide(active) ==
  LET q == Merged(request, script) IN
  /\ verdict = "merging"
  /\ IF MergeFails(q) THEN verdict' = "error" /\ UNCHANGED granted
     ELSE IF Valid(q, active) THEN verdict' = "granted" /\ granted' = Rendered(q)
     ELSE verdict' = "denied" /\ UNCHANGED granted
  /\ UNCHANGED <<request, script, machine, known, advice>>

-----------------------------------------------------------------------------
(* recommend_parallel. *)

FactNames == {"physical", "logical", "threads", "numa", "memory"}

\* What the probe and sinfo know of machine w, 0 for what they do not.
Fact(w, facts) == [
  physical |-> IF "physical" \in facts THEN w.cores ELSE 0,
  logical  |-> IF "logical" \in facts THEN w.cores * w.threads ELSE 0,
  threads  |-> IF "threads" \in facts THEN w.threads ELSE 0,
  numa     |-> IF "numa" \in facts THEN w.numa ELSE 1,
  memory   |-> IF "memory" \in facts THEN w.memory ELSE 0]

AtLeast1(n) == IF n < 1 THEN 1 ELSE n

PhysicalCores(k) ==
  CASE k.physical > 0 -> k.physical
    [] k.physical = 0 /\ k.logical > 0 /\ k.threads > 0 -> AtLeast1(k.logical \div k.threads)
    [] OTHER -> k.logical

\* One rank per NUMA domain if they divide the cores evenly; a variant does not ask.
HybridRanks_AnyNuma(k) == k.numa
HybridRanks(k) == IF k.numa > 1 /\ PhysicalCores(k) % k.numa = 0 THEN k.numa ELSE 1

NodesReachingMaxCpus(k) == AtLeast1(Limits.cpus \div PhysicalCores(k))

Recommendation(k) ==
  IF PhysicalCores(k) = 0 THEN [available |-> FALSE]
  ELSE [available |-> TRUE, physical |-> PhysicalCores(k),
        ranks |-> HybridRanks(k),
        threads |-> AtLeast1(PhysicalCores(k) \div HybridRanks(k)),
        memory |-> (k.memory * 9) \div 10,
        nodes |-> NodesReachingMaxCpus(k)]

Advise(w, facts) ==
  /\ verdict = "none"
  /\ verdict' = "advised"
  /\ machine' = w /\ known' = facts
  /\ advice' = Recommendation(Fact(w, facts))
  /\ UNCHANGED <<request, script, granted>>

PolicyNext ==
  \/ \E r \in Requests, isScript \in BOOLEAN : Ask(r, isScript)
  \/ \E n \in 0..MaxLines : \E s \in [1..n -> Directives] : ReadScript(s)
  \/ ScriptUnreadable
  \/ \E active \in 0..MaxActive : Decide(active)
  \/ \E w \in Machines, facts \in SUBSET FactNames : Advise(w, facts)

PolicySpec == PolicyInit /\ [][PolicyNext]_policyVars

-----------------------------------------------------------------------------
(* Slurm's own reading of a job. *)

SlurmSeconds(t) ==
  LET f == t.fields IN
  CASE t.unit = "-" /\ Len(f) = 3 -> Seconds(t.number, f[1], f[2], f[3])
    [] t.unit = "-" /\ Len(f) = 2 -> Seconds(t.number, f[1], f[2], 0)
    [] t.unit = "plain" /\ Len(f) = 3  -> Seconds(0, f[1], f[2], f[3])
    [] t.unit = "plain" /\ Len(f) = 2  -> Seconds(0, 0, f[1], f[2])
    [] OTHER -> f[1] * 60

SlurmKib(t) ==
  CASE t.unit = "K" -> t.number
    [] t.unit = "G" -> t.number * 1024 * 1024
    [] t.unit = "T" -> t.number * 1024 * 1024 * 1024
    [] OTHER -> t.number * 1024

\* Tasks are spread over the nodes, at least one on each.
SlurmCpus(j) == (IF j.nodes > j.ntasks THEN j.nodes ELSE j.ntasks) * j.cpus

\* --mem and --gres are amounts for each node of the job.
SlurmMemory(j) == j.nodes * j.memory
SlurmGpus(j) == j.nodes * j.gpus

-----------------------------------------------------------------------------
(* Properties. *)

PolicyTypeOK ==
  /\ DOMAIN request = Parameters /\ Len(script) <= MaxLines
  /\ verdict \in {"none", "asked", "merging", "denied", "error", "granted", "advised"}
  /\ verdict = "granted" <=> granted # NoJob

\* Whatever combination of arguments and directives it came from, what Slurm
\* makes of a granted job stays within the limits: the CPUs it allocates, the
\* nodes, the partition and the time it understands.  Memory and GPUs of the
\* whole job stay within the ceilings "per job" of the configuration guide on
\* one node only; on n nodes validate_job_request lets through n times as much,
\* for it compares the amount of one node.  (A job that states no memory gets
\* Slurm's own default.)
GrantFitsLimits ==
  verdict = "granted" =>
    /\ SlurmCpus(granted) <= Limits.cpus /\ granted.nodes <= Limits.nodes
    /\ SlurmSeconds(granted.time) <= SlurmSeconds(Limits.time)
    /\ SlurmMemory(granted) <= granted.nodes * Limits.memory
    /\ SlurmGpus(granted) <= granted.nodes * Limits.gpus
    /\ \E i \in DOMAIN Limits.partitions : granted.partition = Limits.partitions[i]

\* Lines that sbatch and the code read alike.
Plain(d) ==
  /\ d.place = "head"
  /\ d.spelling = "long" \/ (d.spelling = "spaced" /\ d.param # "gpus")

\* What was asked for p, the way sbatch decides it: option, last line, default.
Asked(p) ==
  LET I == {i \in DOMAIN script : script[i].param = p} IN
  CASE request[p] # None -> request[p] [] request[p] = None /\ I # {} -> script[LastOf(I)].value
    [] OTHER -> Fallback(p)

\* A granted job is the job that was asked for, as sbatch would have understood
\* it, if the script spells the parameter in a way the code reads: times to the
\* second except 0-HH:MM, which the code takes for MM:SS, memory to the MiB.
AskedIsGranted ==
  verdict = "granted" =>
    \A p \in Parameters :
      (\A i \in DOMAIN script : script[i].param = p => Plain(script[i])) /\ Asked(p) # None =>
        CASE p = "time" -> \/ SlurmSeconds(granted.time) = SlurmSeconds(Asked(p))
                           \/ Asked(p).unit = "-" /\ Asked(p).number = 0 /\ Len(Asked(p).fields) = 2
          [] p = "memory" -> granted.memory * 1024 - SlurmKib(Asked(p)) \in -1023..1024
          [] p = "partition" -> granted.partition = Asked(p)
          [] OTHER -> granted[p] = Asked(p).number

\* A request for n nodes with this many tasks, and cpus for each of them.
Placement(n, tasks, cpus) ==
  [p \in Parameters |-> CASE p = "nodes" -> Num(n) [] p = "ntasks" -> Num(tasks)
                           [] p = "cpus" -> Num(cpus) [] OTHER -> Fallback(p)]

\* The three placements use the node's cores fully and none twice, unless the
\* threads per core are unknown; and the policy accepts each of them on as many
\* nodes as the advice says reach max_cpus, if one node fits at all.
RecommendationFits ==
  verdict = "advised" /\ advice.available =>
    /\ advice.physical <= machine.cores \/ known \cap {"threads", "physical"} = {}
    /\ advice.ranks * advice.threads = advice.physical
    /\ advice.memory <= machine.memory
    /\ advice.physical <= Limits.cpus =>
         \A n \in 1..Limits.nodes : n <= advice.nodes =>
           /\ Valid(Placement(n, advice.physical, 1), 0)
           /\ Valid(Placement(n, advice.ranks, advice.threads), 0)
           /\ Valid(Placement(n, 1, advice.physical), 0)
=============================================================================

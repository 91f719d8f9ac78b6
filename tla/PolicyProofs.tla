---------------------------- MODULE PolicyProofs ----------------------------
(***************************************************************************)
(* Proofs about Policy, for any limits, requests, scripts and nodes: a     *)
(* granted job stays within the limits as Slurm understands them, and is   *)
(* the job that was asked for; an advice fits its node and the policy.     *)
(***************************************************************************)
EXTENDS Policy, WellFoundedInduction, TLAPS

-----------------------------------------------------------------------------
(* Times, sizes and CPUs. *)

LEMMA SecondsAreNat == \A d, h, m, s \in Nat : Seconds(d, h, m, s) \in Nat
  BY DEF Seconds

\* What is written is what Slurm reads.
LEMMA TimeRoundTrip ==
    ASSUME NEW n \in Nat
    PROVE  SlurmSeconds(FormatTime(n)) = n
<1> DEFINE d == n \div 86400
           h == (n % 86400) \div 3600
           m == (n % 3600) \div 60
           s == n % 60
<1>1. d \in Nat /\ n = d * 86400 + h * 3600 + m * 60 + s
  OBVIOUS
<1>2. FormatTime(n) = T(d, IF d > 0 THEN "-" ELSE "plain", <<h, m, s>>)
  BY DEF FormatTime
<1> HIDE DEF d, h, m, s
<1>3. /\ FormatTime(n).number = d
      /\ FormatTime(n).unit = IF d > 0 THEN "-" ELSE "plain"
      /\ FormatTime(n).fields = <<h, m, s>>
  BY <1>2 DEF T
<1>4. SlurmSeconds(FormatTime(n)) = Seconds(IF d > 0 THEN d ELSE 0, h, m, s)
  BY <1>3 DEF SlurmSeconds
<1>5. CASE d > 0
  BY <1>1, <1>4, <1>5 DEF Seconds
<1>6. CASE d = 0
  BY <1>1, <1>4, <1>6 DEF Seconds
<1>7. QED
  BY <1>1, <1>5, <1>6

\* The one time that is read in another way than Slurm reads it.
Ambiguous(t) == t.unit = "-" /\ t.number = 0 /\ Len(t.fields) = 2

\* An accepted time is the time Slurm makes of it, or a shorter one.
LEMMA TimesAgree ==
    ASSUME NEW t \in Words, ParseTime(t) # Invalid
    PROVE  /\ ParseTime(t) \in Nat /\ SlurmSeconds(t) \in Nat
           /\ ParseTime(t) <= SlurmSeconds(t)
           /\ ~Ambiguous(t) => ParseTime(t) = SlurmSeconds(t)
<1> DEFINE f == t.fields
<1>1. t.number \in Nat /\ f \in Seq(Nat)
  BY DEF Words
<1>2. CASE t.unit = "plain" /\ Len(f) = 1
  BY <1>1, <1>2 DEF ParseTime, SlurmSeconds, Ambiguous
<1>3. CASE t.unit = "plain" /\ Len(f) = 2
  <2>1. f[1] \in Nat /\ f[2] \in Nat
    BY <1>1, <1>3
  <2>2. ParseTime(t) = Seconds(0, 0, f[1], f[2])
    BY <1>3 DEF ParseTime
  <2>3. SlurmSeconds(t) = Seconds(0, 0, f[1], f[2])
    BY <1>3 DEF SlurmSeconds
  <2>4. QED
    BY <1>3, <2>1, <2>2, <2>3 DEF Seconds, Ambiguous
<1>4. CASE t.unit = "plain" /\ Len(f) = 3
  <2>1. f[1] \in Nat /\ f[2] \in Nat /\ f[3] \in Nat
    BY <1>1, <1>4
  <2>2. ParseTime(t) = Seconds(0, f[1], f[2], f[3])
    BY <1>4 DEF ParseTime
  <2>3. SlurmSeconds(t) = Seconds(0, f[1], f[2], f[3])
    BY <1>4 DEF SlurmSeconds
  <2>4. QED
    BY <1>4, <2>1, <2>2, <2>3 DEF Seconds, Ambiguous
<1>5. CASE t.unit = "-" /\ Len(f) = 2
  <2>1. f[1] \in Nat /\ f[2] \in Nat
    BY <1>1, <1>5
  <2>2. SlurmSeconds(t) = Seconds(t.number, f[1], f[2], 0)
    BY <1>5 DEF SlurmSeconds
  <2>3. CASE t.number > 0
    <3>1. ParseTime(t) = Seconds(t.number, f[1], f[2], 0)
      BY <1>5, <2>3 DEF ParseTime
    <3>2. Seconds(t.number, f[1], f[2], 0) \in Nat
      BY <1>1, <2>1, SecondsAreNat
    <3>3. QED
      BY <2>2, <3>1, <3>2
  <2>4. CASE t.number = 0
    <3>1. ParseTime(t) = Seconds(0, 0, f[1], f[2])
      BY <1>5, <2>4 DEF ParseTime
    <3>2. ParseTime(t) = f[1] * 60 + f[2] /\ SlurmSeconds(t) = f[1] * 3600 + f[2] * 60
      BY <2>1, <2>2, <2>4, <3>1 DEF Seconds
    <3>3. Ambiguous(t)
      BY <1>5, <2>4 DEF Ambiguous
    <3>4. QED
      BY <2>1, <3>2, <3>3
  <2>5. QED
    BY <1>1, <2>3, <2>4
<1>6. CASE t.unit = "-" /\ Len(f) = 3
  <2>1. f[1] \in Nat /\ f[2] \in Nat /\ f[3] \in Nat
    BY <1>1, <1>6
  <2>2. ParseTime(t) = Seconds(t.number, f[1], f[2], f[3])
    BY <1>6 DEF ParseTime
  <2>3. SlurmSeconds(t) = Seconds(t.number, f[1], f[2], f[3])
    BY <1>6 DEF SlurmSeconds
  <2>4. Seconds(t.number, f[1], f[2], f[3]) \in Nat
    BY <1>1, <2>1, SecondsAreNat
  <2>5. QED
    BY <2>2, <2>3, <2>4
<1>7. QED
  BY <1>2, <1>3, <1>4, <1>5, <1>6 DEF ParseTime

\* An accepted size is rounded by less than a MiB, or up to one.
LEMMA SizesAgree ==
    ASSUME NEW t \in Words, ParseMemory(t) # Invalid
    PROVE  ParseMemory(t) \in Nat /\ ParseMemory(t) * 1024 - SlurmKib(t) \in -1023..1024
<1>1. t.number \in Nat
  BY DEF Words
<1> DEFINE n == t.number
<1>2. CASE t.unit = "K"
  <2>1. ParseMemory(t) = IF n < 1024 THEN 1 ELSE n \div 1024
    BY <1>2 DEF ParseMemory
  <2>2. SlurmKib(t) = n
    BY <1>2 DEF SlurmKib
  <2> HIDE DEF n
  <2>3. CASE n < 1024
    BY <1>1, <2>1, <2>2, <2>3 DEF n
  <2>4. CASE n >= 1024
    <3>1. n \div 1024 \in Nat /\ (n \div 1024) * 1024 - n \in -1023..0
      BY <1>1 DEF n
    <3>2. ParseMemory(t) = n \div 1024
      BY <1>1, <2>1, <2>4 DEF n
    <3>3. QED
      BY <2>2, <3>1, <3>2
  <2>5. QED
    BY <1>1, <2>3, <2>4 DEF n
<1>3. CASE t.unit \in {"plain", "M"}
  <2>1. ParseMemory(t) = n
    BY <1>3 DEF ParseMemory
  <2>2. SlurmKib(t) = n * 1024
    BY <1>3 DEF SlurmKib
  <2>3. QED
    BY <1>1, <2>1, <2>2
<1>4. CASE t.unit = "G"
  <2>1. ParseMemory(t) = n * 1024
    BY <1>4 DEF ParseMemory
  <2>2. SlurmKib(t) = n * 1024 * 1024
    BY <1>4 DEF SlurmKib
  <2>3. QED
    BY <1>1, <2>1, <2>2
<1>5. CASE t.unit = "T"
  <2>1. ParseMemory(t) = n * 1024 * 1024
    BY <1>5 DEF ParseMemory
  <2>2. SlurmKib(t) = n * 1024 * 1024 * 1024
    BY <1>5 DEF SlurmKib
  <2>3. QED
    BY <1>1, <2>1, <2>2
<1>6. t.unit \in {"plain", "M", "K", "G", "T"}
  <2>1. SUFFICES ASSUME t.unit \notin {"plain", "M", "K", "G", "T"} PROVE ParseMemory(t) = Invalid
    OBVIOUS
  <2>2. ~(Invalid > 0)
    BY DEF Invalid
  <2>3. QED
    BY <2>1, <2>2 DEF ParseMemory
<1>7. QED
  BY <1>2, <1>3, <1>4, <1>5, <1>6

\* The CPUs of tasks that are spread over nodes are no more than the product
\* that is checked.
LEMMA SpreadFits ==
    ASSUME NEW n \in Nat, NEW t \in Nat, NEW c \in Nat, NEW most \in Nat,
           n >= 1, t >= 1, n * t * c <= most
    PROVE  (IF n > t THEN n ELSE t) * c <= most
<1>1. n <= n * t /\ t <= n * t
  OBVIOUS
<1>2. n * t \in Nat
  OBVIOUS
<1>3. \A a, b \in Nat : a <= b => a * c <= b * c
  OBVIOUS
<1>4. n * c <= n * t * c /\ t * c <= n * t * c
  BY <1>1, <1>2, <1>3
<1>5. QED
  BY <1>4
-----------------------------------------------------------------------------
(* The directives that count. *)

LEMMA NumbersTyped == None \in Words /\ \A n \in Nat : Num(n) \in Words
<1>1. <<>> \in Seq(Nat)
  OBVIOUS
<1>2. \A n \in Nat, u \in Units : T(n, u, <<>>) \in Words
  BY <1>1 DEF T, Words
<1>3. "none" \in Units /\ "plain" \in Units
  BY PolicyAssumption
<1>4. QED
  BY <1>2, <1>3 DEF None, Num

LEMMA LeastExists ==
    ASSUME NEW S \in SUBSET Nat, S # {}
    PROVE  \E m \in S : \A k \in S : m <= k
<1> DEFINE R == OpToRel(<, Nat)
<1>1. \A x, y \in Nat : <<y, x>> \in R <=> y < x
  BY DEF OpToRel
<1>2. IsWellFoundedOn(R, Nat)
  BY NatLessThanWellFounded
<1> HIDE DEF R
<1>3. PICK m \in S : \A y \in S : ~ (<<y, m>> \in R)
  BY <1>2, WFMin
<1>4. \A k \in S : ~ (k < m)
  BY <1>1, <1>3
<1>5. QED
  BY <1>4

\* LastOf picks the greatest index, and no other one is.
LEMMA LastIsGreatest ==
    ASSUME NEW n \in Nat, NEW I \in SUBSET (1..n), I # {}
    PROVE  LastOf(I) \in I /\ \A j \in I : j <= LastOf(I)
<1> DEFINE S == {n - i : i \in I}
<1>0. \A i \in I : n - i \in Nat
  OBVIOUS
<1>1. S \in SUBSET Nat /\ S # {}
  BY <1>0
<1>2. PICK m \in S : \A k \in S : m <= k
  BY <1>1, LeastExists
<1>3. PICK i \in I : m = n - i
  BY <1>2
<1>4. \A j \in I : j <= i
  <2>1. TAKE j \in I
  <2>2. n - i <= n - j
    BY <1>2, <1>3
  <2>3. QED
    BY <2>2
<1>5. QED
  BY <1>4 DEF LastOf

\* The scripts that ReadScript may find.
ScriptInv == \E n \in 0..MaxLines : script \in [1..n -> Directives]

LEMMA DefaultsTyped ==
    ASSUME ScriptInv, NEW p \in Parameters
    PROVE  DefaultsOf(script, p) \in Words
<1> DEFINE I == {i \in DOMAIN script : script[i].param = p /\ Understood(script[i])}
<1>1. PICK n \in 0..MaxLines : script \in [1..n -> Directives]
  BY DEF ScriptInv
<1>2. CASE I = {}
  BY <1>2, NumbersTyped DEF DefaultsOf
<1>3. CASE I # {}
  <2>1. n \in Nat /\ I \in SUBSET (1..n)
    BY <1>1, PolicyAssumption
  <2>2. LastOf(I) \in 1..n
    BY <1>3, <2>1, LastIsGreatest
  <2>3. script[LastOf(I)] \in Directives
    BY <1>1, <2>2
  <2>4. script[LastOf(I)].value \in Words
    BY <2>3, PolicyAssumption
  <2>5. QED
    BY <1>3, <2>4 DEF DefaultsOf
<1>4. QED
  BY <1>2, <1>3

\* A parameter whose lines sbatch and the code read alike has the default sbatch
\* would take.
LEMMA DefaultsAgree ==
    ASSUME ScriptInv, NEW p \in Parameters,
           \A i \in DOMAIN script : script[i].param = p => Plain(script[i]),
           NEW i0 \in DOMAIN script, script[i0].param = p,
           script[LastOf({i \in DOMAIN script : script[i].param = p})].value # None
    PROVE  DefaultsOf(script, p) = script[LastOf({i \in DOMAIN script : script[i].param = p})].value
<1> DEFINE I == {i \in DOMAIN script : script[i].param = p}
           J == {i \in DOMAIN script : script[i].param = p /\ Understood(script[i])}
<1>1. PICK n \in 0..MaxLines : script \in [1..n -> Directives]
  BY DEF ScriptInv
<1>2. n \in Nat /\ I \in SUBSET (1..n) /\ J \in SUBSET I /\ I # {}
  BY <1>1, PolicyAssumption
<1>3. LastOf(I) \in I /\ \A j \in I : j <= LastOf(I)
  BY <1>2, LastIsGreatest
<1>4. Understood(script[LastOf(I)])
  BY <1>3 DEF Plain, Understood, Read
<1>5. LastOf(I) \in J
  BY <1>3, <1>4
<1>6. LastOf(J) \in J /\ \A j \in J : j <= LastOf(J)
  BY <1>2, <1>5, LastIsGreatest
<1>7. LastOf(J) = LastOf(I)
  BY <1>2, <1>3, <1>5, <1>6
<1>8. QED
  BY <1>5, <1>7 DEF DefaultsOf

-----------------------------------------------------------------------------
(* What is granted. *)

Job == Merged(request, script)

\* A granted job is the rendering of a valid request.
GrantInv == verdict = "granted" => granted = Rendered(Job) /\ \E active \in Nat : Valid(Job, active)

\* An advice is the one for some facts of some node.
AdviceInv ==
  verdict = "advised" =>
    machine \in Machines /\ known \in SUBSET FactNames /\ advice = Recommendation(Fact(machine, known))

VerdictInv ==
  /\ verdict \in {"none", "asked", "merging", "denied", "error", "granted", "advised"}
  /\ verdict # "granted" => granted = NoJob

PolicyInv == request \in [Parameters -> Words] /\ ScriptInv /\ GrantInv /\ AdviceInv /\ VerdictInv

LEMMA MergedTyped ==
    ASSUME request \in [Parameters -> Words], ScriptInv
    PROVE  Job \in [Parameters -> Words]
<1> SUFFICES ASSUME NEW p \in Parameters PROVE Job[p] \in Words
  BY DEF Job, Merged
<1>1. DefaultsOf(script, p) \in Words
  BY DefaultsTyped
<1>2. Fallback(p) \in Words
  BY NumbersTyped DEF Fallback
<1>3. QED
  BY <1>1, <1>2 DEF Job, Merged

LEMMA InitPolicy == PolicyInit => PolicyInv
<1> SUFFICES ASSUME PolicyInit PROVE PolicyInv
  OBVIOUS
<1>1. request \in [Parameters -> Words]
  BY NumbersTyped DEF PolicyInit
<1>2. ScriptInv
  <2>1. script \in [1..0 -> Directives]
    BY DEF PolicyInit
  <2>2. 0 \in 0..MaxLines
    BY PolicyAssumption
  <2>3. QED
    BY <2>1, <2>2 DEF ScriptInv
<1>3. GrantInv
  BY DEF PolicyInit, GrantInv
<1>4. AdviceInv /\ VerdictInv
  BY DEF PolicyInit, AdviceInv, VerdictInv
<1>5. QED
  BY <1>1, <1>2, <1>3, <1>4 DEF PolicyInv

LEMMA StepPolicy == PolicyInv /\ [PolicyNext]_policyVars => PolicyInv'
<1> SUFFICES ASSUME PolicyInv, [PolicyNext]_policyVars PROVE PolicyInv'
  OBVIOUS
<1> USE DEF PolicyInv
<1>1. ASSUME NEW r \in Requests, NEW isScript \in BOOLEAN, Ask(r, isScript) PROVE PolicyInv'
  <2>1. request' \in [Parameters -> Words]
    BY <1>1, PolicyAssumption DEF Ask
  <2>2. QED
    BY <1>1, <2>1 DEF Ask, ScriptInv, GrantInv, AdviceInv, VerdictInv
<1>2. ASSUME NEW n \in 0..MaxLines, NEW s \in [1..n -> Directives], ReadScript(s) PROVE PolicyInv'
  <2>1. ScriptInv'
    BY <1>2 DEF ReadScript, ScriptInv
  <2>2. QED
    BY <1>2, <2>1 DEF ReadScript, GrantInv, AdviceInv, VerdictInv
<1>3. CASE ScriptUnreadable
  BY <1>3 DEF ScriptUnreadable, ScriptInv, GrantInv, AdviceInv, VerdictInv
<1>4. ASSUME NEW active \in 0..MaxActive, Decide(active) PROVE PolicyInv'
  <2>1. UNCHANGED <<request, script>>
    BY <1>4 DEF Decide
  <2>2. Job' = Job
    BY <2>1 DEF Job
  <2>3. verdict' = "granted" => granted' = Rendered(Job) /\ Valid(Job, active)
    BY <1>4 DEF Decide, Job
  <2>4. active \in Nat
    BY PolicyAssumption
  <2>5. GrantInv'
    <3>1. SUFFICES ASSUME verdict' = "granted"
                   PROVE  granted' = Rendered(Job) /\ \E a \in Nat : Valid(Job, a)
      BY <2>1 DEF GrantInv, Job, Rendered, Valid, TimeOf, CpusAllowed
    <3>2. QED
      BY <2>3, <2>4, <3>1
  <2>6. AdviceInv' /\ VerdictInv'
    BY <1>4 DEF Decide, AdviceInv, VerdictInv
  <2>7. QED
    BY <2>1, <2>5, <2>6 DEF ScriptInv
<1>5. ASSUME NEW w \in Machines, NEW facts \in SUBSET FactNames, Advise(w, facts) PROVE PolicyInv'
  BY <1>5 DEF Advise, ScriptInv, GrantInv, AdviceInv, VerdictInv
<1>6. CASE UNCHANGED policyVars
  BY <1>6 DEF policyVars, ScriptInv, GrantInv, AdviceInv, VerdictInv, Job
<1>7. QED
  BY <1>1, <1>2, <1>3, <1>4, <1>5, <1>6 DEF PolicyNext

LEMMA PolicyInvariant == PolicySpec => []PolicyInv
  BY InitPolicy, StepPolicy, PTL DEF PolicySpec

\* What Valid says of the numbers, the size and the time of a request.
LEMMA ValidFacts ==
    ASSUME NEW q \in [Parameters -> Words], NEW active, Valid(q, active)
    PROVE  /\ q.nodes.number \in Nat \ {0} /\ q.ntasks.number \in Nat \ {0}
           /\ q.cpus.number \in Nat /\ q.gpus.number \in Nat
           /\ TimeOf(q) \in Words /\ ParseTime(TimeOf(q)) # Invalid
           /\ ParseTime(Limits.time) # Invalid
           /\ ParseTime(TimeOf(q)) <= ParseTime(Limits.time)
<1>1. \A p \in Parameters : q[p] \in Words
  OBVIOUS
<1>2. q.nodes \in Words /\ q.ntasks \in Words /\ q.cpus \in Words /\ q.gpus \in Words /\ q.time \in Words
  BY <1>1 DEF Parameters
<1>3. /\ q.nodes.number \in Nat \ {0} /\ q.ntasks.number \in Nat \ {0}
      /\ q.cpus.number \in Nat /\ q.gpus.number \in Nat
  <2>1. q.nodes.number \in Nat /\ q.ntasks.number \in Nat /\ q.cpus.number \in Nat /\ q.gpus.number \in Nat
    BY <1>2 DEF Words
  <2>2. q.nodes.number >= 1
    BY PolicyAssumption DEF Valid
  <2>3. q.ntasks.number >= 1
    BY DEF Valid, CpusAllowed
  <2>4. QED
    BY <2>1, <2>2, <2>3
<1>4. TimeOf(q) \in Words
  BY <1>2, PolicyAssumption DEF TimeOf
<1>5. ParseTime(TimeOf(q)) \in 1..ParseTime(Limits.time)
  BY DEF Valid
<1>6. ParseTime(Limits.time) # Invalid => ParseTime(Limits.time) \in Nat
  BY TimesAgree, PolicyAssumption
<1>7. ParseTime(Limits.time) # Invalid
  BY <1>5 DEF Invalid
<1>8. ParseTime(TimeOf(q)) # Invalid
  BY <1>5, <1>6, <1>7 DEF Invalid
<1>9. QED
  BY <1>3, <1>4, <1>5, <1>6, <1>7, <1>8

\* Slurm gives a granted job no more than the limits, whatever mixture of
\* arguments and directives it came from: the product that is checked bounds the
\* CPUs of tasks spread over nodes, and the time is bounded as it is written.
\* Memory and GPUs are bounded by the limit on one node, and by as many times
\* the limit as there are nodes.
THEOREM GrantsFitLimits == PolicySpec => []GrantFitsLimits
<1>1. PolicyInv => GrantFitsLimits
  <2>1. SUFFICES ASSUME PolicyInv, verdict = "granted" PROVE GrantFitsLimits
    BY DEF GrantFitsLimits
  <2>2. Job \in [Parameters -> Words] /\ granted = Rendered(Job)
    BY <2>1, MergedTyped DEF PolicyInv, GrantInv
  <2>3. PICK active \in Nat : Valid(Job, active)
    BY <2>1 DEF PolicyInv, GrantInv
  <2> DEFINE q == Job
  <2>4. /\ q.nodes.number \in Nat \ {0} /\ q.ntasks.number \in Nat \ {0}
        /\ q.cpus.number \in Nat /\ q.gpus.number \in Nat
        /\ TimeOf(q) \in Words /\ ParseTime(TimeOf(q)) # Invalid
        /\ ParseTime(Limits.time) # Invalid
        /\ ParseTime(TimeOf(q)) <= ParseTime(Limits.time)
    BY <2>2, <2>3, ValidFacts
  <2>5. /\ granted.nodes = q.nodes.number /\ granted.ntasks = q.ntasks.number
        /\ granted.cpus = q.cpus.number /\ granted.gpus = q.gpus.number
        /\ granted.time = FormatTime(ParseTime(TimeOf(q)))
        /\ granted.memory = IF q.memory = None THEN 0 ELSE ParseMemory(q.memory)
        /\ granted.partition = IF q.partition = None THEN Limits.partitions[1] ELSE q.partition
    BY <2>2 DEF Rendered
  <2> HIDE DEF q
  <2>6. SlurmCpus(granted) <= Limits.cpus
    <3>1. q.nodes.number * q.ntasks.number * q.cpus.number <= Limits.cpus
      BY <2>3 DEF q, Valid, CpusAllowed
    <3>2. Limits.cpus \in Nat /\ q.nodes.number >= 1 /\ q.ntasks.number >= 1
      BY <2>4, PolicyAssumption
    <3>3. (IF q.nodes.number > q.ntasks.number THEN q.nodes.number ELSE q.ntasks.number) * q.cpus.number
             <= Limits.cpus
      BY <2>4, <3>1, <3>2, SpreadFits
    <3>4. QED
      BY <2>5, <3>3 DEF SlurmCpus
  <2>7. granted.nodes <= Limits.nodes
    BY <2>3, <2>5, PolicyAssumption DEF q, Valid
  <2>8. SlurmSeconds(granted.time) <= SlurmSeconds(Limits.time)
    <3>1. ParseTime(TimeOf(q)) \in Nat
      BY <2>4, TimesAgree
    <3>2. SlurmSeconds(granted.time) = ParseTime(TimeOf(q))
      BY <2>5, <3>1, TimeRoundTrip
    <3>3. /\ ParseTime(Limits.time) \in Nat /\ SlurmSeconds(Limits.time) \in Nat
          /\ ParseTime(Limits.time) <= SlurmSeconds(Limits.time)
      BY <2>4, TimesAgree, PolicyAssumption
    <3>4. QED
      BY <2>4, <3>1, <3>2, <3>3
  <2>9. /\ SlurmMemory(granted) <= granted.nodes * Limits.memory
        /\ SlurmGpus(granted) <= granted.nodes * Limits.gpus
    <3>1. granted.memory \in 0..Limits.memory /\ granted.gpus \in 0..Limits.gpus
      BY <2>3, <2>5, PolicyAssumption DEF q, Valid
    <3>2. \A n, a, b \in Nat : a <= b => n * a <= n * b
      OBVIOUS
    <3>3. granted.nodes \in Nat /\ Limits.memory \in Nat /\ Limits.gpus \in Nat
      BY <2>4, <2>5, PolicyAssumption
    <3>4. QED
      BY <3>1, <3>2, <3>3 DEF SlurmMemory, SlurmGpus
  <2>10. \E i \in DOMAIN Limits.partitions : granted.partition = Limits.partitions[i]
    <3>1. PICK i \in DOMAIN Limits.partitions : q.partition \in {None, Limits.partitions[i]}
      BY <2>3 DEF q, Valid
    <3>2. 1 \in DOMAIN Limits.partitions
      BY <3>1, PolicyAssumption
    <3>3. QED
      BY <2>5, <3>1, <3>2
  <2>11. QED
    BY <2>1, <2>6, <2>7, <2>8, <2>9, <2>10 DEF GrantFitsLimits
<1>2. QED
  BY <1>1, PolicyInvariant, PTL

\* A granted job is the one sbatch would have made of the same options and
\* script, where the script spells a parameter in a way the code reads.
THEOREM GrantsAreAsAsked == PolicySpec => []AskedIsGranted
<1>1. PolicyInv => AskedIsGranted
  <2>1. SUFFICES ASSUME PolicyInv, verdict = "granted", NEW p \in Parameters,
                        \A i \in DOMAIN script : script[i].param = p => Plain(script[i]),
                        Asked(p) # None
                 PROVE  CASE p = "time" -> \/ SlurmSeconds(granted.time) = SlurmSeconds(Asked(p))
                                           \/ Ambiguous(Asked(p))
                          [] p = "memory" -> granted.memory * 1024 - SlurmKib(Asked(p)) \in -1023..1024
                          [] p = "partition" -> granted.partition = Asked(p)
                          [] OTHER -> granted[p] = Asked(p).number
    BY DEF AskedIsGranted, Ambiguous
  <2>2. Job \in [Parameters -> Words] /\ granted = Rendered(Job)
    BY <2>1, MergedTyped DEF PolicyInv, GrantInv
  <2>3. PICK active \in Nat : Valid(Job, active)
    BY <2>1 DEF PolicyInv, GrantInv
  <2>4. Job[p] = Asked(p)
    <3> DEFINE I == {i \in DOMAIN script : script[i].param = p}
    <3>1. CASE request[p] # None
      BY <3>1 DEF Job, Merged, Asked
    <3>2. CASE request[p] = None /\ I = {}
      <4>1. DefaultsOf(script, p) = None
        BY <3>2 DEF DefaultsOf
      <4>2. Asked(p) = Fallback(p)
        BY <3>2 DEF Asked
      <4>3. QED
        BY <3>2, <4>1, <4>2 DEF Job, Merged
    <3>3. CASE request[p] = None /\ I # {}
      <4>1. Asked(p) = script[LastOf(I)].value
        BY <3>3 DEF Asked
      <4>2. PICK i0 \in DOMAIN script : script[i0].param = p
        BY <3>3
      <4>3. DefaultsOf(script, p) = script[LastOf(I)].value
        BY <2>1, <4>1, <4>2, DefaultsAgree DEF PolicyInv
      <4>4. QED
        BY <2>1, <3>3, <4>1, <4>3 DEF Job, Merged
    <3>4. QED
      BY <3>1, <3>2, <3>3
  <2>5. CASE p = "time"
    <3>1. TimeOf(Job) = Asked(p)
      BY <2>1, <2>4, <2>5 DEF TimeOf
    <3>2. Asked(p) \in Words /\ ParseTime(Asked(p)) # Invalid
      BY <2>2, <2>3, <3>1, ValidFacts
    <3>3. granted.time = FormatTime(ParseTime(Asked(p)))
      BY <2>2, <3>1 DEF Rendered
    <3>4. SlurmSeconds(granted.time) = ParseTime(Asked(p))
      BY <3>2, <3>3, TimesAgree, TimeRoundTrip
    <3>5. QED
      BY <2>5, <3>2, <3>4, TimesAgree
  <2>6. CASE p = "memory"
    <3>1. Job.memory = Asked(p) /\ Job.memory \in Words
      BY <2>2, <2>4, <2>6
    <3>2. granted.memory = ParseMemory(Asked(p)) /\ ParseMemory(Asked(p)) \in 1..Limits.memory
      BY <2>1, <2>2, <2>3, <3>1 DEF Rendered, Valid
    <3>3. ParseMemory(Asked(p)) # Invalid
      BY <3>2, PolicyAssumption DEF Invalid
    <3>4. QED
      BY <2>6, <3>1, <3>2, <3>3, SizesAgree
  <2>7. CASE p = "partition"
    <3>1. granted.partition = Asked(p)
      BY <2>1, <2>2, <2>4, <2>7 DEF Rendered
    <3>2. QED
      BY <2>7, <3>1
  <2>8. CASE p \in {"nodes", "ntasks", "cpus", "gpus"}
    <3>1. granted[p] = Job[p].number
      BY <2>2, <2>8 DEF Rendered
    <3>2. QED
      BY <2>4, <2>8, <3>1
  <2>9. QED
    BY <2>5, <2>6, <2>7, <2>8 DEF Parameters
<1>2. QED
  BY <1>1, PolicyInvariant, PTL

\* Every argument has a text, the script is no longer than the bound, and a job is
\* rendered exactly when it is granted (SlurmManager._submit_impl).
THEOREM PolicyTypes == PolicySpec => []PolicyTypeOK
<1>1. PolicyInv => PolicyTypeOK
  <2> SUFFICES ASSUME PolicyInv PROVE PolicyTypeOK
    OBVIOUS
  <2>1. DOMAIN request = Parameters
    BY DEF PolicyInv
  <2>2. Len(script) <= MaxLines
    <3>1. PICK n \in 0..MaxLines : script \in [1..n -> Directives]
      BY DEF PolicyInv, ScriptInv
    <3>2. n \in Nat /\ n <= MaxLines
      BY PolicyAssumption
    <3>3. Len(script) = n
      BY <3>1, <3>2
    <3>4. QED
      BY <3>2, <3>3
  <2>3. ASSUME verdict = "granted" PROVE granted # NoJob
    <3>1. PICK active \in Nat : Valid(Job, active)
      BY <2>3 DEF PolicyInv, GrantInv
    <3>2. Job.nodes.number # 0
      BY <3>1, PolicyAssumption DEF Valid
    <3>3. granted.nodes = Job.nodes.number
      BY <2>3 DEF PolicyInv, GrantInv, Rendered
    <3>4. NoJob.nodes = 0
      BY DEF NoJob
    <3>5. QED
      BY <3>2, <3>3, <3>4
  <2>4. QED
    BY <2>1, <2>2, <2>3 DEF PolicyInv, VerdictInv, PolicyTypeOK
<1>2. QED
  BY <1>1, PolicyInvariant, PTL

-----------------------------------------------------------------------------
(* Advice. *)

LEMMA Quotient ==
  ASSUME NEW n \in Nat, NEW d \in Nat \ {0}, n >= d
  PROVE  n \div d \in Nat \ {0} /\ (n \div d) * d <= n
  OBVIOUS

LEMMA ExactQuotient ==
  ASSUME NEW n \in Nat, NEW d \in Nat \ {0}
  PROVE  (n * d) \div d = n
  OBVIOUS

\* What is known of the cores of a node, if its cores or its threads are known.
LEMMA CoresKnown ==
  ASSUME NEW w \in Machines, NEW facts \in SUBSET FactNames
  PROVE  LET k == Fact(w, facts) IN
         /\ PhysicalCores(k) \in Nat
         /\ facts \cap {"threads", "physical"} # {} => PhysicalCores(k) <= w.cores
<1> DEFINE k == Fact(w, facts)
           c == w.cores
           t == w.threads
<1>1. c \in Nat /\ t \in Nat /\ c * t \in Nat
  BY PolicyAssumption
<1>2. /\ k.physical = IF "physical" \in facts THEN c ELSE 0
      /\ k.logical = IF "logical" \in facts THEN c * t ELSE 0
      /\ k.threads = IF "threads" \in facts THEN t ELSE 0
  BY DEF Fact
<1> HIDE DEF k, c, t
<1>3. CASE k.physical > 0
  BY <1>1, <1>2, <1>3 DEF PhysicalCores, c, k
<1>4. CASE k.physical = 0 /\ k.logical > 0 /\ k.threads > 0
  <2>1. k.logical = c * t /\ k.threads = t /\ t \in Nat \ {0}
    BY <1>1, <1>2, <1>4
  <2>2. PhysicalCores(k) = AtLeast1(k.logical \div k.threads)
    BY <1>4 DEF PhysicalCores
  <2>3. PhysicalCores(k) = AtLeast1(c)
    BY <1>1, <2>1, <2>2, ExactQuotient
  <2>4. c # 0
    BY <1>1, <1>4, <2>1
  <2>5. QED
    BY <1>1, <2>3, <2>4 DEF AtLeast1, c, k
<1>5. CASE ~(k.physical > 0) /\ ~(k.physical = 0 /\ k.logical > 0 /\ k.threads > 0)
  <2>1. PhysicalCores(k) = k.logical
    BY <1>1, <1>2, <1>5 DEF PhysicalCores
  <2>2. k.logical \in Nat
    BY <1>1, <1>2
  <2>3. ASSUME facts \cap {"threads", "physical"} # {} PROVE k.logical <= c
    <3>1. CASE "physical" \in facts
      <4>1. c = 0
        BY <1>1, <1>2, <1>5, <3>1
      <4>2. c * t = 0
        BY <1>1, <4>1
      <4>3. QED
        BY <1>1, <1>2, <4>1, <4>2
    <3>2. CASE "threads" \in facts /\ "physical" \notin facts
      <4>1. k.physical = 0 /\ k.threads = t
        BY <1>2, <3>2
      <4>2. k.logical = 0 \/ t = 0
        BY <1>1, <1>5, <2>2, <4>1
      <4>3. t = 0 => k.logical = 0
        <5>1. t = 0 => c * t = 0
          BY <1>1
        <5>2. QED
          BY <1>2, <5>1
      <4>4. QED
        BY <1>1, <4>2, <4>3
    <3>3. QED
      BY <2>3, <3>1, <3>2
  <2>4. QED
    BY <2>1, <2>2, <2>3 DEF c, k
<1>6. QED
  BY <1>3, <1>4, <1>5

\* Ranks and threads fill the cores.
LEMMA RanksFill ==
  ASSUME NEW k, PhysicalCores(k) \in Nat \ {0}, k.numa \in Nat
  PROVE  LET r == HybridRanks(k)
             h == AtLeast1(PhysicalCores(k) \div r) IN
         r \in Nat \ {0} /\ h \in Nat \ {0} /\ r * h = PhysicalCores(k)
<1> DEFINE n == PhysicalCores(k)
           r == HybridRanks(k)
<1>1. r = 1 \/ (r \in Nat \ {0} /\ n % r = 0)
  BY DEF HybridRanks
<1> HIDE DEF n, r
<1>2. n \in Nat \ {0}
  BY DEF n
<1>3. r \in Nat \ {0} /\ n % r = 0
  BY <1>1, <1>2
<1>4. n = r * (n \div r) /\ n \div r \in Nat
  BY <1>2, <1>3
<1>5. n \div r # 0
  BY <1>2, <1>3, <1>4
<1>6. AtLeast1(n \div r) = n \div r
  BY <1>4, <1>5 DEF AtLeast1
<1>7. QED
  BY <1>3, <1>4, <1>5, <1>6 DEF n, r

\* A placement of the cores on nodes that the advice allows is accepted.
LEMMA PlacementValid ==
  ASSUME Limits.partitions # <<>>, NEW tasks \in Nat \ {0}, NEW cpus \in Nat \ {0},
         tasks * cpus <= Limits.cpus, NEW n \in 1..Limits.nodes,
         n <= AtLeast1(Limits.cpus \div (tasks * cpus))
  PROVE  Valid(Placement(n, tasks, cpus), 0)
<1> DEFINE q == Placement(n, tasks, cpus)
           c == tasks * cpus
<1>1. /\ q.nodes = Num(n) /\ q.ntasks = Num(tasks) /\ q.cpus = Num(cpus) /\ q.gpus = Num(0)
      /\ q.partition = None /\ q.memory = None /\ q.time = None
  BY DEF Placement, Parameters, Fallback
<1>2. q.nodes.number = n /\ q.ntasks.number = tasks /\ q.cpus.number = cpus /\ q.gpus.number = 0
  BY <1>1 DEF Num, T
<1> HIDE DEF q
<1>3. c \in Nat \ {0} /\ cpus <= c
  OBVIOUS
<1>4. n * c <= Limits.cpus
  <2>1. Limits.cpus \in Nat /\ n \in Nat /\ c <= Limits.cpus
    BY PolicyAssumption
  <2> DEFINE d == Limits.cpus \div c
  <2> HIDE DEF c
  <2>2. d \in Nat \ {0} /\ d * c <= Limits.cpus
    BY <1>3, <2>1, Quotient
  <2>3. n <= d
    <3>1. n <= AtLeast1(d)
      BY DEF c
    <3> HIDE DEF d
    <3>2. QED
      BY <2>2, <3>1 DEF AtLeast1
  <2> HIDE DEF d
  <2>4. n * c <= d * c
    BY <1>3, <2>1, <2>2, <2>3
  <2>5. n * c \in Nat /\ d * c \in Nat
    BY <1>3, <2>1, <2>2
  <2>6. QED
    BY <2>1, <2>2, <2>4, <2>5
<1>5. CpusAllowed(q)
  <2>1. n * tasks * cpus = n * c
    BY PolicyAssumption
  <2>2. cpus <= Limits.cpus
    <3>1. Limits.cpus \in Nat /\ c <= Limits.cpus
      BY PolicyAssumption
    <3> HIDE DEF c
    <3>2. QED
      BY <1>3, <3>1
  <2>3. QED
    BY <1>2, <1>4, <2>1, <2>2 DEF CpusAllowed
<1>6. 1 \in DOMAIN Limits.partitions
  BY PolicyAssumption
<1>7. ParseTime(TimeOf(q)) \in 1..ParseTime(Limits.time)
  <2>1. ParseTime(Limits.time) \in Nat /\ ParseTime(Limits.time) > 0
    BY TimeLimitAssumption, PolicyAssumption, TimesAgree DEF Invalid
  <2>2. TimeOf(q) = Limits.time
    BY <1>1 DEF TimeOf
  <2>3. QED
    BY <2>1, <2>2
<1>8. 0 < Limits.jobs /\ 0 \in 0..Limits.gpus
  BY PolicyAssumption
<1>9. QED
  BY <1>1, <1>2, <1>5, <1>6, <1>7, <1>8 DEF Valid, q

\* recommend_parallel never uses a core twice, unless it knows neither the cores nor
\* the threads per core, and fills the cores it knows of; and wherever one node fits
\* at all, validate_job_request accepts each of its three placements on up to the
\* number of nodes it names.  Without any partition the policy accepts nothing.
THEOREM RecommendationsFit ==
  ASSUME Limits.partitions # <<>>
  PROVE  PolicySpec => []RecommendationFits
<1>1. PolicyInv => RecommendationFits
  <2> SUFFICES ASSUME PolicyInv, verdict = "advised", advice.available
               PROVE  /\ advice.physical <= machine.cores \/ known \cap {"threads", "physical"} = {}
                      /\ advice.ranks * advice.threads = advice.physical
                      /\ advice.memory <= machine.memory
                      /\ advice.physical <= Limits.cpus =>
                           \A n \in 1..Limits.nodes : n <= advice.nodes =>
                             /\ Valid(Placement(n, advice.physical, 1), 0)
                             /\ Valid(Placement(n, advice.ranks, advice.threads), 0)
                             /\ Valid(Placement(n, 1, advice.physical), 0)
    BY DEF RecommendationFits
  <2> DEFINE k == Fact(machine, known)
  <2>1. machine \in Machines /\ known \in SUBSET FactNames /\ advice = Recommendation(k)
    BY DEF PolicyInv, AdviceInv
  <2>2. PhysicalCores(k) # 0
    BY <2>1 DEF Recommendation
  <2>3. /\ advice.physical = PhysicalCores(k) /\ advice.ranks = HybridRanks(k)
        /\ advice.threads = AtLeast1(PhysicalCores(k) \div HybridRanks(k))
        /\ advice.memory = (k.memory * 9) \div 10
        /\ advice.nodes = AtLeast1(Limits.cpus \div PhysicalCores(k))
    BY <2>1, <2>2 DEF Recommendation, NodesReachingMaxCpus
  <2>4. /\ PhysicalCores(k) \in Nat \ {0}
        /\ PhysicalCores(k) <= machine.cores \/ known \cap {"threads", "physical"} = {}
    BY <2>1, <2>2, CoresKnown
  <2>5. k.numa \in Nat /\ k.memory \in Nat /\ k.memory <= machine.memory /\ machine.memory \in Nat
    BY <2>1, PolicyAssumption DEF Fact
  <2> HIDE DEF k
  <2>6. /\ advice.ranks \in Nat \ {0} /\ advice.threads \in Nat \ {0}
        /\ advice.ranks * advice.threads = advice.physical
    BY <2>3, <2>4, <2>5, RanksFill
  <2>7. advice.memory <= machine.memory
    <3> DEFINE m == k.memory
    <3>1. m \in Nat /\ m <= machine.memory /\ machine.memory \in Nat /\ advice.memory = (m * 9) \div 10
      BY <2>3, <2>5
    <3> HIDE DEF m
    <3>2. (m * 9) \div 10 <= m /\ (m * 9) \div 10 \in Nat
      BY <3>1
    <3>3. QED
      BY <3>1, <3>2
  <2>8. ASSUME advice.physical <= Limits.cpus, NEW n \in 1..Limits.nodes, n <= advice.nodes
        PROVE  /\ Valid(Placement(n, advice.physical, 1), 0)
               /\ Valid(Placement(n, advice.ranks, advice.threads), 0)
               /\ Valid(Placement(n, 1, advice.physical), 0)
    <3>1. advice.physical \in Nat \ {0} /\ n <= AtLeast1(Limits.cpus \div advice.physical)
      BY <2>3, <2>4, <2>8
    <3>2. advice.physical * 1 = advice.physical /\ 1 * advice.physical = advice.physical /\ 1 \in Nat \ {0}
      BY <3>1
    <3>3. Valid(Placement(n, advice.physical, 1), 0)
      BY <2>8, <3>1, <3>2, PlacementValid
    <3>4. Valid(Placement(n, advice.ranks, advice.threads), 0)
      BY <2>6, <2>8, <3>1, PlacementValid
    <3>5. Valid(Placement(n, 1, advice.physical), 0)
      BY <2>8, <3>1, <3>2, PlacementValid
    <3>6. QED
      BY <3>3, <3>4, <3>5
  <2>9. QED
    BY <2>3, <2>4, <2>6, <2>7, <2>8
<1>2. QED
  BY <1>1, PolicyInvariant, PTL
=============================================================================

--------------------------- MODULE RegistryProofs ---------------------------
(***************************************************************************)
(* Theorems about Registry for any bounds under SafeFaults: no payload is  *)
(* cut, and either no script is killed (and there are as many writers as   *)
(* one likes) or any script may be killed at any step and there are at     *)
(* most two.  The runs Registry_cut and Registry_reclaim show that neither *)
(* hypothesis can be dropped.                                              *)
(*                                                                         *)
(* The argument: a live script owns the lock directory it believes it      *)
(* holds, because a script that reclaims an old one is the only live one   *)
(* (LockInv); so from md5sum to mv the file is the version the script      *)
(* compared (VersionInv), so a commit adds one record to what is there     *)
(* (RecordInv).                                                            *)
(***************************************************************************)
EXTENDS Registry, FiniteSetTheorems, TLAPS

SafeFaults ==
    /\ "cut" \notin Faults
    /\ "kill" \in Faults => \A u, v, w \in Writers : u = v \/ u = w \/ v = w

LEMMA ContentFacts ==
    /\ Absent \in Contents
    /\ Garbled \in Contents
    /\ \A S \in SUBSET Jobs : Object(S) \in Contents
    /\ \A S : Object(S).jobs = S
    /\ Absent.jobs = {}
    /\ \A c \in Contents : c.jobs \in SUBSET Jobs
  BY DEF Contents, Absent, Garbled, Object

LEMMA InitIInv == Init => IInv
<1> SUFFICES ASSUME Init PROVE IInv
  OBVIOUS
<1>1. TypeOK
  <2>1. reg \in Contents
    BY ContentFacts DEF Init, Jobs
  <2>2. token \in [Writers -> Contents] /\ tmp \in [Writers -> Contents]
    BY ContentFacts DEF Init
  <2>3. attempt \in [Writers -> 1..RegisterAttempts] /\ tries \in [Writers -> 0..LockAttempts]
    BY ConstantsAssumption DEF Init
  <2>4. code \in [Writers -> {Ok, Failed, Conflict}] /\ held \in [Writers -> {0, 1}]
    BY DEF Init
  <2>5. /\ pc \in [Writers -> {"idle", "reading", "waiting"} \cup Returned]
        /\ at \in [Writers -> ScriptSteps \cup {"none", "ended", "dead"}]
        /\ stdin \in [Writers -> {"whole", "part", "nothing"}]
    BY DEF Init, ScriptSteps, Returned
  <2>6. lock = None /\ age = "fresh"
    BY DEF Init
  <2>7. QED
    BY <2>1, <2>2, <2>3, <2>4, <2>5, <2>6 DEF TypeOK
<1>2. LockInv
  BY DEF Init, LockInv, InLockedSection
<1>3. VersionInv
  BY DEF Init, VersionInv
<1>4. RecordInv
  <2>1. \A w \in Writers : w \notin reg.jobs
    BY ContentFacts, ConstantsAssumption DEF Init
  <2>2. QED
    BY <2>1 DEF Init, RecordInv, Committed
<1>5. LimitInv
  <2>1. reg.jobs = {} \/ reg.jobs = Earlier
    BY ContentFacts DEF Init
  <2>2. Cardinality({}) = 0
    BY FS_EmptySet
  <2>3. Cardinality(reg.jobs) <= MaxEntries
    BY <2>1, <2>2, ConstantsAssumption
  <2>4. QED
    BY <2>3 DEF Init, LimitInv
<1>6. QED
  BY <1>1, <1>2, <1>3, <1>4, <1>5 DEF IInv

-----------------------------------------------------------------------------
(* TypeOK is preserved on its own, faults or not.                          *)

LEMMA ReceivedType ==
    ASSUME TypeOK, NEW w \in Writers
    PROVE  Received(w) \in Contents
<1>1. token[w].jobs \cup {w} \in SUBSET Jobs
  BY ContentFacts DEF TypeOK, Jobs
<1>2. Payload(w) \in Contents /\ Object({}) \in Contents
  BY <1>1, ContentFacts DEF Payload
<1>3. stdin[w] \in {"whole", "part", "nothing"}
  BY DEF TypeOK
<1>4. QED
  BY <1>2, <1>3, ContentFacts DEF Received

LEMMA ClientTypeOK ==
    ASSUME TypeOK, NEW w \in Writers, ClientStep(w)
    PROVE  TypeOK'
<1> USE DEF TypeOK, clientVars, scriptVars, ScriptSteps, Returned
<1>1. CASE Begin(w)
  BY <1>1 DEF Begin
<1>2. CASE Read(w)
  <2>1. PICK t \in Snapshots : token' = [token EXCEPT ![w] = t]
    BY <1>2 DEF Read
  <2>2. t \in Contents
    BY ContentFacts DEF Snapshots
  <2>3. token' \in [Writers -> Contents] /\ tmp' \in [Writers -> Contents]
    BY <1>2, <2>1, <2>2, ContentFacts DEF Read
  <2>4. tries' \in [Writers -> 0..LockAttempts]
    BY <1>2, ConstantsAssumption DEF Read
  <2>5. QED
    BY <1>2, <2>3, <2>4 DEF Read
<1>3. CASE ReadRefused(w)
  BY <1>3 DEF ReadRefused
<1>4. CASE Reply(w)
  BY <1>4, ConstantsAssumption DEF Reply
<1>5. CASE Timeout(w)
  BY <1>5 DEF Timeout
<1>6. QED
  BY <1>1, <1>2, <1>3, <1>4, <1>5 DEF ClientStep

LEMMA ScriptTypeOK ==
    ASSUME TypeOK, NEW w \in Writers, ScriptStep(w)
    PROVE  TypeOK'
<1> USE DEF TypeOK, clientVars, ScriptSteps, Goto, Finish, Ok, Failed, Conflict
<1>1. CASE TakeLock(w)
  BY <1>1, ConstantsAssumption DEF TakeLock
<1>2. CASE LockBusy(w)
  BY <1>2, ConstantsAssumption DEF LockBusy
<1>3. CASE LockGiveUp(w)
  BY <1>3 DEF LockGiveUp
<1>4. CASE ProbeLock(w)
  BY <1>4 DEF ProbeLock
<1>5. CASE ReclaimLock(w)
  BY <1>5 DEF ReclaimLock
<1>6. CASE CheckVersion(w)
  BY <1>6 DEF CheckVersion
<1>7. CASE WriteTemp(w)
  BY <1>7, ReceivedType DEF WriteTemp
<1>8. CASE Move(w)
  BY <1>8 DEF Move
<1>9. CASE Cleanup(w)
  BY <1>9, ContentFacts DEF Cleanup
<1>10. QED
  BY <1>1, <1>2, <1>3, <1>4, <1>5, <1>6, <1>7, <1>8, <1>9 DEF ScriptStep

LEMMA NextTypeOK == TypeOK /\ [Next]_vars => TypeOK'
<1> SUFFICES ASSUME TypeOK, [Next]_vars PROVE TypeOK'
  OBVIOUS
<1>1. CASE \E w \in Writers : ClientStep(w)
  BY <1>1, ClientTypeOK
<1>2. CASE \E w \in Writers : ScriptStep(w)
  BY <1>2, ScriptTypeOK
<1>3. CASE \E w \in Writers : Kill(w)
  BY <1>3 DEF Kill, TypeOK, ScriptSteps, Returned
<1>4. CASE LockAges
  BY <1>4 DEF LockAges, TypeOK, clientVars, scriptVars
<1>5. CASE UNCHANGED vars
  BY <1>5 DEF vars, clientVars, scriptVars, TypeOK
<1>6. QED
  BY <1>1, <1>2, <1>3, <1>4, <1>5 DEF Next

\* The variables keep their types, whatever faults happen: in particular the
\* retry counters of JobTracker.register and of the lock loop stay in bounds.
THEOREM TypeCorrect == Spec => []TypeOK
<1>1. Init => TypeOK
  BY InitIInv DEF IInv
<1>2. QED
  BY <1>1, NextTypeOK, PTL DEF Spec
-----------------------------------------------------------------------------
(* The inductive invariant.  One lemma per part; in each, one step per     *)
(* action that touches what the part speaks of.                            *)

LEMMA LockStep ==
    ASSUME SafeFaults, IInv, Next
    PROVE  LockInv'
<1> USE DEF LockInv, InLockedSection
<1>1. ASSUME NEW w \in Writers, ClientStep(w)
      PROVE  LockInv'
  <2> USE DEF IInv, TypeOK
  <2>1. CASE Begin(w)
    BY <2>1 DEF Begin, scriptVars
  <2>2. CASE Read(w)
    <3>1. at[w] \in {"none", "ended"}
      BY <2>2 DEF Read, RecordInv
    <3>2. at' = [at EXCEPT ![w] = "lock"] /\ held' = [held EXCEPT ![w] = 0]
      BY <2>2 DEF Read
    <3>3. lock' = lock /\ age' = age
      BY <2>2 DEF Read
    <3>4. QED
      BY <3>1, <3>2, <3>3
  <2>3. CASE ReadRefused(w)
    BY <2>3 DEF ReadRefused, scriptVars
  <2>4. CASE Reply(w)
    BY <2>4 DEF Reply, scriptVars
  <2>5. CASE Timeout(w)
    BY <2>5 DEF Timeout
  <2>6. QED
    BY <1>1, <2>1, <2>2, <2>3, <2>4, <2>5 DEF ClientStep
<1>2. ASSUME NEW w \in Writers, ScriptStep(w)
      PROVE  LockInv'
  <2> USE DEF IInv, TypeOK, Goto, Finish
  <2>1. CASE TakeLock(w)
    <3>1. \A v \in Writers : held[v] = 1 => at[v] \notin {"check", "write", "move", "cleanup"}
      BY <2>1, ConstantsAssumption DEF TakeLock
    <3>2. QED
      BY <2>1, <3>1 DEF TakeLock
  <2>2. CASE LockBusy(w)
    BY <2>2 DEF LockBusy
  <2>3. CASE LockGiveUp(w)
    BY <2>3 DEF LockGiveUp
  <2>4. CASE ProbeLock(w)
    <3>1. at[w] = "probe" /\ held[w] = 0 /\ held' = held /\ lock' = lock /\ age' = age
      BY <2>4 DEF ProbeLock
    <3>2. CASE lock # None /\ age = "stale"
      <4>1. lock \in Writers \ {w} /\ at[lock] = "dead" /\ "kill" \in Faults
        BY <3>1, <3>2
      <4>2. \A v \in Writers \ {w} : at[v] = "dead"
        BY <4>1 DEF SafeFaults
      <4>3. at' = [at EXCEPT ![w] = "stale"]
        BY <2>4, <3>2 DEF ProbeLock
      <4>4. QED
        BY <3>1, <4>1, <4>2, <4>3
    <3>3. CASE ~(lock # None /\ age = "stale")
      <4>1. at' = [at EXCEPT ![w] = "lock"]
        BY <2>4, <3>3 DEF ProbeLock
      <4>2. QED
        BY <3>1, <3>3, <4>1
    <3>4. QED
      BY <3>2, <3>3
  <2>5. CASE ReclaimLock(w)
    BY <2>5 DEF ReclaimLock
  <2>6. CASE CheckVersion(w)
    BY <2>6 DEF CheckVersion
  <2>7. CASE WriteTemp(w)
    BY <2>7 DEF WriteTemp
  <2>8. CASE Move(w)
    BY <2>8 DEF Move
  <2>9. CASE Cleanup(w)
    <3>1. CASE held[w] = 1
      <4>1. \A v \in Writers : v # w /\ held[v] = 1
                => at[v] \notin {"check", "write", "move", "cleanup"}
        BY <2>9, <3>1 DEF Cleanup
      <4>2. QED
        BY <2>9, <3>1, <4>1 DEF Cleanup
    <3>2. CASE held[w] # 1
      BY <2>9, <3>2 DEF Cleanup
    <3>3. QED
      BY <3>1, <3>2
  <2>10. QED
    BY <1>2, <2>1, <2>2, <2>3, <2>4, <2>5, <2>6, <2>7, <2>8, <2>9 DEF ScriptStep
<1>3. ASSUME NEW w \in Writers, Kill(w)
      PROVE  LockInv'
  BY <1>3 DEF Kill, IInv, TypeOK, ScriptSteps
<1>4. CASE LockAges
  BY <1>4 DEF LockAges, IInv, TypeOK, scriptVars
<1>5. QED
  BY <1>1, <1>2, <1>3, <1>4 DEF Next

\* Under the lock no other script commits: an action that writes the file is
\* by the one script that holds the lock.
LEMMA OnlyOneInside ==
    ASSUME IInv, NEW v \in Writers, NEW w \in Writers,
           InLockedSection(v), InLockedSection(w)
    PROVE  v = w
  BY DEF IInv, LockInv, InLockedSection

LEMMA VersionStep ==
    ASSUME SafeFaults, IInv, Next
    PROVE  VersionInv'
<1> USE DEF IInv, TypeOK, VersionInv, InLockedSection
<1>1. ASSUME NEW w \in Writers, ClientStep(w)
      PROVE  VersionInv'
  <2>1. CASE Begin(w)
    BY <2>1 DEF Begin, scriptVars, Payload
  <2>2. CASE Read(w)
    <3>1. stdin' = stdin /\ reg' = reg /\ at' = [at EXCEPT ![w] = "lock"]
      BY <2>2 DEF Read
    <3>2. \A v \in Writers : v # w => token'[v] = token[v] /\ tmp'[v] = tmp[v]
      BY <2>2 DEF Read
    <3>3. QED
      BY <3>1, <3>2 DEF Payload
  <2>3. CASE ReadRefused(w)
    BY <2>3 DEF ReadRefused, scriptVars, Payload
  <2>4. CASE Reply(w)
    BY <2>4 DEF Reply, scriptVars, Payload
  <2>5. CASE Timeout(w)
    <3>1. stdin' = [stdin EXCEPT ![w] = "whole"]
      BY <2>5 DEF Timeout, SafeFaults
    <3>2. QED
      BY <2>5, <3>1 DEF Timeout, Payload
  <2>6. QED
    BY <1>1, <2>1, <2>2, <2>3, <2>4, <2>5 DEF ClientStep
<1>2. ASSUME NEW w \in Writers, ScriptStep(w)
      PROVE  VersionInv'
  <2> USE DEF Goto, Finish, Payload
  <2>1. CASE TakeLock(w)
    BY <2>1 DEF TakeLock
  <2>2. CASE LockBusy(w)
    BY <2>2 DEF LockBusy
  <2>3. CASE LockGiveUp(w)
    BY <2>3 DEF LockGiveUp
  <2>4. CASE ProbeLock(w)
    BY <2>4 DEF ProbeLock
  <2>5. CASE ReclaimLock(w)
    BY <2>5 DEF ReclaimLock
  <2>6. CASE CheckVersion(w)
    BY <2>6 DEF CheckVersion
  <2>7. CASE WriteTemp(w)
    <3>1. Received(w) = Payload(w)
      BY DEF Received
    <3>2. QED
      BY <2>7, <3>1 DEF WriteTemp
  <2>8. CASE Move(w)
    <3>1. \A v \in Writers : v # w => at[v] \notin {"write", "move"}
      BY <2>8, OnlyOneInside DEF Move
    <3>2. QED
      BY <2>8, <3>1 DEF Move
  <2>9. CASE Cleanup(w)
    BY <2>9 DEF Cleanup
  <2>10. QED
    BY <1>2, <2>1, <2>2, <2>3, <2>4, <2>5, <2>6, <2>7, <2>8, <2>9 DEF ScriptStep
<1>3. ASSUME NEW w \in Writers, Kill(w)
      PROVE  VersionInv'
  BY <1>3 DEF Kill, ScriptSteps, Payload
<1>4. CASE LockAges
  BY <1>4 DEF LockAges, clientVars, scriptVars, Payload
<1>5. QED
  BY <1>1, <1>2, <1>3, <1>4 DEF Next

\* The only step that changes the file adds the record of its own script.
LEMMA MoveAddsRecord ==
    ASSUME IInv, NEW w \in Writers, Move(w), reg' # reg
    PROVE  /\ reg = token[w]
           /\ reg' = Payload(w)
           /\ reg'.jobs = reg.jobs \cup {w}
<1>1. reg = token[w] /\ tmp[w] = Payload(w)
  BY DEF Move, IInv, VersionInv
<1>2. reg' = Payload(w)
  BY <1>1 DEF Move
<1>3. QED
  BY <1>1, <1>2, ContentFacts DEF Payload

LEMMA RecordStep ==
    ASSUME SafeFaults, IInv, Next
    PROVE  RecordInv'
<1> USE DEF IInv, TypeOK, RecordInv, Committed, Ok, Failed, Conflict
<1>1. ASSUME NEW w \in Writers, ClientStep(w)
      PROVE  RecordInv'
  <2>1. CASE Begin(w)
    BY <2>1 DEF Begin, scriptVars
  <2>2. CASE Read(w)
    BY <2>2 DEF Read
  <2>3. CASE ReadRefused(w)
    BY <2>3 DEF ReadRefused, scriptVars
  <2>4. CASE Reply(w)
    BY <2>4 DEF Reply, scriptVars
  <2>5. CASE Timeout(w)
    BY <2>5 DEF Timeout
  <2>6. QED
    BY <1>1, <2>1, <2>2, <2>3, <2>4, <2>5 DEF ClientStep
<1>2. ASSUME NEW w \in Writers, ScriptStep(w)
      PROVE  RecordInv'
  <2> USE DEF Goto, Finish, clientVars
  <2>1. CASE TakeLock(w)
    BY <2>1 DEF TakeLock
  <2>2. CASE LockBusy(w)
    BY <2>2 DEF LockBusy
  <2>3. CASE LockGiveUp(w)
    BY <2>3 DEF LockGiveUp
  <2>4. CASE ProbeLock(w)
    BY <2>4 DEF ProbeLock
  <2>5. CASE ReclaimLock(w)
    BY <2>5 DEF ReclaimLock
  <2>6. CASE CheckVersion(w)
    BY <2>6 DEF CheckVersion
  <2>7. CASE WriteTemp(w)
    BY <2>7 DEF WriteTemp
  <2>8. CASE Move(w)
    <3>1. w \notin reg.jobs
      BY <2>8 DEF Move
    <3>2. \/ reg' = tmp[w] /\ code' = [code EXCEPT ![w] = Ok]
          \/ reg' = reg /\ code' = [code EXCEPT ![w] = Failed]
      BY <2>8 DEF Move
    <3>3. tmp[w].jobs = reg.jobs \cup {w}
      <4>1. at[w] = "move"
        BY <2>8 DEF Move
      <4>2. tmp[w] = Object(reg.jobs \cup {w})
        BY <4>1 DEF VersionInv, Payload
      <4>3. QED
        BY <4>2, ContentFacts
    <3>4. at' = [at EXCEPT ![w] = "cleanup"] /\ pc' = pc
      BY <2>8 DEF Move
    <3>5. pc[w] \notin {"idle", "reading", "refused", "ok"}
      BY <2>8 DEF Move
    <3>6. CASE reg' = tmp[w] /\ code' = [code EXCEPT ![w] = Ok]
      BY <3>3, <3>4, <3>5, <3>6
    <3>7. CASE reg' = reg /\ code' = [code EXCEPT ![w] = Failed]
      BY <3>1, <3>4, <3>5, <3>7
    <3>8. QED
      BY <3>2, <3>6, <3>7
  <2>9. CASE Cleanup(w)
    BY <2>9 DEF Cleanup
  <2>10. QED
    BY <1>2, <2>1, <2>2, <2>3, <2>4, <2>5, <2>6, <2>7, <2>8, <2>9 DEF ScriptStep
<1>3. ASSUME NEW w \in Writers, Kill(w)
      PROVE  RecordInv'
  BY <1>3 DEF Kill, ScriptSteps
<1>4. CASE LockAges
  BY <1>4 DEF LockAges, clientVars, scriptVars
<1>5. QED
  BY <1>1, <1>2, <1>3, <1>4 DEF Next

LEMMA LimitStep ==
    ASSUME SafeFaults, IInv, Next
    PROVE  LimitInv'
<1> USE DEF IInv, TypeOK, LimitInv, WithinLimit
<1>1. ASSUME NEW w \in Writers, ClientStep(w)
      PROVE  LimitInv'
  <2>1. CASE Begin(w)
    BY <2>1 DEF Begin, scriptVars
  <2>2. CASE Read(w)
    BY <2>2 DEF Read
  <2>3. CASE ReadRefused(w)
    BY <2>3 DEF ReadRefused, scriptVars
  <2>4. CASE Reply(w)
    BY <2>4 DEF Reply, scriptVars
  <2>5. CASE Timeout(w)
    BY <2>5 DEF Timeout
  <2>6. QED
    BY <1>1, <2>1, <2>2, <2>3, <2>4, <2>5 DEF ClientStep
<1>2. ASSUME NEW w \in Writers, ScriptStep(w)
      PROVE  LimitInv'
  <2>1. CASE Move(w) /\ reg' # reg
    <3>1. reg'.jobs = token[w].jobs \cup {w}
      BY <2>1, MoveAddsRecord
    <3>2. token' = token /\ at[w] = "move" /\ at' = [at EXCEPT ![w] = "cleanup"]
      BY <2>1 DEF Move, Finish
    <3>3. QED
      BY <3>1, <3>2
  <2>2. CASE reg' = reg
    <3>1. token' = token /\ at[w] # "none"
      BY <1>2, <2>2 DEF ScriptStep, TakeLock, LockBusy, LockGiveUp, ProbeLock,
         ReclaimLock, CheckVersion, WriteTemp, Move, Cleanup
    <3>2. \A v \in Writers : v # w => at'[v] = at[v]
      BY <1>2 DEF ScriptStep, TakeLock, LockBusy, LockGiveUp, ProbeLock,
         ReclaimLock, CheckVersion, WriteTemp, Move, Cleanup, Goto, Finish
    <3>3. QED
      BY <2>2, <3>1, <3>2
  <2>3. QED
    BY <1>2, <2>1, <2>2 DEF ScriptStep, TakeLock, LockBusy, LockGiveUp, ProbeLock,
       ReclaimLock, CheckVersion, WriteTemp, Cleanup
<1>3. ASSUME NEW w \in Writers, Kill(w)
      PROVE  LimitInv'
  BY <1>3 DEF Kill, ScriptSteps
<1>4. CASE LockAges
  BY <1>4 DEF LockAges, clientVars, scriptVars
<1>5. QED
  BY <1>1, <1>2, <1>3, <1>4 DEF Next

LEMMA NextIInv == SafeFaults /\ IInv /\ [Next]_vars => IInv'
<1> SUFFICES ASSUME SafeFaults, IInv, [Next]_vars
             PROVE  IInv'
  OBVIOUS
<1>1. CASE Next
  <2>1. TypeOK'
    BY <1>1, NextTypeOK DEF IInv
  <2>2. QED
    BY <1>1, <2>1, LockStep, VersionStep, RecordStep, LimitStep DEF IInv
<1>2. CASE UNCHANGED vars
  BY <1>2 DEF vars, clientVars, scriptVars, IInv, TypeOK, LockInv, InLockedSection,
     VersionInv, Payload, RecordInv, Committed, LimitInv
<1>3. QED
  BY <1>1, <1>2

\* The inductive invariant of the protocol, for every number of writers and
\* every bound while no script is killed, and for two writers with kills.
THEOREM Invariance ==
    ASSUME SafeFaults
    PROVE  Spec => []IInv
<1>1. Init => IInv
  BY InitIInv
<1>2. IInv /\ [Next]_vars => IInv'
  BY NextIInv
<1>3. QED
  BY <1>1, <1>2, PTL DEF Spec

\* No two scripts are between mkdir and rmdir of the lock at the same time.
THEOREM LockExcludes ==
    ASSUME SafeFaults
    PROVE  Spec => []MutualExclusion
<1>1. IInv => MutualExclusion
  BY OnlyOneInside DEF MutualExclusion
<1>2. QED
  BY <1>1, Invariance, PTL

\* "ok" means recorded for good, "refused" means never recorded.
THEOREM VerdictsAreTrue ==
    ASSUME SafeFaults
    PROVE  Spec => []VerdictsHold
<1>1. IInv => VerdictsHold
  BY DEF IInv, RecordInv, Committed, VerdictsHold
<1>2. QED
  BY <1>1, Invariance, PTL

\* The file never grows beyond what a later read accepts.
THEOREM LimitKept ==
    ASSUME SafeFaults
    PROVE  Spec => []NeverOverLimit
<1>1. IInv => NeverOverLimit
  BY DEF IInv, LimitInv, NeverOverLimit
<1>2. QED
  BY <1>1, Invariance, PTL

\* Only mv changes the file.
LEMMA OnlyMoveWrites ==
    ASSUME SafeFaults, IInv, Next, reg' # reg
    PROVE  \E w \in Writers : Move(w)
<1>1. \A w \in Writers : ~ClientStep(w)
  BY DEF ClientStep, Begin, Read, ReadRefused, Reply, Timeout
<1>2. \A w \in Writers : ~Kill(w)
  BY DEF Kill
<1>3. ~LockAges
  BY DEF LockAges
<1>4. PICK w \in Writers : ScriptStep(w)
  BY <1>1, <1>2, <1>3 DEF Next
<1>5. Move(w)
  BY <1>4 DEF ScriptStep, TakeLock, LockBusy, LockGiveUp, ProbeLock,
     ReclaimLock, CheckVersion, WriteTemp, Cleanup
<1>6. QED
  BY <1>5

\* The compare and the rename are one step as far as other commits go.
THEOREM CompareAndSwapIsAtomic ==
    ASSUME SafeFaults
    PROVE  Spec => CommitReplacesCheckedVersion
<1>1. IInv /\ [Next]_vars
        => [\A w \in Writers : at[w] = "move" /\ reg' # reg /\ at'[w] = "cleanup"
                                   => reg = token[w]]_vars
  BY DEF IInv, VersionInv
<1>2. QED
  BY <1>1, Invariance, PTL DEF Spec, CommitReplacesCheckedVersion

\* A record in the file is never dropped by another registration.
THEOREM RecordsAreKept ==
    ASSUME SafeFaults
    PROVE  Spec => RecordsSurvive
<1>1. IInv /\ [Next]_vars => [reg.jobs \subseteq reg'.jobs]_vars
  <2> SUFFICES ASSUME IInv, Next, reg' # reg
               PROVE  reg.jobs \subseteq reg'.jobs
    OBVIOUS
  <2>1. PICK w \in Writers : Move(w)
    BY OnlyMoveWrites
  <2>2. reg'.jobs = reg.jobs \cup {w}
    BY <2>1, MoveAddsRecord
  <2>3. QED
    BY <2>2
<1>2. QED
  BY <1>1, Invariance, PTL DEF Spec, RecordsSurvive

-----------------------------------------------------------------------------
(* Refinement: every step of the protocol is a step of the ledger, or none *)
(* that the ledger sees.                                                   *)

LEMMA InitRefines == Init => Ledger!Init
<1> SUFFICES ASSUME Init PROVE Ledger!Init
  OBVIOUS
<1>1. reg.jobs \in {{}, Earlier}
  BY ContentFacts DEF Init
<1>2. Outcome = [w \in Writers |-> "idle"]
  BY DEF Init, Outcome
<1>3. QED
  BY <1>1, <1>2 DEF Ledger!Init

\* A client step of call w moves at most the outcome of w.
LEMMA OutcomeMoves ==
    ASSUME IInv, NEW w \in Writers, NEW p \in {"idle", "reading", "waiting"} \cup Returned,
           pc' = [pc EXCEPT ![w] = p]
    PROVE  Outcome' = [Outcome EXCEPT ![w] = IF p \in {"reading", "waiting"} THEN "pending" ELSE p]
  BY DEF Outcome, IInv, TypeOK

LEMMA ClientRefines ==
    ASSUME IInv, NEW w \in Writers, ClientStep(w)
    PROVE  [Ledger!Next]_(Ledger!vars)
<1> USE DEF Returned
<1>0. /\ Outcome[w] = IF pc[w] \in {"reading", "waiting"} THEN "pending" ELSE pc[w]
      /\ reg' = reg
  BY DEF Outcome, ClientStep, Begin, Read, ReadRefused, Reply, Timeout
<1>1. CASE Begin(w)
  <2>1. pc[w] = "idle" /\ w \notin reg.jobs
    BY <1>1 DEF Begin, IInv, RecordInv, Committed
  <2>2. CASE pc' = [pc EXCEPT ![w] = "reading"]
    <3>1. Outcome' = [Outcome EXCEPT ![w] = "pending"]
      BY <2>2, OutcomeMoves
    <3>2. Ledger!Start(w)
      BY <1>0, <2>1, <3>1 DEF Ledger!Start
    <3>3. QED
      BY <3>2 DEF Ledger!Next
  <2>3. CASE pc' = [pc EXCEPT ![w] = "refused"]
    <3>1. Outcome' = [Outcome EXCEPT ![w] = "refused"]
      BY <2>3, OutcomeMoves
    <3>2. Ledger!Refuse(w)
      BY <1>0, <2>1, <3>1 DEF Ledger!Refuse
    <3>3. QED
      BY <3>2 DEF Ledger!Next
  <2>4. QED
    BY <1>1, <2>2, <2>3 DEF Begin
<1>2. CASE Read(w)
  <2>1. pc[w] = "reading" /\ pc' = [pc EXCEPT ![w] = "waiting"]
    BY <1>2 DEF Read
  <2>2. Outcome' = Outcome
    BY <2>1 DEF Outcome, IInv, TypeOK
  <2>3. QED
    BY <1>0, <2>2 DEF Ledger!vars
<1>3. CASE ReadRefused(w)
  <2>1. pc[w] = "reading" /\ w \notin reg.jobs
    BY <1>3 DEF ReadRefused, IInv, RecordInv, Committed
  <2>2. Outcome' = [Outcome EXCEPT ![w] = "refused"]
    BY <1>3, OutcomeMoves DEF ReadRefused
  <2>3. Ledger!Refuse(w)
    BY <1>0, <2>1, <2>2 DEF Ledger!Refuse
  <2>4. QED
    BY <2>3 DEF Ledger!Next
<1>4. CASE Reply(w)
  <2>1. pc[w] = "waiting" /\ at[w] = "ended"
    BY <1>4 DEF Reply
  <2>2. CASE pc' = [pc EXCEPT ![w] = "reading"]
    <3>1. Outcome' = Outcome
      BY <2>1, <2>2 DEF Outcome, IInv, TypeOK
    <3>2. QED
      BY <1>0, <3>1 DEF Ledger!vars
  <2>3. CASE pc' = [pc EXCEPT ![w] = "ok"] /\ code[w] = Ok
    <3>1. w \in reg.jobs
      BY <2>1, <2>3 DEF IInv, RecordInv, Committed
    <3>2. Outcome' = [Outcome EXCEPT ![w] = "ok"]
      BY <2>3, OutcomeMoves
    <3>3. Ledger!Confirm(w)
      BY <1>0, <2>1, <3>1, <3>2 DEF Ledger!Confirm
    <3>4. QED
      BY <3>3 DEF Ledger!Next
  <2>4. CASE pc' = [pc EXCEPT ![w] = "refused"] /\ code[w] # Ok
    <3>1. w \notin reg.jobs
      BY <2>1, <2>4 DEF IInv, RecordInv, Committed
    <3>2. Outcome' = [Outcome EXCEPT ![w] = "refused"]
      BY <2>4, OutcomeMoves
    <3>3. Ledger!Refuse(w)
      BY <1>0, <2>1, <3>1, <3>2 DEF Ledger!Refuse
    <3>4. QED
      BY <3>3 DEF Ledger!Next
  <2>5. QED
    BY <1>4, <2>2, <2>3, <2>4 DEF Reply
<1>5. CASE Timeout(w)
  <2>1. pc[w] = "waiting"
    BY <1>5 DEF Timeout
  <2>2. Outcome' = [Outcome EXCEPT ![w] = "unknown"]
    BY <1>5, OutcomeMoves DEF Timeout
  <2>3. Ledger!LoseTouch(w)
    BY <1>0, <2>1, <2>2 DEF Ledger!LoseTouch
  <2>4. QED
    BY <2>3 DEF Ledger!Next
<1>6. QED
  BY <1>1, <1>2, <1>3, <1>4, <1>5 DEF ClientStep

LEMMA ScriptRefines ==
    ASSUME IInv, NEW w \in Writers, ScriptStep(w)
    PROVE  [Ledger!Next]_(Ledger!vars)
<1>1. pc' = pc
  BY DEF ScriptStep, TakeLock, LockBusy, LockGiveUp, ProbeLock, ReclaimLock,
     CheckVersion, WriteTemp, Move, Cleanup, clientVars
<1>2. Outcome' = Outcome
  BY <1>1 DEF Outcome
<1>3. CASE reg' = reg
  BY <1>2, <1>3 DEF Ledger!vars
<1>4. CASE reg' # reg
  <2>1. Move(w)
    BY <1>4 DEF ScriptStep, TakeLock, LockBusy, LockGiveUp, ProbeLock,
       ReclaimLock, CheckVersion, WriteTemp, Cleanup
  <2>2. reg'.jobs = reg.jobs \cup {w}
    BY <1>4, <2>1, MoveAddsRecord
  <2>3. w \notin reg.jobs /\ pc[w] \in {"waiting", "unknown"}
    BY <2>1 DEF Move, IInv, TypeOK, RecordInv, Committed, Returned
  <2>4. Outcome[w] \in {"pending", "unknown"}
    BY <2>3 DEF Outcome
  <2>5. Ledger!Record(w)
    BY <1>2, <2>2, <2>3, <2>4 DEF Ledger!Record
  <2>6. QED
    BY <2>5 DEF Ledger!Next
<1>5. QED
  BY <1>3, <1>4

\* A script's death is at most its client losing touch.
LEMMA KillRefines ==
    ASSUME IInv, NEW w \in Writers, Kill(w)
    PROVE  [Ledger!Next]_(Ledger!vars)
<1>1. reg' = reg
  BY DEF Kill
<1>2. CASE pc[w] = "waiting"
  <2>1. pc' = [pc EXCEPT ![w] = "unknown"]
    BY <1>2 DEF Kill, IInv, TypeOK
  <2>2. Outcome[w] = "pending" /\ Outcome' = [Outcome EXCEPT ![w] = "unknown"]
    BY <1>2, <2>1, OutcomeMoves DEF Outcome, Returned
  <2>3. Ledger!LoseTouch(w)
    BY <1>1, <2>2 DEF Ledger!LoseTouch
  <2>4. QED
    BY <2>3 DEF Ledger!Next
<1>3. CASE pc[w] # "waiting"
  <2>1. pc' = pc
    BY <1>3 DEF Kill, IInv, TypeOK
  <2>2. QED
    BY <1>1, <2>1 DEF Ledger!vars, Outcome
<1>4. QED
  BY <1>2, <1>3

\* The registry protocol implements the ownership ledger.
THEOREM Refinement ==
    ASSUME SafeFaults
    PROVE  Spec => ImplementsLedger
<1>1. Init => Ledger!Init
  BY InitRefines
<1>2. IInv /\ [Next]_vars => [Ledger!Next]_(Ledger!vars)
  <2> SUFFICES ASSUME IInv, [Next]_vars
               PROVE  [Ledger!Next]_(Ledger!vars)
    OBVIOUS
  <2>1. ASSUME NEW w \in Writers, ClientStep(w)
        PROVE  [Ledger!Next]_(Ledger!vars)
    BY <2>1, ClientRefines
  <2>2. ASSUME NEW w \in Writers, ScriptStep(w)
        PROVE  [Ledger!Next]_(Ledger!vars)
    BY <2>2, ScriptRefines
  <2>3. ASSUME NEW w \in Writers, Kill(w)
        PROVE  [Ledger!Next]_(Ledger!vars)
    BY <2>3, KillRefines
  <2>4. CASE LockAges
    BY <2>4 DEF LockAges, clientVars, Ledger!vars, Outcome
  <2>5. CASE UNCHANGED vars
    BY <2>5 DEF vars, clientVars, Ledger!vars, Outcome
  <2>6. QED
    BY <2>1, <2>2, <2>3, <2>4, <2>5 DEF Next
<1>3. QED
  BY <1>1, <1>2, Invariance, PTL DEF Spec, ImplementsLedger, Ledger!Spec
=============================================================================

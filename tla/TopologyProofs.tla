--------------------------- MODULE TopologyProofs ---------------------------
(***************************************************************************)
(* Proofs about Topology, for any number of calls and failures and any     *)
(* time limits.                                                            *)
(***************************************************************************)
EXTENDS Topology, FiniteSetTheorems, TLAPS

-----------------------------------------------------------------------------
(* Types.                                                                  *)

LEMMA ConstantTypes == NoFact \in Payloads /\ Absent \in Entries /\ NoPending \in [job : Calls \cup {None}, started : Nat]
  BY DEF NoFact, Absent, NoPending, Payloads, Entries

LEMMA EntryType ==
    ASSUME NEW time \in Nat, NEW f \in Payloads
    PROVE  Entry(time, f) \in Entries
  BY DEF Entry, Entries

LEMMA RememberedType ==
    ASSUME TypeOK, NEW f \in Payloads
    PROVE  Remembered(f) \in Entries
  BY EntryType DEF TypeOK, Remembered

\* The payload in an entry.
LEMMA FactType ==
    ASSUME TypeOK
    PROVE  /\ memory.fact \in Payloads
           /\ file.fact \in Payloads
           /\ \A c \in Calls : fact[c] \in Payloads
           /\ pending.job \in Calls \cup {None}
  BY DEF TypeOK, Entries

LEMMA SshType == TypeOK /\ (SshFails \/ SshWorks) => failures' \in Nat
  BY ConstantsAssumption DEF TypeOK, SshFails, SshWorks

\* Ending a call, and going on with it, keep the types of the call's state.
LEMMA ReturnType ==
    ASSUME TypeOK, NEW c \in Calls, NEW answer \in Answers, NEW f \in Payloads,
           Return(c, answer, f)
    PROVE  /\ lock' \in Calls \cup {None}
           /\ pc' \in [Calls -> {"idle"} \cup Steps \cup Answers]
           /\ refresh' \in [Calls -> {"yes", "no"}]
           /\ mine' \in [Calls -> Calls \cup {None}]
           /\ fact' \in [Calls -> Payloads]
  BY DEF TypeOK, Return

LEMMA GotoType ==
    ASSUME TypeOK, NEW c \in Calls, NEW step \in Steps, Goto(c, step)
    PROVE  /\ lock' \in Calls \cup {None}
           /\ pc' \in [Calls -> {"idle"} \cup Steps \cup Answers]
           /\ refresh' \in [Calls -> {"yes", "no"}]
  BY DEF TypeOK, Goto

LEMMA TypeInit == Init => TypeOK
  BY ConstantTypes DEF Init, TypeOK

\* Each action keeps the types.
LEMMA TypeStep == TypeOK /\ [Next]_vars => TypeOK'
<1> SUFFICES ASSUME TypeOK, [Next]_vars PROVE TypeOK'
  OBVIOUS
<1> USE ConstantTypes, ConstantsAssumption, FactType, SshType
<1>s. /\ {"remote", "resume", "cancel", "collect", "wait", "output", "write"} = Steps
      /\ {"session-cache", "remote-cache", "probe-job", "pending", "error"} = Answers
  BY DEF Steps, Answers
<1>1. ASSUME NEW c \in Calls, Enter(c) PROVE TypeOK'
  BY <1>1, <1>s DEF TypeOK, Enter
<1>2. ASSUME NEW c \in Calls, EnterRefresh(c) PROVE TypeOK'
  BY <1>2, <1>s DEF TypeOK, EnterRefresh
<1>3. ASSUME NEW c \in Calls, ReadRemote(c) PROVE TypeOK'
  <2>1. CASE SshWorks /\ memory' = Remembered(file.fact) /\ Return(c, "remote-cache", file.fact)
    BY <1>3, <1>s, <2>1, ReturnType, RememberedType DEF TypeOK, ReadRemote
  <2>2. CASE /\ SshWorks \/ SshFails
             /\ Goto(c, IF pending.job = None THEN "collect" ELSE "resume")
             /\ UNCHANGED <<mine, fact, memory>>
    BY <1>3, <1>s, <2>2, GotoType DEF TypeOK, ReadRemote
  <2>3. QED
    BY <1>3, <2>1, <2>2 DEF ReadRemote
<1>4. ASSUME NEW c \in Calls, Resume(c) PROVE TypeOK'
  <2>1. failures' \in Nat /\ pending' \in [job : Calls \cup {None}, started : Nat]
    BY <1>4 DEF TypeOK, Resume
  <2>2. CASE Return(c, "pending", NoFact)
    BY <1>4, <1>s, <2>1, <2>2, ReturnType DEF TypeOK, Resume
  <2>3. CASE Goto(c, "collect") /\ UNCHANGED <<mine, fact>>
    BY <1>4, <1>s, <2>1, <2>3, GotoType DEF TypeOK, Resume
  <2>4. CASE (Goto(c, "output") \/ Goto(c, "cancel")) /\ mine' = [mine EXCEPT ![c] = pending.job] /\ UNCHANGED fact
    BY <1>4, <1>s, <2>1, <2>4, GotoType DEF TypeOK, Resume
  <2>5. QED
    BY <1>4, <2>2, <2>3, <2>4 DEF Resume
<1>5. ASSUME NEW c \in Calls, Cancel(c) PROVE TypeOK'
  <2>1. job' \in [Calls -> {"none", "queued", "completed", "failed"}] /\ failures' \in Nat
    BY <1>5 DEF TypeOK, Cancel
  <2>2. QED
    BY <1>5, <1>s, <2>1, GotoType DEF TypeOK, Cancel
<1>6. ASSUME NEW c \in Calls, Collect(c) PROVE TypeOK'
  <2>1. job' \in [Calls -> {"none", "queued", "completed", "failed"}] /\ failures' \in Nat
    BY <1>6 DEF TypeOK, Collect
  <2>2. CASE Goto(c, "wait") /\ mine' = [mine EXCEPT ![c] = c] /\ UNCHANGED fact
    BY <1>6, <1>s, <2>1, <2>2, GotoType DEF TypeOK, Collect
  <2>3. CASE Return(c, "error", NoFact)
    BY <1>6, <1>s, <2>1, <2>3, ReturnType DEF TypeOK, Collect
  <2>4. QED
    BY <1>6, <2>2, <2>3 DEF Collect
<1>7. ASSUME NEW c \in Calls, Wait(c) PROVE TypeOK'
  <2>1. failures' \in Nat /\ pending' \in [job : Calls \cup {None}, started : Nat]
    BY <1>7 DEF TypeOK, Wait
  <2>2. CASE Goto(c, "output") /\ UNCHANGED <<mine, fact>>
    BY <1>7, <1>s, <2>1, <2>2, GotoType DEF TypeOK, Wait
  <2>3. CASE Return(c, "pending", NoFact) \/ Return(c, "error", NoFact)
    BY <1>7, <1>s, <2>1, <2>3, ReturnType DEF TypeOK, Wait
  <2>4. QED
    BY <1>7, <2>2, <2>3 DEF Wait
<1>8. ASSUME NEW c \in Calls, Output(c) PROVE TypeOK'
  <2>1. CASE /\ fact' = [fact EXCEPT ![c] = [at |-> now, from |-> mine[c]]]
             /\ Goto(c, "write") /\ UNCHANGED mine /\ SshWorks
    <3>1. [at |-> now, from |-> mine[c]] \in Payloads
      BY <1>8 DEF TypeOK, Payloads
    <3>2. QED
      BY <1>8, <1>s, <2>1, <3>1, GotoType DEF TypeOK, Output
  <2>2. CASE (SshWorks \/ SshFails) /\ Return(c, "error", NoFact)
    BY <1>8, <1>s, <2>2, ReturnType DEF TypeOK, Output
  <2>3. QED
    BY <1>8, <2>1, <2>2 DEF Output
<1>9. ASSUME NEW c \in Calls, Write(c) PROVE TypeOK'
  <2>1. memory' \in Entries /\ file' \in Entries /\ failures' \in Nat
    BY <1>9, RememberedType, EntryType DEF TypeOK, Write
  <2>2. slowest' \in Nat
    BY <1>9 DEF TypeOK, Write, Payloads
  <2>3. QED
    BY <1>9, <1>s, <2>1, <2>2, ReturnType DEF TypeOK, Write
<1>10. ASSUME NEW c \in Calls, Abort(c) PROVE TypeOK'
  <2>1. job' \in [Calls -> {"none", "queued", "completed", "failed"}] /\ failures' \in Nat
    BY <1>10 DEF TypeOK, Abort
  <2>2. file' \in Entries
    BY <1>10, EntryType DEF TypeOK, Abort
  <2>3. QED
    BY <1>10, <1>s, <2>1, <2>2, ReturnType DEF TypeOK, Abort
<1>11. ASSUME NEW c \in Calls, JobEnds(c) PROVE TypeOK'
  BY <1>11 DEF TypeOK, JobEnds, callVars
<1>12. CASE OthersWrite
  <2>1. [at |-> now, from |-> None] \in Payloads
    BY DEF TypeOK, Payloads
  <2>2. QED
    BY <1>12, <2>1, EntryType DEF TypeOK, OthersWrite, callVars
<1>13. CASE Tick
  BY <1>13 DEF TypeOK, Tick, callVars
<1>14. CASE UNCHANGED vars
  BY <1>14 DEF TypeOK, vars, callVars
<1>15. QED
  BY <1>1, <1>2, <1>3, <1>4, <1>5, <1>6, <1>7, <1>8, <1>9, <1>10, <1>11, <1>12, <1>13, <1>14 DEF Next

\* The variables keep their types.
THEOREM TypeCorrect == Spec => []TypeOK
<1>1. QED
  BY TypeInit, TypeStep, PTL DEF Spec

-----------------------------------------------------------------------------
(* Who deals with which job.                                               *)

\* The lock serialises the calls, and a job is in the hands of one of them or
\* pending, never both.
LEMMA LockStep == TypeOK /\ LockInv /\ [Next]_vars => LockInv'
<1> SUFFICES ASSUME TypeOK, LockInv, [Next]_vars PROVE LockInv'
  OBVIOUS
<1> USE ConstantsAssumption DEF Goto, Return, Steps, Answers
<1>1. ASSUME NEW c \in Calls, Enter(c) PROVE LockInv'
  BY <1>1 DEF TypeOK, LockInv, Enter
<1>2. ASSUME NEW c \in Calls, EnterRefresh(c) PROVE LockInv'
  <2>1. pending'.job = None
    BY <1>2 DEF EnterRefresh, NoPending
  <2>2. QED
    BY <1>2, <2>1 DEF TypeOK, LockInv, EnterRefresh
<1>3. ASSUME NEW c \in Calls, ReadRemote(c) PROVE LockInv'
  BY <1>3 DEF TypeOK, LockInv, ReadRemote
<1>4. ASSUME NEW c \in Calls, Resume(c) PROVE LockInv'
  <2>1. pending' = pending \/ pending'.job = None
    BY <1>4 DEF Resume, NoPending
  <2>2. QED
    BY <1>4, <2>1 DEF TypeOK, LockInv, Resume, NoPending
<1>5. ASSUME NEW c \in Calls, Cancel(c) PROVE LockInv'
  BY <1>5 DEF TypeOK, LockInv, Cancel
<1>6. ASSUME NEW c \in Calls, Collect(c) PROVE LockInv'
  BY <1>6 DEF TypeOK, LockInv, Collect
<1>7. ASSUME NEW c \in Calls, Wait(c) PROVE LockInv'
  BY <1>7 DEF TypeOK, LockInv, Wait
<1>8. ASSUME NEW c \in Calls, Output(c) PROVE LockInv'
  BY <1>8 DEF TypeOK, LockInv, Output
<1>9. ASSUME NEW c \in Calls, Write(c) PROVE LockInv'
  BY <1>9 DEF TypeOK, LockInv, Write
<1>10. ASSUME NEW c \in Calls, Abort(c) PROVE LockInv'
  BY <1>10 DEF TypeOK, LockInv, Abort
<1>11. ASSUME NEW c \in Calls, JobEnds(c) PROVE LockInv'
  BY <1>11 DEF LockInv, JobEnds, callVars
<1>12. CASE OthersWrite
  BY <1>12 DEF LockInv, OthersWrite, callVars
<1>13. CASE Tick
  BY <1>13 DEF LockInv, Tick, callVars
<1>14. CASE UNCHANGED vars
  BY <1>14 DEF LockInv, vars, callVars
<1>15. QED
  BY <1>1, <1>2, <1>3, <1>4, <1>5, <1>6, <1>7, <1>8, <1>9, <1>10, <1>11, <1>12, <1>13, <1>14 DEF Next

\* Jobs change only where their call submits them or while they are queued.
LEMMA JobsStep == TypeOK /\ LockInv /\ JobsInv /\ [Next]_vars => JobsInv'
<1> SUFFICES ASSUME TypeOK, LockInv, JobsInv, [Next]_vars PROVE JobsInv'
  OBVIOUS
<1> USE ConstantsAssumption DEF Goto, Return, Steps, Answers, Queued
<1>1. ASSUME NEW c \in Calls, Enter(c) PROVE JobsInv'
  BY <1>1 DEF TypeOK, LockInv, JobsInv, Enter
<1>2. ASSUME NEW c \in Calls, EnterRefresh(c) PROVE JobsInv'
  BY <1>2 DEF TypeOK, LockInv, JobsInv, EnterRefresh
<1>3. ASSUME NEW c \in Calls, ReadRemote(c) PROVE JobsInv'
  BY <1>3 DEF TypeOK, LockInv, JobsInv, ReadRemote
<1>4. ASSUME NEW c \in Calls, Resume(c) PROVE JobsInv'
  BY <1>4 DEF TypeOK, LockInv, JobsInv, Resume
<1>5. ASSUME NEW c \in Calls, Cancel(c) PROVE JobsInv'
  BY <1>5 DEF TypeOK, LockInv, JobsInv, Cancel
<1>6. ASSUME NEW c \in Calls, Collect(c) PROVE JobsInv'
  BY <1>6 DEF TypeOK, LockInv, JobsInv, Collect
<1>7. ASSUME NEW c \in Calls, Wait(c) PROVE JobsInv'
  BY <1>7 DEF TypeOK, LockInv, JobsInv, Wait
<1>8. ASSUME NEW c \in Calls, Output(c) PROVE JobsInv'
  BY <1>8 DEF TypeOK, LockInv, JobsInv, Output
<1>9. ASSUME NEW c \in Calls, Write(c) PROVE JobsInv'
  BY <1>9 DEF TypeOK, LockInv, JobsInv, Write
<1>10. ASSUME NEW c \in Calls, Abort(c) PROVE JobsInv'
  BY <1>10 DEF TypeOK, LockInv, JobsInv, Abort
<1>11. ASSUME NEW c \in Calls, JobEnds(c) PROVE JobsInv'
  BY <1>11 DEF TypeOK, JobsInv, JobEnds, callVars
<1>12. CASE OthersWrite
  BY <1>12 DEF JobsInv, OthersWrite, callVars
<1>13. CASE Tick
  BY <1>13 DEF JobsInv, Tick, callVars
<1>14. CASE UNCHANGED vars
  BY <1>14 DEF JobsInv, vars, callVars
<1>15. QED
  BY <1>1, <1>2, <1>3, <1>4, <1>5, <1>6, <1>7, <1>8, <1>9, <1>10, <1>11, <1>12, <1>13, <1>14 DEF Next

-----------------------------------------------------------------------------
(* Duplicates.                                                             *)

Forgotten == Queued \ Known

LEMMA AddOne ==
    ASSUME NEW S, IsFiniteSet(S), NEW x
    PROVE  /\ IsFiniteSet(S \cup {x})
           /\ Cardinality(S \cup {x}) \in Nat
           /\ Cardinality(S \cup {x}) <= Cardinality(S) + 1
<1>1. Cardinality(S) \in Nat
  BY FS_CardinalityType
<1>2. IsFiniteSet(S \cup {x}) /\ Cardinality(S \cup {x}) <= Cardinality(S) + 1
  BY <1>1, FS_AddElement
<1>3. QED
  BY <1>2, FS_CardinalityType

\* A step may lose sight of one queued job if it counts a failure.
LEMMA CountForgotten ==
    ASSUME TypeOK, TypeOK', ForgottenInv,
           \/ Forgotten' \subseteq Forgotten /\ failures' >= failures
           \/ \E x : Forgotten' \subseteq Forgotten \cup {x} /\ failures' = failures + 1
    PROVE  ForgottenInv'
<1>1. IsFiniteSet(Forgotten) /\ IsFiniteSet(Forgotten')
  BY ConstantsAssumption, FS_Subset DEF Forgotten, Queued
<1>2. Cardinality(Forgotten) \in Nat /\ Cardinality(Forgotten') \in Nat
  BY <1>1, FS_CardinalityType
<1>3. CASE Forgotten' \subseteq Forgotten /\ failures' >= failures
  <2>1. Cardinality(Forgotten') <= Cardinality(Forgotten)
    BY <1>1, <1>3, FS_Subset
  <2>2. QED
    BY <1>2, <1>3, <2>1 DEF ForgottenInv, Forgotten, TypeOK
<1>4. ASSUME NEW x, Forgotten' \subseteq Forgotten \cup {x}, failures' = failures + 1
      PROVE  ForgottenInv'
  <2>1. /\ IsFiniteSet(Forgotten \cup {x})
        /\ Cardinality(Forgotten \cup {x}) \in Nat
        /\ Cardinality(Forgotten \cup {x}) <= Cardinality(Forgotten) + 1
    BY <1>1, AddOne
  <2>2. Cardinality(Forgotten') <= Cardinality(Forgotten \cup {x})
    BY <1>4, <2>1, FS_Subset
  <2>3. QED
    BY <1>2, <1>4, <2>1, <2>2 DEF ForgottenInv, Forgotten, TypeOK
<1>5. QED
  BY <1>3, <1>4

\* Each action either keeps sight of the queued jobs it knew, or counts a failure.
LEMMA ForgottenStep ==
    TypeOK /\ TypeOK' /\ LockInv /\ JobsInv /\ ForgottenInv /\ [Next]_vars => ForgottenInv'
<1> SUFFICES ASSUME TypeOK, TypeOK', LockInv, JobsInv, ForgottenInv, [Next]_vars
             PROVE  ForgottenInv'
  OBVIOUS
<1> USE ConstantsAssumption DEF Goto, Return, SshFails, SshWorks
<1>a. failures \in Nat
  BY DEF TypeOK
<1>1. ASSUME NEW c \in Calls, Enter(c) PROVE ForgottenInv'
  BY <1>1, <1>a, CountForgotten DEF Enter, Forgotten, Known, Queued
<1>2. ASSUME NEW c \in Calls, EnterRefresh(c) PROVE ForgottenInv'
  <2>1. Forgotten' \subseteq Forgotten
    BY <1>2 DEF TypeOK, LockInv, EnterRefresh, Forgotten, Known, Queued
  <2>2. QED
    BY <1>2, <1>a, <2>1, CountForgotten DEF EnterRefresh
<1>3. ASSUME NEW c \in Calls, ReadRemote(c) PROVE ForgottenInv'
  <2>1. Forgotten' \subseteq Forgotten
    BY <1>3 DEF TypeOK, LockInv, ReadRemote, Forgotten, Known, Queued
  <2>2. failures' >= failures
    BY <1>3, <1>a DEF ReadRemote
  <2>3. QED
    BY <2>1, <2>2, CountForgotten
<1>4. ASSUME NEW c \in Calls, Resume(c) PROVE ForgottenInv'
  <2>1. CASE SshFails
    <3>1. Forgotten' \subseteq Forgotten \cup {pending.job}
      BY <1>4, <2>1 DEF TypeOK, LockInv, Resume, Forgotten, Known, Queued
    <3>2. QED
      BY <2>1, <3>1, CountForgotten
  <2>2. CASE SshWorks
    <3>1. Forgotten' \subseteq Forgotten
      BY <1>4, <1>a, <2>2 DEF TypeOK, LockInv, Resume, Forgotten, Known, Queued
    <3>2. QED
      BY <1>a, <2>2, <3>1, CountForgotten
  <2>3. QED
    BY <1>4, <2>1, <2>2 DEF Resume
<1>5. ASSUME NEW c \in Calls, Cancel(c) PROVE ForgottenInv'
  <2>1. CASE SshFails
    <3>1. Forgotten' \subseteq Forgotten \cup {mine[c]}
      BY <1>5, <1>a, <2>1 DEF TypeOK, LockInv, Cancel, Forgotten, Known, Queued
    <3>2. QED
      BY <2>1, <3>1, CountForgotten
  <2>2. CASE SshWorks /\ job' = [job EXCEPT ![mine[c]] = IF @ = "queued" THEN "failed" ELSE @]
    <3>1. Forgotten' \subseteq Forgotten
      BY <1>5, <1>a, <2>2 DEF TypeOK, LockInv, Cancel, Forgotten, Known, Queued
    <3>2. QED
      BY <1>a, <2>2, <3>1, CountForgotten
  <2>3. QED
    BY <1>5, <2>1, <2>2 DEF Cancel
<1>6. ASSUME NEW c \in Calls, Collect(c) PROVE ForgottenInv'
  <2>1. CASE SshFails
    <3>1. Forgotten' \subseteq Forgotten \cup {c}
      BY <1>6, <1>a, <2>1 DEF TypeOK, LockInv, Collect, Forgotten, Known, Queued
    <3>2. QED
      BY <2>1, <3>1, CountForgotten
  <2>2. CASE SshWorks
    <3>1. Forgotten' \subseteq Forgotten
      BY <1>6, <1>a, <2>2 DEF TypeOK, LockInv, Collect, Forgotten, Known, Queued
    <3>2. QED
      BY <1>a, <2>2, <3>1, CountForgotten
  <2>3. QED
    BY <1>6, <2>1, <2>2 DEF Collect
<1>7. ASSUME NEW c \in Calls, Wait(c) PROVE ForgottenInv'
  <2>1. CASE SshFails
    <3>1. Forgotten' \subseteq Forgotten \cup {c}
      BY <1>7, <1>a, <2>1 DEF TypeOK, LockInv, Wait, Forgotten, Known, Queued
    <3>2. QED
      BY <2>1, <3>1, CountForgotten
  <2>2. CASE SshWorks
    <3>1. Forgotten' \subseteq Forgotten
      BY <1>7, <1>a, <2>2 DEF TypeOK, LockInv, Wait, Forgotten, Known, Queued
    <3>2. QED
      BY <1>a, <2>2, <3>1, CountForgotten
  <2>3. QED
    BY <1>7, <2>1, <2>2 DEF Wait
<1>8. ASSUME NEW c \in Calls, Output(c) PROVE ForgottenInv'
  <2>1. Forgotten' \subseteq Forgotten
    BY <1>8 DEF TypeOK, JobsInv, Output, Forgotten, Known, Queued
  <2>2. failures' >= failures
    BY <1>8, <1>a DEF Output
  <2>3. QED
    BY <2>1, <2>2, CountForgotten
<1>9. ASSUME NEW c \in Calls, Write(c) PROVE ForgottenInv'
  <2>1. Forgotten' \subseteq Forgotten
    BY <1>9 DEF TypeOK, JobsInv, Write, Forgotten, Known, Queued
  <2>2. failures' >= failures
    BY <1>9, <1>a DEF Write
  <2>3. QED
    BY <2>1, <2>2, CountForgotten
<1>10. ASSUME NEW c \in Calls, Abort(c) PROVE ForgottenInv'
  <2>1. CASE pc[c] = "collect"
    <3>1. Forgotten' \subseteq Forgotten \cup {c}
      BY <1>10, <2>1 DEF TypeOK, LockInv, Abort, Forgotten, Known, Queued
    <3>2. QED
      BY <1>10, <3>1, CountForgotten DEF Abort
  <2>2. CASE pc[c] # "collect"
    <3>1. Forgotten' \subseteq Forgotten \cup {mine[c]}
      BY <1>10, <2>2 DEF TypeOK, LockInv, Abort, Forgotten, Known, Queued
    <3>2. QED
      BY <1>10, <3>1, CountForgotten DEF Abort
  <2>3. QED
    BY <2>1, <2>2
<1>11. ASSUME NEW c \in Calls, JobEnds(c) PROVE ForgottenInv'
  <2>1. Forgotten' \subseteq Forgotten
    BY <1>11 DEF TypeOK, JobEnds, callVars, Forgotten, Known, Queued
  <2>2. QED
    BY <1>11, <1>a, <2>1, CountForgotten DEF JobEnds
<1>12. CASE OthersWrite
  BY <1>12 DEF ForgottenInv, OthersWrite, callVars, Known, Queued
<1>13. CASE Tick
  BY <1>13 DEF ForgottenInv, Tick, callVars, Known, Queued
<1>14. CASE UNCHANGED vars
  BY <1>14 DEF ForgottenInv, vars, callVars, Known, Queued
<1>15. QED
  BY <1>1, <1>2, <1>3, <1>4, <1>5, <1>6, <1>7, <1>8, <1>9, <1>10, <1>11, <1>12, <1>13, <1>14 DEF Next

-----------------------------------------------------------------------------
(* Where facts come from, and how old they are.                            *)

\* A completed job stays completed.
LEMMA CompletedStays ==
    ASSUME TypeOK, JobsInv, [Next]_vars, NEW j \in Calls, job[j] = "completed"
    PROVE  job'[j] = "completed"
  BY DEF TypeOK, JobsInv, Next, vars, callVars, Enter, EnterRefresh, ReadRemote, Resume,
         Cancel, Collect, Wait, Output, Write, Abort, JobEnds, OthersWrite, Tick, Steps

\* The session cache holds what it held, nothing, or what it is told to remember.
LEMMA RememberedFact ==
    ASSUME NEW f
    PROVE  Remembered(f) = memory \/ Remembered(f).fact = f
  BY DEF Remembered, Entry

LEMMA FactSource == TypeOK => \A f \in Payloads : f.from \in Calls \cup {None}
  BY DEF Payloads

\* Every action hands payloads on as they are, except Output, whose job has completed.
LEMMA FactStep == TypeOK /\ LockInv /\ JobsInv /\ FactInv /\ [Next]_vars => FactInv'
<1> SUFFICES ASSUME TypeOK, LockInv, JobsInv, FactInv, [Next]_vars PROVE FactInv'
  OBVIOUS
<1> DEFINE Good(f) == f.from # None => job[f.from] = "completed"
           Kept(f) == f.from # None => job'[f.from] = "completed"
<1>a. \A f \in Payloads : Good(f) => Kept(f)
  BY CompletedStays, FactSource
<1>b. /\ memory.fact \in Payloads /\ Kept(memory.fact)
      /\ file.fact \in Payloads /\ Kept(file.fact)
      /\ \A c \in Calls : fact[c] \in Payloads /\ Kept(fact[c])
  BY <1>a, FactType DEF FactInv
<1>n. Kept(NoFact) /\ Kept(Absent.fact)
  BY DEF NoFact, Absent
<1> HIDE DEF Good, Kept
\* What FactInv says of payloads, and what it says of refreshing calls.
<1>p. ASSUME \A c \in Calls : Kept(fact'[c]), Kept(memory'.fact), Kept(file'.fact),
             \A c \in Calls :
                /\ refresh'[c] = "yes" =>
                      /\ pc'[c] \notin {"remote", "resume", "session-cache", "remote-cache"}
                      /\ pc'[c] \in {"output", "write"} => mine'[c] = c
                /\ pc'[c] = "write" => fact'[c].from = mine'[c]
                /\ pc'[c] = "probe-job" /\ refresh'[c] = "yes" => fact'[c].from = c
      PROVE  FactInv'
  BY <1>p DEF FactInv, Kept
<1> USE DEF Goto, Return
<1>1. ASSUME NEW c \in Calls, Enter(c) PROVE FactInv'
  <2>1. \A d \in Calls : Kept(fact'[d])
    BY <1>1, <1>b, <1>n DEF TypeOK, Enter
  <2>2. Kept(memory'.fact) /\ Kept(file'.fact)
    BY <1>1, <1>b, <1>n, RememberedFact DEF TypeOK, Enter
  <2>3. QED
    BY <1>1, <1>p, <2>1, <2>2 DEF TypeOK, LockInv, FactInv, Enter, Steps
<1>2. ASSUME NEW c \in Calls, EnterRefresh(c) PROVE FactInv'
  <2>1. \A d \in Calls : Kept(fact'[d])
    BY <1>2, <1>b, <1>n DEF TypeOK, EnterRefresh
  <2>2. Kept(memory'.fact) /\ Kept(file'.fact)
    BY <1>2, <1>b, <1>n, RememberedFact DEF TypeOK, EnterRefresh
  <2>3. QED
    BY <1>2, <1>p, <2>1, <2>2 DEF TypeOK, LockInv, FactInv, EnterRefresh, Steps
<1>3. ASSUME NEW c \in Calls, ReadRemote(c) PROVE FactInv'
  <2>1. \A d \in Calls : Kept(fact'[d])
    BY <1>3, <1>b, <1>n DEF TypeOK, ReadRemote
  <2>2. Kept(memory'.fact) /\ Kept(file'.fact)
    BY <1>3, <1>b, <1>n, RememberedFact DEF TypeOK, ReadRemote
  <2>3. QED
    BY <1>3, <1>p, <2>1, <2>2 DEF TypeOK, LockInv, FactInv, ReadRemote, Steps
<1>4. ASSUME NEW c \in Calls, Resume(c) PROVE FactInv'
  <2>1. \A d \in Calls : Kept(fact'[d])
    BY <1>4, <1>b, <1>n DEF TypeOK, Resume
  <2>2. Kept(memory'.fact) /\ Kept(file'.fact)
    BY <1>4, <1>b, <1>n, RememberedFact DEF TypeOK, Resume
  <2>3. QED
    BY <1>4, <1>p, <2>1, <2>2 DEF TypeOK, LockInv, FactInv, Resume, Steps
<1>5. ASSUME NEW c \in Calls, Cancel(c) PROVE FactInv'
  <2>1. \A d \in Calls : Kept(fact'[d])
    BY <1>5, <1>b, <1>n DEF TypeOK, Cancel
  <2>2. Kept(memory'.fact) /\ Kept(file'.fact)
    BY <1>5, <1>b, <1>n, RememberedFact DEF TypeOK, Cancel
  <2>3. QED
    BY <1>5, <1>p, <2>1, <2>2 DEF TypeOK, LockInv, FactInv, Cancel, Steps
<1>6. ASSUME NEW c \in Calls, Collect(c) PROVE FactInv'
  <2>1. \A d \in Calls : Kept(fact'[d])
    BY <1>6, <1>b, <1>n DEF TypeOK, Collect
  <2>2. Kept(memory'.fact) /\ Kept(file'.fact)
    BY <1>6, <1>b, <1>n, RememberedFact DEF TypeOK, Collect
  <2>3. QED
    BY <1>6, <1>p, <2>1, <2>2 DEF TypeOK, LockInv, FactInv, Collect, Steps
<1>7. ASSUME NEW c \in Calls, Wait(c) PROVE FactInv'
  <2>1. \A d \in Calls : Kept(fact'[d])
    BY <1>7, <1>b, <1>n DEF TypeOK, Wait
  <2>2. Kept(memory'.fact) /\ Kept(file'.fact)
    BY <1>7, <1>b, <1>n, RememberedFact DEF TypeOK, Wait
  <2>3. QED
    BY <1>7, <1>p, <2>1, <2>2 DEF TypeOK, LockInv, FactInv, Wait, Steps
<1>8. ASSUME NEW c \in Calls, Output(c) PROVE FactInv'
  <2>1. \A d \in Calls : Kept(fact'[d])
    <3>1. CASE job[mine[c]] = "completed" /\ fact' = [fact EXCEPT ![c] = [at |-> now, from |-> mine[c]]]
      <4>1. Kept([at |-> now, from |-> mine[c]])
        BY <1>8, <3>1 DEF Output, Kept
      <4>2. QED
        BY <1>b, <3>1, <4>1 DEF TypeOK
    <3>2. CASE Return(c, "error", NoFact)
      BY <1>b, <1>n, <3>2 DEF TypeOK
    <3>3. QED
      BY <1>8, <3>1, <3>2 DEF Output
  <2>2. Kept(memory'.fact) /\ Kept(file'.fact)
    BY <1>8, <1>b, <1>n, RememberedFact DEF TypeOK, Output
  <2>3. QED
    BY <1>8, <1>p, <2>1, <2>2 DEF TypeOK, LockInv, FactInv, Output, Steps
<1>9. ASSUME NEW c \in Calls, Write(c) PROVE FactInv'
  <2>1. \A d \in Calls : Kept(fact'[d])
    BY <1>9, <1>b, <1>n DEF TypeOK, Write
  <2>2. Kept(memory'.fact) /\ Kept(file'.fact)
    BY <1>9, <1>b, <1>n, RememberedFact DEF TypeOK, Write, Entry
  <2>3. QED
    BY <1>9, <1>p, <2>1, <2>2 DEF TypeOK, LockInv, FactInv, Write, Steps
<1>10. ASSUME NEW c \in Calls, Abort(c) PROVE FactInv'
  <2>1. \A d \in Calls : Kept(fact'[d])
    BY <1>10, <1>b, <1>n DEF TypeOK, Abort
  <2>2. Kept(memory'.fact) /\ Kept(file'.fact)
    BY <1>10, <1>b, <1>n, RememberedFact DEF TypeOK, Abort, Entry
  <2>3. QED
    BY <1>10, <1>p, <2>1, <2>2 DEF TypeOK, LockInv, FactInv, Abort, Steps
<1>11. ASSUME NEW c \in Calls, JobEnds(c) PROVE FactInv'
  <2>1. \A d \in Calls : Kept(fact'[d])
    BY <1>11, <1>b, <1>n DEF TypeOK, JobEnds, callVars
  <2>2. Kept(memory'.fact) /\ Kept(file'.fact)
    BY <1>11, <1>b, <1>n, RememberedFact DEF TypeOK, JobEnds, callVars
  <2>3. QED
    BY <1>11, <1>p, <2>1, <2>2 DEF TypeOK, LockInv, FactInv, JobEnds, Steps, callVars
<1>12. CASE OthersWrite
  <2>1. Kept(file'.fact)
    BY <1>12 DEF OthersWrite, Entry, Kept
  <2>2. QED
    BY <1>12, <1>b, <1>p, <2>1 DEF FactInv, OthersWrite, callVars
<1>13. CASE Tick
  BY <1>13, <1>b, <1>p DEF FactInv, Tick, callVars
<1>14. CASE UNCHANGED vars
  BY <1>14, <1>b, <1>p DEF FactInv, vars, callVars
<1>15. QED
  BY <1>1, <1>2, <1>3, <1>4, <1>5, <1>6, <1>7, <1>8, <1>9, <1>10, <1>11, <1>12, <1>13, <1>14 DEF Next

\* The session cache is filled with facts that are new but for the time the
\* write took, or with those of the shared file, which are one TTL old at most.
LEMMA AgeStep == TypeOK /\ AgeInv /\ [Next]_vars => AgeInv'
<1> SUFFICES ASSUME TypeOK, AgeInv, [Next]_vars PROVE AgeInv'
  OBVIOUS
<1>a. now \in Nat /\ slowest \in Nat /\ Ttl \in Nat
  BY ConstantsAssumption DEF TypeOK
<1>b. /\ memory.at \in Nat /\ memory.fact.at \in Nat
      /\ file.fact.at \in Nat
      /\ \A c \in Calls : fact[c].at \in Nat
  BY FactType DEF TypeOK, Entries, Payloads
<1>1. ASSUME NEW c \in Calls, ReadRemote(c) PROVE AgeInv'
  <2>1. CASE RemoteHit /\ memory' = Remembered(file.fact)
    <3>1. memory' = Entry(now, file.fact) /\ now - file.fact.at <= Ttl
      BY <1>a, <2>1 DEF RemoteHit, Within, Remembered
    <3>2. now <= file.fact.at + Ttl + slowest
      BY <1>a, <1>b, <3>1
    <3>3. slowest' = slowest
      BY <1>1 DEF ReadRemote
    <3>4. memory'.at = now /\ memory'.fact = file.fact
      BY <3>1 DEF Entry
    <3>5. QED
      BY <3>2, <3>3, <3>4 DEF AgeInv
  <2>2. QED
    BY <1>1, <2>1 DEF AgeInv, ReadRemote
<1>2. ASSUME NEW c \in Calls, Write(c) PROVE AgeInv'
  <2>1. slowest' >= slowest /\ slowest' >= now - fact[c].at /\ slowest' \in Int
    BY <1>2, <1>a, <1>b DEF Write
  <2>2. CASE Ttl = 0
    <3>1. memory' = memory
      BY <1>2, <2>2 DEF Write, Remembered
    <3>2. QED
      BY <1>a, <1>b, <2>1, <3>1 DEF AgeInv
  <2>3. CASE Ttl # 0
    <3>1. memory'.at = now /\ memory'.fact = fact[c]
      BY <1>2, <2>3 DEF Write, Remembered, Entry
    <3>2. now <= fact[c].at + Ttl + slowest'
      BY <1>a, <1>b, <2>1
    <3>3. QED
      BY <3>1, <3>2 DEF AgeInv
  <2>4. QED
    BY <2>2, <2>3
<1>3. ASSUME NEW c \in Calls, Enter(c) PROVE AgeInv'
  BY <1>3 DEF AgeInv, Enter, Absent
<1>4. ASSUME NEW c \in Calls,
             \/ EnterRefresh(c) \/ Resume(c) \/ Cancel(c) \/ Collect(c) \/ Wait(c)
             \/ Output(c) \/ Abort(c) \/ JobEnds(c)
      PROVE  AgeInv'
  BY <1>4 DEF AgeInv, EnterRefresh, Resume, Cancel, Collect, Wait, Output, Abort, JobEnds
<1>5. CASE OthersWrite \/ Tick \/ UNCHANGED vars
  BY <1>5 DEF AgeInv, OthersWrite, Tick, vars
<1>6. QED
  BY <1>1, <1>2, <1>3, <1>4, <1>5 DEF Next

-----------------------------------------------------------------------------
(* The theorems.                                                           *)

LEMMA InitInv == Init => IInv
<1> SUFFICES ASSUME Init PROVE IInv
  OBVIOUS
<1>1. TypeOK
  BY TypeInit
<1>2. LockInv /\ JobsInv
  BY ConstantsAssumption DEF Init, LockInv, JobsInv, Steps, Queued, NoPending
<1>3. Queued \ Known = {}
  BY DEF Init, Queued
<1>4. ForgottenInv
  BY <1>3, FS_EmptySet DEF Init, ForgottenInv
<1>5. FactInv /\ AgeInv
  BY DEF Init, FactInv, AgeInv, NoFact, Absent
<1>6. QED
  BY <1>1, <1>2, <1>4, <1>5 DEF IInv

LEMMA StepInv == IInv /\ [Next]_vars => IInv'
<1> SUFFICES ASSUME IInv, [Next]_vars PROVE IInv'
  OBVIOUS
<1>1. TypeOK'
  BY TypeStep DEF IInv
<1>2. QED
  BY <1>1, LockStep, JobsStep, ForgottenStep, FactStep, AgeStep DEF IInv

\* The inductive invariant holds for any number of calls and failures and for
\* any time limits, with or without submits that leave their job behind.
THEOREM Invariance == Spec => []IInv
<1>1. QED
  BY InitInv, StepInv, PTL DEF Spec

\* The service knows of one queued job at most, pending or in the hands of the
\* call that holds the lock.
LEMMA OneKnown ==
    ASSUME TypeOK, LockInv
    PROVE  \E x : Queued \subseteq (Queued \ Known) \cup {x}
<1>1. CASE pending.job # None
  <2>1. \A c \in Calls : mine[c] = None
    BY <1>1 DEF LockInv
  <2>2. \A x \in Queued : x \in Known => x = pending.job
    BY <2>1, ConstantsAssumption DEF Known, Queued
  <2>3. QED
    BY <2>2
<1>2. CASE pending.job = None
  <2>1. \A c \in Calls : mine[c] # None => c = lock
    BY DEF LockInv, Steps
  <2>2. \A x \in Queued : x \in Known => x = mine[lock]
    BY <1>2, <2>1, ConstantsAssumption DEF Known, Queued
  <2>3. QED
    BY <2>2
<1>3. QED
  BY <1>1, <1>2

\* A waiting probe is reused or cancelled rather than duplicated: probe jobs
\* queued at once beyond the first are outnumbered by failed ssh calls and
\* cancelled requests.
THEOREM DuplicatesBounded == Spec => []DuplicatesNeedFailures
<1>1. IInv => DuplicatesNeedFailures
  <2> SUFFICES ASSUME IInv PROVE DuplicatesNeedFailures
    OBVIOUS
  <2>1. PICK x : Queued \subseteq Forgotten \cup {x}
    BY OneKnown DEF IInv, Forgotten
  <2>2. /\ IsFiniteSet(Forgotten) /\ IsFiniteSet(Queued)
        /\ Cardinality(Forgotten) \in Nat
    BY ConstantsAssumption, FS_Subset, FS_CardinalityType DEF Queued, Forgotten
  <2>3. /\ IsFiniteSet(Forgotten \cup {x})
        /\ Cardinality(Forgotten \cup {x}) \in Nat
        /\ Cardinality(Forgotten \cup {x}) <= Cardinality(Forgotten) + 1
    BY <2>2, AddOne
  <2>4. Cardinality(Queued) <= Cardinality(Forgotten \cup {x})
    BY <2>1, <2>3, FS_Subset
  <2>5. /\ Cardinality(Queued) \in Nat /\ Cardinality(Forgotten) \in Nat
        /\ Cardinality(Forgotten \cup {x}) \in Nat
    BY <2>2, <2>3, FS_CardinalityType
  <2>6. Cardinality(Forgotten) <= failures /\ failures \in Nat
    BY DEF IInv, TypeOK, ForgottenInv, Forgotten
  <2>7. QED
    BY <2>3, <2>4, <2>5, <2>6 DEF DuplicatesNeedFailures
<1>2. QED
  BY <1>1, Invariance, PTL

\* A refresh answers with the facts of the job it has submitted itself.
THEOREM RefreshAnswersAreNew == Spec => []RefreshIsNew
<1>1. IInv => RefreshIsNew
  BY DEF IInv, FactInv, RefreshIsNew
<1>2. QED
  BY <1>1, Invariance, PTL

\* Facts that are served or cached never come from a failed or cancelled job.
THEOREM FactsComeFromCompletedJobs == Spec => []FactsOfCompletedJobs
<1>1. IInv => FactsOfCompletedJobs
  BY DEF IInv, FactInv, FactsOfCompletedJobs
<1>2. QED
  BY <1>1, Invariance, PTL

\* The facts the session cache serves are at most two TTLs old, and the
\* longest time facts have taken to be cached.
THEOREM FactsAgeBounded == Spec => CachedFactsAge
<1>1. ASSUME IInv, [Next]_vars, NEW c \in Calls, pc[c] = "idle", pc'[c] = "session-cache"
      PROVE  now <= fact'[c].at + 2 * Ttl + slowest
  <2>1. Enter(c) /\ SessionHit
    BY <1>1 DEF IInv, TypeOK, Next, vars, callVars, Enter, EnterRefresh, ReadRemote, Resume,
           Cancel, Collect, Wait, Output, Write, Abort, JobEnds, OthersWrite, Tick, Steps,
           Goto, Return
  <2>2. fact'[c] = memory.fact
    BY <1>1, <2>1 DEF IInv, TypeOK, Enter
  <2>3. memory.here = "yes" /\ now - memory.at <= Ttl
    BY <2>1 DEF SessionHit, Within
  <2>4. memory.at <= memory.fact.at + Ttl + slowest
    BY <1>1, <2>3 DEF IInv, AgeInv
  <2>5. /\ now \in Nat /\ slowest \in Nat /\ Ttl \in Nat
        /\ memory.at \in Nat /\ memory.fact.at \in Nat
    BY <1>1, ConstantsAssumption DEF IInv, TypeOK, Entries, Payloads
  <2>6. QED
    BY <2>2, <2>3, <2>4, <2>5
<1>2. IInv /\ [Next]_vars => [\A c \in Calls : pc[c] = "idle" /\ pc'[c] = "session-cache" =>
          now <= fact'[c].at + 2 * Ttl + slowest]_vars
  BY <1>1
<1>3. QED
  BY <1>2, Invariance, PTL DEF Spec, CachedFactsAge

=============================================================================

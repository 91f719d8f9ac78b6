---------------------------- MODULE SubmitProofs ----------------------------
(***************************************************************************)
(* Proofs about Submit, for any number of calls, of earlier jobs and of    *)
(* slots.  What a caller is told is right under every fault of the model;  *)
(* the ceiling needs scancel to work, requests not to be cancelled and     *)
(* the registry to be readable (CeilingFaults).                            *)
(***************************************************************************)
EXTENDS Submit, FiniteSetTheorems, TLAPS

-----------------------------------------------------------------------------
(* Types.                                                                  *)

\* What squeue answers is a pair of sets of jobs.
LEMMA AnswerType ==
    ASSUME NEW jobs \in SUBSET Jobs, NEW shown \in SUBSET jobs, NEW ok \in {"yes", "no"}
    PROVE  [ok |-> ok, active |-> Live(shown), ended |-> shown \ Live(shown)]
               \in [ok : {"yes", "no"}, active : SUBSET Jobs, ended : SUBSET Jobs]
  BY DEF Live

LEMMA NoAnswerType ==
    NoAnswer \in [ok : {"yes", "no"}, active : SUBSET Jobs, ended : SUBSET Jobs]
  BY DEF NoAnswer

\* Ending a call, and going on with it, keep the types of the call's state.
LEMMA ReturnType ==
    ASSUME TypeOK, NEW c \in Calls, NEW answer \in Answers, Return(c, answer)
    PROVE  /\ lock' \in Calls \cup {None}
           /\ pc' \in [Calls -> {"idle"} \cup Steps \cup Answers]
           /\ ids' \in [Calls -> SUBSET Jobs]
           /\ queue' \in [Calls -> [ok : {"yes", "no"}, active : SUBSET Jobs, ended : SUBSET Jobs]]
  <1>1. queue' \in [Calls -> [ok : {"yes", "no"}, active : SUBSET Jobs, ended : SUBSET Jobs]]
    BY NoAnswerType DEF TypeOK, Return
  <1>2. QED
    BY <1>1 DEF TypeOK, Return

\* Each action keeps the types.
LEMMA TypeStep == TypeOK /\ [Next]_vars => TypeOK'
<1> SUFFICES ASSUME TypeOK, [Next]_vars PROVE TypeOK'
  OBVIOUS
<1> USE DEF Continue, ledgerVars, Steps, Answers
<1>1. ASSUME NEW c \in Calls, Begin(c) PROVE TypeOK'
  BY <1>1 DEF TypeOK, Begin
<1>2. ASSUME NEW c \in Calls, Invalid(c) PROVE TypeOK'
  BY <1>2, ReturnType DEF TypeOK, Invalid
<1>3. ASSUME NEW c \in Calls, Lost(c) PROVE TypeOK'
  BY <1>3, ReturnType DEF TypeOK, Lost
<1>4. ASSUME NEW c \in Calls, ReadIds(c) PROVE TypeOK'
  BY <1>4 DEF TypeOK, ReadIds, TrackedRead
<1>5. ASSUME NEW c \in Calls, AskSqueue(c) PROVE TypeOK'
  <2>1. PICK shown \in SUBSET ids[c], ok \in {"yes", "no"} :
           queue' = [queue EXCEPT ![c] =
               [ok |-> ok, active |-> Live(shown), ended |-> shown \ Live(shown)]]
    BY <1>5 DEF AskSqueue
  <2>2. ids[c] \in SUBSET Jobs
    BY <1>5 DEF TypeOK
  <2>3. queue' \in [Calls -> [ok : {"yes", "no"}, active : SUBSET Jobs, ended : SUBSET Jobs]]
    BY <2>1, <2>2, AnswerType DEF TypeOK
  <2>4. QED
    BY <1>5, <2>3 DEF TypeOK, AskSqueue
<1>6. ASSUME NEW c \in Calls, ReadMine(c) PROVE TypeOK'
  BY <1>6 DEF TypeOK, ReadMine, TrackedRead
<1>7. ASSUME NEW c \in Calls, Count(c) PROVE TypeOK'
  <2>1. UNCHANGED <<slurm, ledgerVars>>
    BY <1>7 DEF Count
  <2>2. CASE Return(c, "denied")
    BY <2>1, <2>2, ReturnType DEF TypeOK
  <2>3. CASE /\ Continue(c, "sbatch")
             /\ ids' = [ids EXCEPT ![c] = {}]
             /\ queue' = [queue EXCEPT ![c] = NoAnswer]
    <3>1. queue' \in [Calls -> [ok : {"yes", "no"}, active : SUBSET Jobs, ended : SUBSET Jobs]]
      BY <2>3, NoAnswerType DEF TypeOK
    <3>2. QED
      BY <2>1, <2>3, <3>1 DEF TypeOK
  <2>4. QED
    BY <1>7, <2>2, <2>3 DEF Count
<1>8. ASSUME NEW c \in Calls, Sbatch(c) PROVE TypeOK'
  BY <1>8 DEF TypeOK, Sbatch, Jobs
<1>9. ASSUME NEW c \in Calls, SbatchFails(c) PROVE TypeOK'
  <2>1. slurm' \in [Jobs -> {"none", "live", "ended", "cancelled"}]
    BY <1>9 DEF TypeOK, SbatchFails, Jobs
  <2>2. QED
    BY <1>9, <2>1, ReturnType DEF TypeOK, SbatchFails
<1>10. ASSUME NEW c \in Calls, Verify(c) PROVE TypeOK'
  BY <1>10, ReturnType DEF TypeOK, Verify
<1>11. ASSUME NEW c \in Calls, VerifyByAccount(c) PROVE TypeOK'
  BY <1>11, ReturnType DEF TypeOK, VerifyByAccount
<1>12. ASSUME NEW c \in Calls, Prepare(c) PROVE TypeOK'
  BY <1>12 DEF TypeOK, Prepare, Ledger!Start
<1>13. ASSUME NEW c \in Calls, Registered(c) PROVE TypeOK'
  BY <1>13, ReturnType DEF TypeOK, Registered, Ledger!Confirm
<1>14. ASSUME NEW c \in Calls, NotRegistered(c) PROVE TypeOK'
  BY <1>14 DEF TypeOK, NotRegistered, Ledger!Refuse, Ledger!LoseTouch
<1>15. ASSUME NEW c \in Calls, Rollback(c) PROVE TypeOK'
  <2>1. slurm' \in [Jobs -> {"none", "live", "ended", "cancelled"}]
    BY <1>15 DEF TypeOK, Rollback, Scancel, Jobs
  <2>2. QED
    BY <1>15, <2>1, ReturnType DEF TypeOK, Rollback
<1>16. ASSUME NEW c \in Calls, Abort(c) PROVE TypeOK'
  <2>1. slurm' \in [Jobs -> {"none", "live", "ended", "cancelled"}]
    BY <1>16 DEF TypeOK, Abort, Scancel, Jobs
  <2>2. entries' \in SUBSET Jobs /\ outcome' \in [Calls -> {"idle", "pending", "ok", "refused", "unknown"}]
    BY <1>16 DEF TypeOK, Abort, Ledger!LoseTouch
  <2>3. QED
    BY <1>16, <2>1, <2>2, ReturnType DEF TypeOK, Abort
<1>17. ASSUME NEW c \in Calls, Recorded(c) PROVE TypeOK'
  BY <1>17 DEF TypeOK, Recorded, Ledger!Record, callVars, Jobs
<1>18. ASSUME NEW c \in Calls, Resubmit(c) PROVE TypeOK'
  BY <1>18 DEF TypeOK, Resubmit
<1>19. ASSUME NEW j \in Jobs, JobEnds(j) PROVE TypeOK'
  BY <1>19 DEF TypeOK, JobEnds, callVars
<1>20. CASE UNCHANGED vars
  BY <1>20 DEF TypeOK, vars, callVars
<1>21. QED
  BY <1>1, <1>2, <1>3, <1>4, <1>5, <1>6, <1>7, <1>8, <1>9, <1>10, <1>11, <1>12,
     <1>13, <1>14, <1>15, <1>16, <1>17, <1>18, <1>19, <1>20 DEF Next, CallStep

LEMMA TypeInit == Init => TypeOK
  BY NoAnswerType DEF Init, TypeOK, Ledger!Init, Jobs

\* The variables keep their types.
THEOREM TypeCorrect == Spec => []TypeOK
<1>1. Init => TypeOK
  BY TypeInit
<1>2. TypeOK /\ [Next]_vars => TypeOK'
  BY TypeStep
<1>3. QED
  BY <1>1, <1>2, PTL DEF Spec

-----------------------------------------------------------------------------
(* What a caller is told: under every fault.                               *)

CoreInv == TypeOK /\ LockInv /\ RecordInv

LEMMA CoreInit == Init => CoreInv
<1> SUFFICES ASSUME Init PROVE CoreInv
  OBVIOUS
<1>1. TypeOK
  BY TypeInit
<1>2. LockInv
  BY ConstantsAssumption DEF Init, LockInv, Steps
<1>3. RecordInv
  BY ConstantsAssumption DEF Init, RecordInv, Ledger!Init, Jobs
<1>4. QED
  BY <1>1, <1>2, <1>3 DEF CoreInv

LEMMA CoreStep == CoreInv /\ [Next]_vars => CoreInv'
<1> SUFFICES ASSUME CoreInv, [Next]_vars PROVE CoreInv'
  OBVIOUS
<1>0. TypeOK /\ LockInv /\ RecordInv /\ TypeOK'
  BY TypeStep DEF CoreInv
<1> USE DEF CoreInv, TypeOK, LockInv, RecordInv, Continue, Return, ledgerVars, Steps, Answers, Jobs
<1>1. ASSUME NEW c \in Calls, Begin(c) PROVE CoreInv'
  BY <1>0, <1>1, ConstantsAssumption DEF Begin
<1>2. ASSUME NEW c \in Calls, Invalid(c) PROVE CoreInv'
  BY <1>0, <1>2, ConstantsAssumption DEF Invalid
<1>3. ASSUME NEW c \in Calls, Lost(c) PROVE CoreInv'
  BY <1>0, <1>3, ConstantsAssumption DEF Lost
<1>4. ASSUME NEW c \in Calls, ReadIds(c) PROVE CoreInv'
  BY <1>0, <1>4, ConstantsAssumption DEF ReadIds
<1>5. ASSUME NEW c \in Calls, AskSqueue(c) PROVE CoreInv'
  BY <1>0, <1>5, ConstantsAssumption DEF AskSqueue
<1>6. ASSUME NEW c \in Calls, ReadMine(c) PROVE CoreInv'
  BY <1>0, <1>6, ConstantsAssumption DEF ReadMine
<1>7. ASSUME NEW c \in Calls, Count(c) PROVE CoreInv'
  <2>1. UNCHANGED <<slurm, ledgerVars>> /\ pc[c] = "sacct"
    BY <1>7 DEF Count
  <2>2. Return(c, "denied") \/ Continue(c, "sbatch")
    BY <1>7 DEF Count
  <2>3. CASE Return(c, "denied")
    BY <1>0, <2>1, <2>3, ConstantsAssumption
  <2>4. CASE Continue(c, "sbatch")
    BY <1>0, <2>1, <2>4, ConstantsAssumption
  <2>5. QED
    BY <2>2, <2>3, <2>4
<1>8. ASSUME NEW c \in Calls, Sbatch(c) PROVE CoreInv'
  BY <1>0, <1>8, ConstantsAssumption DEF Sbatch
<1>9. ASSUME NEW c \in Calls, SbatchFails(c) PROVE CoreInv'
  BY <1>0, <1>9, ConstantsAssumption DEF SbatchFails
<1>10. ASSUME NEW c \in Calls, Verify(c) PROVE CoreInv'
  <2>1. UNCHANGED <<slurm, ledgerVars>> /\ pc[c] = "verify"
    BY <1>10 DEF Verify
  <2>2. CASE Continue(c, "prepare")
    BY <1>0, <2>1, <2>2, ConstantsAssumption
  <2>3. CASE Continue(c, "account")
    BY <1>0, <2>1, <2>3, ConstantsAssumption
  <2>4. CASE Return(c, "unverified")
    BY <1>0, <2>1, <2>4, ConstantsAssumption
  <2>5. QED
    BY <1>10, <2>2, <2>3, <2>4 DEF Verify
<1>11. ASSUME NEW c \in Calls, VerifyByAccount(c) PROVE CoreInv'
  <2>1. UNCHANGED <<slurm, ledgerVars>> /\ pc[c] = "account"
    BY <1>11 DEF VerifyByAccount
  <2>2. CASE Continue(c, "prepare")
    BY <1>0, <2>1, <2>2, ConstantsAssumption
  <2>3. CASE Return(c, "unverified")
    BY <1>0, <2>1, <2>3, ConstantsAssumption
  <2>4. QED
    BY <1>11, <2>2, <2>3 DEF VerifyByAccount
<1>12. ASSUME NEW c \in Calls, Prepare(c) PROVE CoreInv'
  BY <1>0, <1>12, ConstantsAssumption DEF Prepare, Ledger!Start
<1>13. ASSUME NEW c \in Calls, Registered(c) PROVE CoreInv'
  BY <1>0, <1>13, ConstantsAssumption DEF Registered, Ledger!Confirm
<1>14. ASSUME NEW c \in Calls, NotRegistered(c) PROVE CoreInv'
  BY <1>0, <1>14, ConstantsAssumption DEF NotRegistered, Ledger!Refuse, Ledger!LoseTouch
<1>15. ASSUME NEW c \in Calls, Rollback(c) PROVE CoreInv'
  <2>1. UNCHANGED ledgerVars /\ pc[c] = "rollback" /\ lock = c
    BY <1>0, <1>15 DEF Rollback
  <2>2. slurm'[c] # "live" \/ Return(c, "unrolled")
    BY <1>0, <1>15 DEF Rollback, Scancel
  <2>3. \A d \in Calls \ {c} : slurm'[d] = slurm[d]
    BY <1>0, <1>15 DEF Rollback, Scancel
  <2>4. CASE Return(c, "rolledback")
    <3>1. slurm'[c] # "live"
      BY <1>0, <2>2, <2>4
    <3>2. LockInv'
      BY <1>0, <2>1, <2>4, ConstantsAssumption
    <3>3. RecordInv'
      BY <1>0, <2>1, <2>3, <2>4, <3>1
    <3>4. QED
      BY <1>0, <3>2, <3>3
  <2>5. CASE Return(c, "unrolled")
    <3>1. LockInv'
      BY <1>0, <2>1, <2>5, ConstantsAssumption
    <3>2. RecordInv'
      BY <1>0, <2>1, <2>3, <2>5
    <3>3. QED
      BY <1>0, <3>1, <3>2
  <2>6. QED
    BY <1>15, <2>4, <2>5 DEF Rollback
<1>16. ASSUME NEW c \in Calls, Abort(c) PROVE CoreInv'
  <2>1. Return(c, "aborted") /\ pc[c] \in Steps /\ lock = c
    BY <1>0, <1>16 DEF Abort
  <2>2. \A d \in Calls \ {c} : slurm'[d] = slurm[d] /\ outcome'[d] = outcome[d]
    BY <1>0, <1>16 DEF Abort, Scancel, Ledger!LoseTouch
  <2>3. entries' = entries /\ (outcome'[c] = "pending" => FALSE)
        /\ (outcome'[c] = "idle" => outcome[c] = "idle")
    BY <1>0, <1>16 DEF Abort, Ledger!LoseTouch
  <2>4. LockInv'
    BY <1>0, <2>1, ConstantsAssumption
  <2>5. RecordInv'
    BY <1>0, <2>1, <2>2, <2>3
  <2>6. QED
    BY <1>0, <2>4, <2>5
<1>17. ASSUME NEW c \in Calls, Recorded(c) PROVE CoreInv'
  BY <1>0, <1>17, ConstantsAssumption DEF Recorded, Ledger!Record, callVars
<1>18. ASSUME NEW c \in Calls, Resubmit(c) PROVE CoreInv'
  BY <1>0, <1>18, ConstantsAssumption DEF Resubmit
<1>19. ASSUME NEW j \in Jobs, JobEnds(j) PROVE CoreInv'
  BY <1>0, <1>19, ConstantsAssumption DEF JobEnds, callVars
<1>20. CASE UNCHANGED vars
  BY <1>0, <1>20 DEF vars, callVars
<1>21. QED
  BY <1>1, <1>2, <1>3, <1>4, <1>5, <1>6, <1>7, <1>8, <1>9, <1>10, <1>11, <1>12,
     <1>13, <1>14, <1>15, <1>16, <1>17, <1>18, <1>19, <1>20 DEF Next, CallStep

THEOREM CoreInvariance == Spec => []CoreInv
<1>1. QED
  BY CoreInit, CoreStep, PTL DEF Spec

\* Whatever fails, what the caller is told of its job is so: submitted means
\* recorded, cancelled means stopped, denied means there is no job.
THEOREM AnswersAreTrue == Spec => []AnswersHold
<1>1. CoreInv => AnswersHold
  BY DEF CoreInv, RecordInv, AnswersHold
<1>2. QED
  BY <1>1, CoreInvariance, PTL

\* Whatever fails, a job runs without a record only after one of the answers
\* that leave it so.
THEOREM LeaksAreTheKnownOnes == Spec => []LeaksAreKnown
<1>1. CoreInv => LeaksAreKnown
  BY DEF CoreInv, TypeOK, RecordInv, LeaksAreKnown, InHand, Steps, Answers
<1>2. QED
  BY <1>1, CoreInvariance, PTL

-----------------------------------------------------------------------------
(* The ceiling, as long as scancel works, requests are not cancelled and   *)
(* the registry can be read.                                               *)

CeilingFaults == Faults \cap {"rollback", "abort", "unreadable"} = {}

\* The count covers the managed jobs if what was read before leaves none out.
LEMMA StillActiveCovers ==
    ASSUME NEW managed, NEW q, NEW jobs, NEW rows, NEW acctOk,
           managed \subseteq jobs,
           managed \cap q.ended = {},
           managed \cap rows.ended = {},
           q.ok = "yes" => managed \subseteq q.active
    PROVE  managed \subseteq StillActive(q, jobs, rows, acctOk)
  BY DEF StillActive

LEMMA ManagedFinite == IsFiniteSet(Managed) /\ IsFiniteSet(Jobs) /\ Cardinality(Managed) \in Nat
<1>1. IsFiniteSet(Jobs)
  BY ConstantsAssumption, FS_Union DEF Jobs
<1>2. Managed \subseteq Jobs
  BY DEF Managed
<1>3. QED
  BY <1>1, <1>2, FS_Subset, FS_CardinalityType

LEMMA ManagedFiniteNext == IsFiniteSet(Managed') /\ Cardinality(Managed') \in Nat
<1>1. Managed' \subseteq Jobs
  BY DEF Managed
<1>2. QED
  BY <1>1, ManagedFinite, FS_Subset, FS_CardinalityType

\* Only sbatch adds to the managed jobs, and it adds one.
LEMMA ManagedStep ==
    ASSUME CeilingFaults, CoreInv, CoreInv', LateRecordInv, [Next]_vars
    PROVE  \/ Managed' \subseteq Managed
           \/ \E c \in Calls : Sbatch(c) /\ Managed' \subseteq Managed \cup {c}
<1> USE DEF CoreInv, TypeOK, RecordInv, LateRecordInv, CeilingFaults, Managed, InHand,
        Continue, Return, ledgerVars, Steps, Answers, Jobs
<1>1. ASSUME NEW c \in Calls, Begin(c) PROVE Managed' \subseteq Managed
  BY <1>1 DEF Begin
<1>2. ASSUME NEW c \in Calls, Invalid(c) PROVE Managed' \subseteq Managed
  BY <1>2 DEF Invalid
<1>3. ASSUME NEW c \in Calls, Lost(c) PROVE Managed' \subseteq Managed
  BY <1>3 DEF Lost
<1>4. ASSUME NEW c \in Calls, ReadIds(c) PROVE Managed' \subseteq Managed
  BY <1>4 DEF ReadIds
<1>5. ASSUME NEW c \in Calls, AskSqueue(c) PROVE Managed' \subseteq Managed
  BY <1>5 DEF AskSqueue
<1>6. ASSUME NEW c \in Calls, ReadMine(c) PROVE Managed' \subseteq Managed
  BY <1>6 DEF ReadMine
<1>7. ASSUME NEW c \in Calls, Count(c) PROVE Managed' \subseteq Managed
  <2>1. UNCHANGED <<slurm, ledgerVars>> /\ pc[c] = "sacct"
    BY <1>7 DEF Count
  <2>2. pc' = [pc EXCEPT ![c] = "denied"] \/ pc' = [pc EXCEPT ![c] = "sbatch"]
    BY <1>7 DEF Count
  <2>3. QED
    BY <2>1, <2>2
<1>8. ASSUME NEW c \in Calls, Sbatch(c) PROVE Managed' \subseteq Managed \cup {c}
  BY <1>8 DEF Sbatch
<1>9. ASSUME NEW c \in Calls, SbatchFails(c) PROVE Managed' \subseteq Managed
  BY <1>9 DEF SbatchFails
<1>10. ASSUME NEW c \in Calls, Verify(c) PROVE Managed' \subseteq Managed
  BY <1>10 DEF Verify
<1>11. ASSUME NEW c \in Calls, VerifyByAccount(c) PROVE Managed' \subseteq Managed
  BY <1>11 DEF VerifyByAccount
<1>12. ASSUME NEW c \in Calls, Prepare(c) PROVE Managed' \subseteq Managed
  BY <1>12 DEF Prepare, Ledger!Start
<1>13. ASSUME NEW c \in Calls, Registered(c) PROVE Managed' \subseteq Managed
  BY <1>13 DEF Registered, Ledger!Confirm
<1>14. ASSUME NEW c \in Calls, NotRegistered(c) PROVE Managed' \subseteq Managed
  BY <1>14 DEF NotRegistered, Ledger!Refuse, Ledger!LoseTouch
<1>15. ASSUME NEW c \in Calls, Rollback(c) PROVE Managed' \subseteq Managed
  BY <1>15 DEF Rollback, Scancel
<1>16. ASSUME NEW c \in Calls, Abort(c) PROVE FALSE
  BY <1>16 DEF Abort
<1>17. ASSUME NEW c \in Calls, Recorded(c) PROVE Managed' \subseteq Managed
  BY <1>17 DEF Recorded, Ledger!Record, callVars
<1>18. ASSUME NEW c \in Calls, Resubmit(c) PROVE Managed' \subseteq Managed
  BY <1>18 DEF Resubmit
<1>19. ASSUME NEW j \in Jobs, JobEnds(j) PROVE Managed' \subseteq Managed
  BY <1>19 DEF JobEnds, callVars
<1>20. CASE UNCHANGED vars
  BY <1>20 DEF vars, callVars
<1>21. QED
  BY <1>1, <1>2, <1>3, <1>4, <1>5, <1>6, <1>7, <1>8, <1>9, <1>10, <1>11, <1>12,
     <1>13, <1>14, <1>15, <1>16, <1>17, <1>18, <1>19, <1>20 DEF Next, CallStep

\* A late record stays that of a job that was stopped.
LEMMA LateRecordStep ==
    ASSUME CeilingFaults, CoreInv, CoreInv', LateRecordInv, [Next]_vars
    PROVE  LateRecordInv'
<1> USE DEF CoreInv, TypeOK, RecordInv, LateRecordInv, CeilingFaults,
        Continue, Return, ledgerVars, Steps, Answers, Jobs
<1>1. ASSUME NEW c \in Calls, Begin(c) PROVE LateRecordInv'
  BY <1>1 DEF Begin
<1>2. ASSUME NEW c \in Calls, Invalid(c) PROVE LateRecordInv'
  BY <1>2 DEF Invalid
<1>3. ASSUME NEW c \in Calls, Lost(c) PROVE LateRecordInv'
  BY <1>3 DEF Lost
<1>4. ASSUME NEW c \in Calls, ReadIds(c) PROVE LateRecordInv'
  BY <1>4 DEF ReadIds
<1>5. ASSUME NEW c \in Calls, AskSqueue(c) PROVE LateRecordInv'
  BY <1>5 DEF AskSqueue
<1>6. ASSUME NEW c \in Calls, ReadMine(c) PROVE LateRecordInv'
  BY <1>6 DEF ReadMine
<1>7. ASSUME NEW c \in Calls, Count(c) PROVE LateRecordInv'
  <2>1. UNCHANGED <<slurm, ledgerVars>> /\ pc[c] = "sacct"
    BY <1>7 DEF Count
  <2>2. pc' = [pc EXCEPT ![c] = "denied"] \/ pc' = [pc EXCEPT ![c] = "sbatch"]
    BY <1>7 DEF Count
  <2>3. QED
    BY <2>1, <2>2
<1>8. ASSUME NEW c \in Calls, Sbatch(c) PROVE LateRecordInv'
  BY <1>8 DEF Sbatch
<1>9. ASSUME NEW c \in Calls, SbatchFails(c) PROVE LateRecordInv'
  BY <1>9 DEF SbatchFails
<1>10. ASSUME NEW c \in Calls, Verify(c) PROVE LateRecordInv'
  BY <1>10 DEF Verify
<1>11. ASSUME NEW c \in Calls, VerifyByAccount(c) PROVE LateRecordInv'
  BY <1>11 DEF VerifyByAccount
<1>12. ASSUME NEW c \in Calls, Prepare(c) PROVE LateRecordInv'
  BY <1>12 DEF Prepare, Ledger!Start
<1>13. ASSUME NEW c \in Calls, Registered(c) PROVE LateRecordInv'
  BY <1>13 DEF Registered, Ledger!Confirm
<1>14. ASSUME NEW c \in Calls, NotRegistered(c) PROVE LateRecordInv'
  BY <1>14 DEF NotRegistered, Ledger!Refuse, Ledger!LoseTouch
<1>15. ASSUME NEW c \in Calls, Rollback(c) PROVE LateRecordInv'
  BY <1>15 DEF Rollback, Scancel
<1>16. ASSUME NEW c \in Calls, Abort(c) PROVE FALSE
  BY <1>16 DEF Abort
<1>17. ASSUME NEW c \in Calls, Recorded(c) PROVE LateRecordInv'
  BY <1>17 DEF Recorded, Ledger!Record, callVars
<1>18. ASSUME NEW c \in Calls, Resubmit(c) PROVE LateRecordInv'
  BY <1>18 DEF Resubmit
<1>19. ASSUME NEW j \in Jobs, JobEnds(j) PROVE LateRecordInv'
  BY <1>19 DEF JobEnds, callVars
<1>20. CASE UNCHANGED vars
  BY <1>20 DEF vars, callVars
<1>21. QED
  BY <1>1, <1>2, <1>3, <1>4, <1>5, <1>6, <1>7, <1>8, <1>9, <1>10, <1>11, <1>12,
     <1>13, <1>14, <1>15, <1>16, <1>17, <1>18, <1>19, <1>20 DEF Next, CallStep

\* A managed job without a record is that of the call holding the lock.
LEMMA ManagedIsRecorded ==
    ASSUME CoreInv, NEW c \in Calls, pc[c] \in {"ids", "mine"}
    PROVE  Managed \subseteq entries
  BY DEF CoreInv, LockInv, Managed, InHand, Steps

\* A call that counts less than the ceiling has counted every managed job.
LEMMA CountedAll ==
    ASSUME CoreInv, CountInv, NEW c \in Calls, Count(c), pc'[c] = "sbatch"
    PROVE  Cardinality(Managed) < MaxConcurrent
<1>1. PICK acctOk \in {"yes", "no"} :
        \E rows \in AccountRows(ids[c] \ queue[c].ended, acctOk) :
            IF Cardinality(StillActive(queue[c], ids[c], rows, acctOk)) >= MaxConcurrent
            THEN Return(c, "denied")
            ELSE /\ Continue(c, "sbatch")
                 /\ ids' = [ids EXCEPT ![c] = {}]
                 /\ queue' = [queue EXCEPT ![c] = NoAnswer]
  BY DEF Count
<1>2. PICK rows \in AccountRows(ids[c] \ queue[c].ended, acctOk) :
            IF Cardinality(StillActive(queue[c], ids[c], rows, acctOk)) >= MaxConcurrent
            THEN Return(c, "denied")
            ELSE /\ Continue(c, "sbatch")
                 /\ ids' = [ids EXCEPT ![c] = {}]
                 /\ queue' = [queue EXCEPT ![c] = NoAnswer]
  BY <1>1
<1> DEFINE counted == StillActive(queue[c], ids[c], rows, acctOk)
<1>3. ~(Cardinality(counted) >= MaxConcurrent)
  BY <1>2 DEF Return, CoreInv, TypeOK
<1>4. pc[c] = "sacct"
  BY DEF Count
<1>5. /\ Managed \subseteq ids[c]
      /\ Managed \cap queue[c].ended = {}
      /\ queue[c].ok = "yes" => Managed \subseteq queue[c].active
  BY <1>4 DEF CountInv
<1>6. Managed \cap rows.ended = {}
  <2>1. rows.ended \cap Live(ids[c] \ queue[c].ended) = {}
    BY DEF AccountRows, Live, Finished
  <2>2. Managed \subseteq Live(ids[c] \ queue[c].ended)
    BY <1>5 DEF Live, Managed
  <2>3. QED
    BY <2>1, <2>2
<1>7. Managed \subseteq counted
  BY <1>5, <1>6, StillActiveCovers
<1>8. IsFiniteSet(counted) /\ Cardinality(counted) \in Nat
  <2>1. counted \subseteq ids[c]
    BY DEF StillActive
  <2>2. ids[c] \subseteq Jobs
    BY DEF CoreInv, TypeOK
  <2>3. QED
    BY <2>1, <2>2, ManagedFinite, FS_Subset, FS_CardinalityType
<1>9. Cardinality(Managed) <= Cardinality(counted)
  BY <1>7, <1>8, FS_Subset
<1>10. QED
  BY <1>3, <1>8, <1>9, ManagedFinite, ConstantsAssumption

Counting == {"squeue", "mine", "sacct", "sbatch"}

\* A step that takes managed jobs away, if any, and brings no call into the
\* count leaves what the counting call knows valid.
LEMMA CountUndisturbed ==
    ASSUME CountInv, Managed' \subseteq Managed,
           \A d \in Calls : pc'[d] \in Counting =>
               pc'[d] = pc[d] /\ ids'[d] = ids[d] /\ queue'[d] = queue[d]
    PROVE  CountInv'
<1>1. Cardinality(Managed') <= Cardinality(Managed)
  BY ManagedFinite, FS_Subset
<1>2. ASSUME NEW d \in Calls, pc'[d] = "sbatch" PROVE Cardinality(Managed') < MaxConcurrent
  <2>1. Cardinality(Managed) < MaxConcurrent
    BY <1>2 DEF CountInv, Counting
  <2>2. QED
    BY <2>1, <1>1, ManagedFinite, ManagedFiniteNext, ConstantsAssumption
<1>3. QED
  BY <1>2 DEF CountInv, Counting

LEMMA CountStep ==
    ASSUME CeilingFaults, CoreInv, CoreInv', LateRecordInv, CountInv, [Next]_vars
    PROVE  CountInv'
<1>0. \/ Managed' \subseteq Managed
      \/ \E c \in Calls : Sbatch(c)
  BY ManagedStep
<1>1. \A c, d \in Calls : pc'[c] \in Steps /\ pc'[d] \in Steps => c = d
  BY DEF CoreInv, LockInv
<1>2. ASSUME NEW c \in Calls, ReadIds(c) PROVE CountInv'
  <2>1. Managed \subseteq entries
    BY <1>2, ManagedIsRecorded DEF ReadIds
  <2>2. Managed' \subseteq entries
    BY <1>2, <2>1 DEF ReadIds, Continue, ledgerVars, Managed, InHand, CoreInv, TypeOK
  <2>3. ids'[c] = entries /\ pc'[c] = "squeue"
    BY <1>2 DEF ReadIds, TrackedRead, CeilingFaults, Continue, CoreInv, TypeOK
  <2>4. QED
    BY <1>1, <2>2, <2>3 DEF CountInv, Steps
<1>3. ASSUME NEW c \in Calls, AskSqueue(c) PROVE CountInv'
  <2>1. PICK shown \in SUBSET ids[c], ok \in {"yes", "no"} :
           /\ ok = "yes" => Live(ids[c]) \subseteq shown
           /\ queue' = [queue EXCEPT ![c] =
                [ok |-> ok, active |-> Live(shown), ended |-> shown \ Live(shown)]]
    BY <1>3 DEF AskSqueue
  <2>2. Managed \subseteq ids[c]
    BY <1>3 DEF AskSqueue, CountInv
  <2>3. Managed' \subseteq Managed
    BY <1>3 DEF AskSqueue, Continue, ledgerVars, Managed, InHand, CoreInv, TypeOK
  <2>4. pc'[c] = "mine" /\ queue'[c] = [ok |-> ok, active |-> Live(shown), ended |-> shown \ Live(shown)]
    BY <1>3, <2>1 DEF AskSqueue, Continue, CoreInv, TypeOK
  <2>5. Managed' \cap queue'[c].ended = {}
    BY <2>2, <2>3, <2>4 DEF Live, Managed
  <2>6. queue'[c].ok = "yes" => Managed' \subseteq queue'[c].active
    BY <2>1, <2>2, <2>3, <2>4 DEF Live, Managed
  <2>7. QED
    BY <1>1, <2>4, <2>5, <2>6 DEF CountInv, Steps
<1>4. ASSUME NEW c \in Calls, ReadMine(c) PROVE CountInv'
  <2>1. Managed \subseteq entries
    BY <1>4, ManagedIsRecorded DEF ReadMine
  <2>2. Managed' \subseteq Managed
    BY <1>4 DEF ReadMine, Continue, ledgerVars, Managed, InHand, CoreInv, TypeOK
  <2>3. ids'[c] = entries /\ pc'[c] = "sacct" /\ pc[c] = "mine" /\ queue' = queue
    BY <1>4 DEF ReadMine, TrackedRead, CeilingFaults, Continue, CoreInv, TypeOK
  <2>4. QED
    BY <1>1, <2>1, <2>2, <2>3 DEF CountInv, Steps
<1>5. ASSUME NEW c \in Calls, Count(c) PROVE CountInv'
  <2>1. pc'[c] \in {"denied", "sbatch"}
    <3>1. Return(c, "denied") \/ Continue(c, "sbatch")
      BY <1>5 DEF Count
    <3>2. QED
      BY <3>1 DEF Return, Continue, CoreInv, TypeOK
  <2>2. Managed' \subseteq Managed
    <3>1. UNCHANGED <<slurm, ledgerVars>>
      BY <1>5 DEF Count
    <3>2. \A d \in Calls : InHand(d)' => InHand(d)
      <4>1. pc' = [pc EXCEPT ![c] = "denied"] \/ pc' = [pc EXCEPT ![c] = "sbatch"]
        BY <1>5 DEF Count, Return, Continue
      <4>2. QED
        BY <4>1 DEF InHand, CoreInv, TypeOK
    <3>3. QED
      BY <3>1, <3>2 DEF Managed, ledgerVars
  <2>3. CASE pc'[c] = "denied"
    <3>1. \A d \in Calls : pc'[d] \notin Counting
      <4>1. \A d \in Calls \ {c} : pc'[d] = pc[d] /\ pc[d] \notin Steps
        BY <1>5 DEF Count, Return, Continue, CoreInv, TypeOK, LockInv, Steps
      <4>2. QED
        BY <2>3, <4>1 DEF Counting, Steps
    <3>2. QED
      BY <3>1 DEF CountInv, Counting
  <2>4. CASE pc'[c] = "sbatch"
    <3>1. Cardinality(Managed') <= Cardinality(Managed)
      BY <2>2, ManagedFinite, FS_Subset
    <3>2. Cardinality(Managed') < MaxConcurrent
      BY <1>5, <2>4, <3>1, CountedAll, ManagedFinite, ManagedFiniteNext, ConstantsAssumption
    <3>3. QED
      BY <1>1, <2>4, <3>2 DEF CountInv, Steps
  <2>5. QED
    BY <2>1, <2>3, <2>4
<1>6. ASSUME NEW c \in Calls, Sbatch(c) PROVE CountInv'
  <2>1. pc'[c] = "verify"
    BY <1>6 DEF Sbatch, Continue, CoreInv, TypeOK
  <2>2. QED
    BY <1>1, <2>1 DEF CountInv, Steps
<1> DEFINE Undisturbed == \A d \in Calls : pc'[d] \in Counting =>
               pc'[d] = pc[d] /\ ids'[d] = ids[d] /\ queue'[d] = queue[d]
<1> USE DEF Counting, CoreInv, TypeOK, Continue, Return
<1>7. ASSUME NEW c \in Calls,
             \/ Begin(c) \/ Invalid(c) \/ Lost(c) \/ SbatchFails(c) \/ Verify(c)
             \/ VerifyByAccount(c) \/ Prepare(c)
      PROVE  Undisturbed
  BY <1>7 DEF Begin, Invalid, Lost, SbatchFails, Verify, VerifyByAccount, Prepare
<1>8. ASSUME NEW c \in Calls,
             \/ Registered(c) \/ NotRegistered(c) \/ Rollback(c) \/ Abort(c)
             \/ Recorded(c) \/ Resubmit(c)
      PROVE  Undisturbed
  BY <1>8 DEF Registered, NotRegistered, Rollback, Abort, Recorded, Resubmit, callVars
<1>9. ASSUME NEW j \in Jobs, JobEnds(j) PROVE Undisturbed
  BY <1>9 DEF JobEnds, callVars
<1>10. CASE UNCHANGED vars
  BY <1>10, CountUndisturbed DEF vars, callVars, ledgerVars, Managed, InHand
<1>11. CASE Undisturbed /\ ~ \E c \in Calls : Sbatch(c)
  BY <1>0, <1>11, CountUndisturbed
<1>12. QED
  <2>1. \/ Undisturbed \/ UNCHANGED vars
        \/ \E c \in Calls : \/ ReadIds(c) \/ AskSqueue(c) \/ ReadMine(c)
                            \/ Count(c) \/ Sbatch(c)
    BY <1>7, <1>8, <1>9 DEF Next, CallStep
  <2>2. QED
    BY <2>1, <1>2, <1>3, <1>4, <1>5, <1>6, <1>10, <1>11

\* The managed jobs never exceed the ceiling.
LEMMA CeilingStep ==
    ASSUME CeilingFaults, CoreInv, CoreInv', LateRecordInv, CountInv, CeilingKept, [Next]_vars
    PROVE  CeilingKept'
<1>1. CASE Managed' \subseteq Managed
  <2>1. Cardinality(Managed') <= Cardinality(Managed)
    BY <1>1, ManagedFinite, FS_Subset
  <2>2. QED
    BY <2>1, ManagedFinite, ManagedFiniteNext, ConstantsAssumption DEF CeilingKept
<1>2. ASSUME NEW c \in Calls, Sbatch(c), Managed' \subseteq Managed \cup {c} PROVE CeilingKept'
  <2>1. Cardinality(Managed) < MaxConcurrent
    BY <1>2 DEF Sbatch, CountInv
  <2>2. /\ IsFiniteSet(Managed \cup {c})
        /\ Cardinality(Managed \cup {c}) <= Cardinality(Managed) + 1
    BY ManagedFinite, FS_AddElement
  <2>3. Cardinality(Managed') <= Cardinality(Managed \cup {c}) /\ Cardinality(Managed \cup {c}) \in Nat
    BY <1>2, <2>2, FS_Subset, FS_CardinalityType
  <2>4. QED
    BY <2>1, <2>2, <2>3, ManagedFinite, ManagedFiniteNext, ConstantsAssumption DEF CeilingKept
<1>3. QED
  BY <1>1, <1>2, ManagedStep

LEMMA CeilingInit == Init => LateRecordInv /\ CountInv /\ CeilingKept
<1> SUFFICES ASSUME Init PROVE LateRecordInv /\ CountInv /\ CeilingKept
  OBVIOUS
<1>1. LateRecordInv /\ CountInv
  BY DEF Init, LateRecordInv, CountInv, Ledger!Init
<1>2. PICK past \in [Earlier -> {"live", "ended", "cancelled"}] :
        /\ Cardinality({j \in Earlier : past[j] = "live"}) <= MaxConcurrent
        /\ slurm = [j \in Jobs |-> IF j \in Earlier THEN past[j] ELSE "none"]
  BY DEF Init
<1> DEFINE running == {j \in Earlier : past[j] = "live"}
<1>3. Managed \subseteq running
  BY <1>2 DEF Managed, Jobs
<1>4. IsFiniteSet(running) /\ Cardinality(running) \in Nat
  BY ConstantsAssumption, FS_Subset, FS_CardinalityType
<1>5. Cardinality(Managed) <= Cardinality(running)
  BY <1>3, <1>4, FS_Subset
<1>6. QED
  BY <1>1, <1>2, <1>4, <1>5, ManagedFinite, ConstantsAssumption DEF CeilingKept

LEMMA IInvParts == IInv <=> CoreInv /\ LateRecordInv /\ CountInv /\ CeilingKept
  BY DEF IInv, CoreInv, CeilingKept

\* The inductive invariant.
THEOREM Invariance == ASSUME CeilingFaults PROVE Spec => []IInv
<1>1. Init => IInv
  BY CoreInit, CeilingInit, IInvParts
<1>2. IInv /\ [Next]_vars => IInv'
  <2> SUFFICES ASSUME IInv, [Next]_vars PROVE IInv'
    OBVIOUS
  <2>1. CoreInv /\ LateRecordInv /\ CountInv /\ CeilingKept
    BY IInvParts
  <2>2. CoreInv'
    BY <2>1, CoreStep
  <2>3. LateRecordInv' /\ CountInv' /\ CeilingKept'
    BY <2>1, <2>2, LateRecordStep, CountStep, CeilingStep
  <2>4. QED
    BY <2>2, <2>3 DEF IInv, CoreInv, CeilingKept
<1>3. QED
  BY <1>1, <1>2, PTL DEF Spec

\* However many calls there are and however they interleave, the jobs the
\* instance manages never exceed slurm.max_concurrent_jobs.
THEOREM CeilingHolds == ASSUME CeilingFaults PROVE Spec => []CeilingKept
<1>1. IInv => CeilingKept
  BY DEF IInv, CeilingKept
<1>2. QED
  BY <1>1, Invariance, PTL
=============================================================================

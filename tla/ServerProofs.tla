---------------------------- MODULE ServerProofs ----------------------------
(***************************************************************************)
(* Proofs about the components of Server, and about Server itself, for     *)
(* every value of the constants: first the queries of one job (any         *)
(* deadlines, intervals, requeues and ends), then the SSH layer (any caps, *)
(* chunks and output lengths), then the configuration (any values in any   *)
(* place), and last that what was proved of each component alone, here and *)
(* in FilesProofs, ListingProofs and PolicyProofs, holds of Server.        *)
(***************************************************************************)
EXTENDS Server, FilesProofs, ListingProofs, PolicyProofs, FiniteSetTheorems, TLAPS

-----------------------------------------------------------------------------
(* The queries of one job: when a wait may say that a job has ended, and what
   it knows when it gives up. *)

Labels == EndLabels \cup {"PENDING", "RUNNING", "CANCELLED"}
Looks  == [heard : BOOLEAN, ended : BOOLEAN, told : BOOLEAN, time : Nat]

\* Types, without the ranges that nothing here depends on.
WaitTypesInv ==
  /\ job \in Labels /\ acct \in Labels \cup {"none"}
  /\ requeues \in Nat
  /\ limit \in 0..WaitMax /\ poll \in 2..60 /\ waited \in Nat
  /\ look \in Looks /\ ending \in Looks

\* sacct only knows the end of a job that runs if the job was requeued.
AccountInv == Live /\ requeues = 0 => acct \in {"none", "PENDING", "RUNNING"}

\* The last look: once squeue has answered without the job, the job had ended;
\* a state that ends the wait was true, or an old one of a requeued job while
\* squeue was silent; and what told of the end is in the text.
LookInv ==
  /\ at = "sacct" /\ look.heard => look.ended
  /\ at = "known" /\ Recognised(seen) => look.ended \/ (~look.heard /\ requeues > 0)
  /\ at = "known" /\ look.told =>
       seen.label \in EndLabels \cup {"CANCELLED"} /\ (seen.suffix = "" \/ seen.suffix = " by uid")

\* What a wait has looked at belongs to the time it has waited so far, and a
\* call has answered exactly when it is done.
TimeInv ==
  /\ at \in {"sacct", "known"} /\ kind \in Waits => look.time = waited
  /\ at = "begin" => look = NoLook /\ waited = 0 /\ seen = Unknown
  /\ at = "done" <=> answer # "none"

WaitInv ==
  WaitTypesInv /\ AccountInv /\ LookInv /\ TimeInv /\ EndIsReal /\ GiveUpIsInformed /\ WaitIsBounded

LEMMA LookTypes == NoLook \in Looks /\ ~NoLook.told /\ ~Recognised(Unknown)
  BY DEF NoLook, Looks, Recognised, Unknown, Text, Terminal

LEMMA InitWait == WaitInit => WaitInv
<1> SUFFICES ASSUME WaitInit PROVE WaitInv
  OBVIOUS
<1>1. WaitTypesInv
  BY LookTypes, WaitLoopAssumption DEF WaitInit, WaitTypesInv, Labels
<1>2. AccountInv /\ LookInv /\ TimeInv
  BY LookTypes DEF WaitInit, AccountInv, LookInv, TimeInv
<1>3. EndIsReal /\ GiveUpIsInformed /\ WaitIsBounded
  BY DEF WaitInit, EndIsReal, GiveUpIsInformed, WaitIsBounded
<1>4. QED
  BY <1>1, <1>2, <1>3 DEF WaitInv

\* What Slurm does with the job while a call is under way.
LEMMA JobSteps ==
    ASSUME WaitInv, at # "done", Progress \/ Requeue \/ CatchUp
    PROVE  WaitInv'
<1> USE WaitLoopAssumption DEF WaitInv, argVars
<1>1. WaitTypesInv'
  BY DEF WaitTypesInv, Labels, Progress, Requeue, CatchUp
<1>2. AccountInv'
  BY DEF WaitTypesInv, AccountInv, Live, Progress, Requeue, CatchUp
<1>3. LookInv'
  <2>1. UNCHANGED <<at, seen, look>>
    BY DEF Progress, Requeue, CatchUp
  <2>2. requeues > 0 => requeues' > 0
    BY DEF WaitTypesInv, Progress, Requeue, CatchUp
  <2>3. QED
    BY <2>1, <2>2 DEF LookInv, Recognised
<1>4. TimeInv' /\ WaitIsBounded'
  BY DEF TimeInv, WaitIsBounded, Progress, Requeue, CatchUp
<1>5. EndIsReal'
  BY DEF WaitTypesInv, EndIsReal, Progress, Requeue, CatchUp
<1>6. GiveUpIsInformed'
  BY DEF GiveUpIsInformed, Progress, Requeue, CatchUp
<1>7. QED
  BY <1>1, <1>2, <1>3, <1>4, <1>5, <1>6

LEMMA StepWait == WaitInv /\ [WaitNext]_waitVars => WaitInv'
<1> SUFFICES ASSUME WaitInv, [WaitNext]_waitVars PROVE WaitInv'
  OBVIOUS
<1>0. WaitTypesInv /\ AccountInv /\ LookInv /\ TimeInv /\ EndIsReal /\ GiveUpIsInformed /\ WaitIsBounded
  BY DEF WaitInv
<1> USE DEF jobVars, argVars, Answer, Go
<1>1. ASSUME NEW k \in Waits, NEW t \in Timeouts, NEW i \in Intervals, BeginWait(k, t, i)
      PROVE  WaitInv'
  <2>1. t \in Nat /\ i \in Nat /\ WaitMax \in Nat
    BY WaitLoopAssumption
  <2>2. limit' \in 0..WaitMax /\ poll' \in 2..60 /\ waited' = 0 /\ look' = NoLook
    BY <1>0, <1>1, <2>1 DEF BeginWait, Smaller, Larger, TimeInv
  <2>3. WaitTypesInv' /\ AccountInv' /\ WaitIsBounded'
    BY <1>0, <1>1, <2>1, <2>2 DEF BeginWait, WaitTypesInv, AccountInv, Live, WaitIsBounded
  <2>4. LookInv' /\ TimeInv' /\ EndIsReal' /\ GiveUpIsInformed'
    BY <1>0, <1>1 DEF BeginWait, LookInv, TimeInv, EndIsReal, GiveUpIsInformed
  <2>5. QED
    BY <2>3, <2>4 DEF WaitInv
<1>2. ASSUME NEW k \in Kinds \ Waits, BeginOther(k) PROVE WaitInv'
  <2>1. WaitTypesInv' /\ AccountInv' /\ WaitIsBounded'
    BY <1>0, <1>2 DEF BeginOther, WaitTypesInv, AccountInv, Live, WaitIsBounded
  <2>2. at' # "sacct" /\ at' # "done" /\ at' # "begin" /\ look' = NoLook /\ seen' = Unknown
    BY <1>0, <1>2 DEF BeginOther, TimeInv
  <2>3. LookInv' /\ TimeInv'
    BY <1>0, <1>2, <2>2, LookTypes DEF BeginOther, LookInv, TimeInv
  <2>4. EndIsReal' /\ GiveUpIsInformed'
    BY <1>0, <1>2 DEF BeginOther, TimeInv, EndIsReal, GiveUpIsInformed
  <2>5. QED
    BY <2>1, <2>3, <2>4 DEF WaitInv
<1>3. ASSUME NEW heard \in BOOLEAN, NEW shown \in BOOLEAN, LookQueue(heard, shown) PROVE WaitInv'
  <2>1. WaitTypesInv' /\ AccountInv' /\ WaitIsBounded'
    BY <1>0, <1>3 DEF LookQueue, WaitTypesInv, Looks, AccountInv, Live, WaitIsBounded
  <2>2. look'.heard = heard /\ look'.ended = ~Live /\ look'.told = (shown /\ ~Live) /\ look'.time = waited'
    BY <1>3 DEF LookQueue
  <2>3. at' = "sacct" /\ look'.heard => look'.ended
    BY <1>3, <2>2 DEF LookQueue
  <2>4. Recognised(seen') => look'.ended
    <3>1. CASE shown
      BY <1>3, <2>2, <3>1 DEF LookQueue, Recognised, Text, Live, Terminal
    <3>2. CASE ~shown
      BY <1>3, <3>2, LookTypes DEF LookQueue
    <3>3. QED
      BY <3>1, <3>2
  <2>5. look'.told => seen'.label \in EndLabels \cup {"CANCELLED"} /\ seen'.suffix = ""
    BY <1>0, <1>3, <2>2 DEF LookQueue, WaitTypesInv, Labels, Text, Live
  <2>6. LookInv'
    BY <1>3, <2>3, <2>4, <2>5 DEF LookQueue, LookInv, Recognised
  <2>7. TimeInv'
    BY <1>0, <1>3, <2>2 DEF LookQueue, TimeInv
  <2>8. EndIsReal' /\ GiveUpIsInformed'
    BY <1>0, <1>3 DEF LookQueue, TimeInv, EndIsReal, GiveUpIsInformed
  <2>9. QED
    BY <2>1, <2>6, <2>7, <2>8 DEF WaitInv
<1>4. ASSUME NEW answered \in BOOLEAN, LookAccount(answered) PROVE WaitInv'
  <2>1. /\ look'.heard = look.heard /\ look'.time = look.time
        /\ look'.ended = (look.ended \/ ~Live)
        /\ look'.told = (answered /\ acct = job /\ ~Live)
        /\ look' \in Looks
    BY <1>0, <1>4 DEF LookAccount, WaitTypesInv, Looks
  <2>2. WaitTypesInv' /\ AccountInv' /\ WaitIsBounded'
    BY <1>0, <1>4, <2>1 DEF LookAccount, WaitTypesInv, AccountInv, Live, WaitIsBounded
  <2>3. Recognised(seen') => look'.ended \/ (~look'.heard /\ requeues > 0)
    <3>1. CASE answered
      <4>1. seen' = Printed(acct)
        BY <1>4, <3>1 DEF LookAccount
      <4>2. Recognised(seen') => acct \notin {"none", "PENDING", "RUNNING"}
        BY <4>1 DEF Recognised, Printed, Text, Terminal
      <4>3. CASE Live
        <5>1. Recognised(seen') => requeues > 0
          BY <1>0, <4>2, <4>3 DEF AccountInv, WaitTypesInv
        <5>2. look.heard => look.ended
          BY <1>0, <1>4 DEF LookAccount, LookInv
        <5>3. QED
          BY <2>1, <5>1, <5>2
      <4>4. CASE ~Live
        BY <2>1, <4>4
      <4>5. QED
        BY <4>3, <4>4
    <3>2. CASE ~answered
      BY <1>4, <3>2, LookTypes DEF LookAccount
    <3>3. QED
      BY <3>1, <3>2
  <2>4. look'.told => /\ seen'.label \in EndLabels \cup {"CANCELLED"}
                      /\ seen'.suffix = "" \/ seen'.suffix = " by uid"
    BY <1>0, <1>4, <2>1 DEF LookAccount, WaitTypesInv, Labels, Printed, Text, Live
  <2>5. LookInv'
    BY <1>4, <2>3, <2>4 DEF LookAccount, LookInv, Recognised
  <2>6. TimeInv'
    BY <1>0, <1>4, <2>1 DEF LookAccount, TimeInv
  <2>7. EndIsReal' /\ GiveUpIsInformed'
    BY <1>0, <1>4 DEF LookAccount, TimeInv, EndIsReal, GiveUpIsInformed
  <2>8. QED
    BY <2>2, <2>5, <2>6, <2>7 DEF WaitInv
<1>5. CASE SeeEnd
  <2>1. WaitTypesInv' /\ AccountInv' /\ WaitIsBounded'
    BY <1>0, <1>5 DEF SeeEnd, WaitTypesInv, AccountInv, Live, WaitIsBounded
  <2>2. LookInv' /\ TimeInv'
    BY <1>0, <1>5 DEF SeeEnd, LookInv, TimeInv
  <2>3. EndIsReal'
    BY <1>0, <1>5 DEF SeeEnd, LookInv, EndIsReal
  <2>4. GiveUpIsInformed'
    BY <1>0, <1>5 DEF SeeEnd, TimeInv, GiveUpIsInformed
  <2>5. QED
    BY <2>1, <2>2, <2>3, <2>4 DEF WaitInv
<1>6. CASE GiveUp
  <2>1. WaitTypesInv' /\ AccountInv' /\ WaitIsBounded'
    BY <1>0, <1>6 DEF GiveUp, WaitTypesInv, AccountInv, Live, WaitIsBounded
  <2>2. LookInv' /\ TimeInv' /\ EndIsReal'
    BY <1>0, <1>6 DEF GiveUp, LookInv, TimeInv, EndIsReal
  <2>3. look.told => seen.label \in OddEnds \/ seen.suffix = " by uid"
    BY <1>0, <1>6, EndLabelsAssumption DEF GiveUp, LookInv, Recognised, Terminal
  <2>4. GiveUpIsInformed'
    BY <1>0, <1>6, <2>3 DEF GiveUp, TimeInv, GiveUpIsInformed
  <2>5. QED
    BY <2>1, <2>2, <2>4 DEF WaitInv
<1>7. CASE Sleep
  <2>1. waited' = waited + poll /\ waited < limit /\ limit' = limit /\ poll' = poll
    BY <1>7 DEF Sleep
  <2>2. WaitTypesInv' /\ WaitIsBounded'
    BY <1>0, <1>7, <2>1 DEF Sleep, WaitTypesInv, WaitIsBounded
  <2>3. AccountInv' /\ LookInv' /\ TimeInv' /\ EndIsReal'
    BY <1>0, <1>7 DEF Sleep, AccountInv, Live, LookInv, TimeInv, EndIsReal
  <2>4. GiveUpIsInformed'
    BY <1>0, <1>7 DEF Sleep, TimeInv, GiveUpIsInformed
  <2>5. QED
    BY <2>2, <2>3, <2>4 DEF WaitInv
<1>8. ASSUME NEW works \in BOOLEAN, Cancel(works) PROVE WaitInv'
  <2>1. WaitTypesInv'
    BY <1>0, <1>8 DEF Cancel, WaitTypesInv, Labels
  <2>2. AccountInv'
    BY <1>0, <1>8 DEF Cancel, AccountInv, Live
  <2>3. LookInv' /\ TimeInv' /\ EndIsReal' /\ WaitIsBounded'
    BY <1>0, <1>8 DEF Cancel, LookInv, TimeInv, EndIsReal, WaitIsBounded
  <2>4. GiveUpIsInformed'
    BY <1>0, <1>8 DEF Cancel, TimeInv, GiveUpIsInformed
  <2>5. QED
    BY <2>1, <2>2, <2>3, <2>4 DEF WaitInv
<1>9. ASSUME RefuseCall \/ ReturnState \/ Diagnose \/ Output \/ WaitFails
             \/ (\E found \in BOOLEAN : Account(found))
      PROVE  WaitInv'
  <2>1. /\ at \notin {"done"} /\ at' \in {"done", "account", "output"}
        /\ at' = "done" <=> answer' # "none"
        /\ answer' \notin {"ended", "gave up"}
        /\ UNCHANGED <<job, acct, requeues, kind, limit, poll, waited, seen, look, ending>>
    BY <1>0, <1>9 DEF RefuseCall, ReturnState, Diagnose, Output, WaitFails, Account, TimeInv
  <2>2. WaitTypesInv' /\ AccountInv' /\ WaitIsBounded'
    BY <1>0, <2>1 DEF WaitTypesInv, AccountInv, Live, WaitIsBounded
  <2>3. LookInv' /\ TimeInv' /\ EndIsReal' /\ GiveUpIsInformed'
    BY <1>0, <2>1 DEF LookInv, TimeInv, EndIsReal, GiveUpIsInformed
  <2>4. QED
    BY <2>2, <2>3 DEF WaitInv
<1>10. CASE Progress \/ Requeue \/ CatchUp
  BY <1>10, JobSteps DEF Progress, Requeue, CatchUp
<1>11. CASE UNCHANGED waitVars
  <2>1. WaitTypesInv' /\ AccountInv' /\ WaitIsBounded'
    BY <1>0, <1>11 DEF waitVars, WaitTypesInv, AccountInv, Live, WaitIsBounded
  <2>2. LookInv' /\ TimeInv'
    BY <1>0, <1>11 DEF waitVars, LookInv, TimeInv
  <2>3. EndIsReal' /\ GiveUpIsInformed'
    BY <1>0, <1>11 DEF waitVars, EndIsReal, GiveUpIsInformed
  <2>4. QED
    BY <2>1, <2>2, <2>3 DEF WaitInv
<1>12. QED
  BY <1>1, <1>2, <1>3, <1>4, <1>5, <1>6, <1>7, <1>8, <1>9, <1>10, <1>11 DEF WaitNext, WaitStep

\* The ranges WaitTypesInv leaves out.
WaitRanges ==
  /\ requeues <= MaxRequeues
  /\ kind \in Kinds \cup {"none"} /\ at \in Steps /\ answer \in Answers /\ seen \in Texts

LEMMA TextsTyped ==
  /\ Unknown \in Texts
  /\ \A s \in Labels : Text(s, "") \in Texts /\ Printed(s) \in Texts
  BY DEF Unknown, Texts, Text, Printed, Labels

LEMMA RangesKept == WaitInv /\ WaitRanges /\ [WaitNext]_waitVars => WaitRanges'
<1> SUFFICES ASSUME WaitInv, WaitRanges, [WaitNext]_waitVars PROVE WaitRanges'
  OBVIOUS
<1>0. requeues \in Nat /\ job \in Labels /\ acct \in Labels \cup {"none"}
  BY DEF WaitInv, WaitTypesInv
<1> USE DEF jobVars, argVars, Answer, Go
<1>1. ASSUME NEW k \in Waits, NEW t \in Timeouts, NEW i \in Intervals, BeginWait(k, t, i)
      PROVE  WaitRanges'
  BY <1>1 DEF BeginWait, WaitRanges, Waits, Kinds, Steps
<1>2. ASSUME NEW k \in Kinds \ Waits, BeginOther(k) PROVE WaitRanges'
  BY <1>2 DEF BeginOther, WaitRanges, Steps
<1>3. ASSUME NEW heard \in BOOLEAN, NEW shown \in BOOLEAN, LookQueue(heard, shown) PROVE WaitRanges'
  <2>1. seen' \in Texts
    BY <1>0, <1>3, TextsTyped DEF LookQueue
  <2>2. QED
    BY <1>3, <2>1 DEF LookQueue, WaitRanges, Steps
<1>4. ASSUME NEW answered \in BOOLEAN, LookAccount(answered) PROVE WaitRanges'
  <2>1. seen' \in Texts
    BY <1>0, <1>4, TextsTyped DEF LookAccount
  <2>2. QED
    BY <1>4, <2>1 DEF LookAccount, WaitRanges, Steps
<1>5. CASE SeeEnd
  BY <1>5 DEF SeeEnd, WaitRanges, Kinds, Steps, Answers
<1>6. CASE GiveUp \/ Sleep
  BY <1>6 DEF GiveUp, Sleep, WaitRanges, Steps, Answers
<1>7. ASSUME NEW works \in BOOLEAN, Cancel(works) PROVE WaitRanges'
  BY <1>7 DEF Cancel, WaitRanges, Steps, Answers
<1>8. ASSUME RefuseCall \/ ReturnState \/ Diagnose \/ Output \/ WaitFails
             \/ (\E found \in BOOLEAN : Account(found))
      PROVE  WaitRanges'
  <2>1. at' \in Steps /\ answer' \in Answers /\ UNCHANGED <<requeues, kind, seen>>
    BY <1>8 DEF RefuseCall, ReturnState, Diagnose, Output, WaitFails, Account, WaitRanges, Steps, Answers
  <2>2. QED
    BY <2>1 DEF WaitRanges
<1>9. CASE Progress \/ CatchUp
  BY <1>9 DEF Progress, CatchUp, WaitRanges
<1>10. CASE Requeue
  BY <1>0, <1>10, WaitLoopAssumption DEF Requeue, WaitRanges
<1>11. CASE UNCHANGED waitVars
  BY <1>11 DEF waitVars, WaitRanges
<1>12. QED
  BY <1>1, <1>2, <1>3, <1>4, <1>5, <1>6, <1>7, <1>8, <1>9, <1>10, <1>11 DEF WaitNext, WaitStep

LEMMA RangesAtFirst == WaitInit => WaitRanges
<1> SUFFICES ASSUME WaitInit PROVE WaitRanges
  OBVIOUS
<1>1. requeues <= MaxRequeues
  BY WaitLoopAssumption DEF WaitInit
<1>2. kind \in Kinds \cup {"none"} /\ at \in Steps /\ answer \in Answers
  BY DEF WaitInit, Steps, Answers
<1>3. seen \in Texts
  BY TextsTyped DEF WaitInit
<1>4. QED
  BY <1>1, <1>2, <1>3 DEF WaitRanges

\* Without its fairness, which no invariant needs.
LEMMA WaitInvariant == WaitInit /\ [][WaitNext]_waitVars => [](WaitInv /\ WaitRanges)
  BY InitWait, StepWait, RangesAtFirst, RangesKept, PTL

LEMMA WaitTyped == WaitInv /\ WaitRanges => WaitTypeOK
  BY DEF WaitInv, WaitTypesInv, WaitRanges, WaitTypeOK, Labels, Looks

\* The variables of a call and of the job keep their types, whatever Slurm does.
THEOREM WaitTypes == WaitSpec => []WaitTypeOK
  BY WaitInvariant, WaitTyped, PTL DEF WaitSpec

\* wait reports an end only of a job that had ended when it last asked, unless
\* squeue failed while a requeued job was running.
THEOREM EndsAreReal == WaitSpec => []EndIsReal
<1>1. WaitInv => EndIsReal
  BY DEF WaitInv
<1>2. QED
  BY <1>1, WaitInvariant, PTL DEF WaitSpec

\* wait gives up only after a look that followed its last sleep, and only if
\* that look told of no end it understands.
THEOREM GivingUpIsInformed == WaitSpec => []GiveUpIsInformed
<1>1. WaitInv => GiveUpIsInformed
  BY DEF WaitInv
<1>2. QED
  BY <1>1, WaitInvariant, PTL DEF WaitSpec

\* The sleeps of wait stay within its deadline and one interval.
THEOREM WaitsAreBounded == WaitSpec => []WaitIsBounded
<1>1. WaitInv => WaitIsBounded
  BY DEF WaitInv
<1>2. QED
  BY <1>1, WaitInvariant, PTL DEF WaitSpec

-----------------------------------------------------------------------------
(* The SSH layer: what a result says about the output it was taken from. *)

\* What collect has read so far: it kept the beginning, and noted whether
\* there was more.
StreamInv ==
  /\ total = Lesser(printed - pending, cap)
  /\ overflow <=> printed - pending > cap

\* Nothing is printed before the process is there, and a call that is over
\* keeps its outcome; a result means that everything printed was read.
OutcomeInv ==
  /\ phase = "idle" => process = "none" /\ printed = 0
  /\ outcome = "result" => phase = "over" /\ process \in ExitCodes /\ pending = 0

TransportInv == TransportTypeOK /\ StreamInv /\ OutcomeInv

LEMMA InitTransport == TransportInit => TransportInv
<1> SUFFICES ASSUME TransportInit PROVE TransportInv
  OBVIOUS
<1>1. TransportTypeOK
  <2>1. tool = "ssh" /\ cap = 0 /\ phase = "idle" /\ process = "none" /\ outcome = "none"
    BY DEF TransportInit
  <2>2. check \in BOOLEAN /\ input \in BOOLEAN /\ overflow \in BOOLEAN
    BY DEF TransportInit
  <2>3. printed \in 0..MaxPrinted /\ pending \in 0..printed /\ total \in 0..MaxPrinted
    BY TransportAssumption DEF TransportInit
  <2>4. QED
    BY <2>1, <2>2, <2>3 DEF TransportTypeOK, Outcomes
<1>2. StreamInv
  BY DEF TransportInit, StreamInv, Lesser
<1>3. OutcomeInv
  BY DEF TransportInit, OutcomeInv
<1>4. QED
  BY <1>1, <1>2, <1>3 DEF TransportInv

LEMMA StepTransport == TransportInv /\ [TransportNext]_transportVars => TransportInv'
<1> SUFFICES ASSUME TransportInv, [TransportNext]_transportVars PROVE TransportInv'
  OBVIOUS
<1> USE TransportAssumption
    DEF TransportInv, TransportTypeOK, StreamInv, OutcomeInv, ExitCodes, Outcomes, Settle
<1>1. ASSUME NEW t \in {"ssh", "sftp"}, NEW max \in Caps, NEW checked \in BOOLEAN,
             NEW feeds \in {"none", "small", "large"}, StartRun(t, max, checked, feeds)
      PROVE  TransportInv'
  <2>1. cap' \in Nat /\ printed' = 0 /\ pending' = 0 /\ total' = 0 /\ ~overflow'
    BY <1>1 DEF StartRun, streamVars, Lesser
  <2>2. TransportTypeOK'
    BY <1>1, <2>1 DEF StartRun, streamVars
  <2>3. StreamInv'
    BY <2>1 DEF Lesser
  <2>4. OutcomeInv'
    BY <1>1 DEF StartRun, streamVars
  <2>5. QED
    BY <2>2, <2>3, <2>4
<1>2. CASE LaunchFails
  BY <1>2 DEF LaunchFails, callArgs, streamVars
<1>3. CASE RemoteReads
  BY <1>3 DEF RemoteReads, callArgs, streamVars
<1>4. CASE RemotePrints
  <2>1. PICK n \in 1..MaxPrinted - printed : printed' = printed + n /\ pending' = pending + n
    BY <1>4 DEF RemotePrints
  <2>2. process = "running" /\ phase # "idle"
    BY <1>4 DEF RemotePrints
  <2>3. printed' - pending' = printed - pending /\ printed' \in 0..MaxPrinted /\ pending' \in 0..printed'
    BY <2>1
  <2>4. QED
    BY <1>4, <2>2, <2>3 DEF RemotePrints, callArgs
<1>5. ASSUME NEW code \in ExitCodes, RemoteExits(code) PROVE TransportInv'
  BY <1>5 DEF RemoteExits, callArgs, streamVars
<1>6. CASE Fed
  BY <1>6 DEF Fed, callArgs, streamVars
<1>7. CASE InputBreaks
  BY <1>7 DEF InputBreaks, callArgs, streamVars
<1>8. ASSUME NEW n \in 1..Chunk, Collect(n) PROVE TransportInv'
  <2>1. n \in 1..pending /\ pending' = pending - n /\ printed' = printed /\ cap' = cap
    BY <1>8 DEF Collect, Lesser, callArgs
  <2>2. total' = Lesser(printed' - pending', cap')
    BY <1>8, <2>1 DEF Collect, Lesser
  <2>3. overflow' <=> printed' - pending' > cap'
    <3>1. overflow' <=> (overflow \/ n > cap - total)
      BY <1>8 DEF Collect
    <3>2. CASE printed - pending > cap
      BY <2>1, <3>1, <3>2
    <3>3. CASE printed - pending <= cap
      <4>1. total = printed - pending /\ ~overflow
        BY <3>3 DEF Lesser
      <4>2. n > cap - total <=> printed' - pending' > cap'
        BY <2>1, <4>1
      <4>3. QED
        BY <3>1, <4>1, <4>2
    <3>4. QED
      BY <3>2, <3>3
  <2>4. total' \in 0..MaxPrinted /\ overflow' \in BOOLEAN /\ pending' \in 0..printed'
    BY <1>8, <2>1, <2>2 DEF Collect, Lesser
  <2>5. OutcomeInv'
    BY <1>8, <2>1 DEF Collect, callArgs
  <2>6. TransportTypeOK'
    BY <1>8, <2>1, <2>4 DEF Collect, callArgs
  <2>7. QED
    BY <2>2, <2>3, <2>5, <2>6
<1>9. CASE Complete
  BY <1>9 DEF Complete, callArgs, streamVars
<1>10. CASE CompleteInWords
  BY <1>10 DEF CompleteInWords, callArgs, streamVars
<1>11. CASE TimeRunsOut
  BY <1>11 DEF TimeRunsOut, callArgs, streamVars
<1>12. CASE RequestCancelled
  BY <1>12 DEF RequestCancelled, callArgs, streamVars
<1>13. CASE UNCHANGED transportVars
  BY <1>13 DEF transportVars, callArgs, streamVars
<1>14. QED
  BY <1>1, <1>2, <1>3, <1>4, <1>5, <1>6, <1>7, <1>8, <1>9, <1>10, <1>11, <1>12, <1>13
  DEF TransportNext, LocalStep

LEMMA TransportInvariant == TransportInit /\ [][TransportNext]_transportVars => []TransportInv
  BY InitTransport, StepTransport, PTL

\* The variables keep their types, whatever the remote command prints and
\* whenever the timer, a cancelled request or a broken pipe ends the call.
THEOREM TransportTypes == TransportSpec => []TransportTypeOK
<1>1. TransportInv => TransportTypeOK
  BY DEF TransportInv
<1>2. QED
  BY <1>1, TransportInvariant, PTL DEF TransportSpec

LEMMA WholeOrFull == TransportInv => ShortResultsAreComplete
  BY DEF TransportInv, TransportTypeOK, StreamInv, OutcomeInv, ShortResultsAreComplete, Returned, Lesser

\* run_raw hands out all of the output or exactly max_output bytes of it, for
\* every way of cutting the stream into chunks.
THEOREM ResultsAreWholeOrFull == TransportSpec => []ShortResultsAreComplete
  BY WholeOrFull, TransportInvariant, PTL DEF TransportSpec

-----------------------------------------------------------------------------
(* The configuration: which place a setting is taken from. *)

\* The orders in which a setting's sources are asked.
Orders == {EnvThenSection, Everywhere, CliEnvTop, EnvThenTop, <<"cli", "env", "section">>}

LEMMA SshOrders == \A s \in DOMAIN SshSettings : SshSettings[s].sources \in Orders
  BY DEF SshSettings, Setting, Orders

LEMMA SlurmOrders == \A s \in DOMAIN SlurmSettings : SlurmSettings[s].sources \in Orders
  BY DEF SlurmSettings, Setting, Orders

LEMMA ShellOrders == \A s \in DOMAIN ShellSettings : ShellSettings[s].sources \in Orders
  BY DEF ShellSettings, Setting, Orders

LEMMA FilesOrders == \A s \in DOMAIN FilesSettings : FilesSettings[s].sources \in Orders
  BY DEF FilesSettings, Setting, Orders

LEMMA TopologyOrders == \A s \in DOMAIN TopologySettings : TopologySettings[s].sources \in Orders
  BY DEF TopologySettings, Setting, Orders

LEMMA ServerOrders == \A s \in DOMAIN ServerSettings : ServerSettings[s].sources \in Orders
  BY DEF ServerSettings, Setting, Orders

LEMMA TableOrders == \A s \in DOMAIN Table : s # "local_roots" => Table[s].sources \in Orders
<1>1. DOMAIN LocalRoots = {"local_roots"}
  BY DEF LocalRoots
<1> SUFFICES ASSUME NEW s \in DOMAIN Table, s # "local_roots"
             PROVE  Table[s].sources \in Orders
  OBVIOUS
<1> DEFINE t == CHOOSE x \in Tables : s \in DOMAIN x
<1>2. t \in Tables /\ s \in DOMAIN t /\ Table[s] = t[s]
  BY Zenon DEF Table
<1> HIDE DEF t
<1>3. ASSUME t = SshSettings PROVE Table[s].sources \in Orders
  BY <1>2, <1>3, SshOrders
<1>4. ASSUME t = SlurmSettings PROVE Table[s].sources \in Orders
  BY <1>2, <1>4, SlurmOrders
<1>5. ASSUME t = ShellSettings PROVE Table[s].sources \in Orders
  BY <1>2, <1>5, ShellOrders
<1>6. ASSUME t = FilesSettings PROVE Table[s].sources \in Orders
  BY <1>2, <1>6, FilesOrders
<1>7. ASSUME t = TopologySettings PROVE Table[s].sources \in Orders
  BY <1>2, <1>7, TopologyOrders
<1>8. ASSUME t = ServerSettings PROVE Table[s].sources \in Orders
  BY <1>2, <1>8, ServerOrders
<1>9. t # LocalRoots
  BY <1>1, <1>2
<1>10. QED
  BY <1>2, <1>3, <1>4, <1>5, <1>6, <1>7, <1>8, <1>9 DEF Tables

\* An order of sources follows the documented one, and asks the environment.
LEMMA OrderIsDocumented ==
  ASSUME NEW src \in Orders
  PROVE  /\ DOMAIN src \subseteq 1..4
         /\ \A j \in DOMAIN src : \E m \in DOMAIN Documented : src[j] = Documented[m]
         /\ \E k \in DOMAIN src : src[k] = "env"
         /\ \A j, k \in DOMAIN src, i, m \in DOMAIN Documented :
              src[j] = Documented[i] /\ src[k] = Documented[m] /\ i <= m => j <= k
<1>1. CASE src = <<"env", "section">>
  BY <1>1 DEF Documented
<1>2. CASE src = <<"cli", "env", "section", "top">>
  BY <1>2 DEF Documented
<1>3. CASE src = <<"cli", "env", "top">>
  BY <1>3 DEF Documented
<1>4. CASE src = <<"env", "top">>
  BY <1>4 DEF Documented
<1>5. CASE src = <<"cli", "env", "section">>
  BY <1>5 DEF Documented
<1>6. QED
  BY <1>1, <1>2, <1>3, <1>4, <1>5 DEF Orders, EnvThenSection, Everywhere, CliEnvTop, EnvThenTop

\* Of some places, the first is one of them and none is before it.
LEMMA FirstIsLeast ==
  ASSUME NEW I \in SUBSET (1..4), I # {}
  PROVE  First(I) \in I /\ \A j \in I : First(I) <= j
<1> DEFINE LeastOf(i) == i \in I /\ \A j \in I : i <= j
<1>0. \A j \in I : j = 1 \/ j = 2 \/ j = 3 \/ j = 4
  <2>1. \A j \in 1..4 : j = 1 \/ j = 2 \/ j = 3 \/ j = 4
    OBVIOUS
  <2>2. QED
    BY <2>1, Zenon
<1>1. 1 \in I => LeastOf(1)
  BY <1>0
<1>2. 1 \notin I /\ 2 \in I => LeastOf(2)
  BY <1>0
<1>3. 1 \notin I /\ 2 \notin I /\ 3 \in I => LeastOf(3)
  BY <1>0
<1>4. 1 \notin I /\ 2 \notin I /\ 3 \notin I /\ 4 \in I => LeastOf(4)
  BY <1>0
<1>5. 1 \in I \/ 2 \in I \/ 3 \in I \/ 4 \in I
  BY <1>0, Zenon
<1>6. \E i : LeastOf(i)
  <2> HIDE DEF LeastOf
  <2>1. QED
    BY <1>1, <1>2, <1>3, <1>4, <1>5, Zenon
<1>7. QED
  BY <1>6, Zenon DEF First

\* Reading a variable changes neither whether it is given nor the number it stands for.
LEMMA EnvKeepsNumber ==
  ASSUME NEW row, NEW v
  PROVE  (Missing(FromEnv(row, v)) <=> Missing(v)) /\ FromEnv(row, v).n = v.n
  BY DEF FromEnv, Missing, Value

-----------------------------------------------------------------------------
(* What a load leaves behind. *)

\* The load that was made: only places the setting is read from, or its key at
\* the top level, were filled, and its outcome and its warning are those of build_config.
Loaded ==
  /\ setting \in DOMAIN Table
  /\ given = [cli |-> given.cli, env |-> given.env, section |-> given.section,
              top |-> given.top, hyphen |-> given.hyphen]
  /\ HasSource(setting, "cli") \/ given.cli = Unset
  /\ HasSource(setting, "section") \/ (given.section = Unset /\ given.hyphen = Unset)
  /\ effective = Outcome(Table[setting], given)
  /\ warned = UnknownKey(setting, given)

SettingsInv ==
  \/ setting = "none" /\ effective = Unset /\ warned = FALSE
  \/ Loaded

LEMMA InitSettings == SettingsInit => SettingsInv
  BY DEF SettingsInit, SettingsInv

LEMMA StepSettings == SettingsInv /\ [SettingsNext]_settingsVars => SettingsInv'
<1>1. ASSUME SettingsInv, UNCHANGED settingsVars PROVE SettingsInv'
  BY <1>1 DEF SettingsInv, Loaded, settingsVars
<1>2. ASSUME SettingsNext PROVE Loaded'
  <2>1. PICK s \in DOMAIN Table, c \in InCli, e \in InEnv, f \in InSection, t \in InTop, h \in InHyphen :
          /\ HasSource(s, "cli") \/ c = Unset
          /\ HasSource(s, "section") \/ (f = Unset /\ h = Unset)
          /\ Load(s, [cli |-> c, env |-> e, section |-> f, top |-> t, hyphen |-> h])
    BY <1>2, Zenon DEF SettingsNext
  <2> DEFINE g == [cli |-> c, env |-> e, section |-> f, top |-> t, hyphen |-> h]
  <2>2. g.cli = c /\ g.env = e /\ g.section = f /\ g.top = t /\ g.hyphen = h
    OBVIOUS
  <2>3. g = [cli |-> g.cli, env |-> g.env, section |-> g.section, top |-> g.top, hyphen |-> g.hyphen]
    BY <2>2
  <2>4. setting' = s /\ given' = g /\ effective' = Outcome(Table[s], g) /\ warned' = UnknownKey(s, g)
    BY <2>1 DEF Load
  <2> HIDE DEF g
  <2>5. QED
    BY <2>1, <2>2, <2>3, <2>4, Zenon DEF Loaded
<1>3. QED
  BY <1>1, <1>2 DEF SettingsInv

LEMMA SettingsInvariant == SettingsSpec => []SettingsInv
  BY InitSettings, StepSettings, PTL DEF SettingsSpec

LEMMA SettingsTyped == SettingsInv => SettingsTypeOK
<1>1. ASSUME setting = "none" /\ effective = Unset /\ warned = FALSE PROVE SettingsTypeOK
  BY <1>1 DEF SettingsTypeOK, Unset, Value
<1>2. ASSUME Loaded PROVE SettingsTypeOK
  <2>1. warned \in BOOLEAN
    <3>1. UnknownKey(setting, given) \in BOOLEAN
      BY Zenon DEF UnknownKey
    <3>2. QED
      BY <1>2, <3>1, Zenon DEF Loaded
  <2>2. effective.form \in {"ok", "refused"}
    BY <1>2 DEF Loaded, Outcome, Value
  <2>3. QED
    BY <1>2, <2>1, <2>2 DEF Loaded, SettingsTypeOK
<1>3. QED
  BY <1>1, <1>2 DEF SettingsInv

-----------------------------------------------------------------------------
(* Which place wins. *)

\* The load of a setting other than local_roots obeys the documented order.
LEMMA LayersInOrder == Loaded => HighestLayerWins
<1> SUFFICES ASSUME Loaded, effective.form = "ok", setting # "local_roots"
             PROVE  HighestLayerWins
  BY DEF HighestLayerWins
<1> DEFINE row == Table[setting]
           src == row.sources
           g   == Normalized(given)
           h   == [g EXCEPT !.env = FromEnv(row, given.env)]
           S   == {i \in DOMAIN src : ~Missing(h[src[i]])}
           G   == {i \in DOMAIN Documented : ~Missing(g[Documented[i]])}
<1>0. src \in Orders
  BY TableOrders DEF Loaded
<1>1. /\ DOMAIN src \subseteq 1..4
      /\ \A j \in DOMAIN src : \E m \in DOMAIN Documented : src[j] = Documented[m]
      /\ \E k \in DOMAIN src : src[k] = "env"
      /\ \A j, k \in DOMAIN src, i, m \in DOMAIN Documented :
           src[j] = Documented[i] /\ src[k] = Documented[m] /\ i <= m => j <= k
  <2> HIDE DEF src
  <2>1. QED
    BY <1>0, OrderIsDocumented
<1>2. /\ g.cli = given.cli /\ g.env = given.env /\ g.top = given.top
      /\ g.section = IF given.section # Unset THEN given.section ELSE given.hyphen
  BY DEF Loaded, Normalized
<1>3. /\ h["cli"] = g["cli"] /\ h["section"] = g["section"] /\ h["top"] = g["top"]
      /\ h["env"] = FromEnv(row, given.env)
  BY DEF Loaded, Normalized
<1>4. \A i \in DOMAIN Documented : (Missing(h[Documented[i]]) <=> Missing(g[Documented[i]]))
                                   /\ h[Documented[i]].n = g[Documented[i]].n
  <2> HIDE DEF g, h, row
  <2>1. \A p \in {"cli", "env", "section", "top"} : (Missing(h[p]) <=> Missing(g[p])) /\ h[p].n = g[p].n
    <3>1. h["env"] = FromEnv(row, g["env"])
      BY <1>2, <1>3
    <3>2. (Missing(h["env"]) <=> Missing(g["env"])) /\ h["env"].n = g["env"].n
      BY <3>1, EnvKeepsNumber
    <3>3. QED
      BY <1>3, <3>2, Zenon
  <2>2. \A i \in DOMAIN Documented : Documented[i] \in {"cli", "env", "section", "top"}
    BY DEF Documented
  <2>3. QED
    BY <2>1, <2>2, Zenon
<1>5. effective.n = IF S = {} THEN row.default ELSE h[src[First(S)]].n
  <2>1. effective = Outcome(row, given)
    BY DEF Loaded
  <2>2. effective.n = Coalesce(row, h).n
    BY <2>1 DEF Outcome, Value
  <2>3. QED
    BY <2>2 DEF Coalesce, Value
<1>6. ASSUME G = {} PROVE effective.n = row.default
  <2>1. \A j \in DOMAIN src : Missing(h[src[j]])
    <3> HIDE DEF g, h, row, src
    <3>1. \A m \in DOMAIN Documented : Missing(h[Documented[m]])
      BY <1>4, <1>6, Zenon
    <3>2. QED
      BY <1>1, <3>1, Zenon
  <2>2. QED
    BY <1>5, <2>1
<1>7. ASSUME NEW i \in G, \A j \in G : i <= j, NEW k \in DOMAIN src, src[k] = Documented[i]
      PROVE  effective.n = g[Documented[i]].n
  <2> HIDE DEF g, h, row, src
  <2>1. k \in S
    BY <1>4, <1>7, Zenon
  <2>2. \A j \in S : k <= j
    <3> SUFFICES ASSUME NEW j \in S PROVE k <= j
      OBVIOUS
    <3>1. PICK m \in DOMAIN Documented : src[j] = Documented[m]
      BY <1>1, Zenon
    <3>2. m \in G
      BY <1>4, <3>1, Zenon
    <3>3. QED
      BY <1>1, <1>7, <3>1, <3>2, Zenon
  <2>3. First(S) \in S /\ First(S) <= k
    BY <1>1, <2>1, FirstIsLeast
  <2>4. First(S) = k
    <3>1. S \subseteq 1..4
      BY <1>1
    <3>2. QED
      BY <2>1, <2>2, <2>3, <3>1
  <2>5. QED
    BY <1>4, <1>5, <1>7, <2>1, <2>4, Zenon
<1>8. ASSUME NEW i \in G, ~\E k \in DOMAIN src : src[k] = Documented[i]
      PROVE  Documented[i] = "top" /\ (warned \/ setting \in KnownButUnread)
  <2>0. \A p : HasSource(setting, p) <=> \E k \in DOMAIN src : src[k] = p
    BY Zenon DEF HasSource
  <2> HIDE DEF g, h, row, src
  <2>1. Documented[i] \in {"cli", "env", "section", "top"} /\ ~Missing(g[Documented[i]])
    BY DEF Documented
  <2>2. Missing(Unset)
    BY DEF Missing, Unset, Value
  <2>3. Documented[i] # "env"
    BY <1>1, <1>8, Zenon
  <2>4. Documented[i] # "cli"
    <3> SUFFICES ASSUME Documented[i] = "cli" PROVE FALSE
      OBVIOUS
    <3>1. given.cli = Unset
      BY <1>8, <2>0, Zenon DEF Loaded
    <3>2. QED
      BY <1>2, <2>1, <2>2, <3>1
  <2>5. Documented[i] # "section"
    <3> SUFFICES ASSUME Documented[i] = "section" PROVE FALSE
      OBVIOUS
    <3>1. given.section = Unset /\ given.hyphen = Unset
      BY <1>8, <2>0, Zenon DEF Loaded
    <3>2. QED
      BY <1>2, <2>1, <2>2, <3>1
  <2>6. Documented[i] = "top"
    BY <2>1, <2>3, <2>4, <2>5
  <2>7. given.top # Unset
    BY <1>2, <2>1, <2>2, <2>6
  <2>8. warned = UnknownKey(setting, given)
    BY DEF Loaded
  <2>9. QED
    BY <1>8, <2>0, <2>6, <2>7, <2>8, Zenon DEF UnknownKey
<1>9. QED
  <2>1. G = {} => effective.n = row.default
    BY <1>6
  <2>2. \A i \in G : (\A j \in G : i <= j) =>
          \/ effective.n = g[Documented[i]].n
          \/ Documented[i] = "top" /\ (warned \/ setting \in KnownButUnread)
    BY <1>7, <1>8, Zenon
  <2>3. QED
    BY <2>1, <2>2, Zenon DEF HighestLayerWins

LEMMA UnloadedObeys == setting = "none" => HighestLayerWins
  BY DEF HighestLayerWins

\* Every setting build_config looks at ends with a value or a refusal.
THEOREM SettingsTypes == SettingsSpec => []SettingsTypeOK
  BY SettingsInvariant, SettingsTyped, PTL

\* Whatever an administrator writes in any of the places, an accepted configuration
\* takes each setting from the highest that gives it, zero included (_coalesce,
\* _env_int, _normalize_keys), or a key that is not read is reported (_warn_unknown_keys).
THEOREM LayersObeyed == SettingsSpec => []HighestLayerWins
<1>1. SettingsInv => HighestLayerWins
  BY LayersInOrder, UnloadedObeys DEF SettingsInv
<1>2. QED
  BY SettingsInvariant, <1>1, PTL

-----------------------------------------------------------------------------
(* Server: one component moves at a time, and the others are left alone. *)

LEMMA StepIsOfParts ==
    ASSUME [ServerNext]_serverVars
    PROVE  /\ [WaitNext]_waitVars /\ [FilesNext]_filesVars /\ [ListingNext]_listingVars
           /\ [TransportNext]_transportVars /\ [PolicyNext]_policyVars /\ [SettingsNext]_settingsVars
<1>1. CASE UNCHANGED serverVars
  BY <1>1, Zenon DEF serverVars
<1>2. CASE ServerNext
  BY <1>2, Zenon DEF ServerNext
<1>3. QED
  BY <1>1, <1>2

\* Every behaviour of Server is one of each of its components, up to the fairness
\* that Server asks only of the part that runs: what is proved of the components
\* therefore holds when they run in one process.
THEOREM ServerIsItsParts ==
  ServerSpec => /\ WaitInit /\ [][WaitNext]_waitVars
                /\ TransportInit /\ [][TransportNext]_transportVars
                /\ FilesSpec /\ ListingSpec /\ PolicySpec /\ SettingsSpec
<1>1. ServerInit => /\ WaitInit /\ FilesInit /\ ListingInit
                    /\ TransportInit /\ PolicyInit /\ SettingsInit
  BY Zenon DEF ServerInit
<1>2. [ServerNext]_serverVars =>
        /\ [WaitNext]_waitVars /\ [FilesNext]_filesVars /\ [ListingNext]_listingVars
        /\ [TransportNext]_transportVars /\ [PolicyNext]_policyVars /\ [SettingsNext]_settingsVars
  BY StepIsOfParts
<1>3. QED
  BY <1>1, <1>2, PTL DEF ServerSpec, FilesSpec, ListingSpec, PolicySpec, SettingsSpec

\* Every variable of every component keeps its type.
THEOREM ServerTypes == ServerSpec => []TypeOK
<1>1. WaitInv /\ WaitRanges => WaitTypeOK
  BY WaitTyped
<1>2. TransportInv => TransportTypeOK
  BY DEF TransportInv
<1>3. WaitTypeOK /\ FilesTypeOK /\ ListingTypeOK /\ TransportTypeOK /\ PolicyTypeOK /\ SettingsTypeOK
        => TypeOK
  BY Zenon DEF TypeOK
<1>4. QED
  BY <1>1, <1>2, <1>3, ServerIsItsParts, WaitInvariant, TransportInvariant, FilesTypes, ListingTypes,
     PolicyTypes, SettingsTypes, PTL

\* What wait and run_raw report, what the file service does to files, what listings
\* announce, what the policy grants and recommends and what the configuration takes
\* from where: all of it, in every state of Server, wherever there is a partition.
THEOREM ServerKeepsPromises ==
  ASSUME Limits.partitions # <<>>
  PROVE  ServerSpec => []( /\ EndIsReal /\ GiveUpIsInformed
                           /\ AcceptedWriteKnowsFile /\ NothingTorn /\ ReportedSizes /\ SlicesAssemble
                           /\ MissingIsAnnounced /\ ShortResultsAreComplete
                           /\ GrantFitsLimits /\ AskedIsGranted /\ RecommendationFits
                           /\ HighestLayerWins )
<1>1. WaitInv => EndIsReal /\ GiveUpIsInformed
  BY DEF WaitInv
<1>2. PolicySpec => []RecommendationFits
  BY RecommendationsFit
<1>3. QED
  BY <1>1, <1>2, WholeOrFull, ServerIsItsParts, WaitInvariant, TransportInvariant, WritesKnowFile,
     NoTornFiles, SizesReported, ReadersAssemble, CursorsMissNothing, GrantsFitLimits,
     GrantsAreAsAsked, LayersObeyed, PTL
=============================================================================

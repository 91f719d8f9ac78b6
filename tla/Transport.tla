----------------------------- MODULE Transport -----------------------------
(***************************************************************************)
(* SshManager.run_raw and SftpClient._run_batch: one local ssh or sftp     *)
(* process, its input, its two output streams, which are read in chunks up *)
(* to a cap, and a timer.  Output is counted in bytes: what was kept is    *)
(* always the beginning of what was printed.                               *)
(***************************************************************************)
EXTENDS Integers

CONSTANTS
  Caps,        \* values of max_output
  Chunk,       \* the most one read takes from a stream
  MaxPrinted,  \* bound: bytes the remote command prints
  SftpCap,     \* the cap of an sftp batch
  HardCap      \* the transport's hard ceiling of max_output

ASSUME TransportAssumption ==
  /\ Caps \subseteq Nat /\ Chunk \in Nat \ {0} /\ MaxPrinted \in Nat
  /\ SftpCap \in Nat /\ HardCap \in Nat /\ SftpCap <= HardCap

VARIABLES
  tool,       \* "ssh" or "sftp"
  cap,        \* max_output
  check,      \* whether a failing exit raises
  phase,      \* where the call is
  input,      \* input beyond the buffers that the remote side has yet to read
  process,    \* "running", the exit code of the local process, or "killed"
  printed,    \* bytes written to stdout
  pending,    \* of these, bytes not yet read by collect
  total,      \* bytes collect has kept
  overflow,   \* truncated
  outcome     \* what the caller gets

callArgs      == <<tool, cap, check>>
streamVars    == <<printed, pending, total, overflow>>
transportVars == <<callArgs, phase, input, process, streamVars, outcome>>

Lesser(a, b) == IF a < b THEN a ELSE b
ExitCodes == {"0", "1", "255"}
Outcomes  == {"none", "result", "SshError", "RemoteCommandError", "cancelled"}

TransportInit ==
  /\ tool = "ssh" /\ cap = 0 /\ check = TRUE
  /\ phase = "idle" /\ input = FALSE /\ process = "none"
  /\ printed = 0 /\ pending = 0 /\ total = 0 /\ overflow = FALSE
  /\ outcome = "none"

Settle(o) == phase' = "over" /\ outcome' = o

\* The argument checks, and the launch of the process; readers start at once.
StartRun(t, max, checked, feeds) ==
  /\ phase = "idle"
  /\ tool' = t
  /\ cap' = IF t = "sftp" THEN SftpCap ELSE max
  /\ check' = (checked \/ t = "sftp")
  /\ IF t = "ssh" /\ max > HardCap
     THEN Settle("SshError") /\ UNCHANGED <<input, process>>
     ELSE /\ phase' = IF feeds # "none" \/ t = "sftp" THEN "stdin" ELSE "running"
          /\ input' = (feeds = "large" /\ t = "ssh")
          /\ process' = "running"
          /\ UNCHANGED outcome
  /\ UNCHANGED streamVars

LaunchFails ==
  /\ phase = "idle"
  /\ Settle("SshError")
  /\ UNCHANGED <<callArgs, input, process, streamVars>>

\* The remote command reads its input, prints and exits, in any order.
RemoteReads ==
  /\ input /\ process = "running"
  /\ input' = FALSE
  /\ UNCHANGED <<callArgs, phase, process, streamVars, outcome>>
RemotePrints ==
  /\ process = "running" /\ printed < MaxPrinted
  /\ \E n \in 1..MaxPrinted - printed : printed' = printed + n /\ pending' = pending + n
  /\ UNCHANGED <<callArgs, phase, input, process, total, overflow, outcome>>
RemoteExits(code) ==
  /\ process = "running"
  /\ process' = code
  /\ UNCHANGED <<callArgs, phase, input, streamVars, outcome>>

\* stdin.write and drain: input that exceeds the buffers is waited for, under no timeout.
Fed ==
  /\ phase = "stdin" /\ ~input
  /\ phase' = "running"
  /\ UNCHANGED <<callArgs, input, process, streamVars, outcome>>

\* BrokenPipeError: the process has ended before its input was written.
InputBreaks ==
  /\ phase = "stdin" /\ process \notin {"running", "killed"}
  /\ process' = "killed"
  /\ Settle("SshError")
  /\ UNCHANGED <<callArgs, input, streamVars>>

\* Deliberate variant: a chunk that does not fit is dropped as a whole.
Collect_DropsChunk(n) ==
  /\ phase \in {"stdin", "running"}
  /\ n \in 1..Lesser(Chunk, pending)
  /\ pending' = pending - n
  /\ total' = IF n <= cap - total THEN total + n ELSE total
  /\ overflow' = (overflow \/ n > cap - total)
  /\ UNCHANGED <<callArgs, phase, input, process, printed, outcome>>

\* collect: one chunk; what is beyond the cap is read and dropped.
Collect(n) ==
  /\ phase \in {"stdin", "running"}
  /\ n \in 1..Lesser(Chunk, pending)
  /\ pending' = pending - n
  /\ total' = total + Lesser(n, cap - total)
  /\ overflow' = (overflow \/ n > cap - total)
  /\ UNCHANGED <<callArgs, phase, input, process, printed, outcome>>
\* The length of the result: the truncation marker is appended and cut off again,
\* because the data alone fills the cap.
Returned == Lesser(total, cap)

\* All is read and the process has ended: the result, or what it means.
Complete ==
  /\ phase = "running" /\ pending = 0 /\ process \in ExitCodes
  /\ Settle(CASE process = "0" -> "result"
              [] process = "255" /\ tool = "ssh" -> "SshError"
              [] process # "0" /\ check -> "RemoteCommandError"
              [] OTHER -> "result")
  /\ UNCHANGED <<callArgs, input, process, streamVars>>

\* An sftp that reports an error in words although it exits with 0.
CompleteInWords ==
  /\ phase = "running" /\ pending = 0 /\ tool = "sftp" /\ process = "0"
  /\ Settle("RemoteCommandError")
  /\ UNCHANGED <<callArgs, input, process, streamVars>>

\* Deliberate variant: the timer only runs until the first output.
TimeRunsOut_OnlyIfSilent ==
  /\ phase = "running" /\ printed = 0
  /\ process' = IF process = "running" THEN "killed" ELSE process
  /\ Settle("SshError")
  /\ UNCHANGED <<callArgs, input, streamVars>>

\* wait_for: the local process is killed; its timer runs from the end of stdin.
TimeRunsOut ==
  /\ phase = "running"
  /\ process' = IF process = "running" THEN "killed" ELSE process
  /\ Settle("SshError")
  /\ UNCHANGED <<callArgs, input, streamVars>>
\* The request is cancelled: nothing stops the process.
RequestCancelled ==
  /\ phase \in {"stdin", "running"}
  /\ Settle("cancelled")
  /\ UNCHANGED <<callArgs, input, process, streamVars>>

LocalStep ==
  \/ Fed \/ InputBreaks
  \/ \E n \in 1..Chunk : Collect(n)
  \/ Complete \/ CompleteInWords \/ TimeRunsOut

TransportNext ==
  \/ \E t \in {"ssh", "sftp"}, max \in Caps, checked \in BOOLEAN, feeds \in {"none", "small", "large"} :
       StartRun(t, max, checked, feeds)
  \/ LaunchFails
  \/ RemoteReads \/ RemotePrints
  \/ \E code \in ExitCodes : RemoteExits(code)
  \/ LocalStep
  \/ RequestCancelled

TransportSpec ==
  TransportInit /\ [][TransportNext]_transportVars /\ WF_transportVars(LocalStep)

-----------------------------------------------------------------------------
(* Properties. *)

TransportTypeOK ==
  /\ tool \in {"ssh", "sftp"} /\ cap \in Nat /\ check \in BOOLEAN
  /\ phase \in {"idle", "stdin", "running", "over"} /\ input \in BOOLEAN
  /\ process \in ExitCodes \cup {"none", "running", "killed"}
  /\ printed \in 0..MaxPrinted /\ pending \in 0..printed /\ total \in 0..MaxPrinted
  /\ overflow \in BOOLEAN /\ outcome \in Outcomes

\* A result is all the command has printed, or exactly max_output bytes of it:
\* a result shorter than the cap is complete, and no bigger one comes back,
\* however the stream was cut into chunks.  (A full result may be a cut one; the
\* marker that should tell is itself cut off.)
ShortResultsAreComplete ==
  outcome = "result" =>
    /\ Returned <= cap
    /\ Returned < cap => Returned = printed
    /\ overflow => Returned = cap /\ printed > cap

\* A call that has started ends, whatever the remote command does, unless the
\* remote side never reads the input it is sent: the timer only starts after it.
CallEnds == (phase # "idle" ~> phase = "over") \/ <>[](phase = "stdin" /\ input)
=============================================================================

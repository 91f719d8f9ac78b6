------------------------------- MODULE Files -------------------------------
(***************************************************************************)
(* FileService and TransferService on one file `Here` and a second path    *)
(* `There`: write_file with its expectations, append, upload, read_file    *)
(* slice by slice, download, delete, rename and mkdir.  Each call is a     *)
(* sequence of remote commands; between two of them other calls, of this   *)
(* or another instance, change the file.  A byte is a pair of its payload  *)
(* and its place there; every payload has Size bytes, and the bytes of     *)
(* the old content together are one character.                             *)
(***************************************************************************)
EXTENDS Integers, Sequences, FiniteSets

CONSTANTS
  Calls,           \* the calls
  OpsOf,           \* the operations each call may be
  ExpectationsOf,  \* what each call may expect: sets of "size", "mtime", "sha256"
  Slices,          \* slice lengths a reader may use (max_bytes)
  Size,            \* length of a payload
  MaxClock         \* bound of the clock of mtimes, in seconds

Old == "old"
FileOps == {"write", "append", "upload", "read", "download", "delete", "rename", "mkdir"}

ASSUME FilesAssumption ==
  /\ Old \notin Calls
  /\ OpsOf \in [Calls -> SUBSET FileOps]
  /\ ExpectationsOf \in [Calls -> SUBSET SUBSET {"size", "mtime", "sha256"}]
  /\ Slices \subseteq Nat \ {0} /\ Size \in Nat \ {0} /\ MaxClock \in Nat

VARIABLES
  file,    \* what is at each path
  mtime,   \* the second "here" was last changed
  clock,
  op,      \* the operation of each call
  expect,  \* its expectations
  slice,   \* its slice length
  step,    \* its next command
  probed,  \* what stat told it: existed_before, previous_size; and, as history,
           \* whether it took a failing command for an answer (misled)
  fd,      \* the path its remote process has open for writing
  sent,    \* bytes its remote process has written
  got,     \* what it has read
  result,  \* what its caller was told
  saw,     \* history: the file as its agent had read it
  others,  \* history: the checks since which another call has changed the file
  blurred, \* history: another call changed it in the second of the mtime it saw
  torn     \* history: a payload was cut, or two were written at the same time

argsOf   == <<op, expect, slice>>
fileVars == <<file, mtime, clock, others, blurred>>
filesVars == <<fileVars, argsOf, step, probed, fd, sent, got, result, saw, torn>>

Paths     == {"here", "there"}
Absent    == << <<"absent", 0>> >>
Directory == << <<"directory", 0>> >>
Hole      == <<"hole", 0>>
Replaced  == <<"?", 0>>
Bytes     == ({Old} \cup Calls) \X (1..Size) \cup {Hole}
Contents  == {Absent, Directory} \cup Seq(Bytes)
Payload(c) == [i \in 1..Size |-> <<c, i>>]
Regular(x) == x \notin {Absent, Directory}
Length(x)  == IF Regular(x) THEN Len(x) ELSE 0

FilesInit ==
  /\ file = [p \in Paths |-> IF p = "here" THEN Payload(Old) ELSE Absent]
  /\ mtime = 0 /\ clock = 0
  /\ op = [c \in Calls |-> "none"] /\ expect = [c \in Calls |-> {}]
  /\ slice = [c \in Calls |-> 1] /\ step = [c \in Calls |-> "begin"]
  /\ probed = [c \in Calls |-> [existed |-> FALSE, size |-> 0, misled |-> FALSE]]
  /\ fd = [c \in Calls |-> "none"] /\ sent = [c \in Calls |-> 0]
  /\ got = [c \in Calls |-> <<>>] /\ result = [c \in Calls |-> "none"]
  /\ saw = [c \in Calls |-> [content |-> Absent, mtime |-> 0]]
  /\ others = [c \in Calls |-> {}] /\ blurred = [c \in Calls |-> FALSE]
  /\ torn = FALSE

Proceed(c, s) == step' = [step EXCEPT ![c] = s] /\ UNCHANGED result
End(c, r)     == step' = [step EXCEPT ![c] = "done"] /\ result' = [result EXCEPT ![c] = r]

Active(c) == step[c] \notin {"begin", "done"}

\* Call c makes the files f; what the other calls under way have checked is older.
Change(c, f) ==
  /\ file' = f
  /\ mtime' = IF f["here"] = file["here"] THEN mtime ELSE clock
  /\ others' = [d \in Calls |-> IF d # c /\ Active(d) THEN {"probe", "hash"} ELSE others[d]]
  /\ blurred' = [d \in Calls |-> blurred[d] \/ (d # c /\ Active(d) /\ clock = saw[d].mtime)]
  /\ UNCHANGED clock

-----------------------------------------------------------------------------
(* Beginning, path resolution, and the checks of write_file. *)

\* The agent of c has just read the file, and asks for o expecting e of it.
BeginFile(c, o, e, n) ==
  /\ step[c] = "begin" /\ o \in OpsOf[c]
  /\ e # {} => o \in {"write", "append"} /\ Regular(file["here"])
  /\ o # "read" => n = 1
  /\ op' = [op EXCEPT ![c] = o]
  /\ expect' = [expect EXCEPT ![c] = e]
  /\ slice' = [slice EXCEPT ![c] = n]
  /\ saw' = [saw EXCEPT ![c] = [content |-> file["here"], mtime |-> mtime]]
  /\ blurred' = [blurred EXCEPT ![c] = FALSE]
  /\ others' = [others EXCEPT ![c] = {}]
  /\ Proceed(c, "resolve")
  /\ UNCHANGED <<file, mtime, clock, probed, fd, sent, got, torn>>

\* resolve_existing and resolve_for_create, and the size limits: a path outside
\* the root, a symlink, or an oversized payload is refused.
Resolve(c, accepted) ==
  /\ step[c] = "resolve"
  /\ IF ~accepted THEN End(c, "refused")
     ELSE Proceed(c, CASE op[c] \in {"write", "append"} -> "probe"
                       [] op[c] = "upload" -> "open"
                       [] op[c] \in {"read", "download"} -> "size"
                       [] OTHER -> "act")
  /\ UNCHANGED <<fileVars, argsOf, probed, fd, sent, got, saw, torn>>

\* Deliberate variant: the mtime is not compared.
AsExpected_AnyMtime(c, existed, size) ==
  /\ expect[c] # {} => existed
  /\ "size" \in expect[c] => size = Length(saw[c].content)

\* The expectations that the stat before a write can answer.
AsExpected(c, existed, size) ==
  /\ expect[c] # {} => existed
  /\ "size" \in expect[c] => size = Length(saw[c].content)
  /\ "mtime" \in expect[c] => mtime = saw[c].mtime

\* The sizes stat may tell; a directory has one too.
StatSizes == IF file["here"] = Directory THEN {0, Size} ELSE {Length(file["here"])}

\* The stat before a write runs with check=False: when it exits with an error,
\* for whatever reason, the file is taken for a new one and the write goes on.
Probe(c) ==
  /\ step[c] = "probe"
  /\ \E existed \in BOOLEAN, size \in StatSizes :
       /\ existed => file["here"] # Absent
       /\ probed' = [probed EXCEPT ![c] =
             [existed |-> existed, size |-> IF existed THEN size ELSE 0,
              misled |-> ~existed /\ file["here"] # Absent]]
       /\ IF AsExpected(c, existed, size)
          THEN Proceed(c, IF "sha256" \in expect[c] THEN "hash" ELSE "open")
          ELSE End(c, "refused")
  /\ others' = [others EXCEPT ![c] = @ \ {"probe"}]
  /\ UNCHANGED <<file, mtime, clock, blurred, argsOf, fd, sent, got, saw, torn>>

\* _remote_sha256, a command of its own.
Hash(c) ==
  /\ step[c] = "hash"
  /\ others' = [others EXCEPT ![c] = @ \ {"hash"}]
  /\ IF file["here"] = saw[c].content THEN Proceed(c, "open") ELSE End(c, "refused")
  /\ UNCHANGED <<file, mtime, clock, blurred, argsOf, probed, fd, sent, got, saw, torn>>

-----------------------------------------------------------------------------
(* The remote half of a write: base64 -d > file, >> file, or the sftp put. *)

\* Deliberate variant: what was there stays.
Open_NoTruncate(c) ==
  /\ step[c] = "open" /\ file["here"] # Directory
  /\ Change(c, [file EXCEPT !["here"] = IF Regular(@) THEN @ ELSE <<>>])
  /\ fd' = [fd EXCEPT ![c] = "here"]
  /\ torn' = (torn \/ \E d \in Calls : fd[d] = "here")
  /\ Proceed(c, "send")
  /\ UNCHANGED <<argsOf, probed, sent, got, saw>>

\* The redirection: > truncates, >> appends, a directory cannot be opened.
Open(c) ==
  /\ step[c] = "open"
  /\ IF file["here"] = Directory
     THEN End(c, "error") /\ UNCHANGED <<fileVars, fd, torn>>
     ELSE /\ Change(c, [file EXCEPT !["here"] =
                          IF op[c] = "append" /\ Regular(@) THEN @ ELSE <<>>])
          /\ fd' = [fd EXCEPT ![c] = "here"]
          /\ torn' = (torn \/ \E d \in Calls : fd[d] = "here")
          /\ Proceed(c, "send")
  /\ UNCHANGED <<argsOf, probed, sent, got, saw>>

\* Byte b at place i; what lies between the end and i becomes a hole.
PutAt(s, i, b) ==
  [k \in 1..(IF i > Len(s) THEN i ELSE Len(s)) |->
     IF k = i THEN b ELSE IF k <= Len(s) THEN s[k] ELSE Hole]

\* The next byte arrives and is written; after the last one the process ends.
Send(c) ==
  /\ step[c] = "send" /\ sent[c] < Size
  /\ LET b == <<c, sent[c] + 1>>
         s == file[fd[c]] IN
     IF fd[c] \in Paths
     THEN Change(c, [file EXCEPT ![fd[c]] =
                       IF op[c] = "append" THEN Append(s, b) ELSE PutAt(s, sent[c] + 1, b)])
     ELSE UNCHANGED fileVars
  /\ sent' = [sent EXCEPT ![c] = @ + 1]
  /\ UNCHANGED <<argsOf, step, probed, fd, got, result, saw, torn>>

\* Deliberate variant: the last byte may be missing.
Written_ButTheLast(c) == sent[c] >= Size - 1

\* The process ends when it has written everything.
Written(c) == sent[c] = Size

FinishWrite(c) ==
  /\ step[c] = "send" /\ Written(c)
  /\ fd' = [fd EXCEPT ![c] = "none"]
  /\ Proceed(c, IF result[c] = "none" THEN "reply" ELSE "done")
  /\ UNCHANGED <<fileVars, argsOf, probed, sent, got, saw, torn>>

\* new_size in the reply, from the probe and the length of the payload.
NewSize(c) == (IF op[c] = "append" THEN probed[c].size ELSE 0) + Size

ReplyWrite(c) ==
  /\ step[c] = "reply"
  /\ End(c, "ok")
  /\ UNCHANGED <<fileVars, argsOf, probed, fd, sent, got, saw, torn>>

\* The timeout kills the local process and raises; the remote one goes on ...
GiveUpWrite(c) ==
  /\ step[c] \in {"open", "send"} /\ result[c] = "none"
  /\ result' = [result EXCEPT ![c] = "error"]
  /\ UNCHANGED <<fileVars, argsOf, step, probed, fd, sent, got, saw, torn>>

\* ... or meets the end of its input early, or was never started.
CutOff(c) ==
  /\ step[c] \in {"open", "send"} /\ result[c] = "error"
  /\ step' = [step EXCEPT ![c] = "done"]
  /\ fd' = [fd EXCEPT ![c] = "none"]
  /\ torn' = (torn \/ (step[c] = "send" /\ sent[c] < Size))
  /\ UNCHANGED <<fileVars, argsOf, probed, sent, got, result, saw>>

-----------------------------------------------------------------------------
(* Reading. *)

\* The stat before a slice, which takes a directory too, or before a download,
\* which only takes a regular file.  Here a failing stat is an error.
StatSize(c) ==
  /\ step[c] = "size"
  /\ \E size \in StatSizes : probed' = [probed EXCEPT ![c].size = size]
  /\ CASE file["here"] = Absent -> End(c, "error")
       [] file["here"] = Directory /\ op[c] = "download" -> End(c, "refused")
       [] OTHER -> Proceed(c, IF op[c] = "read" THEN "dd" ELSE "get")
  /\ UNCHANGED <<fileVars, argsOf, fd, sent, got, saw, torn>>

\* What there is to read at the path.
Readable == IF Regular(file["here"]) THEN file["here"] ELSE <<>>

\* Deliberate variant: `tail -c +offset`, which counts bytes from 1.
Data_TailNotDd(c) ==
  LET s == Readable
      n == Len(got[c])
      first == IF n = 0 THEN 1 ELSE n IN
  SubSeq(s, first, IF first + slice[c] - 1 < Len(s) THEN first + slice[c] - 1 ELSE Len(s))

\* One byte more than wanted is fetched, and cut off again.
Data(c) ==
  LET s == Readable IN
  SubSeq(s, Len(got[c]) + 1, IF Len(got[c]) + slice[c] < Len(s) THEN Len(got[c]) + slice[c] ELSE Len(s))

\* decode("utf-8", errors="replace"): a piece of a character is replaced.
Decoded(d) ==
  [k \in DOMAIN d |->
     IF d[k][1] = Old /\ \E i \in 1..Size : /\ k - d[k][2] + i \notin DOMAIN d
                                               \/ d[k - d[k][2] + i] # <<Old, i>>
     THEN Replaced ELSE d[k]]

\* dd | base64, whose exit status is that of base64: when dd fails, after some
\* bytes or at once (the file is gone, a directory, unreadable), what it has
\* printed is the slice.  The caller goes on at next_offset until end_of_file.
ReadSlice(c) ==
  /\ step[c] = "dd"
  /\ \E m \in 0..Len(Data(c)) :
       /\ got' = [got EXCEPT ![c] = @ \o Decoded(SubSeq(Data(c), 1, m))]
       /\ probed' = [probed EXCEPT ![c].misled =
             @ \/ m < Len(Data(c)) \/ ~Regular(file["here"])]
  /\ IF Len(got'[c]) >= probed[c].size THEN End(c, "ok") ELSE Proceed(c, "size")
  /\ UNCHANGED <<fileVars, argsOf, fd, sent, saw, torn>>

\* sftp get, and the check of the size that really came.
Get(c) ==
  /\ step[c] = "get"
  /\ IF Regular(file["here"])
     THEN got' = [got EXCEPT ![c] = file["here"]] /\ End(c, "ok")
     ELSE End(c, "error") /\ UNCHANGED got
  /\ UNCHANGED <<fileVars, argsOf, probed, fd, sent, saw, torn>>

-----------------------------------------------------------------------------
(* delete, rename and mkdir. *)

\* Processes that write to p now write to q.
Redirected(p, q) == [d \in Calls |-> IF fd[d] = p THEN q ELSE fd[d]]

Delete(c, recursive) ==
  /\ step[c] = "act" /\ op[c] = "delete"
  /\ IF recursive \/ Regular(file["here"])
     THEN /\ Change(c, [file EXCEPT !["here"] = Absent])
          /\ fd' = Redirected("here", "unlinked")
          /\ End(c, "ok")
     ELSE End(c, "error") /\ UNCHANGED <<fileVars, fd>>
  /\ UNCHANGED <<argsOf, probed, sent, got, saw, torn>>

\* mv -n: an existing file stays, and a directory takes the source in.
Rename(c) ==
  /\ step[c] = "act" /\ op[c] = "rename"
  /\ CASE file["here"] = Absent -> End(c, "error") /\ UNCHANGED <<fileVars, fd>>
       [] file["here"] # Absent /\ Regular(file["there"]) -> End(c, "ok") /\ UNCHANGED <<fileVars, fd>>
       [] OTHER ->
            LET within == file["there"] = Directory IN
            /\ Change(c, [file EXCEPT !["here"] = Absent,
                                      !["there"] = IF within THEN @ ELSE file["here"]])
            /\ fd' = Redirected("here", IF within THEN "unlinked" ELSE "there")
            /\ End(c, "ok")
  /\ UNCHANGED <<argsOf, probed, sent, got, saw, torn>>

Mkdir(c, parents) ==
  /\ step[c] = "act" /\ op[c] = "mkdir"
  /\ CASE file["there"] = Absent -> Change(c, [file EXCEPT !["there"] = Directory]) /\ End(c, "ok")
       [] OTHER -> /\ End(c, IF parents /\ file["there"] = Directory THEN "ok" ELSE "error")
                   /\ UNCHANGED fileVars
  /\ UNCHANGED <<argsOf, probed, fd, sent, got, saw, torn>>

\* A command that changes nothing ends the call with an error: ssh itself fails
\* or times out, or the command exits with an error and the exit status is
\* checked (that of the stat before a write and of dd is not, see there).
CommandFails(c) ==
  /\ step[c] \in {"resolve", "probe", "hash", "size", "dd", "get", "act"}
  /\ End(c, "error")
  /\ UNCHANGED <<fileVars, argsOf, probed, fd, sent, got, saw, torn>>

SecondPasses ==
  /\ clock < MaxClock /\ clock' = clock + 1
  /\ UNCHANGED <<file, mtime, others, blurred, argsOf, step, probed, fd, sent, got, result, saw, torn>>

FileStep(c) ==
  \/ \E o \in FileOps, e \in ExpectationsOf[c], n \in Slices : BeginFile(c, o, e, n)
  \/ \E accepted \in BOOLEAN : Resolve(c, accepted)
  \/ Probe(c) \/ Hash(c) \/ Open(c) \/ Send(c) \/ FinishWrite(c) \/ ReplyWrite(c)
  \/ GiveUpWrite(c) \/ CutOff(c)
  \/ StatSize(c) \/ ReadSlice(c) \/ Get(c)
  \/ \E recursive \in BOOLEAN : Delete(c, recursive)
  \/ Rename(c)
  \/ \E parents \in BOOLEAN : Mkdir(c, parents)
  \/ CommandFails(c)

FilesNext == (\E c \in Calls : FileStep(c)) \/ SecondPasses

FilesSpec == FilesInit /\ [][FilesNext]_filesVars

-----------------------------------------------------------------------------
(* Properties. *)

FilesTypeOK ==
  /\ file \in [Paths -> Contents] /\ mtime \in Nat /\ clock \in 0..MaxClock
  /\ op \in [Calls -> FileOps \cup {"none"}]
  /\ expect \in [Calls -> SUBSET {"size", "mtime", "sha256"}]
  /\ fd \in [Calls -> Paths \cup {"none", "unlinked"}]
  /\ sent \in [Calls -> 0..Size]
  /\ result \in [Calls -> {"none", "ok", "refused", "error"}]
  /\ got \in [Calls -> Seq(Bytes \cup {Replaced})]

\* When a write that expects something is about to open the file, nobody has
\* changed the file behind its agent's back, except between the check and now,
\* or in a way the check cannot tell: another content of the same size, or one
\* written in the second of the mtime the agent saw.
AcceptedWriteKnowsFile ==
  \A c \in Calls : step[c] = "open" =>
    /\ "sha256" \in expect[c] /\ "hash" \notin others[c] => file["here"] = saw[c].content
    /\ "probe" \notin others[c] =>
         /\ "mtime" \in expect[c] => file["here"] = saw[c].content \/ blurred[c]
         /\ "size" \in expect[c] =>
              file["here"] = Directory \/ Length(file["here"]) = Length(saw[c].content)

\* s is a concatenation of payloads: the byte before a byte is its predecessor in
\* its payload, unless it is the first one, and the byte after it its successor,
\* unless it is the last one.
FollowsOn(s, k) == s[k][2] = 1 \/ (k - 1 \in DOMAIN s /\ s[k - 1] = <<s[k][1], s[k][2] - 1>>)
GoesOn(s, k)    == s[k][2] = Size \/ (k + 1 \in DOMAIN s /\ s[k + 1] = <<s[k][1], s[k][2] + 1>>)
Whole(s) == \A k \in DOMAIN s : FollowsOn(s, k) /\ GoesOn(s, k)

\* Once no process writes to a file, it consists of whole payloads, unless one
\* was cut off by a lost client or two were written at the same time.
NothingTorn ==
  torn \/ \A p \in Paths :
            Regular(file[p]) /\ (\A c \in Calls : fd[c] # p) => Whole(file[p])

\* The size a write reports is that of the file, unless another call has
\* changed the file since it was probed.  An append whose stat failed is the
\* exception: it reports what it has added as the size of the longer file.
ReportedSizes ==
  \A c \in Calls : step[c] = "reply" /\ op[c] # "upload" /\ "probe" \notin others[c] =>
    IF op[c] = "append" /\ probed[c].misled
    THEN Length(file["here"]) >= NewSize(c)
    ELSE Length(file["here"]) = NewSize(c)

\* The slices a reader puts together are the file, if nobody changed it
\* meanwhile, however many of them dd has silently left short or empty; except
\* for a character that lies across the end of a slice.
SlicesAssemble ==
  \A c \in Calls : op[c] = "read" /\ result[c] = "ok" /\ others[c] = {} =>
    /\ Len(got[c]) = Length(saw[c].content)
    /\ \A k \in DOMAIN got[c] : got[c][k] # saw[c].content[k] =>
         /\ got[c][k] = Replaced /\ saw[c].content[k][1] = Old
         /\ slice[c] < Size \/ probed[c].misled
=============================================================================

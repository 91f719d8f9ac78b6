---------------------------- MODULE FilesProofs ----------------------------
(***************************************************************************)
(* Proofs about Files, for any number of calls, any payload length, slice  *)
(* lengths and clock: what a write that was accepted knows of the file it  *)
(* replaces, what it reports, and what readers find.                       *)
(***************************************************************************)
EXTENDS Files, TLAPS

Expectations == {"size", "mtime", "sha256"}

ProbeRecords == [existed : BOOLEAN, size : Nat, misled : BOOLEAN]

FilesTypesInv ==
  /\ file \in [Paths -> Contents] /\ mtime \in Nat /\ clock \in 0..MaxClock
  /\ op \in [Calls -> FileOps \cup {"none"}]
  /\ expect \in [Calls -> SUBSET Expectations]
  /\ slice \in [Calls -> Nat \ {0}]
  /\ step \in [Calls -> {"begin", "resolve", "probe", "hash", "open", "send", "reply",
                         "size", "dd", "get", "act", "done"}]
  /\ probed \in [Calls -> ProbeRecords]
  /\ fd \in [Calls -> Paths \cup {"none", "unlinked"}]
  /\ sent \in [Calls -> 0..Size]
  /\ got \in [Calls -> Seq(Bytes \cup {Replaced})]
  /\ result \in [Calls -> {"none", "ok", "refused", "error"}]
  /\ saw \in [Calls -> [content : Contents, mtime : Nat]]
  /\ others \in [Calls -> SUBSET {"probe", "hash"}]
  /\ blurred \in [Calls -> BOOLEAN]
  /\ torn \in BOOLEAN

Writes == {"write", "append", "upload"}

\* Where a call is in its commands, and what it then has open and has sent.
StepFileCall(c) ==
  /\ step[c] \in {"probe", "hash"} => op[c] \in {"write", "append"}
  /\ step[c] \in {"open", "send", "reply"} => op[c] \in Writes
  /\ step[c] \in {"size", "dd"} => op[c] \in {"read", "download"}
  /\ step[c] = "get" => op[c] = "download"
  /\ fd[c] # "none" <=> step[c] = "send"
  /\ step[c] \in {"begin", "resolve", "probe", "hash", "open"} => sent[c] = 0
  /\ step[c] = "reply" => sent[c] = Size
  /\ step[c] \in {"begin", "resolve"} => got[c] = <<>>
  /\ result[c] = "ok" => step[c] = "done"
  /\ expect[c] # {} => op[c] \in {"write", "append"}

\* A file that a process writes to is a regular one.
OpenInv(c) == fd[c] \in Paths => Regular(file[fd[c]])

\* What stat has told c, as long as nobody else changes the file: its size; or, if
\* stat failed, nothing, which is not more.  A directory has any size.
ProbeInv(c) ==
  file["here"] # Directory =>
    /\ probed[c].size <= Length(file["here"])
    /\ ~probed[c].misled => probed[c].size = Length(file["here"])
SameSize(c) == file["here"] = Directory \/ Length(file["here"]) = Length(saw[c].content)

\* What c knows until it opens the file: the mtime tells changes of other seconds
\* apart, and since the last change by another call each check still holds.
KnownInv(c) ==
  /\ step[c] \in {"resolve", "probe", "hash", "open", "size", "dd"} =>
       /\ mtime = saw[c].mtime => file["here"] = saw[c].content \/ blurred[c]
       /\ others[c] = {} /\ step[c] \notin {"hash", "open"} => file["here"] = saw[c].content
  /\ step[c] \in {"hash", "open"} /\ "probe" \notin others[c] =>
       /\ "mtime" \in expect[c] => mtime = saw[c].mtime
       /\ "size" \in expect[c] => SameSize(c)
       /\ op[c] # "upload" => ProbeInv(c)
  /\ step[c] = "open" /\ "hash" \notin others[c] /\ "sha256" \in expect[c] =>
       file["here"] = saw[c].content

\* While nobody interferes, the file grows by what c has sent; an append whose
\* stat failed does not know from which size on.
Grew(c, n) ==
  LET told == (IF op[c] = "append" THEN probed[c].size ELSE 0) + sent[c] IN
  n >= told /\ (n = told \/ (op[c] = "append" /\ probed[c].misled))
GrowthInv(c) ==
  step[c] \in {"send", "reply"} /\ op[c] # "upload" /\ "probe" \notin others[c] =>
    /\ step[c] = "send" => fd[c] = "here"
    /\ Regular(file["here"])
    /\ Grew(c, Length(file["here"]))

\* The file c writes to: whole payloads, and then the beginning of its own.
WholeUpTo(s, n) ==
  \A k \in 1..n : /\ FollowsOn(s, k)
                  /\ s[k][2] = Size \/ (k < n /\ s[k + 1] = <<s[k][1], s[k][2] + 1>>)
Base(c) == Len(file[fd[c]]) - sent[c]
PartialInv(c) ==
  ~torn /\ fd[c] \in Paths =>
    /\ Base(c) >= 0
    /\ op[c] # "append" => Base(c) = 0
    /\ WholeUpTo(file[fd[c]], Base(c))
    /\ \A k \in 1..sent[c] : file[fd[c]][Base(c) + k] = <<c, k>>
    /\ \A d \in Calls : fd[d] = fd[c] => d = c

\* The old bytes are at the beginning of a file, all of them, or nowhere; and
\* nowhere in a file that was truncated.
OldFirst(s) ==
  \A k \in DOMAIN s : s[k][1] = Old =>
    s[k] = <<Old, k>> /\ \A i \in 1..Size : i \in DOMAIN s /\ s[i] = <<Old, i>>
OldInv ==
  /\ \A p \in Paths : Regular(file[p]) => OldFirst(file[p])
  /\ \A c \in Calls : Regular(saw[c].content) => OldFirst(saw[c].content)
NoOld(s) == \A k \in DOMAIN s : s[k][1] # Old
TruncatedInv(c) == fd[c] \in Paths /\ op[c] # "append" => NoOld(file[fd[c]])

\* Slice by slice, what a reader of an unchanged file has is its beginning.
AgreesWith(g, s) == \A k \in DOMAIN g : g[k] # s[k] => g[k] = Replaced /\ s[k][1] = Old
SameAs(g, s)     == \A k \in DOMAIN g : g[k] = s[k]
MayBreak(c) == slice[c] < Size \/ probed[c].misled
Agrees(c) ==
  /\ AgreesWith(got[c], saw[c].content)
  /\ MayBreak(c) \/ SameAs(got[c], saw[c].content)
ReadInv(c) ==
  op[c] = "read" /\ step[c] \in {"size", "dd"} /\ others[c] = {} =>
    /\ got[c] # <<>> => Regular(saw[c].content)
    /\ step[c] = "dd" /\ Regular(saw[c].content) => probed[c].size = Len(saw[c].content)
    /\ Len(got[c]) = 0 \/ slice[c] <= Len(got[c]) \/ probed[c].misled
    /\ Len(got[c]) <= Length(saw[c].content)
    /\ Agrees(c)

FileCallInv(c) ==
  /\ StepFileCall(c) /\ OpenInv(c) /\ KnownInv(c) /\ GrowthInv(c) /\ PartialInv(c) /\ TruncatedInv(c)
  /\ ReadInv(c)

FilesInv == FilesTypesInv /\ OldInv /\ NothingTorn /\ SlicesAssemble /\ \A c \in Calls : FileCallInv(c)

-----------------------------------------------------------------------------
(* Contents of files. *)

LEMMA ContentTypes ==
  /\ \A x \in Contents : Regular(x) => x \in Seq(Bytes)
  /\ \A x \in Seq(Bytes) : x \in Contents /\ Regular(x) /\ Length(x) = Len(x)
  /\ Absent \in Contents /\ ~Regular(Absent)
  /\ Directory \in Contents /\ ~Regular(Directory)
  /\ \A x \in Contents : Length(x) \in Nat
<1>1. \A x \in Seq(Bytes) : x # Absent /\ x # Directory
  <2> SUFFICES ASSUME NEW x \in Seq(Bytes), x = Absent \/ x = Directory PROVE FALSE
    OBVIOUS
  <2>1. x[1] = <<"absent", 0>> \/ x[1] = <<"directory", 0>>
    BY DEF Absent, Directory
  <2>2. Len(x) = 1
    BY DEF Absent, Directory
  <2>3. x[1] \in Bytes
    BY <2>2
  <2>4. QED
    BY <2>1, <2>3, FilesAssumption DEF Bytes, Hole
<1>2. QED
  BY <1>1 DEF Contents, Regular, Length

LEMMA ByteTypes ==
  /\ \A c \in Calls, i \in 1..Size : <<c, i>> \in Bytes
  /\ Hole \in Bytes
  /\ \A i \in 1..Size : <<Old, i>> \in Bytes
  /\ <<>> \in Seq(Bytes)
  BY DEF Bytes

LEMMA PayloadTypes == Payload(Old) \in Seq(Bytes) /\ Len(Payload(Old)) = Size
  BY FilesAssumption, ByteTypes DEF Payload

\* s with b behind it.
Grown(s, b, t) ==
  t \in Seq(Bytes) /\ Len(t) = Len(s) + 1 /\ t[Len(s) + 1] = b /\ \A k \in 1..Len(s) : t[k] = s[k]

LEMMA PutTypes ==
  ASSUME NEW s \in Seq(Bytes), NEW b \in Bytes
  PROVE  /\ \A i \in Nat \ {0} : PutAt(s, i, b) \in Seq(Bytes)
         /\ \A i \in Nat \ {0} : \A k \in DOMAIN PutAt(s, i, b) :
              PutAt(s, i, b)[k] \in {b, Hole} \cup {s[j] : j \in DOMAIN s}
         /\ Grown(s, b, PutAt(s, Len(s) + 1, b)) /\ Grown(s, b, Append(s, b))
<1>1. ASSUME NEW i \in Nat \ {0} PROVE PutAt(s, i, b) \in Seq(Bytes)
  BY ByteTypes DEF PutAt
<1>2. ASSUME NEW i \in Nat \ {0}, NEW k \in DOMAIN PutAt(s, i, b)
      PROVE  PutAt(s, i, b)[k] \in {b, Hole} \cup {s[j] : j \in DOMAIN s}
  <2>1. k \in 1..(IF i > Len(s) THEN i ELSE Len(s))
    BY <1>2 DEF PutAt
  <2>2. PutAt(s, i, b)[k] = IF k = i THEN b ELSE IF k <= Len(s) THEN s[k] ELSE Hole
    BY <2>1 DEF PutAt
  <2>3. k \in Nat \ {0} /\ DOMAIN s = 1..Len(s)
    BY <2>1
  <2>4. QED
    BY <2>2, <2>3
<1>3. Grown(s, b, PutAt(s, Len(s) + 1, b))
  <2> DEFINE t == PutAt(s, Len(s) + 1, b)
  <2>1. t \in Seq(Bytes)
    BY <1>1
  <2>2. t = [k \in 1..Len(s) + 1 |-> IF k = Len(s) + 1 THEN b ELSE IF k <= Len(s) THEN s[k] ELSE Hole]
    BY DEF PutAt
  <2>3. Len(t) = Len(s) + 1
    BY <2>2
  <2>4. t[Len(s) + 1] = b /\ \A k \in 1..Len(s) : t[k] = s[k]
    BY <2>2
  <2>5. QED
    BY <2>1, <2>3, <2>4 DEF Grown
<1>4. Grown(s, b, Append(s, b))
  BY DEF Grown
<1>5. QED
  BY <1>1, <1>2, <1>3, <1>4

LEMMA DecodedTypes ==
  ASSUME NEW d \in Seq(Bytes)
  PROVE  /\ Decoded(d) \in Seq(Bytes \cup {Replaced}) /\ Len(Decoded(d)) = Len(d)
         /\ \A k \in 1..Len(d) : Decoded(d)[k] # d[k] =>
              /\ Decoded(d)[k] = Replaced /\ d[k][1] = Old
              /\ \E i \in 1..Size : k - d[k][2] + i \notin 1..Len(d)
                                    \/ d[k - d[k][2] + i] # <<Old, i>>
<1>1. DOMAIN d = 1..Len(d) /\ Len(d) \in Nat
  OBVIOUS
<1> DEFINE broken(k) == d[k][1] = Old /\ \E i \in 1..Size : \/ k - d[k][2] + i \notin 1..Len(d)
                                                            \/ d[k - d[k][2] + i] # <<Old, i>>
<1>2. Decoded(d) = [k \in 1..Len(d) |-> IF broken(k) THEN Replaced ELSE d[k]]
  BY <1>1 DEF Decoded
<1> HIDE DEF broken
<1>3. \A k \in 1..Len(d) : (IF broken(k) THEN Replaced ELSE d[k]) \in Bytes \cup {Replaced}
  BY <1>1
<1>4. Decoded(d) \in Seq(Bytes \cup {Replaced}) /\ Len(Decoded(d)) = Len(d)
  BY <1>1, <1>2, <1>3
<1>5. \A k \in 1..Len(d) : Decoded(d)[k] # d[k] => Decoded(d)[k] = Replaced /\ broken(k)
  BY <1>2
<1>6. QED
  BY <1>4, <1>5 DEF broken

\* The bytes of s from first + 1 on, at most n of them.
LEMMA SliceTypes ==
  ASSUME NEW s \in Seq(Bytes), NEW first \in Nat, NEW n \in Nat \ {0}
  PROVE  LET last == IF first + n < Len(s) THEN first + n ELSE Len(s)
             d    == SubSeq(s, first + 1, last) IN
         /\ d \in Seq(Bytes)
         /\ Len(d) = IF first < last THEN last - first ELSE 0
         /\ \A k \in 1..Len(d) : d[k] = s[first + k]
<1> DEFINE last == IF first + n < Len(s) THEN first + n ELSE Len(s)
           d    == SubSeq(s, first + 1, last)
<1>1. last \in Nat /\ last <= Len(s) /\ Len(s) \in Nat
  OBVIOUS
<1>2. d = [k \in 1..(last - first) |-> s[first + k]]
  <2>1. d = [k \in 1..(last - (first + 1) + 1) |-> s[first + 1 + k - 1]]
    BY <1>1
  <2>2. last - (first + 1) + 1 = last - first
    BY <1>1
  <2>3. \A k \in 1..(last - first) : first + 1 + k - 1 = first + k
    BY <1>1
  <2>4. QED
    BY <2>1, <2>2, <2>3
<1> HIDE DEF last, d
<1>3. \A k \in 1..(last - first) : s[first + k] \in Bytes
  BY <1>1
<1>4. CASE first < last
  <2>1. last - first \in Nat
    BY <1>1, <1>4
  <2>2. QED
    BY <1>2, <1>3, <1>4, <2>1
<1>5. CASE ~(first < last)
  <2>1. 1..(last - first) = {}
    BY <1>1, <1>5
  <2>2. d = <<>>
    BY <1>2, <2>1
  <2>3. QED
    BY <1>5, <2>2
<1>6. QED
  BY <1>4, <1>5 DEF last, d

\* The first m bytes of d.
LEMMA PrefixTypes ==
  ASSUME NEW d \in Seq(Bytes), NEW m \in 0..Len(d)
  PROVE  /\ SubSeq(d, 1, m) \in Seq(Bytes) /\ Len(SubSeq(d, 1, m)) = m
         /\ \A k \in 1..m : SubSeq(d, 1, m)[k] = d[k]
  OBVIOUS

-----------------------------------------------------------------------------
(* Types. *)

LEMMA InitTypes == FilesInit => FilesTypesInv
<1> SUFFICES ASSUME FilesInit PROVE FilesTypesInv
  OBVIOUS
<1>1. file \in [Paths -> Contents]
  BY PayloadTypes, ContentTypes DEF FilesInit, Paths
<1>2. mtime \in Nat /\ clock \in 0..MaxClock /\ sent \in [Calls -> 0..Size]
  BY FilesAssumption DEF FilesInit
<1>3. saw \in [Calls -> [content : Contents, mtime : Nat]]
  BY ContentTypes DEF FilesInit
<1>4. /\ op \in [Calls -> FileOps \cup {"none"}] /\ expect \in [Calls -> SUBSET Expectations]
      /\ slice \in [Calls -> Nat \ {0}]
      /\ step \in [Calls -> {"begin", "resolve", "probe", "hash", "open", "send", "reply",
                             "size", "dd", "get", "act", "done"}]
      /\ fd \in [Calls -> Paths \cup {"none", "unlinked"}]
      /\ result \in [Calls -> {"none", "ok", "refused", "error"}]
      /\ others \in [Calls -> SUBSET {"probe", "hash"}]
  BY DEF FilesInit
<1>5. got \in [Calls -> Seq(Bytes \cup {Replaced})]
  BY DEF FilesInit
<1>6. /\ probed \in [Calls -> ProbeRecords] /\ blurred \in [Calls -> BOOLEAN]
      /\ torn \in BOOLEAN
  BY DEF FilesInit, ProbeRecords
<1>7. QED
  BY <1>1, <1>2, <1>3, <1>4, <1>5, <1>6 DEF FilesTypesInv

\* What stat tells is a size, and that of a file is its length.
LEMMA StatTypes ==
  ASSUME FilesTypesInv, NEW size \in StatSizes
  PROVE  size \in Nat /\ (file["here"] # Directory => size = Length(file["here"]))
<1>1. Length(file["here"]) \in Nat
  BY ContentTypes DEF FilesTypesInv, Paths
<1>2. QED
  BY <1>1, FilesAssumption DEF StatSizes

\* What a reader's commands change in the record of its probe.
LEMMA ProbeTypes ==
  ASSUME FilesTypesInv, NEW c \in Calls, NEW size \in Nat, NEW misled \in BOOLEAN
  PROVE  /\ [probed EXCEPT ![c].size = size] \in [Calls -> ProbeRecords]
         /\ [probed EXCEPT ![c].misled = misled] \in [Calls -> ProbeRecords]
<1>1. probed \in [Calls -> ProbeRecords] /\ probed[c] \in ProbeRecords
  BY DEF FilesTypesInv
<1>2. PICK x \in BOOLEAN, n \in Nat, y \in BOOLEAN :
        probed[c] = [existed |-> x, size |-> n, misled |-> y]
  BY <1>1, Zenon DEF ProbeRecords
<1>3. [probed[c] EXCEPT !.size = size] = [existed |-> x, size |-> size, misled |-> y]
  BY <1>2
<1>4. [probed[c] EXCEPT !.misled = misled] = [existed |-> x, size |-> n, misled |-> misled]
  BY <1>2
<1>5. /\ [existed |-> x, size |-> size, misled |-> y] \in ProbeRecords
      /\ [existed |-> x, size |-> n, misled |-> misled] \in ProbeRecords
  BY DEF ProbeRecords
<1>6. [probed[c] EXCEPT !.size = size] \in ProbeRecords
  BY <1>3, <1>5, Zenon
<1>7. [probed[c] EXCEPT !.misled = misled] \in ProbeRecords
  BY <1>4, <1>5, Zenon
<1>8. \A r \in ProbeRecords : [probed EXCEPT ![c] = r] \in [Calls -> ProbeRecords]
  BY <1>1
<1>9. QED
  BY <1>6, <1>7, <1>8

\* What there is to read, from where the reader is.
LEMMA DataTypes ==
  ASSUME FilesTypesInv, NEW c \in Calls
  PROVE  /\ Readable \in Seq(Bytes) /\ Data(c) \in Seq(Bytes)
         /\ LET s == Readable
                m == Len(got[c])
                last == IF m + slice[c] < Len(s) THEN m + slice[c] ELSE Len(s) IN
            /\ Len(Data(c)) = IF m < last THEN last - m ELSE 0
            /\ \A k \in 1..Len(Data(c)) : Data(c)[k] = s[m + k]
<1>1. Readable \in Seq(Bytes)
  BY ContentTypes, ByteTypes DEF FilesTypesInv, Paths, Readable
<1>2. Len(got[c]) \in Nat /\ slice[c] \in Nat \ {0}
  BY DEF FilesTypesInv
<1>3. QED
  BY <1>1, <1>2, SliceTypes DEF Data

\* What a change leaves: typed files, and calls under way that have been told.
LEMMA ChangeTypes ==
  ASSUME FilesTypesInv, NEW c \in Calls, NEW f \in [Paths -> Contents], Change(c, f)
  PROVE  /\ file' \in [Paths -> Contents] /\ mtime' \in Nat /\ clock' \in 0..MaxClock
         /\ others' \in [Calls -> SUBSET {"probe", "hash"}] /\ blurred' \in [Calls -> BOOLEAN]
<1>1. others' \in [Calls -> SUBSET {"probe", "hash"}]
  BY DEF Change, FilesTypesInv
<1>2. \A d \in Calls : blurred'[d] \in BOOLEAN
  BY DEF Change, FilesTypesInv
<1>3. blurred' \in [Calls -> BOOLEAN]
  BY <1>2 DEF Change
<1>4. QED
  BY <1>1, <1>3 DEF Change, FilesTypesInv

LEMMA TypesStep ==
  ASSUME FilesTypesInv, \A c \in Calls : OpenInv(c), FilesNext
  PROVE  FilesTypesInv'
<1> USE DEF FilesTypesInv
<1>1. ASSUME NEW c \in Calls, NEW o \in FileOps, NEW e \in ExpectationsOf[c], NEW n \in Slices,
             BeginFile(c, o, e, n)
      PROVE  FilesTypesInv'
  <2>1. e \in SUBSET Expectations /\ n \in Nat \ {0}
    BY FilesAssumption DEF Expectations
  <2>2. saw' \in [Calls -> [content : Contents, mtime : Nat]]
    BY <1>1 DEF BeginFile, Paths
  <2>3. QED
    BY <1>1, <2>1, <2>2 DEF BeginFile, Proceed
<1>2. ASSUME NEW c \in Calls, NEW accepted \in BOOLEAN, Resolve(c, accepted) PROVE FilesTypesInv'
  BY <1>2 DEF Resolve, Proceed, End, fileVars, argsOf
<1>3. ASSUME NEW c \in Calls, Probe(c) PROVE FilesTypesInv'
  <2>1. probed' \in [Calls -> ProbeRecords]
    <3>1. PICK existed \in BOOLEAN, size \in StatSizes :
            probed' = [probed EXCEPT ![c] =
              [existed |-> existed, size |-> IF existed THEN size ELSE 0,
               misled |-> ~existed /\ file["here"] # Absent]]
      BY <1>3, Zenon DEF Probe
    <3>2. size \in Nat
      BY StatTypes
    <3>3. (IF existed THEN size ELSE 0) \in Nat /\ (~existed /\ file["here"] # Absent) \in BOOLEAN
      BY <3>2
    <3> DEFINE r == [existed |-> existed, size |-> IF existed THEN size ELSE 0,
                     misled |-> ~existed /\ file["here"] # Absent]
    <3>4. r \in ProbeRecords
      BY <3>3, Zenon DEF ProbeRecords
    <3>5. probed' = [probed EXCEPT ![c] = r]
      BY <3>1, Zenon
    <3> HIDE DEF r
    <3>6. QED
      BY <3>4, <3>5
  <2>2. /\ step' \in [Calls -> {"begin", "resolve", "probe", "hash", "open", "send", "reply",
                                "size", "dd", "get", "act", "done"}]
        /\ result' \in [Calls -> {"none", "ok", "refused", "error"}]
    <3>1. PICK t \in {"hash", "open", "done"} : step' = [step EXCEPT ![c] = t]
      BY <1>3, Zenon DEF Probe, Proceed, End
    <3>2. step' \in [Calls -> {"begin", "resolve", "probe", "hash", "open", "send", "reply",
                              "size", "dd", "get", "act", "done"}]
      BY <3>1
    <3>3. result' = result \/ result' = [result EXCEPT ![c] = "refused"]
      BY <1>3, Zenon DEF Probe, Proceed, End
    <3>4. QED
      BY <3>2, <3>3
  <2>3. others' \in [Calls -> SUBSET {"probe", "hash"}]
    BY <1>3 DEF Probe
  <2>4. UNCHANGED <<file, mtime, clock, blurred, argsOf, fd, sent, got, saw, torn>>
    BY <1>3 DEF Probe
  <2>5. QED
    BY <2>1, <2>2, <2>3, <2>4 DEF argsOf
<1>4. ASSUME NEW c \in Calls, Hash(c) PROVE FilesTypesInv'
  BY <1>4 DEF Hash, Proceed, End, argsOf
<1>5. ASSUME NEW c \in Calls, Open(c) PROVE FilesTypesInv'
  <2>1. CASE file["here"] = Directory
    BY <1>5, <2>1 DEF Open, End, fileVars, argsOf
  <2>2. CASE file["here"] # Directory
    <3> DEFINE f == [file EXCEPT !["here"] = IF op[c] = "append" /\ Regular(@) THEN @ ELSE <<>>]
    <3>1. f \in [Paths -> Contents]
      BY ContentTypes, ByteTypes DEF Paths
    <3>2. Change(c, f)
      BY <1>5, <2>2 DEF Open
    <3>3. torn' \in BOOLEAN
      BY <1>5, <2>2 DEF Open
    <3> HIDE DEF f
    <3>4. fd' \in [Calls -> Paths \cup {"none", "unlinked"}]
      BY <1>5, <2>2 DEF Open, Paths
    <3>5. UNCHANGED <<argsOf, probed, sent, got, saw>>
      BY <1>5 DEF Open
    <3>6. step' \in [Calls -> {"begin", "resolve", "probe", "hash", "open", "send", "reply",
                               "size", "dd", "get", "act", "done"}] /\ result' = result
      BY <1>5, <2>2 DEF Open, Proceed
    <3>7. QED
      BY <3>1, <3>2, <3>3, <3>4, <3>5, <3>6, ChangeTypes DEF argsOf
  <2>3. QED
    BY <2>1, <2>2
<1>6. ASSUME NEW c \in Calls, Send(c) PROVE FilesTypesInv'
  <2>1. sent' \in [Calls -> 0..Size]
    BY <1>6, FilesAssumption DEF Send
  <2>2. /\ file' \in [Paths -> Contents] /\ mtime' \in Nat /\ clock' \in 0..MaxClock
        /\ others' \in [Calls -> SUBSET {"probe", "hash"}] /\ blurred' \in [Calls -> BOOLEAN]
    <3>1. CASE fd[c] \in Paths
      <4> DEFINE b == <<c, sent[c] + 1>>
                 s == file[fd[c]]
                 t == IF op[c] = "append" THEN Append(s, b) ELSE PutAt(s, sent[c] + 1, b)
                 f == [file EXCEPT ![fd[c]] = t]
      <4>1. b \in Bytes /\ sent[c] + 1 \in Nat \ {0}
        BY <1>6, ByteTypes, FilesAssumption DEF Send
      <4>2. s \in Seq(Bytes)
        BY <3>1, ContentTypes DEF OpenInv
      <4>3. t \in Seq(Bytes)
        BY <4>1, <4>2, PutTypes DEF Grown
      <4>4. f \in [Paths -> Contents]
        BY <3>1, <4>3, ContentTypes
      <4>5. Change(c, f)
        BY <1>6, <3>1 DEF Send
      <4> HIDE DEF f
      <4>6. QED
        BY <4>4, <4>5, ChangeTypes
    <3>2. CASE fd[c] \notin Paths
      BY <1>6, <3>2 DEF Send, fileVars
    <3>3. QED
      BY <3>1, <3>2
  <2>3. UNCHANGED <<argsOf, step, probed, fd, got, result, saw, torn>>
    BY <1>6 DEF Send
  <2>4. QED
    BY <2>1, <2>2, <2>3 DEF argsOf
<1>7. ASSUME NEW c \in Calls, FinishWrite(c) PROVE FilesTypesInv'
  BY <1>7 DEF FinishWrite, Proceed, fileVars, argsOf
<1>8. ASSUME NEW c \in Calls, ReplyWrite(c) PROVE FilesTypesInv'
  BY <1>8 DEF ReplyWrite, End, fileVars, argsOf
<1>9. ASSUME NEW c \in Calls, GiveUpWrite(c) PROVE FilesTypesInv'
  BY <1>9 DEF GiveUpWrite, fileVars, argsOf
<1>10. ASSUME NEW c \in Calls, CutOff(c) PROVE FilesTypesInv'
  <2>1. torn' \in BOOLEAN
    BY <1>10 DEF CutOff
  <2>2. QED
    BY <1>10, <2>1 DEF CutOff, fileVars, argsOf
<1>11. ASSUME NEW c \in Calls, StatSize(c) PROVE FilesTypesInv'
  <2>1. probed' \in [Calls -> ProbeRecords]
    <3>1. PICK size \in StatSizes : probed' = [probed EXCEPT ![c].size = size]
      BY <1>11 DEF StatSize
    <3>2. QED
      BY <3>1, StatTypes, ProbeTypes
  <2>2. step' \in [Calls -> {"begin", "resolve", "probe", "hash", "open", "send", "reply",
                            "size", "dd", "get", "act", "done"}]
    <3>1. PICK s \in {"dd", "get", "done"} : step' = [step EXCEPT ![c] = s]
      BY <1>11, Zenon DEF StatSize, Proceed, End
    <3>2. QED
      BY <3>1
  <2>3. result' \in [Calls -> {"none", "ok", "refused", "error"}]
    <3>1. \/ result' = result
          \/ \E r \in {"error", "refused"} : result' = [result EXCEPT ![c] = r]
      BY <1>11, Zenon DEF StatSize, Proceed, End
    <3>2. QED
      BY <3>1
  <2>4. UNCHANGED <<file, mtime, clock, op, expect, slice, fd, sent, got, saw, others, blurred, torn>>
    BY <1>11 DEF StatSize, fileVars, argsOf
  <2>5. QED
    BY <2>1, <2>2, <2>3, <2>4
<1>12. ASSUME NEW c \in Calls, ReadSlice(c) PROVE FilesTypesInv'
  <2>1. PICK m \in 0..Len(Data(c)) :
          /\ got' = [got EXCEPT ![c] = @ \o Decoded(SubSeq(Data(c), 1, m))]
          /\ probed' = [probed EXCEPT ![c].misled =
                @ \/ m < Len(Data(c)) \/ ~Regular(file["here"])]
    BY <1>12 DEF ReadSlice
  <2>2. got' \in [Calls -> Seq(Bytes \cup {Replaced})]
    <3>1. Data(c) \in Seq(Bytes)
      BY DataTypes
    <3>2. SubSeq(Data(c), 1, m) \in Seq(Bytes)
      BY <3>1, PrefixTypes
    <3>3. Decoded(SubSeq(Data(c), 1, m)) \in Seq(Bytes \cup {Replaced})
      BY <3>2, DecodedTypes
    <3>4. got[c] \o Decoded(SubSeq(Data(c), 1, m)) \in Seq(Bytes \cup {Replaced})
      BY <3>3
    <3>5. QED
      BY <2>1, <3>4
  <2>3. probed' \in [Calls -> ProbeRecords]
    <3> DEFINE b == probed[c].misled \/ m < Len(Data(c)) \/ ~Regular(file["here"])
    <3>1. probed' = [probed EXCEPT ![c].misled = b] /\ b \in BOOLEAN
      BY <2>1
    <3> HIDE DEF b
    <3>2. QED
      BY <3>1, FilesAssumption, ProbeTypes
  <2>4. \/ End(c, "ok") \/ Proceed(c, "size")
    BY <1>12 DEF ReadSlice
  <2>5. UNCHANGED <<fileVars, argsOf, fd, sent, saw, torn>>
    BY <1>12 DEF ReadSlice
  <2>6. QED
    BY <2>2, <2>3, <2>4, <2>5 DEF Proceed, End, fileVars, argsOf
<1>13. ASSUME NEW c \in Calls, Get(c) PROVE FilesTypesInv'
  <2>1. got' \in [Calls -> Seq(Bytes \cup {Replaced})]
    <3>1. Regular(file["here"]) => file["here"] \in Seq(Bytes \cup {Replaced})
      <4>1. Regular(file["here"]) => file["here"] \in Seq(Bytes)
        BY ContentTypes DEF Paths
      <4>2. QED
        BY <4>1
    <3>2. QED
      BY <1>13, <3>1 DEF Get
  <2>2. QED
    BY <1>13, <2>1 DEF Get, End, fileVars, argsOf
<1>14. ASSUME NEW c \in Calls, NEW recursive \in BOOLEAN, Delete(c, recursive) PROVE FilesTypesInv'
  <2> DEFINE f == [file EXCEPT !["here"] = Absent]
  <2>1. f \in [Paths -> Contents]
    BY ContentTypes DEF Paths
  <2>2. fd' \in [Calls -> Paths \cup {"none", "unlinked"}]
    BY <1>14 DEF Delete, Redirected
  <2>3. Change(c, f) \/ UNCHANGED fileVars
    BY <1>14 DEF Delete
  <2> HIDE DEF f
  <2>4. /\ file' \in [Paths -> Contents] /\ mtime' \in Nat /\ clock' \in 0..MaxClock
        /\ others' \in [Calls -> SUBSET {"probe", "hash"}] /\ blurred' \in [Calls -> BOOLEAN]
    BY <2>1, <2>3, ChangeTypes DEF fileVars
  <2>5. QED
    BY <1>14, <2>2, <2>4 DEF Delete, End, argsOf
<1>15. ASSUME NEW c \in Calls, Rename(c) PROVE FilesTypesInv'
  <2> DEFINE within == file["there"] = Directory
             f == [file EXCEPT !["here"] = Absent, !["there"] = IF within THEN @ ELSE file["here"]]
  <2>1. f \in [Paths -> Contents]
    BY ContentTypes DEF Paths
  <2>2. Change(c, f) \/ UNCHANGED fileVars
    BY <1>15 DEF Rename
  <2>3. fd' \in [Calls -> Paths \cup {"none", "unlinked"}]
    <3>1. UNCHANGED fd \/ \E q \in Paths \cup {"unlinked"} : fd' = Redirected("here", q)
      BY <1>15 DEF Rename, Paths
    <3>2. ASSUME NEW q \in Paths \cup {"unlinked"}, fd' = Redirected("here", q)
          PROVE  fd' \in [Calls -> Paths \cup {"none", "unlinked"}]
      <4>1. \A d \in Calls : (IF fd[d] = "here" THEN q ELSE fd[d]) \in Paths \cup {"none", "unlinked"}
        OBVIOUS
      <4>2. QED
        BY <3>2, <4>1 DEF Redirected
    <3>3. QED
      BY <3>1, <3>2
  <2>4. step' \in [Calls -> {"begin", "resolve", "probe", "hash", "open", "send", "reply",
                             "size", "dd", "get", "act", "done"}]
        /\ result' \in [Calls -> {"none", "ok", "refused", "error"}]
    BY <1>15 DEF Rename, End
  <2> HIDE DEF f
  <2>5. /\ file' \in [Paths -> Contents] /\ mtime' \in Nat /\ clock' \in 0..MaxClock
        /\ others' \in [Calls -> SUBSET {"probe", "hash"}] /\ blurred' \in [Calls -> BOOLEAN]
    BY <2>1, <2>2, ChangeTypes DEF fileVars
  <2>6. QED
    BY <1>15, <2>3, <2>4, <2>5 DEF Rename, argsOf
<1>16. ASSUME NEW c \in Calls, NEW parents \in BOOLEAN, Mkdir(c, parents) PROVE FilesTypesInv'
  <2> DEFINE f == [file EXCEPT !["there"] = Directory]
  <2>1. f \in [Paths -> Contents]
    BY ContentTypes DEF Paths
  <2>2. Change(c, f) \/ UNCHANGED fileVars
    BY <1>16 DEF Mkdir
  <2>3. step' \in [Calls -> {"begin", "resolve", "probe", "hash", "open", "send", "reply",
                             "size", "dd", "get", "act", "done"}]
        /\ result' \in [Calls -> {"none", "ok", "refused", "error"}]
    BY <1>16 DEF Mkdir, End
  <2> HIDE DEF f
  <2>4. /\ file' \in [Paths -> Contents] /\ mtime' \in Nat /\ clock' \in 0..MaxClock
        /\ others' \in [Calls -> SUBSET {"probe", "hash"}] /\ blurred' \in [Calls -> BOOLEAN]
    BY <2>1, <2>2, ChangeTypes DEF fileVars
  <2>5. QED
    BY <1>16, <2>3, <2>4 DEF Mkdir, argsOf
<1>17. ASSUME NEW c \in Calls, CommandFails(c) PROVE FilesTypesInv'
  BY <1>17 DEF CommandFails, End, fileVars, argsOf
<1>18. CASE SecondPasses
  <2>1. clock' \in 0..MaxClock
    BY <1>18, FilesAssumption DEF SecondPasses
  <2>2. QED
    BY <1>18, <2>1 DEF SecondPasses, argsOf
<1>19. QED
  BY <1>1, <1>2, <1>3, <1>4, <1>5, <1>6, <1>7, <1>8, <1>9, <1>10, <1>11, <1>12, <1>13, <1>14,
     <1>15, <1>16, <1>17, <1>18 DEF FilesNext, FileStep

-----------------------------------------------------------------------------
(* Where the calls are, and what they have open. *)

LEMMA StepsStep ==
  ASSUME FilesTypesInv, \A c \in Calls : StepFileCall(c) /\ OpenInv(c), FilesNext, NEW d \in Calls
  PROVE  StepFileCall(d)' /\ OpenInv(d)'
<1>0. StepFileCall(d) /\ OpenInv(d)
  OBVIOUS
<1> USE DEF FilesTypesInv, StepFileCall, Writes
<1>1. ASSUME NEW c \in Calls, NEW o \in FileOps, NEW e \in ExpectationsOf[c], NEW n \in Slices,
             BeginFile(c, o, e, n)
      PROVE  StepFileCall(d)' /\ OpenInv(d)'
  BY <1>0, <1>1 DEF BeginFile, Proceed, OpenInv
<1>2. ASSUME NEW c \in Calls, NEW accepted \in BOOLEAN, Resolve(c, accepted)
      PROVE  StepFileCall(d)' /\ OpenInv(d)'
  <2>1. OpenInv(d)'
    BY <1>0, <1>2 DEF Resolve, fileVars, OpenInv
  <2>2. CASE ~accepted
    BY <1>0, <1>2, <2>1, <2>2 DEF Resolve, End, argsOf
  <2>3. CASE accepted
    <3>1. step[c] = "resolve" /\ UNCHANGED <<argsOf, fd, sent, got, result>>
      BY <1>2, <2>3 DEF Resolve, Proceed
    <3>2. CASE d = c
      <4>1. \/ step'[d] = "probe" /\ op[d] \in {"write", "append"}
            \/ step'[d] = "open" /\ op[d] = "upload"
            \/ step'[d] = "size" /\ op[d] \in {"read", "download"}
            \/ step'[d] = "act"
        BY <1>2, <2>3, <3>2 DEF Resolve, Proceed
      <4>2. QED
        BY <1>0, <2>1, <3>1, <3>2, <4>1 DEF argsOf
    <3>3. CASE d # c
      BY <1>0, <1>2, <2>1, <2>3, <3>1, <3>3 DEF Resolve, Proceed, argsOf
    <3>4. QED
      BY <3>2, <3>3
  <2>4. QED
    BY <2>1, <2>2, <2>3
<1>3. ASSUME NEW c \in Calls, Probe(c) PROVE StepFileCall(d)' /\ OpenInv(d)'
  BY <1>0, <1>3 DEF Probe, Proceed, End, argsOf, OpenInv
<1>4. ASSUME NEW c \in Calls, Hash(c) PROVE StepFileCall(d)' /\ OpenInv(d)'
  BY <1>0, <1>4 DEF Hash, Proceed, End, argsOf, OpenInv
<1>5. ASSUME NEW c \in Calls, Open(c) PROVE StepFileCall(d)' /\ OpenInv(d)'
  <2>1. CASE file["here"] = Directory
    BY <1>0, <1>5, <2>1 DEF Open, End, fileVars, argsOf, OpenInv
  <2>2. CASE file["here"] # Directory
    <3>1. StepFileCall(d)'
      BY <1>0, <1>5, <2>2 DEF Open, Proceed, argsOf
    <3>2. Regular(file'["here"]) /\ file'["there"] = file["there"]
      <4>1. PICK t : /\ file' = [file EXCEPT !["here"] = t]
                     /\ t = <<>> \/ (t = file["here"] /\ Regular(t))
        BY <1>5, <2>2 DEF Open, Change, Paths
      <4>2. Regular(<<>>)
        BY ByteTypes, ContentTypes
      <4>3. QED
        BY <4>1, <4>2 DEF Paths
    <3>3. OpenInv(d)'
      BY <1>0, <1>5, <2>2, <3>2 DEF Open, OpenInv, Paths
    <3>4. QED
      BY <3>1, <3>3
  <2>3. QED
    BY <2>1, <2>2
<1>6. ASSUME NEW c \in Calls, Send(c) PROVE StepFileCall(d)' /\ OpenInv(d)'
  <2>1. StepFileCall(d)'
    BY <1>0, <1>6 DEF Send, argsOf
  <2>2. OpenInv(d)'
    <3>1. CASE fd[c] \in Paths
      <4> DEFINE b == <<c, sent[c] + 1>>
                 s == file[fd[c]]
                 t == IF op[c] = "append" THEN Append(s, b) ELSE PutAt(s, sent[c] + 1, b)
      <4>1. b \in Bytes /\ sent[c] + 1 \in Nat \ {0}
        BY <1>6, ByteTypes, FilesAssumption DEF Send
      <4>2. s \in Seq(Bytes)
        BY <3>1, ContentTypes DEF OpenInv
      <4>3. t \in Seq(Bytes)
        BY <4>1, <4>2, PutTypes DEF Grown
      <4>4. file' = [file EXCEPT ![fd[c]] = t]
        BY <1>6, <3>1 DEF Send, Change
      <4> HIDE DEF t
      <4>5. Regular(file'[fd[c]]) /\ \A p \in Paths : p # fd[c] => file'[p] = file[p]
        BY <3>1, <4>3, <4>4, ContentTypes
      <4>6. QED
        BY <1>0, <1>6, <4>5 DEF Send, OpenInv
    <3>2. CASE fd[c] \notin Paths
      BY <1>0, <1>6, <3>2 DEF Send, fileVars, OpenInv
    <3>3. QED
      BY <3>1, <3>2
  <2>3. QED
    BY <2>1, <2>2
<1>7. ASSUME NEW c \in Calls, FinishWrite(c) PROVE StepFileCall(d)' /\ OpenInv(d)'
  <2>1. OpenInv(d)'
    BY <1>0, <1>7 DEF FinishWrite, fileVars, OpenInv, Paths
  <2>2. StepFileCall(d)'
    BY <1>0, <1>7 DEF FinishWrite, Proceed, Written, argsOf
  <2>3. QED
    BY <2>1, <2>2
<1>8. ASSUME NEW c \in Calls, ReplyWrite(c) PROVE StepFileCall(d)' /\ OpenInv(d)'
  BY <1>0, <1>8 DEF ReplyWrite, End, fileVars, argsOf, OpenInv
<1>9. ASSUME NEW c \in Calls, GiveUpWrite(c) PROVE StepFileCall(d)' /\ OpenInv(d)'
  BY <1>0, <1>9 DEF GiveUpWrite, fileVars, argsOf, OpenInv
<1>10. ASSUME NEW c \in Calls, CutOff(c) PROVE StepFileCall(d)' /\ OpenInv(d)'
  <2>1. OpenInv(d)'
    BY <1>0, <1>10 DEF CutOff, fileVars, OpenInv, Paths
  <2>2. StepFileCall(d)'
    BY <1>0, <1>10 DEF CutOff, argsOf
  <2>3. QED
    BY <2>1, <2>2
<1>11. ASSUME NEW c \in Calls, StatSize(c) PROVE StepFileCall(d)' /\ OpenInv(d)'
  BY <1>0, <1>11 DEF StatSize, Proceed, End, fileVars, argsOf, OpenInv
<1>12. ASSUME NEW c \in Calls, ReadSlice(c) PROVE StepFileCall(d)' /\ OpenInv(d)'
  <2>1. step[c] = "dd" /\ UNCHANGED <<file, argsOf, fd, sent>>
    BY <1>12 DEF ReadSlice, fileVars
  <2>2. /\ \A a \in Calls \ {c} : step'[a] = step[a] /\ got'[a] = got[a] /\ result'[a] = result[a]
        /\ \/ step'[c] = "size" /\ result' = result
           \/ step'[c] = "done"
    BY <1>12 DEF ReadSlice, Proceed, End
  <2>3. QED
    BY <1>0, <2>1, <2>2 DEF argsOf, OpenInv
<1>13. ASSUME NEW c \in Calls, Get(c) PROVE StepFileCall(d)' /\ OpenInv(d)'
  BY <1>0, <1>13 DEF Get, End, fileVars, argsOf, OpenInv
<1>14. ASSUME NEW c \in Calls, NEW recursive \in BOOLEAN, Delete(c, recursive)
       PROVE  StepFileCall(d)' /\ OpenInv(d)'
  <2>1. \/ UNCHANGED <<file, fd>>
        \/ /\ file' = [file EXCEPT !["here"] = Absent]
           /\ fd' = Redirected("here", "unlinked")
    BY <1>14 DEF Delete, Change, fileVars
  <2>2. fd'[d] = fd[d] \/ (fd[d] = "here" /\ fd'[d] = "unlinked")
    BY <2>1 DEF Redirected
  <2>3. StepFileCall(d)'
    BY <1>0, <1>14, <2>2 DEF Delete, End, argsOf
  <2>4. OpenInv(d)'
    BY <1>0, <2>1 DEF Redirected, OpenInv, Paths
  <2>5. QED
    BY <2>3, <2>4
<1>15. ASSUME NEW c \in Calls, Rename(c) PROVE StepFileCall(d)' /\ OpenInv(d)'
  <2>1. \/ UNCHANGED <<file, fd>>
        \/ /\ ~Regular(file["there"]) /\ file["there"] # Directory
           /\ file' = [file EXCEPT !["here"] = Absent, !["there"] = file["here"]]
           /\ fd' = Redirected("here", "there")
        \/ /\ file["there"] = Directory
           /\ file' = [file EXCEPT !["here"] = Absent, !["there"] = @]
           /\ fd' = Redirected("here", "unlinked")
    BY <1>15 DEF Rename, Change, fileVars
  <2>2. fd'[d] = fd[d] \/ (fd[d] = "here" /\ fd'[d] \in {"there", "unlinked"})
    BY <2>1 DEF Redirected
  <2>3. StepFileCall(d)'
    <3>1. UNCHANGED <<argsOf, sent, got>> /\ step[c] = "act"
      BY <1>15 DEF Rename
    <3>2. \E r \in {"ok", "error"} : End(c, r)
      BY <1>15 DEF Rename
    <3>3. QED
      BY <1>0, <2>2, <3>1, <3>2 DEF End, argsOf
  <2>4. OpenInv(d)'
    <3>1. CASE UNCHANGED <<file, fd>>
      BY <1>0, <3>1 DEF OpenInv
    <3>2. CASE /\ ~Regular(file["there"]) /\ file["there"] # Directory
               /\ file' = [file EXCEPT !["here"] = Absent, !["there"] = file["here"]]
               /\ fd' = Redirected("here", "there")
      <4>1. fd[d] # "there" /\ file'["there"] = file["here"]
        BY <1>0, <3>2 DEF OpenInv, Paths
      <4>2. QED
        BY <1>0, <3>2, <4>1 DEF OpenInv, Redirected, Paths
    <3>3. CASE /\ file["there"] = Directory
               /\ file' = [file EXCEPT !["here"] = Absent, !["there"] = @]
               /\ fd' = Redirected("here", "unlinked")
      BY <1>0, <3>3 DEF OpenInv, Redirected, Paths
    <3>4. QED
      BY <2>1, <3>1, <3>2, <3>3
  <2>5. QED
    BY <2>3, <2>4
<1>16. ASSUME NEW c \in Calls, NEW parents \in BOOLEAN, Mkdir(c, parents)
       PROVE  StepFileCall(d)' /\ OpenInv(d)'
  <2>1. /\ UNCHANGED <<argsOf, fd, sent, got>> /\ step[c] = "act"
        /\ \E r \in {"ok", "error"} : End(c, r)
    BY <1>16 DEF Mkdir
  <2>2. StepFileCall(d)'
    BY <1>0, <2>1 DEF End, argsOf
  <2>3. \/ file' = file
        \/ file["there"] = Absent /\ file' = [file EXCEPT !["there"] = Directory]
    BY <1>16 DEF Mkdir, Change, fileVars
  <2>4. OpenInv(d)'
    BY <1>0, <2>1, <2>3, ContentTypes DEF OpenInv, Paths
  <2>5. QED
    BY <2>2, <2>4
<1>17. ASSUME NEW c \in Calls, CommandFails(c) PROVE StepFileCall(d)' /\ OpenInv(d)'
  BY <1>0, <1>17 DEF CommandFails, End, fileVars, argsOf, OpenInv
<1>18. CASE SecondPasses
  BY <1>0, <1>18 DEF SecondPasses, argsOf, OpenInv
<1>19. QED
  BY <1>1, <1>2, <1>3, <1>4, <1>5, <1>6, <1>7, <1>8, <1>9, <1>10, <1>11, <1>12, <1>13, <1>14,
     <1>15, <1>16, <1>17, <1>18 DEF FilesNext, FileStep

-----------------------------------------------------------------------------
(* A step of one call, as the others see it. *)

Kept(d) ==
  /\ op'[d] = op[d] /\ expect'[d] = expect[d] /\ slice'[d] = slice[d] /\ step'[d] = step[d]
  /\ probed'[d] = probed[d] /\ sent'[d] = sent[d] /\ got'[d] = got[d] /\ result'[d] = result[d]
  /\ saw'[d] = saw[d]

Quiet(d) ==
  /\ UNCHANGED <<file, mtime>> /\ others'[d] = others[d] /\ blurred'[d] = blurred[d]
  /\ fd'[d] = fd[d]

LEMMA Bystander ==
  ASSUME FilesTypesInv, NEW c \in Calls, FileStep(c), NEW d \in Calls \ {c}
  PROVE  Kept(d) /\ (Quiet(d) \/ \E f : Change(c, f))
<1> USE DEF FilesTypesInv, Kept, Quiet, fileVars, argsOf
<1>1. ASSUME NEW o \in FileOps, NEW e \in ExpectationsOf[c], NEW n \in Slices, BeginFile(c, o, e, n)
      PROVE  Kept(d) /\ Quiet(d)
  BY <1>1 DEF BeginFile, Proceed
<1>2. ASSUME NEW accepted \in BOOLEAN, Resolve(c, accepted) PROVE Kept(d) /\ Quiet(d)
  BY <1>2 DEF Resolve, Proceed, End
<1>3. CASE Probe(c)
  BY <1>3 DEF Probe, Proceed, End
<1>4. CASE Hash(c)
  BY <1>4 DEF Hash, Proceed, End
<1>5. CASE Open(c)
  <2>1. CASE file["here"] = Directory
    BY <1>5, <2>1 DEF Open, End
  <2>2. CASE file["here"] # Directory
    <3>1. Kept(d)
      BY <1>5, <2>2 DEF Open, Proceed
    <3>2. \E f : Change(c, f)
      BY <1>5, <2>2 DEF Open
    <3>3. QED
      BY <3>1, <3>2
  <2>3. QED
    BY <2>1, <2>2
<1>6. CASE Send(c)
  <2>1. Kept(d)
    BY <1>6 DEF Send
  <2>2. Quiet(d) \/ \E f : Change(c, f)
    <3>1. CASE fd[c] \in Paths
      BY <1>6, <3>1 DEF Send
    <3>2. CASE fd[c] \notin Paths
      BY <1>6, <3>2 DEF Send
    <3>3. QED
      BY <3>1, <3>2
  <2>3. QED
    BY <2>1, <2>2
<1>7. CASE FinishWrite(c)
  BY <1>7 DEF FinishWrite, Proceed
<1>8. CASE ReplyWrite(c)
  BY <1>8 DEF ReplyWrite, End
<1>9. CASE GiveUpWrite(c)
  BY <1>9 DEF GiveUpWrite
<1>10. CASE CutOff(c)
  BY <1>10 DEF CutOff
<1>11. CASE StatSize(c)
  BY <1>11 DEF StatSize, Proceed, End
<1>12. CASE ReadSlice(c)
  BY <1>12 DEF ReadSlice, Proceed, End
<1>13. CASE Get(c)
  BY <1>13 DEF Get, End
<1>14. ASSUME NEW recursive \in BOOLEAN, Delete(c, recursive)
       PROVE  Kept(d) /\ (Quiet(d) \/ \E f : Change(c, f))
  <2>1. Kept(d)
    BY <1>14 DEF Delete, End
  <2>2. Quiet(d) \/ \E f : Change(c, f)
    BY <1>14 DEF Delete
  <2>3. QED
    BY <2>1, <2>2
<1>15. CASE Rename(c)
  <2>1. \E r \in {"ok", "error"} : End(c, r)
    BY <1>15 DEF Rename
  <2>2. Kept(d)
    BY <1>15, <2>1 DEF Rename, End
  <2>3. Quiet(d) \/ \E f : Change(c, f)
    BY <1>15 DEF Rename
  <2>4. QED
    BY <2>2, <2>3
<1>16. ASSUME NEW parents \in BOOLEAN, Mkdir(c, parents)
       PROVE  Kept(d) /\ (Quiet(d) \/ \E f : Change(c, f))
  <2>1. \E r \in {"ok", "error"} : End(c, r)
    BY <1>16 DEF Mkdir
  <2>2. Kept(d)
    BY <1>16, <2>1 DEF Mkdir, End
  <2>3. Quiet(d) \/ \E f : Change(c, f)
    BY <1>16 DEF Mkdir
  <2>4. QED
    BY <2>2, <2>3
<1>17. CASE CommandFails(c)
  BY <1>17 DEF CommandFails, End
<1>18. QED
  BY <1>1, <1>2, <1>3, <1>4, <1>5, <1>6, <1>7, <1>8, <1>9, <1>10, <1>11, <1>12, <1>13, <1>14,
     <1>15, <1>16, <1>17 DEF FileStep

\* What a call knows, has written and has read survives a step of another one.
LEMMA BystanderKnows ==
  ASSUME FilesTypesInv, NEW c \in Calls, FileStep(c), NEW d \in Calls \ {c},
         KnownInv(d), GrowthInv(d), ReadInv(d)
  PROVE  KnownInv(d)' /\ GrowthInv(d)' /\ ReadInv(d)'
<1>1. Kept(d)
  BY Bystander
<1>2. CASE Quiet(d)
  <2>1. KnownInv(d)'
    BY <1>1, <1>2 DEF KnownInv, ProbeInv, SameSize, Kept, Quiet
  <2>2. GrowthInv(d)'
    BY <1>1, <1>2 DEF GrowthInv, Grew, Kept, Quiet
  <2>3. ReadInv(d)'
    BY <1>1, <1>2 DEF ReadInv, Agrees, MayBreak, Kept, Quiet
  <2>4. QED
    BY <2>1, <2>2, <2>3
<1>3. ASSUME NEW f, Change(c, f)
      PROVE  KnownInv(d)' /\ GrowthInv(d)' /\ ReadInv(d)'
  <2>1. CASE ~Active(d)
    BY <1>1, <2>1 DEF Kept, Active, KnownInv, GrowthInv, ReadInv
  <2>2. CASE Active(d)
    <3>1. others'[d] = {"probe", "hash"}
      BY <1>3, <2>2 DEF Change
    <3>2. blurred'[d] <=> blurred[d] \/ clock = saw[d].mtime
      BY <1>3, <2>2 DEF Change
    <3>3. file' = f /\ mtime' = IF f["here"] = file["here"] THEN mtime ELSE clock
      BY <1>3 DEF Change
    <3>4. KnownInv(d)'
      BY <1>1, <3>1, <3>2, <3>3 DEF Kept, KnownInv
    <3>5. GrowthInv(d)' /\ ReadInv(d)'
      BY <1>1, <3>1 DEF Kept, GrowthInv, ReadInv
    <3>6. QED
      BY <3>4, <3>5
  <2>3. QED
    BY <2>1, <2>2
<1>4. QED
  BY <1>2, <1>3, Bystander

-----------------------------------------------------------------------------
(* What a call knows and has written, after a step of its own. *)

LEMMA OwnKnows ==
  ASSUME FilesTypesInv, NEW c \in Calls, FileStep(c), StepFileCall(c), OpenInv(c), KnownInv(c), GrowthInv(c)
  PROVE  KnownInv(c)' /\ GrowthInv(c)'
<1> USE DEF FilesTypesInv, fileVars, argsOf
<1>a. ASSUME step'[c] \notin {"resolve", "probe", "hash", "open", "send", "reply", "size", "dd"}
      PROVE  KnownInv(c)' /\ GrowthInv(c)'
  BY <1>a DEF KnownInv, GrowthInv
<1>b. ASSUME NEW r, End(c, r) PROVE KnownInv(c)' /\ GrowthInv(c)'
  BY <1>a, <1>b DEF End
<1>1. ASSUME NEW o \in FileOps, NEW e \in ExpectationsOf[c], NEW n \in Slices, BeginFile(c, o, e, n)
      PROVE  KnownInv(c)' /\ GrowthInv(c)'
  BY <1>1 DEF BeginFile, Proceed, KnownInv, GrowthInv
<1>2. ASSUME NEW accepted \in BOOLEAN, Resolve(c, accepted) PROVE KnownInv(c)' /\ GrowthInv(c)'
  <2>1. CASE ~accepted
    BY <1>2, <1>b, <2>1 DEF Resolve
  <2>2. CASE accepted
    <3>1. /\ step[c] = "resolve"
          /\ UNCHANGED <<file, mtime, others, blurred, op, expect, probed, fd, sent, saw>>
      BY <1>2 DEF Resolve
    <3>2. \/ step'[c] \in {"probe", "size", "act"}
          \/ step'[c] = "open" /\ op[c] = "upload"
      BY <1>2, <2>2 DEF Resolve, Proceed
    <3>3. QED
      BY <3>1, <3>2 DEF KnownInv, GrowthInv, StepFileCall, ProbeInv, SameSize
  <2>3. QED
    BY <2>1, <2>2
<1>3. CASE Probe(c)
  <2>1. PICK existed \in BOOLEAN, size \in StatSizes :
          /\ existed => file["here"] # Absent
          /\ probed' = [probed EXCEPT ![c] =
               [existed |-> existed, size |-> IF existed THEN size ELSE 0,
                misled |-> ~existed /\ file["here"] # Absent]]
          /\ IF AsExpected(c, existed, size)
             THEN Proceed(c, IF "sha256" \in expect[c] THEN "hash" ELSE "open")
             ELSE End(c, "refused")
    BY <1>3, Zenon DEF Probe
  <2>2. CASE AsExpected(c, existed, size)
    <3>1. /\ step[c] = "probe" /\ step'[c] \in {"hash", "open"}
          /\ step'[c] = "open" => "sha256" \notin expect[c]
          /\ UNCHANGED <<file, mtime, blurred, op, expect, saw>>
      BY <1>3, <2>1, <2>2 DEF Probe, Proceed
    <3>2. size \in Nat /\ (file["here"] # Directory => size = Length(file["here"]))
      BY StatTypes
    <3>3. /\ probed'[c].size = IF existed THEN size ELSE 0
          /\ probed'[c].misled <=> (~existed /\ file["here"] # Absent)
      BY <2>1
    <3>4. Length(Absent) = 0 /\ Length(file["here"]) \in Nat
      BY ContentTypes DEF Length, Paths
    <3>5. ProbeInv(c)'
      BY <2>1, <3>1, <3>2, <3>3, <3>4 DEF ProbeInv
    <3>6. /\ "mtime" \in expect[c] => mtime = saw[c].mtime
          /\ "size" \in expect[c] => SameSize(c)
      BY <2>2, <3>2 DEF AsExpected, SameSize
    <3>7. SameSize(c)' <=> SameSize(c)
      BY <3>1 DEF SameSize
    <3>8. QED
      BY <3>1, <3>5, <3>6, <3>7 DEF KnownInv, GrowthInv
  <2>3. CASE ~AsExpected(c, existed, size)
    BY <1>b, <2>1, <2>3
  <2>4. QED
    BY <2>2, <2>3
<1>4. CASE Hash(c)
  <2>1. CASE file["here"] = saw[c].content
    <3>1. /\ step[c] = "hash" /\ step'[c] = "open" /\ "hash" \notin others'[c]
          /\ "probe" \in others'[c] <=> "probe" \in others[c]
          /\ UNCHANGED <<file, mtime, blurred, op, expect, probed, saw>>
      BY <1>4, <2>1 DEF Hash, Proceed
    <3>2. QED
      BY <2>1, <3>1 DEF KnownInv, GrowthInv, ProbeInv, SameSize
  <2>2. CASE file["here"] # saw[c].content
    BY <1>4, <1>b, <2>2 DEF Hash
  <2>3. QED
    BY <2>1, <2>2
<1>5. CASE Open(c)
  <2>1. CASE file["here"] = Directory
    BY <1>5, <1>b, <2>1 DEF Open
  <2>2. CASE file["here"] # Directory
    <3>1. /\ step[c] = "open" /\ step'[c] = "send" /\ fd'[c] = "here"
          /\ UNCHANGED <<op, probed, sent>>
      BY <1>5, <2>2 DEF Open, Proceed
    <3>2. file'["here"] = IF op[c] = "append" /\ Regular(file["here"]) THEN file["here"] ELSE <<>>
      BY <1>5, <2>2 DEF Open, Change, Paths
    <3>3. others'[c] = others[c]
      BY <1>5, <2>2 DEF Open, Change
    <3>4. Regular(<<>>) /\ Length(<<>>) = 0
      BY ByteTypes, ContentTypes
    <3>5. sent[c] = 0
      BY <3>1 DEF StepFileCall
    <3>6. KnownInv(c)'
      BY <3>1 DEF KnownInv
    <3>7. ASSUME op[c] # "upload", "probe" \notin others[c]
          PROVE  Grew(c, Length(file'["here"]))
      <4>1. /\ probed[c].size <= Length(file["here"])
            /\ ~probed[c].misled => probed[c].size = Length(file["here"])
        BY <2>2, <3>1, <3>7 DEF KnownInv, ProbeInv
      <4>2. Length(file["here"]) \in Nat /\ probed[c].size \in Nat
        BY ContentTypes DEF Paths, ProbeRecords
      <4>3. CASE op[c] = "append" /\ Regular(file["here"])
        BY <3>2, <3>5, <4>1, <4>2, <4>3 DEF Grew
      <4>4. CASE op[c] = "append" /\ ~Regular(file["here"])
        <5>1. Length(file["here"]) = 0 /\ Length(file'["here"]) = 0
          BY <3>2, <3>4, <4>4 DEF Length
        <5>2. QED
          BY <3>5, <4>1, <4>2, <5>1 DEF Grew
      <4>5. CASE op[c] # "append"
        BY <3>2, <3>4, <3>5, <4>5 DEF Grew
      <4>6. QED
        BY <4>3, <4>4, <4>5
    <3>8. GrowthInv(c)'
      BY <3>1, <3>2, <3>3, <3>4, <3>7 DEF GrowthInv, Grew
    <3>9. QED
      BY <3>6, <3>8
  <2>3. QED
    BY <2>1, <2>2
<1>6. CASE Send(c)
  <2>1. /\ step[c] = "send" /\ step'[c] = "send" /\ sent'[c] = sent[c] + 1 /\ sent[c] < Size
        /\ UNCHANGED <<op, probed, fd>>
    BY <1>6 DEF Send
  <2>2. KnownInv(c)'
    BY <2>1 DEF KnownInv
  <2>3. others'[c] = others[c]
    BY <1>6 DEF Send, Change
  <2>4. ASSUME op[c] # "upload", "probe" \notin others[c]
        PROVE  /\ Regular(file'["here"]) /\ fd[c] = "here"
               /\ Grew(c, Length(file["here"]))'
    <3> DEFINE b == <<c, sent[c] + 1>>
               s == file["here"]
               t == IF op[c] = "append" THEN Append(s, b) ELSE PutAt(s, sent[c] + 1, b)
    <3>1. /\ fd[c] = "here" /\ Regular(s)
          /\ Grew(c, Length(s))
      BY <2>1, <2>4 DEF GrowthInv
    <3>2. s \in Seq(Bytes) /\ Len(s) = Length(s)
      BY <3>1, ContentTypes DEF Paths
    <3>3. b \in Bytes
      <4>1. sent[c] + 1 \in 1..Size
        BY <2>1, FilesAssumption
      <4>2. QED
        BY <4>1, ByteTypes, Zenon
    <3>4. op[c] # "append" => Len(s) = sent[c]
      <4>1. sent[c] \in Nat
        BY FilesAssumption
      <4> HIDE DEF s
      <4>2. QED
        BY <3>1, <3>2, <4>1 DEF Grew
    <3>5. t \in Seq(Bytes) /\ Len(t) = Len(s) + 1
      BY <3>2, <3>3, <3>4, PutTypes DEF Grown
    <3>6. file'["here"] = t
      <4>1. file' = [file EXCEPT !["here"] = t]
        BY <1>6, <3>1 DEF Send, Change, Paths
      <4> HIDE DEF t
      <4>2. QED
        BY <4>1 DEF Paths
    <3> HIDE DEF t
    <3>7. Regular(t) /\ Length(t) = Len(t)
      BY <3>5, ContentTypes
    <3>8. probed[c].size \in Nat /\ sent[c] \in Nat
      BY FilesAssumption DEF ProbeRecords
    <3>9. Length(file'["here"]) = Length(s) + 1
      BY <3>2, <3>5, <3>6, <3>7
    <3>10. Grew(c, Length(file["here"]))'
      <4> DEFINE old == IF op[c] = "append" THEN probed[c].size ELSE 0
      <4>1. old \in Nat /\ op'[c] = op[c] /\ probed'[c] = probed[c] /\ Length(s) \in Nat
        BY <2>1, <3>2, <3>8
      <4>2. Length(s) >= old + sent[c] /\ (Length(s) = old + sent[c] \/ (op[c] = "append" /\ probed[c].misled))
        BY <3>1 DEF Grew
      <4> HIDE DEF old
      <4>3. /\ Length(file'["here"]) >= old + sent'[c]
            /\ Length(file'["here"]) = old + sent'[c] \/ (op[c] = "append" /\ probed[c].misled)
        <5>1. /\ Length(s) >= old + sent[c] => Length(file'["here"]) >= old + sent'[c]
              /\ Length(s) = old + sent[c] => Length(file'["here"]) = old + sent'[c]
          BY <2>1, <3>8, <3>9, <4>1
        <5>2. QED
          BY <4>2, <5>1, Zenon
      <4>4. (IF op'[c] = "append" THEN probed'[c].size ELSE 0) = old
        BY <4>1 DEF old
      <4>5. QED
        BY <4>1, <4>3, <4>4, Zenon DEF Grew
    <3>11. QED
      BY <3>1, <3>6, <3>7, <3>10
  <2>5. GrowthInv(c)'
    BY <2>1, <2>3, <2>4 DEF GrowthInv
  <2>6. QED
    BY <2>2, <2>5
<1>7. CASE FinishWrite(c)
  BY <1>7 DEF FinishWrite, Proceed, Written, KnownInv, GrowthInv, Grew
<1>8. CASE ReplyWrite(c)
  BY <1>8, <1>b DEF ReplyWrite
<1>9. CASE GiveUpWrite(c)
  BY <1>9 DEF GiveUpWrite, KnownInv, GrowthInv, ProbeInv, SameSize, Grew
<1>10. CASE CutOff(c)
  BY <1>10, <1>a DEF CutOff
<1>11. CASE StatSize(c)
  <2>1. (\E t \in {"dd", "get"} : Proceed(c, t)) \/ \E r \in {"error", "refused"} : End(c, r)
    BY <1>11, Zenon DEF StatSize
  <2>2. step[c] = "size" /\ UNCHANGED <<file, mtime, others, blurred, op, expect, saw>>
    BY <1>11 DEF StatSize
  <2>3. ASSUME NEW t \in {"dd", "get"}, Proceed(c, t) PROVE KnownInv(c)' /\ GrowthInv(c)'
    BY <2>2, <2>3 DEF Proceed, KnownInv, GrowthInv
  <2>4. QED
    BY <1>b, <2>1, <2>3
<1>12. CASE ReadSlice(c)
  <2>1. step'[c] = "done" \/ step'[c] = "size"
    BY <1>12 DEF ReadSlice, Proceed, End
  <2>2. step[c] = "dd" /\ UNCHANGED <<file, mtime, others, blurred, op, expect, saw>>
    BY <1>12 DEF ReadSlice
  <2>3. QED
    BY <2>1, <2>2 DEF KnownInv, GrowthInv
<1>13. CASE Get(c)
  <2>1. \E r \in {"ok", "error"} : End(c, r)
    BY <1>13 DEF Get
  <2>2. QED
    BY <1>b, <2>1
<1>14. ASSUME NEW recursive \in BOOLEAN, Delete(c, recursive) PROVE KnownInv(c)' /\ GrowthInv(c)'
  <2>1. \E r \in {"ok", "error"} : End(c, r)
    BY <1>14 DEF Delete
  <2>2. QED
    BY <1>b, <2>1
<1>15. CASE Rename(c)
  <2>1. \E r \in {"ok", "error"} : End(c, r)
    BY <1>15 DEF Rename
  <2>2. QED
    BY <1>b, <2>1
<1>16. ASSUME NEW parents \in BOOLEAN, Mkdir(c, parents) PROVE KnownInv(c)' /\ GrowthInv(c)'
  <2>1. \E r \in {"ok", "error"} : End(c, r)
    BY <1>16 DEF Mkdir
  <2>2. QED
    BY <1>b, <2>1
<1>17. CASE CommandFails(c)
  BY <1>17, <1>b DEF CommandFails
<1>18. QED
  BY <1>1, <1>2, <1>3, <1>4, <1>5, <1>6, <1>7, <1>8, <1>9, <1>10, <1>11, <1>12, <1>13, <1>14,
     <1>15, <1>16, <1>17 DEF FileStep

-----------------------------------------------------------------------------
(* Whole payloads. *)

LEMMA WholeSplits ==
  ASSUME NEW s \in Seq(Bytes)
  PROVE  Whole(s) <=> WholeUpTo(s, Len(s))
<1>1. DOMAIN s = 1..Len(s) /\ Len(s) \in Nat
  OBVIOUS
<1>2. \A k \in 1..Len(s) : k + 1 \in 1..Len(s) <=> k < Len(s)
  BY <1>1
<1>3. QED
  BY <1>1, <1>2 DEF Whole, WholeUpTo, GoesOn

LEMMA WholeKept ==
  ASSUME NEW s \in Seq(Bytes), NEW t \in Seq(Bytes), NEW n \in Nat, n <= Len(s), n <= Len(t),
         \A k \in 1..n : t[k] = s[k], WholeUpTo(s, n)
  PROVE  WholeUpTo(t, n)
<1> SUFFICES ASSUME NEW k \in 1..n
             PROVE  /\ FollowsOn(t, k)
                    /\ t[k][2] = Size \/ (k < n /\ t[k + 1] = <<t[k][1], t[k][2] + 1>>)
  BY DEF WholeUpTo
<1>1. /\ FollowsOn(s, k)
      /\ s[k][2] = Size \/ (k < n /\ s[k + 1] = <<s[k][1], s[k][2] + 1>>)
  BY DEF WholeUpTo
<1>2. t[k] = s[k]
  OBVIOUS
<1>3. k < n => t[k + 1] = s[k + 1]
  OBVIOUS
<1>4. k - 1 \in DOMAIN s => k - 1 \in DOMAIN t /\ t[k - 1] = s[k - 1]
  OBVIOUS
<1>5. FollowsOn(t, k)
  BY <1>1, <1>2, <1>4 DEF FollowsOn
<1>6. QED
  BY <1>1, <1>2, <1>3, <1>5

\* Whole payloads and a complete one behind them are whole payloads.
LEMMA WholeGrows ==
  ASSUME NEW s \in Seq(Bytes), NEW n \in Nat, NEW c \in Calls, Len(s) = n + Size, WholeUpTo(s, n),
         \A k \in 1..Size : s[n + k] = <<c, k>>
  PROVE  Whole(s)
<1>1. DOMAIN s = 1..n + Size /\ Size \in Nat \ {0}
  BY FilesAssumption
<1>2. ASSUME NEW k \in 1..n PROVE FollowsOn(s, k) /\ GoesOn(s, k)
  <2>1. k + 1 \in DOMAIN s
    BY <1>1
  <2>2. QED
    BY <1>2, <2>1 DEF WholeUpTo, GoesOn
<1>3. ASSUME NEW k \in n + 1..n + Size PROVE FollowsOn(s, k) /\ GoesOn(s, k)
  <2> DEFINE i == k - n
  <2>1. i \in 1..Size /\ k = n + i
    BY <1>1
  <2>2. s[k] = <<c, i>> /\ s[k][1] = c /\ s[k][2] = i
    BY <2>1
  <2>3. i = 1 \/ (k - 1 \in DOMAIN s /\ s[k - 1] = <<c, i - 1>>)
    <3>1. CASE i # 1
      <4>1. i - 1 \in 1..Size /\ k - 1 = n + (i - 1) /\ k - 1 \in DOMAIN s
        BY <1>1, <2>1, <3>1
      <4>2. QED
        BY <4>1
    <3>2. QED
      BY <3>1
  <2>4. i = Size \/ (k + 1 \in DOMAIN s /\ s[k + 1] = <<c, i + 1>>)
    <3>1. CASE i # Size
      <4>1. i + 1 \in 1..Size /\ k + 1 = n + (i + 1) /\ k + 1 \in DOMAIN s
        BY <1>1, <2>1, <3>1
      <4>2. QED
        BY <4>1
    <3>2. QED
      BY <3>1
  <2>5. QED
    BY <2>2, <2>3, <2>4 DEF FollowsOn, GoesOn
<1>4. \A k \in DOMAIN s : k \in 1..n \/ k \in n + 1..n + Size
  BY <1>1
<1>5. QED
  BY <1>2, <1>3, <1>4 DEF Whole

\* A step that leaves the files, the open ones and what was sent as they were.
LEMMA PartialKept ==
  ASSUME FilesTypesInv, NothingTorn, \A d \in Calls : PartialInv(d),
         UNCHANGED <<file, fd, sent, torn>>, \A d \in Calls : fd[d] \in Paths => op'[d] = op[d]
  PROVE  NothingTorn' /\ \A d \in Calls : PartialInv(d)'
<1>1. NothingTorn'
  BY DEF NothingTorn
<1>2. ASSUME NEW d \in Calls PROVE PartialInv(d)'
  <2>1. PartialInv(d)
    OBVIOUS
  <2>2. QED
    BY <2>1 DEF PartialInv, Base
<1>3. QED
  BY <1>1, <1>2

LEMMA PartialOpen ==
  ASSUME FilesTypesInv, NothingTorn, \A d \in Calls : StepFileCall(d) /\ PartialInv(d),
         NEW c \in Calls, Open(c)
  PROVE  NothingTorn' /\ \A d \in Calls : PartialInv(d)'
<1> USE DEF FilesTypesInv
<1>1. CASE file["here"] = Directory
  <2>1. UNCHANGED <<file, fd, sent, torn, op>>
    BY <1>1 DEF Open, fileVars, argsOf
  <2>2. QED
    BY <2>1, PartialKept
<1>2. CASE file["here"] # Directory
  <2> SUFFICES ASSUME ~torn' PROVE NothingTorn' /\ \A d \in Calls : PartialInv(d)'
    BY DEF NothingTorn, PartialInv
  <2>1. /\ step[c] = "open" /\ fd' = [fd EXCEPT ![c] = "here"] /\ sent' = sent /\ op' = op
        /\ ~torn /\ \A d \in Calls : fd[d] # "here"
    BY <1>2 DEF Open, argsOf
  <2>2. /\ file'["here"] = IF op[c] = "append" /\ Regular(file["here"]) THEN file["here"] ELSE <<>>
        /\ file'["there"] = file["there"]
    BY <1>2 DEF Open, Change, Paths
  <2>3. sent[c] = 0 /\ fd[c] = "none"
    BY <2>1 DEF StepFileCall, Paths
  <2>4. NothingTorn'
    <3>1. Regular(file["there"]) /\ (\A d \in Calls : fd'[d] # "there") => Whole(file["there"])
      BY <2>1, <2>3 DEF NothingTorn, Paths
    <3>2. \E d \in Calls : fd'[d] = "here"
      BY <2>1
    <3>3. QED
      BY <2>2, <3>1, <3>2 DEF NothingTorn, Paths
  <2>5. PartialInv(c)'
    <3>1. \A d \in Calls : fd'[d] = fd'[c] => d = c
      BY <2>1
    <3>2. CASE op[c] = "append" /\ Regular(file["here"])
      <4>1. Whole(file["here"]) /\ file["here"] \in Seq(Bytes) /\ Len(file["here"]) \in Nat
        BY <2>1, <3>2, ContentTypes DEF NothingTorn, Paths
      <4>2. Base(c)' = Len(file["here"])
        BY <2>1, <2>2, <2>3, <3>2, <4>1 DEF Base
      <4>3. WholeUpTo(file'[fd'[c]], Base(c)')
        BY <2>1, <2>2, <3>2, <4>1, <4>2, WholeSplits
      <4>4. QED
        BY <2>1, <2>3, <3>1, <3>2, <4>1, <4>2, <4>3 DEF PartialInv
    <3>3. CASE ~(op[c] = "append" /\ Regular(file["here"]))
      <4>1. file'[fd'[c]] = <<>> /\ Base(c)' = 0
        BY <2>1, <2>2, <2>3, <3>3 DEF Base
      <4>2. WholeUpTo(file'[fd'[c]], Base(c)')
        BY <4>1 DEF WholeUpTo
      <4>3. QED
        BY <2>1, <2>3, <3>1, <4>1, <4>2 DEF PartialInv
    <3>4. QED
      BY <3>2, <3>3
  <2>6. ASSUME NEW d \in Calls, d # c PROVE PartialInv(d)'
    <3>1. fd'[d] = fd[d] /\ PartialInv(d)
      BY <2>1, <2>6
    <3>2. CASE fd[d] = "there"
      <4>1. Base(d)' = Base(d)
        BY <2>1, <2>2, <3>1, <3>2 DEF Base
      <4>2. \A e \in Calls : fd'[e] = fd'[d] => e = d
        BY <2>1, <3>1, <3>2 DEF PartialInv, Paths
      <4>3. QED
        BY <2>1, <2>2, <3>1, <3>2, <4>1, <4>2 DEF PartialInv, Paths
    <3>3. CASE fd[d] # "there"
      BY <2>1, <3>1, <3>3 DEF PartialInv, Paths
    <3>4. QED
      BY <3>2, <3>3
  <2>7. QED
    BY <2>4, <2>5, <2>6
<1>3. QED
  BY <1>1, <1>2

LEMMA PartialSend ==
  ASSUME FilesTypesInv, NothingTorn, \A d \in Calls : StepFileCall(d) /\ OpenInv(d) /\ PartialInv(d),
         NEW c \in Calls, Send(c)
  PROVE  NothingTorn' /\ \A d \in Calls : PartialInv(d)'
<1> USE DEF FilesTypesInv
<1> SUFFICES ASSUME ~torn' PROVE NothingTorn' /\ \A d \in Calls : PartialInv(d)'
  BY DEF NothingTorn, PartialInv
<1>1. /\ sent[c] \in 0..Size /\ sent[c] < Size /\ sent' = [sent EXCEPT ![c] = @ + 1]
      /\ fd' = fd /\ op' = op /\ torn' = torn /\ ~torn
  BY DEF Send, argsOf
<1>2. CASE fd[c] \in Paths
  <2> DEFINE b == <<c, sent[c] + 1>>
             s == file[fd[c]]
             t == file'[fd[c]]
  <2>1. \A d \in Calls : fd[d] = fd[c] => d = c
    BY <1>1, <1>2 DEF PartialInv
  <2>2. s \in Seq(Bytes) /\ Len(s) \in Nat
    BY <1>2, ContentTypes DEF OpenInv
  <2>3. b \in Bytes
    BY <1>1, ByteTypes, FilesAssumption
  <2>4. Base(c) = Len(s) - sent[c] /\ Base(c) \in Nat
    BY <1>1, <1>2, <2>2, FilesAssumption DEF PartialInv, Base
  <2>5. Grown(s, b, t)
    <3>1. t = IF op[c] = "append" THEN Append(s, b) ELSE PutAt(s, sent[c] + 1, b)
      BY <1>2 DEF Send, Change
    <3>2. op[c] # "append" => sent[c] = Len(s)
      BY <1>1, <1>2, <2>2, <2>4 DEF PartialInv
    <3> HIDE DEF b, s, t
    <3>3. CASE op[c] = "append"
      BY <2>2, <2>3, <3>1, <3>3, PutTypes
    <3>4. CASE op[c] # "append"
      BY <2>2, <2>3, <3>1, <3>2, <3>4, PutTypes
    <3>5. QED
      BY <3>3, <3>4
  <2>6. \A p \in Paths : p # fd[c] => file'[p] = file[p]
    BY <1>2 DEF Send, Change
  <2>7. NothingTorn'
    BY <1>1, <2>6 DEF NothingTorn
  <2>8. PartialInv(c)'
    <3>1. Base(c)' = Base(c) /\ t \in Seq(Bytes) /\ Len(t) = Len(s) + 1
      <4>1. t \in Seq(Bytes) /\ Len(t) = Len(s) + 1
        BY <2>5 DEF Grown
      <4>2. Base(c)' = Len(t) - sent'[c] /\ sent'[c] = sent[c] + 1 /\ sent[c] \in Nat
        BY <1>1, FilesAssumption DEF Base
      <4> HIDE DEF s, t
      <4>3. QED
        BY <2>2, <2>4, <4>1, <4>2
    <3>2. WholeUpTo(t, Base(c))
      <4>1. WholeUpTo(s, Base(c))
        BY <1>1, <1>2 DEF PartialInv
      <4>2. Base(c) <= Len(s) /\ Base(c) <= Len(t)
        BY <1>1, <2>2, <2>4, <3>1
      <4>3. \A k \in 1..Base(c) : t[k] = s[k]
        BY <2>2, <2>4, <2>5, <4>2 DEF Grown
      <4>4. QED
        BY <2>2, <2>4, <3>1, <4>1, <4>2, <4>3, WholeKept
    <3>3. \A k \in 1..sent'[c] : t[Base(c) + k] = <<c, k>>
      <4> SUFFICES ASSUME NEW k \in 1..sent'[c] PROVE t[Base(c) + k] = <<c, k>>
        OBVIOUS
      <4>1. CASE k = sent[c] + 1
        <5>1. Base(c) + k = Len(s) + 1
          <6>1. sent[c] \in Nat /\ Base(c) + k = Base(c) + (sent[c] + 1)
            BY <1>1, <4>1, FilesAssumption
          <6> HIDE DEF s
          <6>2. QED
            BY <2>2, <2>4, <6>1
        <5>2. t[Len(s) + 1] = b
          BY <2>5 DEF Grown
        <5>3. QED
          BY <4>1, <5>1, <5>2
      <4>2. CASE k # sent[c] + 1
        <5>1. k \in 1..sent[c]
          BY <1>1, <4>2
        <5>2. Base(c) + k \in 1..Len(s)
          BY <1>1, <2>2, <2>4, <5>1
        <5>3. s[Base(c) + k] = <<c, k>>
          BY <1>1, <1>2, <5>1 DEF PartialInv
        <5>4. QED
          BY <2>5, <5>2, <5>3 DEF Grown
      <4>3. QED
        BY <4>1, <4>2
    <3>4. op[c] # "append" => Base(c) = 0
      BY <1>1, <1>2 DEF PartialInv
    <3>5. QED
      BY <1>1, <2>1, <2>4, <3>1, <3>2, <3>3, <3>4 DEF PartialInv
  <2>9. ASSUME NEW d \in Calls, d # c PROVE PartialInv(d)'
    <3>1. PartialInv(d) /\ fd[d] # fd[c] /\ sent'[d] = sent[d]
      BY <1>1, <2>1, <2>9
    <3>2. fd[d] \in Paths => file'[fd[d]] = file[fd[d]]
      BY <2>6, <3>1
    <3>3. QED
      BY <1>1, <3>1, <3>2 DEF PartialInv, Base
  <2>10. QED
    BY <2>7, <2>8, <2>9
<1>3. CASE fd[c] \notin Paths
  <2>1. file' = file
    BY <1>3 DEF Send, fileVars
  <2>2. NothingTorn'
    BY <1>1, <2>1 DEF NothingTorn
  <2>3. ASSUME NEW d \in Calls PROVE PartialInv(d)'
    <3>1. PartialInv(d)
      OBVIOUS
    <3>2. CASE d = c
      BY <1>1, <1>3, <3>2 DEF PartialInv
    <3>3. CASE d # c
      BY <1>1, <2>1, <3>1, <3>3 DEF PartialInv, Base
    <3>4. QED
      BY <3>2, <3>3
  <2>4. QED
    BY <2>2, <2>3
<1>4. QED
  BY <1>2, <1>3

\* A call closes its file when it has written its payload.
LEMMA PartialClose ==
  ASSUME FilesTypesInv, NothingTorn, \A d \in Calls : OpenInv(d) /\ PartialInv(d), NEW c \in Calls,
         sent[c] = Size, fd' = [fd EXCEPT ![c] = "none"], UNCHANGED <<file, sent, op>>,
         ~torn
  PROVE  NothingTorn' /\ \A d \in Calls : PartialInv(d)'
<1> USE DEF FilesTypesInv
<1>1. ASSUME NEW p \in Paths, Regular(file[p]), \A d \in Calls : fd'[d] # p
      PROVE  Whole(file[p])
  <2>1. CASE fd[c] # p
    BY <1>1, <2>1 DEF NothingTorn
  <2>2. CASE fd[c] = p
    <3>1. file[p] \in Seq(Bytes) /\ Len(file[p]) \in Nat /\ Size \in Nat
      BY <1>1, ContentTypes, FilesAssumption
    <3>2. Base(c) = Len(file[p]) - Size /\ Base(c) \in Nat
      BY <2>2, <3>1 DEF PartialInv, Base
    <3>3. /\ WholeUpTo(file[p], Base(c))
          /\ \A k \in 1..Size : file[p][Base(c) + k] = <<c, k>>
      BY <2>2 DEF PartialInv
    <3>4. Len(file[p]) = Base(c) + Size
      BY <3>1, <3>2
    <3>5. QED
      BY <3>1, <3>2, <3>3, <3>4, WholeGrows
  <2>3. QED
    BY <2>1, <2>2
<1>2. NothingTorn'
  BY <1>1 DEF NothingTorn
<1>3. ASSUME NEW d \in Calls PROVE PartialInv(d)'
  <2>1. PartialInv(d)
    OBVIOUS
  <2>2. CASE d = c
    BY <2>2 DEF PartialInv, Paths
  <2>3. CASE d # c
    <3>1. fd'[d] = fd[d] /\ Base(d)' = Base(d)
      BY <2>3 DEF Base
    <3>2. fd[d] \in Paths => \A e \in Calls : fd'[e] = fd[d] => e = d
      BY <2>1 DEF PartialInv, Paths
    <3>3. QED
      BY <2>1, <3>1, <3>2 DEF PartialInv
  <2>4. QED
    BY <2>2, <2>3
<1>4. QED
  BY <1>2, <1>3

LEMMA PartialMoves ==
  ASSUME FilesTypesInv, NothingTorn, \A d \in Calls : OpenInv(d) /\ PartialInv(d),
         UNCHANGED <<sent, torn, op>>,
         \/ file' = [file EXCEPT !["here"] = Absent] /\ fd' = Redirected("here", "unlinked")
         \/ /\ ~Regular(file["there"]) /\ fd' = Redirected("here", "there")
            /\ file' = [file EXCEPT !["here"] = Absent, !["there"] = file["here"]]
         \/ /\ file["there"] = Absent /\ fd' = fd
            /\ file' = [file EXCEPT !["there"] = Directory]
  PROVE  NothingTorn' /\ \A d \in Calls : PartialInv(d)'
<1> USE DEF FilesTypesInv
<1>1. CASE file' = [file EXCEPT !["here"] = Absent] /\ fd' = Redirected("here", "unlinked")
  <2>1. /\ file'["there"] = file["there"] /\ ~Regular(file'["here"])
        /\ \A d \in Calls : fd'[d] = IF fd[d] = "here" THEN "unlinked" ELSE fd[d]
    BY <1>1, ContentTypes DEF Redirected, Paths
  <2>2. NothingTorn'
    BY <2>1 DEF NothingTorn, Paths
  <2>3. ASSUME NEW d \in Calls PROVE PartialInv(d)'
    <3>1. PartialInv(d) /\ fd'[d] \in Paths => fd[d] = "there" /\ fd'[d] = "there"
      BY <2>1 DEF Paths
    <3>2. fd[d] = "there" => Base(d)' = Base(d)
      BY <2>1 DEF Base
    <3>3. fd[d] = "there" => \A e \in Calls : fd'[e] = "there" => fd[e] = fd[d]
      BY <2>1
    <3>4. QED
      BY <2>1, <3>1, <3>2, <3>3 DEF PartialInv, Paths
  <2>4. QED
    BY <2>2, <2>3
<1>2. CASE /\ ~Regular(file["there"]) /\ fd' = Redirected("here", "there")
           /\ file' = [file EXCEPT !["here"] = Absent, !["there"] = file["here"]]
  <2>1. \A d \in Calls : fd[d] # "there"
    BY <1>2 DEF OpenInv, Paths
  <2>2. /\ file'["there"] = file["here"] /\ ~Regular(file'["here"])
        /\ \A d \in Calls : fd'[d] = IF fd[d] = "here" THEN "there" ELSE fd[d]
    BY <1>2, ContentTypes DEF Redirected, Paths
  <2>3. NothingTorn'
    <3>1. (\A d \in Calls : fd'[d] # "there") => \A d \in Calls : fd[d] # "here"
      BY <2>2
    <3>2. QED
      BY <2>2, <3>1 DEF NothingTorn, Paths
  <2>4. ASSUME NEW d \in Calls PROVE PartialInv(d)'
    <3>1. fd'[d] \in Paths => fd[d] = "here" /\ fd'[d] = "there"
      BY <2>1, <2>2 DEF Paths
    <3>2. fd[d] = "here" => Base(d)' = Base(d)
      BY <2>2 DEF Base
    <3>3. fd[d] = "here" => \A e \in Calls : fd'[e] = "there" => fd[e] = fd[d]
      BY <2>1, <2>2
    <3>4. QED
      BY <2>2, <3>1, <3>2, <3>3 DEF PartialInv, Paths
  <2>5. QED
    BY <2>3, <2>4
<1>3. CASE /\ file["there"] = Absent /\ fd' = fd
           /\ file' = [file EXCEPT !["there"] = Directory]
  <2>1. \A d \in Calls : fd[d] # "there"
    BY <1>3, ContentTypes DEF OpenInv, Paths
  <2>2. file'["here"] = file["here"] /\ ~Regular(file'["there"])
    BY <1>3, ContentTypes DEF Paths
  <2>3. NothingTorn'
    BY <1>3, <2>2 DEF NothingTorn, Paths
  <2>4. ASSUME NEW d \in Calls PROVE PartialInv(d)'
    <3>1. PartialInv(d) /\ (fd[d] \in Paths => fd[d] = "here")
      BY <2>1 DEF Paths
    <3>2. fd[d] = "here" => Base(d)' = Base(d)
      BY <1>3, <2>2 DEF Base
    <3>3. QED
      BY <1>3, <2>2, <3>1, <3>2 DEF PartialInv, Paths
  <2>5. QED
    BY <2>3, <2>4
<1>4. QED
  BY <1>1, <1>2, <1>3

LEMMA PartialStep ==
  ASSUME FilesTypesInv, NothingTorn, \A d \in Calls : StepFileCall(d) /\ OpenInv(d) /\ PartialInv(d),
         FilesNext
  PROVE  NothingTorn' /\ \A d \in Calls : PartialInv(d)'
<1> DEFINE Goal == NothingTorn' /\ \A d \in Calls : PartialInv(d)'
<1>a. ASSUME UNCHANGED <<file, fd, sent, torn>>,
             \A d \in Calls : fd[d] \in Paths => op'[d] = op[d]
      PROVE  Goal
  BY <1>a, PartialKept
<1>b. ASSUME UNCHANGED <<file, fd, sent, torn, op>> PROVE Goal
  BY <1>a, <1>b
<1> HIDE DEF Goal
<1>1. ASSUME NEW c \in Calls, NEW o \in FileOps, NEW e \in ExpectationsOf[c], NEW n \in Slices,
             BeginFile(c, o, e, n)
      PROVE  Goal
  <2>1. step[c] = "begin" /\ UNCHANGED <<file, fd, sent, torn>> /\ op' = [op EXCEPT ![c] = o]
    BY <1>1 DEF BeginFile
  <2>2. fd[c] = "none"
    BY <2>1 DEF StepFileCall
  <2>3. \A d \in Calls : fd[d] \in Paths => op'[d] = op[d]
    BY <2>1, <2>2 DEF FilesTypesInv, Paths
  <2>4. QED
    BY <1>a, <2>1, <2>3
<1>2. ASSUME NEW c \in Calls, NEW accepted \in BOOLEAN, Resolve(c, accepted) PROVE Goal
  BY <1>2, <1>b DEF Resolve, fileVars, argsOf
<1>3. ASSUME NEW c \in Calls, Probe(c) \/ Hash(c) PROVE Goal
  BY <1>3, <1>b DEF Probe, Hash, argsOf
<1>4. ASSUME NEW c \in Calls, Open(c) PROVE Goal
  BY <1>4, PartialOpen DEF Goal
<1>5. ASSUME NEW c \in Calls, Send(c) PROVE Goal
  BY <1>5, PartialSend DEF Goal
<1>6. ASSUME NEW c \in Calls, FinishWrite(c) PROVE Goal
  <2>1. sent[c] = Size /\ fd' = [fd EXCEPT ![c] = "none"] /\ UNCHANGED <<file, sent, op, torn>>
    BY <1>6 DEF FinishWrite, Written, fileVars, argsOf
  <2>2. CASE torn
    BY <2>1, <2>2 DEF Goal, NothingTorn, PartialInv
  <2>3. CASE ~torn
    BY <2>1, <2>3, PartialClose DEF Goal
  <2>4. QED
    BY <2>2, <2>3
<1>7. ASSUME NEW c \in Calls, ReplyWrite(c) \/ GiveUpWrite(c) PROVE Goal
  BY <1>7, <1>b DEF ReplyWrite, GiveUpWrite, fileVars, argsOf
<1>8. ASSUME NEW c \in Calls, CutOff(c) PROVE Goal
  <2>1. /\ step[c] \in {"open", "send"} /\ fd' = [fd EXCEPT ![c] = "none"]
        /\ torn' = (torn \/ (step[c] = "send" /\ sent[c] < Size))
        /\ UNCHANGED <<file, sent, op>>
    BY <1>8 DEF CutOff, fileVars, argsOf
  <2>2. CASE torn'
    BY <2>2 DEF Goal, NothingTorn, PartialInv
  <2>3. CASE ~torn' /\ step[c] = "send"
    <3>1. sent[c] \in 0..Size /\ ~(sent[c] < Size) /\ ~torn
      BY <2>1, <2>3 DEF FilesTypesInv
    <3>2. sent[c] = Size
      BY <3>1, FilesAssumption
    <3>3. QED
      BY <2>1, <3>1, <3>2, PartialClose DEF Goal
  <2>4. CASE ~torn' /\ step[c] = "open"
    <3>1. fd[c] = "none"
      BY <2>4 DEF StepFileCall
    <3>2. fd' = fd
      BY <2>1, <3>1 DEF FilesTypesInv
    <3>3. torn' = torn
      BY <2>1, <2>4 DEF FilesTypesInv
    <3>4. QED
      BY <1>b, <2>1, <3>2, <3>3
  <2>5. QED
    BY <2>1, <2>2, <2>3, <2>4
<1>9. ASSUME NEW c \in Calls, StatSize(c) \/ ReadSlice(c) \/ Get(c) PROVE Goal
  BY <1>9, <1>b DEF StatSize, ReadSlice, Get, fileVars, argsOf
<1>10. ASSUME NEW c \in Calls, NEW recursive \in BOOLEAN, Delete(c, recursive) PROVE Goal
  <2>1. UNCHANGED <<sent, torn, op>>
    BY <1>10 DEF Delete, argsOf
  <2>2. \/ UNCHANGED <<file, fd>>
        \/ file' = [file EXCEPT !["here"] = Absent] /\ fd' = Redirected("here", "unlinked")
    BY <1>10 DEF Delete, Change, fileVars
  <2>3. QED
    BY <1>b, <2>1, <2>2, PartialMoves DEF Goal
<1>11. ASSUME NEW c \in Calls, Rename(c) PROVE Goal
  <2>1. UNCHANGED <<sent, torn, op>>
    BY <1>11 DEF Rename, argsOf
  <2>2. \/ UNCHANGED <<file, fd>>
        \/ /\ ~Regular(file["there"]) /\ fd' = Redirected("here", "there")
           /\ file' = [file EXCEPT !["here"] = Absent, !["there"] = file["here"]]
        \/ /\ file' = [file EXCEPT !["here"] = Absent, !["there"] = @]
           /\ fd' = Redirected("here", "unlinked")
    BY <1>11 DEF Rename, Change, fileVars
  <2>3. [file EXCEPT !["here"] = Absent, !["there"] = @] = [file EXCEPT !["here"] = Absent]
    BY DEF FilesTypesInv, Paths
  <2>4. QED
    BY <1>b, <2>1, <2>2, <2>3, PartialMoves DEF Goal
<1>12. ASSUME NEW c \in Calls, NEW parents \in BOOLEAN, Mkdir(c, parents) PROVE Goal
  <2>1. UNCHANGED <<fd, sent, torn, op>>
    BY <1>12 DEF Mkdir, argsOf
  <2>2. \/ UNCHANGED file
        \/ file["there"] = Absent /\ file' = [file EXCEPT !["there"] = Directory]
    BY <1>12 DEF Mkdir, Change, fileVars
  <2>3. QED
    BY <1>b, <2>1, <2>2, PartialMoves DEF Goal
<1>13. ASSUME NEW c \in Calls, CommandFails(c) PROVE Goal
  BY <1>13, <1>b DEF CommandFails, fileVars, argsOf
<1>14. ASSUME SecondPasses PROVE Goal
  BY <1>14, <1>b DEF SecondPasses, argsOf
<1>15. Goal
  BY <1>1, <1>2, <1>3, <1>4, <1>5, <1>6, <1>7, <1>8, <1>9, <1>10, <1>11, <1>12, <1>13, <1>14
  DEF FilesNext, FileStep
<1>16. QED
  BY <1>15 DEF Goal

-----------------------------------------------------------------------------
(* The old bytes. *)

\* What a process appends or writes is no old byte.
LEMMA OldBytes ==
  ASSUME NEW s \in Seq(Bytes), NEW b \in Bytes, b[1] # Old
  PROVE  /\ NoOld(s) => NoOld(Append(s, b)) /\ \A i \in Nat \ {0} : NoOld(PutAt(s, i, b))
         /\ OldFirst(s) => OldFirst(Append(s, b))
         /\ NoOld(s) => OldFirst(s)
<1>1. Grown(s, b, Append(s, b)) /\ Len(s) \in Nat
  BY PutTypes
<1>2. ASSUME NEW k \in DOMAIN Append(s, b)
      PROVE  Append(s, b)[k] = b \/ (k \in DOMAIN s /\ Append(s, b)[k] = s[k])
  <2>1. k \in 1..Len(s) + 1
    BY <1>1, <1>2 DEF Grown
  <2>2. QED
    BY <1>1, <2>1 DEF Grown
<1>3. NoOld(s) => NoOld(Append(s, b))
  BY <1>2 DEF NoOld
<1>4. ASSUME NoOld(s), NEW i \in Nat \ {0} PROVE NoOld(PutAt(s, i, b))
  <2>1. Hole[1] # Old
    BY DEF Hole, Old
  <2>2. ASSUME NEW k \in DOMAIN PutAt(s, i, b) PROVE PutAt(s, i, b)[k][1] # Old
    <3>1. PutAt(s, i, b)[k] \in {b, Hole} \cup {s[j] : j \in DOMAIN s}
      BY PutTypes
    <3>2. \A j \in DOMAIN s : s[j][1] # Old
      BY <1>4 DEF NoOld
    <3>3. QED
      BY <2>1, <3>1, <3>2
  <2>3. QED
    BY <2>2 DEF NoOld
<1>5. ASSUME OldFirst(s) PROVE OldFirst(Append(s, b))
  <2> DEFINE t == Append(s, b)
  <2>1. \A i \in DOMAIN s : i \in DOMAIN t /\ t[i] = s[i]
    BY <1>1 DEF Grown
  <2>2. \A k \in DOMAIN t : t[k] = b \/ (k \in DOMAIN s /\ t[k] = s[k])
    BY <1>2
  <2> HIDE DEF t
  <2>3. OldFirst(t)
    BY <1>5, <2>1, <2>2 DEF OldFirst
  <2>4. QED
    BY <2>3 DEF t
<1>6. NoOld(s) => OldFirst(s)
  BY DEF NoOld, OldFirst
<1>7. QED
  BY <1>3, <1>4, <1>5, <1>6

LEMMA OldKept ==
  ASSUME FilesTypesInv, OldInv, \A d \in Calls : TruncatedInv(d), UNCHANGED <<file, saw>>,
         \A d \in Calls : fd'[d] \in Paths => fd'[d] = fd[d] /\ op'[d] = op[d]
  PROVE  OldInv' /\ \A d \in Calls : TruncatedInv(d)'
<1>1. OldInv'
  BY DEF OldInv
<1>2. ASSUME NEW d \in Calls PROVE TruncatedInv(d)'
  <2>1. TruncatedInv(d)
    OBVIOUS
  <2>2. QED
    BY <2>1 DEF TruncatedInv
<1>3. QED
  BY <1>1, <1>2

LEMMA OldOpen ==
  ASSUME FilesTypesInv, OldInv, \A d \in Calls : TruncatedInv(d), NEW c \in Calls, Open(c)
  PROVE  OldInv' /\ \A d \in Calls : TruncatedInv(d)'
<1> USE DEF FilesTypesInv
<1>1. CASE file["here"] = Directory
  <2>1. UNCHANGED <<file, saw, fd, op>>
    BY <1>1 DEF Open, fileVars, argsOf
  <2>2. QED
    BY <2>1, OldKept
<1>2. CASE file["here"] # Directory
  <2>1. fd' = [fd EXCEPT ![c] = "here"] /\ saw' = saw /\ op' = op
    BY <1>2 DEF Open, argsOf
  <2>2. /\ file'["here"] = IF op[c] = "append" /\ Regular(file["here"]) THEN file["here"] ELSE <<>>
        /\ file'["there"] = file["there"]
    BY <1>2 DEF Open, Change, Paths
  <2>3. NoOld(<<>>) /\ OldFirst(<<>>)
    BY DEF NoOld, OldFirst
  <2>4. OldInv'
    BY <2>1, <2>2, <2>3 DEF OldInv, Paths
  <2>5. ASSUME NEW d \in Calls PROVE TruncatedInv(d)'
    <3>1. TruncatedInv(d)
      OBVIOUS
    <3>2. CASE d = c
      <4>1. op[c] # "append" => NoOld(file'["here"])
        BY <2>2, <2>3
      <4>2. QED
        BY <2>1, <3>2, <4>1 DEF TruncatedInv, NoOld
    <3>3. CASE d # c
      BY <2>1, <2>2, <2>3, <3>1, <3>3 DEF TruncatedInv, NoOld, Paths
    <3>4. QED
      BY <3>2, <3>3
  <2>6. QED
    BY <2>4, <2>5
<1>3. QED
  BY <1>1, <1>2

LEMMA OldSend ==
  ASSUME FilesTypesInv, OldInv, \A d \in Calls : OpenInv(d) /\ TruncatedInv(d), NEW c \in Calls, Send(c)
  PROVE  OldInv' /\ \A d \in Calls : TruncatedInv(d)'
<1> USE DEF FilesTypesInv
<1>1. /\ sent[c] \in 0..Size /\ sent[c] < Size /\ fd' = fd /\ op' = op /\ saw' = saw
  BY DEF Send, argsOf
<1>2. CASE fd[c] \in Paths
  <2> DEFINE b == <<c, sent[c] + 1>>
             s == file[fd[c]]
             t == file'[fd[c]]
  <2>1. s \in Seq(Bytes) /\ Regular(s)
    BY <1>2, ContentTypes DEF OpenInv
  <2>2. b \in Bytes /\ b[1] # Old /\ sent[c] + 1 \in Nat \ {0}
    BY <1>1, ByteTypes, FilesAssumption
  <2>3. t = IF op[c] = "append" THEN Append(s, b) ELSE PutAt(s, sent[c] + 1, b)
    BY <1>2 DEF Send, Change
  <2>4. \A p \in Paths : p # fd[c] => file'[p] = file[p]
    BY <1>2 DEF Send, Change
  <2>5. OldFirst(s) /\ (op[c] # "append" => NoOld(s))
    BY <1>2, <2>1 DEF OldInv, TruncatedInv, NoOld
  <2>6. Regular(t) /\ t \in Seq(Bytes)
    <3> HIDE DEF b, s
    <3>1. t \in Seq(Bytes)
      BY <2>1, <2>2, <2>3, PutTypes DEF Grown
    <3>2. QED
      BY <3>1, ContentTypes
  <2>7. (NoOld(s) => NoOld(t)) /\ OldFirst(t)
    <3> HIDE DEF b, s, t
    <3>1. CASE op[c] = "append"
      BY <2>1, <2>2, <2>3, <2>5, <3>1, OldBytes
    <3>2. CASE op[c] # "append"
      <4>1. NoOld(t)
        BY <2>1, <2>2, <2>3, <2>5, <3>2, OldBytes
      <4>2. QED
        BY <2>2, <2>6, <4>1, OldBytes DEF t
    <3>3. QED
      BY <3>1, <3>2
  <2>8. OldInv'
    BY <1>1, <2>4, <2>7 DEF OldInv
  <2>9. ASSUME NEW d \in Calls PROVE TruncatedInv(d)'
    <3>1. TruncatedInv(d)
      OBVIOUS
    <3>2. CASE fd[d] = fd[c]
      BY <1>1, <2>7, <3>1, <3>2 DEF TruncatedInv, NoOld
    <3>3. CASE fd[d] # fd[c]
      BY <1>1, <2>4, <3>1, <3>3 DEF TruncatedInv
    <3>4. QED
      BY <3>2, <3>3
  <2>10. QED
    BY <2>8, <2>9
<1>3. CASE fd[c] \notin Paths
  <2>1. file' = file
    BY <1>3 DEF Send, fileVars
  <2>2. QED
    BY <1>1, <2>1, OldKept
<1>4. QED
  BY <1>2, <1>3

LEMMA OldMoves ==
  ASSUME FilesTypesInv, OldInv, \A d \in Calls : OpenInv(d) /\ TruncatedInv(d), UNCHANGED <<saw, op>>,
         \/ file' = [file EXCEPT !["here"] = Absent] /\ fd' = Redirected("here", "unlinked")
         \/ /\ ~Regular(file["there"]) /\ fd' = Redirected("here", "there")
            /\ file' = [file EXCEPT !["here"] = Absent, !["there"] = file["here"]]
         \/ /\ file["there"] = Absent /\ fd' = fd
            /\ file' = [file EXCEPT !["there"] = Directory]
  PROVE  OldInv' /\ \A d \in Calls : TruncatedInv(d)'
<1> USE DEF FilesTypesInv
<1>1. CASE file' = [file EXCEPT !["here"] = Absent] /\ fd' = Redirected("here", "unlinked")
  <2>1. /\ file'["there"] = file["there"] /\ ~Regular(file'["here"])
        /\ \A d \in Calls : fd'[d] = IF fd[d] = "here" THEN "unlinked" ELSE fd[d]
    BY <1>1, ContentTypes DEF Redirected, Paths
  <2>2. OldInv'
    BY <2>1 DEF OldInv, Paths
  <2>3. ASSUME NEW d \in Calls PROVE TruncatedInv(d)'
    <3>1. TruncatedInv(d) /\ (fd'[d] \in Paths => fd[d] = "there" /\ fd'[d] = "there")
      BY <2>1 DEF Paths
    <3>2. QED
      BY <2>1, <3>1 DEF TruncatedInv, Paths
  <2>4. QED
    BY <2>2, <2>3
<1>2. CASE /\ ~Regular(file["there"]) /\ fd' = Redirected("here", "there")
           /\ file' = [file EXCEPT !["here"] = Absent, !["there"] = file["here"]]
  <2>1. \A d \in Calls : fd[d] # "there"
    BY <1>2 DEF OpenInv, Paths
  <2>2. /\ file'["there"] = file["here"] /\ ~Regular(file'["here"])
        /\ \A d \in Calls : fd'[d] = IF fd[d] = "here" THEN "there" ELSE fd[d]
    BY <1>2, ContentTypes DEF Redirected, Paths
  <2>3. OldInv'
    BY <2>2 DEF OldInv, Paths
  <2>4. ASSUME NEW d \in Calls PROVE TruncatedInv(d)'
    <3>1. TruncatedInv(d) /\ (fd'[d] \in Paths => fd[d] = "here" /\ fd'[d] = "there")
      BY <2>1, <2>2 DEF Paths
    <3>2. QED
      BY <2>2, <3>1 DEF TruncatedInv, Paths
  <2>5. QED
    BY <2>3, <2>4
<1>3. CASE /\ file["there"] = Absent /\ fd' = fd
           /\ file' = [file EXCEPT !["there"] = Directory]
  <2>1. \A d \in Calls : fd[d] # "there"
    BY <1>3, ContentTypes DEF OpenInv, Paths
  <2>2. file'["here"] = file["here"] /\ ~Regular(file'["there"])
    BY <1>3, ContentTypes DEF Paths
  <2>3. OldInv'
    BY <2>2 DEF OldInv, Paths
  <2>4. ASSUME NEW d \in Calls PROVE TruncatedInv(d)'
    <3>1. TruncatedInv(d) /\ (fd[d] \in Paths => fd[d] = "here")
      BY <2>1 DEF Paths
    <3>2. QED
      BY <1>3, <2>2, <3>1 DEF TruncatedInv, Paths
  <2>5. QED
    BY <2>3, <2>4
<1>4. QED
  BY <1>1, <1>2, <1>3

LEMMA OldStep ==
  ASSUME FilesTypesInv, OldInv, \A d \in Calls : StepFileCall(d) /\ OpenInv(d) /\ TruncatedInv(d), FilesNext
  PROVE  OldInv' /\ \A d \in Calls : TruncatedInv(d)'
<1> DEFINE Goal == OldInv' /\ \A d \in Calls : TruncatedInv(d)'
<1>a. ASSUME UNCHANGED <<file, saw, op, fd>> PROVE Goal
  BY <1>a, OldKept
<1>b. ASSUME NEW c \in Calls, UNCHANGED <<file, saw, op>>, fd' = [fd EXCEPT ![c] = "none"] PROVE Goal
  <2>1. \A d \in Calls : fd'[d] \in Paths => fd'[d] = fd[d] /\ op'[d] = op[d]
    BY <1>b DEF FilesTypesInv, Paths
  <2>2. QED
    BY <1>b, <2>1, OldKept
<1> HIDE DEF Goal
<1>1. ASSUME NEW c \in Calls, NEW o \in FileOps, NEW e \in ExpectationsOf[c], NEW n \in Slices,
             BeginFile(c, o, e, n)
      PROVE  Goal
  <2>1. /\ step[c] = "begin" /\ UNCHANGED <<file, fd>> /\ op' = [op EXCEPT ![c] = o]
        /\ saw' = [saw EXCEPT ![c] = [content |-> file["here"], mtime |-> mtime]]
    BY <1>1 DEF BeginFile
  <2>2. fd[c] = "none"
    BY <2>1 DEF StepFileCall
  <2>3. ASSUME NEW d \in Calls PROVE TruncatedInv(d)'
    <3>1. TruncatedInv(d) /\ (fd[d] \in Paths => op'[d] = op[d])
      BY <2>1, <2>2 DEF FilesTypesInv, Paths
    <3>2. QED
      BY <2>1, <3>1 DEF TruncatedInv
  <2>4. ASSUME NEW d \in Calls, Regular(saw'[d].content) PROVE OldFirst(saw'[d].content)
    <3>1. saw'[d].content = file["here"] \/ saw'[d].content = saw[d].content
      <4>1. CASE d = c
        BY <2>1, <4>1 DEF FilesTypesInv
      <4>2. CASE d # c
        BY <2>1, <4>2 DEF FilesTypesInv
      <4>3. QED
        BY <4>1, <4>2
    <3>2. QED
      BY <2>4, <3>1 DEF OldInv, Paths
  <2>5. OldInv'
    BY <2>1, <2>4 DEF OldInv
  <2>6. QED
    BY <2>3, <2>5 DEF Goal
<1>2. ASSUME NEW c \in Calls, NEW accepted \in BOOLEAN, Resolve(c, accepted) PROVE Goal
  BY <1>2, <1>a DEF Resolve, fileVars, argsOf
<1>3. ASSUME NEW c \in Calls, Probe(c) \/ Hash(c) PROVE Goal
  BY <1>3, <1>a DEF Probe, Hash, argsOf
<1>4. ASSUME NEW c \in Calls, Open(c) PROVE Goal
  BY <1>4, OldOpen DEF Goal
<1>5. ASSUME NEW c \in Calls, Send(c) PROVE Goal
  BY <1>5, OldSend DEF Goal
<1>6. ASSUME NEW c \in Calls, FinishWrite(c) PROVE Goal
  BY <1>6, <1>b DEF FinishWrite, fileVars, argsOf
<1>7. ASSUME NEW c \in Calls, ReplyWrite(c) \/ GiveUpWrite(c) PROVE Goal
  BY <1>7, <1>a DEF ReplyWrite, GiveUpWrite, fileVars, argsOf
<1>8. ASSUME NEW c \in Calls, CutOff(c) PROVE Goal
  BY <1>8, <1>b DEF CutOff, fileVars, argsOf
<1>9. ASSUME NEW c \in Calls, StatSize(c) \/ ReadSlice(c) \/ Get(c) PROVE Goal
  BY <1>9, <1>a DEF StatSize, ReadSlice, Get, fileVars, argsOf
<1>10. ASSUME NEW c \in Calls, NEW recursive \in BOOLEAN, Delete(c, recursive) PROVE Goal
  <2>1. UNCHANGED <<saw, op>>
    BY <1>10 DEF Delete, argsOf
  <2>2. \/ UNCHANGED <<file, fd>>
        \/ file' = [file EXCEPT !["here"] = Absent] /\ fd' = Redirected("here", "unlinked")
    BY <1>10 DEF Delete, Change, fileVars
  <2>3. QED
    BY <1>a, <2>1, <2>2, OldMoves DEF Goal
<1>11. ASSUME NEW c \in Calls, Rename(c) PROVE Goal
  <2>1. UNCHANGED <<saw, op>>
    BY <1>11 DEF Rename, argsOf
  <2>2. \/ UNCHANGED <<file, fd>>
        \/ /\ ~Regular(file["there"]) /\ fd' = Redirected("here", "there")
           /\ file' = [file EXCEPT !["here"] = Absent, !["there"] = file["here"]]
        \/ /\ file' = [file EXCEPT !["here"] = Absent, !["there"] = @]
           /\ fd' = Redirected("here", "unlinked")
    BY <1>11 DEF Rename, Change, fileVars
  <2>3. [file EXCEPT !["here"] = Absent, !["there"] = @] = [file EXCEPT !["here"] = Absent]
    BY DEF FilesTypesInv, Paths
  <2>4. QED
    BY <1>a, <2>1, <2>2, <2>3, OldMoves DEF Goal
<1>12. ASSUME NEW c \in Calls, NEW parents \in BOOLEAN, Mkdir(c, parents) PROVE Goal
  <2>1. UNCHANGED <<fd, saw, op>>
    BY <1>12 DEF Mkdir, argsOf
  <2>2. \/ UNCHANGED file
        \/ file["there"] = Absent /\ file' = [file EXCEPT !["there"] = Directory]
    BY <1>12 DEF Mkdir, Change, fileVars
  <2>3. QED
    BY <1>a, <2>1, <2>2, OldMoves DEF Goal
<1>13. ASSUME NEW c \in Calls, CommandFails(c) PROVE Goal
  BY <1>13, <1>a DEF CommandFails, fileVars, argsOf
<1>14. ASSUME SecondPasses PROVE Goal
  BY <1>14, <1>a DEF SecondPasses, argsOf
<1>15. Goal
  BY <1>1, <1>2, <1>3, <1>4, <1>5, <1>6, <1>7, <1>8, <1>9, <1>10, <1>11, <1>12, <1>13, <1>14
  DEF FilesNext, FileStep
<1>16. QED
  BY <1>15 DEF Goal

-----------------------------------------------------------------------------
(* Reading. *)

Assembled(c) ==
  op[c] = "read" /\ result[c] = "ok" /\ others[c] = {} =>
    Len(got[c]) = Length(saw[c].content) /\ Agrees(c)

LEMMA AssembledAll == SlicesAssemble <=> \A c \in Calls : Assembled(c)
  BY DEF SlicesAssemble, Assembled, Agrees, AgreesWith, SameAs, MayBreak

\* One more slice of s, up to its byte `last`.  Characters stay whole if slices are
\* as long as one, and every slice had all its n bytes, or as many as there are.
SliceWhole(g, s, n, last) ==
  /\ Size <= n /\ (Len(g) = 0 \/ n <= Len(g))
  /\ last = IF Len(g) + n < Len(s) THEN Len(g) + n ELSE Len(s)

Joined(g, s, last) == g \o Decoded(SubSeq(s, Len(g) + 1, last))

LEMMA SliceAgrees ==
  \A s \in Seq(Bytes), g \in Seq(Bytes \cup {Replaced}), n \in Nat \ {0}, last \in Nat :
    OldFirst(s) /\ AgreesWith(g, s) /\ Len(g) <= last /\ last <= Len(s) =>
      /\ Len(Joined(g, s, last)) = last /\ AgreesWith(Joined(g, s, last), s)
      /\ SameAs(g, s) /\ SliceWhole(g, s, n, last) => SameAs(Joined(g, s, last), s)
<1> SUFFICES ASSUME NEW s \in Seq(Bytes), NEW g \in Seq(Bytes \cup {Replaced}),
                    NEW n \in Nat \ {0}, NEW last \in Nat,
                    OldFirst(s), AgreesWith(g, s), Len(g) <= last, last <= Len(s)
             PROVE  LET h == Joined(g, s, last) IN
                    /\ Len(h) = last /\ AgreesWith(h, s)
                    /\ SameAs(g, s) /\ SliceWhole(g, s, n, last) => SameAs(h, s)
  OBVIOUS
<1> DEFINE m    == Len(g)
           d    == SubSeq(s, m + 1, last)
           e    == Decoded(d)
           h    == g \o e
<1>1. m \in Nat /\ Len(s) \in Nat /\ last \in Nat /\ m <= last
  OBVIOUS
<1>2. d \in Seq(Bytes) /\ Len(d) = last - m /\ \A k \in 1..Len(d) : d[k] = s[m + k]
  <2>1. last - m \in Nat /\ d = [k \in 1..(last - m) |-> s[m + k]]
    <3>1. d = [k \in 1..(last - (m + 1) + 1) |-> s[m + 1 + k - 1]]
      BY <1>1
    <3>2. last - (m + 1) + 1 = last - m /\ last - m \in Nat
      BY <1>1
    <3>3. \A k \in 1..(last - m) : m + 1 + k - 1 = m + k
      BY <1>1
    <3> HIDE DEF d, m
    <3>4. QED
      BY <3>1, <3>2, <3>3
  <2>2. \A k \in 1..(last - m) : s[m + k] \in Bytes
    BY <1>1
  <2> HIDE DEF d, m
  <2>3. QED
    BY <1>1, <2>1, <2>2
<1>3. /\ e \in Seq(Bytes \cup {Replaced}) /\ Len(e) = Len(d)
      /\ \A k \in 1..Len(d) : e[k] # d[k] =>
           /\ e[k] = Replaced /\ d[k][1] = Old
           /\ \E i \in 1..Size : k - d[k][2] + i \notin 1..Len(d) \/ d[k - d[k][2] + i] # <<Old, i>>
  <2> HIDE DEF d
  <2>1. QED
    BY <1>2, DecodedTypes
<1>4. h \in Seq(Bytes \cup {Replaced}) /\ Len(h) = last
  <2>1. Len(h) = m + Len(e) /\ h \in Seq(Bytes \cup {Replaced})
    <3> HIDE DEF e, d
    <3>1. e \in Seq(Bytes \cup {Replaced})
      BY <1>3
    <3>2. h \in Seq(Bytes \cup {Replaced})
      BY <3>1
    <3>3. Len(h) = Len(g) + Len(e)
      BY <3>1
    <3>4. QED
      BY <3>2, <3>3
  <2> HIDE DEF h, e, d, m
  <2>2. QED
    BY <1>1, <1>2, <1>3, <2>1
<1>5. /\ \A k \in 1..m : h[k] = g[k]
      /\ \A k \in 1..Len(d) : h[m + k] = e[k]
  <2> HIDE DEF d, e
  <2>1. QED
    BY <1>1, <1>3
<1>6. ASSUME NEW k \in 1..last, h[k] # s[k]
      PROVE  /\ h[k] = Replaced /\ s[k][1] = Old
             /\ ~(SameAs(g, s) /\ SliceWhole(g, s, n, last))
  <2>1. CASE k <= m
    <3>1. k \in 1..m /\ k \in DOMAIN g
      BY <1>1, <2>1
    <3>2. h[k] = g[k]
      BY <1>5, <3>1
    <3>3. QED
      BY <1>6, <3>1, <3>2 DEF AgreesWith, SameAs
  <2>2. CASE m < k
    <3> DEFINE j == k - m
    <3>1. j \in 1..Len(d) /\ k = m + j
      <4> HIDE DEF d, m
      <4>1. QED
        BY <1>1, <1>2, <2>2
    <3>2. h[k] = e[j] /\ d[j] = s[k]
      BY <1>2, <1>5, <3>1
    <3> HIDE DEF h, e, d, j
    <3>3. e[j] = Replaced /\ s[k][1] = Old
      BY <1>3, <1>6, <3>1, <3>2
    <3>4. PICK i \in 1..Size : j - d[j][2] + i \notin 1..Len(d) \/ d[j - d[j][2] + i] # <<Old, i>>
      BY <1>3, <1>6, <3>1, <3>2
    <3>5. k \in DOMAIN s
      BY <1>1
    <3>6. s[k] = <<Old, k>> /\ i \in DOMAIN s /\ s[i] = <<Old, i>>
      BY <3>3, <3>5 DEF OldFirst
    <3>7. k \in 1..Size
      <4>0. s[k] \in Bytes
        BY <3>5
      <4>1. <<Old, k>> \in Bytes
        BY <3>6, <4>0
      <4>2. <<Old, k>> # Hole
        BY DEF Old, Hole
      <4>3. QED
        BY <4>1, <4>2 DEF Bytes
    <3>8. j - d[j][2] + i = i - m
      <4>1. d[j][2] = k
        BY <3>2, <3>6
      <4> HIDE DEF m
      <4>2. QED
        BY <1>1, <3>1, <4>1
    <3>9. i - m \notin 1..Len(d)
      <4> SUFFICES ASSUME i - m \in 1..Len(d) PROVE FALSE
        OBVIOUS
      <4>1. m + (i - m) = i
        BY <1>1
      <4>2. d[i - m] = <<Old, i>>
        BY <1>2, <3>6, <4>1
      <4>3. QED
        BY <3>4, <3>8, <4>2
    <3>10. ~SliceWhole(g, s, n, last)
      <4> SUFFICES ASSUME SliceWhole(g, s, n, last) PROVE FALSE
        OBVIOUS
      <4>0. /\ Size <= n /\ (m = 0 \/ n <= m)
            /\ last = IF m + n < Len(s) THEN m + n ELSE Len(s)
        BY DEF m, SliceWhole
      <4>1. m < Size /\ Size \in Nat
        BY <1>1, <2>2, <3>7, FilesAssumption
      <4>2. m = 0
        BY <1>1, <4>0, <4>1
      <4>3. i > Len(d)
        BY <1>1, <1>2, <3>9, <4>2
      <4>4. i <= last
        BY <1>1, <3>6, <4>0, <4>1, <4>2
      <4>5. QED
        BY <1>1, <1>2, <4>2, <4>3, <4>4
    <3>11. QED
      BY <3>2, <3>3, <3>10
  <2>3. k <= m \/ m < k
    <3> HIDE DEF m
    <3>1. QED
      BY <1>1
  <2>4. QED
    BY <2>1, <2>2, <2>3
<1>7. AgreesWith(h, s) /\ (SameAs(g, s) /\ SliceWhole(g, s, n, last) => SameAs(h, s))
  <2>1. DOMAIN h = 1..last
    <3> HIDE DEF h
    <3>1. QED
      BY <1>4
  <2>2. QED
    BY <1>6, <2>1 DEF AgreesWith, SameAs
<1>8. Joined(g, s, last) = h
  BY DEF Joined
<1> HIDE DEF h, m
<1>9. QED
  BY <1>4, <1>7, <1>8

LEMMA BystanderAssembled ==
  ASSUME FilesTypesInv, NEW c \in Calls, FileStep(c), NEW d \in Calls \ {c}, StepFileCall(d), Assembled(d)
  PROVE  Assembled(d)'
<1>1. Kept(d)
  BY Bystander
<1>2. CASE Quiet(d)
  BY <1>1, <1>2 DEF Kept, Quiet, Assembled, Agrees, MayBreak
<1>3. ASSUME NEW f, Change(c, f) PROVE Assembled(d)'
  <2>1. CASE Active(d)
    BY <1>1, <2>1 DEF Kept, Active, StepFileCall, Assembled
  <2>2. CASE ~Active(d)
    <3>1. others'[d] = others[d]
      BY <1>3, <2>2 DEF Change
    <3>2. QED
      BY <1>1, <3>1 DEF Kept, Assembled, Agrees, MayBreak
  <2>3. QED
    BY <2>1, <2>2
<1>4. QED
  BY <1>2, <1>3, Bystander

\* What a slice of typed bytes leaves.
LEMMA GotTypes ==
  ASSUME FilesTypesInv, NEW c \in Calls, ReadSlice(c)
  PROVE  got'[c] \in Seq(Bytes \cup {Replaced})
<1>1. PICK m \in 0..Len(Data(c)) : got' = [got EXCEPT ![c] = @ \o Decoded(SubSeq(Data(c), 1, m))]
  BY DEF ReadSlice
<1>2. Data(c) \in Seq(Bytes)
  BY DataTypes
<1>3. SubSeq(Data(c), 1, m) \in Seq(Bytes)
  BY <1>2, PrefixTypes
<1>4. Decoded(SubSeq(Data(c), 1, m)) \in Seq(Bytes \cup {Replaced})
  BY <1>3, DecodedTypes
<1>5. got[c] \in Seq(Bytes \cup {Replaced})
  BY DEF FilesTypesInv
<1>6. got[c] \o Decoded(SubSeq(Data(c), 1, m)) \in Seq(Bytes \cup {Replaced})
  BY <1>4, <1>5
<1>7. QED
  BY <1>1, <1>6 DEF FilesTypesInv

LEMMA OwnReadSlice ==
  ASSUME FilesTypesInv, OldInv, NEW c \in Calls, StepFileCall(c), KnownInv(c), ReadInv(c), ReadSlice(c)
  PROVE  ReadInv(c)' /\ Assembled(c)'
<1> USE DEF FilesTypesInv, fileVars, argsOf
<1>1. /\ step[c] = "dd" /\ result[c] # "ok"
      /\ UNCHANGED <<file, op, slice, others, saw>>
  BY DEF ReadSlice, StepFileCall
<1>2. CASE op[c] = "read" /\ others[c] = {}
  <2> DEFINE s == saw[c].content
             r == Readable
             g == got[c]
             n == slice[c]
             full == IF Len(g) + n < Len(r) THEN Len(g) + n ELSE Len(r)
  <2>1. PICK m \in 0..Len(Data(c)) :
          /\ got' = [got EXCEPT ![c] = @ \o Decoded(SubSeq(Data(c), 1, m))]
          /\ probed' = [probed EXCEPT ![c].misled =
                @ \/ m < Len(Data(c)) \/ ~Regular(file["here"])]
    BY DEF ReadSlice
  <2> DEFINE last == Len(g) + m
  <2>2. file["here"] = s
    BY <1>1, <1>2 DEF KnownInv
  <2>3. /\ g # <<>> => Regular(s)
        /\ Regular(s) => probed[c].size = Len(s)
        /\ Len(g) = 0 \/ n <= Len(g) \/ probed[c].misled
        /\ Len(g) <= Length(s) /\ Agrees(c)
    BY <1>1, <1>2 DEF ReadInv
  <2>4. /\ r \in Seq(Bytes) /\ Len(r) = Length(s) /\ (Regular(s) => r = s) /\ (~Regular(s) => r = <<>>)
        /\ OldFirst(r)
    <3>1. r \in Seq(Bytes) /\ (Regular(s) => r = s) /\ (~Regular(s) => r = <<>>)
      BY <2>2, DataTypes DEF Readable
    <3>2. Len(r) = Length(s)
      BY <3>1 DEF Length
    <3>3. Regular(s) => OldFirst(s)
      BY <2>2 DEF OldInv, Paths
    <3>4. OldFirst(<<>>)
      BY DEF OldFirst
    <3> HIDE DEF r, s
    <3>5. QED
      BY <3>1, <3>2, <3>3, <3>4
  <2>5. g \in Seq(Bytes \cup {Replaced}) /\ Len(g) \in Nat /\ n \in Nat \ {0} /\ Len(r) \in Nat
    BY <2>4
  <2>6. /\ Len(Data(c)) = full - Len(g) /\ Data(c) \in Seq(Bytes) /\ full \in Nat /\ Len(g) <= full
        /\ \A k \in 1..Len(Data(c)) : Data(c)[k] = r[Len(g) + k]
    <3>1. /\ Data(c) \in Seq(Bytes)
          /\ Len(Data(c)) = IF Len(g) < full THEN full - Len(g) ELSE 0
          /\ \A k \in 1..Len(Data(c)) : Data(c)[k] = r[Len(g) + k]
      BY DataTypes
    <3>2. full \in Nat /\ Len(g) <= full
      <4> HIDE DEF g, n, r, s
      <4>1. QED
        BY <2>3, <2>4, <2>5
    <3> HIDE DEF full, g, r
    <3>3. QED
      BY <2>5, <3>1, <3>2
  <2>7. m \in Nat /\ last \in Nat /\ Len(g) <= last /\ last <= full /\ full <= Len(r)
        /\ (m < Len(Data(c)) <=> last < full)
    <3>1. full <= Len(r)
      <4> HIDE DEF g, n, r
      <4>1. QED
        BY <2>5
    <3> HIDE DEF full, g, r
    <3>2. QED
      BY <2>5, <2>6, <3>1
  <2>8. SubSeq(Data(c), 1, m) = SubSeq(r, Len(g) + 1, last)
    <3> HIDE DEF g, r, full
    <3>1. SubSeq(Data(c), 1, m) = [k \in 1..m |-> Data(c)[k]]
      BY <2>6, <2>7
    <3>2. \A k \in 1..m : Data(c)[k] = r[Len(g) + k]
      BY <2>6, <2>7
    <3>3. SubSeq(r, Len(g) + 1, last) = [k \in 1..(last - (Len(g) + 1) + 1) |-> r[Len(g) + 1 + k - 1]]
      BY <2>4, <2>5, <2>7
    <3>4. last - (Len(g) + 1) + 1 = m
      BY <2>5, <2>7
    <3>5. \A k \in 1..m : Len(g) + 1 + k - 1 = Len(g) + k
      BY <2>5, <2>7
    <3>6. SubSeq(r, Len(g) + 1, last) = [k \in 1..m |-> r[Len(g) + k]]
      <4> HIDE DEF last
      <4>1. QED
        BY <3>3, <3>4, <3>5
    <3>7. [k \in 1..m |-> Data(c)[k]] = [k \in 1..m |-> r[Len(g) + k]]
      BY <3>2
    <3> HIDE DEF last
    <3>8. QED
      BY <3>1, <3>6, <3>7, Zenon
  <2>9. /\ probed'[c].size = probed[c].size
        /\ probed[c].misled \/ last < full \/ ~Regular(s) => probed'[c].misled
    <3> DEFINE b == probed[c].misled \/ m < Len(Data(c)) \/ ~Regular(file["here"])
    <3>1. probed' = [probed EXCEPT ![c].misled = b]
      BY <2>1
    <3> HIDE DEF b
    <3>2. probed'[c] = [probed[c] EXCEPT !.misled = b]
      BY <3>1
    <3>3. probed[c] \in ProbeRecords
      OBVIOUS
    <3>4. probed'[c].size = probed[c].size /\ probed'[c].misled = b
      BY <3>2, <3>3 DEF ProbeRecords
    <3> HIDE DEF last, full, s
    <3>5. QED
      BY <2>2, <2>7, <3>4 DEF b
  <2>10. got'[c] = g \o Decoded(SubSeq(r, Len(g) + 1, last))
    BY <2>1, <2>8
  <2>11. /\ Len(got'[c]) = last /\ AgreesWith(got'[c], r)
         /\ n < Size \/ probed'[c].misled \/ SameAs(got'[c], r)
    <3>1. AgreesWith(g, r) /\ (n < Size \/ probed[c].misled \/ SameAs(g, r))
      <4>1. AgreesWith(g, s) /\ (n < Size \/ probed[c].misled \/ SameAs(g, s))
        BY <2>3 DEF Agrees, MayBreak
      <4>2. DOMAIN g # {} => r = s
        BY <2>3, <2>4, <2>5
      <4> HIDE DEF g, r, s, n, last, full
      <4>3. QED
        BY <4>1, <4>2 DEF AgreesWith, SameAs
    <3>2. last <= Len(r)
      <4> HIDE DEF last, full, r
      <4>1. QED
        BY <2>5, <2>6, <2>7
    <3> DEFINE h == Joined(g, r, last)
    <3>3. /\ Len(h) = last /\ AgreesWith(h, r)
          /\ SameAs(g, r) /\ SliceWhole(g, r, n, last) => SameAs(h, r)
      <4>1. /\ r \in Seq(Bytes) /\ n \in Nat \ {0} /\ g \in Seq(Bytes \cup {Replaced}) /\ last \in Nat
            /\ OldFirst(r) /\ AgreesWith(g, r) /\ Len(g) <= last /\ last <= Len(r)
        BY <2>4, <2>5, <2>7, <3>1, <3>2, Zenon
      <4> HIDE DEF g, r, n, s, last, full
      <4>2. QED
        BY <4>1, SliceAgrees, Zenon
    <3>4. got'[c] = h
      BY <2>10 DEF Joined
    <3> HIDE DEF h
    <3>5. n < Size \/ probed'[c].misled \/ SliceWhole(g, r, n, last)
      <4> SUFFICES ASSUME ~(n < Size), ~probed'[c].misled PROVE SliceWhole(g, r, n, last)
        OBVIOUS
      <4>1. Size <= n
        <5> HIDE DEF n
        <5>1. QED
          BY <2>5, FilesAssumption
      <4>2. ~probed[c].misled /\ ~(last < full)
        <5> HIDE DEF last, full
        <5>1. QED
          BY <2>9, Zenon
      <4>3. last = full
        <5> HIDE DEF last, full
        <5>1. QED
          BY <2>6, <2>7, <4>2
      <4>4. Len(g) = 0 \/ n <= Len(g)
        <5> HIDE DEF g, n
        <5>1. QED
          BY <2>3, <4>2, Zenon
      <4> HIDE DEF last, g, n, r
      <4>5. QED
        BY <4>1, <4>3, <4>4, Zenon DEF SliceWhole, full
    <3>6. n < Size \/ probed'[c].misled \/ SameAs(g, r)
      <4> HIDE DEF g, n, r, last, full
      <4>1. QED
        BY <2>9, <3>1, Zenon
    <3> HIDE DEF g, n, r, last
    <3>7. QED
      BY <3>3, <3>4, <3>5, <3>6, Zenon
  <2>12. \/ step'[c] = "done" /\ last >= probed'[c].size
         \/ step'[c] = "size" /\ ~(last >= probed'[c].size) /\ result' = result
    <3>1. \/ Len(got'[c]) >= probed[c].size /\ End(c, "ok")
          \/ ~(Len(got'[c]) >= probed[c].size) /\ Proceed(c, "size")
      BY DEF ReadSlice
    <3> HIDE DEF last
    <3>2. QED
      BY <2>9, <2>11, <3>1 DEF Proceed, End
  <2>13. Agrees(c)' /\ last <= Length(s) /\ (Regular(s) => probed'[c].size = Length(s))
         /\ (~Regular(s) => last = 0 /\ Length(s) = 0)
    <3>1. last <= Length(s)
      <4> HIDE DEF last, full, r, s
      <4>1. QED
        BY <2>4, <2>5, <2>6, <2>7
    <3>2. ~Regular(s) => last = 0 /\ Length(s) = 0
      <4>1. ~Regular(s) => Length(s) = 0
        BY DEF Length
      <4> HIDE DEF last, s
      <4>2. QED
        BY <2>7, <3>1, <4>1
    <3>3. Regular(s) => probed'[c].size = Length(s)
      BY <2>3, <2>9 DEF Length
    <3>4. AgreesWith(got'[c], s) /\ (n < Size \/ probed'[c].misled \/ SameAs(got'[c], s))
      <4>1. CASE Regular(s)
        BY <2>4, <2>11, <4>1
      <4>2. CASE ~Regular(s)
        <5>1. got'[c] \in Seq(Bytes \cup {Replaced})
          BY GotTypes
        <5>2. DOMAIN got'[c] = {}
          <6> HIDE DEF last
          <6>1. QED
            BY <2>11, <3>2, <4>2, <5>1
        <5>3. QED
          BY <5>2 DEF AgreesWith, SameAs
      <4>3. QED
        BY <4>1, <4>2
    <3>5. Agrees(c)'
      BY <1>1, <3>4 DEF Agrees, MayBreak
    <3> HIDE DEF last, s
    <3>6. QED
      BY <3>1, <3>2, <3>3, <3>5
  <2>14. Assembled(c)'
    <3>1. Len(got'[c]) = Length(s) \/ result'[c] # "ok"
      <4>1. Length(s) \in Nat
        BY <2>4, <2>5
      <4> HIDE DEF last, s
      <4>2. QED
        BY <1>1, <2>7, <2>11, <2>12, <2>13, <4>1
    <3>2. saw'[c] = saw[c]
      BY <1>1
    <3> HIDE DEF last
    <3>3. QED
      BY <2>13, <3>1, <3>2 DEF Assembled
  <2>15. ReadInv(c)'
    <3>1. step'[c] = "size" => Len(got'[c]) = 0 \/ n <= Len(got'[c]) \/ probed'[c].misled
      <4> SUFFICES ASSUME step'[c] = "size", ~probed'[c].misled PROVE n <= Len(got'[c])
        OBVIOUS
      <4>1. Regular(s) /\ ~(last < full)
        <5> HIDE DEF last, full, s
        <5>1. QED
          BY <2>9, Zenon
      <4>2. last = full /\ last < Len(r)
        <5>1. last = full
          <6> HIDE DEF last, full
          <6>1. QED
            BY <2>6, <2>7, <4>1
        <5>2. ~(last >= probed'[c].size)
          <6> HIDE DEF last
          <6>1. QED
            BY <2>12
        <5>3. probed'[c].size = Len(r)
          <6> HIDE DEF last, r, s
          <6>1. QED
            BY <2>4, <2>13, <4>1, Zenon
        <5> HIDE DEF last, full, r
        <5>4. QED
          BY <2>5, <2>7, <5>1, <5>2, <5>3
      <4>3. full < Len(r) => n <= full
        <5> HIDE DEF g, n, r, last
        <5>1. QED
          BY <2>5
      <4>4. QED
        <5> HIDE DEF full, r, n, last
        <5>1. QED
          BY <2>11, <4>2, <4>3
    <3>2. got'[c] # <<>> => Regular(s)
      <4> SUFFICES ASSUME ~Regular(s) PROVE got'[c] = <<>>
        OBVIOUS
      <4>1. got'[c] \in Seq(Bytes \cup {Replaced})
        BY GotTypes
      <4>2. Len(got'[c]) = 0
        <5> HIDE DEF last, s
        <5>1. QED
          BY <2>11, <2>13
      <4>3. QED
        BY <4>1, <4>2
    <3>3. saw'[c] = saw[c] /\ slice'[c] = slice[c] /\ step'[c] # "dd"
      <4> HIDE DEF last
      <4>1. QED
        BY <1>1, <2>12
    <3>4. Len(got'[c]) <= Length(s)
      <4> HIDE DEF last
      <4>1. QED
        BY <2>11, <2>13
    <3> HIDE DEF last
    <3>5. QED
      BY <2>12, <2>13, <3>1, <3>2, <3>3, <3>4 DEF ReadInv
  <2>16. QED
    BY <2>14, <2>15
<1>3. CASE op[c] # "read" \/ others[c] # {}
  BY <1>1, <1>3 DEF ReadInv, Assembled
<1>4. QED
  BY <1>2, <1>3

LEMMA OwnReads ==
  ASSUME FilesTypesInv, OldInv, NEW c \in Calls, FileStep(c), StepFileCall(c), KnownInv(c), ReadInv(c)
  PROVE  ReadInv(c)' /\ Assembled(c)'
<1> USE DEF FilesTypesInv, fileVars, argsOf
<1>0. step[c] # "done" => result[c] # "ok"
  BY DEF StepFileCall
<1>a. ASSUME step'[c] \notin {"size", "dd"}, result'[c] # "ok" \/ op'[c] # "read"
      PROVE  ReadInv(c)' /\ Assembled(c)'
  BY <1>a DEF ReadInv, Assembled
<1>b. ASSUME NEW r, End(c, r), r # "ok" \/ op'[c] # "read" PROVE ReadInv(c)' /\ Assembled(c)'
  BY <1>a, <1>b DEF End
<1>c. ASSUME NEW s, s \notin {"size", "dd"}, Proceed(c, s), step[c] # "done"
      PROVE  ReadInv(c)' /\ Assembled(c)'
  BY <1>0, <1>a, <1>c DEF Proceed
<1>1. ASSUME NEW o \in FileOps, NEW e \in ExpectationsOf[c], NEW n \in Slices, BeginFile(c, o, e, n)
      PROVE  ReadInv(c)' /\ Assembled(c)'
  BY <1>1, <1>c DEF BeginFile
<1>2. ASSUME NEW accepted \in BOOLEAN, Resolve(c, accepted) PROVE ReadInv(c)' /\ Assembled(c)'
  <2>1. CASE ~accepted
    BY <1>2, <1>b, <2>1 DEF Resolve
  <2>2. CASE accepted
    <3>1. step[c] = "resolve" /\ got' = got /\ result' = result /\ step'[c] # "dd"
      BY <1>2, <2>2 DEF Resolve, Proceed
    <3>2. got[c] = <<>> /\ result[c] # "ok"
      BY <3>1 DEF StepFileCall
    <3>3. saw' = saw /\ Length(saw[c].content) \in Nat
      BY <1>2, ContentTypes DEF Resolve
    <3>4. QED
      BY <3>1, <3>2, <3>3, ContentTypes DEF ReadInv, Assembled, Agrees, AgreesWith, SameAs
  <2>3. QED
    BY <2>1, <2>2
<1>3. CASE Probe(c)
  <2>1. step[c] = "probe" /\ (End(c, "refused") \/ \E s \in {"hash", "open"} : Proceed(c, s))
    BY <1>3 DEF Probe
  <2>2. QED
    BY <1>b, <1>c, <2>1
<1>4. CASE Hash(c)
  <2>1. step[c] = "hash" /\ (End(c, "refused") \/ Proceed(c, "open"))
    BY <1>4 DEF Hash
  <2>2. QED
    BY <1>b, <1>c, <2>1
<1>5. CASE Open(c)
  <2>1. step[c] = "open" /\ (End(c, "error") \/ Proceed(c, "send"))
    BY <1>5 DEF Open
  <2>2. QED
    BY <1>b, <1>c, <2>1
<1>6. CASE Send(c)
  BY <1>0, <1>6, <1>a DEF Send
<1>7. CASE FinishWrite(c)
  <2>1. step[c] = "send" /\ (\E s \in {"reply", "done"} : Proceed(c, s))
    BY <1>7 DEF FinishWrite
  <2>2. QED
    BY <1>c, <2>1
<1>8. CASE ReplyWrite(c)
  <2>1. End(c, "ok") /\ op'[c] # "read"
    BY <1>8 DEF ReplyWrite, StepFileCall, Writes
  <2>2. QED
    BY <1>b, <2>1
<1>9. CASE GiveUpWrite(c)
  BY <1>9, <1>a DEF GiveUpWrite
<1>10. CASE CutOff(c)
  BY <1>10, <1>a DEF CutOff
<1>11. CASE StatSize(c)
  <2>1. step[c] = "size" /\ UNCHANGED <<file, op, slice, others, got, saw>>
    BY <1>11 DEF StatSize
  <2>2. \/ \E r \in {"error", "refused"} : End(c, r)
        \/ Proceed(c, "get")
        \/ op[c] = "read" /\ Proceed(c, "dd")
    BY <1>11, Zenon DEF StatSize
  <2>3. CASE \E r \in {"error", "refused"} : End(c, r)
    BY <1>b, <2>3
  <2>4. CASE Proceed(c, "get")
    BY <1>c, <2>1, <2>4
  <2>5. CASE op[c] = "read" /\ Proceed(c, "dd")
    <3>1. step'[c] = "dd" /\ result' = result
      BY <2>5 DEF Proceed
    <3>2. Assembled(c)'
      BY <1>0, <2>1, <3>1 DEF Assembled
    <3>3. PICK size \in StatSizes : probed' = [probed EXCEPT ![c].size = size]
      BY <1>11 DEF StatSize
    <3>4. probed'[c].size = size /\ probed'[c].misled = probed[c].misled
      BY <3>3 DEF ProbeRecords
    <3>5. ReadInv(c)'
      <4> SUFFICES ASSUME others[c] = {} PROVE ReadInv(c)'
        BY <2>1 DEF ReadInv
      <4>1. file["here"] = saw[c].content
        BY <2>1 DEF KnownInv
      <4>2. Regular(saw[c].content) => probed'[c].size = Len(saw[c].content)
        BY <3>4, <4>1, StatTypes DEF Length, Regular
      <4>3. /\ Agrees(c)' /\ (got[c] # <<>> => Regular(saw[c].content))
            /\ Len(got[c]) = 0 \/ slice[c] <= Len(got[c]) \/ probed'[c].misled
            /\ Len(got[c]) <= Length(saw[c].content)
        BY <2>1, <2>5, <3>4 DEF ReadInv, Agrees, MayBreak
      <4>4. QED
        BY <2>1, <4>2, <4>3 DEF ReadInv
    <3>6. QED
      BY <3>2, <3>5
  <2>6. QED
    BY <2>2, <2>3, <2>4, <2>5
<1>12. CASE ReadSlice(c)
  BY <1>12, OwnReadSlice
<1>13. CASE Get(c)
  <2>1. op'[c] # "read" /\ \E r \in {"ok", "error"} : End(c, r)
    BY <1>13 DEF Get, StepFileCall
  <2>2. QED
    BY <1>b, <2>1
<1>14. ASSUME NEW recursive \in BOOLEAN, Delete(c, recursive) PROVE ReadInv(c)' /\ Assembled(c)'
  <2>1. op'[c] # "read" /\ \E r \in {"ok", "error"} : End(c, r)
    BY <1>14 DEF Delete
  <2>2. QED
    BY <1>b, <2>1
<1>15. CASE Rename(c)
  <2>1. op'[c] # "read" /\ \E r \in {"ok", "error"} : End(c, r)
    BY <1>15 DEF Rename
  <2>2. QED
    BY <1>b, <2>1
<1>16. ASSUME NEW parents \in BOOLEAN, Mkdir(c, parents) PROVE ReadInv(c)' /\ Assembled(c)'
  <2>1. op'[c] # "read" /\ \E r \in {"ok", "error"} : End(c, r)
    BY <1>16 DEF Mkdir
  <2>2. QED
    BY <1>b, <2>1
<1>17. CASE CommandFails(c)
  BY <1>17, <1>b DEF CommandFails
<1>18. QED
  BY <1>1, <1>2, <1>3, <1>4, <1>5, <1>6, <1>7, <1>8, <1>9, <1>10, <1>11, <1>12, <1>13, <1>14,
     <1>15, <1>16, <1>17 DEF FileStep

-----------------------------------------------------------------------------
(* The inductive invariant, and what follows from it. *)

LEMMA InitFiles == FilesInit => FilesInv
<1> SUFFICES ASSUME FilesInit PROVE FilesInv
  OBVIOUS
<1>1. FilesTypesInv
  BY InitTypes
<1>2. Payload(Old) \in Seq(Bytes) /\ Len(Payload(Old)) = Size /\ Size \in Nat \ {0}
  BY PayloadTypes, FilesAssumption
<1>3. DOMAIN Payload(Old) = 1..Size /\ \A k \in 1..Size : Payload(Old)[k] = <<Old, k>>
  BY DEF Payload
<1>4. OldFirst(Payload(Old))
  BY <1>3 DEF OldFirst
<1>5. Whole(Payload(Old))
  <2> SUFFICES ASSUME NEW k \in 1..Size PROVE FollowsOn(Payload(Old), k) /\ GoesOn(Payload(Old), k)
    BY <1>2 DEF Whole
  <2>1. k # 1 => k - 1 \in 1..Size
    BY <1>2
  <2>2. k # Size => k + 1 \in 1..Size
    BY <1>2
  <2>3. Payload(Old)[k] = <<Old, k>> /\ Payload(Old)[k][1] = Old /\ Payload(Old)[k][2] = k
    BY <1>3
  <2>4. k # 1 => Payload(Old)[k - 1] = <<Old, k - 1>>
    BY <1>3, <2>1
  <2>5. k # Size => Payload(Old)[k + 1] = <<Old, k + 1>>
    BY <1>3, <2>2
  <2>6. QED
    BY <1>3, <2>1, <2>2, <2>3, <2>4, <2>5 DEF FollowsOn, GoesOn
<1>6. file["here"] = Payload(Old) /\ file["there"] = Absent /\ \A c \in Calls : saw[c].content = Absent
  BY DEF FilesInit, Paths
<1>7. OldInv
  BY <1>4, <1>6, ContentTypes DEF OldInv, Paths
<1>8. NothingTorn
  BY <1>5, <1>6, ContentTypes DEF NothingTorn, Paths
<1>9. SlicesAssemble
  BY DEF FilesInit, SlicesAssemble
<1>10. ASSUME NEW c \in Calls PROVE FileCallInv(c)
  <2>1. /\ step[c] = "begin" /\ fd[c] = "none" /\ sent[c] = 0 /\ got[c] = <<>> /\ result[c] = "none"
        /\ expect[c] = {}
    BY DEF FilesInit
  <2>2. StepFileCall(c)
    BY <2>1 DEF StepFileCall
  <2>3. OpenInv(c) /\ PartialInv(c) /\ TruncatedInv(c)
    BY <2>1 DEF OpenInv, PartialInv, TruncatedInv, Paths
  <2>4. KnownInv(c) /\ GrowthInv(c) /\ ReadInv(c)
    BY <2>1 DEF KnownInv, GrowthInv, ReadInv
  <2>5. QED
    BY <2>2, <2>3, <2>4 DEF FileCallInv
<1>11. QED
  BY <1>1, <1>7, <1>8, <1>9, <1>10 DEF FilesInv

LEMMA NextFiles == FilesInv /\ FilesNext => FilesInv'
<1> SUFFICES ASSUME FilesInv, FilesNext PROVE FilesInv'
  OBVIOUS
<1>1. FilesTypesInv /\ OldInv /\ NothingTorn /\ SlicesAssemble
  BY DEF FilesInv
<1>2. \A d \in Calls : /\ StepFileCall(d) /\ OpenInv(d) /\ KnownInv(d) /\ GrowthInv(d)
                       /\ PartialInv(d) /\ TruncatedInv(d) /\ ReadInv(d)
  BY DEF FilesInv, FileCallInv
<1>3. FilesTypesInv'
  BY <1>1, <1>2, TypesStep
<1>4. \A d \in Calls : StepFileCall(d)' /\ OpenInv(d)'
  BY <1>1, <1>2, StepsStep
<1>5. NothingTorn' /\ \A d \in Calls : PartialInv(d)'
  BY <1>1, <1>2, PartialStep
<1>6. OldInv' /\ \A d \in Calls : TruncatedInv(d)'
  BY <1>1, <1>2, OldStep
<1>7. \A d \in Calls : KnownInv(d)' /\ GrowthInv(d)' /\ ReadInv(d)' /\ Assembled(d)'
  <2>1. \A d \in Calls : Assembled(d)
    BY <1>1, AssembledAll
  <2>2. ASSUME SecondPasses, NEW d \in Calls
        PROVE  KnownInv(d)' /\ GrowthInv(d)' /\ ReadInv(d)' /\ Assembled(d)'
    <3>1. KnownInv(d)'
      BY <1>2, <2>2 DEF SecondPasses, argsOf, KnownInv, ProbeInv, SameSize
    <3>2. GrowthInv(d)'
      BY <1>2, <2>2 DEF SecondPasses, argsOf, GrowthInv, Grew
    <3>3. ReadInv(d)'
      BY <1>2, <2>2 DEF SecondPasses, argsOf, ReadInv, Agrees, MayBreak
    <3>4. Assembled(d)'
      BY <2>1, <2>2 DEF SecondPasses, argsOf, Assembled, Agrees, MayBreak
    <3>5. QED
      BY <3>1, <3>2, <3>3, <3>4
  <2>3. ASSUME NEW c \in Calls, FileStep(c), NEW d \in Calls
        PROVE  KnownInv(d)' /\ GrowthInv(d)' /\ ReadInv(d)' /\ Assembled(d)'
    <3>1. CASE d = c
      BY <1>1, <1>2, <2>3, <3>1, OwnKnows, OwnReads
    <3>2. CASE d # c
      BY <1>1, <1>2, <2>1, <2>3, <3>2, BystanderKnows, BystanderAssembled
    <3>3. QED
      BY <3>1, <3>2
  <2>4. QED
    BY <2>2, <2>3 DEF FilesNext
<1>8. SlicesAssemble'
  BY <1>7, AssembledAll DEF Assembled, Agrees, AgreesWith, SameAs, MayBreak, SlicesAssemble
<1>9. \A d \in Calls : FileCallInv(d)'
  BY <1>4, <1>5, <1>6, <1>7 DEF FileCallInv
<1>10. QED
  BY <1>3, <1>5, <1>6, <1>8, <1>9 DEF FilesInv

LEMMA StutterFiles == FilesInv /\ UNCHANGED filesVars => FilesInv'
<1> SUFFICES ASSUME FilesInv, UNCHANGED filesVars PROVE FilesInv'
  OBVIOUS
<1> USE DEF filesVars, fileVars, argsOf
<1>1. FilesTypesInv' /\ OldInv' /\ NothingTorn' /\ SlicesAssemble'
  BY DEF FilesInv, FilesTypesInv, OldInv, NothingTorn, SlicesAssemble
<1>2. ASSUME NEW c \in Calls PROVE FileCallInv(c)'
  <2>1. FileCallInv(c)
    BY DEF FilesInv
  <2>2. StepFileCall(c)' /\ OpenInv(c)' /\ KnownInv(c)' /\ GrowthInv(c)'
    BY <2>1 DEF FileCallInv, StepFileCall, OpenInv, KnownInv, ProbeInv, SameSize, GrowthInv, Grew
  <2>3. PartialInv(c)' /\ TruncatedInv(c)'
    BY <2>1 DEF FileCallInv, PartialInv, Base, TruncatedInv
  <2>4. ReadInv(c)'
    BY <2>1 DEF FileCallInv, ReadInv, Agrees, MayBreak
  <2>5. QED
    BY <2>2, <2>3, <2>4 DEF FileCallInv
<1>3. QED
  BY <1>1, <1>2 DEF FilesInv

LEMMA FilesInvariant == FilesSpec => []FilesInv
<1>1. FilesInv /\ [FilesNext]_filesVars => FilesInv'
  BY NextFiles, StutterFiles
<1>2. QED
  BY InitFiles, <1>1, PTL DEF FilesSpec

\* Every variable keeps its type (FileService, TransferService): in particular no
\* process has sent more than its payload, and what is read are bytes.
THEOREM FilesTypes == FilesSpec => []FilesTypeOK
<1>1. FilesInv => FilesTypeOK
  BY DEF FilesInv, FilesTypesInv, FilesTypeOK, Expectations
<1>2. QED
  BY FilesInvariant, <1>1, PTL

\* A write whose expectations were met opens the file its agent knows (write_file):
\* after a digest was compared it is the same content; after a size or an mtime was,
\* the same size, or the same content up to changes within one second. What is
\* excepted are changes made since that comparison.
THEOREM WritesKnowFile == FilesSpec => []AcceptedWriteKnowsFile
<1>1. FilesInv => AcceptedWriteKnowsFile
  <2> SUFFICES ASSUME FilesInv, NEW c \in Calls, step[c] = "open"
               PROVE  /\ "sha256" \in expect[c] /\ "hash" \notin others[c] => file["here"] = saw[c].content
                      /\ "probe" \notin others[c] =>
                           /\ "mtime" \in expect[c] => file["here"] = saw[c].content \/ blurred[c]
                           /\ "size" \in expect[c] =>
                                file["here"] = Directory \/ Length(file["here"]) = Length(saw[c].content)
    BY DEF AcceptedWriteKnowsFile
  <2>1. KnownInv(c)
    BY DEF FilesInv, FileCallInv
  <2>2. QED
    BY <2>1 DEF KnownInv, SameSize
<1>2. QED
  BY FilesInvariant, <1>1, PTL

\* A file that nobody is writing consists of whole payloads, unless one was cut off
\* when its client was lost or two were written at the same time.
THEOREM NoTornFiles == FilesSpec => []NothingTorn
<1>1. FilesInv => NothingTorn
  BY DEF FilesInv
<1>2. QED
  BY FilesInvariant, <1>1, PTL

\* The new_size a write reports, which it computes from the stat before it, is the
\* size of the file, if no other call has changed the file since; and an append
\* whose stat failed, which write_file takes for a new file, reports what it has
\* added to a file that may be longer.
THEOREM SizesReported == FilesSpec => []ReportedSizes
<1>1. FilesInv => ReportedSizes
  <2> SUFFICES ASSUME FilesInv, NEW c \in Calls, step[c] = "reply", op[c] # "upload",
                      "probe" \notin others[c]
               PROVE  IF op[c] = "append" /\ probed[c].misled
                      THEN Length(file["here"]) >= NewSize(c)
                      ELSE Length(file["here"]) = NewSize(c)
    BY DEF ReportedSizes
  <2>1. GrowthInv(c) /\ StepFileCall(c)
    BY DEF FilesInv, FileCallInv
  <2>2. sent[c] = Size
    BY <2>1 DEF StepFileCall
  <2>3. Grew(c, Length(file["here"]))
    BY <2>1 DEF GrowthInv
  <2>4. QED
    BY <2>2, <2>3 DEF Grew, NewSize
<1>2. QED
  BY FilesInvariant, <1>1, PTL

\* A caller that reads a file slice by slice (read_file, next_offset, end_of_file)
\* has in the end as many bytes as the file it saw, whichever slices a failing dd
\* has left short or empty, and they are the same but for pieces of a character that
\* the end of a slice has cut, if no other call changed the file.
THEOREM ReadersAssemble == FilesSpec => []SlicesAssemble
<1>1. FilesInv => SlicesAssemble
  BY DEF FilesInv
<1>2. QED
  BY FilesInvariant, <1>1, PTL

=============================================================================

-------------------------- MODULE StreamLifeProof --------------------------
(***************************************************************************)
(* Proofs about the lifecycle of streams, for every value of the services' *)
(* constants: who owns each FILE, descriptor and buffer, and what becomes  *)
(* of accepted bytes.                                                      *)
(***************************************************************************)
EXTENDS ServicesProof

-----------------------------------------------------------------------------
(* The life of streams.  Every step of a call that gave up the stdio lock, *)
(* or was made outside it, left one of these behind.                       *)
Flags == {"readable", "writable", "append", "owned", "unbuffered", "bufferOwned"}

ByteSet == [value: {"a", "e", "e1", "e2"}, encoding: {"byte", "C", "UTF-8"}]

FileSet ==
    [fd: Descriptors \cup {Streams!NoFd}, mode: SUBSET Flags,
     orientation: {"none", "byte", "C", "UTF-8"}, pending: Seq(ByteSet),
     buffer: Buffers \cup {"inline", "caller"}]

OpenSet ==
    [for: Streams!Streams \cup {NoOne}, written: Seq(ByteSet), accepted: Seq(ByteSet)]

ModeOK(m) ==
    /\ m \subseteq Flags /\ "owned" \in m /\ "bufferOwned" \notin m
    /\ m \cap {"readable", "writable"} # {}

Fetching(t) == fileTask[t].at \in {"open", "register"}

Holding(t) == fileTask[t].at \in {"fclose", "reopen"}

FileTask(t) ==
    /\ fileTask[t] = Streams!Idle \/ Fetching(t) \/ Holding(t)
    /\ Fetching(t) => /\ fileTask[t].cell \in Files /\ ~Streams!Live(fileTask[t].cell)
                      /\ ModeOK(fileTask[t].mode)
    /\ fileTask[t].at = "register" =>
         fileTask[t].fd \in Descriptors /\ fds[fileTask[t].fd] = Streams!Opened(fileTask[t].cell)
    /\ Holding(t) => /\ fileTask[t].stream \in Streams!Streams
                     /\ Streams!Usable(files[fileTask[t].stream])
    /\ fileTask[t].at = "reopen" => ModeOK(fileTask[t].mode)

(* A FILE with its flags, its pending output and its buffer.               *)
FileOK(s) ==
    /\ s # Std <=> "owned" \in files[s].mode
    /\ s # Std => Streams!Usable(files[s])
    /\ "writable" \notin files[s].mode \/ "unbuffered" \in files[s].mode =>
         files[s].pending = <<>>
    /\ IF "bufferOwned" \in files[s].mode THEN files[s].buffer \in allocated
       ELSE files[s].buffer \in {"inline", "caller"}
    /\ ~Streams!Usable(files[s]) => files[s].fd = Streams!NoFd /\ files[s].mode = {}

(* A FILE with the descriptor that is bound to it.                         *)
Bound(s) ==
    /\ files[s].fd \in Descriptors /\ fds[files[s].fd].for = s
    /\ fds[files[s].fd].accepted = fds[files[s].fd].written \o files[s].pending
    /\ \A b \in Range(fds[files[s].fd].accepted) : b.encoding = files[s].orientation

Owned(d) ==
    IF fds[d].for = NoOne THEN fds[d] = Streams!Closed
    ELSE \/ /\ Streams!Usable(files[fds[d].for]) /\ ~Streams!Changing(fds[d].for)
            /\ files[fds[d].for].fd = d
         \/ \E t \in Threads : fileTask[t].at = "register" /\ fileTask[t].fd = d

LifeTypes ==
    /\ files \in [Streams!Streams -> FileSet \cup {Streams!Gone}]
    /\ streams \in Seq(Streams!Streams)
    /\ fds \in [Descriptors -> OpenSet]
    /\ allocated \subseteq Buffers
    /\ io \in Threads \cup {NoOne}
    /\ DOMAIN fileTask = Threads
    /\ encoding \in {"C", "UTF-8"}
    /\ silent = FALSE

LifeInv ==
    /\ LifeTypes
    /\ Distinct(streams)
    /\ \A s \in Streams!Streams : s \in Range(streams) => Streams!Live(s)
    /\ \A s \in Streams!Streams : Streams!Usable(files[s]) => s \in Range(streams)
    /\ \A t \in Threads : FileTask(t) /\ (io = t <=> Holding(t))
    /\ \A t, u \in Threads :
         Fetching(t) /\ Fetching(u) /\ fileTask[t].cell = fileTask[u].cell => t = u
    /\ \A s \in Streams!Streams : Streams!Live(s) => FileOK(s)
    /\ \A s \in Streams!Streams :
         Streams!Usable(files[s]) /\ ~Streams!Changing(s) => Bound(s)
    /\ \A d \in Descriptors : Owned(d)
    /\ \A b \in allocated : \E s \in Streams!Streams :
         Streams!Live(s) /\ "bufferOwned" \in files[s].mode /\ files[s].buffer = b
    /\ \A s, u \in Streams!Streams :
         /\ Streams!Live(s) /\ "bufferOwned" \in files[s].mode
         /\ Streams!Live(u) /\ "bufferOwned" \in files[u].mode
         /\ files[s].buffer = files[u].buffer
         => s = u

LEMMA LifeConstants ==
    /\ Descriptors \subseteq Nat \ {0} /\ 1 \in Descriptors
    /\ Std \notin Files /\ NoOne \notin Threads \cup Files \cup {Std}
    /\ BufferKinds \subseteq {"inline", "owned", "caller"}
    /\ Buffers \cap {"inline", "caller"} = {}
    /\ BufferSize \in Nat \ {0}
    /\ Streams!Streams = Files \cup {Std}
    /\ NoOne \notin Streams!Streams
BY ServicesAssumption DEF Streams!StreamLifeAssumption, Streams!Streams

(* A FILE is usable only while it exists.                                  *)
LEMMA LifeFacts ==
    ASSUME LifeTypes
    PROVE  /\ Streams!Gone \notin FileSet
           /\ ~Streams!Usable(Streams!Gone)
           /\ \A s \in Streams!Streams : Streams!Usable(files[s]) => Streams!Live(s)
           /\ \A s \in Streams!Streams : Streams!Live(s) <=> files[s] \in FileSet
<1>1. Streams!Gone \notin FileSet
  BY DEF Streams!Gone, FileSet, Flags
<1>2. ~Streams!Usable(Streams!Gone)
  BY DEF Streams!Gone, Streams!Usable
<1> QED BY <1>1, <1>2 DEF LifeTypes, Streams!Live

(* parse_open_mode.                                                        *)
LEMMA OpenModeFlags ==
    ASSUME NEW m, Streams!OpenMode(m) # {}
    PROVE  ModeOK(Streams!OpenMode(m))
<1>1. CASE m = <<"tmpfile">>
  BY <1>1 DEF Streams!OpenMode, ModeOK, Flags
<1>2. CASE m # <<"tmpfile">>
  <2>1. PICK A \in {{"readable", "writable"}, {"readable"}, {"writable"}}, B \in {{"append"}, {}} :
          Streams!OpenMode(m) = {"owned"} \cup A \cup B
    BY <1>2, Zenon DEF Streams!OpenMode
  <2> QED BY <2>1 DEF ModeOK, Flags
<1> QED BY <1>1, <1>2

LEMMA LowestFree ==
    ASSUME Streams!Free # {}
    PROVE  Streams!Lowest \in Descriptors /\ fds[Streams!Lowest].for = NoOne
<1>1. Streams!Free \in SUBSET Nat
  BY LifeConstants DEF Streams!Free
<1>2. \E d \in Streams!Free : \A e \in Streams!Free : d <= e
  BY <1>1, LeastNatural
<1>3. Streams!Lowest \in Streams!Free
  BY <1>2 DEF Streams!Lowest
<1> QED BY <1>3 DEF Streams!Free

(* While nobody holds the lock no stream is being closed or rebound.       *)
LEMMA Quiet ==
    ASSUME LifeInv, io = NoOne
    PROVE  \A s : ~Streams!Changing(s)
BY LifeConstants DEF LifeInv, Holding, Streams!Changing

LEMMA Alone ==
    ASSUME LifeInv, NEW t \in Threads, Holding(t)
    PROVE  \A s : Streams!Changing(s) <=> s = fileTask[t].stream
<1>1. \A u \in Threads : Holding(u) => u = t
  BY DEF LifeInv
<1> QED BY <1>1 DEF Holding, Streams!Changing

LEMMA LifeInit == AtRest => LifeInv
<1> SUFFICES ASSUME AtRest PROVE LifeInv
  OBVIOUS
<1>1. Streams!Init
  BY DEF AtRest
<1>2. PICK f : f = Streams!File(1, {"writable"})
  OBVIOUS
<1>3. /\ f \in FileSet /\ Streams!Usable(f) /\ f.fd = 1 /\ f.mode = {"writable"}
      /\ f.pending = <<>> /\ f.buffer = "inline"
  BY <1>2, LifeConstants DEF Streams!File, FileSet, Flags, Streams!Usable
<1>4. /\ files = [s \in Streams!Streams |-> IF s = Std THEN f ELSE Streams!Gone]
      /\ streams = <<Std>>
      /\ fds = [d \in Descriptors |-> IF d = 1 THEN Streams!Opened(Std) ELSE Streams!Closed]
      /\ allocated = {} /\ io = NoOne /\ fileTask = [t \in Threads |-> Streams!Idle]
      /\ encoding = "C" /\ silent = FALSE
  BY <1>1, <1>2 DEF Streams!Init
<1>5. \A s \in Streams!Streams \cup {NoOne} : Streams!Opened(s) \in OpenSet
  BY DEF Streams!Opened, OpenSet
<1>6. LifeTypes
  BY <1>3, <1>4, <1>5, LifeConstants DEF LifeTypes, Streams!Closed
<1>7. \A s \in Streams!Streams : Streams!Live(s) <=> s = Std
  BY <1>3, <1>4, <1>6, LifeFacts DEF Streams!Live
<1>8. Range(streams) = {Std} /\ Distinct(streams)
  BY <1>4 DEF Range, Distinct
<1>9. \A t \in Threads : fileTask[t] = Streams!Idle /\ ~Holding(t) /\ ~Fetching(t)
  BY <1>4 DEF Streams!Idle, Holding, Fetching
<1>10. \A t \in Threads : FileTask(t) /\ (io = t <=> Holding(t))
  BY <1>4, <1>9, LifeConstants DEF FileTask, Streams!Idle, Fetching, Holding
<1>11. FileOK(Std)
  BY <1>3, <1>4, LifeConstants DEF FileOK
<1>12. Bound(Std) /\ fds[1].for = Std
  <2>1. files[Std] = f /\ fds[1] = [for |-> Std, written |-> <<>>, accepted |-> <<>>]
    BY <1>4, LifeConstants DEF Streams!Opened
  <2>2. <<>> \o f.pending = <<>> /\ Range(<<>>) = {}
    BY <1>3 DEF Range
  <2>3. files[Std].fd = 1 /\ files[Std].pending = <<>> /\ fds[1].for = Std
        /\ fds[1].accepted = <<>> /\ fds[1].written = <<>>
    BY <1>3, <2>1
  <2>4. 1 \in Descriptors /\ fds[1].accepted = fds[1].written \o files[Std].pending
    BY <1>3, <2>2, <2>3, LifeConstants
  <2> QED BY <2>2, <2>3, <2>4 DEF Bound
<1>13. \A s : ~Streams!Changing(s)
  BY <1>9 DEF Streams!Changing, Holding
<1>14. ASSUME NEW d \in Descriptors PROVE Owned(d)
  <2>1. CASE d = 1
    BY <1>3, <1>4, <1>12, <1>13, <2>1, LifeConstants DEF Owned
  <2>2. CASE d # 1
    BY <1>4, <2>2 DEF Owned, Streams!Closed, Streams!Opened
  <2> QED BY <2>1, <2>2
<1>15. \A s \in Streams!Streams : Streams!Usable(files[s]) => s = Std
  BY <1>6, <1>7, LifeFacts
<1>16. "bufferOwned" \notin files[Std].mode
  BY <1>3, <1>4, LifeConstants
<1> QED BY <1>4, <1>6, <1>7, <1>8, <1>9, <1>10, <1>11, <1>12, <1>14, <1>15, <1>16 DEF LifeInv

LEMMA FileTaskKept ==
    ASSUME NEW t, FileTask(t), fileTask'[t] = fileTask[t],
           Fetching(t) => ~Streams!Live(fileTask[t].cell)',
           fileTask[t].at = "register" => fds'[fileTask[t].fd] = fds[fileTask[t].fd],
           Holding(t) => Streams!Usable(files'[fileTask[t].stream])
    PROVE  FileTask(t)' /\ (Holding(t)' <=> Holding(t)) /\ (Fetching(t)' <=> Fetching(t))
<1>1. (Holding(t)' <=> Holding(t)) /\ (Fetching(t)' <=> Fetching(t))
  BY DEF Holding, Fetching
<1>2. (fileTask[t] = Streams!Idle \/ Fetching(t) \/ Holding(t))'
  BY <1>1 DEF FileTask, Streams!Idle
<1>3. ModeOK(fileTask[t].mode)' <=> ModeOK(fileTask[t].mode)
  BY DEF ModeOK, Flags
<1>4. Fetching(t)' => (/\ fileTask[t].cell \in Files /\ ~Streams!Live(fileTask[t].cell)
                       /\ ModeOK(fileTask[t].mode))'
  BY <1>1, <1>3 DEF FileTask
<1>5. (fileTask[t].at = "register" =>
         fileTask[t].fd \in Descriptors /\ fds[fileTask[t].fd] = Streams!Opened(fileTask[t].cell))'
  BY DEF FileTask, Streams!Opened
<1>6. Holding(t)' => (/\ fileTask[t].stream \in Streams!Streams
                      /\ Streams!Usable(files[fileTask[t].stream]))'
  BY <1>1 DEF FileTask, Streams!Streams, Streams!Usable
<1>7. (fileTask[t].at = "reopen" => ModeOK(fileTask[t].mode))'
  BY <1>3 DEF FileTask
<1> QED BY <1>1, <1>2, <1>4, <1>5, <1>6, <1>7 DEF FileTask

(* The descriptor of an fopen under way belongs to no FILE.                *)
LEMMA RegisterAlone ==
    ASSUME LifeInv, NEW t \in Threads, fileTask[t].at = "register",
           NEW s \in Streams!Streams, Streams!Usable(files[s]), ~Streams!Changing(s)
    PROVE  files[s].fd # fileTask[t].fd
<1>1. /\ fds[fileTask[t].fd].for = fileTask[t].cell /\ ~Streams!Live(fileTask[t].cell)
  <2>1. FileTask(t) /\ Fetching(t)
    BY DEF LifeInv, Fetching
  <2> QED BY <2>1 DEF FileTask, Streams!Opened
<1>2. Streams!Live(s) /\ fds[files[s].fd].for = s
  BY LifeFacts DEF LifeInv, Bound
<1> QED BY <1>1, <1>2

(* A step of a call that holds the lock all along: it may change what      *)
(* FILEs hold and which buffers they have, but no descriptor's owner.      *)
LEMMA KeepStep ==
    ASSUME LifeInv, io = NoOne, UNCHANGED <<streams, io, fileTask, silent>>,
           encoding' \in {"C", "UTF-8"},
           files' \in [Streams!Streams -> FileSet \cup {Streams!Gone}],
           fds' \in [Descriptors -> OpenSet], allocated' \subseteq Buffers,
           \A s \in Streams!Streams :
             /\ Streams!Live(s)' <=> Streams!Live(s)
             /\ Streams!Usable(files'[s]) <=> Streams!Usable(files[s])
             /\ Streams!Live(s) => files'[s].fd = files[s].fd,
           \A d \in Descriptors :
             /\ fds'[d].for = fds[d].for
             /\ \/ fds'[d] = fds[d]
                \/ \E s \in Streams!Streams : Streams!Usable(files[s]) /\ files[s].fd = d,
           \A s \in Streams!Streams : Streams!Live(s) => FileOK(s)',
           \A s \in Streams!Streams : Streams!Usable(files[s]) => Bound(s)',
           \A b \in allocated' : \E s \in Streams!Streams :
             Streams!Live(s) /\ "bufferOwned" \in files'[s].mode /\ files'[s].buffer = b,
           \A s, u \in Streams!Streams :
             /\ Streams!Live(s) /\ "bufferOwned" \in files'[s].mode
             /\ Streams!Live(u) /\ "bufferOwned" \in files'[u].mode
             /\ files'[s].buffer = files'[u].buffer
             => s = u
    PROVE  LifeInv'
<1>1. LifeTypes
  BY DEF LifeInv
<1>2. LifeTypes'
  BY <1>1 DEF LifeTypes, Streams!Streams, FileSet, OpenSet, ByteSet, Flags, Streams!Gone,
              Streams!NoFd
<1>3. \A s : ~Streams!Changing(s) /\ ~Streams!Changing(s)'
  BY Quiet DEF Streams!Changing
<1>4. \A t \in Threads : fileTask[t].at = "register" => fds'[fileTask[t].fd] = fds[fileTask[t].fd]
  <2> SUFFICES ASSUME NEW t \in Threads, fileTask[t].at = "register"
               PROVE  fds'[fileTask[t].fd] = fds[fileTask[t].fd]
    OBVIOUS
  <2>1. fileTask[t].fd \in Descriptors
    BY DEF LifeInv, FileTask, Streams!Idle
  <2>2. \A s \in Streams!Streams : Streams!Usable(files[s]) => files[s].fd # fileTask[t].fd
    BY <1>3, RegisterAlone
  <2> QED BY <2>1, <2>2
<1>5. \A t \in Threads : Fetching(t) => /\ fileTask[t].cell \in Streams!Streams
                                        /\ ~Streams!Live(fileTask[t].cell)
  BY LifeConstants DEF LifeInv, FileTask, Fetching, Streams!Idle
<1>6. \A t \in Threads : ~Holding(t)
  BY LifeConstants DEF LifeInv
<1>7. \A t \in Threads :
        FileTask(t)' /\ (Holding(t)' <=> Holding(t)) /\ (Fetching(t)' <=> Fetching(t))
  <2> SUFFICES ASSUME NEW t \in Threads
               PROVE  FileTask(t)' /\ (Holding(t)' <=> Holding(t)) /\ (Fetching(t)' <=> Fetching(t))
    OBVIOUS
  <2>1. FileTask(t) /\ fileTask'[t] = fileTask[t]
    BY DEF LifeInv
  <2>2. Fetching(t) => ~Streams!Live(fileTask[t].cell)'
    <3>1. ASSUME Fetching(t) PROVE ~Streams!Live(fileTask[t].cell)'
      <4>1. PICK c \in Streams!Streams : c = fileTask[t].cell /\ ~Streams!Live(c)
        BY <1>5, <3>1
      <4>2. ~Streams!Live(c)'
        BY <4>1
      <4> QED BY <2>1, <4>1, <4>2 DEF Streams!Live
    <3> QED BY <3>1
  <2> QED BY <1>4, <1>6, <2>1, <2>2, FileTaskKept
<1>8. ASSUME NEW d \in Descriptors PROVE Owned(d)'
  <2>1. Owned(d) /\ fds'[d].for = fds[d].for
    BY DEF LifeInv
  <2>2. CASE fds[d].for = NoOne
    <3>1. \A s \in Streams!Streams : Streams!Usable(files[s]) => files[s].fd # d
      <4> SUFFICES ASSUME NEW s \in Streams!Streams, Streams!Usable(files[s])
                   PROVE  files[s].fd # d
        OBVIOUS
      <4>1. Bound(s)
        BY <1>3 DEF LifeInv
      <4> QED BY <2>2, <4>1, LifeConstants DEF Bound
    <3>2. fds'[d] = fds[d]
      BY <3>1
    <3> QED BY <2>1, <2>2, <3>2 DEF Owned, Streams!Closed, Streams!Opened
  <2>3. CASE fds[d].for # NoOne
    <3>1. fds[d].for \in Streams!Streams
      BY <1>1, <2>3 DEF LifeTypes, OpenSet
    <3>2. PICK s \in Streams!Streams : s = fds[d].for
      BY <3>1
    <3>3. CASE Streams!Usable(files[s]) /\ files[s].fd = d
      <4>1. Streams!Usable(files'[s]) /\ files'[s].fd = d
        BY <1>1, <3>3, LifeFacts
      <4> QED BY <1>3, <2>1, <2>3, <3>2, <4>1 DEF Owned, Streams!Usable
    <3>4. CASE \E t \in Threads : fileTask[t].at = "register" /\ fileTask[t].fd = d
      BY <2>1, <2>3, <3>4 DEF Owned
    <3> QED BY <2>1, <2>3, <3>2, <3>3, <3>4 DEF Owned
  <2> QED BY <2>2, <2>3
<1>9. ASSUME NEW s \in Streams!Streams
      PROVE  /\ s \in Range(streams)' => Streams!Live(s)'
             /\ Streams!Usable(files[s])' => s \in Range(streams)'
             /\ Streams!Live(s)' => FileOK(s)'
             /\ Streams!Usable(files[s])' => Bound(s)'
  <2>1. Streams!Usable(files[s])' <=> Streams!Usable(files'[s])
    BY DEF Streams!Usable
  <2> QED BY <2>1 DEF LifeInv, Range
<1>10. Distinct(streams)'
  BY DEF LifeInv, Distinct
<1>11. \A t \in Threads : (io = t <=> Holding(t))'
  BY <1>7 DEF LifeInv
<1>12. \A t, u \in Threads :
         (Fetching(t) /\ Fetching(u) /\ fileTask[t].cell = fileTask[u].cell => t = u)'
  BY <1>7 DEF LifeInv
<1>13. \A s, u \in Streams!Streams :
         (/\ Streams!Live(s) /\ "bufferOwned" \in files[s].mode
          /\ Streams!Live(u) /\ "bufferOwned" \in files[u].mode
          /\ files[s].buffer = files[u].buffer
          => s = u)'
  OBVIOUS
<1>14. \A b \in allocated' : \E s \in Streams!Streams :
         (Streams!Live(s) /\ "bufferOwned" \in files[s].mode /\ files[s].buffer = b)'
  OBVIOUS
<1>15. Streams!Streams' = Streams!Streams
  BY DEF Streams!Streams
<1> QED BY <1>2, <1>7, <1>8, <1>9, <1>10, <1>11, <1>12, <1>13, <1>14, <1>15 DEF LifeInv

LEMMA Regroup ==
    ASSUME NEW B, NEW s \in Seq(B), NEW a \in Seq(B), NEW b \in Seq(B)
    PROVE  s \o a \in Seq(B) /\ (s \o a) \o b = s \o (a \o b)
<1>1. (s \o a) \o b = s \o (a \o b)
  BY ConcatAssociative
<1>2. s \o a \in Seq(B)
  BY ConcatProperties
<1> QED BY <1>1, <1>2

LEMMA OneMore ==
    ASSUME NEW B, NEW s \in Seq(B), NEW x \in B
    PROVE  /\ Append(s, x) \in Seq(B) /\ Append(s, x) = s \o <<x>>
           /\ Range(Append(s, x)) = Range(s) \cup {x}
<1>1. Append(s, x) \in Seq(B) /\ Append(s, x) = s \o <<x>>
  BY AppendProperties, AppendIsConcat
<1>2. <<x>> \in Seq(B)
  OBVIOUS
<1>3. Range(s \o <<x>>) = Range(s) \cup Range(<<x>>)
  BY <1>2, RangeConcatenation
<1>4. Range(<<x>>) = {x}
  BY DEF Range
<1> QED BY <1>1, <1>3, <1>4

(* One flush of stdio_flush_buffer_unlocked: k pending bytes reach the     *)
(* file, and what was accepted is still the file and the rest.             *)
LEMMA FlushOne ==
    ASSUME NEW o \in OpenSet, NEW p \in Seq(ByteSet), o.accepted = o.written \o p,
           NEW k \in 0 .. Len(p)
    PROVE  /\ [o EXCEPT !.written = @ \o SubSeq(p, 1, k)] \in OpenSet
           /\ SubSeq(p, k + 1, Len(p)) \in Seq(ByteSet)
           /\ o.accepted = (o.written \o SubSeq(p, 1, k)) \o SubSeq(p, k + 1, Len(p))
<1>1. PICK a, b : a = SubSeq(p, 1, k) /\ b = SubSeq(p, k + 1, Len(p))
  OBVIOUS
<1>2. a \in Seq(ByteSet) /\ b \in Seq(ByteSet) /\ a \o b = p
  <2>1. /\ One!Start(p, k) \in Seq(ByteSet) /\ One!Rest(p, k) \in Seq(ByteSet)
        /\ One!Start(p, k) \o One!Rest(p, k) = p
    BY Halves
  <2> QED BY <1>1, <2>1 DEF One!Start, One!Rest
<1>3. PICK w \in Seq(ByteSet) : w = o.written
  BY DEF OpenSet
<1>4. w \o a \in Seq(ByteSet) /\ (w \o a) \o b = w \o (a \o b)
  <2>1. a \in Seq(ByteSet)
    BY <1>2
  <2>2. b \in Seq(ByteSet)
    BY <1>2
  <2> QED BY <2>1, <2>2, Regroup
<1>5. [o EXCEPT !.written = w \o a] \in OpenSet
  BY <1>4 DEF OpenSet
<1> QED BY <1>1, <1>2, <1>3, <1>4, <1>5

LEMMA TakeOne ==
    ASSUME NEW o \in OpenSet, NEW p \in Seq(ByteSet), o.accepted = o.written \o p,
           NEW b \in ByteSet
    PROVE  /\ [o EXCEPT !.accepted = Append(@, b)] \in OpenSet
           /\ Append(p, b) \in Seq(ByteSet)
           /\ Append(o.accepted, b) = o.written \o Append(p, b)
           /\ Range(Append(o.accepted, b)) = Range(o.accepted) \cup {b}
<1>1. PICK w \in Seq(ByteSet), a \in Seq(ByteSet) : w = o.written /\ a = o.accepted
  BY DEF OpenSet
<1>2. /\ Append(p, b) = p \o <<b>> /\ Append(p, b) \in Seq(ByteSet)
      /\ Append(a, b) = a \o <<b>> /\ Append(a, b) \in Seq(ByteSet)
      /\ Range(Append(a, b)) = Range(a) \cup {b}
  BY OneMore
<1>3. <<b>> \in Seq(ByteSet)
  OBVIOUS
<1>4. (w \o p) \o <<b>> = w \o (p \o <<b>>)
  BY <1>3, Regroup
<1>6. [o EXCEPT !.accepted = Append(a, b)] \in OpenSet
  BY <1>2 DEF OpenSet
<1> QED BY <1>1, <1>2, <1>4, <1>6

(* What the functions of stdio.c leave of a FILE and of the table: the     *)
(* same descriptor, flags and buffer, and every accepted byte.             *)
Carried(f, table, g, after) ==
    /\ g \in FileSet
    /\ g.fd = f.fd /\ g.mode = f.mode /\ g.buffer = f.buffer /\ g.orientation = f.orientation
    /\ \E o \in OpenSet :
         /\ after = [table EXCEPT ![f.fd] = o] /\ o.for = table[f.fd].for
         /\ o.accepted = o.written \o g.pending
         /\ \A b \in Range(o.accepted) : b.encoding = g.orientation

LEMMA FlushCarries ==
    ASSUME NEW f \in FileSet, f.fd \in Descriptors, NEW table \in [Descriptors -> OpenSet],
           NEW g, NEW after, Carried(f, table, g, after), NEW k \in 0 .. Len(g.pending)
    PROVE  /\ Carried(f, table, Streams!Rest(g, k), Streams!Published(after, g, k))
           /\ Streams!Rest(g, k).pending = SubSeq(g.pending, k + 1, Len(g.pending))
<1>1. PICK o \in OpenSet :
         /\ after = [table EXCEPT ![f.fd] = o] /\ o.for = table[f.fd].for
         /\ o.accepted = o.written \o g.pending
         /\ \A b \in Range(o.accepted) : b.encoding = g.orientation
  BY DEF Carried
<1>2. PICK p \in Seq(ByteSet) : p = g.pending /\ k \in 0 .. Len(p)
  BY DEF Carried, FileSet
<1>3. PICK w : w = [o EXCEPT !.written = @ \o SubSeq(p, 1, k)]
  OBVIOUS
<1>4. PICK r : r = SubSeq(p, k + 1, Len(p))
  OBVIOUS
<1>5. /\ w \in OpenSet /\ r \in Seq(ByteSet)
      /\ o.accepted = (o.written \o SubSeq(p, 1, k)) \o r
  BY <1>1, <1>2, <1>3, <1>4, FlushOne
<1>6. w.for = o.for /\ w.accepted = o.accepted /\ w.written = o.written \o SubSeq(p, 1, k)
  BY <1>3 DEF OpenSet
<1>7. PICK h : h = [g EXCEPT !.pending = r]
  OBVIOUS
<1>8. /\ h \in FileSet /\ h.pending = r
      /\ h.fd = f.fd /\ h.mode = f.mode /\ h.buffer = f.buffer /\ h.orientation = f.orientation
  BY <1>5, <1>7 DEF Carried, FileSet
<1>9. h = Streams!Rest(g, k)
  BY <1>2, <1>4, <1>7 DEF Streams!Rest
<1>10. g.fd = f.fd /\ g.orientation = f.orientation
  BY DEF Carried
<1>11. CASE k = 0
  <2>1. Streams!Published(after, g, k) = [table EXCEPT ![f.fd] = o]
    BY <1>1, <1>11 DEF Streams!Published
  <2>2. r = p
    BY <1>2, <1>4, <1>11, SubSeqFull
  <2>3. o.accepted = o.written \o h.pending /\ h.orientation = g.orientation
    BY <1>1, <1>2, <1>8, <1>10, <2>2
  <2>4. Carried(f, table, h, [table EXCEPT ![f.fd] = o])
    BY <1>1, <1>8, <2>3 DEF Carried
  <2> QED BY <1>2, <1>4, <1>8, <1>9, <2>1, <2>4
<1>12. CASE k # 0
  <2>1. Streams!Published(after, g, k) = [table EXCEPT ![f.fd] = w]
    BY <1>1, <1>2, <1>3, <1>10, <1>12 DEF Streams!Published
  <2>2. /\ w.accepted = w.written \o h.pending /\ h.orientation = g.orientation
        /\ w.for = table[f.fd].for
    BY <1>1, <1>5, <1>6, <1>8, <1>10
  <2>3. Carried(f, table, h, [table EXCEPT ![f.fd] = w])
    BY <1>1, <1>5, <1>6, <1>8, <2>2 DEF Carried
  <2> QED BY <1>2, <1>4, <1>8, <1>9, <2>1, <2>3
<1> QED BY <1>11, <1>12

LEMMA TakeCarries ==
    ASSUME NEW f \in FileSet, f.fd \in Descriptors, NEW table \in [Descriptors -> OpenSet],
           NEW g, NEW after, Carried(f, table, g, after),
           NEW b \in ByteSet, b.encoding = f.orientation
    PROVE  Carried(f, table, [g EXCEPT !.pending = Append(@, b)],
                   [after EXCEPT ![f.fd].accepted = Append(@, b)])
<1>1. PICK o \in OpenSet :
         /\ after = [table EXCEPT ![f.fd] = o] /\ o.for = table[f.fd].for
         /\ o.accepted = o.written \o g.pending
         /\ \A c \in Range(o.accepted) : c.encoding = g.orientation
  BY DEF Carried
<1>2. PICK p \in Seq(ByteSet) : p = g.pending
  BY DEF Carried, FileSet
<1>3. PICK w : w = [o EXCEPT !.accepted = Append(@, b)]
  OBVIOUS
<1>4. PICK h : h = [g EXCEPT !.pending = Append(p, b)]
  OBVIOUS
<1>5. /\ w \in OpenSet /\ Append(p, b) \in Seq(ByteSet)
      /\ Append(o.accepted, b) = o.written \o Append(p, b)
      /\ Range(Append(o.accepted, b)) = Range(o.accepted) \cup {b}
  BY <1>1, <1>2, <1>3, TakeOne
<1>6. w.for = o.for /\ w.accepted = Append(o.accepted, b) /\ w.written = o.written
  BY <1>3 DEF OpenSet
<1>7. /\ h \in FileSet /\ h.pending = Append(p, b)
      /\ h.fd = f.fd /\ h.mode = f.mode /\ h.buffer = f.buffer /\ h.orientation = f.orientation
      /\ g.orientation = f.orientation
  BY <1>4, <1>5 DEF Carried, FileSet
<1>8. [after EXCEPT ![f.fd].accepted = Append(@, b)] = [table EXCEPT ![f.fd] = w]
  <2>1. PICK d \in Descriptors : d = f.fd
    OBVIOUS
  <2>2. after = [table EXCEPT ![d] = o] /\ after[d] = o
    BY <1>1, <2>1
  <2>3. [after EXCEPT ![d] = w] = [table EXCEPT ![d] = w]
    BY <2>2
  <2>4. PICK u : u = [after EXCEPT ![d].accepted = Append(@, b)]
    OBVIOUS
  <2>5. DOMAIN u = Descriptors /\ u[d] = w /\ \A e \in Descriptors \ {d} : u[e] = after[e]
    BY <1>3, <2>2, <2>4
  <2>6. u = [e \in Descriptors |-> u[e]]
    BY <2>4, <2>5, <2>2
  <2>7. u = [after EXCEPT ![d] = w]
    BY <2>2, <2>5, <2>6
  <2> QED BY <2>1, <2>3, <2>4, <2>7
<1>9. /\ w.accepted = w.written \o h.pending /\ w.for = table[f.fd].for
      /\ \A c \in Range(w.accepted) : c.encoding = h.orientation
  BY <1>1, <1>2, <1>5, <1>6, <1>7
<1>10. Carried(f, table, h, [table EXCEPT ![f.fd] = w])
  BY <1>5, <1>7, <1>9 DEF Carried
<1> QED BY <1>2, <1>4, <1>8, <1>10

(* stdio_write_unlocked takes one byte of the stream's encoding.           *)
LEMMA AcceptCarries ==
    ASSUME NEW f \in FileSet, f.fd \in Descriptors, NEW table \in [Descriptors -> OpenSet],
           NEW r, r = [f |-> r.f, fds |-> r.fds, failed |-> r.failed, bad |-> r.bad],
           r.failed \in BOOLEAN, Carried(f, table, r.f, r.fds),
           NEW b \in ByteSet, b.encoding = f.orientation,
           NEW k \in Nat, k < Streams!Space(f), NEW q, q = Streams!AcceptByte(r, b, k)
    PROVE  /\ q = [f |-> q.f, fds |-> q.fds, failed |-> q.failed, bad |-> q.bad]
           /\ q.failed \in BOOLEAN
           /\ Carried(f, table, q.f, q.fds)
<1>1. PICK g, after : g = r.f /\ after = r.fds
  OBVIOUS
<1>2. Carried(f, table, g, after)
  BY <1>1
<1>4. PICK n \in Nat, m \in Nat :
         /\ n = Len(g.pending) /\ m = Streams!Space(g) /\ m = Streams!Space(f)
         /\ g.fd = f.fd
  <2>1. g \in FileSet /\ g.fd = f.fd /\ g.buffer = f.buffer
    BY <1>2 DEF Carried
  <2>2. g.pending \in Seq(ByteSet)
    BY <2>1 DEF FileSet
  <2>3. Len(g.pending) \in Nat
    BY <2>2
  <2>4. Streams!Space(f) \in Nat /\ Streams!Space(g) = Streams!Space(f)
    BY <2>1, LifeConstants DEF Streams!Space
  <2> QED BY <2>1, <2>3, <2>4
<1>5. CASE r.failed
  <2>1. q = r
    BY <1>5 DEF Streams!AcceptByte
  <2> QED BY <2>1
<1>6. CASE ~r.failed /\ n < m
  <2>1. PICK g1, a1 :
           /\ g1 = [g EXCEPT !.pending = Append(@, b)]
           /\ a1 = [after EXCEPT ![f.fd].accepted = Append(@, b)]
    OBVIOUS
  <2>2. Carried(f, table, g1, a1)
    BY <1>2, <2>1, TakeCarries
  <2>3. q = [r EXCEPT !.f = g1, !.fds = a1]
    BY <1>1, <1>4, <1>6, <2>1 DEF Streams!AcceptByte
  <2> QED BY <2>2, <2>3
<1>7. CASE ~r.failed /\ ~(n < m) /\ r.bad = 1
  <2>1. k \in 0 .. Len(g.pending)
    BY <1>4, <1>7
  <2>2. PICK g1, a1 : g1 = Streams!Rest(g, k) /\ a1 = Streams!Published(after, g, k)
    OBVIOUS
  <2>3. Carried(f, table, g1, a1)
    BY <1>2, <2>1, <2>2, FlushCarries
  <2>4. q = [r EXCEPT !.f = g1, !.fds = a1, !.failed = TRUE]
    BY <1>1, <1>4, <1>7, <2>2 DEF Streams!AcceptByte
  <2> QED BY <2>3, <2>4
<1>8. CASE ~r.failed /\ ~(n < m) /\ r.bad # 1
  <2>1. n \in 0 .. Len(g.pending)
    BY <1>4
  <2>2. PICK g1, a1 : g1 = Streams!Rest(g, n) /\ a1 = Streams!Published(after, g, n)
    OBVIOUS
  <2>3. Carried(f, table, g1, a1)
    BY <1>2, <2>1, <2>2, FlushCarries
  <2>4. PICK g2, a2 :
           /\ g2 = [g1 EXCEPT !.pending = Append(@, b)]
           /\ a2 = [a1 EXCEPT ![f.fd].accepted = Append(@, b)]
    OBVIOUS
  <2>5. Carried(f, table, g2, a2)
    BY <2>3, <2>4, TakeCarries
  <2>6. q = [[r EXCEPT !.f = g2, !.fds = a2] EXCEPT !.bad = IF r.bad = 0 THEN 0 ELSE r.bad - 1]
    BY <1>1, <1>4, <1>8, <2>2, <2>4 DEF Streams!AcceptByte
  <2> QED BY <2>5, <2>6
<1> QED BY <1>4, <1>5, <1>6, <1>7, <1>8

(* The bytes of one character, as many as fit it.                          *)
LEMMA BytesOfOne ==
    ASSUME NEW f \in FileSet, f.orientation # "none", NEW char \in {"a", "e"},
           Streams!Bytes(char, f) # <<>>
    PROVE  /\ Len(Streams!Bytes(char, f)) \in {1, 2}
           /\ Streams!Bytes(char, f) \in Seq(ByteSet)
           /\ \A i \in 1 .. Len(Streams!Bytes(char, f)) :
                /\ Streams!Bytes(char, f)[i] \in ByteSet
                /\ Streams!Bytes(char, f)[i].encoding = f.orientation
<1>1. f.orientation \in {"byte", "C", "UTF-8"}
  BY DEF FileSet
<1>2. PICK bytes : bytes = Streams!Bytes(char, f)
  OBVIOUS
<1>3. \/ \E x \in ByteSet : x.encoding = f.orientation /\ bytes = <<x>>
      \/ \E x \in ByteSet, y \in ByteSet :
           x.encoding = f.orientation /\ y.encoding = f.orientation /\ bytes = <<x, y>>
  <2>1. CASE f.orientation = "byte"
    <3>1. bytes = <<[value |-> char, encoding |-> "byte"]>>
      BY <1>2, <2>1 DEF Streams!Bytes, Streams!Byte
    <3>2. [value |-> char, encoding |-> "byte"] \in ByteSet
      BY DEF ByteSet
    <3> QED BY <2>1, <3>1, <3>2
  <2>2. CASE f.orientation # "byte" /\ char = "a"
    <3>1. bytes = <<[value |-> char, encoding |-> f.orientation]>>
      BY <1>2, <2>2 DEF Streams!Bytes, Streams!Byte
    <3>2. [value |-> char, encoding |-> f.orientation] \in ByteSet
      BY <1>1 DEF ByteSet
    <3> QED BY <3>1, <3>2
  <2>3. CASE f.orientation = "UTF-8" /\ char # "a"
    <3>1. bytes = <<[value |-> "e1", encoding |-> "UTF-8"], [value |-> "e2", encoding |-> "UTF-8"]>>
      BY <1>2, <2>3 DEF Streams!Bytes, Streams!Byte
    <3>2. /\ [value |-> "e1", encoding |-> "UTF-8"] \in ByteSet
          /\ [value |-> "e2", encoding |-> "UTF-8"] \in ByteSet
      BY DEF ByteSet
    <3> QED BY <2>3, <3>1, <3>2
  <2>4. CASE f.orientation = "C" /\ char # "a"
    BY <1>2, <2>4 DEF Streams!Bytes
  <2> QED BY <1>1, <2>1, <2>2, <2>3, <2>4
<1>4. CASE \E x \in ByteSet : x.encoding = f.orientation /\ bytes = <<x>>
  BY <1>2, <1>4
<1>5. CASE \E x \in ByteSet, y \in ByteSet :
             x.encoding = f.orientation /\ y.encoding = f.orientation /\ bytes = <<x, y>>
  BY <1>2, <1>5
<1> QED BY <1>3, <1>4, <1>5

LEMMA AcceptAll ==
    ASSUME NEW f \in FileSet, f.fd \in Descriptors, NEW table \in [Descriptors -> OpenSet],
           NEW bytes \in Seq(ByteSet), Len(bytes) \in {1, 2},
           \A i \in 1 .. Len(bytes) : bytes[i] \in ByteSet /\ bytes[i].encoding = f.orientation,
           NEW bad, NEW k \in Nat, k < Streams!Space(f), Carried(f, table, f, table)
    PROVE  LET q == Streams!Accept(f, table, bytes, bad, k)
           IN  Carried(f, table, q.f, q.fds)
<1>1. PICK r : r = [f |-> f, fds |-> table, failed |-> FALSE, bad |-> bad]
  OBVIOUS
<1>2. PICK p : p = Streams!AcceptByte(r, bytes[1], k)
  OBVIOUS
<1>3. /\ p = [f |-> p.f, fds |-> p.fds, failed |-> p.failed, bad |-> p.bad]
      /\ p.failed \in BOOLEAN
      /\ Carried(f, table, p.f, p.fds)
  <2>1. /\ r = [f |-> r.f, fds |-> r.fds, failed |-> r.failed, bad |-> r.bad]
        /\ r.failed \in BOOLEAN /\ Carried(f, table, r.f, r.fds)
    BY <1>1
  <2>2. bytes[1] \in ByteSet /\ bytes[1].encoding = f.orientation
    OBVIOUS
  <2> QED BY <1>2, <2>1, <2>2, AcceptCarries
<1>4. CASE Len(bytes) = 1
  BY <1>1, <1>2, <1>3, <1>4 DEF Streams!Accept
<1>5. CASE Len(bytes) = 2
  <2>1. PICK q : q = Streams!AcceptByte(p, bytes[2], k)
    OBVIOUS
  <2>2. Carried(f, table, q.f, q.fds)
    <3>1. bytes[2] \in ByteSet /\ bytes[2].encoding = f.orientation
      BY <1>5
    <3> QED BY <1>3, <2>1, <3>1, AcceptCarries
  <2>3. q = Streams!Accept(f, table, bytes, bad, k)
    BY <1>1, <1>2, <1>5, <2>1 DEF Streams!Accept
  <2> QED BY <2>2, <2>3
<1> QED BY <1>4, <1>5

(* write_raw: nothing waits in the buffer of an unbuffered stream.         *)
LEMMA RawCarries ==
    ASSUME NEW f \in FileSet, f.fd \in Descriptors, NEW table \in [Descriptors -> OpenSet],
           NEW bytes \in Seq(ByteSet),
           \A i \in 1 .. Len(bytes) : bytes[i].encoding = f.orientation,
           NEW bad, NEW k \in 0 .. Len(bytes), Carried(f, table, f, table), f.pending = <<>>
    PROVE  LET q == Streams!Raw(f, table, bytes, bad, k)
           IN  q.f = f /\ Carried(f, table, q.f, q.fds)
<1>1. PICK done : done = IF bad = 0 THEN bytes ELSE SubSeq(bytes, 1, k)
  OBVIOUS
<1>2. /\ done \in Seq(ByteSet)
      /\ \A i \in 1 .. Len(done) : done[i].encoding = f.orientation
  <2>1. CASE bad = 0
    BY <1>1, <2>1
  <2>2. CASE bad # 0
    <3>1. /\ done \in Seq(ByteSet) /\ Len(done) = k
          /\ \A i \in 1 .. k : done[i] = bytes[i] /\ i \in 1 .. Len(bytes)
      BY <1>1, <2>2
    <3> QED BY <3>1
  <2> QED BY <2>1, <2>2
<1>3. PICK o \in OpenSet :
         /\ table = [table EXCEPT ![f.fd] = o] /\ o.for = table[f.fd].for
         /\ o.accepted = o.written \o f.pending
         /\ \A b \in Range(o.accepted) : b.encoding = f.orientation
  BY DEF Carried
<1>4. PICK d \in Descriptors : d = f.fd /\ table[d] = o
  BY <1>3
<1>5. PICK w \in Seq(ByteSet) : w = o.written /\ w = o.accepted
  <2>1. o.written \in Seq(ByteSet)
    BY DEF OpenSet
  <2>2. o.written \o f.pending = o.written
    BY <2>1, ConcatEmptySeq
  <2> QED BY <1>3, <2>1, <2>2
<1>6. w \o done \in Seq(ByteSet) /\ Range(w \o done) = Range(w) \cup Range(done)
  <2>1. w \o done \in Seq(ByteSet)
    BY <1>2, ConcatProperties
  <2>2. Range(w \o done) = Range(w) \cup Range(done)
    BY <1>2, RangeConcatenation
  <2> QED BY <2>1, <2>2
<1>7. PICK v : v = [for |-> o.for, written |-> w \o done, accepted |-> w \o done]
  OBVIOUS
<1>8. v \in OpenSet
  BY <1>6, <1>7 DEF OpenSet
<1>9. (w \o done) \o <<>> = w \o done
  BY <1>6, ConcatEmptySeq
<1>10. \A b \in Range(v.accepted) : b.encoding = f.orientation
  <2>1. \A b \in Range(done) : b.encoding = f.orientation
    BY <1>2 DEF Range
  <2> QED BY <1>3, <1>5, <1>6, <1>7, <2>1
<1>11. Carried(f, table, f, [table EXCEPT ![d] = v])
  <2>1. /\ v.for = table[f.fd].for /\ v.accepted = v.written \o f.pending
    BY <1>3, <1>7, <1>9
  <2> QED BY <1>4, <1>8, <1>10, <2>1 DEF Carried
<1>12. PICK u : u = [table EXCEPT ![d].written = @ \o done, ![d].accepted = @ \o done]
  OBVIOUS
<1>13. u = [table EXCEPT ![d] = v]
  <2>1. DOMAIN u = Descriptors /\ \A e \in Descriptors \ {d} : u[e] = table[e]
    BY <1>12
  <2>2. u[d] = v
    BY <1>4, <1>5, <1>7, <1>12 DEF OpenSet
  <2>3. u = [e \in Descriptors |-> u[e]]
    BY <1>12, <2>1
  <2> QED BY <2>1, <2>2, <2>3
<1> QED BY <1>1, <1>4, <1>11, <1>12, <1>13 DEF Streams!Raw

(* A call on one usable FILE, under the lock, that keeps its descriptor,   *)
(* its flags and its buffer.                                               *)
LEMMA OutputStep ==
    ASSUME LifeInv, io = NoOne, NEW s \in Streams!Streams, Streams!Usable(files[s]),
           UNCHANGED <<streams, allocated, io, fileTask, encoding, silent>>,
           NEW g \in FileSet, NEW o \in OpenSet,
           files' = [files EXCEPT ![s] = g], fds' = [fds EXCEPT ![g.fd] = o],
           g.fd = files[s].fd, g.mode = files[s].mode, g.buffer = files[s].buffer,
           o.for = s, o.accepted = o.written \o g.pending,
           \A b \in Range(o.accepted) : b.encoding = g.orientation,
           "writable" \notin g.mode \/ "unbuffered" \in g.mode => g.pending = <<>>
    PROVE  LifeInv'
<1>1. /\ LifeTypes /\ \A u : ~Streams!Changing(u)
      /\ \A u \in Streams!Streams : Streams!Usable(files[u]) => Bound(u)
      /\ \A u \in Streams!Streams : Streams!Live(u) => FileOK(u)
  BY Quiet DEF LifeInv
<1>2. PICK d \in Descriptors : d = g.fd /\ fds[d].for = s
  BY <1>1 DEF Bound
<1>3. /\ files' \in [Streams!Streams -> FileSet \cup {Streams!Gone}]
      /\ fds' \in [Descriptors -> OpenSet] /\ allocated' \subseteq Buffers
      /\ encoding' \in {"C", "UTF-8"}
      /\ files'[s] = g /\ \A u \in Streams!Streams \ {s} : files'[u] = files[u]
      /\ fds'[d] = o /\ \A e \in Descriptors \ {d} : fds'[e] = fds[e]
  BY <1>1, <1>2 DEF LifeTypes
<1>4. Streams!Live(s) /\ Streams!Live(s)' /\ Streams!Usable(g)
  BY <1>1, <1>3, LifeFacts DEF Streams!Live, Streams!Usable
<1>5. \A u \in Streams!Streams :
        /\ Streams!Live(u)' <=> Streams!Live(u)
        /\ Streams!Usable(files'[u]) <=> Streams!Usable(files[u])
        /\ Streams!Live(u) => files'[u].fd = files[u].fd
        /\ Streams!Live(u) => files'[u].mode = files[u].mode /\ files'[u].buffer = files[u].buffer
  BY <1>3, <1>4 DEF Streams!Live, Streams!Gone
<1>6. \A e \in Descriptors :
        /\ fds'[e].for = fds[e].for
        /\ \/ fds'[e] = fds[e]
           \/ \E u \in Streams!Streams : Streams!Usable(files[u]) /\ files[u].fd = e
  BY <1>2, <1>3
<1>7. ASSUME NEW u \in Streams!Streams, Streams!Live(u) PROVE FileOK(u)'
  <2>1. FileOK(u)
    BY <1>1, <1>7
  <2>2. /\ files'[u].fd = files[u].fd /\ files'[u].mode = files[u].mode
        /\ files'[u].buffer = files[u].buffer
        /\ Streams!Usable(files'[u]) <=> Streams!Usable(files[u])
    BY <1>5, <1>7
  <2>3. "writable" \notin files'[u].mode \/ "unbuffered" \in files'[u].mode =>
          files'[u].pending = <<>>
    BY <1>3, <2>1 DEF FileOK
  <2> QED BY <2>1, <2>2, <2>3 DEF FileOK, Streams!Usable, Streams!NoFd
<1>8. ASSUME NEW u \in Streams!Streams, Streams!Usable(files[u]) PROVE Bound(u)'
  <2>1. CASE u = s
    BY <1>2, <1>3, <2>1 DEF Bound
  <2>2. CASE u # s
    <3>1. Bound(u) /\ files'[u] = files[u]
      BY <1>1, <1>3, <1>8, <2>2
    <3>2. files[u].fd \in Descriptors /\ files[u].fd # d
      BY <1>2, <2>2, <3>1 DEF Bound
    <3>3. fds'[files[u].fd] = fds[files[u].fd]
      BY <1>3, <3>2
    <3> QED BY <3>1, <3>3 DEF Bound
  <2> QED BY <2>1, <2>2
<1>9. \A b \in allocated' : \E u \in Streams!Streams :
        Streams!Live(u) /\ "bufferOwned" \in files'[u].mode /\ files'[u].buffer = b
  BY <1>5 DEF LifeInv
<1>10. \A u, v \in Streams!Streams :
         /\ Streams!Live(u) /\ "bufferOwned" \in files'[u].mode
         /\ Streams!Live(v) /\ "bufferOwned" \in files'[v].mode
         /\ files'[u].buffer = files'[v].buffer
         => u = v
  BY <1>5 DEF LifeInv
<1> QED BY <1>3, <1>5, <1>6, <1>7, <1>8, <1>9, <1>10, KeepStep

(* A FILE as its flush or its output leaves it.                            *)
LEMMA CarriedStep ==
    ASSUME LifeInv, io = NoOne, NEW s \in Streams!Streams, Streams!Usable(files[s]),
           UNCHANGED <<streams, allocated, io, fileTask, encoding, silent>>,
           NEW f \in FileSet, f.fd = files[s].fd, f.mode = files[s].mode,
           f.buffer = files[s].buffer,
           NEW g, files' = [files EXCEPT ![s] = g], Carried(f, fds, g, fds'),
           "writable" \notin g.mode \/ "unbuffered" \in g.mode => g.pending = <<>>
    PROVE  LifeInv'
<1>1. PICK o \in OpenSet :
         /\ fds' = [fds EXCEPT ![f.fd] = o] /\ o.for = fds[f.fd].for
         /\ o.accepted = o.written \o g.pending
         /\ \A b \in Range(o.accepted) : b.encoding = g.orientation
  BY DEF Carried
<1>2. /\ g \in FileSet /\ g.fd = f.fd /\ g.mode = f.mode /\ g.buffer = f.buffer
  BY DEF Carried
<1>3. Bound(s)
  BY Quiet DEF LifeInv
<1>4. o.for = s
  BY <1>1, <1>3 DEF Bound
<1> QED BY <1>1, <1>2, <1>4, OutputStep

(* The first use settles the orientation of a stream that accepted nothing *)
LEMMA OrientedCarries ==
    ASSUME LifeInv, io = NoOne, NEW s \in Streams!Streams, Streams!Usable(files[s]),
           NEW wide, NEW f, f = Streams!Oriented(files[s], wide)
    PROVE  /\ f \in FileSet /\ f.fd = files[s].fd /\ f.mode = files[s].mode
           /\ f.buffer = files[s].buffer /\ f.pending = files[s].pending
           /\ f.orientation # "none" /\ f.fd \in Descriptors /\ fds \in [Descriptors -> OpenSet]
           /\ Carried(f, fds, f, fds)
<1>1. LifeTypes /\ Bound(s)
  BY Quiet DEF LifeInv
<1>2. files[s] \in FileSet
  BY <1>1, LifeFacts
<1>3. /\ f \in FileSet /\ f.fd = files[s].fd /\ f.mode = files[s].mode
      /\ f.buffer = files[s].buffer /\ f.pending = files[s].pending
      /\ f.orientation # "none"
      /\ files[s].orientation # "none" => f.orientation = files[s].orientation
  BY <1>1, <1>2 DEF Streams!Oriented, FileSet, LifeTypes
<1>4. PICK d \in Descriptors : d = f.fd
  BY <1>1, <1>3 DEF Bound
<1>5. PICK o \in OpenSet : o = fds[d]
  BY <1>1 DEF LifeTypes
<1>6. fds = [fds EXCEPT ![d] = o]
  BY <1>1, <1>5 DEF LifeTypes
<1>7. o.accepted = o.written \o f.pending /\ o.for = fds[d].for
  BY <1>1, <1>3, <1>4, <1>5 DEF Bound
<1>8. \A b \in Range(o.accepted) : b.encoding = f.orientation
  <2> SUFFICES ASSUME NEW b \in Range(o.accepted) PROVE b.encoding = f.orientation
    OBVIOUS
  <2>1. b.encoding = files[s].orientation
    BY <1>1, <1>3, <1>4, <1>5 DEF Bound
  <2>2. o.accepted \in Seq(ByteSet)
    BY <1>5 DEF OpenSet
  <2>3. b \in ByteSet
    BY <2>2, RangeOfSeq
  <2>4. files[s].orientation # "none"
    BY <2>1, <2>3 DEF ByteSet
  <2> QED BY <1>3, <2>1, <2>4
<1> QED BY <1>1, <1>3, <1>4, <1>5, <1>6, <1>7, <1>8 DEF Carried, LifeTypes

(* What changes is the program's locale, or only the count of failures.    *)
LEMMA LifeStays ==
    ASSUME LifeInv, UNCHANGED <<files, streams, fds, allocated, io, fileTask, silent>>,
           encoding' \in {"C", "UTF-8"}
    PROVE  LifeInv'
<1>1. LifeTypes'
  BY DEF LifeInv, LifeTypes, Streams!Streams, FileSet, OpenSet, ByteSet, Flags, Streams!Gone,
         Streams!NoFd
<1>2. ASSUME NEW t \in Threads
      PROVE  FileTask(t)' /\ (Holding(t)' <=> Holding(t)) /\ (Fetching(t)' <=> Fetching(t))
  <2>1. FileTask(t) /\ fileTask'[t] = fileTask[t]
    BY DEF LifeInv
  <2>2. Fetching(t) => ~Streams!Live(fileTask[t].cell)'
    BY <2>1 DEF FileTask, Streams!Live, Streams!Gone
  <2>3. Holding(t) => Streams!Usable(files'[fileTask[t].stream])
    BY <2>1 DEF FileTask, Streams!Usable
  <2> QED BY <2>1, <2>2, <2>3, FileTaskKept
<1>3. Distinct(streams)' /\ Range(streams)' = Range(streams)
  BY DEF LifeInv, Distinct, Range
<1>4. ASSUME NEW s \in Streams!Streams
      PROVE  /\ Streams!Live(s)' <=> Streams!Live(s)
             /\ Streams!Usable(files[s])' <=> Streams!Usable(files[s])
             /\ Streams!Changing(s)' <=> Streams!Changing(s)
             /\ FileOK(s)' <=> FileOK(s)
             /\ Bound(s)' <=> Bound(s)
  BY DEF Streams!Live, Streams!Gone, Streams!Usable, Streams!Changing, FileOK, Streams!NoFd,
         Bound
<1>5. ASSUME NEW d \in Descriptors PROVE Owned(d)'
  BY DEF LifeInv, Owned, Streams!Closed, Streams!Opened, Streams!Usable, Streams!Changing
<1>6. Streams!Streams' = Streams!Streams
  BY DEF Streams!Streams
<1> QED BY <1>1, <1>2, <1>3, <1>4, <1>5, <1>6 DEF LifeInv

(* A usable FILE under the lock, before its flush.                         *)
LEMMA BoundCarries ==
    ASSUME LifeInv, io = NoOne, NEW s \in Streams!Streams, Streams!Usable(files[s])
    PROVE  /\ files[s] \in FileSet /\ files[s].fd \in Descriptors
           /\ fds \in [Descriptors -> OpenSet]
           /\ Carried(files[s], fds, files[s], fds)
           /\ FileOK(s) /\ Bound(s) /\ Streams!Live(s)
<1>1. LifeTypes /\ Bound(s)
  BY Quiet DEF LifeInv
<1>2. files[s] \in FileSet /\ Streams!Live(s) /\ fds \in [Descriptors -> OpenSet]
  BY <1>1, LifeFacts DEF LifeTypes
<1>3. FileOK(s)
  BY <1>2 DEF LifeInv
<1>4. PICK d \in Descriptors : d = files[s].fd
  BY <1>1 DEF Bound
<1>5. PICK o \in OpenSet : o = fds[d]
  BY <1>1 DEF LifeTypes
<1>6. fds = [fds EXCEPT ![d] = o]
  BY <1>1, <1>5 DEF LifeTypes
<1>7. Carried(files[s], fds, files[s], fds)
  BY <1>1, <1>2, <1>4, <1>5, <1>6 DEF Carried, Bound
<1> QED BY <1>1, <1>2, <1>3, <1>4, <1>7

(* What a flush of k bytes leaves of a FILE: of an unbuffered one nothing, *)
(* and of the rest all that had to wait.                                   *)
LEMMA FlushFile ==
    ASSUME NEW f \in FileSet, NEW k \in Streams!Lengths(f),
           "writable" \notin f.mode => f.pending = <<>>
    PROVE  /\ k \in 0 .. Len(f.pending)
           /\ ~Streams!Cut(f, k) => Streams!Rest(f, k).pending = <<>>
           /\ f.pending = <<>> => Streams!Rest(f, k).pending = <<>> /\ k = 0
           /\ Streams!Rest(f, k) \in FileSet
           /\ Streams!Rest(f, k).fd = f.fd /\ Streams!Rest(f, k).mode = f.mode
           /\ Streams!Rest(f, k).buffer = f.buffer
           /\ Streams!Rest(f, k).orientation = f.orientation
<1>1. PICK p \in Seq(ByteSet), n \in Nat : p = f.pending /\ n = Len(p)
  BY DEF FileSet
<1>2. k \in 0 .. n
  BY <1>1 DEF Streams!Lengths
<1>3. PICK q : q = SubSeq(p, k + 1, n)
  OBVIOUS
<1>4. q \in Seq(ByteSet) /\ (n <= k => q = <<>>)
  <2>1. q \in Seq(ByteSet)
    BY <1>1, <1>2, <1>3, Halves DEF One!Rest
  <2>2. ASSUME n <= k PROVE q = <<>>
    <3>1. n < k + 1 /\ k + 1 \in Int /\ n \in Int
      BY <1>1, <1>2, <2>2
    <3> QED BY <1>3, <3>1, SubSeqEmpty
  <2> QED BY <2>1, <2>2
<1>5. PICK r : r = [f EXCEPT !.pending = q]
  OBVIOUS
<1>6. /\ r = Streams!Rest(f, k) /\ r.pending = q /\ r \in FileSet
      /\ r.fd = f.fd /\ r.mode = f.mode /\ r.buffer = f.buffer /\ r.orientation = f.orientation
  BY <1>1, <1>3, <1>4, <1>5 DEF Streams!Rest, FileSet
<1>7. ~Streams!Cut(f, k) => n <= k
  <2>1. CASE "writable" \in f.mode
    BY <1>1, <1>2, <2>1 DEF Streams!Cut
  <2>2. CASE "writable" \notin f.mode
    BY <1>1, <1>2, <2>2
  <2> QED BY <2>1, <2>2
<1>8. f.pending = <<>> => n <= k /\ k = 0
  BY <1>1, <1>2
<1> QED BY <1>1, <1>2, <1>4, <1>6, <1>7, <1>8

LEMMA FwideStep ==
    ASSUME LifeInv, NEW t \in Threads, NEW s \in Streams!Streams, NEW wide,
           Streams!Fwide(t, s, wide)
    PROVE  LifeInv'
<1>1. /\ io = NoOne /\ Streams!Usable(files[s])
      /\ UNCHANGED <<streams, allocated, io, fileTask, encoding, silent>> /\ fds' = fds
  BY DEF Streams!Fwide
<1>2. PICK f : f = Streams!Oriented(files[s], wide)
  OBVIOUS
<1>3. files' = [files EXCEPT ![s] = f]
  BY <1>2, BoundCarries DEF Streams!Fwide
<1>4. /\ f \in FileSet /\ f.fd = files[s].fd /\ f.mode = files[s].mode
      /\ f.buffer = files[s].buffer /\ f.pending = files[s].pending
      /\ Carried(f, fds, f, fds)
  BY <1>1, <1>2, OrientedCarries
<1>5. "writable" \notin f.mode \/ "unbuffered" \in f.mode => f.pending = <<>>
  BY <1>1, <1>4, BoundCarries DEF FileOK
<1> QED BY <1>1, <1>3, <1>4, <1>5, CarriedStep

LEMMA PutStep ==
    ASSUME LifeInv, NEW t \in Threads, NEW s \in Streams!Streams, NEW wide,
           NEW char \in {"a", "e"}, Streams!Put(t, s, wide, char)
    PROVE  LifeInv'
<1>1. /\ io = NoOne /\ Streams!Usable(files[s])
      /\ UNCHANGED <<streams, allocated, io, fileTask, encoding, silent>>
  BY DEF Streams!Put
<1>2. PICK f : f = Streams!Oriented(files[s], wide)
  OBVIOUS
<1>3. /\ f \in FileSet /\ f.fd = files[s].fd /\ f.mode = files[s].mode
      /\ f.buffer = files[s].buffer /\ f.pending = files[s].pending
      /\ f.orientation # "none" /\ f.fd \in Descriptors /\ fds \in [Descriptors -> OpenSet]
      /\ Carried(f, fds, f, fds)
  BY <1>1, <1>2, OrientedCarries
<1>4. PICK bytes : bytes = Streams!Bytes(char, f)
  OBVIOUS
<1>5. "writable" \notin f.mode \/ "unbuffered" \in f.mode => f.pending = <<>>
  BY <1>1, <1>3, BoundCarries DEF FileOK
<1>6. CASE ~Streams!Fits(f, wide) \/ "writable" \notin f.mode \/ bytes = <<>>
  <2>1. files' = [files EXCEPT ![s] = f] /\ fds' = fds
    BY <1>2, <1>4, <1>6 DEF Streams!Put
  <2> QED BY <1>1, <1>3, <1>5, <2>1, CarriedStep
<1>7. CASE ~(~Streams!Fits(f, wide) \/ "writable" \notin f.mode \/ bytes = <<>>)
  <2>1. PICK bad, k, done :
          /\ bad \in 0 .. 2 /\ k \in 0 .. BufferSize - 1
          /\ done = IF "unbuffered" \in f.mode THEN Streams!Raw(f, fds, bytes, bad, k)
                    ELSE Streams!Accept(f, fds, bytes, bad, k)
          /\ "unbuffered" \in f.mode => k < Len(bytes)
          /\ "unbuffered" \notin f.mode => k <= Streams!Space(f) - 1
          /\ files' = [files EXCEPT ![s] = done.f]
          /\ fds' = done.fds
    BY <1>2, <1>4, <1>7 DEF Streams!Put
  <2>2. /\ Len(bytes) \in {1, 2} /\ bytes \in Seq(ByteSet)
        /\ \A i \in 1 .. Len(bytes) :
             bytes[i] \in ByteSet /\ bytes[i].encoding = f.orientation
    BY <1>3, <1>4, <1>7, BytesOfOne
  <2>3. k \in Nat
    BY <2>1, LifeConstants
  <2>4. CASE "unbuffered" \in f.mode
    <3>1. done = Streams!Raw(f, fds, bytes, bad, k)
      BY <2>1, <2>4
    <3>2. k \in 0 .. Len(bytes)
      BY <2>1, <2>2, <2>3, <2>4
    <3>3. done.f = f /\ Carried(f, fds, done.f, done.fds)
      BY <1>3, <1>5, <2>2, <2>4, <3>1, <3>2, RawCarries
    <3> QED BY <1>1, <1>3, <1>5, <2>1, <3>3, CarriedStep
  <2>5. CASE "unbuffered" \notin f.mode
    <3>1. done = Streams!Accept(f, fds, bytes, bad, k)
      BY <2>1, <2>5
    <3>2. k < Streams!Space(f)
      BY <2>1, <2>3, <2>5, LifeConstants DEF Streams!Space
    <3>3. Carried(f, fds, done.f, done.fds)
      BY <1>3, <2>2, <2>3, <3>1, <3>2, AcceptAll
    <3>4. done.f.mode = f.mode
      BY <3>3 DEF Carried
    <3> QED BY <1>1, <1>3, <1>7, <2>1, <2>5, <3>3, <3>4, CarriedStep
  <2> QED BY <2>4, <2>5
<1> QED BY <1>6, <1>7

LEMMA FflushStep ==
    ASSUME LifeInv, NEW t \in Threads, NEW s \in Streams!Streams, Streams!Fflush(t, s)
    PROVE  LifeInv'
<1>1. /\ io = NoOne /\ Streams!Live(s)
      /\ UNCHANGED <<streams, allocated, io, fileTask, encoding, silent>>
  BY DEF Streams!Fflush
<1>2. PICK k \in Streams!Lengths(files[s]) :
         /\ fds' = Streams!Published(fds, files[s], k)
         /\ files' = [files EXCEPT ![s] = Streams!Rest(files[s], k)]
  BY DEF Streams!Fflush
<1>3. LifeTypes /\ FileOK(s) /\ files[s] \in FileSet
  BY <1>1, LifeFacts DEF LifeInv
<1>4. PICK f \in FileSet : f = files[s]
  BY <1>3
<1>5. PICK g : g = Streams!Rest(f, k)
  OBVIOUS
<1>6. /\ k \in 0 .. Len(f.pending)
      /\ f.pending = <<>> => g.pending = <<>> /\ k = 0
      /\ g \in FileSet /\ g.fd = f.fd /\ g.mode = f.mode /\ g.buffer = f.buffer
      /\ g.orientation = f.orientation
  BY <1>2, <1>3, <1>4, <1>5, FlushFile DEF FileOK
<1>7. CASE Streams!Usable(f)
  <2>1. /\ f.fd \in Descriptors /\ fds \in [Descriptors -> OpenSet] /\ Carried(f, fds, f, fds)
    BY <1>1, <1>4, <1>7, BoundCarries
  <2>2. Carried(f, fds, g, Streams!Published(fds, f, k))
    BY <1>5, <1>6, <2>1, FlushCarries
  <2>3. Carried(f, fds, g, fds')
    BY <1>2, <1>4, <2>2
  <2>4. "writable" \notin g.mode \/ "unbuffered" \in g.mode => g.pending = <<>>
    BY <1>3, <1>4, <1>6 DEF FileOK
  <2>5. files' = [files EXCEPT ![s] = g]
    BY <1>2, <1>4, <1>5
  <2> QED BY <1>1, <1>4, <1>7, <2>3, <2>4, <2>5, CarriedStep
<1>8. CASE ~Streams!Usable(f)
  <2>1. f.pending = <<>> /\ k = 0 /\ g.pending = <<>>
    BY <1>3, <1>4, <1>6, <1>8 DEF FileOK
  <2>2. g = f
    BY <1>6, <2>1 DEF FileSet
  <2>3. files' = files
    BY <1>2, <1>3, <1>4, <1>5, <2>2 DEF LifeTypes
  <2>4. fds' = fds
    BY <1>2, <2>1 DEF Streams!Published
  <2> QED BY <1>1, <1>3, <2>3, <2>4, LifeStays DEF LifeTypes
<1> QED BY <1>7, <1>8

LEMMA FlushAllStep ==
    ASSUME LifeInv, NEW t \in Threads, Streams!FlushAll(t)
    PROVE  LifeInv'
<1>1. /\ io = NoOne
      /\ UNCHANGED <<streams, allocated, io, fileTask, encoding, silent>>
  BY DEF Streams!FlushAll
<1>2. /\ LifeTypes
      /\ \A u \in Streams!Streams : Streams!Live(u) => FileOK(u) /\ files[u] \in FileSet
      /\ \A u \in Streams!Streams : Streams!Usable(files[u]) => Bound(u) /\ u \in Range(streams)
      /\ \A u \in Streams!Streams : u \in Range(streams) => Streams!Live(u)
      /\ Range(streams) \subseteq Streams!Streams
  <2>1. LifeTypes /\ streams \in Seq(Streams!Streams)
    BY DEF LifeInv, LifeTypes
  <2>2. Range(streams) \subseteq Streams!Streams
    BY <2>1, RangeOfSeq
  <2> QED BY <1>1, <2>1, <2>2, Quiet, LifeFacts DEF LifeInv
<1>a. PICK bad \in Range(streams) \cup {NoOne}, k \in 0 .. BufferSize - 1 :
         LET Written(s) == IF s = bad THEN k
                           ELSE IF "writable" \in files[s].mode THEN Len(files[s].pending) ELSE 0
             OnFd(d) == {s \in Range(streams) : files[s].fd = d}
         IN  /\ bad # NoOne => Streams!Cut(files[bad], k)
             /\ fds' = [d \in Descriptors |->
                  IF OnFd(d) = {} THEN fds[d]
                  ELSE LET s == CHOOSE s \in OnFd(d) : TRUE
                       IN  Streams!Published(fds, files[s], Written(s))[d]]
             /\ files' = [s \in Streams!Streams |-> IF s \in Range(streams)
                                            THEN Streams!Rest(files[s], Written(s)) ELSE files[s]]
  BY DEF Streams!FlushAll, Streams!Range, Range
<1>b. PICK W : W = [s \in Streams!Streams |->
                 IF s = bad THEN k
                 ELSE IF "writable" \in files[s].mode THEN Len(files[s].pending) ELSE 0]
  OBVIOUS
<1>c. PICK Writers : Writers = [d \in Descriptors |-> {s \in Range(streams) : files[s].fd = d}]
  OBVIOUS
<1>3. /\ bad # NoOne => Streams!Cut(files[bad], k)
      /\ W = [s \in Streams!Streams |->
                 IF s = bad THEN k
                 ELSE IF "writable" \in files[s].mode THEN Len(files[s].pending) ELSE 0]
      /\ Writers = [d \in Descriptors |-> {s \in Range(streams) : files[s].fd = d}]
      /\ fds' = [d \in Descriptors |->
             IF Writers[d] = {} THEN fds[d]
             ELSE Streams!Published(fds, files[CHOOSE s \in Writers[d] : TRUE],
                                    W[CHOOSE s \in Writers[d] : TRUE])[d]]
      /\ files' = [s \in Streams!Streams |->
                     IF s \in Range(streams) THEN Streams!Rest(files[s], W[s])
                     ELSE files[s]]
  <2>4. \A d \in Descriptors :
          Writers[d] # {} => (CHOOSE s \in Writers[d] : TRUE) \in Streams!Streams
    BY <1>2, <1>c
  <2>5. fds' = [d \in Descriptors |->
                IF Writers[d] = {} THEN fds[d]
                ELSE Streams!Published(fds, files[CHOOSE s \in Writers[d] : TRUE],
                                       W[CHOOSE s \in Writers[d] : TRUE])[d]]
    BY <1>a, <1>b, <1>c, <2>4
  <2>6. files' = [s \in Streams!Streams |->
                        IF s \in Range(streams) THEN Streams!Rest(files[s], W[s])
                        ELSE files[s]]
    BY <1>a, <1>b
  <2>7. bad # NoOne => Streams!Cut(files[bad], k)
    BY <1>a
  <2> QED BY <1>b, <1>c, <2>5, <2>6, <2>7
<1>4. ASSUME NEW s \in Streams!Streams, s \in Range(streams)
      PROVE  /\ W[s] \in Streams!Lengths(files[s])
             /\ files'[s] = Streams!Rest(files[s], W[s])
             /\ files[s] \in FileSet /\ FileOK(s)
  <2>1. files[s] \in FileSet /\ FileOK(s)
    BY <1>2, <1>4
  <2>2. PICK n \in Nat : n = Len(files[s].pending)
    BY <2>1 DEF FileSet
  <2>3. s # NoOne
    BY LifeConstants
  <2>4. W[s] \in Streams!Lengths(files[s])
    <3>1. CASE s = bad
      <4>1. "writable" \in files[s].mode /\ k < n
        BY <1>3, <2>2, <2>3, <3>1 DEF Streams!Cut
      <4>2. k \in 0 .. n
        BY <2>2, <4>1, LifeConstants
      <4> QED BY <1>3, <2>2, <3>1, <4>1, <4>2 DEF Streams!Lengths
    <3>2. CASE s # bad
      BY <1>3, <2>2, <3>2 DEF Streams!Lengths
    <3> QED BY <3>1, <3>2
  <2> QED BY <1>3, <1>4, <2>1, <2>4
<1>5. ASSUME NEW s \in Streams!Streams, s \in Range(streams)
      PROVE  /\ files'[s] \in FileSet
             /\ files'[s].fd = files[s].fd /\ files'[s].mode = files[s].mode
             /\ files'[s].buffer = files[s].buffer
             /\ files[s].pending = <<>> => files'[s].pending = <<>>
             /\ W[s] \in 0 .. Len(files[s].pending)
  <2>1. PICK f, w :
        f \in FileSet /\ f = files[s] /\ w = W[s] /\ w \in Streams!Lengths(f)
    BY <1>4, <1>5
  <2>2. "writable" \notin f.mode => f.pending = <<>>
    BY <1>4, <1>5, <2>1 DEF FileOK
  <2> QED BY <1>4, <1>5, <2>1, <2>2, FlushFile
<1>6. \A s \in Streams!Streams : s \notin Range(streams) => files'[s] = files[s]
  BY <1>3
<1>7. \A u \in Streams!Streams :
        /\ Streams!Live(u)' <=> Streams!Live(u)
        /\ Streams!Usable(files'[u]) <=> Streams!Usable(files[u])
        /\ Streams!Live(u) => files'[u].fd = files[u].fd
        /\ Streams!Live(u) => files'[u].mode = files[u].mode /\ files'[u].buffer = files[u].buffer
        /\ Streams!Live(u) /\ files[u].pending = <<>> => files'[u].pending = <<>>
  <2> SUFFICES ASSUME NEW u \in Streams!Streams
               PROVE  /\ Streams!Live(u)' <=> Streams!Live(u)
                      /\ Streams!Usable(files'[u]) <=> Streams!Usable(files[u])
                      /\ Streams!Live(u) => files'[u].fd = files[u].fd
                      /\ Streams!Live(u) => /\ files'[u].mode = files[u].mode
                                            /\ files'[u].buffer = files[u].buffer
                      /\ Streams!Live(u) /\ files[u].pending = <<>> => files'[u].pending = <<>>
    OBVIOUS
  <2>1. CASE u \in Range(streams)
    <3>1. Streams!Live(u) /\ files'[u] # Streams!Gone
      BY <1>2, <1>5, <2>1, LifeFacts
    <3> QED BY <1>5, <2>1, <3>1 DEF Streams!Live, Streams!Usable, Streams!Gone
  <2>2. CASE u \notin Range(streams)
    BY <1>6, <2>2 DEF Streams!Live, Streams!Gone
  <2> QED BY <2>1, <2>2
<1>8. files' \in [Streams!Streams -> FileSet \cup {Streams!Gone}]
  <2>1. files' = [s \in Streams!Streams |-> files'[s]]
    BY <1>3
  <2>2. \A s \in Streams!Streams : files'[s] \in FileSet \cup {Streams!Gone}
    BY <1>2, <1>5, <1>6 DEF LifeTypes
  <2> QED BY <2>1, <2>2
<1>9. ASSUME NEW s \in Streams!Streams, Streams!Usable(files[s])
      PROVE  \E o \in OpenSet :
               /\ files[s].fd \in Descriptors /\ fds'[files[s].fd] = o /\ o.for = s
               /\ o.accepted = o.written \o files'[s].pending
               /\ \A b \in Range(o.accepted) : b.encoding = files'[s].orientation
  <2>1. /\ Bound(s) /\ s \in Range(streams)
    BY <1>2, <1>9
  <2>2. PICK d \in Descriptors : d = files[s].fd
    BY <2>1 DEF Bound
  <2>3. \A u \in Writers[d] : u = s
    <3> SUFFICES ASSUME NEW u \in Streams!Streams, u \in Range(streams), files[u].fd = d
                 PROVE  u = s
      BY <1>2, <1>3
    <3>1. FileOK(u)
      BY <1>4
    <3>2. Streams!Usable(files[u])
      BY <3>1, LifeConstants DEF FileOK, Streams!NoFd
    <3> QED BY <1>2, <2>1, <2>2, <3>2 DEF Bound
  <2>4. Writers[d] # {} /\ (CHOOSE u \in Writers[d] : TRUE) = s
    <3>1. s \in Writers[d]
      BY <1>3, <2>1, <2>2
    <3> QED BY <2>3, <3>1
  <2>5. fds'[d] = Streams!Published(fds, files[s], W[s])[d]
    BY <1>3, <2>4
  <2>6. /\ files[s] \in FileSet /\ fds \in [Descriptors -> OpenSet] /\ files[s].fd \in Descriptors
        /\ Carried(files[s], fds, files[s], fds)
    BY <1>1, <1>9, BoundCarries
  <2>7. Carried(files[s], fds, Streams!Rest(files[s], W[s]),
                Streams!Published(fds, files[s], W[s]))
    BY <1>5, <2>1, <2>6, FlushCarries
  <2>8. PICK o \in OpenSet :
           /\ Streams!Published(fds, files[s], W[s]) = [fds EXCEPT ![d] = o]
           /\ o.for = fds[d].for
           /\ o.accepted = o.written \o Streams!Rest(files[s], W[s]).pending
           /\ \A b \in Range(o.accepted) :
                b.encoding = Streams!Rest(files[s], W[s]).orientation
    BY <2>2, <2>7 DEF Carried
  <2>9. fds'[d] = o
    BY <2>5, <2>6, <2>8
  <2>10. files'[s] = Streams!Rest(files[s], W[s])
    BY <1>4, <2>1
  <2>11. o.for = s
    BY <2>1, <2>2, <2>8 DEF Bound
  <2>12. /\ files[s].fd \in Descriptors /\ fds'[files[s].fd] = o
         /\ o.accepted = o.written \o files'[s].pending
         /\ \A b \in Range(o.accepted) : b.encoding = files'[s].orientation
    BY <2>2, <2>8, <2>9, <2>10, Zenon
  <2> QED BY <2>11, <2>12, Zenon
<1>10. ASSUME NEW d \in Descriptors,
              \A s \in Streams!Streams : Streams!Usable(files[s]) => files[s].fd # d
       PROVE  fds'[d] = fds[d]
  <2>1. \A s \in Range(streams) : files[s].fd # d
    <3> SUFFICES ASSUME NEW s \in Streams!Streams, s \in Range(streams) PROVE files[s].fd # d
      BY <1>2
    <3>1. FileOK(s)
      BY <1>4
    <3> QED BY <1>10, <3>1, LifeConstants DEF FileOK, Streams!NoFd
  <2>2. Writers[d] = {}
    BY <1>3, <2>1
  <2> QED BY <1>3, <2>2
<1>11. ASSUME NEW d \in Descriptors
       PROVE  /\ fds'[d].for = fds[d].for /\ fds'[d] \in OpenSet
              /\ \/ fds'[d] = fds[d]
                 \/ \E s \in Streams!Streams : Streams!Usable(files[s]) /\ files[s].fd = d
  <2>1. CASE \E s \in Streams!Streams : Streams!Usable(files[s]) /\ files[s].fd = d
    <3>1. PICK s \in Streams!Streams : Streams!Usable(files[s]) /\ files[s].fd = d
      BY <2>1
    <3>2. fds'[d].for = s /\ fds'[d] \in OpenSet
      BY <1>9, <3>1
    <3>3. fds[d].for = s
      BY <1>2, <3>1 DEF Bound
    <3> QED BY <2>1, <3>2, <3>3
  <2>2. CASE \A s \in Streams!Streams : Streams!Usable(files[s]) => files[s].fd # d
    <3>1. fds'[d] = fds[d]
      BY <1>10, <2>2
    <3> QED BY <1>2, <3>1 DEF LifeTypes
  <2> QED BY <2>1, <2>2
<1>12. fds' \in [Descriptors -> OpenSet]
  <2>1. fds' = [d \in Descriptors |-> fds'[d]]
    BY <1>3
  <2> QED BY <1>11, <2>1
<1>13. ASSUME NEW s \in Streams!Streams, Streams!Live(s) PROVE FileOK(s)'
  <2>1. FileOK(s)
    BY <1>2, <1>13
  <2>2. /\ files'[s].fd = files[s].fd /\ files'[s].mode = files[s].mode
        /\ files'[s].buffer = files[s].buffer
        /\ Streams!Usable(files'[s]) <=> Streams!Usable(files[s])
        /\ files[s].pending = <<>> => files'[s].pending = <<>>
    BY <1>7, <1>13
  <2> QED BY <1>1, <2>1, <2>2 DEF FileOK, Streams!Usable, Streams!NoFd
<1>14. ASSUME NEW s \in Streams!Streams, Streams!Usable(files[s]) PROVE Bound(s)'
  <2>1. Streams!Live(s) /\ files'[s].fd = files[s].fd
    BY <1>2, <1>7, <1>14, LifeFacts
  <2>2. PICK o \in OpenSet :
               /\ files[s].fd \in Descriptors /\ fds'[files[s].fd] = o /\ o.for = s
               /\ o.accepted = o.written \o files'[s].pending
               /\ \A b \in Range(o.accepted) : b.encoding = files'[s].orientation
    BY <1>9, <1>14
  <2> QED BY <2>1, <2>2, Zenon DEF Bound
<1>15. \A b \in allocated' : \E u \in Streams!Streams :
        Streams!Live(u) /\ "bufferOwned" \in files'[u].mode /\ files'[u].buffer = b
  BY <1>1, <1>7 DEF LifeInv
<1>16. \A u, v \in Streams!Streams :
         /\ Streams!Live(u) /\ "bufferOwned" \in files'[u].mode
         /\ Streams!Live(v) /\ "bufferOwned" \in files'[v].mode
         /\ files'[u].buffer = files'[v].buffer
         => u = v
  BY <1>7 DEF LifeInv
<1>17. encoding' \in {"C", "UTF-8"} /\ allocated' \subseteq Buffers
  BY <1>1, <1>2 DEF LifeTypes
<1> QED BY <1>1, <1>7, <1>8, <1>11, <1>12, <1>13, <1>14, <1>15, <1>16, <1>17, KeepStep

LEMMA SetvbufStep ==
    ASSUME LifeInv, NEW t \in Threads, NEW s \in Streams!Streams, NEW kind \in BufferKinds,
           Streams!Setvbuf(t, s, kind)
    PROVE  LifeInv'
<1>1. /\ io = NoOne /\ Streams!Usable(files[s])
      /\ UNCHANGED <<streams, io, fileTask, encoding, silent>>
  BY DEF Streams!Setvbuf
<1>2. PICK f : f = files[s]
  OBVIOUS
<1>3. /\ f \in FileSet /\ f.fd \in Descriptors /\ fds \in [Descriptors -> OpenSet]
      /\ Carried(f, fds, f, fds) /\ FileOK(s) /\ Bound(s) /\ Streams!Live(s)
  BY <1>1, <1>2, BoundCarries
<1>4. PICK b \in (IF kind = "owned" THEN Buffers \ allocated ELSE {kind}),
           k \in Streams!Lengths(f), lost \in BOOLEAN :
        /\ fds' = Streams!Published(fds, f, k)
        /\ IF Streams!Cut(f, k) \/ lost
           THEN files' = [files EXCEPT ![s] = Streams!Rest(f, k)] /\ UNCHANGED allocated
           ELSE /\ allocated' = (allocated \ Streams!Released(f))
                                \cup (IF kind = "owned" THEN {b} ELSE {})
                /\ files' = [files EXCEPT ![s] =
                     [Streams!Rest(f, k) EXCEPT
                        !.mode = (@ \ {"bufferOwned", "unbuffered"})
                                 \cup (CASE kind = "owned" -> {"bufferOwned"}
                                         [] kind = "inline" -> {"unbuffered"}
                                         [] OTHER -> {}),
                        !.buffer = b]]
  BY <1>2 DEF Streams!Setvbuf
<1>5. PICK h : h = Streams!Rest(f, k)
  OBVIOUS
<1>6. /\ k \in 0 .. Len(f.pending)
      /\ ~Streams!Cut(f, k) => h.pending = <<>>
      /\ f.pending = <<>> => h.pending = <<>>
      /\ h \in FileSet /\ h.fd = f.fd /\ h.mode = f.mode /\ h.buffer = f.buffer
      /\ h.orientation = f.orientation
  BY <1>2, <1>3, <1>4, <1>5, FlushFile DEF FileOK
<1>7. Carried(f, fds, h, fds')
  BY <1>3, <1>4, <1>5, <1>6, FlushCarries
<1>8. CASE Streams!Cut(f, k) \/ lost
  <2>1. files' = [files EXCEPT ![s] = h] /\ allocated' = allocated
    BY <1>4, <1>5, <1>8
  <2>2. "writable" \notin h.mode \/ "unbuffered" \in h.mode => h.pending = <<>>
    BY <1>2, <1>3, <1>6 DEF FileOK
  <2> QED BY <1>1, <1>2, <1>3, <1>7, <2>1, <2>2, CarriedStep
<1>9. CASE ~(Streams!Cut(f, k) \/ lost)
  <2>1. PICK X : X = IF kind = "owned" THEN {"bufferOwned"}
                     ELSE IF kind = "inline" THEN {"unbuffered"} ELSE {}
    OBVIOUS
  <2>2. PICK g : g = [h EXCEPT !.mode = (@ \ {"bufferOwned", "unbuffered"}) \cup X, !.buffer = b]
    OBVIOUS
  <2>3. /\ kind \in {"inline", "owned", "caller"}
        /\ kind = "owned" => b \in Buffers /\ b \notin allocated
        /\ kind # "owned" => b = kind
    BY <1>4, LifeConstants
  <2>4. /\ files' = [files EXCEPT ![s] = g]
        /\ allocated' = (allocated \ Streams!Released(f)) \cup (IF kind = "owned" THEN {b} ELSE {})
    BY <1>4, <1>5, <1>9, <2>1, <2>2
  <2>5. /\ g \in FileSet /\ g.fd = f.fd /\ g.orientation = f.orientation
        /\ g.pending = <<>> /\ g.buffer = b
        /\ g.mode = (f.mode \ {"bufferOwned", "unbuffered"}) \cup X
    <3>1. /\ g.fd = h.fd /\ g.orientation = h.orientation /\ g.pending = h.pending
          /\ g.buffer = b /\ g.mode = (h.mode \ {"bufferOwned", "unbuffered"}) \cup X
      BY <1>6, <2>2 DEF FileSet
    <3>2. X \subseteq Flags /\ h.mode \subseteq Flags
      BY <1>6, <2>1 DEF Flags, FileSet
    <3>3. g.mode \in SUBSET Flags
      BY <3>1, <3>2
    <3>4. b \in Buffers \cup {"inline", "caller"}
      BY <2>3
    <3>5. g \in FileSet
      BY <1>6, <2>2, <3>1, <3>3, <3>4 DEF FileSet
    <3> QED BY <1>6, <1>9, <3>1, <3>5
  <2>6. /\ Streams!Usable(g)
        /\ "owned" \in g.mode <=> "owned" \in f.mode
        /\ "bufferOwned" \in g.mode <=> kind = "owned"
    BY <1>1, <1>2, <2>1, <2>3, <2>5 DEF Streams!Usable
  <2>7. LifeTypes /\ \A u \in Streams!Streams : Streams!Live(u) => FileOK(u)
    BY DEF LifeInv
  <2>8. /\ files' \in [Streams!Streams -> FileSet \cup {Streams!Gone}]
        /\ files'[s] = g /\ \A u \in Streams!Streams \ {s} : files'[u] = files[u]
    BY <2>4, <2>5, <2>7 DEF LifeTypes
  <2>9. PICK o \in OpenSet :
          /\ fds' = [fds EXCEPT ![f.fd] = o] /\ o.for = fds[f.fd].for
          /\ o.accepted = o.written \o h.pending
          /\ \A c \in Range(o.accepted) : c.encoding = h.orientation
    BY <1>7 DEF Carried
  <2>10. PICK d \in Descriptors : d = f.fd /\ fds[d].for = s
    BY <1>2, <1>3 DEF Bound
  <2>11. /\ fds' \in [Descriptors -> OpenSet] /\ fds'[d] = o /\ o.for = s
         /\ \A e \in Descriptors \ {d} : fds'[e] = fds[e]
    BY <1>3, <2>9, <2>10
  <2>12. Streams!Live(s)' /\ g # Streams!Gone
    BY <2>5, <2>7, <2>8, LifeFacts DEF Streams!Live, Streams!Gone
  <2>13. \A u \in Streams!Streams :
           /\ Streams!Live(u)' <=> Streams!Live(u)
           /\ Streams!Usable(files'[u]) <=> Streams!Usable(files[u])
           /\ Streams!Live(u) => files'[u].fd = files[u].fd
    BY <1>1, <1>2, <1>3, <2>5, <2>6, <2>8, <2>12 DEF Streams!Live, Streams!Gone
  <2>14. \A e \in Descriptors :
           /\ fds'[e].for = fds[e].for
           /\ \/ fds'[e] = fds[e]
              \/ \E u \in Streams!Streams : Streams!Usable(files[u]) /\ files[u].fd = e
    BY <1>1, <1>2, <2>10, <2>11
  <2>15. \A u \in Streams!Streams \ {s} :
           Streams!Live(u) /\ "bufferOwned" \in files[u].mode =>
             /\ files[u].buffer \in allocated \ Streams!Released(f)
             /\ files[u].buffer # b
    <3> SUFFICES ASSUME NEW u \in Streams!Streams \ {s}, Streams!Live(u),
                        "bufferOwned" \in files[u].mode
                 PROVE  /\ files[u].buffer \in allocated \ Streams!Released(f)
                        /\ files[u].buffer # b
      OBVIOUS
    <3>1. files[u].buffer \in allocated
      BY <2>7 DEF FileOK
    <3>2. "bufferOwned" \in f.mode => f.buffer # files[u].buffer
      BY <1>2, <1>3 DEF LifeInv
    <3>3. files[u].buffer # b
      BY <2>3, <2>7, <3>1, LifeConstants DEF LifeTypes
    <3> QED BY <3>1, <3>2, <3>3 DEF Streams!Released
  <2>16. allocated' \subseteq Buffers
    BY <2>3, <2>4, <2>7 DEF LifeTypes
  <2>17. ASSUME NEW u \in Streams!Streams, Streams!Live(u) PROVE FileOK(u)'
    <3>1. CASE u = s
      <4>1. "bufferOwned" \in g.mode => g.buffer \in allocated'
        BY <2>4, <2>5, <2>6
      <4>2. "bufferOwned" \notin g.mode => g.buffer \in {"inline", "caller"}
        BY <2>3, <2>5, <2>6
      <4>3. s # Std <=> "owned" \in g.mode
        BY <1>2, <1>3, <2>6 DEF FileOK
      <4> QED BY <2>5, <2>6, <2>8, <3>1, <4>1, <4>2, <4>3 DEF FileOK, Streams!Usable
    <3>2. CASE u # s
      <4>1. FileOK(u) /\ files'[u] = files[u]
        BY <2>7, <2>8, <2>17, <3>2
      <4>2. "bufferOwned" \in files[u].mode => files[u].buffer \in allocated'
        BY <2>4, <2>15, <2>17, <3>2
      <4> QED BY <4>1, <4>2 DEF FileOK, Streams!Usable, Streams!NoFd
    <3> QED BY <3>1, <3>2
  <2>18. ASSUME NEW u \in Streams!Streams, Streams!Usable(files[u]) PROVE Bound(u)'
    <3>1. CASE u = s
      <4>1. o.accepted = o.written \o g.pending
        BY <1>6, <1>9, <2>5, <2>9
      <4>2. \A c \in Range(o.accepted) : c.encoding = g.orientation
        BY <1>6, <2>5, <2>9
      <4> QED BY <2>5, <2>8, <2>10, <2>11, <3>1, <4>1, <4>2 DEF Bound
    <3>2. CASE u # s
      <4>1. Bound(u) /\ files'[u] = files[u]
        BY <1>1, <2>8, <2>18, <3>2, Quiet DEF LifeInv
      <4>2. files[u].fd \in Descriptors /\ files[u].fd # d
        BY <2>10, <3>2, <4>1 DEF Bound
      <4>3. fds'[files[u].fd] = fds[files[u].fd]
        BY <2>11, <4>2
      <4> QED BY <4>1, <4>3 DEF Bound
    <3> QED BY <3>1, <3>2
  <2>19. ASSUME NEW c \in allocated'
         PROVE  \E u \in Streams!Streams :
                  Streams!Live(u) /\ "bufferOwned" \in files'[u].mode /\ files'[u].buffer = c
    <3>1. CASE kind = "owned" /\ c = b
      BY <1>3, <2>5, <2>6, <2>8, <3>1
    <3>2. CASE ~(kind = "owned" /\ c = b)
      <4>1. c \in allocated \ Streams!Released(f)
        BY <2>4, <2>19, <3>2
      <4>2. PICK u \in Streams!Streams :
              Streams!Live(u) /\ "bufferOwned" \in files[u].mode /\ files[u].buffer = c
        BY <4>1 DEF LifeInv
      <4>3. u # s
        BY <1>2, <4>1, <4>2 DEF Streams!Released
      <4> QED BY <2>8, <4>2, <4>3
    <3> QED BY <3>1, <3>2
  <2>20. \A u, v \in Streams!Streams :
           /\ Streams!Live(u) /\ "bufferOwned" \in files'[u].mode
           /\ Streams!Live(v) /\ "bufferOwned" \in files'[v].mode
           /\ files'[u].buffer = files'[v].buffer
           => u = v
    <3> SUFFICES ASSUME NEW u \in Streams!Streams, NEW v \in Streams!Streams,
                        Streams!Live(u), "bufferOwned" \in files'[u].mode,
                        Streams!Live(v), "bufferOwned" \in files'[v].mode,
                        files'[u].buffer = files'[v].buffer
                 PROVE  u = v
      OBVIOUS
    <3>1. CASE u = s \/ v = s
      BY <2>5, <2>8, <2>15, <3>1
    <3>2. CASE u # s /\ v # s
      BY <2>8, <3>2 DEF LifeInv
    <3> QED BY <3>1, <3>2
  <2>21. encoding' \in {"C", "UTF-8"}
    BY <1>1, <2>7 DEF LifeTypes
  <2> QED BY <1>1, <2>8, <2>11, <2>13, <2>14, <2>16, <2>17, <2>18, <2>19, <2>20, <2>21, KeepStep
<1> QED BY <1>8, <1>9

(* A step of fopen outside the lock: it may claim a cell, or a descriptor  *)
(* that nobody has.                                                        *)
LEMMA FetchStep ==
    ASSUME LifeInv, NEW t \in Threads, ~Holding(t), fileTask[t].at # "register",
           UNCHANGED <<files, streams, allocated, io, encoding, silent>>,
           NEW task, fileTask' = [fileTask EXCEPT ![t] = task],
           task.at \notin {"fclose", "reopen"}, FileTask(t)',
           Fetching(t)' => \A u \in Threads \ {t} :
                             Fetching(u) => fileTask[u].cell # task.cell,
           fds' \in [Descriptors -> OpenSet],
           \A d \in Descriptors :
             \/ fds'[d] = fds[d]
             \/ /\ fds[d].for = NoOne /\ fds'[d].for # NoOne
                /\ task.at = "register" /\ task.fd = d
    PROVE  LifeInv'
<1>1. LifeTypes /\ LifeTypes'
  BY DEF LifeInv, LifeTypes, Streams!Streams, FileSet, OpenSet, ByteSet, Flags, Streams!Gone,
         Streams!NoFd
<1>2. fileTask'[t] = task /\ \A u \in Threads \ {t} : fileTask'[u] = fileTask[u]
  BY <1>1 DEF LifeTypes
<1>3. ASSUME NEW u \in Threads \ {t}
      PROVE  FileTask(u)' /\ (Holding(u)' <=> Holding(u)) /\ (Fetching(u)' <=> Fetching(u))
  <2>1. FileTask(u) /\ fileTask'[u] = fileTask[u]
    BY <1>2 DEF LifeInv
  <2>2. Fetching(u) => ~Streams!Live(fileTask[u].cell)'
    BY <1>2, <2>1 DEF FileTask, Streams!Live, Streams!Gone
  <2>3. Holding(u) => Streams!Usable(files'[fileTask[u].stream])
    BY <2>1 DEF FileTask, Streams!Usable
  <2>4. fileTask[u].at = "register" => fds'[fileTask[u].fd] = fds[fileTask[u].fd]
    <3>1. fileTask[u].at = "register" =>
            /\ fileTask[u].fd \in Descriptors /\ fds[fileTask[u].fd].for = fileTask[u].cell
            /\ fileTask[u].cell \in Files
      BY <2>1 DEF FileTask, Fetching, Streams!Opened
    <3> QED BY <3>1, LifeConstants
  <2> QED BY <2>1, <2>2, <2>3, <2>4, FileTaskKept
<1>4. ~Holding(t)'
  BY <1>2 DEF Holding
<1>5. \A u \in Threads : FileTask(u)' /\ (io = u <=> Holding(u))'
  BY <1>3, <1>4 DEF LifeInv
<1>6. \A u, v \in Threads :
        (Fetching(u) /\ Fetching(v) /\ fileTask[u].cell = fileTask[v].cell => u = v)'
  <2> SUFFICES ASSUME NEW u \in Threads, NEW v \in Threads, Fetching(u)', Fetching(v)',
                      fileTask'[u].cell = fileTask'[v].cell
               PROVE  u = v
    OBVIOUS
  <2>1. CASE u = t \/ v = t
    BY <1>2, <1>3, <2>1
  <2>2. CASE u # t /\ v # t
    BY <1>2, <1>3, <2>2 DEF LifeInv
  <2> QED BY <2>1, <2>2
<1>7. \A s : Streams!Changing(s)' <=> Streams!Changing(s)
  BY <1>2, <1>4 DEF Streams!Changing, Holding
<1>8. Distinct(streams)' /\ Range(streams)' = Range(streams)
  BY DEF LifeInv, Distinct, Range
<1>9. ASSUME NEW s \in Streams!Streams
      PROVE  /\ Streams!Live(s)' <=> Streams!Live(s)
             /\ Streams!Usable(files[s])' <=> Streams!Usable(files[s])
             /\ FileOK(s)' <=> FileOK(s)
  BY DEF Streams!Live, Streams!Gone, Streams!Usable, FileOK, Streams!NoFd
<1>10. ASSUME NEW s \in Streams!Streams, Bound(s) PROVE Bound(s)'
  <2>1. fds'[files[s].fd] = fds[files[s].fd]
    BY <1>10, LifeConstants DEF Bound
  <2> QED BY <1>10, <2>1 DEF Bound
<1>11. ASSUME NEW d \in Descriptors PROVE Owned(d)'
  <2>1. CASE fds'[d] = fds[d] /\ fds[d].for = NoOne
    BY <2>1 DEF LifeInv, Owned, Streams!Closed, Streams!Opened
  <2>2. CASE fds'[d] = fds[d] /\ fds[d].for # NoOne
    <3>1. PICK s \in Streams!Streams : s = fds[d].for
      BY <1>1, <2>2 DEF LifeTypes, OpenSet
    <3>2. CASE Streams!Usable(files[s]) /\ ~Streams!Changing(s) /\ files[s].fd = d
      BY <1>7, <1>9, <2>2, <3>1, <3>2 DEF Owned
    <3>3. CASE \E u \in Threads : fileTask[u].at = "register" /\ fileTask[u].fd = d
      <4>1. \E u \in Threads : fileTask'[u].at = "register" /\ fileTask'[u].fd = d
        BY <1>2, <3>3
      <4> QED BY <2>2, <4>1 DEF Owned
    <3> QED BY <2>2, <3>1, <3>2, <3>3 DEF LifeInv, Owned
  <2>3. CASE fds'[d].for # NoOne /\ task.at = "register" /\ task.fd = d
    BY <1>2, <2>3 DEF Owned
  <2> QED BY <2>1, <2>2, <2>3
<1>12. Streams!Streams' = Streams!Streams
  BY DEF Streams!Streams
<1> QED BY <1>1, <1>5, <1>6, <1>7, <1>8, <1>9, <1>10, <1>11, <1>12 DEF LifeInv

LEMMA FopenAllocStep ==
    ASSUME LifeInv, NEW t \in Threads, NEW m, Streams!FopenAlloc(t, m)
    PROVE  LifeInv'
<1>1. PICK c, o :
        /\ c \in Files \ Streams!InFlight
        /\ o = Streams!OpenMode(m) /\ o # {} /\ ~Streams!Live(c)
        /\ fileTask' = [fileTask EXCEPT ![t] = [at |-> "open", cell |-> c, mode |-> o]]
  BY DEF Streams!FopenAlloc
<1>2. ModeOK(o)
  BY <1>1, OpenModeFlags
<1>3. PICK task : task = [at |-> "open", cell |-> c, mode |-> o]
  OBVIOUS
<1>4. /\ fileTask[t] = Streams!Idle /\ fileTask' = [fileTask EXCEPT ![t] = task]
      /\ UNCHANGED <<files, streams, fds, allocated, io, encoding, silent>>
  BY <1>1, <1>3 DEF Streams!FopenAlloc
<1>5. LifeTypes /\ fileTask'[t] = task
  BY <1>4 DEF LifeInv, LifeTypes
<1>6. FileTask(t)'
  <2>1. ~Streams!Live(c)'
    BY <1>1, <1>4 DEF Streams!Live, Streams!Gone
  <2>2. ModeOK(o)'
    BY <1>2 DEF ModeOK, Flags
  <2> QED BY <1>1, <1>3, <1>5, <2>1, <2>2 DEF FileTask, Fetching, Holding, Streams!Live
<1>7. \A u \in Threads : Fetching(u) => fileTask[u].cell # c
  BY <1>1 DEF Fetching, Streams!InFlight
<1>8. fds' \in [Descriptors -> OpenSet]
  BY <1>4, <1>5 DEF LifeTypes
<1>9. ~Holding(t) /\ fileTask[t].at # "register"
  BY <1>4 DEF Holding, Streams!Idle
<1>10. task.at \notin {"fclose", "reopen"} /\ task.cell = c
  BY <1>3
<1> QED BY <1>4, <1>6, <1>7, <1>8, <1>9, <1>10, FetchStep

LEMMA FopenOpenStep ==
    ASSUME LifeInv, NEW t \in Threads, Streams!FopenOpen(t)
    PROVE  LifeInv'
<1>1. /\ fileTask[t].at = "open" /\ Fetching(t) /\ ~Holding(t) /\ fileTask[t].at # "register"
      /\ UNCHANGED <<files, streams, allocated, io, encoding, silent>>
  BY DEF Streams!FopenOpen, Fetching, Holding
<1>2. LifeTypes /\ FileTask(t)
  BY DEF LifeInv
<1>3. CASE fileTask' = [fileTask EXCEPT ![t] = Streams!Idle] /\ fds' = fds
  <2>1. FileTask(t)' /\ ~Fetching(t)'
    BY <1>2, <1>3 DEF FileTask, Fetching, Holding, Streams!Idle, LifeTypes
  <2>2. Streams!Idle.at \notin {"fclose", "reopen"}
    BY DEF Streams!Idle
  <2>3. fds' \in [Descriptors -> OpenSet]
    BY <1>2, <1>3 DEF LifeTypes
  <2> QED BY <1>1, <1>3, <2>1, <2>2, <2>3, FetchStep
<1>4. CASE /\ Streams!Free # {}
           /\ fds' = [fds EXCEPT ![Streams!Lowest] = Streams!Opened(fileTask[t].cell)]
           /\ fileTask' = [fileTask EXCEPT ![t] =
                [at |-> "register", cell |-> fileTask[t].cell,
                 mode |-> fileTask[t].mode, fd |-> Streams!Lowest]]
  <2>1. PICK d \in Descriptors : d = Streams!Lowest /\ fds[d].for = NoOne
    BY <1>4, LowestFree
  <2>2. PICK c, m, o, task :
          /\ c \in Files /\ c = fileTask[t].cell /\ m = fileTask[t].mode /\ o = Streams!Opened(c)
          /\ ~Streams!Live(c) /\ ModeOK(m)
          /\ task = [at |-> "register", cell |-> c, mode |-> m, fd |-> d]
    BY <1>1, <1>2 DEF FileTask
  <2>3. fds' = [fds EXCEPT ![d] = o] /\ fileTask' = [fileTask EXCEPT ![t] = task]
    BY <1>4, <2>1, <2>2
  <2>4. o \in OpenSet /\ o.for = c /\ o = [for |-> c, written |-> <<>>, accepted |-> <<>>]
    BY <2>2, LifeConstants DEF Streams!Opened, OpenSet
  <2>5. /\ fds' \in [Descriptors -> OpenSet] /\ fds'[d] = o
        /\ \A e \in Descriptors \ {d} : fds'[e] = fds[e]
        /\ fileTask'[t] = task
    BY <1>2, <2>3, <2>4 DEF LifeTypes
  <2>6. FileTask(t)'
    <3>1. ~Streams!Live(c)'
      BY <1>1, <2>2 DEF Streams!Live, Streams!Gone
    <3>2. ModeOK(m)'
      BY <2>2 DEF ModeOK, Flags
    <3> QED BY <2>2, <2>4, <2>5, <3>1, <3>2
            DEF FileTask, Fetching, Holding, Streams!Live, Streams!Opened
  <2>7. /\ task.at = "register" /\ task.fd = d /\ task.cell = c
        /\ task.at \notin {"fclose", "reopen"} /\ c # NoOne
    BY <2>2, LifeConstants
  <2>8. \A u \in Threads \ {t} : Fetching(u) => fileTask[u].cell # c
    BY <1>1, <2>2 DEF LifeInv
  <2>9. \A e \in Descriptors :
          \/ fds'[e] = fds[e]
          \/ /\ fds[e].for = NoOne /\ fds'[e].for # NoOne
             /\ task.at = "register" /\ task.fd = e
    BY <2>1, <2>4, <2>5, <2>7
  <2> QED BY <1>1, <2>3, <2>5, <2>6, <2>7, <2>8, <2>9, FetchStep
<1> QED BY <1>3, <1>4 DEF Streams!FopenOpen

LEMMA FopenRegisterStep ==
    ASSUME LifeInv, NEW t \in Threads, Streams!FopenRegister(t)
    PROVE  LifeInv'
<1>1. /\ fileTask[t].at = "register" /\ Fetching(t) /\ io = NoOne
      /\ UNCHANGED <<fds, allocated, io, encoding, silent>>
  BY DEF Streams!FopenRegister, Fetching
<1>2. /\ LifeTypes /\ FileTask(t)
      /\ \A s : ~Streams!Changing(s)
      /\ \A u \in Threads : ~Holding(u)
  BY <1>1, Quiet, LifeConstants DEF LifeInv
<1>3. PICK c, d, m, f :
        /\ c \in Files /\ d \in Descriptors
        /\ c = fileTask[t].cell /\ d = fileTask[t].fd /\ m = fileTask[t].mode
        /\ f = Streams!File(d, m) /\ ~Streams!Live(c) /\ ModeOK(m)
        /\ fds[d] = Streams!Opened(c)
  BY <1>1, <1>2 DEF FileTask
<1>4. /\ files' = [files EXCEPT ![c] = f] /\ streams' = <<c>> \o streams
      /\ fileTask' = [fileTask EXCEPT ![t] = Streams!Idle]
  BY <1>3 DEF Streams!FopenRegister
<1>5. /\ f = [fd |-> d, mode |-> m, orientation |-> "none", pending |-> <<>>,
              buffer |-> "inline"]
      /\ f \in FileSet /\ Streams!Usable(f) /\ f # Streams!Gone
      /\ "owned" \in m /\ "bufferOwned" \notin m
  BY <1>2, <1>3, LifeFacts DEF Streams!File, FileSet, ModeOK, Streams!Usable
<1>6. /\ c \in Streams!Streams /\ c # Std /\ c # NoOne
      /\ files'[c] = f /\ \A s \in Streams!Streams \ {c} : files'[s] = files[s]
      /\ fileTask'[t] = Streams!Idle
      /\ \A u \in Threads \ {t} : fileTask'[u] = fileTask[u]
  BY <1>2, <1>3, <1>4, LifeConstants DEF LifeTypes
<1>7. /\ streams' \in Seq(Streams!Streams) /\ Distinct(streams')
      /\ Range(streams') = Range(streams) \cup {c}
  <2>1. c \notin Range(streams) /\ streams \in Seq(Streams!Streams) /\ Distinct(streams)
    BY <1>3, <1>6 DEF LifeInv, LifeTypes
  <2> QED BY <1>4, <1>6, <2>1, Prepended
<1>8. LifeTypes'
  <2>1. files' \in [Streams!Streams -> FileSet \cup {Streams!Gone}]
    BY <1>2, <1>4, <1>5 DEF LifeTypes
  <2>2. DOMAIN fileTask' = Threads
    BY <1>2, <1>4 DEF LifeTypes
  <2> QED BY <1>1, <1>2, <1>7, <2>1, <2>2
          DEF LifeTypes, Streams!Streams, FileSet, OpenSet, ByteSet, Flags, Streams!Gone,
              Streams!NoFd
<1>9. \A s : ~Streams!Changing(s)'
  BY <1>2, <1>6 DEF Streams!Changing, Holding, Streams!Idle
<1>10. ASSUME NEW u \in Threads \ {t}
       PROVE  /\ FileTask(u)' /\ (Holding(u)' <=> Holding(u)) /\ (Fetching(u)' <=> Fetching(u))
              /\ fileTask'[u] = fileTask[u]
  <2>1. FileTask(u) /\ fileTask'[u] = fileTask[u]
    BY <1>6 DEF LifeInv
  <2>2. Fetching(u) => ~Streams!Live(fileTask[u].cell)'
    <3>1. Fetching(u) => fileTask[u].cell \in Streams!Streams \ {c}
      BY <1>1, <1>3, <2>1, LifeConstants DEF FileTask, LifeInv
    <3> QED BY <1>6, <2>1, <3>1 DEF FileTask, Streams!Live, Streams!Gone
  <2> QED BY <1>1, <1>2, <2>1, <2>2, FileTaskKept
<1>11. FileTask(t)' /\ ~Holding(t)' /\ ~Fetching(t)'
  BY <1>6 DEF FileTask, Fetching, Holding, Streams!Idle
<1>12. \A u \in Threads : FileTask(u)' /\ (io = u <=> Holding(u))'
  BY <1>1, <1>2, <1>10, <1>11, LifeConstants
<1>13. \A u, v \in Threads :
         (Fetching(u) /\ Fetching(v) /\ fileTask[u].cell = fileTask[v].cell => u = v)'
  <2> SUFFICES ASSUME NEW u \in Threads, NEW v \in Threads, Fetching(u)', Fetching(v)',
                      fileTask'[u].cell = fileTask'[v].cell
               PROVE  u = v
    OBVIOUS
  <2>1. u # t /\ v # t
    BY <1>11
  <2> QED BY <1>10, <2>1 DEF LifeInv
<1>14. ASSUME NEW s \in Streams!Streams
       PROVE  /\ (s \in Range(streams) => Streams!Live(s))'
              /\ (Streams!Usable(files[s]) => s \in Range(streams))'
              /\ Streams!Live(s)' => FileOK(s)'
              /\ Streams!Usable(files'[s]) => Bound(s)'
  <2>1. CASE s = c
    <3>1. FileOK(s)'
      BY <1>5, <1>6, <2>1, LifeConstants DEF FileOK, Streams!Usable
    <3>2. Bound(s)'
      <4>1. /\ fds'[d] = [for |-> c, written |-> <<>>, accepted |-> <<>>]
            /\ files'[s] = f /\ f.fd = d /\ f.pending = <<>>
        BY <1>1, <1>3, <1>5, <1>6, <2>1 DEF Streams!Opened
      <4>2. <<>> \o <<>> = <<>> /\ Range(<<>>) = {}
        BY DEF Range
      <4> QED BY <1>3, <2>1, <4>1, <4>2 DEF Bound
    <3>3. Streams!Live(s)' /\ s \in Range(streams)'
      BY <1>5, <1>6, <1>7, <2>1 DEF Streams!Live, Streams!Gone, Range
    <3> QED BY <3>1, <3>2, <3>3
  <2>2. CASE s # c
    <3>1. files'[s] = files[s] /\ (s \in Range(streams)' <=> s \in Range(streams))
      BY <1>6, <1>7, <2>2 DEF Range
    <3>2. /\ s \in Range(streams) => Streams!Live(s)
          /\ Streams!Usable(files[s]) => s \in Range(streams)
          /\ Streams!Live(s) => FileOK(s)
          /\ Streams!Usable(files[s]) => Bound(s)
      BY <1>2 DEF LifeInv
    <3>3. Streams!Live(s)' <=> Streams!Live(s)
      BY <3>1 DEF Streams!Live, Streams!Gone
    <3>4. FileOK(s)' <=> FileOK(s)
      BY <1>1, <3>1 DEF FileOK, Streams!Usable, Streams!NoFd
    <3>5. Bound(s)' <=> Bound(s)
      BY <1>1, <3>1 DEF Bound
    <3>6. Streams!Usable(files[s])' <=> Streams!Usable(files[s])
      BY <3>1 DEF Streams!Usable
    <3>7. Streams!Usable(files'[s]) <=> Streams!Usable(files[s])
      BY <3>1
    <3> QED BY <3>1, <3>2, <3>3, <3>4, <3>5, <3>6, <3>7
  <2> QED BY <2>1, <2>2
<1>15. ASSUME NEW e \in Descriptors PROVE Owned(e)'
  <2>1. CASE e = d
    <3>1. fds'[e].for = c
      BY <1>1, <1>3, <2>1 DEF Streams!Opened
    <3>2. Streams!Usable(files'[c]) /\ files'[c].fd = e
      BY <1>5, <1>6, <2>1
    <3> QED BY <1>6, <1>9, <3>1, <3>2 DEF Owned, Streams!Usable
  <2>2. CASE e # d /\ fds[e].for = NoOne
    BY <1>1, <2>2 DEF LifeInv, Owned, Streams!Closed, Streams!Opened
  <2>3. CASE e # d /\ fds[e].for # NoOne
    <3>1. PICK s \in Streams!Streams : s = fds[e].for
      BY <1>2, <2>3 DEF LifeTypes, OpenSet
    <3>2. CASE Streams!Usable(files[s]) /\ files[s].fd = e
      <4>1. s # c
        BY <1>2, <1>3, <3>2, LifeFacts
      <4> QED BY <1>1, <1>6, <1>9, <2>3, <3>1, <3>2, <4>1 DEF Owned, Streams!Usable
    <3>3. CASE \E u \in Threads : fileTask[u].at = "register" /\ fileTask[u].fd = e
      <4>1. \E u \in Threads : fileTask'[u].at = "register" /\ fileTask'[u].fd = e
        BY <1>3, <1>6, <2>3, <3>3
      <4> QED BY <1>1, <2>3, <4>1 DEF Owned
    <3> QED BY <2>3, <3>1, <3>2, <3>3 DEF LifeInv, Owned
  <2> QED BY <2>1, <2>2, <2>3
<1>16. ASSUME NEW b \in allocated'
       PROVE  \E s \in Streams!Streams :
                (Streams!Live(s) /\ "bufferOwned" \in files[s].mode /\ files[s].buffer = b)'
  <2>1. PICK s \in Streams!Streams :
          Streams!Live(s) /\ "bufferOwned" \in files[s].mode /\ files[s].buffer = b
    BY <1>1, <1>16 DEF LifeInv
  <2>2. s # c
    BY <1>3, <2>1
  <2> QED BY <1>6, <2>1, <2>2 DEF Streams!Live, Streams!Gone
<1>17. \A s, u \in Streams!Streams :
         (/\ Streams!Live(s) /\ "bufferOwned" \in files[s].mode
          /\ Streams!Live(u) /\ "bufferOwned" \in files[u].mode
          /\ files[s].buffer = files[u].buffer
          => s = u)'
  <2> SUFFICES ASSUME NEW s \in Streams!Streams, NEW u \in Streams!Streams,
                      (/\ Streams!Live(s) /\ "bufferOwned" \in files[s].mode
                       /\ Streams!Live(u) /\ "bufferOwned" \in files[u].mode
                       /\ files[s].buffer = files[u].buffer)'
               PROVE  s = u
    OBVIOUS
  <2>1. s # c /\ u # c
    BY <1>5, <1>6
  <2> QED BY <1>6, <2>1 DEF LifeInv, Streams!Live, Streams!Gone
<1>18. Streams!Streams' = Streams!Streams
  BY DEF Streams!Streams
<1>19. Distinct(streams)'
  BY <1>7 DEF Distinct
<1>20. \A s \in Streams!Streams : (Streams!Usable(files[s]) => Bound(s))'
  BY <1>14 DEF Streams!Usable
<1> QED BY <1>8, <1>12, <1>13, <1>14, <1>15, <1>16, <1>17, <1>18, <1>19, <1>20 DEF LifeInv

(* The flush and the close that fclose and freopen begin with: the         *)
(* descriptor is free again, and a loss is reported.                       *)
LEMMA FlushAndCloseStep ==
    ASSUME LifeInv, io = NoOne, NEW s \in Streams!Streams, Streams!Usable(files[s]),
           NEW k \in Streams!Lengths(files[s]), NEW closeFailed \in BOOLEAN,
           Streams!FlushAndClose(s, k, closeFailed)
    PROVE  fds' = [fds EXCEPT ![files[s].fd] = Streams!Closed] /\ silent' = FALSE
<1>1. PICK f : f = files[s]
  OBVIOUS
<1>2. /\ f \in FileSet /\ f.fd \in Descriptors /\ fds \in [Descriptors -> OpenSet]
      /\ Carried(f, fds, f, fds) /\ FileOK(s) /\ Bound(s)
  BY <1>1, BoundCarries
<1>3. PICK table : table = Streams!Published(fds, f, k)
  OBVIOUS
<1>4. PICK g : g = Streams!Rest(f, k)
  OBVIOUS
<1>5. /\ k \in 0 .. Len(f.pending)
      /\ ~Streams!Cut(f, k) => g.pending = <<>>
  BY <1>1, <1>2, <1>4, FlushFile DEF FileOK
<1>6. Carried(f, fds, g, table)
  BY <1>2, <1>3, <1>4, <1>5, FlushCarries
<1>7. PICK o \in OpenSet :
         /\ table = [fds EXCEPT ![f.fd] = o]
         /\ o.accepted = o.written \o g.pending
  BY <1>6 DEF Carried
<1>8. table[f.fd] = o
  BY <1>2, <1>7
<1>9. ~Streams!Cut(f, k) => table[f.fd].written = table[f.fd].accepted
  <2>1. SUFFICES ASSUME ~Streams!Cut(f, k) PROVE o.written = o.accepted
    BY <1>8
  <2>2. o.written \in Seq(ByteSet)
    BY DEF OpenSet
  <2>3. o.written \o <<>> = o.written
    BY <2>2, ConcatEmptySeq
  <2> QED BY <1>5, <1>7, <2>1, <2>3
<1>10. /\ fds' = [table EXCEPT ![f.fd] = Streams!Closed]
       /\ silent' = (silent \/ /\ ~Streams!FirstError(Streams!Cut(f, k), closeFailed)
                               /\ table[f.fd].written # table[f.fd].accepted)
  BY <1>1, <1>3 DEF Streams!FlushAndClose
<1>11. silent' = FALSE
  BY <1>9, <1>10 DEF LifeInv, LifeTypes, Streams!FirstError
<1>12. fds' = [fds EXCEPT ![f.fd] = Streams!Closed]
  <2>1. PICK d, z : d \in Descriptors /\ d = f.fd /\ z = Streams!Closed
    BY <1>2
  <2>2. [[fds EXCEPT ![d] = o] EXCEPT ![d] = z] = [fds EXCEPT ![d] = z]
    BY <1>2, <2>1
  <2> QED BY <1>7, <1>10, <2>1, <2>2
<1> QED BY <1>1, <1>11, <1>12

LEMMA ClosedFree == Streams!Closed \in OpenSet /\ Streams!Closed.for = NoOne
BY DEF Streams!Closed, Streams!Opened, OpenSet

(* The first half of fclose and of a freopen that goes on: the stream has  *)
(* no descriptor, and the lock is held until the call is over.             *)
LEMMA HoldStep ==
    ASSUME LifeInv, io = NoOne, NEW t \in Threads, fileTask[t] = Streams!Idle,
           NEW s \in Streams!Streams, Streams!Usable(files[s]),
           fds' = [fds EXCEPT ![files[s].fd] = Streams!Closed], silent' = FALSE, io' = t,
           NEW task, fileTask' = [fileTask EXCEPT ![t] = task], task.stream = s,
           \/ task.at = "fclose"
           \/ task.at = "reopen" /\ ModeOK(task.mode),
           UNCHANGED <<files, streams, allocated, encoding>>
    PROVE  LifeInv'
<1>1. /\ LifeTypes
      /\ \A u : ~Streams!Changing(u)
      /\ \A u \in Threads : ~Holding(u)
      /\ \A u \in Streams!Streams : Streams!Usable(files[u]) => Bound(u)
  BY Quiet, LifeConstants DEF LifeInv
<1>2. PICK d \in Descriptors : d = files[s].fd /\ fds[d].for = s
  BY <1>1 DEF Bound
<1>3. /\ fds' \in [Descriptors -> OpenSet] /\ fds'[d] = Streams!Closed
      /\ \A e \in Descriptors \ {d} : fds'[e] = fds[e]
      /\ fileTask'[t] = task /\ \A u \in Threads \ {t} : fileTask'[u] = fileTask[u]
  BY <1>1, <1>2, ClosedFree DEF LifeTypes
<1>4. LifeTypes'
  <2>1. DOMAIN fileTask' = Threads /\ io' \in Threads \cup {NoOne}
    BY <1>1 DEF LifeTypes
  <2> QED BY <1>1, <1>3, <2>1
          DEF LifeTypes, Streams!Streams, FileSet, OpenSet, ByteSet, Flags, Streams!Gone,
              Streams!NoFd
<1>5. \A u : Streams!Changing(u)' <=> u = s
  <2>1. Streams!Changing(s)'
    BY <1>3 DEF Streams!Changing
  <2>2. ASSUME NEW u, Streams!Changing(u)' PROVE u = s
    <3>1. PICK v \in Threads : fileTask'[v].at \in {"fclose", "reopen"} /\ fileTask'[v].stream = u
      BY <2>2 DEF Streams!Changing
    <3> QED BY <1>1, <1>3, <3>1 DEF Holding
  <2> QED BY <2>1, <2>2
<1>6. ASSUME NEW u \in Threads \ {t}
      PROVE  /\ FileTask(u)' /\ (Holding(u)' <=> Holding(u)) /\ (Fetching(u)' <=> Fetching(u))
             /\ fileTask'[u] = fileTask[u]
  <2>1. FileTask(u) /\ fileTask'[u] = fileTask[u]
    BY <1>3 DEF LifeInv
  <2>2. Fetching(u) => ~Streams!Live(fileTask[u].cell)'
    BY <2>1 DEF FileTask, Streams!Live, Streams!Gone
  <2>3. fileTask[u].at = "register" => fds'[fileTask[u].fd] = fds[fileTask[u].fd]
    <3>1. fileTask[u].at = "register" =>
            fileTask[u].fd \in Descriptors /\ files[s].fd # fileTask[u].fd
      BY <1>1, <2>1, RegisterAlone DEF FileTask
    <3> QED BY <1>2, <1>3, <3>1
  <2> QED BY <1>1, <2>1, <2>2, <2>3, FileTaskKept
<1>7. FileTask(t)' /\ Holding(t)' /\ ~Fetching(t)'
  <2>1. task.at = "reopen" => ModeOK(task.mode)'
    BY DEF ModeOK, Flags
  <2>2. Streams!Usable(files[s])'
    BY DEF Streams!Usable
  <2>3. s \in Streams!Streams'
    BY DEF Streams!Streams
  <2> QED BY <1>3, <2>1, <2>2, <2>3 DEF FileTask, Fetching, Holding, Streams!Usable
<1>8. \A u \in Threads : FileTask(u)' /\ (io = u <=> Holding(u))'
  BY <1>1, <1>6, <1>7
<1>9. \A u, v \in Threads :
        (Fetching(u) /\ Fetching(v) /\ fileTask[u].cell = fileTask[v].cell => u = v)'
  <2> SUFFICES ASSUME NEW u \in Threads, NEW v \in Threads, Fetching(u)', Fetching(v)',
                      fileTask'[u].cell = fileTask'[v].cell
               PROVE  u = v
    OBVIOUS
  <2>1. u # t /\ v # t
    BY <1>7
  <2> QED BY <1>6, <2>1 DEF LifeInv
<1>10. Distinct(streams)' /\ Range(streams)' = Range(streams)
  BY DEF LifeInv, Distinct, Range
<1>11. ASSUME NEW u \in Streams!Streams
       PROVE  /\ Streams!Live(u)' <=> Streams!Live(u)
              /\ Streams!Usable(files[u])' <=> Streams!Usable(files[u])
              /\ FileOK(u)' <=> FileOK(u)
  BY DEF Streams!Live, Streams!Gone, Streams!Usable, FileOK, Streams!NoFd
<1>12. ASSUME NEW u \in Streams!Streams, Streams!Usable(files[u]), ~Streams!Changing(u)'
       PROVE  Bound(u)'
  <2>1. Bound(u) /\ u # s
    BY <1>1, <1>5, <1>12
  <2>2. files[u].fd \in Descriptors /\ files[u].fd # d
    BY <1>2, <2>1 DEF Bound
  <2>3. fds'[files[u].fd] = fds[files[u].fd]
    BY <1>3, <2>2
  <2> QED BY <2>1, <2>3 DEF Bound
<1>13. ASSUME NEW e \in Descriptors PROVE Owned(e)'
  <2>1. CASE e = d
    BY <1>3, <2>1, ClosedFree DEF Owned, Streams!Closed, Streams!Opened
  <2>2. CASE e # d /\ fds[e].for = NoOne
    BY <1>3, <2>2 DEF LifeInv, Owned, Streams!Closed, Streams!Opened
  <2>3. CASE e # d /\ fds[e].for # NoOne
    <3>1. PICK u \in Streams!Streams : u = fds[e].for
      BY <1>1, <2>3 DEF LifeTypes, OpenSet
    <3>2. CASE Streams!Usable(files[u]) /\ files[u].fd = e
      <4>1. u # s
        BY <1>2, <2>3, <3>2
      <4> QED BY <1>3, <1>5, <2>3, <3>1, <3>2, <4>1 DEF Owned, Streams!Usable
    <3>3. CASE \E v \in Threads : fileTask[v].at = "register" /\ fileTask[v].fd = e
      <4>1. \E v \in Threads : fileTask'[v].at = "register" /\ fileTask'[v].fd = e
        BY <1>3, <3>3 DEF Streams!Idle
      <4> QED BY <1>3, <2>3, <4>1 DEF Owned
    <3> QED BY <2>3, <3>1, <3>2, <3>3 DEF LifeInv, Owned
  <2> QED BY <2>1, <2>2, <2>3
<1>14. Streams!Streams' = Streams!Streams
  BY DEF Streams!Streams
<1> QED BY <1>4, <1>8, <1>9, <1>10, <1>11, <1>12, <1>13, <1>14 DEF LifeInv

LEMMA FcloseStep ==
    ASSUME LifeInv, NEW t \in Threads, NEW s \in Streams!Streams, Streams!Fclose(t, s)
    PROVE  LifeInv'
<1>1. /\ fileTask[t] = Streams!Idle /\ io = NoOne /\ Streams!Usable(files[s])
      /\ io' = t /\ UNCHANGED <<files, streams, allocated, encoding>>
  BY DEF Streams!Fclose
<1>2. PICK k \in Streams!Lengths(files[s]), closeFailed \in BOOLEAN :
        Streams!FlushAndClose(s, k, closeFailed)
  BY DEF Streams!Fclose
<1>3. fds' = [fds EXCEPT ![files[s].fd] = Streams!Closed] /\ silent' = FALSE
  BY <1>1, <1>2, FlushAndCloseStep
<1>4. PICK task : task = [at |-> "fclose", stream |-> s]
  OBVIOUS
<1>5. fileTask' = [fileTask EXCEPT ![t] = task] /\ task.at = "fclose" /\ task.stream = s
  BY <1>4 DEF Streams!Fclose
<1> QED BY <1>1, <1>3, <1>5, HoldStep

LEMMA UnregisteredList ==
    ASSUME LifeInv, NEW s \in Range(streams)
    PROVE  /\ Streams!Unregistered(s) \in Seq(Streams!Streams)
           /\ Distinct(Streams!Unregistered(s))
           /\ Range(Streams!Unregistered(s)) = Range(streams) \ {s}
<1>1. streams \in Seq(Streams!Streams) /\ Distinct(streams)
  BY DEF LifeInv, LifeTypes
<1>2. PICK r : r = Locales!RemoveAt(streams, CHOOSE i \in DOMAIN streams : streams[i] = s)
  OBVIOUS
<1>3. r \in Seq(Streams!Streams) /\ Distinct(r) /\ Range(r) = Range(streams) \ {s}
  BY <1>1, <1>2, Removed
<1>4. r = Streams!Unregistered(s)
  <2>1. s \in Streams!Range(streams)
    BY DEF Streams!Range, Range
  <2>2. PICK k : k = CHOOSE i \in DOMAIN streams : streams[i] = s
    OBVIOUS
  <2>3. Streams!Unregistered(s) = Streams!RemoveAt(streams, k)
    BY <2>1, <2>2 DEF Streams!Unregistered
  <2>4. r = Locales!RemoveAt(streams, k)
    BY <1>2, <2>2
  <2> QED BY <2>3, <2>4 DEF Streams!RemoveAt, Locales!RemoveAt
<1> QED BY <1>3, <1>4

(* The end of a stream: its object, its place on the list and its buffer   *)
(* go; the predefined stream keeps its object and may stay on the list.    *)
LEMMA EndStep ==
    ASSUME LifeInv, NEW s \in Streams!Streams, Streams!Usable(files[s]),
           \A u \in Streams!Streams : Streams!Changing(u) => u = s,
           UNCHANGED <<encoding>>, silent' = FALSE, io' = NoOne,
           NEW g, files' = [files EXCEPT ![s] = g],
           s # Std => g = Streams!Gone,
           s = Std => g = [fd |-> Streams!NoFd, mode |-> {}, orientation |-> "none",
                           pending |-> <<>>, buffer |-> "inline"],
           allocated' = allocated \ Streams!Released(files[s]),
           streams' \in Seq(Streams!Streams), Distinct(streams'),
           Range(streams') = Range(streams) \/ Range(streams') = Range(streams) \ {s},
           s # Std => s \notin Range(streams'),
           fds' \in [Descriptors -> OpenSet],
           \A d \in Descriptors : IF fds[d].for = s THEN fds'[d] = Streams!Closed
                          ELSE fds'[d] = fds[d],
           DOMAIN fileTask' = Threads,
           \A u \in Threads : \/ fileTask'[u] = fileTask[u] /\ ~Holding(u)
                              \/ fileTask'[u] = Streams!Idle /\ ~Fetching(u)
    PROVE  LifeInv'
<1>1. /\ LifeTypes /\ Streams!Live(s) /\ FileOK(s)
      /\ \A u \in Streams!Streams : Streams!Live(u) => FileOK(u)
  BY LifeFacts DEF LifeInv
<1>2. s = Std => g \in FileSet /\ g.mode = {} /\ g.pending = <<>> /\ g.buffer = "inline"
                 /\ g.fd = Streams!NoFd
  <2> SUFFICES ASSUME s = Std
               PROVE  g \in FileSet /\ g.mode = {} /\ g.pending = <<>> /\ g.buffer = "inline"
                      /\ g.fd = Streams!NoFd
    OBVIOUS
  <2>1. g = [fd |-> Streams!NoFd, mode |-> {}, orientation |-> "none",
             pending |-> <<>>, buffer |-> "inline"]
    OBVIOUS
  <2>2. <<>> \in Seq(ByteSet)
    OBVIOUS
  <2>3. g \in FileSet
    BY <2>1, <2>2 DEF FileSet
  <2> QED BY <2>1, <2>3
<1>3. ~Streams!Usable(g)
  BY <1>1, <1>2, LifeFacts DEF Streams!Usable
<1>4. /\ files' \in [Streams!Streams -> FileSet \cup {Streams!Gone}]
      /\ files'[s] = g /\ \A u \in Streams!Streams \ {s} : files'[u] = files[u]
  BY <1>1, <1>2 DEF LifeTypes
<1>5. LifeTypes'
  <2>1. allocated' \subseteq Buffers
    BY <1>1 DEF LifeTypes
  <2> QED BY <1>1, <1>4, <2>1
          DEF LifeTypes, Streams!Streams, FileSet, OpenSet, ByteSet, Flags, Streams!Gone,
              Streams!NoFd
<1>6. \A u \in Threads : ~Holding(u)'
  BY DEF Holding, Streams!Idle
<1>7. \A u : ~Streams!Changing(u)'
  BY <1>6 DEF Streams!Changing, Holding
<1>8. ASSUME NEW u \in Threads
      PROVE  /\ FileTask(u)'
             /\ Fetching(u)' => Fetching(u) /\ fileTask'[u] = fileTask[u]
  <2>1. CASE fileTask'[u] = fileTask[u] /\ ~Holding(u)
    <3>1. FileTask(u)
      BY DEF LifeInv
    <3>2. Fetching(u) => ~Streams!Live(fileTask[u].cell)'
      <4>1. Fetching(u) => fileTask[u].cell \in Streams!Streams \ {s}
        BY <1>1, <3>1, LifeConstants DEF FileTask
      <4> QED BY <1>4, <2>1, <3>1, <4>1 DEF FileTask, Streams!Live, Streams!Gone
    <3>3. fileTask[u].at = "register" => fds'[fileTask[u].fd] = fds[fileTask[u].fd]
      <4>1. fileTask[u].at = "register" =>
              /\ fileTask[u].fd \in Descriptors /\ fds[fileTask[u].fd].for = fileTask[u].cell
              /\ fileTask[u].cell # s
        BY <1>1, <3>1 DEF FileTask, Fetching, Streams!Opened
      <4> QED BY <4>1
    <3>4. /\ FileTask(u)' /\ (Holding(u)' <=> Holding(u)) /\ (Fetching(u)' <=> Fetching(u))
      BY <2>1, <3>1, <3>2, <3>3, FileTaskKept
    <3> QED BY <2>1, <3>4
  <2>2. CASE fileTask'[u] = Streams!Idle
    BY <2>2 DEF FileTask, Fetching, Holding, Streams!Idle
  <2> QED BY <2>1, <2>2
<1>9. \A u \in Threads : FileTask(u)' /\ (io = u <=> Holding(u))'
  BY <1>6, <1>8, LifeConstants
<1>10. \A u, v \in Threads :
         (Fetching(u) /\ Fetching(v) /\ fileTask[u].cell = fileTask[v].cell => u = v)'
  BY <1>8 DEF LifeInv
<1>11. ASSUME NEW u \in Streams!Streams
       PROVE  /\ (u \in Range(streams) => Streams!Live(u))'
              /\ (Streams!Usable(files[u]) => u \in Range(streams))'
              /\ (Streams!Live(u) => FileOK(u))'
              /\ (Streams!Usable(files[u]) /\ ~Streams!Changing(u) => Bound(u))'
  <2>1. CASE u = s
    <3>1. Streams!Live(u)' => s = Std /\ u \in Streams!Streams
      BY <1>4, <2>1 DEF Streams!Live, Streams!Gone
    <3>2. u \in Range(streams)' => s = Std
      BY <2>1 DEF Range
    <3>3. s = Std => Streams!Live(u)'
      BY <1>1, <1>2, <1>4, <2>1, LifeFacts DEF Streams!Live, Streams!Gone
    <3>4. ~Streams!Usable(files'[u]) /\ ~Streams!Usable(files[u])'
      BY <1>3, <1>4, <2>1 DEF Streams!Usable
    <3>5. s = Std => FileOK(u)'
      BY <1>2, <1>4, <2>1, <3>4 DEF FileOK, Streams!Usable, Streams!NoFd
    <3> QED BY <3>1, <3>2, <3>3, <3>4, <3>5
  <2>2. CASE u # s
    <3>1. /\ files'[u] = files[u]
          /\ u \in Range(streams') <=> u \in Range(streams)
          /\ ~Streams!Changing(u)
      BY <1>4, <2>2
    <3>2. /\ u \in Range(streams) => Streams!Live(u)
          /\ Streams!Usable(files[u]) => u \in Range(streams)
          /\ Streams!Live(u) => FileOK(u)
          /\ Streams!Usable(files[u]) => Bound(u)
      BY <3>1 DEF LifeInv
    <3>3. Streams!Live(u)' <=> Streams!Live(u)
      BY <3>1 DEF Streams!Live, Streams!Gone
    <3>4. Streams!Live(u) => FileOK(u)'
      <4>1. ASSUME Streams!Live(u), "bufferOwned" \in files[u].mode
            PROVE  files[u].buffer \in allocated'
        <5>1. files[u].buffer \in allocated
          BY <3>2, <4>1 DEF FileOK
        <5>2. "bufferOwned" \in files[s].mode => files[s].buffer # files[u].buffer
          BY <1>1, <2>2, <4>1 DEF LifeInv
        <5> QED BY <5>1, <5>2 DEF Streams!Released
      <4> QED BY <3>1, <3>2, <4>1 DEF FileOK, Streams!Usable, Streams!NoFd
    <3>5. ASSUME Streams!Usable(files[u]) PROVE Bound(u)'
      <4>1. Bound(u)
        BY <3>2, <3>5
      <4>2. fds'[files[u].fd] = fds[files[u].fd]
        BY <2>2, <4>1 DEF Bound
      <4> QED BY <3>1, <4>1, <4>2 DEF Bound
    <3>6. Streams!Usable(files[u])' <=> Streams!Usable(files[u])
      BY <3>1 DEF Streams!Usable
    <3>7. u \in Range(streams)' <=> u \in Range(streams)
      BY <3>1 DEF Range
    <3> QED BY <3>2, <3>3, <3>4, <3>5, <3>6, <3>7
  <2> QED BY <2>1, <2>2
<1>12. ASSUME NEW e \in Descriptors PROVE Owned(e)'
  <2>1. CASE fds[e].for = s
    BY <2>1, ClosedFree DEF Owned, Streams!Closed, Streams!Opened
  <2>2. CASE fds[e].for = NoOne
    <3>1. fds'[e] = fds[e]
      BY <2>2, LifeConstants
    <3> QED BY <2>2, <3>1 DEF LifeInv, Owned, Streams!Closed, Streams!Opened
  <2>3. CASE fds[e].for # NoOne /\ fds[e].for # s
    <3>1. PICK u \in Streams!Streams : u = fds[e].for /\ u # s /\ fds'[e] = fds[e]
      BY <1>1, <2>3 DEF LifeTypes, OpenSet
    <3>2. CASE Streams!Usable(files[u]) /\ files[u].fd = e
      BY <1>4, <1>7, <2>3, <3>1, <3>2 DEF Owned, Streams!Usable
    <3>3. CASE \E v \in Threads : fileTask[v].at = "register" /\ fileTask[v].fd = e
      <4>1. \E v \in Threads : fileTask'[v].at = "register" /\ fileTask'[v].fd = e
        BY <3>3 DEF Fetching
      <4> QED BY <2>3, <3>1, <4>1 DEF Owned
    <3> QED BY <2>3, <3>1, <3>2, <3>3 DEF LifeInv, Owned
  <2> QED BY <2>1, <2>2, <2>3
<1>13. ASSUME NEW u \in Streams!Streams, Streams!Live(u)', "bufferOwned" \in files'[u].mode
       PROVE  u # s /\ files'[u] = files[u] /\ Streams!Live(u)
  <2>1. u # s
    BY <1>2, <1>4, <1>13 DEF Streams!Live, Streams!Gone
  <2>2. files'[u] = files[u]
    BY <1>4, <2>1
  <2> QED BY <1>13, <2>1, <2>2 DEF Streams!Live, Streams!Gone
<1>14. ASSUME NEW b \in allocated'
       PROVE  \E u \in Streams!Streams :
                (Streams!Live(u) /\ "bufferOwned" \in files[u].mode /\ files[u].buffer = b)'
  <2>1. PICK u \in Streams!Streams :
          Streams!Live(u) /\ "bufferOwned" \in files[u].mode /\ files[u].buffer = b
    BY <1>14 DEF LifeInv
  <2>2. u # s
    BY <1>14, <2>1 DEF Streams!Released
  <2> QED BY <1>4, <2>1, <2>2 DEF Streams!Live, Streams!Gone
<1>15. \A u, v \in Streams!Streams :
         (/\ Streams!Live(u) /\ "bufferOwned" \in files[u].mode
          /\ Streams!Live(v) /\ "bufferOwned" \in files[v].mode
          /\ files[u].buffer = files[v].buffer
          => u = v)'
  <2> SUFFICES ASSUME NEW u \in Streams!Streams, NEW v \in Streams!Streams,
                      (/\ Streams!Live(u) /\ "bufferOwned" \in files[u].mode
                       /\ Streams!Live(v) /\ "bufferOwned" \in files[v].mode
                       /\ files[u].buffer = files[v].buffer)'
               PROVE  u = v
    OBVIOUS
  <2>1. /\ files'[u] = files[u] /\ Streams!Live(u)
        /\ files'[v] = files[v] /\ Streams!Live(v)
    BY <1>13
  <2> QED BY <2>1 DEF LifeInv
<1>16. Streams!Streams' = Streams!Streams
  BY DEF Streams!Streams
<1>17. Distinct(streams)'
  BY DEF Distinct
<1> QED BY <1>5, <1>9, <1>10, <1>11, <1>12, <1>14, <1>15, <1>16, <1>17 DEF LifeInv

(* discard_failed_rebind and the release at the end of fclose leave of a   *)
(* FILE nothing, and of the predefined one an object without a descriptor. *)
LEMMA EmptiedFile ==
    ASSUME NEW f \in FileSet
    PROVE  [Streams!Reset(Streams!Unbuffer(f)) EXCEPT !.fd = Streams!NoFd, !.mode = {}]
             = [fd |-> Streams!NoFd, mode |-> {}, orientation |-> "none",
                pending |-> <<>>, buffer |-> "inline"]
<1>1. PICK a : a = Streams!Unbuffer(f)
  OBVIOUS
<1>2. a = [fd |-> f.fd, mode |-> f.mode \ {"bufferOwned"}, orientation |-> f.orientation,
           pending |-> f.pending, buffer |-> "inline"]
  BY <1>1 DEF FileSet, Streams!Unbuffer
<1>3. PICK b : b = Streams!Reset(a)
  OBVIOUS
<1>4. b = [fd |-> f.fd, mode |-> f.mode \ {"bufferOwned"}, orientation |-> "none",
           pending |-> <<>>, buffer |-> "inline"]
  BY <1>2, <1>3 DEF Streams!Reset
<1>5. PICK c : c = [b EXCEPT !.fd = Streams!NoFd, !.mode = {}]
  OBVIOUS
<1>6. c = [fd |-> Streams!NoFd, mode |-> {}, orientation |-> "none",
           pending |-> <<>>, buffer |-> "inline"]
  BY <1>4, <1>5
<1> QED BY <1>1, <1>3, <1>5, <1>6

LEMMA DiscardEnds ==
    ASSUME LifeInv, NEW s \in Streams!Streams, Streams!Usable(files[s]),
           Streams!Discard(s, files[s])
    PROVE  \E g :
             /\ files' = [files EXCEPT ![s] = g]
             /\ s # Std => g = Streams!Gone
             /\ s = Std => g = [fd |-> Streams!NoFd, mode |-> {}, orientation |-> "none",
                                pending |-> <<>>, buffer |-> "inline"]
             /\ allocated' = allocated \ Streams!Released(files[s])
             /\ streams' \in Seq(Streams!Streams) /\ Distinct(streams')
             /\ Range(streams') = Range(streams) \/ Range(streams') = Range(streams) \ {s}
             /\ s # Std => s \notin Range(streams')
<1>1. LifeTypes /\ FileOK(s) /\ files[s] \in FileSet
  BY LifeFacts DEF LifeInv
<1>2. s \in Range(streams) /\ (s # Std <=> "owned" \in files[s].mode)
  BY <1>1 DEF LifeInv, FileOK
<1>3. CASE s # Std
  <2>1. /\ files' = [files EXCEPT ![s] = Streams!Gone]
        /\ streams' = Streams!Unregistered(s)
        /\ allocated' = allocated \ Streams!Released(files[s])
    BY <1>2, <1>3 DEF Streams!Discard
  <2>2. /\ streams' \in Seq(Streams!Streams) /\ Distinct(streams')
        /\ Range(streams') = Range(streams) \ {s}
    BY <1>2, <2>1, UnregisteredList
  <2>3. s \notin Range(streams')
    BY <2>2
  <2> QED BY <1>3, <2>1, <2>2, <2>3
<1>4. CASE s = Std
  <2>1. PICK g : g = [Streams!Reset(Streams!Unbuffer(files[s]))
                        EXCEPT !.fd = Streams!NoFd, !.mode = {}]
    OBVIOUS
  <2>2. g = [fd |-> Streams!NoFd, mode |-> {}, orientation |-> "none",
             pending |-> <<>>, buffer |-> "inline"]
    BY <1>1, <2>1, EmptiedFile
  <2>3. /\ files' = [files EXCEPT ![s] = g] /\ streams' = streams
        /\ allocated' = allocated \ Streams!Released(files[s])
    BY <1>2, <1>4, <2>1 DEF Streams!Discard
  <2>4. streams \in Seq(Streams!Streams) /\ Distinct(streams)
    BY <1>1 DEF LifeInv, LifeTypes
  <2>5. /\ streams' \in Seq(Streams!Streams) /\ Distinct(streams')
        /\ Range(streams') = Range(streams)
    BY <2>3, <2>4
  <2> QED BY <1>4, <2>2, <2>3, <2>5
<1> QED BY <1>3, <1>4

(* The lock's holder has closed the descriptor of its stream.              *)
LEMMA HeldStream ==
    ASSUME LifeInv, NEW t \in Threads, Holding(t),
           NEW s, s = fileTask[t].stream
    PROVE  /\ s \in Streams!Streams /\ Streams!Usable(files[s]) /\ Streams!Live(s)
           /\ \A u : Streams!Changing(u) <=> u = s
           /\ \A u \in Threads \ {t} : ~Holding(u)
           /\ \A d \in Descriptors : fds[d].for # s
<1>1. LifeTypes /\ s \in Streams!Streams /\ Streams!Usable(files[s])
  BY DEF LifeInv, FileTask
<1>2. Streams!Live(s)
  BY <1>1, LifeFacts
<1>3. \A u : Streams!Changing(u) <=> u = s
  BY Alone
<1>4. \A u \in Threads \ {t} : ~Holding(u)
  BY DEF LifeInv
<1>5. ASSUME NEW d \in Descriptors, fds[d].for = s PROVE FALSE
  <2>1. Owned(d) /\ s # NoOne
    BY <1>1, LifeConstants DEF LifeInv
  <2>2. PICK u \in Threads : fileTask[u].at = "register" /\ fileTask[u].fd = d
    BY <1>3, <1>5, <2>1 DEF Owned
  <2>3. FileTask(u) /\ Fetching(u)
    BY <2>2 DEF LifeInv, Fetching
  <2>4. fileTask[u].cell = s /\ ~Streams!Live(s)
    BY <1>5, <2>2, <2>3 DEF FileTask, Streams!Opened
  <2> QED BY <1>2, <2>4
<1> QED BY <1>1, <1>2, <1>3, <1>4, <1>5

LEMMA FcloseReleaseStep ==
    ASSUME LifeInv, NEW t \in Threads, Streams!FcloseRelease(t)
    PROVE  LifeInv'
<1>1. PICK s : s = fileTask[t].stream
  OBVIOUS
<1>2. /\ fileTask[t].at = "fclose" /\ Holding(t) /\ ~Fetching(t)
      /\ fds' = fds /\ encoding' = encoding /\ silent' = silent /\ io' = NoOne
      /\ streams' = Streams!Unregistered(s)
      /\ allocated' = allocated \ Streams!Released(files[s])
      /\ files' = [files EXCEPT ![s] =
           IF "owned" \in files[s].mode THEN Streams!Gone
           ELSE [Streams!Reset(Streams!Unbuffer(files[s]))
                   EXCEPT !.fd = Streams!NoFd, !.mode = {}]]
      /\ fileTask' = [fileTask EXCEPT ![t] = Streams!Idle]
  BY <1>1 DEF Streams!FcloseRelease, Holding, Fetching
<1>3. /\ s \in Streams!Streams /\ Streams!Usable(files[s]) /\ Streams!Live(s)
      /\ \A u : Streams!Changing(u) <=> u = s
      /\ \A u \in Threads \ {t} : ~Holding(u)
      /\ \A d \in Descriptors : fds[d].for # s
  BY <1>1, <1>2, HeldStream
<1>4. LifeTypes /\ FileOK(s) /\ files[s] \in FileSet
  BY <1>3, LifeFacts DEF LifeInv
<1>5. PICK g : g = IF "owned" \in files[s].mode THEN Streams!Gone
                   ELSE [Streams!Reset(Streams!Unbuffer(files[s]))
                           EXCEPT !.fd = Streams!NoFd, !.mode = {}]
  OBVIOUS
<1>6. /\ files' = [files EXCEPT ![s] = g]
      /\ s # Std => g = Streams!Gone
      /\ s = Std => g = [fd |-> Streams!NoFd, mode |-> {}, orientation |-> "none",
                         pending |-> <<>>, buffer |-> "inline"]
  BY <1>2, <1>4, <1>5, EmptiedFile DEF FileOK
<1>7. /\ streams' \in Seq(Streams!Streams) /\ Distinct(streams')
      /\ Range(streams') = Range(streams) \ {s} /\ s \notin Range(streams')
  <2>1. s \in Range(streams)
    BY <1>3 DEF LifeInv
  <2> QED BY <1>2, <2>1, UnregisteredList
<1>8. /\ DOMAIN fileTask' = Threads
      /\ \A u \in Threads : \/ fileTask'[u] = fileTask[u] /\ ~Holding(u)
                            \/ fileTask'[u] = Streams!Idle /\ ~Fetching(u)
  BY <1>2, <1>3, <1>4 DEF LifeTypes
<1>9. fds' \in [Descriptors -> OpenSet] /\ silent' = FALSE
  BY <1>2, <1>4 DEF LifeTypes
<1>10. \A d \in Descriptors :
          IF fds[d].for = s THEN fds'[d] = Streams!Closed ELSE fds'[d] = fds[d]
  BY <1>2, <1>3
<1>11. \A u \in Streams!Streams : Streams!Changing(u) => u = s
  BY <1>3
<1>12. io' = NoOne /\ UNCHANGED <<encoding>> /\ allocated' = allocated \ Streams!Released(files[s])
  BY <1>2
<1>13. s \in Streams!Streams /\ Streams!Usable(files[s])
  BY <1>3
<1> QED BY <1>6, <1>7, <1>8, <1>9, <1>10, <1>11, <1>12, <1>13, EndStep

LEMMA FreopenStep ==
    ASSUME LifeInv, NEW t \in Threads, NEW s \in Streams!Streams, NEW m,
           Streams!Freopen(t, s, m)
    PROVE  LifeInv'
<1>1. /\ fileTask[t] = Streams!Idle /\ io = NoOne /\ Streams!Usable(files[s])
      /\ Streams!OpenMode(m) # {} /\ encoding' = encoding
  BY DEF Streams!Freopen
<1>2. PICK k \in Streams!Lengths(files[s]), closeFailed \in BOOLEAN :
        /\ Streams!FlushAndClose(s, k, closeFailed)
        /\ IF Streams!FirstError(Streams!Cut(files[s], k), closeFailed)
           THEN Streams!Discard(s, files[s]) /\ UNCHANGED <<io, fileTask>>
           ELSE /\ io' = t
                /\ fileTask' = [fileTask EXCEPT ![t] =
                     [at |-> "reopen", stream |-> s, mode |-> Streams!OpenMode(m)]]
                /\ UNCHANGED <<files, streams, allocated>>
  BY DEF Streams!Freopen
<1>3. fds' = [fds EXCEPT ![files[s].fd] = Streams!Closed] /\ silent' = FALSE
  BY <1>1, <1>2, FlushAndCloseStep
<1>4. CASE Streams!FirstError(Streams!Cut(files[s], k), closeFailed)
  <2>1. Streams!Discard(s, files[s]) /\ io' = io /\ fileTask' = fileTask
    BY <1>2, <1>4
  <2>2. PICK g :
             /\ files' = [files EXCEPT ![s] = g]
             /\ s # Std => g = Streams!Gone
             /\ s = Std => g = [fd |-> Streams!NoFd, mode |-> {}, orientation |-> "none",
                                pending |-> <<>>, buffer |-> "inline"]
             /\ allocated' = allocated \ Streams!Released(files[s])
             /\ streams' \in Seq(Streams!Streams) /\ Distinct(streams')
             /\ Range(streams') = Range(streams) \/ Range(streams') = Range(streams) \ {s}
             /\ s # Std => s \notin Range(streams')
    BY <1>1, <2>1, DiscardEnds
  <2>3. /\ LifeTypes /\ Bound(s) /\ Streams!Live(s)
        /\ \A u : ~Streams!Changing(u)
        /\ \A u \in Threads : ~Holding(u)
    BY <1>1, Quiet, LifeFacts, LifeConstants DEF LifeInv
  <2>4. PICK d \in Descriptors : d = files[s].fd /\ fds[d].for = s
    BY <2>3 DEF Bound
  <2>5. ASSUME NEW e \in Descriptors, fds[e].for = s PROVE e = d
    <3>1. Owned(e) /\ s # NoOne
      BY LifeConstants DEF LifeInv
    <3>2. CASE \E u \in Threads : fileTask[u].at = "register" /\ fileTask[u].fd = e
      <4>1. PICK u \in Threads : fileTask[u].at = "register" /\ fileTask[u].fd = e
        BY <3>2
      <4>2. FileTask(u) /\ Fetching(u)
        BY <4>1 DEF LifeInv, Fetching
      <4>3. fileTask[u].cell = s /\ ~Streams!Live(s)
        BY <2>5, <4>1, <4>2 DEF FileTask, Streams!Opened
      <4> QED BY <2>3, <4>3
    <3> QED BY <2>4, <2>5, <3>1, <3>2 DEF Owned
  <2>6. fds' \in [Descriptors -> OpenSet]
    BY <1>3, <2>3, ClosedFree DEF LifeTypes
  <2>7. \A e \in Descriptors :
          IF fds[e].for = s THEN fds'[e] = Streams!Closed ELSE fds'[e] = fds[e]
    BY <1>3, <2>3, <2>4, <2>5 DEF LifeTypes
  <2>8. /\ DOMAIN fileTask' = Threads
        /\ \A u \in Threads : \/ fileTask'[u] = fileTask[u] /\ ~Holding(u)
                              \/ fileTask'[u] = Streams!Idle /\ ~Fetching(u)
    BY <2>1, <2>3 DEF LifeTypes
  <2>9. \A u \in Streams!Streams : Streams!Changing(u) => u = s
    BY <2>3
  <2>10. io' = NoOne /\ UNCHANGED <<encoding>>
    BY <1>1, <2>1
  <2> QED BY <1>1, <1>3, <2>2, <2>6, <2>7, <2>8, <2>9, <2>10, EndStep
<1>5. CASE ~Streams!FirstError(Streams!Cut(files[s], k), closeFailed)
  <2>1. PICK task : task = [at |-> "reopen", stream |-> s, mode |-> Streams!OpenMode(m)]
    OBVIOUS
  <2>2. /\ io' = t /\ fileTask' = [fileTask EXCEPT ![t] = task]
        /\ UNCHANGED <<files, streams, allocated, encoding>>
    BY <1>1, <1>2, <1>5, <2>1
  <2>3. task.at = "reopen" /\ task.stream = s /\ ModeOK(task.mode)
    BY <1>1, <2>1, OpenModeFlags
  <2> QED BY <1>1, <1>3, <2>2, <2>3, HoldStep
<1> QED BY <1>4, <1>5

(* The second half of a freopen that goes on: the same object and buffer,  *)
(* descriptor d and a stream that accepted nothing, opened for mode m.     *)
Rebound(t, s, d, m, g) ==
    /\ Holding(t) /\ s = fileTask[t].stream /\ fds[d].for = NoOne
    /\ fds' = [fds EXCEPT ![d] = Streams!Opened(s)]
    /\ ModeOK(m)
    /\ g.fd = d /\ g.orientation = "none" /\ g.pending = <<>>
    /\ g.buffer = files[s].buffer
    /\ g.mode = (m \ {"owned"})
                \cup (files[s].mode \cap {"owned", "unbuffered", "bufferOwned"})
    /\ files' = [files EXCEPT ![s] = g]
    /\ io' = NoOne /\ fileTask' = [fileTask EXCEPT ![t] = Streams!Idle]
    /\ UNCHANGED <<streams, allocated, encoding, silent>>

LEMMA RebindStep ==
    ASSUME LifeInv, NEW t \in Threads, NEW s, NEW d \in Descriptors, NEW m, NEW g \in FileSet,
           Rebound(t, s, d, m, g)
    PROVE  LifeInv'
<1> USE DEF Rebound
<1>1. /\ s \in Streams!Streams /\ Streams!Usable(files[s]) /\ Streams!Live(s)
      /\ \A u : Streams!Changing(u) <=> u = s
      /\ \A u \in Threads \ {t} : ~Holding(u)
      /\ \A e \in Descriptors : fds[e].for # s
  BY HeldStream
<1>2. LifeTypes /\ FileOK(s)
  BY <1>1 DEF LifeInv
<1>3. /\ Streams!Usable(g)
      /\ "owned" \in g.mode <=> "owned" \in files[s].mode
      /\ "bufferOwned" \in g.mode <=> "bufferOwned" \in files[s].mode
  BY DEF ModeOK, Streams!Usable
<1>4. PICK o \in OpenSet : o = Streams!Opened(s) /\ o.for = s
                           /\ o.written = <<>> /\ o.accepted = <<>>
  <2>1. PICK o : o = [for |-> s, written |-> <<>>, accepted |-> <<>>]
    OBVIOUS
  <2>2. <<>> \in Seq(ByteSet) /\ s \in Streams!Streams \cup {NoOne}
    BY <1>1
  <2>3. o \in OpenSet /\ o.for = s /\ o.written = <<>> /\ o.accepted = <<>>
    BY <2>1, <2>2 DEF OpenSet
  <2> QED BY <2>1, <2>3 DEF Streams!Opened
<1>5. /\ files' \in [Streams!Streams -> FileSet \cup {Streams!Gone}]
      /\ files'[s] = g /\ \A u \in Streams!Streams \ {s} : files'[u] = files[u]
      /\ fds' \in [Descriptors -> OpenSet] /\ fds'[d] = o
      /\ \A e \in Descriptors \ {d} : fds'[e] = fds[e]
      /\ DOMAIN fileTask' = Threads /\ fileTask'[t] = Streams!Idle
      /\ \A u \in Threads \ {t} : fileTask'[u] = fileTask[u]
  BY <1>1, <1>2, <1>4 DEF LifeTypes
<1>6. LifeTypes'
  BY <1>2, <1>5 DEF LifeTypes, Streams!Streams, FileSet, OpenSet, ByteSet, Flags, Streams!Gone,
                    Streams!NoFd
<1>7. ~Holding(t)' /\ ~Fetching(t)' /\ FileTask(t)'
  BY <1>5 DEF Holding, Fetching, FileTask, Streams!Idle
<1>8. ASSUME NEW u \in Threads \ {t}
      PROVE  /\ FileTask(u)' /\ (Holding(u)' <=> Holding(u)) /\ (Fetching(u)' <=> Fetching(u))
             /\ fileTask'[u] = fileTask[u]
  <2>1. FileTask(u) /\ fileTask'[u] = fileTask[u]
    BY <1>5 DEF LifeInv
  <2>2. Fetching(u) => ~Streams!Live(fileTask[u].cell)'
    <3>1. Fetching(u) => fileTask[u].cell \in Streams!Streams \ {s}
      BY <1>1, <2>1, LifeConstants DEF FileTask
    <3> QED BY <1>5, <2>1, <3>1 DEF FileTask, Streams!Live, Streams!Gone
  <2>3. fileTask[u].at = "register" => fds'[fileTask[u].fd] = fds[fileTask[u].fd]
    <3>1. fileTask[u].at = "register" =>
            /\ fileTask[u].fd \in Descriptors /\ fds[fileTask[u].fd].for = fileTask[u].cell
            /\ fileTask[u].cell \in Files
      BY <2>1 DEF FileTask, Fetching, Streams!Opened
    <3> QED BY <1>5, <3>1, LifeConstants
  <2> QED BY <1>1, <2>1, <2>2, <2>3, FileTaskKept
<1>9. \A u \in Threads : FileTask(u)' /\ (io = u <=> Holding(u))'
  BY <1>1, <1>7, <1>8, LifeConstants
<1>10. \A u, v \in Threads :
         (Fetching(u) /\ Fetching(v) /\ fileTask[u].cell = fileTask[v].cell => u = v)'
  <2> SUFFICES ASSUME NEW u \in Threads, NEW v \in Threads, Fetching(u)', Fetching(v)',
                      fileTask'[u].cell = fileTask'[v].cell
               PROVE  u = v
    OBVIOUS
  <2>1. u # t /\ v # t
    BY <1>7
  <2> QED BY <1>8, <2>1 DEF LifeInv
<1>11. \A u : ~Streams!Changing(u)'
  BY <1>1, <1>7, <1>8 DEF Streams!Changing, Holding
<1>12. Distinct(streams)' /\ Range(streams)' = Range(streams)
  BY DEF LifeInv, Distinct, Range
<1>13. ASSUME NEW u \in Streams!Streams
       PROVE  /\ Streams!Live(u)' <=> Streams!Live(u)
              /\ Streams!Usable(files[u])' <=> Streams!Usable(files[u])
              /\ Streams!Live(u) => FileOK(u)'
              /\ Streams!Usable(files[u]) => Bound(u)'
              /\ Streams!Live(u) => /\ files'[u].buffer = files[u].buffer
                                    /\ "bufferOwned" \in files'[u].mode
                                       <=> "bufferOwned" \in files[u].mode
  <2>1. CASE u = s
    <3>1. Streams!Live(u)'
      BY <1>2, <1>5, <2>1, LifeFacts DEF Streams!Live, Streams!Gone
    <3>2. FileOK(u)'
      BY <1>2, <1>3, <1>5, <2>1 DEF FileOK, Streams!Usable
    <3>3. Bound(u)'
      <4>1. <<>> \o <<>> = <<>> /\ Range(<<>>) = {}
        BY DEF Range
      <4> QED BY <1>4, <1>5, <2>1, <4>1 DEF Bound
    <3> QED BY <1>1, <1>3, <1>5, <2>1, <3>1, <3>2, <3>3 DEF Streams!Usable
  <2>2. CASE u # s
    <3>1. files'[u] = files[u]
      BY <1>5, <2>2
    <3>2. Streams!Usable(files[u]) => Bound(u)'
      <4>1. ASSUME Streams!Usable(files[u]) PROVE Bound(u)'
        <5>1. Bound(u)
          BY <1>1, <2>2, <4>1 DEF LifeInv
        <5>2. fds'[files[u].fd] = fds[files[u].fd]
          BY <1>5, <5>1, LifeConstants DEF Bound
        <5> QED BY <3>1, <5>1, <5>2 DEF Bound
      <4> QED BY <4>1
    <3>3. Streams!Live(u) => FileOK(u)'
      <4>1. Streams!Live(u) => FileOK(u)
        BY DEF LifeInv
      <4> QED BY <3>1, <4>1 DEF FileOK, Streams!Usable, Streams!NoFd
    <3> QED BY <3>1, <3>2, <3>3 DEF Streams!Live, Streams!Gone, Streams!Usable
  <2> QED BY <2>1, <2>2
<1>14. ASSUME NEW e \in Descriptors PROVE Owned(e)'
  <2>1. CASE e = d
    BY <1>1, <1>3, <1>4, <1>5, <1>11, <2>1 DEF Owned, Streams!Usable
  <2>2. CASE e # d /\ fds[e].for = NoOne
    BY <1>5, <2>2 DEF LifeInv, Owned, Streams!Closed, Streams!Opened
  <2>3. CASE e # d /\ fds[e].for # NoOne
    <3>1. PICK u \in Streams!Streams : u = fds[e].for /\ u # s /\ fds'[e] = fds[e]
      BY <1>1, <1>2, <1>5, <2>3 DEF LifeTypes, OpenSet
    <3>2. CASE Streams!Usable(files[u]) /\ files[u].fd = e
      BY <1>5, <1>11, <2>3, <3>1, <3>2 DEF Owned, Streams!Usable
    <3>3. CASE \E v \in Threads : fileTask[v].at = "register" /\ fileTask[v].fd = e
      <4>1. \E v \in Threads : fileTask'[v].at = "register" /\ fileTask'[v].fd = e
        BY <1>5, <3>3 DEF Holding
      <4> QED BY <2>3, <3>1, <4>1 DEF Owned
    <3> QED BY <2>3, <3>1, <3>2, <3>3 DEF LifeInv, Owned
  <2> QED BY <2>1, <2>2, <2>3
<1>15. \A b \in allocated' : \E u \in Streams!Streams :
         (Streams!Live(u) /\ "bufferOwned" \in files[u].mode /\ files[u].buffer = b)'
  BY <1>13 DEF LifeInv
<1>16. \A u, v \in Streams!Streams :
         (/\ Streams!Live(u) /\ "bufferOwned" \in files[u].mode
          /\ Streams!Live(v) /\ "bufferOwned" \in files[v].mode
          /\ files[u].buffer = files[v].buffer
          => u = v)'
  BY <1>13 DEF LifeInv
<1>17. Streams!Streams' = Streams!Streams
  BY DEF Streams!Streams
<1>18. ASSUME NEW u \in Streams!Streams
       PROVE  /\ (u \in Range(streams) => Streams!Live(u))'
              /\ (Streams!Usable(files[u]) => u \in Range(streams))'
  BY <1>12, <1>13 DEF LifeInv
<1> QED BY <1>6, <1>9, <1>10, <1>12, <1>13, <1>14, <1>15, <1>16, <1>17, <1>18 DEF LifeInv

LEMMA FreopenOpenStep ==
    ASSUME LifeInv, NEW t \in Threads, Streams!FreopenOpen(t)
    PROVE  LifeInv'
<1>1. PICK s, f, kept :
        /\ s = fileTask[t].stream /\ f = files[s]
        /\ kept = f.mode \cap {"owned", "unbuffered", "bufferOwned"}
  OBVIOUS
<1>2. /\ fileTask[t].at = "reopen" /\ Holding(t) /\ ~Fetching(t) /\ io' = NoOne
      /\ fileTask' = [fileTask EXCEPT ![t] = Streams!Idle]
      /\ encoding' = encoding /\ silent' = silent
  BY DEF Streams!FreopenOpen, Holding, Fetching
<1>3. /\ s \in Streams!Streams /\ Streams!Usable(files[s]) /\ Streams!Live(s)
      /\ \A u : Streams!Changing(u) <=> u = s
      /\ \A u \in Threads \ {t} : ~Holding(u)
      /\ \A d \in Descriptors : fds[d].for # s
  BY <1>1, <1>2, HeldStream
<1>4. LifeTypes /\ FileOK(s) /\ files[s] \in FileSet /\ ModeOK(fileTask[t].mode)
  <2>1. FileTask(t)
    BY DEF LifeInv
  <2> QED BY <1>2, <1>3, <2>1, LifeFacts DEF LifeInv, FileTask
<1>5. CASE Streams!Discard(s, f) /\ fds' = fds
  <2>1. PICK g :
             /\ files' = [files EXCEPT ![s] = g]
             /\ s # Std => g = Streams!Gone
             /\ s = Std => g = [fd |-> Streams!NoFd, mode |-> {}, orientation |-> "none",
                                pending |-> <<>>, buffer |-> "inline"]
             /\ allocated' = allocated \ Streams!Released(files[s])
             /\ streams' \in Seq(Streams!Streams) /\ Distinct(streams')
             /\ Range(streams') = Range(streams) \/ Range(streams') = Range(streams) \ {s}
             /\ s # Std => s \notin Range(streams')
    BY <1>1, <1>3, <1>5, DiscardEnds
  <2>2. /\ DOMAIN fileTask' = Threads
        /\ \A u \in Threads : \/ fileTask'[u] = fileTask[u] /\ ~Holding(u)
                              \/ fileTask'[u] = Streams!Idle /\ ~Fetching(u)
    BY <1>2, <1>3, <1>4 DEF LifeTypes
  <2>3. fds' \in [Descriptors -> OpenSet] /\ silent' = FALSE /\ UNCHANGED <<encoding>>
    BY <1>2, <1>4, <1>5 DEF LifeTypes
  <2>4. \A d \in Descriptors :
          IF fds[d].for = s THEN fds'[d] = Streams!Closed ELSE fds'[d] = fds[d]
    BY <1>3, <1>5
  <2>5. \A u \in Streams!Streams : Streams!Changing(u) => u = s
    BY <1>3
  <2>6. s \in Streams!Streams /\ Streams!Usable(files[s]) /\ io' = NoOne
    BY <1>2, <1>3
  <2> QED BY <2>1, <2>2, <2>3, <2>4, <2>5, <2>6, EndStep
<1>6. CASE /\ Streams!Free # {}
           /\ fds' = [fds EXCEPT ![Streams!Lowest] = Streams!Opened(s)]
           /\ files' = [files EXCEPT ![s] =
                [Streams!Reset(f) EXCEPT !.fd = Streams!Lowest,
                                         !.mode = (fileTask[t].mode \ {"owned"}) \cup kept]]
           /\ UNCHANGED <<streams, allocated>>
  <2>1. PICK d \in Descriptors : d = Streams!Lowest /\ fds[d].for = NoOne
    BY <1>6, LowestFree
  <2>2. PICK m : m = fileTask[t].mode /\ ModeOK(m)
    BY <1>4
  <2>3. PICK n : n = (m \ {"owned"}) \cup kept
    OBVIOUS
  <2>4. n \in SUBSET Flags
    BY <1>1, <2>2, <2>3 DEF ModeOK, Flags
  <2>5. PICK r : r = Streams!Reset(f)
    OBVIOUS
  <2>6. r = [fd |-> f.fd, mode |-> f.mode, orientation |-> "none", pending |-> <<>>,
             buffer |-> f.buffer]
    BY <1>1, <1>4, <2>5 DEF Streams!Reset, FileSet
  <2>7. PICK g : g = [r EXCEPT !.fd = d, !.mode = n]
    OBVIOUS
  <2>8. g = [fd |-> d, mode |-> n, orientation |-> "none", pending |-> <<>>,
             buffer |-> f.buffer]
    BY <2>6, <2>7
  <2>9. f.buffer \in Buffers \cup {"inline", "caller"} /\ <<>> \in Seq(ByteSet)
    BY <1>1, <1>4 DEF FileSet
  <2>10. /\ g \in FileSet /\ g.fd = d /\ g.orientation = "none" /\ g.pending = <<>>
         /\ g.buffer = files[s].buffer
         /\ g.mode = (m \ {"owned"})
                     \cup (files[s].mode \cap {"owned", "unbuffered", "bufferOwned"})
    BY <1>1, <2>3, <2>4, <2>8, <2>9 DEF FileSet
  <2>11. files' = [files EXCEPT ![s] = g]
    BY <1>6, <2>1, <2>2, <2>3, <2>5, <2>7
  <2>12. fds' = [fds EXCEPT ![d] = Streams!Opened(s)]
    BY <1>6, <2>1
  <2>13. UNCHANGED <<streams, allocated, encoding, silent>>
    BY <1>2, <1>6
  <2>14. Holding(t) /\ s = fileTask[t].stream /\ fds[d].for = NoOne /\ ModeOK(m)
    BY <1>1, <1>2, <2>1, <2>2
  <2>15. io' = NoOne /\ fileTask' = [fileTask EXCEPT ![t] = Streams!Idle]
    BY <1>2
  <2>16. g \in FileSet
    BY <2>10
  <2>17. Rebound(t, s, d, m, g)
    BY <2>10, <2>11, <2>12, <2>13, <2>14, <2>15 DEF Rebound
  <2> QED BY <2>16, <2>17, RebindStep
<1> QED BY <1>1, <1>5, <1>6 DEF Streams!FreopenOpen

LEMMA LifeStep == ASSUME LifeInv, Streams!Next PROVE LifeInv'
<1>1. CASE Streams!Setlocale
  BY <1>1, LifeStays DEF Streams!Setlocale
<1>2. CASE \E t \in Threads :
             \/ \E m \in OpenModes : Streams!FopenAlloc(t, m)
             \/ Streams!FopenOpen(t) \/ Streams!FopenRegister(t)
             \/ Streams!FcloseRelease(t) \/ Streams!FreopenOpen(t)
             \/ Streams!FlushAll(t)
  BY <1>2, FopenAllocStep, FopenOpenStep, FopenRegisterStep, FcloseReleaseStep,
     FreopenOpenStep, FlushAllStep
<1>3. CASE \E t \in Threads, s \in Streams!Streams :
             \/ Streams!Fclose(t, s) \/ Streams!Fflush(t, s)
             \/ \E m \in OpenModes : Streams!Freopen(t, s, m)
             \/ \E wide \in BOOLEAN : Streams!Fwide(t, s, wide)
             \/ \E wide \in BOOLEAN, char \in {"a", "e"} : Streams!Put(t, s, wide, char)
             \/ \E kind \in BufferKinds : Streams!Setvbuf(t, s, kind)
  BY <1>3, FcloseStep, FflushStep, FreopenStep, FwideStep, PutStep, SetvbufStep
<1> QED BY <1>1, <1>2, <1>3 DEF Streams!Next

LEMMA LifeAlways == Spec => []LifeInv
<1>1. Init => LifeInv
  BY LifeInit DEF Init
<1>2. LifeInv /\ [Next]_vars => LifeInv'
  <2> SUFFICES ASSUME LifeInv, [Next]_vars PROVE LifeInv'
    OBVIOUS
  <2>1. CASE Streams!Next
    BY <2>1, LifeStep
  <2>2. CASE UNCHANGED streamVars
    BY <2>2, LifeStays DEF streamVars, LifeInv, LifeTypes
  <2> QED BY <2>1, <2>2 DEF Next, vars
<1> QED BY <1>1, <1>2, PTL DEF Spec

(* file.c and stdio.c: the list holds each live FILE once, a usable FILE   *)
(* has a descriptor of its own, and nothing that was opened or allocated   *)
(* is forgotten, whichever step of fopen, freopen, setvbuf or fclose of    *)
(* any thread failed.                                                      *)
THEOREM OneOwner == Spec => []StreamsAccounted
<1>1. LifeInv => StreamsAccounted
  <2> SUFFICES ASSUME LifeInv PROVE Streams!StreamsAccounted
    BY DEF StreamsAccounted
  <2>1. LifeTypes /\ Range(streams) \subseteq Streams!Streams
    BY RangeOfSeq DEF LifeInv, LifeTypes
  <2>2. \A i, j \in DOMAIN streams : i # j => streams[i] # streams[j]
    BY DEF LifeInv, Distinct
  <2>3. \A s \in Streams!Range(streams) : Streams!Live(s)
    BY <2>1 DEF LifeInv, Streams!Range, Range
  <2>4. \A s \in Streams!Streams :
          Streams!Live(s) /\ Streams!Usable(files[s]) => s \in Streams!Range(streams)
    BY DEF LifeInv, Streams!Range, Range
  <2>5. \A s \in Streams!Streams :
          Streams!Live(s) /\ Streams!Usable(files[s]) /\ ~Streams!Changing(s) =>
            fds[files[s].fd].for = s
    BY DEF LifeInv, Bound
  <2>6. ASSUME NEW d \in Descriptors, fds[d].for # NoOne
        PROVE  \/ Streams!Live(fds[d].for) /\ files[fds[d].for].fd = d
               \/ \E t \in Threads : fileTask[t].at = "register" /\ fileTask[t].fd = d
    <3>1. fds[d].for \in Streams!Streams
      BY <2>1, <2>6 DEF LifeTypes, OpenSet
    <3>2. Owned(d)
      BY DEF LifeInv
    <3> QED BY <2>1, <2>6, <3>1, <3>2, LifeFacts DEF Owned
  <2>7. ASSUME NEW b \in allocated
        PROVE  Streams!Cardinality({s \in Streams!Streams :
                 Streams!Live(s) /\ "bufferOwned" \in files[s].mode /\ files[s].buffer = b}) = 1
    <3>1. PICK s \in Streams!Streams :
            Streams!Live(s) /\ "bufferOwned" \in files[s].mode /\ files[s].buffer = b
      BY DEF LifeInv
    <3>2. {u \in Streams!Streams :
             Streams!Live(u) /\ "bufferOwned" \in files[u].mode /\ files[u].buffer = b} = {s}
      BY <3>1 DEF LifeInv
    <3>3. Cardinality({s}) = 1
      BY FS_Singleton
    <3> QED BY <3>2, <3>3 DEF Streams!Cardinality, Cardinality
  <2> QED BY <2>2, <2>3, <2>4, <2>5, <2>6, <2>7 DEF Streams!StreamsAccounted
<1> QED BY <1>1, LifeAlways, PTL

(* stdio.c and file.c: what a stream accepted is in its file or its        *)
(* buffer, in order, and a close that loses some of it fails.              *)
THEOREM ReportedLoss == Spec => []LossReported
<1>1. LifeInv => LossReported
  BY DEF LifeInv, LifeTypes, Bound, LossReported, Streams!LossReported
<1> QED BY <1>1, LifeAlways, PTL

(* orientation.c and wide_stdio.c: all that a stream accepts between two   *)
(* bindings is in one encoding, whatever setlocale does meanwhile.         *)
THEOREM SingleEncoding == Spec => []OneEncoding
<1>1. LifeInv => OneEncoding
  <2> SUFFICES ASSUME LifeInv, NEW d \in Descriptors
               PROVE  \A b, c \in Range(fds[d].accepted) : b.encoding = c.encoding
    BY DEF OneEncoding, Streams!OneEncoding, Streams!Range, Range
  <2>1. Owned(d) /\ LifeTypes
    BY DEF LifeInv
  <2>2. CASE fds[d].for = NoOne
    BY <2>1, <2>2 DEF Owned, Streams!Closed, Streams!Opened, Range
  <2>3. CASE \E t \in Threads : fileTask[t].at = "register" /\ fileTask[t].fd = d
    <3>1. PICK t \in Threads : fileTask[t].at = "register" /\ fileTask[t].fd = d
      BY <2>3
    <3>2. fds[d] = Streams!Opened(fileTask[t].cell)
      BY <3>1 DEF LifeInv, FileTask
    <3> QED BY <3>2 DEF Streams!Opened, Range
  <2>4. CASE fds[d].for # NoOne /\ ~(\E t \in Threads : fileTask[t].at = "register"
                                                      /\ fileTask[t].fd = d)
    <3>1. PICK s \in Streams!Streams : s = fds[d].for
      BY <2>1, <2>4 DEF LifeTypes, OpenSet
    <3>2. Streams!Usable(files[s]) /\ ~Streams!Changing(s) /\ files[s].fd = d
      BY <2>1, <2>4, <3>1 DEF Owned
    <3>3. Bound(s)
      BY <3>2 DEF LifeInv
    <3> QED BY <3>2, <3>3 DEF Bound
  <2> QED BY <2>2, <2>3, <2>4
<1> QED BY <1>1, LifeAlways, PTL
=============================================================================

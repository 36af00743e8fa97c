------------------------- MODULE AsyncLoggingProofs -------------------------
(***************************************************************************)
(* Theorems about AsyncLogging, for any lines, line sizes, buffer size and *)
(* drop limit (of at least two).                                           *)
(***************************************************************************)
EXTENDS AsyncLogging, SequenceTheorems, TLAPS

\* The backend owns mutex_ exactly inside its critical section, so it never
\* gets past the second lock.
OwnerInSection ==
  /\ backend # "timed"
  /\ mutex_ = "backend" <=> backend \in {"locked", "relock"}

\* append takes nextBuffer_ only when it hands a full buffer to the backend.
NextGoneMeansWork == nextBuffer_ = NoBuffer => buffers_ # <<>>

\* A round writes at least two buffers: one from buffers_ and the current one.
TwoBuffersTaken ==
  /\ backend \in {"none", "entry"} => buffersToWrite = <<>>
  /\ backend \in {"check", "write"} => Len(buffersToWrite) >= 2
  /\ newBuffer1 \in {EmptyBuffer, NoBuffer}
  /\ newBuffer2 \in {EmptyBuffer, NoBuffer}

\* What start() and stop() know of the backend.
Handshake ==
  /\ backend \in {"none", "entry"} <=> latch_ = 1
  /\ control = "new" => backend = "none"
  /\ control \in {"new", "latch"} \/ latch_ = 0
  /\ control \in {"latch", "started"} => running_ = TRUE

\* The inductive invariant.  SparesSuffice is not inductive on its own: the
\* spare that replaces nextBuffer_ can be recycled only because a null
\* nextBuffer_ implies that append has filled a buffer since the last round.
IInv ==
  /\ TypeOK
  /\ OwnerInSection
  /\ NextGoneMeansWork
  /\ TwoBuffersTaken
  /\ Handshake
  /\ SparesSuffice

-----------------------------------------------------------------------------
\* An empty buffer is a buffer, and not a null pointer.
LEMMA EmptyIsBuffer ==
  /\ EmptyBuffer \in Buffers
  /\ EmptyBuffer # NoBuffer
  /\ EmptyBuffer.length = 0
<1>1. <<>> \in Seq(Lines \X Nat)
  BY EmptySeq
<1>2. EmptyBuffer \in Buffers /\ EmptyBuffer.length = 0
  BY <1>1, BufferSizeAssumption DEF EmptyBuffer, Buffers
<1>3. QED
  BY <1>2, NoBufferAssumption

\* FixedBuffer::append stays inside the buffer, whatever the line's size.
LEMMA BufferAppendFits ==
  ASSUME NEW b \in Buffers, NEW m \in Lines
  PROVE  BufferAppend(b, m) \in Buffers
PROOF
<1>1. b.length \in 0 .. BufferSize /\ b.data \in Seq(Lines \X Nat) /\ Size[m] \in Nat
  BY SizeAssumption DEF Buffers
<1>2. /\ Copied(b, m) \in Nat
      /\ b.length + Copied(b, m) \in 0 .. BufferSize
  BY <1>1, BufferSizeAssumption DEF Copied, Avail
<1>3. Append(b.data, <<m, Copied(b, m)>>) \in Seq(Lines \X Nat)
  BY <1>1, <1>2, AppendProperties
<1>4. QED
  BY <1>2, <1>3 DEF BufferAppend, Buffers

\* The constructor establishes the invariant.
LEMMA InitIInv == Init => IInv
PROOF
<1>1. SUFFICES ASSUME Init PROVE IInv
  OBVIOUS
<1>2. TypeOK
  BY <1>1, EmptyIsBuffer, EmptySeq DEF Init, TypeOK, BackendPcs, ControlPcs
<1>3. OwnerInSection /\ NextGoneMeansWork /\ TwoBuffersTaken
  BY <1>1, EmptyIsBuffer
     DEF Init, OwnerInSection, NextGoneMeansWork, TwoBuffersTaken
<1>4. Handshake /\ SparesSuffice
  BY <1>1 DEF Init, Handshake, SparesSuffice
<1>5. QED
  BY <1>2, <1>3, <1>4 DEF IInv

-----------------------------------------------------------------------------
\* append preserves the invariant.
LEMMA AppendIInv ==
  ASSUME IInv, NEW m \in Lines, AppendToCurrent(m) \/ AppendToNext(m)
  PROVE  IInv'
PROOF
<1>1. CASE AppendToCurrent(m)
  <2>1. currentBuffer_' \in Buffers
    BY <1>1, BufferAppendFits DEF IInv, TypeOK, AppendToCurrent
  <2>2. TypeOK'
    BY <1>1, <2>1, AppendProperties
       DEF IInv, TypeOK, AppendToCurrent, locals
  <2>3. QED
    BY <1>1, <2>1, <2>2
       DEF IInv, AppendToCurrent, locals, OwnerInSection, NextGoneMeansWork,
           TwoBuffersTaken, Handshake, SparesSuffice, Kept
<1>2. CASE AppendToNext(m)
  <2>1. currentBuffer_' \in Buffers
    BY <1>2, BufferAppendFits, EmptyIsBuffer DEF IInv, TypeOK, AppendToNext
  <2>2. buffers_' \in Seq(Buffers) /\ buffers_' # <<>>
    BY <1>2, AppendProperties DEF IInv, TypeOK, AppendToNext
  <2>3. TypeOK'
    BY <1>2, <2>1, <2>2, AppendProperties
       DEF IInv, TypeOK, AppendToNext, locals
  <2>4. QED
    BY <1>2, <2>1, <2>2, <2>3
       DEF IInv, AppendToNext, locals, OwnerInSection, NextGoneMeansWork,
           TwoBuffersTaken, Handshake, SparesSuffice, Kept
<1>3. QED
  BY <1>1, <1>2

\* start() and stop() preserve it.
LEMMA ControlIInv ==
  ASSUME IInv, Start \/ LatchWait \/ Stop \/ Join
  PROVE  IInv'
PROOF
<1>1. UNCHANGED <<mutex_, shared, locals, file, histories>>
  BY DEF Start, LatchWait, Stop, Join
<1>2. TypeOK'
  BY <1>1 DEF IInv, TypeOK, Start, LatchWait, Stop, Join, shared, locals,
              histories, BackendPcs, ControlPcs
<1>3. OwnerInSection'
  BY <1>1 DEF IInv, Handshake, OwnerInSection, Start, LatchWait, Stop, Join
<1>4. NextGoneMeansWork'
  BY <1>1 DEF IInv, NextGoneMeansWork, shared
<1>5. TwoBuffersTaken' /\ SparesSuffice'
  BY <1>1 DEF IInv, Handshake, TwoBuffersTaken, SparesSuffice, Kept, Start,
              LatchWait, Stop, Join, shared, locals
<1>6. Handshake'
  BY DEF IInv, TypeOK, Handshake, Start, LatchWait, Stop, Join
<1>7. QED
  BY <1>2, <1>3, <1>4, <1>5, <1>6 DEF IInv

\* The backend's own steps preserve it; the critical section and the end of a
\* round are where buffers change hands.
LEMMA BackendIInv ==
  ASSUME IInv, BackendStep
  PROVE  IInv'
PROOF
<1>1. /\ Len(buffersToWrite) \in Nat /\ Len(buffers_) \in Nat
      /\ <<>> \in Seq(Buffers) /\ Len(<<>>) = 0
  BY LenProperties, EmptySeq DEF IInv, TypeOK
<1>2. CASE ThreadEntry
  <2>1. TypeOK'
    BY <1>2, EmptyIsBuffer
       DEF IInv, TypeOK, ThreadEntry, Handshake, shared, histories, BackendPcs
  <2>2. SparesSuffice' /\ TwoBuffersTaken'
    BY <1>2 DEF IInv, ThreadEntry, SparesSuffice, TwoBuffersTaken, shared
  <2>3. QED
    BY <1>2, <2>1, <2>2
       DEF IInv, TypeOK, ThreadEntry, OwnerInSection, NextGoneMeansWork,
           Handshake, shared
<1>3. CASE LoopTest \/ Lock \/ WaitForSeconds
  <2>1. TypeOK'
    BY <1>3 DEF IInv, TypeOK, LoopTest, Lock, WaitForSeconds, shared, locals,
                histories, BackendPcs
  <2>2. OwnerInSection' /\ Handshake'
    BY <1>3 DEF IInv, OwnerInSection, Handshake, LoopTest, Lock, WaitForSeconds
  <2>3. QED
    BY <1>3, <2>1, <2>2
       DEF IInv, LoopTest, Lock, WaitForSeconds, NextGoneMeansWork,
           TwoBuffersTaken, SparesSuffice, Kept, shared, locals
<1>4. CASE TakeBuffers
  <2>1. /\ newBuffer1 = EmptyBuffer /\ newBuffer2 = EmptyBuffer
        /\ buffersToWrite = <<>>
    BY <1>4 DEF IInv, SparesSuffice, TakeBuffers
  <2>2. /\ buffersToWrite' \in Seq(Buffers)
        /\ Len(buffersToWrite') >= 2
        /\ buffersToWrite' # <<>>
    BY <1>1, <1>4, AppendProperties, EmptySeq DEF IInv, TypeOK, TakeBuffers
  <2>3. TypeOK'
    BY <1>1, <1>4, <2>1, <2>2, EmptyIsBuffer
       DEF IInv, TypeOK, TakeBuffers, histories, BackendPcs
  <2>4. OwnerInSection' /\ Handshake' /\ NextGoneMeansWork'
    BY <1>4, <2>1, EmptyIsBuffer
       DEF IInv, TypeOK, OwnerInSection, Handshake, NextGoneMeansWork, TakeBuffers
  <2>5. TwoBuffersTaken' /\ SparesSuffice'
    BY <1>4, <2>1, <2>2
       DEF IInv, TwoBuffersTaken, SparesSuffice, TakeBuffers
  <2>6. QED
    BY <2>3, <2>4, <2>5 DEF IInv
<1>5. CASE DropBacklog
  <2>1. buffersToWrite' \in Seq(Buffers) /\ Len(buffersToWrite') >= 2
    <3>1. CASE Len(buffersToWrite) > DropLimit
      <4>1. \A k \in 1 .. 2 : buffersToWrite[k] \in Buffers
        BY <1>1, <3>1, DropLimitAssumption, ElementOfSeq DEF IInv, TypeOK
      <4>2. /\ SubSeq(buffersToWrite, 1, 2) \in Seq(Buffers)
            /\ Len(SubSeq(buffersToWrite, 1, 2)) = 2
        BY <4>1, SubSeqProperties
      <4>3. buffersToWrite' = SubSeq(buffersToWrite, 1, 2)
        BY <1>5, <3>1, Zenon DEF DropBacklog
      <4>4. QED
        BY <4>2, <4>3
    <3>2. CASE ~ (Len(buffersToWrite) > DropLimit)
      BY <1>5, <3>2 DEF DropBacklog, IInv, TypeOK, TwoBuffersTaken
    <3>3. QED
      BY <3>1, <3>2
  <2>2. dropped' \subseteq Lines
    <3>1. ASSUME NEW n \in {1, 3}
          PROVE  LinesOf(SubSeq(buffersToWrite, n, Len(buffersToWrite)))
                   \subseteq Lines
      <4> DEFINE bs == SubSeq(buffersToWrite, n, Len(buffersToWrite))
      <4>1. bs \in Seq(Buffers)
        BY <1>1, ElementOfSeq, SubSeqProperties DEF IInv, TypeOK
      <4>2. ASSUME NEW k \in DOMAIN bs, NEW j \in DOMAIN bs[k].data
            PROVE  bs[k].data[j][1] \in Lines
        <5>1. bs[k] \in Buffers
          BY <4>1, <4>2, LenProperties, ElementOfSeq
        <5>2. bs[k].data \in Seq(Lines \X Nat)
          BY <5>1 DEF Buffers
        <5>3. bs[k].data[j] \in Lines \X Nat
          BY <4>2, <5>2, LenProperties, ElementOfSeq
        <5>4. QED
          BY <5>3
      <4>3. QED
        BY <4>2 DEF LinesOf
    <3>2. QED
      BY <1>5, <3>1 DEF DropBacklog, IInv, TypeOK
  <2>3. TypeOK'
    BY <1>5, <2>1, <2>2 DEF IInv, TypeOK, DropBacklog, shared, BackendPcs
  <2>4. TwoBuffersTaken'
    BY <1>5, <2>1 DEF IInv, TwoBuffersTaken, DropBacklog
  <2>5. Len(Kept') = 2
    <3>1. Kept' = SubSeq(buffersToWrite', 1, 2)
      BY <2>1, LenProperties DEF Kept
    <3>2. \A k \in 1 .. 2 : buffersToWrite'[k] \in Buffers
      BY <2>1, LenProperties, ElementOfSeq
    <3>3. QED
      BY <3>1, <3>2, SubSeqProperties
  <2>6. SparesSuffice'
    BY <1>5, <2>5 DEF IInv, SparesSuffice, DropBacklog, shared
  <2>7. QED
    BY <1>5, <2>3, <2>4, <2>6
       DEF IInv, DropBacklog, OwnerInSection, NextGoneMeansWork, Handshake, shared
<1>6. CASE WriteBuffer
  <2>1. file' \in Seq(Lines \X Nat)
    <3>1. buffersToWrite[written + 1] \in Buffers
      BY <1>1, <1>6, ElementOfSeq DEF IInv, TypeOK, WriteBuffer
    <3>2. buffersToWrite[written + 1].data \in Seq(Lines \X Nat)
      BY <3>1 DEF Buffers
    <3>3. QED
      BY <1>6, <3>2, ConcatProperties DEF IInv, TypeOK, WriteBuffer
  <2>2. TypeOK'
    BY <1>6, <2>1 DEF IInv, TypeOK, WriteBuffer, shared, histories
  <2>3. QED
    BY <1>6, <2>2
       DEF IInv, WriteBuffer, OwnerInSection, NextGoneMeansWork,
           TwoBuffersTaken, Handshake, SparesSuffice, Kept, shared
<1>7. CASE Recycle
  <2>1. newBuffer1' = EmptyBuffer /\ newBuffer2' = EmptyBuffer
    BY <1>7 DEF IInv, TwoBuffersTaken, Recycle
  <2>2. TypeOK'
    BY <1>1, <1>7, <2>1, EmptyIsBuffer
       DEF IInv, TypeOK, Recycle, shared, histories, BackendPcs
  <2>3. SparesSuffice' /\ TwoBuffersTaken'
    BY <1>7, <2>1 DEF IInv, SparesSuffice, TwoBuffersTaken, Recycle, shared
  <2>4. QED
    BY <1>7, <2>2, <2>3
       DEF IInv, Recycle, OwnerInSection, NextGoneMeansWork, Handshake, shared
<1>8. QED
  BY <1>2, <1>3, <1>4, <1>5, <1>6, <1>7 DEF BackendStep

\* A stuttering step preserves it.
LEMMA StutterIInv ==
  ASSUME IInv, UNCHANGED vars
  PROVE  IInv'
  BY DEF vars, IInv, TypeOK, OwnerInSection, NextGoneMeansWork,
         TwoBuffersTaken, Handshake, SparesSuffice, Kept

-----------------------------------------------------------------------------
\* IInv holds in every reachable state.
THEOREM Invariance == SafeSpec => []IInv
<1>1. IInv /\ [Next]_vars => IInv'
  BY AppendIInv, ControlIInv, BackendIInv, StutterIInv DEF Next, ControlStep
<1>2. QED
  BY InitIInv, <1>1, PTL DEF SafeSpec

\* Every variable keeps its type: currentBuffer_ is never null, and no buffer
\* holds more bytes than it has, whatever the sizes of the lines.
THEOREM TypeCorrect == SafeSpec => []TypeOK
  BY Invariance, PTL DEF IInv

\* The assertions about the spare buffers in threadFunc never fail, for any
\* sequence of appends of lines of any size.
THEOREM AssertionsHold == SafeSpec => []SparesSuffice
  BY Invariance, PTL DEF IInv

\* assert(running_ == true) never fails, however soon stop() follows start().
THEOREM EntryAssertionHolds == SafeSpec => []StartedBeforeStop
<1>1. IInv => StartedBeforeStop
  BY DEF IInv, TypeOK, ControlPcs, Handshake, StartedBeforeStop
<1>2. QED
  BY Invariance, <1>1, PTL

-----------------------------------------------------------------------------
(* The lines.  What LinesAccounted says, of a log with the parts p[0] to   *)
(* p[n], after the calls s, when dr has been dropped.                      *)

RangeOf(s) == {s[i] : i \in DOMAIN s}

OlderIn(s, x, y) == \E i, j \in DOMAIN s : i < j /\ s[i] = x /\ s[j] = y

InOrder(s, p, n) ==
  \A k, l \in 0 .. n :
    \A i \in DOMAIN p[k], j \in DOMAIN p[l] :
      k < l \/ (k = l /\ i < j) => OlderIn(s, p[k][i][1], p[l][j][1])

IsWhole(p, n) == \A k \in 0 .. n : \A i \in DOMAIN p[k] : p[k][i] = Whole(p[k][i][1])

LoggedIn(p, n) == UNION {{p[k][i][1] : i \in DOMAIN p[k]} : k \in 0 .. n}

IsComplete(s, p, n, dr) ==
  RangeOf(s) = LoggedIn(p, n) \cup dr /\ LoggedIn(p, n) \cap dr = {}

Accounted(s, p, n, dr) == InOrder(s, p, n) /\ IsWhole(p, n) /\ IsComplete(s, p, n, dr)

\* No line was passed twice.
Distinct(s) == \A i, j \in DOMAIN s : s[i] = s[j] => i = j

PartsOK(p, n) == n \in Nat /\ p \in [0 .. n -> Seq(Lines \X Nat)]

\* A line that is in one place of the log is in no other.
LEMMA OlderDiffers ==
  ASSUME NEW s \in Seq(Lines), Distinct(s), NEW x, NEW y, OlderIn(s, x, y)
  PROVE  x # y
BY LenProperties DEF Distinct, OlderIn

\* A call leaves the order of the calls before it as it was, and comes after
\* all of them.
LEMMA OlderGrows ==
  ASSUME NEW s \in Seq(Lines), NEW m \in Lines
  PROVE  /\ \A x, y : OlderIn(s, x, y) => OlderIn(Append(s, m), x, y)
         /\ \A x \in RangeOf(s) : OlderIn(Append(s, m), x, m)
         /\ RangeOf(Append(s, m)) = RangeOf(s) \cup {m}
PROOF
<1>1. /\ Len(s) \in Nat /\ DOMAIN s = 1 .. Len(s)
      /\ DOMAIN Append(s, m) = 1 .. Len(s) + 1
      /\ \A i \in 1 .. Len(s) : Append(s, m)[i] = s[i]
      /\ Append(s, m)[Len(s) + 1] = m
  BY LenProperties, AppendProperties
<1> DEFINE t == Append(s, m)
<1>2. /\ DOMAIN t = 1 .. Len(s) + 1 /\ \A i \in 1 .. Len(s) : t[i] = s[i]
      /\ t[Len(s) + 1] = m
  BY <1>1
<1> HIDE DEF t
<1>3. \A x, y : OlderIn(s, x, y) => OlderIn(t, x, y)
  BY <1>1, <1>2 DEF OlderIn
<1>4. \A x \in RangeOf(s) : OlderIn(t, x, m)
  BY <1>1, <1>2 DEF OlderIn, RangeOf
<1>5. RangeOf(t) = RangeOf(s) \cup {m}
  BY <1>1, <1>2 DEF RangeOf
<1>6. QED
  BY <1>3, <1>4, <1>5 DEF t

\* The line at a place of the log.
LEMMA LoggedAt ==
  ASSUME NEW p, NEW n, NEW k \in 0 .. n, NEW i \in DOMAIN p[k]
  PROVE  p[k][i][1] \in LoggedIn(p, n)
BY DEF LoggedIn

\* A line that is logged has a place.
LEMMA PlaceOf ==
  ASSUME NEW p, NEW n, NEW x \in LoggedIn(p, n)
  PROVE  \E k \in 0 .. n : \E i \in DOMAIN p[k] : p[k][i][1] = x
BY DEF LoggedIn

\* A line that is appended to the last part of the log.
LEMMA LineAdded ==
  ASSUME NEW s \in Seq(Lines), NEW p, NEW n, PartsOK(p, n), NEW dr, Accounted(s, p, n, dr),
         NEW m \in Lines, m \notin RangeOf(s), NEW q, PartsOK(q, n),
         \A k \in 0 .. n - 1 : q[k] = p[k],
         q[n] = Append(p[n], Whole(m))
  PROVE  Accounted(Append(s, m), q, n, dr)
PROOF
<1>1. n \in Nat /\ p \in [0 .. n -> Seq(Lines \X Nat)] /\ q \in [0 .. n -> Seq(Lines \X Nat)]
  BY DEF PartsOK
<1>2. Whole(m) \in Lines \X Nat /\ Whole(m)[1] = m
  BY SizeAssumption, BufferSizeAssumption DEF Whole
<1>3. /\ Len(p[n]) \in Nat /\ DOMAIN p[n] = 1 .. Len(p[n])
      /\ DOMAIN q[n] = 1 .. Len(p[n]) + 1
      /\ \A i \in 1 .. Len(p[n]) : q[n][i] = p[n][i]
      /\ q[n][Len(p[n]) + 1] = Whole(m)
  <2>1. p[n] \in Seq(Lines \X Nat)
    BY <1>1
  <2>2. QED
    BY <1>2, <2>1, LenProperties, AppendProperties
\* Every place of the new log is one of the old log, or the last one.
<1>4. ASSUME NEW k \in 0 .. n, NEW i \in DOMAIN q[k]
      PROVE  \/ i \in DOMAIN p[k] /\ q[k][i] = p[k][i]
             \/ k = n /\ i = Len(p[n]) + 1 /\ q[k][i] = Whole(m)
  <2>1. CASE k = n
    <3>1. i \in 1 .. Len(p[n]) \/ i = Len(p[n]) + 1
      BY <1>3, <1>4, <2>1
    <3>2. QED
      BY <1>3, <2>1, <3>1
  <2>2. CASE k \in 0 .. n - 1
    BY <1>4, <2>2
  <2>3. QED
    BY <1>1, <2>1, <2>2
<1>5. ASSUME NEW k \in 0 .. n, NEW i \in DOMAIN p[k]
      PROVE  i \in DOMAIN q[k] /\ q[k][i] = p[k][i] /\ p[k][i][1] \in RangeOf(s)
  <2>1. i \in DOMAIN q[k] /\ q[k][i] = p[k][i]
    <3>1. CASE k = n
      BY <1>3, <1>5, <3>1
    <3>2. CASE k \in 0 .. n - 1
      BY <1>5, <3>2
    <3>3. QED
      BY <1>1, <3>1, <3>2
  <2>2. p[k][i][1] \in LoggedIn(p, n)
    BY DEF LoggedIn
  <2>3. QED
    BY <2>1, <2>2 DEF Accounted, IsComplete
<1>6. InOrder(Append(s, m), q, n)
  <2>1. SUFFICES ASSUME NEW k \in 0 .. n, NEW l \in 0 .. n, NEW i \in DOMAIN q[k],
                        NEW j \in DOMAIN q[l], k < l \/ (k = l /\ i < j)
                 PROVE  OlderIn(Append(s, m), q[k][i][1], q[l][j][1])
    BY DEF InOrder
  <2>2. i \in DOMAIN p[k] /\ q[k][i] = p[k][i]
    <3>1. CASE k = n /\ i = Len(p[n]) + 1
      <4>1. l = n /\ i < j /\ j \in 1 .. Len(p[n]) + 1
        BY <1>1, <1>3, <2>1, <3>1
      <4>2. QED
        BY <1>3, <3>1, <4>1
    <3>2. QED
      BY <1>4, <3>1
  <2>3. CASE j \in DOMAIN p[l] /\ q[l][j] = p[l][j]
    <3>1. OlderIn(s, p[k][i][1], p[l][j][1])
      BY <2>1, <2>2, <2>3 DEF Accounted, InOrder
    <3>2. QED
      BY <2>2, <2>3, <3>1, OlderGrows
  <2>4. CASE q[l][j] = Whole(m)
    <3>1. p[k][i][1] \in RangeOf(s)
      BY <1>5, <2>2
    <3>2. QED
      BY <1>2, <2>2, <2>4, <3>1, OlderGrows
  <2>5. QED
    BY <1>4, <2>3, <2>4
<1>7. IsWhole(q, n)
  BY <1>2, <1>4 DEF Accounted, IsWhole
<1>8. LoggedIn(q, n) = LoggedIn(p, n) \cup {m}
  <2>1. LoggedIn(q, n) \subseteq LoggedIn(p, n) \cup {m}
    BY <1>2, <1>4 DEF LoggedIn
  <2>2. LoggedIn(p, n) \subseteq LoggedIn(q, n)
    BY <1>5 DEF LoggedIn
  <2>3. m \in LoggedIn(q, n)
    <3>1. n \in 0 .. n /\ Len(p[n]) + 1 \in DOMAIN q[n] /\ q[n][Len(p[n]) + 1][1] = m
      BY <1>1, <1>2, <1>3
    <3>2. QED
      BY <3>1, LoggedAt
  <2>4. QED
    BY <2>1, <2>2, <2>3
<1>9. IsComplete(Append(s, m), q, n, dr)
  BY <1>8, OlderGrows DEF Accounted, IsComplete
<1>10. QED
  BY <1>6, <1>7, <1>9 DEF Accounted

\* An empty part changes nothing.
LEMMA EmptyAdded ==
  ASSUME NEW s, NEW p, NEW n, PartsOK(p, n), NEW dr, Accounted(s, p, n, dr),
         NEW q, PartsOK(q, n + 1),
         \A k \in 0 .. n : q[k] = p[k],
         q[n + 1] = <<>>
  PROVE  Accounted(s, q, n + 1, dr)
PROOF
<1>1. n \in Nat
  BY DEF PartsOK
<1>2. ASSUME NEW k \in 0 .. n + 1, NEW i \in DOMAIN q[k]
      PROVE  k \in 0 .. n /\ i \in DOMAIN p[k] /\ q[k][i] = p[k][i]
  <2>1. k # n + 1
    BY <1>2
  <2>2. k \in 0 .. n
    BY <1>1, <1>2, <2>1
  <2>3. QED
    BY <1>2, <2>2
<1>3. ASSUME NEW k \in 0 .. n, NEW i \in DOMAIN p[k]
      PROVE  k \in 0 .. n + 1 /\ i \in DOMAIN q[k] /\ q[k][i] = p[k][i]
  BY <1>1, <1>3
<1>4. InOrder(s, q, n + 1)
  BY <1>2 DEF Accounted, InOrder
<1>5. IsWhole(q, n + 1)
  BY <1>2 DEF Accounted, IsWhole
<1>6. LoggedIn(q, n + 1) = LoggedIn(p, n)
  <2>1. ASSUME NEW x \in LoggedIn(q, n + 1) PROVE x \in LoggedIn(p, n)
    <3>1. PICK k \in 0 .. n + 1 : \E i \in DOMAIN q[k] : q[k][i][1] = x
      BY <2>1, PlaceOf
    <3>2. PICK i \in DOMAIN q[k] : q[k][i][1] = x
      BY <3>1
    <3>3. k \in 0 .. n /\ i \in DOMAIN p[k] /\ p[k][i][1] = x
      BY <1>2, <3>2
    <3>4. QED
      BY <3>3, LoggedAt
  <2>2. ASSUME NEW x \in LoggedIn(p, n) PROVE x \in LoggedIn(q, n + 1)
    <3>1. PICK k \in 0 .. n : \E i \in DOMAIN p[k] : p[k][i][1] = x
      BY <2>2, PlaceOf
    <3>2. PICK i \in DOMAIN p[k] : p[k][i][1] = x
      BY <3>1
    <3>3. k \in 0 .. n + 1 /\ i \in DOMAIN q[k] /\ q[k][i][1] = x
      BY <1>3, <3>2
    <3>4. QED
      BY <3>3, LoggedAt
  <2>3. QED
    BY <2>1, <2>2
<1>7. QED
  BY <1>4, <1>5, <1>6 DEF Accounted, IsComplete

\* Where the elements of two sequences are in their concatenation.
LEMMA ConcatPlaces ==
  ASSUME NEW S, NEW a \in Seq(S), NEW b \in Seq(S)
  PROVE  /\ Len(a) \in Nat /\ DOMAIN a = 1 .. Len(a)
         /\ Len(b) \in Nat /\ DOMAIN b = 1 .. Len(b)
         /\ DOMAIN (a \o b) = 1 .. Len(a) + Len(b)
         /\ \A i \in 1 .. Len(a) : (a \o b)[i] = a[i]
         /\ \A i \in 1 .. Len(a) + Len(b) : i > Len(a) => (a \o b)[i] = b[i - Len(a)]
PROOF
<1>1. /\ Len(a) \in Nat /\ DOMAIN a = 1 .. Len(a)
      /\ Len(b) \in Nat /\ DOMAIN b = 1 .. Len(b)
  BY LenProperties
<1>2. /\ a \o b \in Seq(S) /\ Len(a \o b) = Len(a) + Len(b)
      /\ \A i \in 1 .. Len(a) + Len(b) :
           (a \o b)[i] = IF i <= Len(a) THEN a[i] ELSE b[i - Len(a)]
  BY ConcatProperties
<1>3. DOMAIN (a \o b) = 1 .. Len(a) + Len(b)
  BY <1>2, LenProperties
<1>4. \A i \in 1 .. Len(a) : (a \o b)[i] = a[i]
  BY <1>1, <1>2
<1>5. \A i \in 1 .. Len(a) + Len(b) : i > Len(a) => (a \o b)[i] = b[i - Len(a)]
  BY <1>1, <1>2
<1>6. QED
  BY <1>1, <1>3, <1>4, <1>5

\* The first buffer moves into the file.
LEMMA PartWritten ==
  ASSUME NEW s, NEW p, NEW n, PartsOK(p, n), NEW dr, Accounted(s, p, n, dr), n >= 1,
         NEW q, PartsOK(q, n - 1),
         q[0] = p[0] \o p[1],
         \A k \in 1 .. n - 1 : q[k] = p[k + 1]
  PROVE  Accounted(s, q, n - 1, dr)
PROOF
<1>1. n \in Nat /\ p[0] \in Seq(Lines \X Nat) /\ p[1] \in Seq(Lines \X Nat)
  <2>1. n \in Nat /\ p \in [0 .. n -> Seq(Lines \X Nat)]
    BY DEF PartsOK
  <2>2. 0 \in 0 .. n /\ 1 \in 0 .. n
    BY <2>1
  <2>3. QED
    BY <2>1, <2>2
<1> DEFINE f == Len(p[0])
<1>2. /\ f \in Nat /\ DOMAIN p[0] = 1 .. f
      /\ Len(p[1]) \in Nat /\ DOMAIN p[1] = 1 .. Len(p[1])
      /\ DOMAIN q[0] = 1 .. f + Len(p[1])
      /\ \A i \in 1 .. f : q[0][i] = p[0][i]
      /\ \A i \in 1 .. f + Len(p[1]) : i > f => q[0][i] = p[1][i - f]
  <2>1. PICK a \in Seq(Lines \X Nat), b \in Seq(Lines \X Nat) : a = p[0] /\ b = p[1]
    BY <1>1
  <2>2. /\ Len(a) \in Nat /\ DOMAIN a = 1 .. Len(a)
        /\ Len(b) \in Nat /\ DOMAIN b = 1 .. Len(b)
        /\ DOMAIN (a \o b) = 1 .. Len(a) + Len(b)
        /\ \A i \in 1 .. Len(a) : (a \o b)[i] = a[i]
        /\ \A i \in 1 .. Len(a) + Len(b) : i > Len(a) => (a \o b)[i] = b[i - Len(a)]
    BY ConcatPlaces
  <2>3. q[0] = a \o b
    BY <2>1
  <2>4. QED
    BY <2>1, <2>2, <2>3, Zenon DEF f
<1> HIDE DEF f
\* Where the line at place i of q[k] was.
<1> DEFINE K(k, i) == IF k > 0 THEN k + 1 ELSE IF i <= f THEN 0 ELSE 1
           I(k, i) == IF k > 0 THEN i ELSE IF i <= f THEN i ELSE i - f
<1>3. ASSUME NEW k \in 0 .. n - 1, NEW i \in DOMAIN q[k]
      PROVE  K(k, i) \in 0 .. n /\ I(k, i) \in DOMAIN p[K(k, i)]
             /\ q[k][i] = p[K(k, i)][I(k, i)]
  <2>1. CASE k > 0
    <3>1. k \in 1 .. n - 1 /\ k + 1 \in 0 .. n
      BY <1>1, <1>3, <2>1
    <3>2. QED
      BY <1>3, <2>1, <3>1
  <2>2. CASE k = 0 /\ i <= f
    <3>0. i \in DOMAIN q[0]
      BY <1>3, <2>2
    <3>1. i \in 1 .. f
      BY <1>2, <2>2, <3>0
    <3>2. QED
      BY <1>1, <1>2, <2>2, <3>1
  <2>3. CASE k = 0 /\ i > f
    <3>0. i \in DOMAIN q[0]
      BY <1>3, <2>3
    <3>1. i \in 1 .. f + Len(p[1]) /\ i - f \in 1 .. Len(p[1]) /\ ~(i <= f)
      BY <1>2, <2>3, <3>0
    <3>2. q[0][i] = p[1][i - f] /\ i - f \in DOMAIN p[1] /\ 1 \in 0 .. n
      <4>1. q[0][i] = p[1][i - f]
        BY <1>2, <2>3, <3>1, Zenon
      <4>2. i - f \in DOMAIN p[1]
        BY <1>2, <3>1
      <4>3. 1 \in 0 .. n
        BY <1>1
      <4>4. QED
        BY <4>1, <4>2, <4>3
    <3>3. K(k, i) = 1 /\ I(k, i) = i - f
      BY <2>3, <3>1
    <3>4. QED
      BY <2>3, <3>2, <3>3
  <2>4. k > 0 \/ (k = 0 /\ i <= f) \/ (k = 0 /\ i > f)
    <3>1. CASE k = 0
      <4>1. i \in 1 .. f + Len(p[1])
        BY <1>2, <1>3, <3>1
      <4>2. QED
        BY <1>2, <3>1, <4>1
    <3>2. QED
      BY <1>1, <1>3, <3>1
  <2>5. QED
    BY <2>1, <2>2, <2>3, <2>4
<1>4. ASSUME NEW k \in 0 .. n, NEW i \in DOMAIN p[k]
      PROVE  \E l \in 0 .. n - 1 : \E j \in DOMAIN q[l] : q[l][j] = p[k][i]
  <2>1. CASE k = 0
    <3>0. i \in DOMAIN p[0]
      BY <1>4, <2>1
    <3>1. 0 \in 0 .. n - 1 /\ i \in 1 .. f /\ i \in 1 .. f + Len(p[1])
      BY <1>1, <1>2, <3>0
    <3>2. i \in DOMAIN q[0] /\ q[0][i] = p[0][i]
      BY <1>2, <3>1
    <3>3. QED
      BY <2>1, <3>1, <3>2
  <2>2. CASE k = 1
    <3>1. i \in 1 .. Len(p[1])
      BY <1>2, <1>4, <2>2
    <3>2. i + f \in 1 .. f + Len(p[1]) /\ i + f > f /\ (i + f) - f = i /\ 0 \in 0 .. n - 1
      BY <1>1, <1>2, <3>1
    <3>3. i + f \in DOMAIN q[0] /\ q[0][i + f] = p[1][i]
      BY <1>2, <3>2
    <3>4. QED
      BY <2>2, <3>2, <3>3
  <2>3. CASE k > 1
    <3>1. k - 1 \in 1 .. n - 1 /\ k - 1 \in 0 .. n - 1 /\ (k - 1) + 1 = k
      BY <1>1, <1>4, <2>3
    <3>2. q[k - 1] = p[k]
      BY <3>1
    <3>3. QED
      BY <1>4, <3>1, <3>2
  <2>4. QED
    BY <1>1, <1>4, <2>1, <2>2, <2>3
<1>5. InOrder(s, q, n - 1)
  <2>1. SUFFICES ASSUME NEW k \in 0 .. n - 1, NEW l \in 0 .. n - 1, NEW i \in DOMAIN q[k],
                        NEW j \in DOMAIN q[l], k < l \/ (k = l /\ i < j)
                 PROVE  OlderIn(s, q[k][i][1], q[l][j][1])
    BY DEF InOrder
  <2>2. K(k, i) < K(l, j) \/ (K(k, i) = K(l, j) /\ I(k, i) < I(l, j))
    <3>1. CASE k = 0 /\ l = 0
      <4>0. i \in DOMAIN q[0] /\ j \in DOMAIN q[0]
        BY <2>1, <3>1
      <4>1. i \in 1 .. f + Len(p[1]) /\ j \in 1 .. f + Len(p[1]) /\ i < j
        BY <1>2, <2>1, <3>1, <4>0
      <4>2. QED
        BY <1>2, <3>1, <4>1
    <3>2. CASE k = 0 /\ l > 0
      BY <1>1, <2>1, <3>2
    <3>3. CASE k > 0
      BY <1>1, <2>1, <3>3
    <3>4. QED
      BY <1>1, <2>1, <3>1, <3>2, <3>3
  <2>3. /\ K(k, i) \in 0 .. n /\ I(k, i) \in DOMAIN p[K(k, i)] /\ q[k][i] = p[K(k, i)][I(k, i)]
        /\ K(l, j) \in 0 .. n /\ I(l, j) \in DOMAIN p[K(l, j)] /\ q[l][j] = p[K(l, j)][I(l, j)]
    BY <1>3, <2>1
  <2> HIDE DEF K, I
  <2>4. QED
    BY <2>2, <2>3 DEF Accounted, InOrder
<1> HIDE DEF K, I
<1>6. IsWhole(q, n - 1)
  BY <1>3 DEF Accounted, IsWhole
<1>7. LoggedIn(q, n - 1) = LoggedIn(p, n)
  <2>1. ASSUME NEW x \in LoggedIn(q, n - 1) PROVE x \in LoggedIn(p, n)
    BY <1>3, PlaceOf, LoggedAt
  <2>2. ASSUME NEW x \in LoggedIn(p, n) PROVE x \in LoggedIn(q, n - 1)
    <3>1. PICK k \in 0 .. n : \E i \in DOMAIN p[k] : p[k][i][1] = x
      BY <2>2, PlaceOf
    <3>2. PICK i \in DOMAIN p[k] : p[k][i][1] = x
      BY <3>1
    <3>3. PICK l \in 0 .. n - 1 : \E j \in DOMAIN q[l] : q[l][j] = p[k][i]
      BY <1>4, <3>2
    <3>4. PICK j \in DOMAIN q[l] : q[l][j][1] = x
      BY <3>2, <3>3
    <3>5. QED
      BY <3>4, LoggedAt
  <2>3. QED
    BY <2>1, <2>2
<1>8. QED
  BY <1>5, <1>6, <1>7 DEF Accounted, IsComplete

\* The lines of the c parts behind the first two buffers.
GoneIn(p, c) == UNION {{p[k][i][1] : i \in DOMAIN p[k]} : k \in 3 .. c + 2}

\* The buffers behind the first two, as many as c, are dropped.
LEMMA PartsDropped ==
  ASSUME NEW s \in Seq(Lines), Distinct(s), NEW p, NEW n, PartsOK(p, n), NEW dr,
         Accounted(s, p, n, dr), NEW c \in Nat, n >= c + 2,
         NEW q, PartsOK(q, n - c),
         \A k \in 0 .. 2 : q[k] = p[k],
         \A k \in 3 .. n - c : q[k] = p[k + c],
         NEW gone, gone = GoneIn(p, c)
  PROVE  Accounted(s, q, n - c, dr \cup gone)
PROOF
<1>1. n \in Nat
  BY DEF PartsOK
<1> DEFINE K(k) == IF k <= 2 THEN k ELSE k + c
<1>2. ASSUME NEW k \in 0 .. n - c
      PROVE  K(k) \in 0 .. n /\ K(k) \notin 3 .. c + 2 /\ q[k] = p[K(k)]
  <2>1. CASE k \in 0 .. 2
    BY <1>1, <2>1
  <2>2. CASE k \in 3 .. n - c
    BY <1>1, <2>2
  <2>3. QED
    BY <1>1, <1>2, <2>1, <2>2
<1>3. \A k, l \in 0 .. n - c : (k < l => K(k) < K(l)) /\ (k = l => K(k) = K(l))
  BY <1>1
<1>4. ASSUME NEW k \in 0 .. n, k \notin 3 .. c + 2
      PROVE  \E l \in 0 .. n - c : q[l] = p[k]
  <2>1. CASE k \in 0 .. 2
    <3>1. k \in 0 .. n - c
      BY <1>1, <2>1
    <3>2. QED
      BY <2>1, <3>1
  <2>2. CASE k > c + 2
    <3>1. k - c \in 3 .. n - c /\ k - c \in 0 .. n - c /\ (k - c) + c = k
      BY <1>1, <2>2
    <3>2. q[k - c] = p[k]
      BY <3>1
    <3>3. QED
      BY <3>1, <3>2
  <2>3. QED
    BY <1>1, <1>4, <2>1, <2>2
<1> HIDE DEF K
<1>5. InOrder(s, q, n - c)
  <2>1. SUFFICES ASSUME NEW k \in 0 .. n - c, NEW l \in 0 .. n - c, NEW i \in DOMAIN q[k],
                        NEW j \in DOMAIN q[l], k < l \/ (k = l /\ i < j)
                 PROVE  OlderIn(s, q[k][i][1], q[l][j][1])
    BY DEF InOrder
  <2>2. K(k) < K(l) \/ (K(k) = K(l) /\ i < j)
    BY <1>3, <2>1
  <2>3. /\ K(k) \in 0 .. n /\ K(l) \in 0 .. n /\ q[k] = p[K(k)] /\ q[l] = p[K(l)]
    BY <1>2, <2>1
  <2>4. QED
    BY <2>1, <2>2, <2>3 DEF Accounted, InOrder
<1>6. IsWhole(q, n - c)
  BY <1>2 DEF Accounted, IsWhole
<1>7. ASSUME NEW x \in gone
      PROVE  \E k \in 3 .. c + 2 : k \in 0 .. n /\ \E i \in DOMAIN p[k] : p[k][i][1] = x
  <2>1. PICK k \in 3 .. c + 2 : x \in {p[k][i][1] : i \in DOMAIN p[k]}
    BY <1>7 DEF GoneIn
  <2>2. k \in 0 .. n
    BY <1>1
  <2>3. QED
    BY <2>1, <2>2
<1>8. LoggedIn(p, n) = LoggedIn(q, n - c) \cup gone
  <2>1. ASSUME NEW x \in LoggedIn(p, n) PROVE x \in LoggedIn(q, n - c) \cup gone
    <3>1. PICK k \in 0 .. n : \E i \in DOMAIN p[k] : p[k][i][1] = x
      BY <2>1, PlaceOf
    <3>2. PICK i \in DOMAIN p[k] : p[k][i][1] = x
      BY <3>1
    <3>3. CASE k \in 3 .. c + 2
      BY <3>2, <3>3 DEF GoneIn
    <3>4. CASE k \notin 3 .. c + 2
      <4>1. PICK l \in 0 .. n - c : q[l] = p[k]
        BY <1>4, <3>4
      <4>2. i \in DOMAIN q[l] /\ q[l][i][1] = x
        BY <3>2, <4>1
      <4>3. QED
        BY <4>2, LoggedAt
    <3>5. QED
      BY <3>3, <3>4
  <2>2. ASSUME NEW x \in LoggedIn(q, n - c) PROVE x \in LoggedIn(p, n)
    <3>1. PICK k \in 0 .. n - c : \E i \in DOMAIN q[k] : q[k][i][1] = x
      BY <2>2, PlaceOf
    <3>2. PICK i \in DOMAIN q[k] : q[k][i][1] = x
      BY <3>1
    <3>3. K(k) \in 0 .. n /\ i \in DOMAIN p[K(k)] /\ p[K(k)][i][1] = x
      BY <1>2, <3>2
    <3>4. QED
      BY <3>3, LoggedAt
  <2>3. ASSUME NEW x \in gone PROVE x \in LoggedIn(p, n)
    <3>1. PICK k \in 0 .. n : \E i \in DOMAIN p[k] : p[k][i][1] = x
      BY <1>7, <2>3
    <3>2. PICK i \in DOMAIN p[k] : p[k][i][1] = x
      BY <3>1
    <3>3. QED
      BY <3>2, LoggedAt
  <2>4. QED
    BY <2>1, <2>2, <2>3
\* The dropped lines are not among those that stay: each is logged once.
<1>9. LoggedIn(q, n - c) \cap gone = {}
  <2>1. SUFFICES ASSUME NEW x \in gone, x \in LoggedIn(q, n - c) PROVE FALSE
    OBVIOUS
  <2>2. PICK l \in 3 .. c + 2 : l \in 0 .. n /\ \E i \in DOMAIN p[l] : p[l][i][1] = x
    BY <1>7
  <2>3. PICK j \in DOMAIN p[l] : p[l][j][1] = x
    BY <2>2
  <2>4. PICK k \in 0 .. n - c : \E i \in DOMAIN q[k] : q[k][i][1] = x
    BY <2>1, PlaceOf
  <2>5. PICK i \in DOMAIN q[k] : q[k][i][1] = x
    BY <2>4
  <2>6. K(k) \in 0 .. n /\ K(k) # l /\ i \in DOMAIN p[K(k)] /\ p[K(k)][i][1] = x
    BY <1>2, <2>2, <2>5
  <2>7. K(k) < l \/ l < K(k)
    BY <1>1, <2>2, <2>6
  <2>8. OlderIn(s, x, x)
    BY <2>2, <2>3, <2>6, <2>7 DEF Accounted, InOrder
  <2>9. QED
    BY <2>8, OlderDiffers
<1>10. QED
  BY <1>5, <1>6, <1>8, <1>9 DEF Accounted, IsComplete

-----------------------------------------------------------------------------
\* The backend writes no buffer it does not have, and starts with the first.
WrittenInRange ==
  /\ written <= Len(buffersToWrite)
  /\ backend # "write" => written = 0

\* The inductive invariant of the lines, beside IInv.
LinesIInv == WrittenInRange /\ Distinct(appended) /\ LinesAccounted

\* The buffers that are left to write, and the number of the last part.
Left == Len(buffersToWrite) - written
Last == Left + Len(buffers_) + 1

\* Where the parts of the log are.
PartsAre ==
  /\ Left \in Nat /\ Len(buffers_) \in Nat /\ Last \in Nat
  /\ PartsOK(Parts, Last)
  /\ Parts[0] = file
  /\ \A k \in 1 .. Left : Parts[k] = buffersToWrite[written + k].data
  /\ \A k \in 1 .. Len(buffers_) : Parts[Left + k] = buffers_[k].data
  /\ Parts[Last] = currentBuffer_.data
  /\ LinesAccounted <=> Accounted(appended, Parts, Last, dropped)

\* Unwritten, place by place.
LEMMA UnwrittenAt ==
  ASSUME TypeOK, WrittenInRange
  PROVE  /\ Left \in Nat /\ Len(buffers_) \in Nat /\ Last \in Nat
         /\ Unwritten \in Seq(Buffers) /\ Len(Unwritten) = Last
         /\ \A k \in 1 .. Left : Unwritten[k] = buffersToWrite[written + k]
         /\ \A k \in 1 .. Len(buffers_) : Unwritten[Left + k] = buffers_[k]
         /\ Unwritten[Last] = currentBuffer_
PROOF
<1> DEFINE a == SubSeq(buffersToWrite, written + 1, Len(buffersToWrite))
           b == Append(buffers_, currentBuffer_)
<1>1. Len(buffersToWrite) \in Nat /\ written \in Nat /\ written <= Len(buffersToWrite)
  BY LenProperties DEF TypeOK, WrittenInRange
<1>2. Left \in Nat /\ Len(buffers_) \in Nat /\ Last \in Nat
  BY <1>1, LenProperties DEF TypeOK, Left, Last
<1>3. \A i \in written + 1 .. Len(buffersToWrite) : buffersToWrite[i] \in Buffers
  <2>1. ASSUME NEW i \in written + 1 .. Len(buffersToWrite) PROVE buffersToWrite[i] \in Buffers
    <3>1. i \in 1 .. Len(buffersToWrite)
      BY <1>1, <2>1
    <3>2. QED
      BY <3>1, ElementOfSeq DEF TypeOK
  <2>2. QED
    BY <2>1
<1>4. a \in Seq(Buffers) /\ Len(a) = Left /\ \A k \in 1 .. Left : a[k] = buffersToWrite[written + k]
  <2>1. /\ a \in Seq(Buffers)
        /\ Len(a) = IF written + 1 <= Len(buffersToWrite)
                    THEN Len(buffersToWrite) - (written + 1) + 1 ELSE 0
        /\ \A k \in 1 .. Len(buffersToWrite) - (written + 1) + 1 :
             a[k] = buffersToWrite[(written + 1) + k - 1]
    <3>1. written + 1 \in Int /\ Len(buffersToWrite) \in Int
      BY <1>1
    <3>2. QED
      BY <1>3, <3>1, SubSeqProperties
  <2> HIDE DEF a
  <2>2. Len(buffersToWrite) - (written + 1) + 1 = Left
        /\ \A k \in Nat : (written + 1) + k - 1 = written + k
    BY <1>1 DEF Left
  <2>3. Len(a) = Left
    BY <1>1, <2>1 DEF Left
  <2>4. QED
    BY <2>1, <2>2, <2>3
<1>5. /\ b \in Seq(Buffers) /\ Len(b) = Len(buffers_) + 1
      /\ \A k \in 1 .. Len(buffers_) : b[k] = buffers_[k]
      /\ b[Len(buffers_) + 1] = currentBuffer_
  BY AppendProperties DEF TypeOK
<1>6. Unwritten = a \o b
  BY DEF Unwritten
<1> HIDE DEF a, b
<1>7. /\ Unwritten \in Seq(Buffers) /\ Len(Unwritten) = Left + (Len(buffers_) + 1)
      /\ \A i \in 1 .. Left + (Len(buffers_) + 1) :
           Unwritten[i] = IF i <= Left THEN a[i] ELSE b[i - Left]
  <2>1. PICK x \in Seq(Buffers), y \in Seq(Buffers) : x = a /\ y = b
    BY <1>4, <1>5
  <2>2. /\ x \o y \in Seq(Buffers) /\ Len(x \o y) = Len(x) + Len(y)
        /\ \A i \in 1 .. Len(x) + Len(y) :
             (x \o y)[i] = IF i <= Len(x) THEN x[i] ELSE y[i - Len(x)]
    BY ConcatProperties
  <2>3. Unwritten = x \o y /\ Len(x) = Left /\ Len(y) = Len(buffers_) + 1
    BY <1>4, <1>5, <1>6, <2>1
  <2>4. QED
    BY <2>1, <2>2, <2>3, Zenon
<1>8. Len(Unwritten) = Last
  BY <1>2, <1>7 DEF Last
<1>9. \A k \in 1 .. Left : Unwritten[k] = buffersToWrite[written + k]
  BY <1>2, <1>4, <1>7
<1>10. ASSUME NEW k \in 1 .. Len(buffers_) + 1 PROVE Unwritten[Left + k] = b[k]
  <2>1. Left + k \in 1 .. Left + (Len(buffers_) + 1) /\ ~(Left + k <= Left) /\ (Left + k) - Left = k
    BY <1>2
  <2>2. QED
    BY <1>7, <2>1
<1>11. \A k \in 1 .. Len(buffers_) : Unwritten[Left + k] = buffers_[k]
  BY <1>2, <1>5, <1>10
<1>12. Unwritten[Last] = currentBuffer_
  <2>1. Len(buffers_) + 1 \in 1 .. Len(buffers_) + 1 /\ Left + (Len(buffers_) + 1) = Last
    BY <1>2 DEF Last
  <2>2. QED
    BY <1>5, <1>10, <2>1
<1>13. QED
  BY <1>2, <1>7, <1>8, <1>9, <1>11, <1>12

\* The parts are the file, what is left to write, buffers_ and the current
\* buffer.
LEMMA PartsPlaced == IInv /\ WrittenInRange => PartsAre
PROOF
<1>1. SUFFICES ASSUME TypeOK, WrittenInRange PROVE PartsAre
  BY DEF IInv
<1>2. /\ Left \in Nat /\ Len(buffers_) \in Nat /\ Last \in Nat
      /\ Unwritten \in Seq(Buffers) /\ Len(Unwritten) = Last
      /\ \A k \in 1 .. Left : Unwritten[k] = buffersToWrite[written + k]
      /\ \A k \in 1 .. Len(buffers_) : Unwritten[Left + k] = buffers_[k]
      /\ Unwritten[Last] = currentBuffer_
  BY <1>1, UnwrittenAt
<1>3. \A k \in 1 .. Last : Unwritten[k].data \in Seq(Lines \X Nat)
  <2>1. \A k \in 1 .. Last : Unwritten[k] \in Buffers
    BY <1>2, ElementOfSeq
  <2>2. QED
    BY <2>1 DEF Buffers
<1>4. /\ Parts = [k \in 0 .. Last |-> IF k = 0 THEN file ELSE Unwritten[k].data]
      /\ DOMAIN Parts = 0 .. Last
  BY <1>2 DEF Parts
<1>5. /\ Parts[0] = file
      /\ \A k \in 1 .. Last : Parts[k] = Unwritten[k].data
      /\ PartsOK(Parts, Last)
  <2>1. Parts[0] = file
    BY <1>2, <1>4
  <2>2. \A k \in 1 .. Last : Parts[k] = Unwritten[k].data
    BY <1>2, <1>4
  <2>3. \A k \in 0 .. Last : (IF k = 0 THEN file ELSE Unwritten[k].data) \in Seq(Lines \X Nat)
    BY <1>1, <1>2, <1>3 DEF TypeOK
  <2>4. QED
    BY <1>2, <1>4, <2>1, <2>2, <2>3 DEF PartsOK
<1>6. /\ \A k \in 1 .. Left : Parts[k] = buffersToWrite[written + k].data
      /\ \A k \in 1 .. Len(buffers_) : Parts[Left + k] = buffers_[k].data
      /\ Parts[Last] = currentBuffer_.data
  <2>1. /\ \A k \in 1 .. Left : k \in 1 .. Last
        /\ \A k \in 1 .. Len(buffers_) : Left + k \in 1 .. Last
        /\ Last \in 1 .. Last
    BY <1>2 DEF Last
  <2>2. QED
    BY <1>2, <1>5, <2>1
<1>7. LinesAccounted <=> Accounted(appended, Parts, Last, dropped)
  <2>1. \A x, y : Older(x, y) <=> OlderIn(appended, x, y)
    BY DEF Older, OlderIn
  <2>2. LogInOrder <=> InOrder(appended, Parts, Last)
    BY <1>4, <2>1 DEF LogInOrder, InOrder
  <2>3. LogIsWhole <=> IsWhole(Parts, Last)
    BY <1>4 DEF LogIsWhole, IsWhole
  <2>4. Logged = LoggedIn(Parts, Last)
    BY <1>4 DEF Logged, LoggedIn
  <2>5. LogIsComplete <=> IsComplete(appended, Parts, Last, dropped)
    BY <2>4 DEF LogIsComplete, IsComplete, RangeOf
  <2>6. QED
    BY <2>2, <2>3, <2>5 DEF LinesAccounted, Accounted
<1>8. QED
  BY <1>2, <1>5, <1>6, <1>7 DEF PartsAre

\* No step writes a buffer that is not there, or passes a line twice.
LEMMA RangeKept ==
  ASSUME IInv, IInv', WrittenInRange, Distinct(appended), [Next]_vars
  PROVE  WrittenInRange' /\ Distinct(appended)'
PROOF
<1>1. /\ Len(buffersToWrite) \in Nat /\ Len(buffersToWrite') \in Nat /\ written \in Nat
      /\ appended \in Seq(Lines)
  BY LenProperties DEF IInv, TypeOK
<1>2. ASSUME NEW m \in Lines, AppendToCurrent(m) \/ AppendToNext(m)
      PROVE  WrittenInRange' /\ Distinct(appended)'
  <2>1. WrittenInRange'
    BY <1>2 DEF WrittenInRange, AppendToCurrent, AppendToNext, locals
  <2>2. /\ Len(appended) \in Nat /\ DOMAIN appended = 1 .. Len(appended)
        /\ DOMAIN appended' = 1 .. Len(appended) + 1
        /\ \A i \in 1 .. Len(appended) : appended'[i] = appended[i]
        /\ appended'[Len(appended) + 1] = m
    BY <1>1, <1>2, LenProperties, AppendProperties DEF AppendToCurrent, AppendToNext
  <2>3. Fresh(m)
    BY <1>2 DEF AppendToCurrent, AppendToNext
  <2>4. Distinct(appended)'
    BY <2>2, <2>3 DEF Distinct, Fresh
  <2>5. QED
    BY <2>1, <2>4
<1>3. CASE BackendStep
  <2>1. Distinct(appended)'
    BY <1>3 DEF BackendStep, ThreadEntry, LoopTest, Lock, WaitForSeconds, TakeBuffers,
                DropBacklog, WriteBuffer, Recycle, histories, Distinct
  <2>2. CASE ThreadEntry \/ LoopTest \/ Lock \/ WaitForSeconds
    BY <2>1, <2>2 DEF ThreadEntry, LoopTest, Lock, WaitForSeconds, WrittenInRange, locals
  <2>3. CASE TakeBuffers
    BY <1>1, <2>1, <2>3 DEF TakeBuffers, WrittenInRange
  <2>4. CASE DropBacklog
    BY <1>1, <2>1, <2>4 DEF DropBacklog, WrittenInRange
  <2>5. CASE WriteBuffer
    BY <1>1, <2>1, <2>5 DEF WriteBuffer, WrittenInRange
  <2>6. CASE Recycle
    BY <1>1, <2>1, <2>6 DEF Recycle, WrittenInRange
  <2>7. QED
    BY <1>3, <2>2, <2>3, <2>4, <2>5, <2>6 DEF BackendStep
<1>4. CASE ControlStep \/ Start \/ Stop
  BY <1>4 DEF ControlStep, LatchWait, Join, Start, Stop, WrittenInRange, locals, histories,
              Distinct, IInv, Handshake
<1>5. CASE UNCHANGED vars
  BY <1>5 DEF vars, WrittenInRange, Distinct
<1>6. QED
  BY <1>2, <1>3, <1>4, <1>5 DEF Next

\* What a proof about a step knows of the log before and after it.
LogAt == IInv /\ WrittenInRange /\ Distinct(appended) /\ PartsAre

\* append, when the line fits: it becomes the last one of the last part.
LEMMA CurrentAccounted ==
  ASSUME LogAt, LogAt', LinesAccounted, NEW m \in Lines, AppendToCurrent(m)
  PROVE  LinesAccounted'
PROOF
<1>1. /\ Left' = Left /\ Last' = Last /\ Last \in Nat /\ Left \in Nat /\ Len(buffers_) \in Nat
      /\ Last = Left + Len(buffers_) + 1
  BY DEF LogAt, PartsAre, AppendToCurrent, Left, Last, locals
<1>2. PICK p, q : p = Parts /\ q = Parts'
  OBVIOUS
<1>3. PartsOK(p, Last) /\ Accounted(appended, p, Last, dropped)
  BY <1>2 DEF LogAt, PartsAre
<1>4. PartsOK(q, Last)
  BY <1>1, <1>2 DEF LogAt, PartsAre
<1>5. \A k \in 0 .. Last - 1 : q[k] = p[k]
  <2>1. ASSUME NEW k \in 0 .. Last - 1 PROVE q[k] = p[k]
    <3>1. CASE k = 0
      BY <1>2, <3>1 DEF LogAt, PartsAre, AppendToCurrent
    <3>2. CASE k \in 1 .. Left
      BY <1>1, <1>2, <3>2 DEF LogAt, PartsAre, AppendToCurrent, locals
    <3>3. CASE k \in Left + 1 .. Last - 1
      <4>1. PICK j \in 1 .. Len(buffers_) : k = Left + j
        <5>1. k - Left \in 1 .. Len(buffers_) /\ k = Left + (k - Left)
          BY <1>1, <3>3
        <5>2. QED
          BY <5>1
      <4>2. QED
        BY <1>1, <1>2, <4>1 DEF LogAt, PartsAre, AppendToCurrent
    <3>4. QED
      BY <1>1, <2>1, <3>1, <3>2, <3>3
  <2>2. QED
    BY <2>1
<1>6. q[Last] = Append(p[Last], Whole(m))
  <2>1. Copied(currentBuffer_, m) = Size[m] /\ Size[m] < BufferSize
    BY SizeAssumption, BufferSizeAssumption
       DEF LogAt, IInv, TypeOK, Buffers, AppendToCurrent, Copied, Avail
  <2>2. currentBuffer_'.data = Append(currentBuffer_.data, <<m, Copied(currentBuffer_, m)>>)
    BY DEF AppendToCurrent, BufferAppend
  <2>3. q[Last] = currentBuffer_'.data /\ p[Last] = currentBuffer_.data
    BY <1>1, <1>2 DEF LogAt, PartsAre
  <2>4. QED
    BY <2>1, <2>2, <2>3 DEF Whole
<1>7. /\ appended \in Seq(Lines) /\ m \notin RangeOf(appended)
      /\ appended' = Append(appended, m) /\ dropped' = dropped
  BY DEF LogAt, IInv, TypeOK, AppendToCurrent, Fresh, RangeOf
<1>8. Accounted(Append(appended, m), q, Last, dropped)
  BY <1>3, <1>4, <1>5, <1>6, <1>7, LineAdded
<1>9. QED
  BY <1>1, <1>2, <1>7, <1>8 DEF LogAt, PartsAre

\* append, when the current buffer is full: the line is alone in a new part.
LEMMA NextAccounted ==
  ASSUME LogAt, LogAt', LinesAccounted, NEW m \in Lines, AppendToNext(m)
  PROVE  LinesAccounted'
PROOF
<1>0. /\ Len(buffers_') = Len(buffers_) + 1
      /\ \A k \in 1 .. Len(buffers_) : buffers_'[k] = buffers_[k]
      /\ buffers_'[Len(buffers_) + 1] = currentBuffer_
  <2>1. buffers_ \in Seq(Buffers) /\ currentBuffer_ \in Buffers
        /\ buffers_' = Append(buffers_, currentBuffer_)
    BY DEF LogAt, IInv, TypeOK, AppendToNext
  <2>2. QED
    BY <2>1, AppendProperties
<1>1. /\ Left' = Left /\ Last' = Last + 1 /\ Last \in Nat /\ Left \in Nat
      /\ Len(buffers_) \in Nat /\ Last = Left + Len(buffers_) + 1
  BY <1>0 DEF LogAt, PartsAre, AppendToNext, Left, Last, locals
<1>2. PICK p, q : p = Parts /\ q = Parts'
  OBVIOUS
<1>3. PartsOK(p, Last) /\ Accounted(appended, p, Last, dropped)
  BY <1>2 DEF LogAt, PartsAre
<1>4. PartsOK(q, Last + 1)
  BY <1>1, <1>2 DEF LogAt, PartsAre
<1>5. \A k \in 0 .. Last : q[k] = p[k]
  <2>1. ASSUME NEW k \in 0 .. Last PROVE q[k] = p[k]
    <3>1. CASE k = 0
      BY <1>2, <3>1 DEF LogAt, PartsAre, AppendToNext
    <3>2. CASE k \in 1 .. Left
      BY <1>1, <1>2, <3>2 DEF LogAt, PartsAre, AppendToNext, locals
    <3>3. CASE k \in Left + 1 .. Last - 1
      <4>1. PICK j \in 1 .. Len(buffers_) : k = Left + j
        <5>1. k - Left \in 1 .. Len(buffers_) /\ k = Left + (k - Left)
          BY <1>1, <3>3
        <5>2. QED
          BY <5>1
      <4>2. j \in 1 .. Len(buffers_')
        BY <1>0, <1>1, <4>1
      <4>3. QED
        BY <1>0, <1>1, <1>2, <4>1, <4>2 DEF LogAt, PartsAre
    <3>4. CASE k = Last
      <4>1. k = Left + (Len(buffers_) + 1) /\ Len(buffers_) + 1 \in 1 .. Len(buffers_')
        BY <1>0, <1>1, <3>4
      <4>2. QED
        BY <1>0, <1>1, <1>2, <3>4, <4>1 DEF LogAt, PartsAre
    <3>5. QED
      BY <1>1, <2>1, <3>1, <3>2, <3>3, <3>4
  <2>2. QED
    BY <2>1
<1> DEFINE e == [k \in 0 .. Last + 1 |-> IF k <= Last THEN p[k] ELSE <<>>]
<1>6. /\ PartsOK(e, Last + 1) /\ e[Last + 1] = <<>>
      /\ \A k \in 0 .. Last : e[k] = p[k]
  <2>1. <<>> \in Seq(Lines \X Nat)
    BY EmptySeq
  <2>2. \A k \in 0 .. Last : p[k] \in Seq(Lines \X Nat)
    BY <1>3 DEF PartsOK
  <2>3. \A k \in 0 .. Last + 1 : (IF k <= Last THEN p[k] ELSE <<>>) \in Seq(Lines \X Nat)
    BY <1>1, <2>1, <2>2
  <2>4. e \in [0 .. Last + 1 -> Seq(Lines \X Nat)]
    BY <2>3
  <2>5. Last + 1 \in 0 .. Last + 1 /\ ~(Last + 1 <= Last) /\ \A k \in 0 .. Last : k \in 0 .. Last + 1 /\ k <= Last
    BY <1>1
  <2>6. QED
    BY <1>1, <2>4, <2>5 DEF PartsOK
<1> HIDE DEF e
<1>7. Accounted(appended, e, Last + 1, dropped)
  BY <1>3, <1>6, EmptyAdded
<1>8. q[Last + 1] = Append(e[Last + 1], Whole(m))
  <2>1. currentBuffer_' = BufferAppend(EmptyBuffer, m)
    BY DEF LogAt, IInv, SparesSuffice, AppendToNext
  <2>2. Copied(EmptyBuffer, m) = IF Size[m] < BufferSize THEN Size[m] ELSE BufferSize
    BY SizeAssumption, BufferSizeAssumption DEF Copied, Avail, EmptyBuffer
  <2>3. currentBuffer_'.data = Append(<<>>, <<m, Copied(EmptyBuffer, m)>>)
    BY <2>1 DEF BufferAppend, EmptyBuffer
  <2>4. q[Last + 1] = currentBuffer_'.data
    BY <1>1, <1>2 DEF LogAt, PartsAre
  <2>5. QED
    BY <1>6, <2>2, <2>3, <2>4 DEF Whole
<1>9. /\ appended \in Seq(Lines) /\ m \notin RangeOf(appended)
      /\ appended' = Append(appended, m) /\ dropped' = dropped
  BY DEF LogAt, IInv, TypeOK, AppendToNext, Fresh, RangeOf
<1>10. \A k \in 0 .. (Last + 1) - 1 : q[k] = e[k]
  BY <1>1, <1>5, <1>6
<1>11. Accounted(Append(appended, m), q, Last + 1, dropped)
  <2>1. PICK n : n = Last + 1
    OBVIOUS
  <2>2. /\ PartsOK(e, n) /\ Accounted(appended, e, n, dropped) /\ PartsOK(q, n)
        /\ \A k \in 0 .. n - 1 : q[k] = e[k]
        /\ q[n] = Append(e[n], Whole(m))
    BY <1>4, <1>6, <1>7, <1>8, <1>10, <2>1
  <2>3. Accounted(Append(appended, m), q, n, dropped)
    BY <1>9, <2>2, LineAdded
  <2>4. QED
    BY <2>1, <2>3
<1>12. QED
  BY <1>1, <1>2, <1>9, <1>11 DEF LogAt, PartsAre

\* The backend takes the buffers: the new current buffer is a part without
\* lines.
LEMMA TakenAccounted ==
  ASSUME LogAt, LogAt', LinesAccounted, TakeBuffers
  PROVE  LinesAccounted'
PROOF
<1>0. /\ Len(buffersToWrite') = Len(buffers_) + 1
      /\ \A k \in 1 .. Len(buffers_) : buffersToWrite'[k] = buffers_[k]
      /\ buffersToWrite'[Len(buffers_) + 1] = currentBuffer_
      /\ written = 0 /\ written' = 0 /\ buffersToWrite = <<>> /\ buffers_' = <<>>
      /\ currentBuffer_' = EmptyBuffer
      /\ file' = file /\ appended' = appended /\ dropped' = dropped
  <2>1. buffers_ \in Seq(Buffers) /\ currentBuffer_ \in Buffers
        /\ buffersToWrite' = Append(buffers_, currentBuffer_)
    BY DEF LogAt, IInv, TypeOK, TakeBuffers
  <2>2. /\ Len(buffersToWrite') = Len(buffers_) + 1
        /\ \A k \in 1 .. Len(buffers_) : buffersToWrite'[k] = buffers_[k]
        /\ buffersToWrite'[Len(buffers_) + 1] = currentBuffer_
    BY <2>1, AppendProperties
  <2>3. /\ written = 0 /\ written' = 0 /\ buffersToWrite = <<>> /\ buffers_' = <<>>
        /\ currentBuffer_' = EmptyBuffer
    BY DEF LogAt, IInv, SparesSuffice, WrittenInRange, TakeBuffers
  <2>4. file' = file /\ appended' = appended /\ dropped' = dropped
    BY DEF TakeBuffers, histories
  <2>5. QED
    BY <2>2, <2>3, <2>4
<1>1. /\ Left = 0 /\ Len(buffers_) \in Nat /\ Last = Len(buffers_) + 1
      /\ Left' = Len(buffers_) + 1 /\ Last' = Last + 1 /\ Last \in Nat
  BY <1>0 DEF LogAt, PartsAre, Left, Last
<1>2. PICK p, q : p = Parts /\ q = Parts'
  OBVIOUS
<1>3. PartsOK(p, Last) /\ Accounted(appended, p, Last, dropped)
  BY <1>2 DEF LogAt, PartsAre
<1>4. PartsOK(q, Last + 1)
  BY <1>1, <1>2 DEF LogAt, PartsAre
<1>5. \A k \in 0 .. Last : q[k] = p[k]
  <2>1. ASSUME NEW k \in 0 .. Last PROVE q[k] = p[k]
    <3>1. CASE k = 0
      BY <1>0, <1>2, <3>1 DEF LogAt, PartsAre
    <3>2. CASE k \in 1 .. Len(buffers_)
      <4>1. k \in 1 .. Left' /\ 0 + k = k
        BY <1>1, <3>2
      <4>2. q[k] = buffersToWrite'[k].data
        BY <1>0, <1>2, <4>1 DEF LogAt, PartsAre
      <4>3. p[k] = buffers_[k].data
        BY <1>1, <1>2, <3>2, <4>1 DEF LogAt, PartsAre
      <4>4. QED
        BY <1>0, <3>2, <4>2, <4>3
    <3>3. CASE k = Last
      <4>1. k \in 1 .. Left' /\ 0 + k = k
        BY <1>1, <3>3
      <4>2. q[k] = buffersToWrite'[k].data
        BY <1>0, <1>2, <4>1 DEF LogAt, PartsAre
      <4>3. p[k] = currentBuffer_.data
        BY <1>2, <3>3 DEF LogAt, PartsAre
      <4>4. QED
        BY <1>0, <1>1, <3>3, <4>2, <4>3
    <3>4. QED
      BY <1>1, <2>1, <3>1, <3>2, <3>3
  <2>2. QED
    BY <2>1
<1>6. q[Last + 1] = <<>>
  BY <1>0, <1>1, <1>2 DEF LogAt, PartsAre, EmptyBuffer
<1>7. Accounted(appended, q, Last + 1, dropped)
  BY <1>3, <1>4, <1>5, <1>6, EmptyAdded
<1>8. QED
  BY <1>0, <1>1, <1>2, <1>7 DEF LogAt, PartsAre

\* The backend writes a buffer: its lines join the file.
LEMMA WrittenAccounted ==
  ASSUME LogAt, LogAt', LinesAccounted, WriteBuffer
  PROVE  LinesAccounted'
PROOF
<1>0. /\ written' = written + 1 /\ written < Len(buffersToWrite)
      /\ file' = file \o buffersToWrite[written + 1].data
      /\ buffersToWrite' = buffersToWrite /\ buffers_' = buffers_
      /\ currentBuffer_' = currentBuffer_ /\ appended' = appended /\ dropped' = dropped
      /\ written \in Nat /\ Len(buffersToWrite) \in Nat
  BY LenProperties DEF LogAt, IInv, TypeOK, WriteBuffer, shared, histories
<1>1. /\ Left' = Left - 1 /\ Last' = Last - 1 /\ Last \in Nat /\ Left \in Nat /\ Left >= 1
      /\ Len(buffers_) \in Nat /\ Last = Left + Len(buffers_) + 1
  BY <1>0 DEF LogAt, PartsAre, Left, Last
<1>2. PICK p, q : p = Parts /\ q = Parts'
  OBVIOUS
<1>3. PartsOK(p, Last) /\ Accounted(appended, p, Last, dropped)
  BY <1>2 DEF LogAt, PartsAre
<1>4. PartsOK(q, Last - 1) /\ Last >= 1
  BY <1>1, <1>2 DEF LogAt, PartsAre
<1>5. q[0] = p[0] \o p[1]
  <2>1. 1 \in 1 .. Left
    BY <1>1
  <2>2. p[0] = file /\ p[1] = buffersToWrite[written + 1].data /\ q[0] = file'
    BY <1>2, <2>1 DEF LogAt, PartsAre
  <2>3. QED
    BY <1>0, <2>2
<1>6. \A k \in 1 .. Last - 1 : q[k] = p[k + 1]
  <2>1. ASSUME NEW k \in 1 .. Last - 1 PROVE q[k] = p[k + 1]
    <3>1. CASE k \in 1 .. Left - 1
      <4>1. k \in 1 .. Left' /\ k + 1 \in 1 .. Left /\ (written + 1) + k = written + (k + 1)
        BY <1>0, <1>1, <3>1
      <4>2. q[k] = buffersToWrite[(written + 1) + k].data
        BY <1>0, <1>2, <4>1 DEF LogAt, PartsAre
      <4>3. p[k + 1] = buffersToWrite[written + (k + 1)].data
        BY <1>2, <4>1 DEF LogAt, PartsAre
      <4>4. QED
        BY <4>1, <4>2, <4>3
    <3>2. CASE k \in Left .. Last - 2
      <4>1. PICK j \in 1 .. Len(buffers_) : k = (Left - 1) + j
        <5>1. k - (Left - 1) \in 1 .. Len(buffers_) /\ k = (Left - 1) + (k - (Left - 1))
          BY <1>1, <3>2
        <5>2. QED
          BY <5>1
      <4>2. k + 1 = Left + j
        BY <1>1, <4>1
      <4>3. q[(Left - 1) + j] = buffers_[j].data
        BY <1>0, <1>1, <1>2, <4>1 DEF LogAt, PartsAre
      <4>4. p[Left + j] = buffers_[j].data
        BY <1>2, <4>1 DEF LogAt, PartsAre
      <4>5. QED
        BY <4>1, <4>2, <4>3, <4>4
    <3>3. CASE k = Last - 1
      <4>1. k + 1 = Last /\ k = Last'
        BY <1>1, <3>3
      <4>2. QED
        BY <1>0, <1>2, <4>1 DEF LogAt, PartsAre
    <3>4. QED
      BY <1>1, <2>1, <3>1, <3>2, <3>3
  <2>2. QED
    BY <2>1
<1>7. Accounted(appended, q, Last - 1, dropped)
  BY <1>3, <1>4, <1>5, <1>6, PartWritten
<1>8. QED
  BY <1>0, <1>1, <1>2, <1>7 DEF LogAt, PartsAre

\* The backend drops a backlog: exactly the lines of the buffers it erases
\* leave the log.
LEMMA DroppedAccounted ==
  ASSUME LogAt, LogAt', LinesAccounted, DropBacklog, Len(buffersToWrite) > DropLimit
  PROVE  LinesAccounted'
PROOF
<1> DEFINE c == Len(buffersToWrite) - 2
           b == SubSeq(buffersToWrite, 3, Len(buffersToWrite))
           gone == LinesOf(b)
<1>0. /\ buffersToWrite \in Seq(Buffers) /\ Len(buffersToWrite) \in Nat
      /\ Len(buffersToWrite) > 2 /\ c \in Nat
  <2>1. buffersToWrite \in Seq(Buffers) /\ Len(buffersToWrite) \in Nat
    BY LenProperties DEF LogAt, IInv, TypeOK
  <2>2. Len(buffersToWrite) > 2
    BY <2>1, DropLimitAssumption
  <2>3. QED
    BY <2>1, <2>2
<1>1. /\ written = 0 /\ written' = 0 /\ buffersToWrite' = SubSeq(buffersToWrite, 1, 2)
      /\ dropped' = dropped \cup gone
      /\ buffers_' = buffers_ /\ currentBuffer_' = currentBuffer_
      /\ file' = file /\ appended' = appended
  BY DEF LogAt, WrittenInRange, DropBacklog, shared
\* The two buffers that stay, and those that go.
<1>2. /\ Len(buffersToWrite') = 2
      /\ \A k \in 1 .. 2 : buffersToWrite'[k] = buffersToWrite[k]
  <2>1. \A k \in 1 .. 2 : buffersToWrite[k] \in Buffers
    BY <1>0, ElementOfSeq
  <2>2. /\ Len(SubSeq(buffersToWrite, 1, 2)) = IF 1 <= 2 THEN 2 - 1 + 1 ELSE 0
        /\ \A k \in 1 .. 2 - 1 + 1 : SubSeq(buffersToWrite, 1, 2)[k] = buffersToWrite[1 + k - 1]
    BY <2>1, SubSeqProperties
  <2>3. QED
    BY <1>1, <2>2
<1>3. DOMAIN b = 1 .. c /\ \A k \in 1 .. c : b[k] = buffersToWrite[k + 2]
  <2>1. \A k \in 3 .. Len(buffersToWrite) : buffersToWrite[k] \in Buffers
    BY <1>0, ElementOfSeq
  <2>2. /\ b \in Seq(Buffers)
        /\ Len(b) = IF 3 <= Len(buffersToWrite) THEN Len(buffersToWrite) - 3 + 1 ELSE 0
        /\ \A k \in 1 .. Len(buffersToWrite) - 3 + 1 : b[k] = buffersToWrite[3 + k - 1]
    BY <1>0, <2>1, SubSeqProperties
  <2> HIDE DEF b
  <2>3. Len(b) = c /\ Len(buffersToWrite) - 3 + 1 = c
    BY <1>0, <2>2
  <2>4. DOMAIN b = 1 .. c
    BY <2>2, <2>3, LenProperties
  <2>5. \A k \in 1 .. c : 3 + k - 1 = k + 2
    BY <1>0
  <2>6. QED
    BY <2>2, <2>3, <2>4, <2>5
<1> HIDE DEF b
<1>4. /\ Left = c + 2 /\ Left' = 2 /\ Last' = Last - c /\ Last \in Nat
      /\ Len(buffers_) \in Nat /\ Last = Left + Len(buffers_) + 1 /\ Last >= c + 2
  <2>1. Len(buffers_) \in Nat
    BY DEF LogAt, PartsAre
  <2>2. Left = c + 2 /\ Left' = 2
    BY <1>0, <1>1, <1>2 DEF Left
  <2>3. Last = Left + Len(buffers_) + 1 /\ Last' = Left' + Len(buffers_) + 1
    BY <1>1 DEF Last
  <2>4. QED
    BY <1>0, <2>1, <2>2, <2>3
<1>5. PICK p, q : p = Parts /\ q = Parts'
  OBVIOUS
<1>6. PartsOK(p, Last) /\ Accounted(appended, p, Last, dropped)
  BY <1>5 DEF LogAt, PartsAre
<1>7. PartsOK(q, Last - c)
  BY <1>4, <1>5 DEF LogAt, PartsAre
<1>8. \A k \in 1 .. c + 2 : p[k] = buffersToWrite[k].data
  <2>1. \A k \in 1 .. c + 2 : p[k] = buffersToWrite[0 + k].data
    BY <1>1, <1>4, <1>5 DEF LogAt, PartsAre
  <2>2. QED
    BY <1>0, <2>1
<1>9. \A k \in 0 .. 2 : q[k] = p[k]
  <2>1. q[0] = p[0]
    BY <1>1, <1>5 DEF LogAt, PartsAre
  <2>2. \A k \in 1 .. 2 : q[k] = buffersToWrite'[0 + k].data
    BY <1>1, <1>4, <1>5 DEF LogAt, PartsAre
  <2>3. \A k \in 1 .. 2 : k \in 1 .. c + 2 /\ 0 + k = k
    BY <1>0
  <2>4. \A k \in 1 .. 2 : q[k] = p[k]
    BY <1>2, <1>8, <2>2, <2>3
  <2>5. QED
    BY <2>1, <2>4
<1>10. \A k \in 3 .. Last - c : q[k] = p[k + c]
  <2>1. ASSUME NEW k \in 3 .. Last - c PROVE q[k] = p[k + c]
    <3>1. CASE k < Last - c
      <4>1. PICK j \in 1 .. Len(buffers_) : k = 2 + j
        <5>1. k - 2 \in 1 .. Len(buffers_) /\ k = 2 + (k - 2)
          BY <1>0, <1>4, <3>1
        <5>2. QED
          BY <5>1
      <4>2. k + c = Left + j
        BY <1>0, <1>4, <4>1
      <4>3. q[2 + j] = buffers_[j].data
        BY <1>1, <1>4, <1>5, <4>1 DEF LogAt, PartsAre
      <4>4. p[Left + j] = buffers_[j].data
        BY <1>5, <4>1 DEF LogAt, PartsAre
      <4>5. QED
        BY <4>1, <4>2, <4>3, <4>4
    <3>2. CASE k = Last - c
      <4>1. k + c = Last /\ k = Last'
        BY <1>0, <1>4, <3>2
      <4>2. QED
        BY <1>1, <1>5, <4>1 DEF LogAt, PartsAre
    <3>3. QED
      BY <1>0, <1>4, <2>1, <3>1, <3>2
  <2>2. QED
    BY <2>1
<1>11. gone = GoneIn(p, c)
  <2>1. ASSUME NEW k \in 1 .. c PROVE k + 2 \in 3 .. c + 2 /\ b[k].data = p[k + 2]
    <3>1. k + 2 \in 3 .. c + 2 /\ k + 2 \in 1 .. c + 2
      BY <1>0, <2>1
    <3>2. QED
      BY <1>3, <1>8, <2>1, <3>1
  <2>2. ASSUME NEW k \in 3 .. c + 2 PROVE k - 2 \in 1 .. c /\ b[k - 2].data = p[k]
    <3>1. k - 2 \in 1 .. c /\ (k - 2) + 2 = k /\ k \in 1 .. c + 2
      BY <1>0, <2>2
    <3>2. QED
      BY <1>3, <1>8, <3>1
  <2>3. ASSUME NEW x \in gone
        PROVE  x \in GoneIn(p, c)
    <3>1. PICK k \in 1 .. c : x \in {b[k].data[j][1] : j \in DOMAIN b[k].data}
      BY <1>3, <2>3 DEF LinesOf
    <3>2. x \in {p[k + 2][j][1] : j \in DOMAIN p[k + 2]}
      BY <2>1, <3>1
    <3>3. QED
      BY <2>1, <3>2 DEF GoneIn
  <2>4. ASSUME NEW x \in GoneIn(p, c) PROVE x \in gone
    <3>1. PICK k \in 3 .. c + 2 : x \in {p[k][i][1] : i \in DOMAIN p[k]}
      BY <2>4 DEF GoneIn
    <3>2. PICK j \in 1 .. c : b[j].data = p[k]
      BY <2>2
    <3>3. x \in {b[j].data[i][1] : i \in DOMAIN b[j].data}
      BY <3>1, <3>2
    <3>4. QED
      BY <1>3, <3>3 DEF LinesOf
  <2>5. QED
    BY <2>3, <2>4
<1>12. appended \in Seq(Lines) /\ Distinct(appended)
  BY DEF LogAt, IInv, TypeOK
<1> HIDE DEF gone, c
<1>13. Accounted(appended, q, Last - c, dropped \cup gone)
  <2>0. PICK d \in Nat : d = c
    BY <1>0
  <2>1. PICK n, g : n = Last /\ g = gone
    OBVIOUS
  <2>2. /\ PartsOK(p, n) /\ Accounted(appended, p, n, dropped) /\ n >= d + 2
        /\ PartsOK(q, n - d)
        /\ \A k \in 0 .. 2 : q[k] = p[k]
        /\ \A k \in 3 .. n - d : q[k] = p[k + d]
        /\ g = GoneIn(p, d)
    BY <1>4, <1>6, <1>7, <1>9, <1>10, <1>11, <2>0, <2>1, Zenon
  <2>3. Accounted(appended, q, n - d, dropped \cup g)
    BY <1>12, <2>2, PartsDropped
  <2>4. QED
    BY <2>0, <2>1, <2>3
<1>14. QED
  BY <1>1, <1>4, <1>5, <1>13 DEF LogAt, PartsAre

\* The other steps leave the log as it is.
LEMMA OthersAccounted ==
  ASSUME LogAt, LogAt', LinesAccounted, [Next]_vars,
         ~(\E m \in Lines : AppendToCurrent(m) \/ AppendToNext(m)),
         ~TakeBuffers, ~WriteBuffer, ~(DropBacklog /\ Len(buffersToWrite) > DropLimit)
  PROVE  LinesAccounted'
PROOF
<1>1. CASE Recycle
  <2>1. /\ written = Len(buffersToWrite) /\ Len(buffersToWrite) \in Nat
        /\ Len(buffersToWrite') = 0 /\ written' = 0
    BY <1>1, LenProperties DEF LogAt, IInv, TypeOK, Recycle
  <2>2. /\ file' = file /\ buffers_' = buffers_ /\ currentBuffer_' = currentBuffer_
        /\ appended' = appended /\ dropped' = dropped
    BY <1>1 DEF Recycle, shared, histories
  <2>3. SubSeq(buffersToWrite, written + 1, Len(buffersToWrite)) = <<>>
        /\ SubSeq(buffersToWrite', written' + 1, Len(buffersToWrite')) = <<>>
    <3>1. written + 1 > Len(buffersToWrite) /\ written' + 1 > Len(buffersToWrite')
      BY <2>1
    <3>2. QED
      BY <2>1, <3>1, SubSeqEmpty
  <2>4. Unwritten' = Unwritten
    BY <2>2, <2>3 DEF Unwritten
  <2>5. QED
    BY <2>2, <2>4 DEF LinesAccounted, LogInOrder, LogIsWhole, LogIsComplete, Logged, Older, Parts
<1>2. CASE ~Recycle
  <2>1. UNCHANGED <<file, appended, dropped, buffersToWrite, written, buffers_, currentBuffer_>>
    <3>1. CASE ThreadEntry \/ LoopTest \/ Lock \/ WaitForSeconds
      BY <3>1 DEF ThreadEntry, LoopTest, Lock, WaitForSeconds, shared, locals, histories
    <3>2. CASE DropBacklog
      BY <3>2 DEF DropBacklog, shared
    <3>3. CASE ControlStep \/ Start \/ Stop
      BY <3>3 DEF ControlStep, LatchWait, Join, Start, Stop, shared, locals, histories
    <3>4. CASE UNCHANGED vars
      BY <3>4 DEF vars
    <3>5. QED
      BY <1>2, <3>1, <3>2, <3>3, <3>4 DEF Next, BackendStep
  <2>2. Unwritten' = Unwritten
    BY <2>1 DEF Unwritten
  <2>3. file' = file /\ appended' = appended /\ dropped' = dropped
    BY <2>1
  <2>4. QED
    BY <2>2, <2>3 DEF LinesAccounted, LogInOrder, LogIsWhole, LogIsComplete, Logged, Older, Parts
<1>3. QED
  BY <1>1, <1>2

\* Before the first call the log is empty.
LEMMA InitLines == Init => LinesIInv
PROOF
<1>1. SUFFICES ASSUME Init PROVE LinesIInv
  OBVIOUS
<1>2. WrittenInRange /\ Distinct(appended)
  BY <1>1 DEF Init, WrittenInRange, Distinct
<1>3. PartsAre
  BY <1>1, <1>2, InitIInv, PartsPlaced
<1>4. Left = 0 /\ Last = 1
  BY <1>1 DEF Init, Left, Last
<1>5. \A k \in 0 .. 1 : Parts[k] = <<>>
  <2>1. Parts[0] = <<>> /\ Parts[1] = <<>>
    BY <1>1, <1>3, <1>4 DEF PartsAre, Init, EmptyBuffer
  <2>2. QED
    BY <2>1
<1>6. InOrder(appended, Parts, 1) /\ IsWhole(Parts, 1)
  BY <1>5 DEF InOrder, IsWhole
<1>7. LoggedIn(Parts, 1) = {}
  BY <1>5 DEF LoggedIn
<1>8. IsComplete(appended, Parts, 1, dropped)
  BY <1>1, <1>7 DEF Init, IsComplete, RangeOf
<1>9. LinesAccounted
  BY <1>3, <1>4, <1>6, <1>8 DEF PartsAre, Accounted
<1>10. QED
  BY <1>2, <1>9 DEF LinesIInv

\* Every step keeps the account.
LEMMA LinesStep == IInv /\ IInv' /\ LinesIInv /\ [Next]_vars => LinesIInv'
PROOF
<1>1. SUFFICES ASSUME IInv, IInv', LinesIInv, [Next]_vars PROVE LinesIInv'
  OBVIOUS
<1>2. /\ WrittenInRange /\ Distinct(appended) /\ LinesAccounted
      /\ WrittenInRange' /\ Distinct(appended)'
  BY <1>1, RangeKept DEF LinesIInv
<1>3. PartsAre /\ PartsAre'
  <2>1. IInv /\ WrittenInRange /\ IInv' /\ WrittenInRange'
    BY <1>1, <1>2
  <2>2. (IInv /\ WrittenInRange)' => PartsAre'
    BY PartsPlaced, PTL
  <2>3. QED
    BY <2>1, <2>2, PartsPlaced
<1>4. LogAt /\ LogAt'
  BY <1>1, <1>2, <1>3 DEF LogAt
<1>5. LinesAccounted'
  BY <1>1, <1>2, <1>4, CurrentAccounted, NextAccounted, TakenAccounted, WrittenAccounted,
     DroppedAccounted, OthersAccounted
<1>6. QED
  BY <1>2, <1>5 DEF LinesIInv

\* Whatever the threads that log, the backend and stop() do: every line
\* passed to append is in the file or in a buffer, exactly once, whole unless
\* it is longer than a buffer, and in the order of the calls, or was erased
\* with a backlog.
THEOREM LinesAreAccounted == SafeSpec => []LinesAccounted
PROOF
<1>1. LinesIInv /\ IInv /\ IInv' /\ [Next]_vars => LinesIInv'
  BY LinesStep
<1>2. LinesIInv => LinesAccounted
  BY DEF LinesIInv
<1>3. QED
  BY <1>1, <1>2, InitLines, Invariance, PTL DEF SafeSpec
=============================================================================

------------------------- MODULE LocalAudioBuffer --------------------------
(***************************************************************************)
(* The ring of samples between a network thread and an audio thread, one   *)
(* per channel: IasLocalAudioBuffer. Every operation holds mLock from      *)
(* beginning to end and is one action.                                     *)
(*                                                                         *)
(* Both ends have two ways to copy. A block copy (memcpy) leaves an index  *)
(* at mTotalSize when it ends exactly at the end of the ring and wraps it  *)
(* with the next copy; a strided copy (the loop for interleaved shared     *)
(* memory) wraps it at once. `layout' says which ways the two ends of this *)
(* buffer use; it is settled when the stream is created.                   *)
(***************************************************************************)
EXTENDS Integers, Sequences

CONSTANTS
  TotalSize,   \* mTotalSize
  Sample,      \* the values of a sample
  Silence,     \* the sample 0
  Blocks,      \* the blocks of samples offered by writers
  Requests,    \* the numbers of samples asked for by readers
  Levels,      \* the fill levels given to reset()
  Thresholds,  \* the fill levels given to setReadThreshold()
  Layouts,     \* the ways of copying the two ends may use
  Word         \* 2^32: the indices are uint32_t

Copies == {"block", "strided"}

ASSUME AudioBufferConstants ==
  /\ TotalSize \in Nat \ {0}
  /\ Word \in Nat /\ 2 * TotalSize < Word
  /\ Silence \in Sample
  /\ Blocks \subseteq Seq(Sample)
  /\ Requests \subseteq Nat
  /\ 0 \in Levels /\ Levels \subseteq 0..(TotalSize - 1)
  /\ Thresholds \subseteq Nat
  /\ Layouts \subseteq [write : SUBSET Copies, read : SUBSET Copies]

\* each end keeps to one way, and the reader of a writer that copies blocks does so too
UniformLayouts ==
  {[write |-> {"block"}, read |-> {"block"}],
   [write |-> {"strided"}, read |-> {"block"}],
   [write |-> {"strided"}, read |-> {"strided"}]}

VARIABLES
  layout,          \* the ways of copying in use
  mReadIndex,
  mWriteIndex,
  mBuffer,
  mReferenceFill,
  mReadReady,
  mReadThreshold,
  ahead,           \* mMonotonicWriteIndex - mMonotonicReadIndex
  resetLevel,      \* ghost: the fill level of the last reset
  delivered        \* the reader's buffer after its last read

vars == <<layout, mReadIndex, mWriteIndex, mBuffer, mReferenceFill, mReadReady,
          mReadThreshold, ahead, resetLevel, delivered>>

Cells == 0..(TotalSize - 1)

Least(a, b) == IF a < b THEN a ELSE b

\* a difference of two indices, brought back into the ring if it is negative
Wrapped(difference) ==
  LET d == difference % Word IN IF d > TotalSize THEN (d + TotalSize) % Word ELSE d

Fill(write, read) == Wrapped(write - read)

FillLevel == Fill(mWriteIndex, mReadIndex)

RemainingWithoutGap == (TotalSize - FillLevel) % Word

\* one cell stays free: equal indices mean an empty ring
Remaining == (TotalSize - FillLevel - 1) % Word

BeforeWrap(index) == (TotalSize - index) % Word

\* the place of the sample number i, counted from 0, of a copy that starts at index
Place(copy, index, i) ==
  IF copy = "block"
    THEN IF i < BeforeWrap(index) THEN index + i ELSE i - BeforeWrap(index)
    ELSE IF index < TotalSize /\ index + i >= TotalSize THEN index + i - TotalSize ELSE index + i

\* the index after a copy of n samples
After(copy, index, n) ==
  IF copy = "block"
    THEN IF n > BeforeWrap(index) THEN n - BeforeWrap(index) ELSE index + n
    ELSE Place(copy, index, n)

\* the number of the sample that a copy starting at index puts into cell x
Number(index, x) == IF x >= index THEN x - index ELSE x + TotalSize - index

\* TRUE if a copy that starts at index stays inside the ring
Inside(copy, index) == index < TotalSize \/ (copy = "block" /\ index = TotalSize)

\* the reference is set once, by a block when it is complete, by a loop after the first sample
NewReference(copy, n) ==
  IF mReferenceFill # 0 THEN mReferenceFill
  ELSE IF copy = "block" THEN Fill(After(copy, mWriteIndex, n), mReadIndex)
  ELSE IF n = 0 THEN 0
  ELSE Fill(After(copy, mWriteIndex, 1), mReadIndex)

Ready(fill) == mReadReady \/ fill >= mReadThreshold

Init ==
  /\ layout \in Layouts
  /\ mReadIndex = 0 /\ mWriteIndex = 0
  /\ mBuffer \in [Cells -> Sample]
  /\ mReferenceFill = 0
  /\ mReadReady = FALSE
  /\ mReadThreshold \in Thresholds \intersect 0..TotalSize
  /\ ahead = 0 /\ resetLevel = 0
  /\ delivered = <<>>

Write(copy, data) ==
  LET n == Least(Len(data), Remaining) IN
    /\ copy \in layout.write
    /\ mBuffer' = [x \in Cells |->
                     IF Inside(copy, mWriteIndex) /\ Number(mWriteIndex, x) < n
                       THEN data[Number(mWriteIndex, x) + 1] ELSE mBuffer[x]]
    /\ mWriteIndex' = After(copy, mWriteIndex, n)
    /\ mReferenceFill' = NewReference(copy, n)
    /\ ahead' = ahead + n
    /\ mReadReady' = Ready(Fill(After(copy, mWriteIndex, n), mReadIndex))
    /\ UNCHANGED <<layout, mReadIndex, mReadThreshold, resetLevel, delivered>>

\* beyond is what a strided read finds behind the end of the array
Read(copy, request, beyond) ==
  LET n == Least(request, FillLevel)
      Cell(x) == IF x \in Cells THEN mBuffer[x] ELSE beyond
  IN
    /\ copy \in layout.read
    /\ delivered' = [i \in 1..n |-> Cell(Place(copy, mReadIndex, i - 1))]
    /\ mReadIndex' = After(copy, mReadIndex, n)
    /\ ahead' = ahead - n
    /\ UNCHANGED <<layout, mWriteIndex, mBuffer, mReferenceFill, mReadReady, mReadThreshold,
                   resetLevel>>

\* the cells between the new and the old read index, which reset() fills with zeros
Zeroed(newRead, x) ==
  IF newRead < mReadIndex THEN newRead <= x /\ x < mReadIndex ELSE newRead <= x \/ x < mReadIndex

ResetRing(level) ==
  LET newRead == Wrapped(mWriteIndex - level) IN
    /\ mBuffer' = [x \in Cells |->
                     IF FillLevel < level /\ Zeroed(newRead, x) THEN Silence ELSE mBuffer[x]]
    /\ mReadIndex' = newRead
    /\ mReferenceFill' = 0
    /\ mReadReady' = FALSE
    /\ resetLevel' = level
    /\ UNCHANGED <<layout, mWriteIndex, delivered>>

Reset(level) == ResetRing(level) /\ ahead' = 0 /\ UNCHANGED mReadThreshold

\* a client that needs a higher threshold connects; one beyond the ring is refused,
\* which the caller ignores
Connect(threshold) ==
  /\ mReadThreshold < threshold
  /\ mReadThreshold' = IF threshold <= TotalSize THEN threshold ELSE mReadThreshold
  /\ ResetRing(0)
  /\ ahead' = 0

Next ==
  \/ \E copy \in Copies, data \in Blocks : Write(copy, data)
  \/ \E copy \in Copies, n \in Requests, beyond \in Sample : Read(copy, n, beyond)
  \/ \E level \in Levels : Reset(level)
  \/ \E threshold \in Thresholds : Connect(threshold)

Spec == Init /\ [][Next]_vars

-----------------------------------------------------------------------------

\* position p of the ring, one lap ahead at most
RingPlace(p) == IF p < TotalSize THEN p ELSE p - TotalSize

\* f samples of buffer b from place r on
Listing(b, r, f) == [i \in 1..f |-> b[RingPlace(r + i - 1)]]

\* the samples in the ring, oldest first
Contents == Listing(mBuffer, mReadIndex, FillLevel)

Fifo == INSTANCE AudioFifo WITH queue <- Contents, Capacity <- TotalSize - 1

(* The indices stay within the ring, the end included, and the counters have the
   ranges their users rely on. *)
TypeOK ==
  /\ layout \in Layouts
  /\ mReadIndex \in 0..TotalSize /\ mWriteIndex \in 0..TotalSize
  /\ mBuffer \in [Cells -> Sample]
  /\ mReferenceFill \in 0..(TotalSize - 1)
  /\ mReadReady \in BOOLEAN
  /\ mReadThreshold \in 0..TotalSize
  /\ ahead \in (1 - TotalSize)..(TotalSize - 1)
  /\ resetLevel \in Levels
  /\ delivered \in Seq(Sample)

(* write(), read() and reset() behave like a bounded FIFO of mTotalSize - 1 samples,
   across every wrap of the two indices: nothing is lost, doubled, reordered or
   overwritten before it is read. *)
ImplementsFifo == Fifo!Spec

(* The monotonic indices, which the descriptors of IasLocalAudioBufferDesc refer to,
   differ by exactly the fill level, apart from the samples the last reset left in the
   ring without counting them. *)
CountersMatchFill == FillLevel = ahead + resetLevel

(* isReadReady() is not late: if it is FALSE although the last reset left less than the
   threshold, then the fill level has stayed below the threshold. *)
ReadyInTime == ~mReadReady /\ resetLevel < mReadThreshold => FillLevel < mReadThreshold
============================================================================

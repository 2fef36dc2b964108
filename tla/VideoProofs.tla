---------------------------- MODULE VideoProofs ----------------------------
(***************************************************************************)
(* Safety of the two ends of video. The shared ring: for every size, every *)
(* set of readers and every request size, under the assumption SerialEnds. *)
(* The local buffer, its thread and the pool of its packets: for every     *)
(* size of the rings, the packets and the pool, under what the actions of  *)
(* VideoStream name as assumed of the environment.                         *)
(***************************************************************************)
EXTENDS VideoRingBuffer, VideoStream, WellFoundedInduction, TLAPS

(* The inductive invariant. *)

\* TRUE while some reader has lowered mBufferLevel but not moved mReadOffset
Aggregating == \E p \in Readers : readerPc[p] = "readOffset"

\* b is the position mBufferLevel counts from: b + mBufferLevel is mWriteOffset,
\* or one lap ahead of it
CountsFrom(b) ==
  /\ b \in 0..NumBuffers
  /\ b + mBufferLevel = mWriteOffset \/ b + mBufferLevel = mWriteOffset + NumBuffers

\* the types that hold whatever the values are
Shape ==
  /\ mReadOffset \in Int /\ mWriteOffset \in Int /\ mBufferLevel \in Int
  /\ mAllowedToWrite \in Int
  /\ readers \subseteq Readers
  /\ offset \in [Readers -> Int]
  /\ allowedToRead \in [Readers -> Int]
  /\ silence \in [Readers -> 0..(Timeout + 1)]
  /\ writerPc \in {"idle", "loaded", "writing"}
  /\ writerLevel \in Int
  /\ readerPc \in [Readers -> {"idle", "reading", "dead"} \union EndPcs]
  /\ granted \in [Readers -> [offset : Int, num : Int]]
  /\ local \in [Readers -> Int]
  /\ nextSlot \in [Readers -> Int]
  /\ pending \in [Readers -> Int]

RingInv ==
  /\ mWriteOffset \in 0..(NumBuffers - 1)
  /\ mReadOffset \in 0..(NumBuffers - 1)
  /\ mBufferLevel \in 0..NumBuffers
  /\ ~Aggregating => CountsFrom(mReadOffset)
  /\ \A p \in Readers : readerPc[p] = "readOffset" => CountsFrom(local[p])

\* only one reader is inside endAccess, and it is registered
EndInv ==
  /\ \A p, q \in Readers : readerPc[p] \in EndPcs /\ readerPc[q] \in EndPcs => p = q
  /\ \A p \in Readers : readerPc[p] \in EndPcs => p \in readers

\* where reader q stands, its unfinished store included
Position(q) == IF readerPc[q] = "store" THEN local[q] ELSE offset[q]

\* the offsets are back to 0 and mReadOffset is not: p has seen smallerOffset at the end
Wrapping(p) == readerPc[p] \in {"level", "readOffset"} /\ local[p] = NumBuffers

PositionInv ==
  \A q \in readers :
    /\ pending[q] \in 0..mBufferLevel
    /\ offset[q] \in 0..NumBuffers /\ Position(q) \in 0..NumBuffers
    /\ nextSlot[q] = IF Position(q) = NumBuffers THEN 0 ELSE Position(q)
    /\ (\A p \in Readers : ~Wrapping(p) /\ readerPc[p] # "readOffset") =>
         Position(q) = mReadOffset + mBufferLevel - pending[q]
    /\ \A p \in Readers :
         /\ readerPc[p] = "level" /\ Wrapping(p) =>
              offset[q] = 0 /\ mReadOffset + mBufferLevel - pending[q] = NumBuffers
         /\ readerPc[p] = "readOffset" /\ ~Wrapping(p) =>
              offset[q] = local[p] + mBufferLevel - pending[q]
         /\ readerPc[p] = "readOffset" /\ Wrapping(p) =>
              offset[q] = 0 /\ mBufferLevel = pending[q]

\* what the reader inside endAccess holds in its register
LocalInv ==
  \A p \in Readers :
    /\ readerPc[p] = "store" => local[p] \in 0..NumBuffers
    /\ readerPc[p] \in {"level", "readOffset"} => local[p] \in mReadOffset..NumBuffers
    /\ readerPc[p] = "level" =>
         local[p] <= mReadOffset + mBufferLevel /\
         \A q \in readers : local[p] <= mReadOffset + mBufferLevel - pending[q]

\* a grant is exactly a stretch of unread packets at the reader's offset
GrantInv ==
  \A p \in readers :
    readerPc[p] = "reading" =>
      /\ granted[p].num \in 0..pending[p]
      /\ offset[p] + granted[p].num <= NumBuffers
      /\ granted[p].num > 0 => granted[p].offset = offset[p]

\* an old mBufferLevel is too large, never too small, and a grant fits what is free
WriterInv ==
  /\ writerPc = "loaded" => writerLevel \in mBufferLevel..NumBuffers
  /\ writerPc = "writing" =>
       /\ mAllowedToWrite \in 0..(NumBuffers - mBufferLevel)
       /\ mWriteOffset + mAllowedToWrite <= NumBuffers

IInv ==
  /\ Shape /\ RingInv /\ EndInv /\ PositionInv /\ LocalInv /\ GrantInv /\ WriterInv

----------------------------------------------------------------------------
USE RingConstants

\* A nonempty set of natural numbers has a least element.
LEMMA LeastNatural ==
  ASSUME NEW T \in SUBSET Nat, T # {}
  PROVE  \E x \in T : \A y \in T : x <= y
<1> DEFINE R == {ss \in Nat \X Nat : ss[1] < ss[2]}
<1>1. IsWellFoundedOn(R, Nat)
  BY NatLessThanWellFounded, Zenon DEF OpToRel
<1>2. PICK x \in T : \A y \in T : ~(<<y, x>> \in R)
  <2> HIDE DEF R
  <2> QED  BY <1>1, WFMin, Zenon
<1>3. \A y \in T : ~(y < x)
  BY <1>2
<1> QED  BY <1>3

----------------------------------------------------------------------------
(* Facts about the operators. *)

\* updateSmallerReaderOffset finds the offset of a slowest reader.
LEMMA SmallerOffsetIsLeast ==
  ASSUME readers # {}, \A q \in readers : offset[q] \in Nat
  PROVE  /\ \E q \in readers : SmallerOffset = offset[q]
         /\ \A q \in readers : SmallerOffset <= offset[q]
<1> DEFINE T == {offset[q] : q \in readers}
<1>1. T \in SUBSET Nat /\ T # {}
  OBVIOUS
<1>2. \E o \in T : \A y \in T : o <= y
  <2> HIDE DEF T
  <2> QED  BY <1>1, LeastNatural
<1>3. \E o \in T : \A q \in readers : o <= offset[q]
  BY <1>2
<1>4. SmallerOffset \in T /\ \A q \in readers : SmallerOffset <= offset[q]
  BY <1>3 DEF SmallerOffset
<1> QED  BY <1>4

\* Moving n slots ahead from a reader's position, the end of the ring being slot 0.
LEMMA AheadOfPosition ==
  ASSUME NEW o \in 0..NumBuffers, NEW n \in Nat, o + n <= NumBuffers
  PROVE  Ahead(IF o = NumBuffers THEN 0 ELSE o, n) = IF o + n = NumBuffers THEN 0 ELSE o + n
BY DEF Ahead

----------------------------------------------------------------------------
(* Every action preserves the invariant. *)

\* addReader starts a reader at mReadOffset, with the whole backlog to read.
LEMMA AddReaderStep ==
  ASSUME SerialEnds, IInv, NEW p \in Readers, AddReader(p)
  PROVE  IInv'
<1> USE DEF ringVars, tableVars, writerVars, readerVars, ghostVars, EndPcs, NoGrant, Shape
<1>0. Shape /\ RingInv /\ EndInv /\ PositionInv /\ LocalInv /\ GrantInv /\ WriterInv
  BY DEF IInv
<1>1. Shape'
  BY <1>0 DEF AddReader, Backlog, ReaderLevel
<1>2. RingInv'
  BY <1>0 DEF AddReader, RingInv, Aggregating, CountsFrom
<1>3. EndInv'
  BY <1>0 DEF AddReader, EndInv
<1>a. \A q \in Readers : readerPc[q] \notin EndPcs
  BY <1>0 DEF AddReader, Undisturbed
<1>b. Backlog = mBufferLevel
  BY <1>0, <1>a DEF Backlog, ReaderLevel, RingInv, Aggregating, CountsFrom
<1>4. PositionInv'
  <2> SUFFICES ASSUME NEW q \in readers' PROVE PositionInv!(q)'
    BY DEF PositionInv
  <2>1. readerPc' = readerPc /\ local' = local /\ mBufferLevel' = mBufferLevel
        /\ mReadOffset' = mReadOffset
    BY DEF AddReader
  <2>2. CASE q = p
    BY <1>0, <1>a, <1>b, <2>1, <2>2 DEF AddReader, Position, Wrapping, RingInv
  <2>3. CASE q # p
    BY <1>0, <1>a, <2>1, <2>3 DEF AddReader, PositionInv, Position, Wrapping
  <2> QED  BY <2>2, <2>3
<1>5. LocalInv'
  BY <1>0 DEF AddReader, Undisturbed, LocalInv
<1>6. GrantInv'
  BY <1>0 DEF AddReader, GrantInv
<1>7. WriterInv'
  BY <1>0 DEF AddReader, WriterInv
<1> QED
  BY <1>1, <1>2, <1>3, <1>4, <1>5, <1>6, <1>7 DEF IInv

\* removeReader leaves the ring as it is.
LEMMA RemoveReaderStep ==
  ASSUME SerialEnds, IInv, NEW p \in Readers, RemoveReader(p)
  PROVE  IInv'
<1> USE DEF ringVars, tableVars, writerVars, readerVars, ghostVars, EndPcs, NoGrant, Shape
<1>0. Shape /\ RingInv /\ EndInv /\ PositionInv /\ LocalInv /\ GrantInv /\ WriterInv
  BY DEF IInv
<1>1. Shape'
  BY <1>0 DEF RemoveReader, Unregister
<1>2. RingInv'
  BY <1>0 DEF RemoveReader, RingInv, Aggregating, CountsFrom
<1>3. EndInv'
  BY <1>0 DEF RemoveReader, Unregister, EndInv
<1>4. PositionInv'
  BY <1>0 DEF RemoveReader, Unregister, PositionInv, Position, Wrapping
<1>5. LocalInv'
  BY <1>0 DEF RemoveReader, Unregister, LocalInv
<1>6. GrantInv'
  BY <1>0 DEF RemoveReader, Unregister, GrantInv
<1>7. WriterInv'
  BY <1>0 DEF RemoveReader, WriterInv
<1> QED
  BY <1>1, <1>2, <1>3, <1>4, <1>5, <1>6, <1>7 DEF IInv

\* A waitRead that times out changes nothing but lastAccess.
LEMMA WaitReadTimeoutStep ==
  ASSUME SerialEnds, IInv, NEW p \in Readers, WaitReadTimeout(p)
  PROVE  IInv'
<1> USE DEF ringVars, tableVars, writerVars, readerVars, ghostVars, EndPcs, NoGrant, Shape
<1>0. Shape /\ RingInv /\ EndInv /\ PositionInv /\ LocalInv /\ GrantInv /\ WriterInv
  BY DEF IInv
<1>1. Shape'
  BY <1>0 DEF WaitReadTimeout
<1>2. RingInv'
  BY <1>0 DEF WaitReadTimeout, RingInv, Aggregating, CountsFrom
<1>3. EndInv'
  BY <1>0 DEF WaitReadTimeout, EndInv
<1>4. PositionInv'
  BY <1>0 DEF WaitReadTimeout, PositionInv, Position, Wrapping
<1>5. LocalInv'
  BY <1>0 DEF WaitReadTimeout, LocalInv
<1>6. GrantInv'
  BY <1>0 DEF WaitReadTimeout, GrantInv
<1>7. WriterInv'
  BY <1>0 DEF WaitReadTimeout, WriterInv
<1> QED
  BY <1>1, <1>2, <1>3, <1>4, <1>5, <1>6, <1>7 DEF IInv

\* beginAccess(read) grants unread packets at the reader's offset, also while
\* another reader is half way through endAccess.
LEMMA BeginReadStep ==
  ASSUME SerialEnds, IInv, NEW p \in Readers, NEW n \in ReadSizes, BeginRead(p, n)
  PROVE  IInv'
<1> USE DEF ringVars, tableVars, writerVars, readerVars, ghostVars, EndPcs, NoGrant, Shape
<1>0. Shape /\ RingInv /\ EndInv /\ PositionInv /\ LocalInv /\ GrantInv /\ WriterInv
  BY DEF IInv
<1>1. Shape'
  BY <1>0 DEF BeginRead, ReadGrant, ReaderLevel, Least
<1>2. RingInv'
  BY <1>0 DEF BeginRead, RingInv, Aggregating, CountsFrom
<1>3. EndInv'
  BY <1>0 DEF BeginRead, EndInv
<1>4. PositionInv'
  BY <1>0 DEF BeginRead, PositionInv, Position, Wrapping
<1>5. LocalInv'
  BY <1>0 DEF BeginRead, LocalInv
<1>a. ReaderLevel(offset[p]) \in 0..pending[p]
  <2>1. offset[p] = Position(p) /\ offset[p] \in 0..NumBuffers
    BY <1>0 DEF BeginRead, Position, PositionInv
  <2>2. CASE \A q \in Readers : ~Wrapping(q) /\ readerPc[q] # "readOffset"
    BY <1>0, <2>1, <2>2 DEF BeginRead, ReaderLevel, PositionInv, RingInv, Aggregating, CountsFrom
  <2>3. ASSUME NEW q \in Readers, readerPc[q] = "level", Wrapping(q)
        PROVE  ReaderLevel(offset[p]) \in 0..pending[p]
    BY <1>0, <2>1, <2>3 DEF BeginRead, ReaderLevel, PositionInv, RingInv, Aggregating, CountsFrom, EndInv
  <2>4. ASSUME NEW q \in Readers, readerPc[q] = "readOffset"
        PROVE  ReaderLevel(offset[p]) \in 0..pending[p]
    BY <1>0, <2>1, <2>4 DEF BeginRead, ReaderLevel, PositionInv, RingInv, CountsFrom, Wrapping
  <2> QED  BY <2>2, <2>3, <2>4 DEF Wrapping
<1>b. /\ ReadGrant(offset[p], n) \in 0..pending[p]
      /\ offset[p] + ReadGrant(offset[p], n) <= NumBuffers
  BY <1>0, <1>a DEF ReadGrant, Least, BeginRead, PositionInv
<1>6. GrantInv'
  BY <1>0, <1>b DEF BeginRead, GrantInv
<1>7. WriterInv'
  BY <1>0 DEF BeginRead, WriterInv
<1> QED
  BY <1>1, <1>2, <1>3, <1>4, <1>5, <1>6, <1>7 DEF IInv

\* An endAccess that is rejected changes nothing.
LEMMA EndReadRejectedStep ==
  ASSUME SerialEnds, IInv, NEW p \in Readers, EndReadRejected(p)
  PROVE  IInv'
<1> USE DEF ringVars, tableVars, writerVars, readerVars, ghostVars, EndPcs, NoGrant, Shape
<1>0. Shape /\ RingInv /\ EndInv /\ PositionInv /\ LocalInv /\ GrantInv /\ WriterInv
  BY DEF IInv
<1>1. Shape'
  BY <1>0 DEF EndReadRejected
<1>2. RingInv'
  BY <1>0 DEF EndReadRejected, RingInv, Aggregating, CountsFrom
<1>3. EndInv'
  BY <1>0 DEF EndReadRejected, EndInv
<1>4. PositionInv'
  BY <1>0 DEF EndReadRejected, PositionInv, Position, Wrapping
<1>5. LocalInv'
  BY <1>0 DEF EndReadRejected, LocalInv
<1>6. GrantInv'
  BY <1>0 DEF EndReadRejected, GrantInv
<1>7. WriterInv'
  BY <1>0 DEF EndReadRejected, WriterInv
<1> QED
  BY <1>1, <1>2, <1>3, <1>4, <1>5, <1>6, <1>7 DEF IInv

\* endAccess moves the reader ahead by what it was granted.
LEMMA EndReadStep ==
  ASSUME SerialEnds, IInv, NEW p \in Readers, EndRead(p)
  PROVE  IInv'
<1> USE DEF ringVars, tableVars, writerVars, readerVars, ghostVars, EndPcs, NoGrant, Shape
<1>0. Shape /\ RingInv /\ EndInv /\ PositionInv /\ LocalInv /\ GrantInv /\ WriterInv
  BY DEF IInv
<1>1. Shape'
  BY <1>0 DEF EndRead, Ahead
<1>2. RingInv'
  BY <1>0 DEF EndRead, RingInv, Aggregating, CountsFrom
<1>3. EndInv'
  BY <1>0 DEF EndRead, Undisturbed, EndInv
<1>a. \A q \in Readers : readerPc[q] \notin EndPcs
  BY <1>0 DEF EndRead, Undisturbed
<1>b. \A q \in Readers : ~Wrapping(q) /\ ~Wrapping(q)' /\ readerPc'[q] # "readOffset"
  BY <1>0, <1>a DEF EndRead, Wrapping
<1>4. PositionInv'
  <2> SUFFICES ASSUME NEW q \in readers' PROVE PositionInv!(q)'
    BY DEF PositionInv
  <2>1. /\ offset[q] = mReadOffset + mBufferLevel - pending[q]
        /\ pending[q] \in 0..mBufferLevel /\ offset[q] \in 0..NumBuffers
        /\ nextSlot[q] = IF offset[q] = NumBuffers THEN 0 ELSE offset[q]
    BY <1>0, <1>a, <1>b DEF EndRead, PositionInv, Position
  <2>2. CASE q = p
    <3>1. /\ granted[p].num \in 0..pending[p]
          /\ offset[p] + granted[p].num <= NumBuffers
      BY <1>0 DEF EndRead, GrantInv
    <3>2. Position(p)' = offset[p] + granted[p].num
      BY <1>0 DEF EndRead, Position
    <3>3. /\ offset' = offset /\ mReadOffset' = mReadOffset /\ mBufferLevel' = mBufferLevel
          /\ pending'[p] = pending[p] - granted[p].num
          /\ nextSlot'[p] = Ahead(nextSlot[p], granted[p].num)
      BY <1>0 DEF EndRead
    <3>4. nextSlot'[p] = IF Position(p)' = NumBuffers THEN 0 ELSE Position(p)'
      BY <2>1, <2>2, <3>1, <3>2, <3>3, AheadOfPosition
    <3> QED  BY <1>0, <1>a, <1>b, <2>1, <2>2, <3>1, <3>2, <3>3, <3>4 DEF EndRead
  <2>3. CASE q # p
    BY <1>0, <1>a, <1>b, <2>1, <2>3 DEF EndRead, Position
  <2> QED  BY <2>2, <2>3
<1>5. LocalInv'
  BY <1>0, <1>a DEF EndRead, LocalInv, GrantInv, PositionInv, Position
<1>6. GrantInv'
  BY <1>0 DEF EndRead, GrantInv
<1>7. WriterInv'
  BY <1>0 DEF EndRead, WriterInv
<1> QED
  BY <1>1, <1>2, <1>3, <1>4, <1>5, <1>6, <1>7 DEF IInv

\* The store of reader->offset completes that move.
LEMMA StoreOffsetStep ==
  ASSUME SerialEnds, IInv, NEW p \in Readers, StoreOffset(p)
  PROVE  IInv'
<1> USE DEF ringVars, tableVars, writerVars, readerVars, ghostVars, EndPcs, NoGrant, Shape
<1>0. Shape /\ RingInv /\ EndInv /\ PositionInv /\ LocalInv /\ GrantInv /\ WriterInv
  BY DEF IInv
<1>1. Shape'
  BY <1>0 DEF StoreOffset
<1>2. RingInv'
  BY <1>0 DEF StoreOffset, RingInv, Aggregating, CountsFrom
<1>3. EndInv'
  BY <1>0 DEF StoreOffset, EndInv
<1>4. PositionInv'
  BY <1>0 DEF StoreOffset, PositionInv, Position, Wrapping, EndInv
<1>5. LocalInv'
  BY <1>0 DEF StoreOffset, LocalInv
<1>6. GrantInv'
  BY <1>0 DEF StoreOffset, GrantInv
<1>7. WriterInv'
  BY <1>0 DEF StoreOffset, WriterInv
<1> QED
  BY <1>1, <1>2, <1>3, <1>4, <1>5, <1>6, <1>7 DEF IInv

\* updateSmallerReaderOffset finds how far every reader is, and puts all of
\* them back to 0 only when every one is at the end.
LEMMA UpdateSmallerReaderOffsetStep ==
  ASSUME SerialEnds, IInv, NEW p \in Readers, UpdateSmallerReaderOffset(p)
  PROVE  IInv'
<1> USE DEF ringVars, tableVars, writerVars, readerVars, ghostVars, EndPcs, NoGrant, Shape
<1>0. Shape /\ RingInv /\ EndInv /\ PositionInv /\ LocalInv /\ GrantInv /\ WriterInv
  BY DEF IInv
<1>s. /\ \E q \in readers : SmallerOffset = offset[q]
      /\ \A q \in readers : SmallerOffset <= offset[q]
  BY <1>0, SmallerOffsetIsLeast DEF UpdateSmallerReaderOffset, PositionInv, EndInv
<1>1. Shape'
  BY <1>0, <1>s DEF UpdateSmallerReaderOffset
<1>2. RingInv'
  BY <1>0, <1>s DEF UpdateSmallerReaderOffset, RingInv, Aggregating, CountsFrom
<1>3. EndInv'
  BY <1>0, <1>s DEF UpdateSmallerReaderOffset, EndInv
<1>4. PositionInv'
  BY <1>0, <1>s, SMTT(30) DEF UpdateSmallerReaderOffset, PositionInv, Position, Wrapping, EndInv
<1>a. \A q \in Readers : q # p => readerPc[q] \notin EndPcs
  BY <1>0 DEF UpdateSmallerReaderOffset, EndInv
<1>b. \A q \in readers : offset[q] = mReadOffset + mBufferLevel - pending[q]
                         /\ offset[q] \in mReadOffset..NumBuffers
  BY <1>0, <1>a DEF UpdateSmallerReaderOffset, PositionInv, Position, Wrapping, RingInv
<1>5. LocalInv'
  BY <1>0, <1>s, <1>a, <1>b DEF UpdateSmallerReaderOffset, LocalInv, RingInv, PositionInv
<1>6. GrantInv'
  BY <1>0, <1>s DEF UpdateSmallerReaderOffset, GrantInv
<1>7. WriterInv'
  BY <1>0, <1>s DEF UpdateSmallerReaderOffset, WriterInv
<1> QED
  BY <1>1, <1>2, <1>3, <1>4, <1>5, <1>6, <1>7 DEF IInv

\* aggregateReaderOffset lowers mBufferLevel by what the slowest reader read.
LEMMA AggregateLevelStep ==
  ASSUME SerialEnds, IInv, NEW p \in Readers, AggregateLevel(p)
  PROVE  IInv'
<1> USE DEF ringVars, tableVars, writerVars, readerVars, ghostVars, EndPcs, NoGrant, Shape
<1>0. Shape /\ RingInv /\ EndInv /\ PositionInv /\ LocalInv /\ GrantInv /\ WriterInv
  BY DEF IInv
<1>1. Shape'
  BY <1>0 DEF AggregateLevel, Sub
<1>a. mBufferLevel' = mBufferLevel - (local[p] - mReadOffset)
      /\ mBufferLevel' \in 0..mBufferLevel
  BY <1>0 DEF AggregateLevel, Sub, LocalInv, RingInv, MutexFree
<1>b. CountsFrom(mReadOffset)
  BY <1>0 DEF AggregateLevel, RingInv, Aggregating, MutexFree
<1>c. CountsFrom(local[p])'
  <2>1. local' = local /\ mWriteOffset' = mWriteOffset /\ local[p] \in 0..NumBuffers
    BY <1>0 DEF AggregateLevel, LocalInv, RingInv
  <2>2. mReadOffset \in Int /\ mBufferLevel \in Int /\ mWriteOffset \in Int
    BY <1>0
  <2> QED  BY <1>a, <1>b, <2>1, <2>2 DEF CountsFrom
<1>2. RingInv'
  BY <1>0, <1>a, <1>c DEF AggregateLevel, RingInv, Aggregating, EndInv, MutexFree
<1>3. EndInv'
  BY <1>0 DEF AggregateLevel, EndInv
<1>4. PositionInv'
  BY <1>0 DEF AggregateLevel, Sub, MutexFree, PositionInv, Position, Wrapping, EndInv, LocalInv
<1>5. LocalInv'
  BY <1>0 DEF AggregateLevel, LocalInv, EndInv
<1>6. GrantInv'
  BY <1>0 DEF AggregateLevel, GrantInv
<1>7. WriterInv'
  BY <1>0 DEF AggregateLevel, Sub, MutexFree, WriterInv, LocalInv
<1> QED
  BY <1>1, <1>2, <1>3, <1>4, <1>5, <1>6, <1>7 DEF IInv

\* aggregateReaderOffset moves mReadOffset after it.
LEMMA AggregateReadOffsetStep ==
  ASSUME SerialEnds, IInv, NEW p \in Readers, AggregateReadOffset(p)
  PROVE  IInv'
<1> USE DEF ringVars, tableVars, writerVars, readerVars, ghostVars, EndPcs, NoGrant, Shape
<1>0. Shape /\ RingInv /\ EndInv /\ PositionInv /\ LocalInv /\ GrantInv /\ WriterInv
  BY DEF IInv
<1>1. Shape'
  BY <1>0 DEF AggregateReadOffset
<1>a. \A q \in Readers : q # p => readerPc[q] \notin EndPcs
  BY <1>0 DEF AggregateReadOffset, EndInv
<1>b. \A q \in Readers : readerPc'[q] \notin EndPcs
  BY <1>0, <1>a DEF AggregateReadOffset
<1>c. CountsFrom(local[p]) /\ local[p] \in 0..NumBuffers
  BY <1>0 DEF AggregateReadOffset, RingInv, CountsFrom
<1>2. RingInv'
  <2>1. CountsFrom(mReadOffset)'
    BY <1>0, <1>c DEF AggregateReadOffset, CountsFrom, RingInv
  <2> QED  BY <1>0, <1>b, <1>c, <2>1 DEF AggregateReadOffset, RingInv
<1>3. EndInv'
  BY <1>0 DEF AggregateReadOffset, EndInv
<1>4. PositionInv'
  <2> SUFFICES ASSUME NEW q \in readers' PROVE PositionInv!(q)'
    BY DEF PositionInv
  <2>0. /\ readers' = readers /\ offset' = offset /\ mBufferLevel' = mBufferLevel
        /\ pending' = pending /\ nextSlot' = nextSlot
    BY DEF AggregateReadOffset
  <2>1. mReadOffset' = IF local[p] = NumBuffers THEN 0 ELSE local[p]
    BY <1>c DEF AggregateReadOffset
  <2>2. Position(q) = offset[q] /\ Position(q)' = offset[q]
    BY <1>0, <1>a, <1>b, <2>0 DEF AggregateReadOffset, Position
  <2>3. offset[q] = mReadOffset' + mBufferLevel - pending[q]
    BY <1>0, <1>c, <2>0, <2>1 DEF AggregateReadOffset, PositionInv, Wrapping
  <2> QED  BY <1>0, <1>b, <2>0, <2>2, <2>3 DEF PositionInv, Wrapping
<1>5. LocalInv'
  BY <1>0 DEF AggregateReadOffset, LocalInv, EndInv
<1>6. GrantInv'
  BY <1>0 DEF AggregateReadOffset, GrantInv
<1>7. WriterInv'
  BY <1>0 DEF AggregateReadOffset, WriterInv
<1> QED
  BY <1>1, <1>2, <1>3, <1>4, <1>5, <1>6, <1>7 DEF IInv

\* The death of a reader outside endAccess leaves the ring consistent.
LEMMA CrashStep ==
  ASSUME SerialEnds, IInv, NEW p \in Readers, Crash(p)
  PROVE  IInv'
<1> USE DEF ringVars, tableVars, writerVars, readerVars, ghostVars, EndPcs, NoGrant, Shape
<1>0. Shape /\ RingInv /\ EndInv /\ PositionInv /\ LocalInv /\ GrantInv /\ WriterInv
  BY DEF IInv
<1>1. Shape'
  BY <1>0 DEF Crash
<1>2. RingInv'
  BY <1>0 DEF Crash, RingInv, Aggregating, CountsFrom
<1>3. EndInv'
  BY <1>0 DEF Crash, EndInv
<1>4. PositionInv'
  BY <1>0 DEF Crash, PositionInv, Position, Wrapping
<1>5. LocalInv'
  BY <1>0 DEF Crash, LocalInv
<1>6. GrantInv'
  BY <1>0 DEF Crash, GrantInv
<1>7. WriterInv'
  BY <1>0 DEF Crash, WriterInv
<1> QED
  BY <1>1, <1>2, <1>3, <1>4, <1>5, <1>6, <1>7 DEF IInv

\* A new reader process starts unregistered.
LEMMA RestartStep ==
  ASSUME SerialEnds, IInv, NEW p \in Readers, Restart(p)
  PROVE  IInv'
<1> USE DEF ringVars, tableVars, writerVars, readerVars, ghostVars, EndPcs, NoGrant, Shape
<1>0. Shape /\ RingInv /\ EndInv /\ PositionInv /\ LocalInv /\ GrantInv /\ WriterInv
  BY DEF IInv
<1>1. Shape'
  BY <1>0 DEF Restart
<1>2. RingInv'
  BY <1>0 DEF Restart, RingInv, Aggregating, CountsFrom
<1>3. EndInv'
  BY <1>0 DEF Restart, EndInv
<1>4. PositionInv'
  BY <1>0 DEF Restart, PositionInv, Position, Wrapping
<1>5. LocalInv'
  BY <1>0 DEF Restart, LocalInv
<1>6. GrantInv'
  BY <1>0 DEF Restart, GrantInv
<1>7. WriterInv'
  BY <1>0 DEF Restart, WriterInv
<1> QED
  BY <1>1, <1>2, <1>3, <1>4, <1>5, <1>6, <1>7 DEF IInv

\* beginAccess(write) loads a level that can only be too large later on.
LEMMA BeginWriteStep ==
  ASSUME SerialEnds, IInv, BeginWrite
  PROVE  IInv'
<1> USE DEF ringVars, tableVars, writerVars, readerVars, ghostVars, EndPcs, NoGrant, Shape
<1>0. Shape /\ RingInv /\ EndInv /\ PositionInv /\ LocalInv /\ GrantInv /\ WriterInv
  BY DEF IInv
<1>1. Shape'
  BY <1>0 DEF BeginWrite
<1>2. RingInv'
  BY <1>0 DEF BeginWrite, RingInv, Aggregating, CountsFrom
<1>3. EndInv'
  BY <1>0 DEF BeginWrite, EndInv
<1>4. PositionInv'
  BY <1>0 DEF BeginWrite, PositionInv, Position, Wrapping
<1>5. LocalInv'
  BY <1>0 DEF BeginWrite, LocalInv
<1>6. GrantInv'
  BY <1>0 DEF BeginWrite, GrantInv
<1>7. WriterInv'
  BY <1>0 DEF BeginWrite, WriterInv, RingInv, Aggregating, CountsFrom
<1> QED
  BY <1>1, <1>2, <1>3, <1>4, <1>5, <1>6, <1>7 DEF IInv

\* beginAccess(write) grants free slots, whatever readers did since the load.
LEMMA GrantWriteStep ==
  ASSUME SerialEnds, IInv, NEW n \in WriteSizes, GrantWrite(n)
  PROVE  IInv'
<1> USE DEF ringVars, tableVars, writerVars, readerVars, ghostVars, EndPcs, NoGrant, Shape
<1>0. Shape /\ RingInv /\ EndInv /\ PositionInv /\ LocalInv /\ GrantInv /\ WriterInv
  BY DEF IInv
<1>1. Shape'
  BY <1>0 DEF GrantWrite, WriteGrant
<1>2. RingInv'
  BY <1>0 DEF GrantWrite, RingInv, Aggregating, CountsFrom
<1>3. EndInv'
  BY <1>0 DEF GrantWrite, EndInv
<1>4. PositionInv'
  BY <1>0 DEF GrantWrite, PositionInv, Position, Wrapping
<1>5. LocalInv'
  BY <1>0 DEF GrantWrite, LocalInv
<1>6. GrantInv'
  BY <1>0 DEF GrantWrite, GrantInv
<1>7. WriterInv'
  BY <1>0, SMTT(30) DEF GrantWrite, WriteGrant, Least, Sub, WriterInv, RingInv, Aggregating, CountsFrom, EndInv, LocalInv
<1> QED
  BY <1>1, <1>2, <1>3, <1>4, <1>5, <1>6, <1>7 DEF IInv

\* endAccess(write) publishes at most what was granted and purges only readers
\* that are not inside endAccess.
LEMMA EndWriteStep ==
  ASSUME SerialEnds, IInv, NEW n \in 0..NumBuffers, EndWrite(n)
  PROVE  IInv'
<1> USE DEF ringVars, tableVars, writerVars, readerVars, ghostVars, EndPcs, NoGrant, Shape
<1>0. Shape /\ RingInv /\ EndInv /\ PositionInv /\ LocalInv /\ GrantInv /\ WriterInv
  BY DEF IInv
<1>1. Shape'
  BY <1>0 DEF EndWrite, Unregister, Add
<1>2. RingInv'
  BY <1>0 DEF EndWrite, Add, MutexFree, RingInv, Aggregating, CountsFrom, WriterInv
<1>3. EndInv'
  BY <1>0 DEF EndWrite, Unregister, Unresponsive, NoPurgeInside, EndInv
<1>4. PositionInv'
  <2> SUFFICES ASSUME NEW q \in readers' PROVE PositionInv!(q)'
    BY DEF PositionInv
  <2>1. /\ q \in readers /\ offset'[q] = offset[q] /\ nextSlot'[q] = nextSlot[q]
        /\ pending'[q] = pending[q] + n
        /\ mReadOffset' = mReadOffset /\ readerPc' = readerPc /\ local' = local
    BY <1>0 DEF EndWrite, Unregister, Unresponsive
  <2>2. mBufferLevel' = mBufferLevel + n
    BY <1>0 DEF EndWrite, Add, WriterInv, RingInv
  <2> QED  BY <1>0, <2>1, <2>2 DEF EndWrite, PositionInv, Position, Wrapping, MutexFree, RingInv
<1>5. LocalInv'
  BY <1>0 DEF EndWrite, Unregister, Unresponsive, Add, MutexFree, LocalInv, RingInv, WriterInv
<1>6. GrantInv'
  BY <1>0 DEF EndWrite, Unregister, GrantInv
<1>7. WriterInv'
  BY <1>0 DEF EndWrite, WriterInv
<1> QED
  BY <1>1, <1>2, <1>3, <1>4, <1>5, <1>6, <1>7 DEF IInv

\* Time changes only how long readers have been silent.
LEMMA TickStep ==
  ASSUME SerialEnds, IInv, Tick
  PROVE  IInv'
<1> USE DEF ringVars, tableVars, writerVars, readerVars, ghostVars, EndPcs, NoGrant, Shape
<1>0. Shape /\ RingInv /\ EndInv /\ PositionInv /\ LocalInv /\ GrantInv /\ WriterInv
  BY DEF IInv
<1>1. Shape'
  BY <1>0 DEF Tick
<1>2. RingInv'
  BY <1>0 DEF Tick, RingInv, Aggregating, CountsFrom
<1>3. EndInv'
  BY <1>0 DEF Tick, EndInv
<1>4. PositionInv'
  BY <1>0 DEF Tick, PositionInv, Position, Wrapping
<1>5. LocalInv'
  BY <1>0 DEF Tick, LocalInv
<1>6. GrantInv'
  BY <1>0 DEF Tick, GrantInv
<1>7. WriterInv'
  BY <1>0 DEF Tick, WriterInv
<1> QED
  BY <1>1, <1>2, <1>3, <1>4, <1>5, <1>6, <1>7 DEF IInv

----------------------------------------------------------------------------
(* The theorems. *)

\* An empty ring without readers satisfies the invariant.
LEMMA InitStep == Init => IInv
<1> SUFFICES ASSUME Init PROVE IInv
  OBVIOUS
<1>1. Shape
  BY DEF Init, Shape, NoGrant, EndPcs
<1>2. RingInv /\ EndInv /\ PositionInv
  BY DEF Init, RingInv, Aggregating, CountsFrom, EndInv, EndPcs, PositionInv
<1>3. LocalInv /\ GrantInv /\ WriterInv
  BY DEF Init, LocalInv, GrantInv, WriterInv
<1> QED  BY <1>1, <1>2, <1>3 DEF IInv

\* Every step of the readers and the writer preserves the invariant.
LEMMA NextStep ==
  ASSUME SerialEnds, IInv, [Next]_vars
  PROVE  IInv'
<1>1. ASSUME NEW p \in Readers, ReaderStep(p) PROVE IInv'
  BY <1>1, WaitReadTimeoutStep, BeginReadStep, EndReadRejectedStep, EndReadStep,
     StoreOffsetStep, UpdateSmallerReaderOffsetStep, AggregateLevelStep,
     AggregateReadOffsetStep DEF ReaderStep
<1>2. ASSUME NEW p \in Readers, Membership(p) PROVE IInv'
  BY <1>2, AddReaderStep, RemoveReaderStep, CrashStep, RestartStep DEF Membership
<1>3. CASE WriterStep
  BY <1>3, BeginWriteStep, GrantWriteStep, EndWriteStep DEF WriterStep
<1>4. CASE Tick
  BY <1>4, TickStep
<1>5. CASE UNCHANGED vars
  BY <1>5 DEF vars, ringVars, tableVars, writerVars, readerVars, ghostVars, IInv, Shape, RingInv,
     Aggregating, CountsFrom, EndInv, PositionInv, Position, Wrapping, LocalInv, GrantInv, WriterInv
<1> QED  BY <1>1, <1>2, <1>3, <1>4, <1>5 DEF Next

\* IInv holds in every reachable state.
LEMMA IInvIsInvariant ==
  ASSUME SerialEnds
  PROVE  Spec => []IInv
<1>1. IInv /\ [Next]_vars => IInv'
  BY NextStep
<1> QED  BY <1>1, InitStep, PTL DEF Spec

\* After every step of IasAvbVideoRingBufferShm the offsets are slots of the ring and
\* the unsigned mBufferLevel has not wrapped around.
THEOREM TypeCorrect ==
  ASSUME SerialEnds
  PROVE  Spec => []TypeOK
<1>1. IInv => TypeOK
  BY DEF IInv, Shape, RingInv, TypeOK
<1> QED  BY <1>1, IInvIsInvariant, PTL

\* beginAccess(write) never grants a slot with a packet that a registered reader has
\* still to read, for any ring size, any set of readers and any request sizes.
THEOREM WriterNeverOverwrites ==
  ASSUME SerialEnds
  PROVE  Spec => []NoOverwrite
<1>1. IInv => NoOverwrite
  BY DEF IInv, Shape, RingInv, PositionInv, WriterInv, NoOverwrite
<1> QED  BY <1>1, IInvIsInvariant, PTL

\* beginAccess(read) gives every reader all packets once, in the order written.
THEOREM ReadersReadInOrder ==
  ASSUME SerialEnds
  PROVE  Spec => []InOrderDelivery
<1>1. IInv => InOrderDelivery
  <2> SUFFICES ASSUME IInv, NEW p \in readers, readerPc[p] = "reading", granted[p].num > 0
               PROVE  granted[p].offset = nextSlot[p] /\ granted[p].num <= pending[p]
    BY DEF InOrderDelivery
  <2>1. /\ granted[p].offset = offset[p] /\ granted[p].num \in 0..pending[p]
        /\ offset[p] + granted[p].num <= NumBuffers
    BY DEF IInv, GrantInv
  <2>2. offset[p] # NumBuffers
    BY <2>1 DEF IInv, Shape, PositionInv
  <2> QED  BY <2>1, <2>2 DEF IInv, Shape, PositionInv, Position
<1> QED  BY <1>1, IInvIsInvariant, PTL

\* mBufferLevel covers what the slowest reader has to read, and stays within the ring.
THEOREM LevelIsSound ==
  ASSUME SerialEnds
  PROVE  Spec => []LevelCoversSlowest
<1>1. IInv => LevelCoversSlowest
  BY DEF IInv, Shape, RingInv, PositionInv, LevelCoversSlowest
<1> QED  BY <1>1, IInvIsInvariant, PTL

\* Only the writer's endAccess raises mBufferLevel; a reader's endAccess lowers it.
THEOREM ReadersLowerLevel ==
  ASSUME SerialEnds
  PROVE  Spec => ReadersOnlyLowerLevel
<1> DEFINE Lowers == mBufferLevel' > mBufferLevel => writerPc # writerPc'
<1>1. ASSUME IInv, Next PROVE Lowers
  <2> USE DEF ringVars, tableVars, writerVars, readerVars, ghostVars
  <2>0. mBufferLevel \in Int
    BY <1>1 DEF IInv, Shape
  <2>1. ASSUME NEW p \in Readers, AggregateLevel(p) PROVE ~(mBufferLevel' > mBufferLevel)
    BY <1>1, <2>1 DEF AggregateLevel, Sub, IInv, Shape, LocalInv, RingInv
  <2>2. ASSUME NEW p \in Readers, ReaderStep(p), ~AggregateLevel(p)
        PROVE  mBufferLevel' = mBufferLevel
    BY <2>2 DEF ReaderStep, WaitReadTimeout, BeginRead, EndReadRejected, EndRead, StoreOffset,
       UpdateSmallerReaderOffset, AggregateReadOffset
  <2>3. ASSUME NEW p \in Readers, Membership(p) PROVE mBufferLevel' = mBufferLevel
    BY <2>3 DEF Membership, AddReader, RemoveReader, Crash, Restart
  <2>4. CASE WriterStep
    BY <2>4 DEF WriterStep, BeginWrite, GrantWrite, EndWrite
  <2>5. CASE Tick
    BY <2>0, <2>5 DEF Tick
  <2>6. ASSUME NEW p \in Readers, ReaderStep(p) \/ Membership(p) PROVE Lowers
    BY <2>0, <2>1, <2>2, <2>3, <2>6
  <2> HIDE DEF Lowers
  <2> QED  BY <1>1, <2>4, <2>5, <2>6 DEF Next
<1>2. ASSUME IInv, UNCHANGED vars PROVE Lowers
  BY <1>2 DEF vars, ringVars, IInv, Shape
<1>3. IInv /\ [Next]_vars => [Lowers]_vars
  BY <1>1, <1>2
<1> QED  BY <1>3, IInvIsInvariant, PTL DEF Spec, ReadersOnlyLowerLevel

Contents == Seq(Nat)
Indices == 0 .. NumPackets - 1

----------------------------------------------------------------------------
(* Sequences of contents                                                   *)

In(s) == {s[k] : k \in DOMAIN s}
Rising(s) == \A k, l \in DOMAIN s : k < l => s[k] < s[l]
Below(A, B) == \A a \in A, b \in B : a < b

\* The contents of a sequence.
LEMMA InIs ==
  ASSUME NEW s \in Contents
  PROVE  /\ Len(s) \in Nat /\ DOMAIN s = 1 .. Len(s) /\ In(s) = {s[k] : k \in 1 .. Len(s)} /\ In(s) \subseteq Nat
         /\ \A k \in 1 .. Len(s) : s[k] \in Nat /\ s[k] \in In(s)
<1>1. Len(s) \in Nat /\ DOMAIN s = 1 .. Len(s) /\ \A k \in 1 .. Len(s) : s[k] \in Nat
  BY DEF Contents
<1> QED
  BY <1>1 DEF In

\* A part of a sequence.
LEMMA PartIs ==
  ASSUME NEW s \in Contents, NEW m \in Int, NEW n \in Int, 1 <= m, n <= Len(s)
  PROVE  LET t == SubSeq(s, m, n) IN
         /\ t \in Contents /\ Len(t) = IF m <= n THEN n - m + 1 ELSE 0
         /\ \A i \in 1 .. Len(t) : t[i] = s[i + m - 1]
         /\ In(t) = {s[k] : k \in m .. n}
         /\ Rising(s) => Rising(t)
<1> DEFINE t == SubSeq(s, m, n)
<1>0. Len(s) \in Nat /\ DOMAIN s = 1 .. Len(s) /\ \A k \in 1 .. Len(s) : s[k] \in Nat
  BY InIs
<1>1. t \in Contents /\ Len(t) = IF m <= n THEN n - m + 1 ELSE 0
  BY <1>0, SMT DEF Contents
<1>2. \A i \in 1 .. Len(t) : t[i] = s[i + m - 1]
  BY <1>0, <1>1, SMT DEF Contents
<1> HIDE DEF t
<1>3. DOMAIN t = 1 .. Len(t) /\ In(t) = {t[k] : k \in 1 .. Len(t)} /\ Len(t) \in Nat
  BY <1>1, InIs
<1>4. In(t) = {s[k] : k \in m .. n}
  <2>1. \A k \in m .. n : k - m + 1 \in 1 .. Len(t) /\ t[k - m + 1] = s[k]
    BY <1>1, <1>2
  <2>2. \A i \in 1 .. Len(t) : i + m - 1 \in m .. n
    BY <1>1
  <2>3. \A x : x \in In(t) <=> \E i \in 1 .. Len(t) : x = t[i]
    BY <1>3
  <2>4. ASSUME NEW x \in In(t) PROVE x \in {s[k] : k \in m .. n}
    <3>1. PICK i \in 1 .. Len(t) : x = t[i]
      BY <2>3
    <3> QED
      BY <1>2, <2>2, <3>1
  <2>5. ASSUME NEW k \in m .. n PROVE s[k] \in In(t)
    BY <2>1, <2>3
  <2> QED
    BY <2>4, <2>5
<1>5. ASSUME Rising(s) PROVE Rising(t)
  <2> SUFFICES ASSUME NEW k \in 1 .. Len(t), NEW l \in 1 .. Len(t), k < l PROVE t[k] < t[l]
    BY <1>3 DEF Rising
  <2>1. k + m - 1 \in DOMAIN s /\ l + m - 1 \in DOMAIN s /\ k + m - 1 < l + m - 1
    BY <1>0, <1>1
  <2> QED
    BY <1>2, <1>5, <2>1 DEF Rising
<1> QED
  BY <1>1, <1>2, <1>4, <1>5 DEF t

\* Two sequences one behind the other.
LEMMA JoinedIs ==
  ASSUME NEW s \in Contents, NEW t \in Contents
  PROVE  /\ s \o t \in Contents /\ Len(s \o t) = Len(s) + Len(t) /\ In(s \o t) = In(s) \cup In(t)
         /\ Rising(s) /\ Rising(t) /\ Below(In(s), In(t)) => Rising(s \o t)
<1> DEFINE u == s \o t
<1>1. u \in Contents /\ Len(u) = Len(s) + Len(t)
      /\ \A i \in 1 .. Len(s) + Len(t) : u[i] = IF i <= Len(s) THEN s[i] ELSE t[i - Len(s)]
  BY SMT DEF Contents
<1> HIDE DEF u
<1>2. Len(u) \in Nat /\ DOMAIN u = 1 .. Len(u) /\ In(u) = {u[k] : k \in 1 .. Len(u)}
  BY <1>1, InIs
<1>3. Len(s) \in Nat /\ DOMAIN s = 1 .. Len(s) /\ In(s) = {s[k] : k \in 1 .. Len(s)}
  BY InIs
<1>4. Len(t) \in Nat /\ DOMAIN t = 1 .. Len(t) /\ In(t) = {t[k] : k \in 1 .. Len(t)}
  BY InIs
<1>5. \A k \in 1 .. Len(s) : k \in 1 .. Len(u) /\ u[k] = s[k]
  BY <1>1, <1>3, <1>4
<1>6. \A k \in 1 .. Len(t) : k + Len(s) \in 1 .. Len(u) /\ u[k + Len(s)] = t[k]
  BY <1>1, <1>3, <1>4
<1>7. \A k \in 1 .. Len(u) : \/ k \in 1 .. Len(s) /\ u[k] = s[k]
                             \/ k > Len(s) /\ k - Len(s) \in 1 .. Len(t) /\ u[k] = t[k - Len(s)]
  BY <1>1, <1>3, <1>4
<1>8. In(u) = In(s) \cup In(t)
  <2>1. ASSUME NEW x \in In(u) PROVE x \in In(s) \cup In(t)
    <3>1. PICK k \in 1 .. Len(u) : x = u[k]
      BY <1>2, <2>1
    <3> QED
      BY <1>3, <1>4, <1>7, <3>1
  <2>2. ASSUME NEW x \in In(s) PROVE x \in In(u)
    <3>1. PICK k \in 1 .. Len(s) : x = s[k]
      BY <1>3, <2>2
    <3> QED
      BY <1>2, <1>5, <3>1
  <2>3. ASSUME NEW x \in In(t) PROVE x \in In(u)
    <3>1. PICK k \in 1 .. Len(t) : x = t[k]
      BY <1>4, <2>3
    <3> QED
      BY <1>2, <1>6, <3>1
  <2> QED
    BY <2>1, <2>2, <2>3
<1>9. ASSUME Rising(s), Rising(t), Below(In(s), In(t)) PROVE Rising(u)
  <2> SUFFICES ASSUME NEW k \in 1 .. Len(u), NEW l \in 1 .. Len(u), k < l PROVE u[k] < u[l]
    BY <1>2 DEF Rising
  <2>1. CASE l \in 1 .. Len(s)
    <3>1. k \in 1 .. Len(s)
      BY <1>3, <2>1
    <3> QED
      BY <1>3, <1>5, <1>9, <2>1, <3>1 DEF Rising
  <2>2. CASE k > Len(s)
    <3>1. l > Len(s)
      BY <1>2, <1>3, <2>2
    <3>2. k - Len(s) \in 1 .. Len(t) /\ l - Len(s) \in 1 .. Len(t) /\ k - Len(s) < l - Len(s)
          /\ u[k] = t[k - Len(s)] /\ u[l] = t[l - Len(s)]
      BY <1>3, <1>4, <1>7, <2>2, <3>1
    <3> QED
      BY <1>4, <1>9, <3>2 DEF Rising
  <2>3. CASE k \in 1 .. Len(s) /\ l > Len(s)
    <3>1. u[k] \in In(s)
      BY <1>3, <1>5, <2>3
    <3>2. u[l] \in In(t)
      <4>1. l \notin 1 .. Len(s)
        BY <1>3, <2>3
      <4>2. l - Len(s) \in 1 .. Len(t) /\ u[l] = t[l - Len(s)]
        BY <1>7, <4>1
      <4> QED
        BY <1>4, <4>2
    <3> QED
      BY <1>9, <3>1, <3>2 DEF Below
  <2> QED
    BY <1>3, <1>7, <2>1, <2>2, <2>3
<1> QED
  BY <1>1, <1>8, <1>9 DEF u

\* The parts of a packet: no more than fits each, and in order.
LEMMA ChunksAre ==
  ASSUME NEW c \in Contents, MaxTsps \in Nat \ {0}
  PROVE  /\ Chunks(c) \in Seq(Contents)
         /\ \A i \in DOMAIN Chunks(c) : Len(Chunks(c)[i]) <= MaxTsps /\ In(Chunks(c)[i]) \subseteq In(c)
         /\ Rising(c) => /\ \A i \in DOMAIN Chunks(c) : Rising(Chunks(c)[i])
                         /\ \A i, j \in DOMAIN Chunks(c) : i < j => Below(In(Chunks(c)[i]), In(Chunks(c)[j]))
<1> DEFINE n == (Len(c) + MaxTsps - 1) \div MaxTsps
           upTo(i) == IF i * MaxTsps < Len(c) THEN i * MaxTsps ELSE Len(c)
           from(i) == (i - 1) * MaxTsps + 1
           part(i) == SubSeq(c, from(i), upTo(i))
<1>0. Len(c) \in Nat /\ DOMAIN c = 1 .. Len(c) /\ In(c) = {c[k] : k \in 1 .. Len(c)}
      /\ \A k \in 1 .. Len(c) : c[k] \in Nat
  BY InIs
<1>1. n \in Nat
  BY <1>0
<1>2. Chunks(c) = [i \in 1 .. n |-> part(i)]
  BY DEF Chunks
<1> HIDE DEF n
<1>3. ASSUME NEW i \in 1 .. n
      PROVE  /\ from(i) \in Int /\ upTo(i) \in Int /\ 1 <= from(i) /\ upTo(i) <= Len(c)
             /\ upTo(i) - from(i) + 1 <= MaxTsps
  <2>1. (i - 1) * MaxTsps \in Nat /\ i * MaxTsps \in Nat /\ i * MaxTsps = (i - 1) * MaxTsps + MaxTsps
    BY <1>1, <1>3
  <2>2. from(i) \in Int /\ 1 <= from(i)
    BY <2>1
  <2>3. CASE i * MaxTsps < Len(c)
    BY <1>0, <2>1, <2>2, <2>3
  <2>4. CASE ~(i * MaxTsps < Len(c))
    BY <1>0, <2>1, <2>2, <2>4
  <2> QED
    BY <2>3, <2>4
<1>4. ASSUME NEW i \in 1 .. n, NEW j \in 1 .. n, i < j PROVE upTo(i) < from(j)
  <2>1. i * MaxTsps \in Int /\ (j - 1) * MaxTsps \in Int
    BY <1>1
  <2>2. i * MaxTsps <= (j - 1) * MaxTsps
    <3>1. i <= j - 1 /\ i \in Nat /\ j - 1 \in Nat
      BY <1>1, <1>4
    <3> QED
      BY <3>1
  <2>3. upTo(i) <= i * MaxTsps
    BY <1>0, <2>1
  <2>4. upTo(i) \in Int
    BY <1>3
  <2> DEFINE a == i * MaxTsps
             b == (j - 1) * MaxTsps
  <2>5. from(j) = b + 1
    OBVIOUS
  <2> HIDE DEF a, b, upTo, from
  <2>6. a \in Int /\ b \in Int /\ a <= b /\ upTo(i) <= a
    BY <2>1, <2>2, <2>3 DEF a, b
  <2> QED
    BY <2>4, <2>5, <2>6
<1> HIDE DEF upTo, from
<1>5. ASSUME NEW i \in 1 .. n
      PROVE  /\ part(i) \in Contents /\ Len(part(i)) <= MaxTsps
             /\ In(part(i)) = {c[k] : k \in from(i) .. upTo(i)} /\ (Rising(c) => Rising(part(i)))
  BY <1>3, PartIs
<1>6. \A i \in 1 .. n : \A x \in In(part(i)) : \E k \in from(i) .. upTo(i) : x = c[k] /\ k \in 1 .. Len(c)
  <2> SUFFICES ASSUME NEW i \in 1 .. n, NEW x \in In(part(i))
               PROVE  \E k \in from(i) .. upTo(i) : x = c[k] /\ k \in 1 .. Len(c)
    OBVIOUS
  <2>1. PICK k \in from(i) .. upTo(i) : x = c[k]
    BY <1>5
  <2>2. k \in 1 .. Len(c)
    BY <1>0, <1>3, <2>1
  <2> QED
    BY <2>1, <2>2
<1> HIDE DEF part
<1>7. \A i \in 1 .. n : In(part(i)) \subseteq In(c)
  BY <1>0, <1>6
<1>9. ASSUME Rising(c), NEW i \in 1 .. n, NEW j \in 1 .. n, i < j PROVE Below(In(part(i)), In(part(j)))
  <2> SUFFICES ASSUME NEW x \in In(part(i)), NEW y \in In(part(j)) PROVE x < y
    BY DEF Below
  <2>1. PICK k \in from(i) .. upTo(i) : x = c[k] /\ k \in 1 .. Len(c)
    BY <1>6
  <2>2. PICK l \in from(j) .. upTo(j) : y = c[l] /\ l \in 1 .. Len(c)
    BY <1>6
  <2>3. k < l
    BY <1>3, <1>4, <1>9, <2>1, <2>2
  <2> QED
    BY <1>0, <1>9, <2>1, <2>2, <2>3 DEF Rising
<1>8. Chunks(c) \in Seq(Contents) /\ DOMAIN Chunks(c) = 1 .. n /\ \A i \in 1 .. n : Chunks(c)[i] = part(i)
  BY <1>1, <1>2, <1>5
<1>10. \A i \in 1 .. n : Len(part(i)) <= MaxTsps /\ (Rising(c) => Rising(part(i)))
  BY <1>5
<1> HIDE DEF Chunks
<1> QED
  BY <1>7, <1>8, <1>9, <1>10

----------------------------------------------------------------------------
(* The ring of the local buffer: s its slots, r and w its indices          *)

SlotTypes == [packet : Packets \cup {NoPacket}, tsps : Contents]
Slots == [Indices -> SlotTypes]

Level(r, w) == IF w < r THEN w - r + NumPackets ELSE w - r
Spot(i, r) == IF r <= i THEN i - r ELSE i - r + NumPackets

RingOK(s, r, w) == \A i \in Indices : IF Spot(i, r) < Level(r, w) THEN s[i].packet # NoPacket ELSE s[i] = EmptySlot

\* where the packets are: f on the free stack, g with the driver
PlacesOK(s, f, g) ==
  /\ f \cap g = {}
  /\ \A i \in Indices : s[i].packet \notin f \cup g
  /\ \A i, j \in Indices : i # j /\ s[i].packet = s[j].packet => s[i].packet = NoPacket
NoneLost(s, f, g) == \A p \in Packets : p \in f \cup g \/ \E i \in Indices : s[i].packet = p

SizesOK(s) == side = "ts" => \A i \in Indices : Len(s[i].tsps) <= MaxTsps

\* the contents of the slots are in order, and above l
InSlots(s) == UNION {In(s[i].tsps) : i \in Indices}
SlotsInOrder(s, r, l) ==
  /\ \A i \in Indices : Rising(s[i].tsps)
  /\ Below({l}, InSlots(s))
  /\ \A i, j \in Indices : Spot(i, r) < Spot(j, r) => Below(In(s[i].tsps), In(s[j].tsps))

\* The index after an index.
LEMMA AfterIs ==
  ASSUME NEW i \in Indices
  PROVE  After(i) = (IF i = NumPackets - 1 THEN 0 ELSE i + 1) /\ After(i) \in Indices
<1>0. NumPackets \in Nat /\ NumPackets > 1
  BY VideoConstants
<1>1. CASE i = NumPackets - 1
  <2>1. i + 1 = NumPackets
    BY <1>0, <1>1
  <2>2. NumPackets % NumPackets = 0
    BY <1>0
  <2> QED
    BY <1>0, <1>1, <2>1, <2>2 DEF After, Indices
<1>2. CASE i # NumPackets - 1
  <2>1. i + 1 \in Nat /\ i + 1 < NumPackets
    BY <1>0, <1>2 DEF Indices
  <2>2. (i + 1) % NumPackets = i + 1
    BY <1>0, <2>1
  <2> QED
    BY <1>0, <1>2, <2>1, <2>2 DEF After, Indices
<1> QED
  BY <1>1, <1>2

\* Levels and spots when an index moves.
LEMMA SpotIs ==
  ASSUME NEW r \in Indices, NEW w \in Indices
  PROVE  /\ Level(r, w) \in Indices
         /\ \A i \in Indices : Spot(i, r) \in Indices
         /\ \A i, j \in Indices : Spot(i, r) = Spot(j, r) => i = j
         /\ Spot(r, r) = 0 /\ Spot(w, r) = Level(r, w)
         /\ Level(r, w) > 0 => /\ Level(After(r), w) = Level(r, w) - 1
                               /\ Spot(r, After(r)) = NumPackets - 1
                               /\ \A i \in Indices : i # r => Spot(i, After(r)) = Spot(i, r) - 1
                               /\ w > 0 => Spot(w - 1, r) = Level(r, w) - 1
         /\ Level(r, w) # NumPackets - 1 => Level(r, After(w)) = Level(r, w) + 1
<1>0. NumPackets \in Nat /\ NumPackets > 1
  BY VideoConstants
<1>1. After(r) = (IF r = NumPackets - 1 THEN 0 ELSE r + 1) /\ After(w) = (IF w = NumPackets - 1 THEN 0 ELSE w + 1)
  BY AfterIs
<1>2. \A i \in Indices : Spot(i, r) \in Indices
  BY <1>0 DEF Spot, Indices
<1>3. \A i, j \in Indices : Spot(i, r) = Spot(j, r) => i = j
  BY <1>0 DEF Spot, Indices
<1>4. Level(r, w) \in Indices /\ Spot(r, r) = 0 /\ Spot(w, r) = Level(r, w)
  BY <1>0 DEF Spot, Indices, Level
<1>5. ASSUME Level(r, w) > 0
      PROVE  /\ Level(After(r), w) = Level(r, w) - 1
             /\ Spot(r, After(r)) = NumPackets - 1
             /\ w > 0 => Spot(w - 1, r) = Level(r, w) - 1
  BY <1>0, <1>1, <1>5 DEF Spot, Indices, Level
<1>6. \A i \in Indices : i # r => Spot(i, After(r)) = Spot(i, r) - 1
  BY <1>0, <1>1 DEF Spot, Indices
<1>7. Level(r, w) # NumPackets - 1 => Level(r, After(w)) = Level(r, w) + 1
  BY <1>0, <1>1 DEF Indices, Level
<1> QED
  BY <1>2, <1>3, <1>4, <1>5, <1>6, <1>7

\* An occupied slot is one between the indices.
LEMMA OccupiedIs ==
  ASSUME NEW s \in Slots, NEW r \in Indices, NEW w \in Indices, RingOK(s, r, w), NEW i \in Indices
  PROVE  /\ s[i].packet # NoPacket <=> Spot(i, r) < Level(r, w)
         /\ s[i].packet # NoPacket <=> IF r <= w THEN r <= i /\ i < w ELSE r <= i \/ i < w
         /\ s[i].packet = NoPacket => s[i] = EmptySlot
<1>0. NumPackets \in Nat /\ NumPackets > 1
  BY VideoConstants
<1>1. s[i].packet # NoPacket <=> Spot(i, r) < Level(r, w)
  BY DEF RingOK, EmptySlot
<1>2. Spot(i, r) < Level(r, w) <=> IF r <= w THEN r <= i /\ i < w ELSE r <= i \/ i < w
  BY <1>0 DEF Spot, Level, Indices
<1> QED
  BY <1>1, <1>2 DEF RingOK

----------------------------------------------------------------------------
(* What happens to the ring: empty, grow, fill, take                        *)

NoSlots == [i \in Indices |-> EmptySlot]
Grow(s, i, x) == [s EXCEPT ![i].tsps = @ \o x]
FillSlot(s, i, p, x) == [s EXCEPT ![i] = [packet |-> p, tsps |-> x]]
TakeSlot(s, i) == [s EXCEPT ![i] = EmptySlot]

\* The slots of an empty buffer.
LEMMA NoSlotsAre ==
  /\ NoSlots \in Slots /\ \A i \in Indices : NoSlots[i] = EmptySlot /\ NoSlots[i].packet = NoPacket /\ In(NoSlots[i].tsps) = {}
  /\ RingOK(NoSlots, 0, 0) /\ SizesOK(NoSlots) /\ InSlots(NoSlots) = {} /\ 0 \in Indices
  /\ \A l : SlotsInOrder(NoSlots, 0, l)
<1>0. NumPackets \in Nat /\ NumPackets > 1 /\ MaxTsps \in Nat
  BY VideoConstants
<1>1. EmptySlot \in SlotTypes /\ EmptySlot.packet = NoPacket /\ EmptySlot.tsps = <<>>
  BY DEF EmptySlot, SlotTypes, Contents
<1>2. In(<<>>) = {} /\ Rising(<<>>) /\ Len(<<>>) = 0
  BY DEF In, Rising
<1>3. \A i \in Indices : NoSlots[i] = EmptySlot
  BY DEF NoSlots
<1>4. NoSlots \in Slots
  BY <1>1 DEF NoSlots, Slots
<1>5. RingOK(NoSlots, 0, 0)
  BY <1>0, <1>3 DEF RingOK, Level, Spot, Indices
<1>6. SizesOK(NoSlots)
  BY <1>0, <1>1, <1>2, <1>3 DEF SizesOK
<1>7. \A i \in Indices : Rising(NoSlots[i].tsps) /\ In(NoSlots[i].tsps) = {}
  BY <1>1, <1>2, <1>3
<1>8. InSlots(NoSlots) = {}
  BY <1>7 DEF InSlots
<1>9. \A l : SlotsInOrder(NoSlots, 0, l)
  BY <1>7, <1>8 DEF SlotsInOrder, Below
<1>10. 0 \in Indices
  BY <1>0 DEF Indices
<1>11. \A i \in Indices : NoSlots[i] = EmptySlot /\ NoSlots[i].packet = NoPacket /\ In(NoSlots[i].tsps) = {}
  BY <1>1, <1>3, <1>7
<1> QED
  BY <1>4, <1>5, <1>6, <1>8, <1>9, <1>10, <1>11, Zenon

\* More contents in an occupied slot.
LEMMA GrowKeeps ==
  ASSUME NEW s \in Slots, NEW r \in Indices, NEW w \in Indices, RingOK(s, r, w),
         NEW i \in Indices, s[i].packet # NoPacket, NEW x \in Contents
  PROVE  /\ Grow(s, i, x) \in Slots /\ RingOK(Grow(s, i, x), r, w)
         /\ \A j \in Indices : Grow(s, i, x)[j].packet = s[j].packet
         /\ \A j \in Indices : j # i => Grow(s, i, x)[j] = s[j]
         /\ Grow(s, i, x)[i].tsps = s[i].tsps \o x
<1> DEFINE t == Grow(s, i, x)
<1>1. s[i] \in SlotTypes /\ s[i].tsps \in Contents /\ s[i].tsps \o x \in Contents
  <2>1. s[i] \in SlotTypes
    BY DEF Slots
  <2>2. s[i].tsps \in Contents
    BY <2>1 DEF SlotTypes
  <2> QED
    BY <2>1, <2>2, JoinedIs
<1>2. \A j \in Indices : j # i => t[j] = s[j]
  BY DEF Grow, Slots
<1>3. t[i] = [s[i] EXCEPT !.tsps = @ \o x]
  BY DEF Grow, Slots
<1>4. t[i].packet = s[i].packet /\ t[i].tsps = s[i].tsps \o x /\ t[i] \in SlotTypes
  BY <1>1, <1>3 DEF SlotTypes
<1>5. t \in Slots
  <2>1. DOMAIN t = Indices /\ t = [j \in Indices |-> t[j]]
    BY DEF Grow, Slots
  <2>2. \A j \in Indices : t[j] \in SlotTypes
    BY <1>2, <1>4 DEF Slots
  <2> HIDE DEF t
  <2> QED
    BY <2>1, <2>2 DEF Slots
<1> HIDE DEF t
<1>6. \A j \in Indices : t[j].packet = s[j].packet
  BY <1>2, <1>4
<1>7. RingOK(t, r, w)
  <2>1. Spot(i, r) < Level(r, w)
    BY OccupiedIs
  <2> QED
    BY <1>2, <1>6, <2>1, Zenon DEF RingOK
<1> QED
  BY <1>2, <1>4, <1>5, <1>6, <1>7 DEF t

\* A new packet at the writer's index.
LEMMA FillKeeps ==
  ASSUME NEW s \in Slots, NEW r \in Indices, NEW w \in Indices, RingOK(s, r, w),
         Level(r, w) # NumPackets - 1, NEW p \in Packets, NEW x \in Contents
  PROVE  /\ FillSlot(s, w, p, x) \in Slots /\ RingOK(FillSlot(s, w, p, x), r, After(w))
         /\ \A j \in Indices : j # w => FillSlot(s, w, p, x)[j] = s[j]
         /\ FillSlot(s, w, p, x)[w] = [packet |-> p, tsps |-> x]
         /\ s[w] = EmptySlot
<1> DEFINE t == FillSlot(s, w, p, x)
           n == [packet |-> p, tsps |-> x]
<1>0. NumPackets \in Nat /\ NumPackets > 1 /\ p # NoPacket
  BY VideoConstants DEF Packets, NoPacket
<1>1. \A j \in Indices : j # w => t[j] = s[j]
  BY DEF FillSlot, Slots
<1>2. t[w] = n /\ n \in SlotTypes /\ n.packet # NoPacket
  BY <1>0 DEF FillSlot, Slots, SlotTypes
<1>3. t \in Slots
  BY <1>2 DEF FillSlot, Slots
<1> HIDE DEF t, n
<1>4. /\ Level(r, w) \in Indices /\ Spot(w, r) = Level(r, w) /\ Level(r, After(w)) = Level(r, w) + 1
      /\ \A j \in Indices : Spot(j, r) \in Indices /\ (Spot(j, r) = Spot(w, r) => j = w)
  BY SpotIs
<1>5. RingOK(t, r, After(w))
  <2> SUFFICES ASSUME NEW j \in Indices
               PROVE  IF Spot(j, r) < Level(r, After(w)) THEN t[j].packet # NoPacket ELSE t[j] = EmptySlot
    BY DEF RingOK
  <2>1. CASE j = w
    BY <1>2, <1>4, <2>1 DEF Indices
  <2>2. CASE j # w
    <3>1. Spot(j, r) < Level(r, After(w)) <=> Spot(j, r) < Level(r, w)
      BY <1>4, <2>2 DEF Indices
    <3> QED
      BY <1>1, <2>2, <3>1 DEF RingOK
  <2> QED
    BY <2>1, <2>2
<1>6. s[w] = EmptySlot
  BY <1>4 DEF RingOK, Indices
<1> QED
  BY <1>1, <1>2, <1>3, <1>5, <1>6 DEF t, n

\* The oldest packet is taken out.
LEMMA TakeKeeps ==
  ASSUME NEW s \in Slots, NEW r \in Indices, NEW w \in Indices, RingOK(s, r, w), Level(r, w) > 0
  PROVE  /\ TakeSlot(s, r) \in Slots /\ RingOK(TakeSlot(s, r), After(r), w)
         /\ \A j \in Indices : j # r => TakeSlot(s, r)[j] = s[j]
         /\ TakeSlot(s, r)[r] = EmptySlot /\ s[r].packet \in Packets
<1> DEFINE t == TakeSlot(s, r)
<1>0. NumPackets \in Nat /\ NumPackets > 1
  BY VideoConstants
<1>1. EmptySlot \in SlotTypes
  BY DEF EmptySlot, SlotTypes, Contents
<1>2. t \in Slots /\ t[r] = EmptySlot /\ \A j \in Indices : j # r => t[j] = s[j]
  BY <1>1 DEF TakeSlot, Slots
<1> HIDE DEF t
<1>3. /\ Level(r, w) \in Indices /\ Level(After(r), w) = Level(r, w) - 1 /\ Spot(r, After(r)) = NumPackets - 1
      /\ \A j \in Indices : Spot(j, r) \in Indices
      /\ \A j \in Indices : j # r => Spot(j, After(r)) = Spot(j, r) - 1
      /\ Spot(r, r) = 0
  BY SpotIs
<1>4. RingOK(t, After(r), w)
  <2> SUFFICES ASSUME NEW j \in Indices
               PROVE  IF Spot(j, After(r)) < Level(After(r), w) THEN t[j].packet # NoPacket ELSE t[j] = EmptySlot
    BY DEF RingOK
  <2>1. CASE j = r
    BY <1>0, <1>2, <1>3, <2>1 DEF Indices
  <2>2. CASE j # r
    <3>1. Spot(j, After(r)) < Level(After(r), w) <=> Spot(j, r) < Level(r, w)
      BY <1>0, <1>3, <2>2 DEF Indices
    <3> QED
      BY <1>2, <2>2, <3>1 DEF RingOK
  <2> QED
    BY <2>1, <2>2
<1>5. s[r].packet # NoPacket /\ s[r] \in SlotTypes
  BY <1>3 DEF RingOK, Slots
<1> QED
  BY <1>2, <1>4, <1>5 DEF t, SlotTypes

\* Every slot holds the packet it held before.
LEMMA SameHolders ==
  ASSUME NEW s, NEW t, NEW f, NEW g, \A i \in Indices : t[i].packet = s[i].packet
  PROVE  (PlacesOK(s, f, g) => PlacesOK(t, f, g)) /\ (NoneLost(s, f, g) => NoneLost(t, f, g))
BY DEF PlacesOK, NoneLost

\* A packet of the free stack goes into an empty slot.
LEMMA FilledPlaces ==
  ASSUME NEW s, NEW t, NEW f \in SUBSET Packets, NEW g \in SUBSET Packets, NEW w \in Indices, NEW p \in f,
         PlacesOK(s, f, g), s[w].packet = NoPacket, t[w].packet = p, \A i \in Indices : i # w => t[i].packet = s[i].packet
  PROVE  PlacesOK(t, f \ {p}, g) /\ (NoneLost(s, f, g) => NoneLost(t, f \ {p}, g))
<1>1. p \notin g /\ \A i \in Indices : s[i].packet # p
  BY DEF PlacesOK
<1>2. PlacesOK(t, f \ {p}, g)
  BY <1>1 DEF PlacesOK
<1>3. ASSUME NoneLost(s, f, g), NEW q \in Packets
      PROVE  q \in (f \ {p}) \cup g \/ \E i \in Indices : t[i].packet = q
  <2>1. CASE q = p
    BY <2>1
  <2>2. CASE q # p
    <3>1. ASSUME NEW i \in Indices, s[i].packet = q PROVE t[i].packet = q
      <4>1. q # NoPacket
        BY VideoConstants DEF Packets, NoPacket
      <4> QED
        BY <3>1, <4>1
    <3> QED
      BY <1>3, <2>2, <3>1 DEF NoneLost
  <2> QED
    BY <2>1, <2>2
<1> QED
  BY <1>2, <1>3 DEF NoneLost

\* A packet goes from its slot to the driver.
LEMMA TakenPlaces ==
  ASSUME NEW s, NEW t, NEW f \in SUBSET Packets, NEW g \in SUBSET Packets, NEW r \in Indices,
         PlacesOK(s, f, g), s[r].packet # NoPacket, t[r].packet = NoPacket,
         \A i \in Indices : i # r => t[i].packet = s[i].packet, NoPacket \notin f \cup g
  PROVE  /\ PlacesOK(t, f, g \cup {s[r].packet})
         /\ NoneLost(s, f, g) => NoneLost(t, f, g \cup {s[r].packet})
<1>1. s[r].packet \notin f \cup g /\ \A i \in Indices : i # r => s[i].packet # s[r].packet
  BY DEF PlacesOK
<1>2. PlacesOK(t, f, g \cup {s[r].packet})
  BY <1>1 DEF PlacesOK
<1>3. NoneLost(s, f, g) => NoneLost(t, f, g \cup {s[r].packet})
  BY DEF NoneLost
<1> QED
  BY <1>2, <1>3

\* All packets in slots go back to the free stack.
LEMMA EmptiedPlaces ==
  ASSUME NEW s, DOMAIN s = Indices, NEW f \in SUBSET Packets, NEW g \in SUBSET Packets, PlacesOK(s, f, g)
  PROVE  /\ PlacesOK(NoSlots, f \cup Held(s), g)
         /\ NoneLost(s, f, g) => NoneLost(NoSlots, f \cup Held(s), g)
<1>1. NoPacket \notin f \cup g
  BY VideoConstants DEF Packets, NoPacket
<1>2. \A i \in Indices : NoSlots[i].packet = NoPacket
  BY NoSlotsAre
<1>3. NoPacket \notin Held(s) /\ Held(s) \cap g = {}
  BY DEF Held, PlacesOK
<1>4. PlacesOK(NoSlots, f \cup Held(s), g)
  BY <1>1, <1>2, <1>3 DEF PlacesOK
<1>5. ASSUME NoneLost(s, f, g) PROVE NoneLost(NoSlots, f \cup Held(s), g)
  <2> SUFFICES ASSUME NEW q \in Packets PROVE q \in (f \cup Held(s)) \cup g
    BY DEF NoneLost
  <2>1. q # NoPacket
    BY VideoConstants DEF Packets, NoPacket
  <2> QED
    BY <1>5, <2>1 DEF NoneLost, Held
<1> QED
  BY <1>4, <1>5

----------------------------------------------------------------------------
(* The order of contents                                                   *)

\* The contents of the slots, one by one.
LEMMA InSlotsIs ==
  ASSUME NEW s \in Slots
  PROVE  /\ \A i \in Indices : s[i].tsps \in Contents /\ In(s[i].tsps) \subseteq Nat /\ In(s[i].tsps) \subseteq InSlots(s)
         /\ InSlots(s) \subseteq Nat
         /\ \A x : x \in InSlots(s) <=> \E i \in Indices : x \in In(s[i].tsps)
<1>1. \A i \in Indices : s[i].tsps \in Contents
  BY DEF Slots, SlotTypes
<1>2. \A i \in Indices : In(s[i].tsps) \subseteq Nat
  BY <1>1, InIs
<1> QED
  BY <1>1, <1>2 DEF InSlots

\* What is appended to the newest packet stays in order.
LEMMA GrownOrder ==
  ASSUME NEW s \in Slots, NEW r \in Indices, NEW w \in Indices, RingOK(s, r, w), Level(r, w) > 0, w > 0,
         NEW x \in Contents, Rising(x), Below(InSlots(s), In(x)), NEW l \in Nat, Below({l}, In(x)), SlotsInOrder(s, r, l)
  PROVE  SlotsInOrder(Grow(s, w - 1, x), r, l) /\ InSlots(Grow(s, w - 1, x)) = InSlots(s) \cup In(x)
<1> DEFINE k == w - 1
           t == Grow(s, k, x)
<1>0. k \in Indices /\ Spot(k, r) = Level(r, w) - 1 /\ Level(r, w) \in Indices
  <2>1. k \in Indices
    BY VideoConstants DEF Indices
  <2>2. Spot(k, r) = Level(r, w) - 1 /\ Level(r, w) \in Indices
    BY SpotIs, Zenon
  <2> QED
    BY <2>1, <2>2
<1>1. s[k].packet # NoPacket
  BY <1>0, OccupiedIs DEF Indices
<1> HIDE DEF k
<1>2. t \in Slots /\ (\A j \in Indices : j # k => t[j] = s[j]) /\ t[k].tsps = s[k].tsps \o x
  BY <1>0, <1>1, GrowKeeps
<1> HIDE DEF t
<1>3. \A i \in Indices : s[i].tsps \in Contents /\ In(s[i].tsps) \subseteq InSlots(s)
  BY InSlotsIs
<1>4. In(t[k].tsps) = In(s[k].tsps) \cup In(x) /\ Rising(t[k].tsps)
  <2>1. Below(In(s[k].tsps), In(x)) /\ Rising(s[k].tsps)
    BY <1>0, <1>3 DEF Below, SlotsInOrder
  <2> QED
    BY <1>0, <1>2, <1>3, <2>1, JoinedIs
<1>5. InSlots(t) = InSlots(s) \cup In(x)
  BY <1>0, <1>2, <1>4 DEF InSlots
<1>6. \A i \in Indices : Spot(i, r) > Spot(k, r) => In(s[i].tsps) = {}
  <2> SUFFICES ASSUME NEW i \in Indices, Spot(i, r) > Spot(k, r) PROVE In(s[i].tsps) = {}
    OBVIOUS
  <2>1. ~(Spot(i, r) < Level(r, w))
    BY <1>0, SpotIs DEF Indices
  <2>2. s[i] = EmptySlot
    BY <2>1 DEF RingOK
  <2> QED
    BY <2>2 DEF EmptySlot, In
<1>7. \A i, j \in Indices : Spot(i, r) < Spot(j, r) => Below(In(t[i].tsps), In(t[j].tsps))
  <2> SUFFICES ASSUME NEW i \in Indices, NEW j \in Indices, Spot(i, r) < Spot(j, r)
               PROVE  Below(In(t[i].tsps), In(t[j].tsps))
    OBVIOUS
  <2>1. Below(In(s[i].tsps), In(s[j].tsps))
    BY DEF SlotsInOrder
  <2>2. CASE i = k
    <3>1. j # k /\ In(s[j].tsps) = {}
      <4>1. Spot(i, r) \in Indices /\ Spot(j, r) \in Indices
        BY SpotIs
      <4> QED
        BY <1>6, <2>2, <4>1 DEF Indices
    <3> QED
      BY <1>2, <3>1 DEF Below
  <2>3. CASE i # k /\ j = k
    BY <1>2, <1>3, <1>4, <2>1, <2>3 DEF Below
  <2>4. CASE i # k /\ j # k
    BY <1>2, <2>1, <2>4
  <2> QED
    BY <2>2, <2>3, <2>4
<1>8. \A i \in Indices : Rising(t[i].tsps)
  BY <1>2, <1>4 DEF SlotsInOrder
<1> QED
  BY <1>5, <1>7, <1>8 DEF SlotsInOrder, Below, t, k

\* A packet behind the newest one stays in order.
LEMMA FilledOrder ==
  ASSUME NEW s \in Slots, NEW r \in Indices, NEW w \in Indices, RingOK(s, r, w), Level(r, w) # NumPackets - 1,
         NEW p \in Packets, NEW x \in Contents, Rising(x), Below(InSlots(s), In(x)), NEW l \in Nat, Below({l}, In(x)),
         SlotsInOrder(s, r, l)
  PROVE  SlotsInOrder(FillSlot(s, w, p, x), r, l) /\ InSlots(FillSlot(s, w, p, x)) = InSlots(s) \cup In(x)
<1> DEFINE t == FillSlot(s, w, p, x)
<1>1. t \in Slots /\ (\A j \in Indices : j # w => t[j] = s[j]) /\ t[w].tsps = x /\ s[w] = EmptySlot
  <2>1. t \in Slots /\ (\A j \in Indices : j # w => t[j] = s[j]) /\ t[w] = [packet |-> p, tsps |-> x] /\ s[w] = EmptySlot
    BY FillKeeps
  <2> QED
    BY <2>1
<1> HIDE DEF t
<1>2. In(s[w].tsps) = {}
  BY <1>1 DEF EmptySlot, In
<1>3. \A i \in Indices : In(s[i].tsps) \subseteq InSlots(s)
  BY InSlotsIs
<1>4. InSlots(t) = InSlots(s) \cup In(x)
  BY <1>1, <1>2 DEF InSlots
<1>5. Spot(w, r) = Level(r, w) /\ Level(r, w) \in Indices
  BY SpotIs
<1>6. \A i, j \in Indices : Spot(i, r) < Spot(j, r) => Below(In(t[i].tsps), In(t[j].tsps))
  <2> SUFFICES ASSUME NEW i \in Indices, NEW j \in Indices, Spot(i, r) < Spot(j, r)
               PROVE  Below(In(t[i].tsps), In(t[j].tsps))
    OBVIOUS
  <2>0. Spot(i, r) \in Indices /\ Spot(j, r) \in Indices
    BY SpotIs
  <2>1. Below(In(s[i].tsps), In(s[j].tsps))
    BY DEF SlotsInOrder
  <2>2. CASE i = w
    <3>1. ~(Spot(j, r) < Level(r, w)) /\ j # w
      BY <1>5, <2>0, <2>2 DEF Indices
    <3>2. s[j] = EmptySlot
      BY <3>1 DEF RingOK
    <3>3. In(t[j].tsps) = {}
      BY <1>1, <3>1, <3>2 DEF EmptySlot, In
    <3> QED
      BY <3>3 DEF Below
  <2>3. CASE i # w /\ j = w
    BY <1>1, <1>3, <2>3 DEF Below
  <2>4. CASE i # w /\ j # w
    BY <1>1, <2>1, <2>4
  <2> QED
    BY <2>2, <2>3, <2>4
<1>7. \A i \in Indices : Rising(t[i].tsps)
  BY <1>1 DEF SlotsInOrder
<1> QED
  BY <1>4, <1>6, <1>7 DEF SlotsInOrder, Below, t

\* The oldest packet goes out above the last, and below all others.
LEMMA TakenOrder ==
  ASSUME NEW s \in Slots, NEW r \in Indices, NEW w \in Indices, RingOK(s, r, w), Level(r, w) > 0,
         NEW l \in Nat, SlotsInOrder(s, r, l)
  PROVE  LET c == s[r].tsps
             m == IF c = <<>> THEN l ELSE c[Len(c)]
         IN /\ SlotsInOrder(TakeSlot(s, r), After(r), m)
            /\ InSlots(TakeSlot(s, r)) \subseteq InSlots(s)
            /\ m \in {l} \cup InSlots(s) /\ m \in Nat /\ l <= m
            /\ \A i \in DOMAIN c : c[i] > IF i = 1 THEN l ELSE c[i - 1]
<1> DEFINE c == s[r].tsps
           m == IF c = <<>> THEN l ELSE c[Len(c)]
           t == TakeSlot(s, r)
<1>1. t \in Slots /\ (\A j \in Indices : j # r => t[j] = s[j]) /\ t[r] = EmptySlot
  BY TakeKeeps
<1> HIDE DEF t
<1>2. In(t[r].tsps) = {} /\ Rising(t[r].tsps)
  BY <1>1 DEF EmptySlot, In, Rising
<1>3. \A i \in Indices : In(s[i].tsps) \subseteq InSlots(s) /\ In(s[i].tsps) \subseteq Nat
  BY InSlotsIs
<1>4. c \in Contents /\ Rising(c) /\ Below({l}, In(c)) /\ In(c) \subseteq InSlots(s) /\ In(c) \subseteq Nat
  BY <1>3, InSlotsIs DEF SlotsInOrder, Below
<1>5. /\ Len(c) \in Nat /\ DOMAIN c = 1 .. Len(c) /\ (c = <<>> <=> Len(c) = 0)
      /\ \A k \in 1 .. Len(c) : c[k] \in Nat /\ c[k] \in In(c)
  BY <1>4, InIs DEF Contents
<1>6. \A i \in DOMAIN c : c[i] > IF i = 1 THEN l ELSE c[i - 1]
  <2> SUFFICES ASSUME NEW i \in 1 .. Len(c) PROVE c[i] > IF i = 1 THEN l ELSE c[i - 1]
    BY <1>5
  <2>1. CASE i = 1
    BY <1>4, <1>5, <2>1 DEF Below
  <2>2. CASE i # 1
    <3>1. i - 1 \in DOMAIN c /\ i \in DOMAIN c /\ i - 1 < i
      BY <1>5, <2>2
    <3>2. c[i - 1] < c[i] /\ c[i - 1] \in Nat /\ c[i] \in Nat
      BY <1>4, <1>5, <3>1 DEF Rising
    <3> QED
      BY <2>2, <3>2
  <2> QED
    BY <2>1, <2>2
<1>7. m \in {l} \cup In(c) /\ m \in Nat /\ l <= m
  BY <1>4, <1>5 DEF Below
<1>8. \A i \in Indices : i # r => Spot(r, r) < Spot(i, r)
  BY SpotIs DEF Indices
<1>9. ASSUME NEW i \in Indices, i # r PROVE Below({m}, In(s[i].tsps))
  <2>1. Below(In(c), In(s[i].tsps))
    BY <1>8, <1>9 DEF SlotsInOrder
  <2>2. Below({l}, In(s[i].tsps))
    BY <1>3 DEF SlotsInOrder, Below
  <2> HIDE DEF c, m
  <2> QED
    BY <1>7, <2>1, <2>2 DEF Below
<1>10. Below({m}, InSlots(t))
  <2> SUFFICES ASSUME NEW x \in InSlots(t) PROVE m < x
    BY DEF Below
  <2>1. PICK i \in Indices : x \in In(t[i].tsps)
    BY <1>1, InSlotsIs
  <2>2. i # r /\ x \in In(s[i].tsps)
    BY <1>1, <1>2, <2>1
  <2> HIDE DEF c, m
  <2> QED
    BY <1>9, <2>2 DEF Below
<1>11. InSlots(t) \subseteq InSlots(s)
  BY <1>1, <1>2 DEF InSlots
<1>12. \A i, j \in Indices : Spot(i, After(r)) < Spot(j, After(r)) => Below(In(t[i].tsps), In(t[j].tsps))
  <2> SUFFICES ASSUME NEW i \in Indices, NEW j \in Indices, Spot(i, After(r)) < Spot(j, After(r))
               PROVE  Below(In(t[i].tsps), In(t[j].tsps))
    OBVIOUS
  <2>1. CASE i = r \/ j = r
    BY <1>2, <2>1 DEF Below
  <2>2. CASE i # r /\ j # r
    <3>1. Spot(i, r) < Spot(j, r)
      <4>1. /\ Spot(i, After(r)) = Spot(i, r) - 1 /\ Spot(j, After(r)) = Spot(j, r) - 1
            /\ Spot(i, r) \in Indices /\ Spot(j, r) \in Indices
        BY <2>2, SpotIs
      <4> QED
        BY <4>1 DEF Indices
    <3> QED
      BY <1>1, <2>2, <3>1 DEF SlotsInOrder
  <2> QED
    BY <2>1, <2>2
<1>13. \A i \in Indices : Rising(t[i].tsps)
  BY <1>1, <1>2 DEF SlotsInOrder
<1> HIDE DEF m, c
<1>14. SlotsInOrder(t, After(r), m)
  BY <1>10, <1>12, <1>13 DEF SlotsInOrder
<1>15. m \in {l} \cup InSlots(s)
  BY <1>4, <1>7
<1> QED
  BY <1>6, <1>7, <1>11, <1>14, <1>15 DEF t, m, c

----------------------------------------------------------------------------
(* The invariant                                                           *)

ThreadTypes == [pc : {"off", "start", "wait", "access", "check", "write", "call"}, run : BOOLEAN,
                grant : {0, 1}, todo : Seq(Contents)]
Calls == {"idle", "stop", "destroy", "disconnect", "remove", "delete", "addReader", "join", "clear"}

BufferTypes == slots \in Slots /\ rd \in Indices /\ wr \in Indices /\ free \in SUBSET Packets /\ flight \in SUBSET Packets
FlowTypes ==
  /\ side \in {"rtp", "ts", "out"} /\ inbox \in Seq(Contents) /\ next \in 1 .. MaxId + 1 /\ last \in Nat
  /\ ordered \in BOOLEAN /\ thread \in ThreadTypes
ControlTypes ==
  /\ reader \in BOOLEAN /\ exists \in BOOLEAN /\ running \in BOOLEAN /\ client \in {"none", "idle", "active"}
  /\ pool \in BOOLEAN /\ avb \in {"none", "inactive", "active"} /\ connected \in BOOLEAN
  /\ service \in {"idle", "read"} /\ api \in Calls /\ held \in BOOLEAN /\ format \in BOOLEAN /\ crashed = FALSE
VideoTypes == BufferTypes /\ FlowTypes /\ ControlTypes

\* the ring holds packets between its indices, and every packet is in one place
BufferInv ==
  /\ RingOK(slots, rd, wr) /\ SizesOK(slots) /\ PlacesOK(slots, free, flight)
  /\ avb # "none" => NoneLost(slots, free, flight)
  /\ avb = "none" => free = {} /\ flight = {}

\* who may use the pool and the AVB stream
ConnectedInv ==
  /\ pool => connected
  /\ connected => avb # "none"
  /\ ~connected => slots = NoSlots
  /\ service = "read" => connected
  /\ api \in {"disconnect", "remove"} => connected /\ ~pool /\ service = "idle"
  /\ api = "delete" => ~connected
  /\ thread.pc = "write" => pool
  /\ Out => avb = "none"

\* what the thread has in hand
ThreadInv ==
  /\ ~exists \/ api = "clear" => thread.pc = "off"
  /\ thread.pc \in {"access", "check", "write", "call"} => inbox # <<>>
  /\ thread.pc \in {"start", "check", "write"} => ~Out
  /\ thread.pc = "call" => Out /\ thread.todo = <<Head(inbox)>>
  /\ thread.pc = "write" => thread.todo # <<>>
  /\ thread.pc \notin {"check", "write", "call"} => thread.todo = <<>>
  /\ side = "ts" => \A k \in DOMAIN thread.todo : Len(thread.todo[k]) <= MaxTsps
  /\ Len(inbox) <= RingSize

VideoInv == VideoTypes /\ BufferInv /\ ConnectedInv /\ ThreadInv

----------------------------------------------------------------------------
(* What a call or a thread does to the buffer                              *)

\* The fill level of the code is the level of the ring.
LEMMA FillIs == Fill = Level(rd, wr)
BY DEF Fill, Level

\* The packet on top of the free stack.
LEMMA TopIs == VideoTypes /\ free # {} => TopPacket \in free
<1> SUFFICES ASSUME VideoTypes, free # {} PROVE TopPacket \in free
  OBVIOUS
<1>1. free \in SUBSET Nat
  BY VideoConstants DEF VideoTypes, BufferTypes, Packets
<1>2. PICK p \in free : \A q \in free : p <= q
  BY <1>1, LeastNatural
<1> QED
  BY <1>2 DEF TopPacket

\* Nothing happens to the buffer.
LEMMA BufferSame ==
  ASSUME BufferInv, UNCHANGED <<side, slots, rd, wr, free, flight, avb>>
  PROVE  BufferInv'
BY DEF BufferInv, RingOK, SizesOK, PlacesOK, NoneLost, Level, Spot

\* The buffer is emptied.
LEMMA ResetKeeps ==
  ASSUME VideoTypes, BufferInv, Reset, side' = side, flight' = flight, avb # "none", avb' # "none"
  PROVE  /\ BufferInv' /\ slots' = NoSlots /\ slots' \in Slots /\ rd' = 0 /\ wr' = 0 /\ 0 \in Indices
         /\ free' \in SUBSET Packets
<1>1. DOMAIN slots = Indices
  BY DEF VideoTypes, BufferTypes, Slots
<1>2. slots' = NoSlots /\ rd' = 0 /\ wr' = 0 /\ free' = free \cup Held(slots)
  BY <1>1, Zenon DEF Reset, NoSlots
<1>3. NoSlots \in Slots /\ RingOK(NoSlots, 0, 0) /\ SizesOK(NoSlots) /\ 0 \in Indices
  BY NoSlotsAre
<1>4. free' \in SUBSET Packets
  BY <1>1, <1>2 DEF VideoTypes, BufferTypes, Slots, SlotTypes, Held
<1>5. PlacesOK(NoSlots, free \cup Held(slots), flight) /\ NoneLost(NoSlots, free \cup Held(slots), flight)
  BY <1>1, EmptiedPlaces DEF VideoTypes, BufferTypes, BufferInv
<1>6. RingOK(slots, rd, wr)' /\ PlacesOK(slots, free, flight)' /\ NoneLost(slots, free, flight)'
  <2>1. RingOK(slots, rd, wr)'
    BY <1>2, <1>3 DEF RingOK, Level, Spot
  <2>2. PlacesOK(slots, free, flight)' /\ NoneLost(slots, free, flight)'
    BY <1>2, <1>5 DEF PlacesOK, NoneLost
  <2> QED
    BY <2>1, <2>2
<1>7. SizesOK(slots)'
  BY <1>2, <1>3 DEF SizesOK
<1> QED
  BY <1>2, <1>3, <1>4, <1>6, <1>7 DEF BufferInv

\* a new packet is put behind those in s
Placing(s, c) ==
  /\ Level(rd, wr) # NumPackets - 1
  /\ \E p \in free : slots' = FillSlot(s, wr, p, c) /\ free' = free \ {p} /\ wr' = After(wr)

\* the newest packet takes the first k of c, a new one the rest
Growing(c, k) ==
  LET s == Grow(slots, wr - 1, Placed(SubSeq(c, 1, k))) IN
  /\ wr > 0 /\ Level(rd, wr) > 0 /\ wr - 1 \in Indices /\ slots[wr - 1].packet # NoPacket
  /\ k <= MaxTsps - Len(slots[wr - 1].tsps)
  /\ \/ slots' = s /\ free' = free /\ wr' = wr
     \/ Placing(s, SubSeq(c, k + 1, Len(c)))

\* What a write does: nothing, a new packet, or more in the newest packet and perhaps a new one.
LEMMA WriteIs ==
  ASSUME VideoTypes, BufferInv, NEW c \in Contents, Write(c)
  PROVE  \/ UNCHANGED <<slots, free, wr>>
         \/ Placing(slots, c)
         \/ \E k \in 0 .. Len(c) : Growing(c, k)
<1>0. rd \in Indices /\ wr \in Indices /\ slots \in Slots /\ MaxTsps \in Nat /\ NumPackets \in Nat
  BY VideoConstants DEF VideoTypes, BufferTypes
<1>1. CASE Dropped
  BY <1>1 DEF Dropped
<1>2. CASE Fill # NumPackets - 1 /\ Recycling /\ WriteRecycled(c)
  <2> DEFINE j == wr - 1
             room == MaxTsps - Len(slots[j].tsps)
             k == IF Len(c) < room THEN Len(c) ELSE room
             x == SubSeq(c, 1, k)
             y == SubSeq(c, k + 1, Len(c))
             s == Grow(slots, j, Placed(x))
  <2>1. wr > 0 /\ Level(rd, wr) > 0 /\ slots[j].packet # NoPacket /\ MaxTsps > Len(slots[j].tsps)
        /\ Level(rd, wr) # NumPackets - 1
    <3>1. 0 < wr /\ slots[wr - 1].packet # NoPacket /\ MaxTsps > Len(slots[wr - 1].tsps) /\ 2 < Level(rd, wr)
      BY <1>2, FillIs, Zenon DEF Recycling
    <3>2. Level(rd, wr) \in Int
      BY <1>0, SpotIs DEF Indices
    <3> QED
      BY <1>0, <1>2, <3>1, <3>2, FillIs DEF Indices
  <2>2. j \in Indices
    BY <1>0, <2>1 DEF Indices
  <2>3. Len(slots[j].tsps) \in Nat /\ Len(c) \in Nat
    BY <1>0, <2>2, InIs, InSlotsIs
  <2>4. k \in 0 .. Len(c) /\ k <= room
    <3> DEFINE n == Len(slots[j].tsps)
               m == Len(c)
    <3>1. n \in Nat /\ m \in Nat /\ MaxTsps > n
      BY <2>1, <2>3
    <3>2. k = IF m < MaxTsps - n THEN m ELSE MaxTsps - n
      OBVIOUS
    <3>3. room = MaxTsps - n
      OBVIOUS
    <3> HIDE DEF n, m, k, room
    <3>4. k \in 0 .. m /\ k <= room
      BY <1>0, <3>1, <3>2, <3>3
    <3> QED
      BY <3>4 DEF m
  <2>5. \/ slots' = s /\ free' = free /\ wr' = wr
        \/ free # {} /\ slots' = FillSlot(s, wr, TopPacket, y) /\ free' = free \ {TopPacket} /\ wr' = After(wr)
    <3>1. s = [slots EXCEPT ![wr - 1].tsps = @ \o Placed(SubSeq(c, 1, k))]
      BY DEF Grow
    <3>2. FillSlot(s, wr, TopPacket, y) = [s EXCEPT ![wr] = [packet |-> TopPacket, tsps |-> y]]
      BY DEF FillSlot
    <3> QED
      BY <1>2, <3>1, <3>2, Zenon DEF WriteRecycled
  <2>6. Growing(c, k)
    <3>1. ASSUME free # {}, slots' = FillSlot(s, wr, TopPacket, y), free' = free \ {TopPacket}, wr' = After(wr)
          PROVE  Placing(s, y)
      <4>1. TopPacket \in free
        BY <3>1, TopIs
      <4> HIDE DEF s, y
      <4> QED
        BY <2>1, <3>1, <4>1, Zenon DEF Placing
    <3>2. (slots' = s /\ free' = free /\ wr' = wr) \/ Placing(s, y)
      BY <2>5, <3>1, Zenon
    <3>3. wr > 0 /\ Level(rd, wr) > 0 /\ wr - 1 \in Indices /\ slots[wr - 1].packet # NoPacket
          /\ k <= MaxTsps - Len(slots[wr - 1].tsps)
      BY <2>1, <2>2, <2>4, Zenon
    <3> QED
      BY <3>2, <3>3, Zenon DEF Growing
  <2> HIDE DEF k
  <2> QED
    BY <2>4, <2>6
<1>3. CASE Fill # NumPackets - 1 /\ free # {} /\ WriteNew(TopPacket, c)
  <2>1. TopPacket \in free
    BY <1>3, TopIs
  <2> QED
    BY <1>3, <2>1, FillIs, Zenon DEF WriteNew, Placing, FillSlot
<1> QED
  BY <1>1, <1>2, <1>3, Zenon DEF Write

\* A new packet keeps the buffer well.
LEMMA PlacingKeeps ==
  ASSUME VideoTypes, NEW s \in Slots, RingOK(s, rd, wr), SizesOK(s), PlacesOK(s, free, flight),
         avb # "none" => NoneLost(s, free, flight), avb = "none" => free = {} /\ flight = {},
         NEW c \in Contents, side = "ts" => Len(c) <= MaxTsps, Placing(s, c),
         UNCHANGED <<side, rd, flight, avb>>
  PROVE  BufferInv' /\ slots' \in Slots /\ wr' \in Indices /\ free' \in SUBSET Packets
<1>1. PICK p \in free : slots' = FillSlot(s, wr, p, c) /\ free' = free \ {p} /\ wr' = After(wr)
  BY DEF Placing
<1>2. rd \in Indices /\ wr \in Indices /\ p \in Packets /\ Level(rd, wr) # NumPackets - 1 /\ free \in SUBSET Packets
      /\ flight \in SUBSET Packets
  BY DEF VideoTypes, BufferTypes, Placing
<1> DEFINE t == FillSlot(s, wr, p, c)
<1>3. /\ t \in Slots /\ RingOK(t, rd, After(wr))
      /\ \A j \in Indices : j # wr => t[j] = s[j]
      /\ t[wr] = [packet |-> p, tsps |-> c] /\ s[wr] = EmptySlot
  BY <1>2, FillKeeps
<1> HIDE DEF t
<1>4. t[wr].packet = p /\ t[wr].tsps = c /\ s[wr].packet = NoPacket /\ \A j \in Indices : j # wr => t[j].packet = s[j].packet
  BY <1>3 DEF EmptySlot
<1>5. PlacesOK(t, free \ {p}, flight) /\ (NoneLost(s, free, flight) => NoneLost(t, free \ {p}, flight))
  BY <1>2, <1>4, FilledPlaces
<1>6. SizesOK(t)
  BY <1>3, <1>4 DEF SizesOK
<1>7. slots' = t /\ free' = free \ {p} /\ wr' = After(wr) /\ rd' = rd /\ flight' = flight /\ avb' = avb /\ side' = side
  BY <1>1 DEF t
<1>8. RingOK(slots, rd, wr)'
  BY <1>3, <1>7 DEF RingOK, Level, Spot
<1>9. PlacesOK(slots, free, flight)' /\ (avb # "none" => NoneLost(slots, free, flight))'
  BY <1>5, <1>7 DEF PlacesOK, NoneLost
<1>10. SizesOK(slots)'
  BY <1>6, <1>7 DEF SizesOK
<1>11. (avb = "none" => free = {} /\ flight = {})'
  BY <1>7
<1>12. After(wr) \in Indices
  BY <1>2, AfterIs
<1> QED
  BY <1>2, <1>3, <1>7, <1>8, <1>9, <1>10, <1>11, <1>12 DEF BufferInv

\* So does a write.
LEMMA WriteKeeps ==
  ASSUME VideoTypes, BufferInv, NEW c \in Contents, side = "ts" => Len(c) <= MaxTsps, Write(c),
         UNCHANGED <<side, rd, flight, avb>>
  PROVE  BufferInv' /\ slots' \in Slots /\ wr' \in Indices /\ free' \in SUBSET Packets
<1>0. /\ rd \in Indices /\ wr \in Indices /\ slots \in Slots /\ free \in SUBSET Packets /\ RingOK(slots, rd, wr)
      /\ SizesOK(slots) /\ PlacesOK(slots, free, flight) /\ (avb # "none" => NoneLost(slots, free, flight))
  BY DEF VideoTypes, BufferTypes, BufferInv
<1>1. CASE UNCHANGED <<slots, free, wr>>
  BY <1>0, <1>1, BufferSame
<1>2. CASE Placing(slots, c)
  BY <1>0, <1>2, PlacingKeeps DEF BufferInv
<1>3. CASE \E k \in 0 .. Len(c) : Growing(c, k)
  <2>1. PICK k \in 0 .. Len(c) : Growing(c, k)
    BY <1>3
  <2> DEFINE j == wr - 1
             x == SubSeq(c, 1, k)
             y == SubSeq(c, k + 1, Len(c))
             s == Grow(slots, j, Placed(x))
  <2>2. /\ j \in Indices /\ slots[j].packet # NoPacket /\ k <= MaxTsps - Len(slots[j].tsps)
        /\ (slots' = s /\ free' = free /\ wr' = wr) \/ Placing(s, y)
    BY <2>1 DEF Growing
  <2>3. x \in Contents /\ y \in Contents /\ Len(x) = k /\ Len(y) <= Len(c) /\ Len(c) \in Nat
    <3>1. Len(c) \in Nat
      BY InIs
    <3>2. x \in Contents /\ Len(x) = k
      <4>1. k \in Int /\ 1 \in Int /\ k <= Len(c) /\ 0 <= k
        BY <3>1
      <4>2. x \in Contents /\ Len(x) = IF 1 <= k THEN k - 1 + 1 ELSE 0
        BY <4>1, PartIs
      <4> QED
        BY <4>1, <4>2
    <3>3. y \in Contents /\ Len(y) <= Len(c)
      BY <3>1, PartIs
    <3> QED
      BY <3>1, <3>2, <3>3
  <2> HIDE DEF x, y, j
  <2>4. Placed(x) \in Contents /\ Len(Placed(x)) = k
    <3>1. CASE Sph
      <4>1. DOMAIN x = 1 .. k /\ k \in Nat
        BY <2>3, InIs
      <4>2. Placed(x) = [i \in 1 .. k |-> 0]
        BY <3>1, <4>1 DEF Placed
      <4> QED
        BY <4>1, <4>2 DEF Contents
    <3>2. CASE ~Sph
      BY <2>3, <3>2 DEF Placed
    <3> QED
      BY <3>1, <3>2
  <2>5. s \in Slots /\ RingOK(s, rd, wr)
        /\ (\A i \in Indices : s[i].packet = slots[i].packet)
        /\ (\A i \in Indices : i # j => s[i] = slots[i])
        /\ s[j].tsps = slots[j].tsps \o Placed(x)
    BY <1>0, <2>2, <2>4, GrowKeeps
  <2> HIDE DEF s
  <2>6. SizesOK(s)
    <3>1. slots[j].tsps \in Contents
      BY <1>0, <2>2, InSlotsIs
    <3>2. Len(s[j].tsps) = Len(slots[j].tsps) + k /\ Len(slots[j].tsps) \in Nat
      BY <2>4, <2>5, <3>1, JoinedIs, InIs
    <3>3. Len(s[j].tsps) <= MaxTsps
      BY <2>2, <3>2, VideoConstants
    <3> QED
      BY <1>0, <2>5, <3>3 DEF SizesOK
  <2>7. PlacesOK(s, free, flight) /\ (avb # "none" => NoneLost(s, free, flight))
    BY <1>0, <2>5, SameHolders
  <2>8. CASE slots' = s /\ free' = free /\ wr' = wr
    <3>1. RingOK(slots, rd, wr)' /\ SizesOK(slots)'
      BY <2>5, <2>6, <2>8 DEF RingOK, Level, Spot, SizesOK
    <3>2. PlacesOK(slots, free, flight)' /\ (avb # "none" => NoneLost(slots, free, flight))'
      BY <2>7, <2>8 DEF PlacesOK, NoneLost
    <3> QED
      BY <1>0, <2>5, <2>8, <3>1, <3>2 DEF BufferInv
  <2>9. CASE Placing(s, y)
    <3>1. side = "ts" => Len(y) <= MaxTsps
      <4>1. Len(y) \in Nat /\ MaxTsps \in Nat
        BY <2>3, InIs, VideoConstants
      <4> QED
        BY <2>3, <4>1
    <3> QED
      BY <2>3, <2>5, <2>6, <2>7, <2>9, <3>1, PlacingKeeps DEF BufferInv
  <2> QED
    BY <2>2, <2>8, <2>9
<1> QED
  BY <1>1, <1>2, <1>3, WriteIs

----------------------------------------------------------------------------
(* Every step keeps the invariant                                          *)

\* The first packet of a ring, and the others.
LEMMA HeadTail ==
  ASSUME NEW S, NEW q \in Seq(S), q # <<>>
  PROVE  /\ Head(q) \in S /\ Tail(q) \in Seq(S) /\ Len(Tail(q)) = Len(q) - 1 /\ Len(q) \in Nat \ {0}
         /\ Head(q) = q[1] /\ DOMAIN q = 1 .. Len(q) /\ DOMAIN Tail(q) = 1 .. Len(q) - 1
         /\ \A i \in 1 .. Len(q) - 1 : Tail(q)[i] = q[i + 1]
<1>1. Len(q) \in Nat \ {0} /\ DOMAIN q = 1 .. Len(q)
  BY SMT
<1>2. Head(q) = q[1] /\ Head(q) \in S
  BY <1>1, SMT
<1>3. Tail(q) \in Seq(S) /\ Len(Tail(q)) = Len(q) - 1
  BY <1>1, SMT
<1>4. DOMAIN Tail(q) = 1 .. Len(q) - 1
  BY <1>1, <1>3, SMT
<1>5. \A i \in 1 .. Len(q) - 1 : Tail(q)[i] = q[i + 1]
  BY <1>1, SMT
<1> QED
  BY <1>1, <1>2, <1>3, <1>4, <1>5

\* What is assumed of the environment.
Careful == {"disconnect", "service", "dma"} \subseteq Assume

\* A step that leaves the buffer alone.
LEMMA QuietKeeps ==
  ASSUME VideoInv, UNCHANGED <<side, slots, rd, wr, free, flight, avb>>, FlowTypes', ControlTypes', ConnectedInv', ThreadInv'
  PROVE  VideoInv'
<1>1. BufferInv'
  BY BufferSame DEF VideoInv
<1>2. BufferTypes'
  BY DEF VideoInv, VideoTypes, BufferTypes
<1> QED
  BY <1>1, <1>2 DEF VideoInv, VideoTypes

\* A local stream is created.
LEMMA CreateLocalKeeps == VideoInv /\ CreateLocal /\ Careful => VideoInv'
<1> SUFFICES ASSUME VideoInv, CreateLocal, Careful PROVE VideoInv'
  OBVIOUS
<1> USE DEF CreateLocal, buffer, stream, output, control, Idle, Out, VideoInv, VideoTypes, FlowTypes, ControlTypes, ThreadTypes
<1>1. FlowTypes'
  OBVIOUS
<1>2. ControlTypes'
  BY DEF Calls
<1>3. ConnectedInv'
  BY DEF Careful, ConnectedInv
<1>4. ThreadInv'
  BY DEF ThreadInv
<1> QED
  BY <1>1, <1>2, <1>3, <1>4, QuietKeeps

\* A thread is told to stop.
LEMMA StopThreadKeeps == VideoInv /\ StopThread /\ Careful => VideoInv'
<1> SUFFICES ASSUME VideoInv, StopThread, Careful PROVE VideoInv'
  OBVIOUS
<1> USE DEF StopThread, buffer, stream, output, control, Idle, Out, VideoInv, VideoTypes, FlowTypes, ControlTypes, ThreadTypes
<1>1. FlowTypes'
  OBVIOUS
<1>2. ControlTypes'
  BY DEF Calls
<1>3. ConnectedInv'
  BY DEF Careful, ConnectedInv
<1>4. ThreadInv'
  BY DEF ThreadInv
<1> QED
  BY <1>1, <1>2, <1>3, <1>4, QuietKeeps

\* A receiver becomes a reader, or does not.
LEMMA AddAsReaderKeeps == VideoInv /\ AddAsReader /\ Careful => VideoInv'
<1> SUFFICES ASSUME VideoInv, AddAsReader, Careful PROVE VideoInv'
  OBVIOUS
<1> USE DEF AddAsReader, buffer, stream, output, control, Idle, Out, VideoInv, VideoTypes, FlowTypes, ControlTypes, ThreadTypes
<1>1. FlowTypes'
  OBVIOUS
<1>2. ControlTypes'
  BY DEF Calls
<1>3. ConnectedInv'
  BY DEF Careful, ConnectedInv
<1>4. ThreadInv'
  BY DEF ThreadInv
<1> QED
  BY <1>1, <1>2, <1>3, <1>4, QuietKeeps

\* The thread of a receiver is joined.
LEMMA ReceiverJoinedKeeps == VideoInv /\ ReceiverJoined /\ Careful => VideoInv'
<1> SUFFICES ASSUME VideoInv, ReceiverJoined, Careful PROVE VideoInv'
  OBVIOUS
<1> USE DEF ReceiverJoined, buffer, stream, output, control, Idle, Out, VideoInv, VideoTypes, FlowTypes, ControlTypes, ThreadTypes
<1>1. FlowTypes'
  OBVIOUS
<1>2. ControlTypes'
  BY DEF Calls
<1>3. ConnectedInv'
  BY DEF Careful, ConnectedInv
<1>4. ThreadInv'
  BY DEF ThreadInv
<1> QED
  BY <1>1, <1>2, <1>3, <1>4, QuietKeeps

\* A receiver is gone.
LEMMA ClearCallbacksKeeps == VideoInv /\ ClearCallbacks /\ Careful => VideoInv'
<1> SUFFICES ASSUME VideoInv, ClearCallbacks, Careful PROVE VideoInv'
  OBVIOUS
<1> USE DEF ClearCallbacks, buffer, stream, output, control, Idle, Out, VideoInv, VideoTypes, FlowTypes, ControlTypes, ThreadTypes
<1>1. FlowTypes'
  OBVIOUS
<1>2. ControlTypes'
  BY DEF Calls
<1>3. ConnectedInv'
  BY DEF Careful, ConnectedInv
<1>4. ThreadInv'
  BY DEF ThreadInv
<1> QED
  BY <1>1, <1>2, <1>3, <1>4, QuietKeeps

\* The worker finds the stream connected.
LEMMA PreparePacketKeeps == VideoInv /\ PreparePacket /\ Careful => VideoInv'
<1> SUFFICES ASSUME VideoInv, PreparePacket, Careful PROVE VideoInv'
  OBVIOUS
<1> USE DEF PreparePacket, buffer, stream, output, control, Idle, Out, VideoInv, VideoTypes, FlowTypes, ControlTypes, ThreadTypes
<1>1. FlowTypes'
  OBVIOUS
<1>2. ControlTypes'
  BY DEF Calls
<1>3. ConnectedInv'
  BY DEF Careful, ConnectedInv
<1>4. ThreadInv'
  BY DEF ThreadInv
<1> QED
  BY <1>1, <1>2, <1>3, <1>4, QuietKeeps

\* The pool is taken away.
LEMMA DisconnectTakesPoolKeeps == VideoInv /\ DisconnectTakesPool /\ Careful => VideoInv'
<1> SUFFICES ASSUME VideoInv, DisconnectTakesPool, Careful PROVE VideoInv'
  OBVIOUS
<1> USE DEF DisconnectTakesPool, buffer, stream, output, control, Idle, Out, VideoInv, VideoTypes, FlowTypes, ControlTypes, ThreadTypes
<1>1. FlowTypes'
  OBVIOUS
<1>2. ControlTypes'
  BY DEF Calls
<1>3. ConnectedInv'
  BY DEF Careful, ConnectedInv
<1>4. ThreadInv'
  BY DEF ThreadInv
<1> QED
  BY <1>1, <1>2, <1>3, <1>4, QuietKeeps

\* An AVB stream is to be deleted.
LEMMA RemoveKeeps == VideoInv /\ Remove /\ Careful => VideoInv'
<1> SUFFICES ASSUME VideoInv, Remove, Careful PROVE VideoInv'
  OBVIOUS
<1> USE DEF Remove, buffer, stream, output, control, Idle, Out, VideoInv, VideoTypes, FlowTypes, ControlTypes, ThreadTypes
<1>1. FlowTypes'
  OBVIOUS
<1>2. ControlTypes'
  BY DEF Calls
<1>3. ConnectedInv'
  BY DEF Careful, ConnectedInv
<1>4. ThreadInv'
  BY DEF ThreadInv
<1> QED
  BY <1>1, <1>2, <1>3, <1>4, QuietKeeps

\* A receiver is created.
LEMMA CreateReceiverKeeps == VideoInv /\ CreateReceiver /\ Careful => VideoInv'
<1> SUFFICES ASSUME VideoInv, CreateReceiver, Careful PROVE VideoInv'
  OBVIOUS
<1> USE DEF CreateReceiver, buffer, stream, output, control, Idle, Out, VideoInv, VideoTypes, FlowTypes, ControlTypes, ThreadTypes
<1>1. FlowTypes'
  OBVIOUS
<1>2. ControlTypes'
  BY DEF Calls
<1>3. ConnectedInv'
  BY DEF Careful, ConnectedInv
<1>4. ThreadInv'
  BY DEF ThreadInv
<1> QED
  BY <1>1, <1>2, <1>3, <1>4, QuietKeeps

\* A callback is set.
LEMMA SetCallbackKeeps == VideoInv /\ SetCallback /\ Careful => VideoInv'
<1> SUFFICES ASSUME VideoInv, SetCallback, Careful PROVE VideoInv'
  OBVIOUS
<1> USE DEF SetCallback, buffer, stream, output, control, Idle, Out, VideoInv, VideoTypes, FlowTypes, ControlTypes, ThreadTypes
<1>1. FlowTypes'
  OBVIOUS
<1>2. ControlTypes'
  BY DEF Calls
<1>3. ConnectedInv'
  BY DEF Careful, ConnectedInv
<1>4. ThreadInv'
  BY DEF ThreadInv
<1> QED
  BY <1>1, <1>2, <1>3, <1>4, QuietKeeps

\* A receiver is to go.
LEMMA DestroyReceiverKeeps == VideoInv /\ DestroyReceiver /\ Careful => VideoInv'
<1> SUFFICES ASSUME VideoInv, DestroyReceiver, Careful PROVE VideoInv'
  OBVIOUS
<1> USE DEF DestroyReceiver, buffer, stream, output, control, Idle, Out, VideoInv, VideoTypes, FlowTypes, ControlTypes, ThreadTypes
<1>1. FlowTypes'
  OBVIOUS
<1>2. ControlTypes'
  BY DEF Calls
<1>3. ConnectedInv'
  BY DEF Careful, ConnectedInv
<1>4. ThreadInv'
  BY DEF ThreadInv
<1> QED
  BY <1>1, <1>2, <1>3, <1>4, QuietKeeps

\* The place of the thread changes, and its flag or its grant.
LEMMA ThreadWaitsKeeps == VideoInv /\ ThreadWaits /\ Careful => VideoInv'
<1> SUFFICES ASSUME VideoInv, ThreadWaits, Careful PROVE VideoInv'
  OBVIOUS
<1> USE DEF ThreadWaits, buffer, stream, output, control, Out, VideoInv, VideoTypes, FlowTypes, ControlTypes, ThreadTypes
<1>1. FlowTypes'
  OBVIOUS
<1>2. ControlTypes'
  BY DEF Calls
<1>3. ConnectedInv'
  BY DEF ConnectedInv
<1>4. thread'.todo = thread.todo /\ thread.todo = <<>> /\ thread.pc = "wait"
      /\ (thread'.pc = "off" \/ (thread'.pc = "access" /\ inbox # <<>>))
  <2>1. thread.pc = "wait" /\ thread.todo = <<>> /\ thread'.todo = thread.todo
    BY DEF ThreadInv
  <2>2. CASE thread' = [thread EXCEPT !.pc = "off"]
    <3>1. thread \in ThreadTypes
      OBVIOUS
    <3>2. thread'.pc = "off"
      BY <2>2, <3>1 DEF ThreadTypes
    <3> QED
      BY <2>1, <3>2, Zenon
  <2>3. CASE InboxLevel > 0 /\ thread' = [thread EXCEPT !.pc = "access"]
    <3>1. inbox # <<>>
      BY <2>3 DEF InboxLevel
    <3>2. thread'.pc = "access"
      BY <2>3
    <3> QED
      BY <2>1, <3>1, <3>2
  <2> QED
    BY <2>1, <2>2, <2>3
<1>5. UNCHANGED <<exists, api, inbox, side>>
  OBVIOUS
<1>6. ThreadInv'
  <2>1. ~exists \/ api = "clear" => thread.pc = "off"
    BY DEF ThreadInv
  <2>2. exists /\ api # "clear" /\ Len(inbox) <= RingSize
    BY <1>4, <2>1 DEF ThreadInv
  <2>3. DOMAIN <<>> = {}
    OBVIOUS
  <2> QED
    BY <1>4, <1>5, <2>2, <2>3 DEF ThreadInv
<1> QED
  BY <1>1, <1>2, <1>3, <1>6, QuietKeeps

\* The thread of a local stream begins.
LEMMA ThreadStartsKeeps == VideoInv /\ ThreadStarts /\ Careful => VideoInv'
<1> SUFFICES ASSUME VideoInv, ThreadStarts, Careful PROVE VideoInv'
  OBVIOUS
<1> USE DEF ThreadStarts, buffer, stream, output, control, Out, VideoInv, VideoTypes, FlowTypes, ControlTypes, ThreadTypes
<1>1. FlowTypes'
  OBVIOUS
<1>2. ControlTypes'
  OBVIOUS
<1>3. ConnectedInv'
  BY DEF ConnectedInv
<1>4. thread'.todo = thread.todo /\ thread.todo = <<>> /\ thread.pc = "start" /\ thread'.pc = "wait"
  BY DEF ThreadInv
<1>5. ThreadInv'
  BY <1>4 DEF ThreadInv
<1> QED
  BY <1>1, <1>2, <1>3, <1>5, QuietKeeps

\* A packet arrives in the shared ring, or finds no room there.
LEMMA SendPacketKeeps == VideoInv /\ SendPacket /\ Careful => VideoInv'
<1> SUFFICES ASSUME VideoInv, SendPacket, Careful PROVE VideoInv'
  OBVIOUS
<1> USE DEF SendPacket, buffer, stream, output, control, Out, VideoInv, VideoTypes
<1>1. PICK n \in (IF side = "ts" THEN Sizes ELSE {1}) :
        /\ next + n - 1 <= MaxId /\ next' = next + n
        /\ inbox' = IF Len(inbox) < RingSize THEN Append(inbox, [i \in 1 .. n |-> next + i - 1]) ELSE inbox
  OBVIOUS
<1>2. n \in Nat \ {0} /\ MaxId \in Nat /\ RingSize \in Nat /\ next \in Nat /\ inbox \in Seq(Contents)
  BY VideoConstants DEF FlowTypes
<1> DEFINE c == [i \in 1 .. n |-> next + i - 1]
<1>3. c \in Contents
  <2>1. \A i \in 1 .. n : next + i - 1 \in Nat
    BY <1>2
  <2> QED
    BY <1>2, <2>1 DEF Contents
<1> HIDE DEF c
<1>4. Len(inbox) \in Nat /\ Append(inbox, c) \in Seq(Contents) /\ Len(Append(inbox, c)) = Len(inbox) + 1
      /\ (inbox # <<>> => Head(Append(inbox, c)) = Head(inbox) /\ Append(inbox, c) # <<>>)
  BY <1>2, <1>3, SMT
<1>5. inbox' \in Seq(Contents) /\ Len(inbox') <= RingSize /\ (inbox # <<>> => inbox' # <<>> /\ Head(inbox') = Head(inbox))
  <2>1. inbox' = IF Len(inbox) < RingSize THEN Append(inbox, c) ELSE inbox
    BY <1>1 DEF c
  <2>2. CASE Len(inbox) < RingSize
    BY <1>2, <1>4, <2>1, <2>2
  <2>3. CASE ~(Len(inbox) < RingSize)
    BY <1>2, <2>1, <2>3 DEF ThreadInv
  <2> QED
    BY <2>2, <2>3
<1>6. next' \in 1 .. MaxId + 1
  BY <1>1, <1>2 DEF FlowTypes
<1>7. FlowTypes'
  BY <1>5, <1>6 DEF FlowTypes
<1>8. ControlTypes'
  BY DEF ControlTypes
<1>9. ConnectedInv'
  BY DEF ConnectedInv
<1>10. ThreadInv'
  BY <1>5 DEF ThreadInv
<1> QED
  BY <1>7, <1>8, <1>9, <1>10, QuietKeeps

\* The thread of a local stream is joined; when the stream goes, so does its ring.
LEMMA ThreadJoinedKeeps == VideoInv /\ ThreadJoined /\ Careful => VideoInv'
<1> SUFFICES ASSUME VideoInv, ThreadJoined, Careful PROVE VideoInv'
  OBVIOUS
<1> USE DEF ThreadJoined, buffer, stream, output, control, Out, VideoInv, VideoTypes
<1>1. inbox' \in Seq(Contents) /\ Len(inbox') <= RingSize
  BY VideoConstants DEF FlowTypes, ThreadInv
<1>2. FlowTypes'
  BY <1>1 DEF FlowTypes
<1>3. ControlTypes'
  BY DEF ControlTypes, Calls
<1>4. ConnectedInv'
  BY DEF ConnectedInv
<1>5. thread.pc = "off" /\ thread' = thread /\ thread.todo = <<>> /\ api' = "idle"
  BY DEF ThreadInv
<1>6. ThreadInv'
  BY <1>1, <1>5 DEF ThreadInv
<1> QED
  BY <1>2, <1>3, <1>4, <1>6, QuietKeeps

\* The thread has a packet of the shared ring.
LEMMA ThreadReadsKeeps == VideoInv /\ ThreadReads /\ Careful => VideoInv'
<1> SUFFICES ASSUME VideoInv, ThreadReads, Careful PROVE VideoInv'
  OBVIOUS
<1> USE DEF ThreadReads, buffer, stream, output, control, Out, VideoInv, VideoTypes
<1>1. inbox \in Seq(Contents) /\ inbox # <<>> /\ thread \in ThreadTypes /\ thread.pc = "access"
  BY DEF FlowTypes, ThreadInv
<1>2. Head(inbox) \in Contents
  BY <1>1, HeadTail
<1> DEFINE q == Chunks(Head(inbox))
<1>3. q \in Seq(Contents) /\ \A k \in DOMAIN q : Len(q[k]) <= MaxTsps
  <2> HIDE DEF ThreadReads, VideoInv
  <2> QED
    BY <1>2, ChunksAre, VideoConstants
<1>4. thread' = [thread EXCEPT !.pc = "check", !.grant = IF InboxLevel > 0 THEN 1 ELSE 0, !.todo = q]
  OBVIOUS
<1> HIDE DEF q
<1>5. thread' \in ThreadTypes /\ thread'.pc = "check" /\ thread'.todo = q
  BY <1>1, <1>3, <1>4 DEF ThreadTypes
<1>6. FlowTypes'
  BY <1>5 DEF FlowTypes
<1>7. ControlTypes'
  BY DEF ControlTypes
<1>8. ConnectedInv'
  BY <1>5 DEF ConnectedInv
<1>9. ThreadInv'
  BY <1>1, <1>3, <1>5 DEF ThreadInv
<1> QED
  BY <1>6, <1>7, <1>8, <1>9, QuietKeeps

\* What is left to copy, without the first part.
LEMMA RestIs ==
  ASSUME VideoInv, thread.todo # <<>>
  PROVE  /\ Head(thread.todo) \in Contents /\ (side = "ts" => Len(Head(thread.todo)) <= MaxTsps)
         /\ Tail(thread.todo) \in Seq(Contents)
         /\ side = "ts" => \A k \in DOMAIN Tail(thread.todo) : Len(Tail(thread.todo)[k]) <= MaxTsps
<1> DEFINE q == thread.todo
<1>1. q \in Seq(Contents) /\ (side = "ts" => \A k \in DOMAIN q : Len(q[k]) <= MaxTsps)
  BY DEF VideoInv, VideoTypes, FlowTypes, ThreadTypes, ThreadInv
<1> HIDE DEF q
<1>2. /\ Head(q) \in Contents /\ Tail(q) \in Seq(Contents) /\ Len(q) \in Nat \ {0} /\ Head(q) = q[1] /\ DOMAIN q = 1 .. Len(q)
      /\ DOMAIN Tail(q) = 1 .. Len(q) - 1 /\ \A i \in 1 .. Len(q) - 1 : Tail(q)[i] = q[i + 1]
  BY <1>1, HeadTail DEF q
<1>3. side = "ts" => \A k \in DOMAIN Tail(q) : Len(Tail(q)[k]) <= MaxTsps
  BY <1>1, <1>2
<1>4. side = "ts" => Len(Head(q)) <= MaxTsps
  BY <1>1, <1>2
<1> QED
  BY <1>2, <1>3, <1>4 DEF q

\* The thread looks at the pool.
LEMMA ThreadChecksKeeps == VideoInv /\ ThreadChecks /\ Careful => VideoInv'
<1> SUFFICES ASSUME VideoInv, ThreadChecks, Careful PROVE VideoInv'
  OBVIOUS
<1> USE DEF ThreadChecks, buffer, stream, output, control, Out, VideoInv, VideoTypes
<1>1. thread \in ThreadTypes /\ thread.pc = "check" /\ thread.todo # <<>>
  BY DEF FlowTypes
<1> DEFINE q == Tail(thread.todo)
<1>2. q \in Seq(Contents) /\ (side = "ts" => \A k \in DOMAIN q : Len(q[k]) <= MaxTsps)
  BY <1>1, RestIs
<1>3. thread' = IF pool THEN [thread EXCEPT !.pc = "write"] ELSE [thread EXCEPT !.todo = q]
  OBVIOUS
<1> HIDE DEF q
<1>4. /\ thread' \in ThreadTypes
      /\ \/ thread'.pc = "write" /\ thread'.todo = thread.todo /\ pool
         \/ thread'.pc = "check" /\ thread'.todo = q
  BY <1>1, <1>2, <1>3 DEF ThreadTypes
<1>5. FlowTypes'
  BY <1>4 DEF FlowTypes
<1>6. ControlTypes'
  BY DEF ControlTypes
<1>7. ConnectedInv'
  BY <1>4 DEF ConnectedInv
<1>8. ThreadInv'
  BY <1>1, <1>2, <1>4 DEF ThreadInv
<1> QED
  BY <1>5, <1>6, <1>7, <1>8, QuietKeeps

\* The first packet of the shared ring is gone.
LEMMA FirstGone ==
  ASSUME VideoInv, inbox # <<>>
  PROVE  Head(inbox) \in Contents /\ Tail(inbox) \in Seq(Contents) /\ Len(Tail(inbox)) <= RingSize
<1>1. inbox \in Seq(Contents) /\ Len(inbox) <= RingSize
  BY DEF VideoInv, VideoTypes, FlowTypes, ThreadInv
<1>2. Head(inbox) \in Contents /\ Tail(inbox) \in Seq(Contents) /\ Len(Tail(inbox)) = Len(inbox) - 1 /\ Len(inbox) \in Nat
  BY <1>1, HeadTail
<1> QED
  BY <1>1, <1>2, VideoConstants

\* The thread has copied its packet.
LEMMA ThreadEndsKeeps == VideoInv /\ ThreadEnds /\ Careful => VideoInv'
<1> SUFFICES ASSUME VideoInv, ThreadEnds, Careful PROVE VideoInv'
  OBVIOUS
<1> USE DEF ThreadEnds, buffer, stream, output, control, Out, VideoInv, VideoTypes
<1>1. thread \in ThreadTypes /\ thread.pc = "check" /\ thread.todo = <<>> /\ inbox # <<>>
  BY DEF FlowTypes, ThreadInv
<1>2. inbox' \in Seq(Contents) /\ Len(inbox') <= RingSize
  BY <1>1, FirstGone DEF FlowTypes, ThreadInv
<1>3. thread' \in ThreadTypes /\ thread'.pc = "wait" /\ thread'.todo = <<>>
  BY <1>1 DEF ThreadTypes
<1>4. FlowTypes'
  BY <1>2, <1>3 DEF FlowTypes
<1>5. ControlTypes'
  BY DEF ControlTypes
<1>6. ConnectedInv'
  BY <1>3 DEF ConnectedInv
<1>7. ThreadInv'
  BY <1>1, <1>2, <1>3 DEF ThreadInv
<1> QED
  BY <1>4, <1>5, <1>6, <1>7, QuietKeeps

\* The receiver calls back, or passes a packet over.
LEMMA ReceiverReadsKeeps == VideoInv /\ ReceiverReads /\ Careful => VideoInv'
<1> SUFFICES ASSUME VideoInv, ReceiverReads, Careful PROVE VideoInv'
  OBVIOUS
<1> USE DEF ReceiverReads, buffer, stream, output, control, Out, VideoInv, VideoTypes
<1>1. thread \in ThreadTypes /\ thread.pc = "access" /\ thread.todo = <<>> /\ inbox # <<>>
  BY DEF FlowTypes, ThreadInv
<1>2. Head(inbox) \in Contents /\ Tail(inbox) \in Seq(Contents) /\ Len(Tail(inbox)) <= RingSize
  BY <1>1, FirstGone
<1>3. /\ thread' \in ThreadTypes /\ inbox' \in Seq(Contents) /\ Len(inbox') <= RingSize
      /\ \/ thread'.pc = "call" /\ thread'.todo = <<Head(inbox)>> /\ inbox' = inbox
         \/ thread'.pc = "wait" /\ thread'.todo = <<>>
  <2>1. CASE thread' = [thread EXCEPT !.pc = "call", !.todo = <<Head(inbox)>>] /\ inbox' = inbox
    <3>1. <<Head(inbox)>> \in Seq(Contents)
      BY <1>2
    <3> HIDE DEF ReceiverReads
    <3> QED
      BY <1>1, <2>1, <3>1 DEF ThreadTypes, FlowTypes, ThreadInv
  <2>2. CASE thread' = [thread EXCEPT !.pc = "wait"]
    <3>1. inbox' = inbox \/ inbox' = Tail(inbox)
      BY <1>1, <2>2 DEF ThreadTypes
    <3> HIDE DEF ReceiverReads
    <3> QED
      BY <1>1, <1>2, <2>2, <3>1 DEF ThreadTypes, FlowTypes, ThreadInv
  <2> QED
    BY <2>1, <2>2
<1>4. held' \in BOOLEAN /\ Out
  BY DEF ControlTypes
<1>5. FlowTypes'
  BY <1>3 DEF FlowTypes
<1>6. ControlTypes'
  BY <1>4 DEF ControlTypes
<1>7. ConnectedInv'
  BY <1>3 DEF ConnectedInv
<1>8. ThreadInv'
  BY <1>1, <1>3 DEF ThreadInv
<1> QED
  BY <1>5, <1>6, <1>7, <1>8, QuietKeeps

\* What has gone out last.
LEMMA GoneIs ==
  ASSUME FlowTypes, NEW c \in Contents, GoesOut(c)
  PROVE  last' \in Nat /\ ordered' \in BOOLEAN
<1>1. Len(c) \in Nat /\ \A k \in 1 .. Len(c) : c[k] \in Nat
  BY InIs
<1>2. c # <<>> => Len(c) \in 1 .. Len(c)
  BY <1>1 DEF Contents
<1>3. last' \in Nat
  BY <1>1, <1>2 DEF GoesOut, FlowTypes
<1> QED
  BY <1>3, Zenon DEF GoesOut, FlowTypes

\* The callback returns.
LEMMA CallbackEndsKeeps == VideoInv /\ CallbackEnds /\ Careful => VideoInv'
<1> SUFFICES ASSUME VideoInv, CallbackEnds, Careful PROVE VideoInv'
  OBVIOUS
<1> USE DEF CallbackEnds, buffer, stream, output, control, Out, VideoInv, VideoTypes
<1>1. thread \in ThreadTypes /\ thread.pc = "call" /\ thread.todo = <<Head(inbox)>> /\ inbox # <<>> /\ Out
  BY DEF FlowTypes, ThreadInv
<1>2. Head(inbox) \in Contents /\ Tail(inbox) \in Seq(Contents) /\ Len(Tail(inbox)) <= RingSize
  BY <1>1, FirstGone
<1>3. last' \in Nat /\ ordered' \in BOOLEAN
  <2>1. Head(thread.todo) = Head(inbox)
    BY <1>1
  <2> QED
    BY <1>2, <2>1, GoneIs
<1>4. PICK cancelled \in BOOLEAN :
        /\ held' = cancelled
        /\ thread' = [thread EXCEPT !.pc = IF cancelled THEN "off" ELSE "wait", !.todo = <<>>]
        /\ inbox' = IF cancelled THEN inbox ELSE Tail(inbox)
  OBVIOUS
<1>5. inbox' \in Seq(Contents) /\ Len(inbox') <= RingSize
  BY <1>2, <1>4 DEF FlowTypes, ThreadInv
<1>6. thread' \in ThreadTypes /\ thread'.pc \in {"off", "wait"} /\ thread'.todo = <<>>
  <2>1. <<>> \in Seq(Contents)
    OBVIOUS
  <2>2. thread' = [thread EXCEPT !.pc = "off", !.todo = <<>>] \/ thread' = [thread EXCEPT !.pc = "wait", !.todo = <<>>]
    BY <1>4
  <2> HIDE DEF CallbackEnds
  <2> QED
    BY <1>1, <2>1, <2>2 DEF ThreadTypes
<1>7. FlowTypes'
  BY <1>3, <1>5, <1>6 DEF FlowTypes
<1>8. ControlTypes'
  BY <1>4 DEF ControlTypes
<1>9. ConnectedInv'
  BY <1>6 DEF ConnectedInv
<1>10. ThreadInv'
  BY <1>1, <1>5, <1>6 DEF ThreadInv
<1> QED
  BY <1>7, <1>8, <1>9, <1>10, QuietKeeps

\* A part of a packet is written.
LEMMA ThreadWritesKeeps == VideoInv /\ ThreadWrites /\ Careful => VideoInv'
<1> SUFFICES ASSUME VideoInv, ThreadWrites, Careful PROVE VideoInv'
  OBVIOUS
<1>0. VideoTypes /\ BufferInv /\ ConnectedInv /\ ThreadInv
  BY DEF VideoInv
<1>1. thread \in ThreadTypes /\ thread.pc = "write" /\ thread.todo # <<>> /\ pool /\ inbox # <<>> /\ ~Out
  BY <1>0 DEF ThreadWrites, ThreadInv, ConnectedInv, VideoTypes, FlowTypes
<1>2. /\ Head(thread.todo) \in Contents /\ (side = "ts" => Len(Head(thread.todo)) <= MaxTsps)
      /\ Tail(thread.todo) \in Seq(Contents)
      /\ (side = "ts" => \A k \in DOMAIN Tail(thread.todo) : Len(Tail(thread.todo)[k]) <= MaxTsps)
  BY <1>1, RestIs
<1>3. /\ Write(Head(thread.todo)) /\ crashed' = FALSE
      /\ UNCHANGED <<side, inbox, next, reader, api, client, pool, rd, stream, output, control>>
      /\ thread' = [thread EXCEPT !.pc = "check", !.todo = Tail(@)]
  BY <1>1 DEF ThreadWrites
<1>4. BufferInv' /\ slots' \in Slots /\ wr' \in Indices /\ free' \in SUBSET Packets
  BY <1>0, <1>2, <1>3, WriteKeeps DEF stream
<1>5. BufferTypes'
  BY <1>0, <1>3, <1>4 DEF VideoTypes, BufferTypes, stream
<1>6. thread' \in ThreadTypes /\ thread'.pc = "check" /\ thread'.todo = Tail(thread.todo)
  BY <1>1, <1>2, <1>3 DEF ThreadTypes
<1>7. FlowTypes'
  BY <1>0, <1>3, <1>6 DEF VideoTypes, FlowTypes, output
<1>8. ControlTypes'
  BY <1>0, <1>3 DEF VideoTypes, ControlTypes, stream, control
<1>9. ConnectedInv'
  BY <1>0, <1>1, <1>3, <1>6 DEF ConnectedInv, stream, control, Out
<1>10. ThreadInv'
  BY <1>0, <1>1, <1>2, <1>3, <1>6 DEF ThreadInv, control, Out
<1> QED
  BY <1>4, <1>5, <1>7, <1>8, <1>9, <1>10 DEF VideoInv, VideoTypes

\* A step of the worker or of a call that leaves the thread and its ring alone.
LEMMA CallKeeps ==
  ASSUME VideoInv, BufferInv', BufferTypes', last' \in Nat, ordered' \in BOOLEAN, ControlTypes', ConnectedInv',
         UNCHANGED <<side, inbox, next, thread, exists>>, api' = "clear" => api = "clear"
  PROVE  VideoInv'
<1>1. FlowTypes'
  BY DEF VideoInv, VideoTypes, FlowTypes
<1>2. ThreadInv'
  BY DEF VideoInv, ThreadInv, Out
<1> QED
  BY <1>1, <1>2 DEF VideoInv, VideoTypes

\* The worker takes a packet out of the buffer, or a dummy.
LEMMA TakePacketKeeps == VideoInv /\ TakePacket /\ Careful => VideoInv'
<1> SUFFICES ASSUME VideoInv, TakePacket, Careful PROVE VideoInv'
  OBVIOUS
<1>0. VideoTypes /\ BufferInv /\ ConnectedInv /\ ThreadInv
  BY DEF VideoInv
<1>1. connected /\ service = "read" /\ avb # "none" /\ ~Out
  BY <1>0 DEF TakePacket, ConnectedInv
<1>2. /\ service' = "idle" /\ crashed' = FALSE
      /\ UNCHANGED <<side, inbox, next, reader, thread, api, client, pool, wr, avb, connected, control>>
      /\ \/ Level(rd, wr) > 0 /\ slots[rd].packet # NoPacket /\ slots' = TakeSlot(slots, rd) /\ rd' = After(rd)
            /\ flight' = flight \cup {slots[rd].packet} /\ free' = free /\ GoesOut(slots[rd].tsps)
         \/ UNCHANGED <<slots, rd, output, flight, free>>
         \/ UNCHANGED <<slots, rd, output>> /\ free # {} /\ flight' = flight \cup {TopPacket} /\ free' = free \ {TopPacket}
  BY <1>1, FillIs, Zenon DEF TakePacket, TakeSlot
<1>3. /\ slots \in Slots /\ rd \in Indices /\ wr \in Indices /\ free \in SUBSET Packets /\ flight \in SUBSET Packets
      /\ RingOK(slots, rd, wr) /\ SizesOK(slots) /\ PlacesOK(slots, free, flight) /\ NoneLost(slots, free, flight)
  BY <1>0, <1>1 DEF VideoTypes, BufferTypes, BufferInv
<1>4. BufferInv' /\ BufferTypes' /\ last' \in Nat /\ ordered' \in BOOLEAN
  <2>1. CASE /\ Level(rd, wr) > 0 /\ slots[rd].packet # NoPacket /\ slots' = TakeSlot(slots, rd) /\ rd' = After(rd)
             /\ flight' = flight \cup {slots[rd].packet} /\ free' = free /\ GoesOut(slots[rd].tsps)
    <3> DEFINE t == TakeSlot(slots, rd)
    <3>1. /\ t \in Slots /\ RingOK(t, After(rd), wr) /\ (\A j \in Indices : j # rd => t[j] = slots[j])
          /\ t[rd] = EmptySlot /\ slots[rd].packet \in Packets /\ After(rd) \in Indices
      BY <1>3, <2>1, TakeKeeps, AfterIs
    <3> HIDE DEF t
    <3>2. t[rd].packet = NoPacket /\ Len(t[rd].tsps) = 0 /\ MaxTsps \in Nat
      BY <3>1, VideoConstants DEF EmptySlot
    <3>3. NoPacket \notin free \cup flight
      BY <1>3, VideoConstants DEF Packets, NoPacket
    <3>4. PlacesOK(t, free, flight \cup {slots[rd].packet}) /\ NoneLost(t, free, flight \cup {slots[rd].packet})
      BY <1>3, <2>1, <3>1, <3>2, <3>3, TakenPlaces
    <3>5. SizesOK(t)
      BY <1>3, <3>1, <3>2 DEF SizesOK
    <3>6. slots' = t /\ rd' = After(rd) /\ wr' = wr /\ free' = free /\ flight' = flight \cup {slots[rd].packet}
          /\ avb' = avb /\ side' = side
      BY <1>2, <2>1 DEF t
    <3>7. RingOK(slots, rd, wr)' /\ SizesOK(slots)'
      BY <3>1, <3>5, <3>6 DEF RingOK, Level, Spot, SizesOK
    <3>8. PlacesOK(slots, free, flight)' /\ NoneLost(slots, free, flight)'
      BY <3>4, <3>6 DEF PlacesOK, NoneLost
    <3>9. BufferInv'
      BY <1>1, <3>6, <3>7, <3>8 DEF BufferInv
    <3>10. BufferTypes'
      BY <1>3, <3>1, <3>6 DEF BufferTypes
    <3>11. slots[rd].tsps \in Contents
      BY <1>3, InSlotsIs
    <3>12. last' \in Nat /\ ordered' \in BOOLEAN
      BY <1>0, <2>1, <3>11, GoneIs DEF VideoTypes
    <3> QED
      BY <3>9, <3>10, <3>12
  <2>2. CASE UNCHANGED <<slots, rd, output, flight, free>>
    <3>1. BufferInv'
      BY <1>0, <1>2, <2>2, BufferSame
    <3> QED
      BY <1>0, <1>2, <2>2, <3>1 DEF VideoTypes, BufferTypes, FlowTypes, output
  <2>3. CASE UNCHANGED <<slots, rd, output>> /\ free # {} /\ flight' = flight \cup {TopPacket} /\ free' = free \ {TopPacket}
    <3>1. TopPacket \in free
      BY <1>0, <2>3, TopIs
    <3> DEFINE p == TopPacket
    <3>2. flight' = flight \cup {p} /\ free' = free \ {p} /\ p \in free /\ p \in Packets
      BY <1>3, <2>3, <3>1
    <3> HIDE DEF p
    <3>3. PlacesOK(slots, free, flight)' /\ NoneLost(slots, free, flight)'
      BY <1>3, <2>3, <3>2 DEF PlacesOK, NoneLost
    <3>4. RingOK(slots, rd, wr)' /\ SizesOK(slots)'
      BY <1>2, <1>3, <2>3 DEF RingOK, Level, Spot, SizesOK
    <3>5. BufferInv'
      BY <1>1, <1>2, <3>3, <3>4 DEF BufferInv
    <3> QED
      BY <1>0, <1>2, <1>3, <2>3, <3>2, <3>5 DEF VideoTypes, BufferTypes, FlowTypes, output
  <2> QED
    BY <1>2, <2>1, <2>2, <2>3
<1>5. ControlTypes'
  BY <1>0, <1>2 DEF VideoTypes, ControlTypes, control
<1>6. ConnectedInv'
  BY <1>0, <1>1, <1>2 DEF ConnectedInv, control, Out
<1> QED
  BY <1>2, <1>4, <1>5, <1>6, CallKeeps DEF control

\* A packet has been sent and goes home.
LEMMA ReturnPacketKeeps == VideoInv /\ ReturnPacket /\ Careful => VideoInv'
<1> SUFFICES ASSUME VideoInv, ReturnPacket, Careful PROVE VideoInv'
  OBVIOUS
<1>0. VideoTypes /\ BufferInv /\ ConnectedInv
  BY DEF VideoInv
<1>1. avb # "none"
  BY <1>0 DEF ReturnPacket, BufferInv
<1>2. PICK p \in flight : flight' = flight \ {p} /\ free' = free \cup {p}
  BY <1>1 DEF ReturnPacket
<1>3. /\ crashed' = FALSE
      /\ UNCHANGED <<side, inbox, next, reader, thread, api, client, pool, slots, rd, wr, avb,
                     connected, service, output, control>>
  BY <1>1 DEF ReturnPacket
<1>4. /\ slots \in Slots /\ rd \in Indices /\ wr \in Indices /\ free \in SUBSET Packets /\ flight \in SUBSET Packets
      /\ RingOK(slots, rd, wr) /\ SizesOK(slots) /\ PlacesOK(slots, free, flight) /\ NoneLost(slots, free, flight)
  BY <1>0, <1>1 DEF VideoTypes, BufferTypes, BufferInv
<1>5. PlacesOK(slots, free, flight)' /\ NoneLost(slots, free, flight)'
  BY <1>2, <1>3, <1>4 DEF PlacesOK, NoneLost
<1>6. RingOK(slots, rd, wr)' /\ SizesOK(slots)'
  BY <1>3, <1>4 DEF RingOK, Level, Spot, SizesOK
<1>7. BufferInv'
  BY <1>1, <1>3, <1>5, <1>6 DEF BufferInv
<1>8. BufferTypes'
  BY <1>2, <1>3, <1>4 DEF BufferTypes
<1>9. ControlTypes' /\ last' \in Nat /\ ordered' \in BOOLEAN
  BY <1>0, <1>3 DEF VideoTypes, ControlTypes, FlowTypes, control, output
<1>10. ConnectedInv'
  BY <1>0, <1>3 DEF ConnectedInv, control, Out
<1> QED
  BY <1>3, <1>7, <1>8, <1>9, <1>10, CallKeeps DEF control

\* The worker activates or deactivates the AVB stream.
LEMMA ActivationChangedKeeps == VideoInv /\ ActivationChanged /\ Careful => VideoInv'
<1> SUFFICES ASSUME VideoInv, ActivationChanged, Careful PROVE VideoInv'
  OBVIOUS
<1>0. VideoTypes /\ BufferInv /\ ConnectedInv
  BY DEF VideoInv
<1>1. /\ avb # "none" /\ avb' # "none" /\ avb' \in {"none", "inactive", "active"} /\ client' \in {"none", "idle", "active"}
      /\ UNCHANGED <<side, inbox, next, reader, thread, api, pool, connected, flight, service, output, control, crashed>>
  BY <1>0 DEF ActivationChanged, VideoTypes, ControlTypes
<1>2. BufferInv' /\ BufferTypes' /\ (~connected => slots' = NoSlots)
  <2>1. CASE connected /\ Reset
    <3>1. BufferInv' /\ slots' \in Slots /\ rd' = 0 /\ wr' = 0 /\ 0 \in Indices /\ free' \in SUBSET Packets
      BY <1>0, <1>1, <2>1, ResetKeeps
    <3> QED
      BY <1>0, <1>1, <2>1, <3>1 DEF VideoTypes, BufferTypes
  <2>2. CASE UNCHANGED <<slots, rd, wr, free>>
    <3>1. BufferInv'
      BY <1>0, <1>1, <2>2 DEF BufferInv, RingOK, SizesOK, PlacesOK, NoneLost, Level, Spot
    <3> QED
      BY <1>0, <1>1, <2>2, <3>1 DEF VideoTypes, BufferTypes, ConnectedInv
  <2> QED
    BY <2>1, <2>2 DEF ActivationChanged
<1>3. ControlTypes' /\ last' \in Nat /\ ordered' \in BOOLEAN
  BY <1>0, <1>1 DEF VideoTypes, ControlTypes, FlowTypes, control, output
<1>4. ConnectedInv'
  BY <1>0, <1>1, <1>2 DEF ConnectedInv, control, Out
<1> QED
  BY <1>1, <1>2, <1>3, <1>4, CallKeeps DEF control

\* The local stream is connected to the AVB stream.
LEMMA ConnectKeeps == VideoInv /\ Connect /\ Careful => VideoInv'
<1> SUFFICES ASSUME VideoInv, Connect, Careful PROVE VideoInv'
  OBVIOUS
<1>0. VideoTypes /\ BufferInv /\ ConnectedInv
  BY DEF VideoInv
<1>1. /\ avb # "none" /\ service = "idle" /\ api = "idle" /\ ~Out /\ connected' = TRUE /\ pool' = TRUE
      /\ client' \in {"none", "idle", "active"}
      /\ UNCHANGED <<side, inbox, next, reader, thread, api, avb, flight, service, output, control, crashed>>
  BY DEF Connect, Idle
<1>2. BufferInv' /\ BufferTypes'
  <2>1. CASE Reset
    <3>1. BufferInv' /\ slots' \in Slots /\ rd' = 0 /\ wr' = 0 /\ 0 \in Indices /\ free' \in SUBSET Packets
      BY <1>0, <1>1, <2>1, ResetKeeps
    <3> QED
      BY <1>0, <1>1, <3>1 DEF VideoTypes, BufferTypes
  <2>2. CASE UNCHANGED <<slots, rd, wr, free>>
    <3>1. BufferInv'
      BY <1>0, <1>1, <2>2, BufferSame
    <3> QED
      BY <1>0, <1>1, <2>2, <3>1 DEF VideoTypes, BufferTypes
  <2> QED
    BY <2>1, <2>2 DEF Connect
<1>3. ControlTypes' /\ last' \in Nat /\ ordered' \in BOOLEAN
  BY <1>0, <1>1 DEF VideoTypes, ControlTypes, FlowTypes, control, output
<1>4. ConnectedInv'
  BY <1>0, <1>1 DEF ConnectedInv, control, Out
<1> QED
  BY <1>1, <1>2, <1>3, <1>4, CallKeeps DEF control

\* The local stream is disconnected.
LEMMA DisconnectResetsKeeps == VideoInv /\ DisconnectResets /\ Careful => VideoInv'
<1> SUFFICES ASSUME VideoInv, DisconnectResets, Careful PROVE VideoInv'
  OBVIOUS
<1>0. VideoTypes /\ BufferInv /\ ConnectedInv
  BY DEF VideoInv
<1>1. connected /\ avb # "none" /\ service = "idle" /\ ~Out
  BY <1>0 DEF ConnectedInv, DisconnectResets
<1>2. /\ Reset /\ connected' = FALSE /\ client' = "none" /\ api' \in {"idle", "delete"}
      /\ UNCHANGED <<side, inbox, next, reader, thread, pool, avb, flight, service, output, control, crashed>>
  BY DEF DisconnectResets
<1>3. ~pool /\ thread.pc # "write"
  BY <1>0 DEF ConnectedInv, DisconnectResets
<1>4. BufferInv' /\ slots' \in Slots /\ rd' = 0 /\ wr' = 0 /\ 0 \in Indices /\ free' \in SUBSET Packets /\ slots' = NoSlots
  BY <1>0, <1>1, <1>2, ResetKeeps
<1>5. BufferTypes'
  BY <1>0, <1>2, <1>4 DEF VideoTypes, BufferTypes
<1>6. ControlTypes' /\ last' \in Nat /\ ordered' \in BOOLEAN
  BY <1>0, <1>2 DEF VideoTypes, ControlTypes, FlowTypes, control, output, Calls
<1>7. ConnectedInv'
  BY <1>0, <1>1, <1>2, <1>3, <1>4 DEF ConnectedInv, control, Out
<1> QED
  BY <1>2, <1>4, <1>5, <1>6, <1>7, CallKeeps DEF control

\* An AVB stream is created with all its packets free.
LEMMA CreateAvbKeeps == VideoInv /\ CreateAvb /\ Careful => VideoInv'
<1> SUFFICES ASSUME VideoInv, CreateAvb, Careful PROVE VideoInv'
  OBVIOUS
<1>0. VideoTypes /\ BufferInv /\ ConnectedInv
  BY DEF VideoInv
<1>1. /\ avb = "none" /\ avb' = "inactive" /\ free' = Packets /\ api = "idle" /\ ~Out
      /\ UNCHANGED <<side, inbox, next, reader, thread, api, client, pool, slots, rd, wr, connected, flight, service, output, control, crashed>>
  BY DEF CreateAvb, Idle
<1>2. flight = {} /\ ~connected /\ slots = NoSlots
  BY <1>0, <1>1 DEF BufferInv, ConnectedInv
<1>3. \A i \in Indices : slots[i].packet = NoPacket
  BY <1>2, NoSlotsAre
<1>4. NoPacket \notin Packets
  BY VideoConstants DEF Packets, NoPacket
<1>5. PlacesOK(slots, free, flight)' /\ NoneLost(slots, free, flight)'
  BY <1>1, <1>2, <1>3, <1>4 DEF PlacesOK, NoneLost
<1>6. RingOK(slots, rd, wr)' /\ SizesOK(slots)'
  BY <1>0, <1>1 DEF BufferInv, RingOK, Level, Spot, SizesOK
<1>7. BufferInv'
  BY <1>1, <1>5, <1>6 DEF BufferInv
<1>8. BufferTypes'
  BY <1>0, <1>1 DEF VideoTypes, BufferTypes
<1>9. ControlTypes' /\ last' \in Nat /\ ordered' \in BOOLEAN
  BY <1>0, <1>1 DEF VideoTypes, ControlTypes, FlowTypes, control, output
<1>10. ConnectedInv'
  BY <1>0, <1>1 DEF ConnectedInv, control, Out
<1> QED
  BY <1>1, <1>7, <1>8, <1>9, <1>10, CallKeeps DEF control

\* The pool is deleted when the driver has none of its packets.
LEMMA DeletePoolKeeps == VideoInv /\ DeletePool /\ Careful => VideoInv'
<1> SUFFICES ASSUME VideoInv, DeletePool, Careful PROVE VideoInv'
  OBVIOUS
<1>0. VideoTypes /\ BufferInv /\ ConnectedInv
  BY DEF VideoInv
<1>1. /\ api = "delete" /\ flight = {} /\ avb' = "none" /\ api' = "idle" /\ free' = {}
      /\ UNCHANGED <<side, inbox, next, reader, thread, client, pool, slots, rd, wr, connected, flight, service, output, control, crashed>>
  BY DEF DeletePool, Careful
<1>2. ~connected /\ ~pool /\ slots = NoSlots /\ service # "read"
  BY <1>0, <1>1 DEF ConnectedInv
<1>3. flight' = {}
  BY <1>1
<1>4. PlacesOK(slots, free, flight)'
  BY <1>0, <1>1 DEF BufferInv, PlacesOK
<1>5. RingOK(slots, rd, wr)' /\ SizesOK(slots)'
  BY <1>0, <1>1 DEF BufferInv, RingOK, Level, Spot, SizesOK
<1>6. BufferInv'
  BY <1>1, <1>3, <1>4, <1>5 DEF BufferInv
<1>7. BufferTypes'
  BY <1>0, <1>1 DEF VideoTypes, BufferTypes
<1>8. ControlTypes' /\ last' \in Nat /\ ordered' \in BOOLEAN
  BY <1>0, <1>1 DEF VideoTypes, ControlTypes, FlowTypes, control, output, Calls
<1>9. ConnectedInv'
  BY <1>0, <1>1, <1>2 DEF ConnectedInv, control, Out
<1> QED
  BY <1>1, <1>6, <1>7, <1>8, <1>9, CallKeeps DEF control

----------------------------------------------------------------------------
(* What it implies                                                         *)

\* It holds in the beginning.
LEMMA VideoInitStep == VideoInit => VideoInv
<1> SUFFICES ASSUME VideoInit PROVE VideoInv
  OBVIOUS
<1>1. slots = NoSlots /\ rd = 0 /\ wr = 0 /\ free = {} /\ flight = {} /\ avb = "none"
  BY DEF VideoInit, NoSlots, Indices
<1>2. /\ slots \in Slots /\ (\A i \in Indices : slots[i].packet = NoPacket) /\ RingOK(slots, rd, wr) /\ SizesOK(slots)
      /\ rd \in Indices /\ wr \in Indices
  BY <1>1, NoSlotsAre
<1>3. BufferInv
  BY <1>1, <1>2 DEF BufferInv, PlacesOK
<1>4. BufferTypes
  BY <1>1, <1>2 DEF BufferTypes
<1>5. thread \in ThreadTypes /\ thread.pc = "off" /\ thread.todo = <<>>
  BY DEF VideoInit, ThreadTypes
<1>6. FlowTypes
  BY <1>5, VideoConstants DEF VideoInit, FlowTypes
<1>7. ControlTypes
  BY DEF VideoInit, ControlTypes, Calls
<1>8. ConnectedInv
  BY <1>1, <1>5 DEF VideoInit, ConnectedInv
<1>9. ThreadInv
  BY <1>5, VideoConstants DEF VideoInit, ThreadInv
<1> QED
  BY <1>3, <1>4, <1>6, <1>7, <1>8, <1>9 DEF VideoInv, VideoTypes

\* Every step keeps it.
LEMMA VideoNextStep == VideoInv /\ [VideoNext]_videoVars /\ Careful => VideoInv'
<1> SUFFICES ASSUME VideoInv, [VideoNext]_videoVars, Careful PROVE VideoInv'
  OBVIOUS
<1>1. CASE SendPacket
  BY <1>1, SendPacketKeeps
<1>2. CASE Thread
  BY <1>2, ThreadStartsKeeps, ThreadWaitsKeeps, ThreadReadsKeeps, ThreadChecksKeeps, ThreadWritesKeeps, ThreadEndsKeeps,
     ReceiverReadsKeeps, CallbackEndsKeeps DEF Thread
<1>3. CASE Control
  BY <1>3, ThreadJoinedKeeps, DisconnectResetsKeeps, DeletePoolKeeps, AddAsReaderKeeps, ReceiverJoinedKeeps, ClearCallbacksKeeps DEF Control
<1>4. CASE PreparePacket \/ TakePacket \/ ReturnPacket \/ ActivationChanged
  BY <1>4, PreparePacketKeeps, TakePacketKeeps, ReturnPacketKeeps, ActivationChangedKeeps
<1>5. CASE CreateLocal \/ StopThread \/ CreateAvb \/ Connect \/ DisconnectTakesPool \/ Remove
  BY <1>5, CreateLocalKeeps, StopThreadKeeps, CreateAvbKeeps, ConnectKeeps, DisconnectTakesPoolKeeps, RemoveKeeps
<1>6. CASE CreateReceiver \/ SetCallback \/ DestroyReceiver
  BY <1>6, CreateReceiverKeeps, SetCallbackKeeps, DestroyReceiverKeeps
<1>7. CASE UNCHANGED videoVars
  <2>1. UNCHANGED <<side, inbox, next, reader, thread, api, client, pool, slots, rd, wr, free, avb, connected, flight, service>>
        /\ UNCHANGED <<last, ordered, exists, running, held, format, crashed>>
    BY <1>7 DEF videoVars, buffer, stream, output, control
  <2>2. BufferInv' /\ BufferTypes'
    BY <2>1, BufferSame DEF VideoInv, VideoTypes, BufferTypes
  <2>3. ControlTypes' /\ last' \in Nat /\ ordered' \in BOOLEAN
    BY <2>1 DEF VideoInv, VideoTypes, ControlTypes, FlowTypes
  <2>4. ConnectedInv'
    BY <2>1 DEF VideoInv, ConnectedInv, Out
  <2> QED
    BY <2>1, <2>2, <2>3, <2>4, CallKeeps
<1> QED
  BY <1>1, <1>2, <1>3, <1>4, <1>5, <1>6, <1>7, Zenon DEF VideoNext

\* It implies that no packet is lost.
LEMMA PlacesFollow == VideoInv => PacketsConserved
<1> SUFFICES ASSUME VideoInv PROVE PacketsConserved
  OBVIOUS
<1>1. /\ slots \in Slots /\ DOMAIN slots = Indices /\ rd \in Indices /\ wr \in Indices /\ free \in SUBSET Packets /\ flight \in SUBSET Packets
      /\ RingOK(slots, rd, wr) /\ PlacesOK(slots, free, flight) /\ (avb # "none" => NoneLost(slots, free, flight))
  BY DEF VideoInv, VideoTypes, BufferTypes, BufferInv, Slots
<1>2. \A i \in Indices : slots[i] \in SlotTypes /\ slots[i].packet \in Packets \cup {NoPacket}
  BY <1>1 DEF Slots, SlotTypes
<1>3. VideoTypeOK
  <2>1. Len(inbox) <= RingSize /\ next \in 1 .. MaxId + 1 /\ thread.pc \in {"off", "start", "wait", "access", "check", "write", "call"}
        /\ client \in {"none", "idle", "active"} /\ avb \in {"none", "inactive", "active"} /\ api \in Calls
    BY DEF VideoInv, VideoTypes, FlowTypes, ControlTypes, ThreadTypes, ThreadInv
  <2>2. \A i \in DOMAIN slots : slots[i].packet \in Packets \cup {NoPacket} /\ (side = "ts" => Len(slots[i].tsps) <= MaxTsps)
    BY <1>1, <1>2 DEF VideoInv, BufferInv, SizesOK
  <2> QED
    BY <1>1, <2>1, <2>2 DEF VideoTypeOK, Calls, Indices
<1>4. \A i \in DOMAIN slots :
        slots[i].packet # NoPacket <=> IF rd <= wr THEN rd <= i /\ i < wr ELSE rd <= i \/ i < wr
  BY <1>1, OccupiedIs
<1>5. ASSUME avb # "none"
      PROVE  /\ free \cup Held(slots) \cup flight = Packets
             /\ free \cap flight = {} /\ Held(slots) \cap (free \cup flight) = {}
             /\ \A i, j \in DOMAIN slots : i # j /\ slots[i].packet = slots[j].packet => slots[i].packet = NoPacket
  <2>1. NoPacket \notin Packets
    BY VideoConstants DEF Packets, NoPacket
  <2>2. Held(slots) \subseteq Packets
    BY <1>1, <1>2 DEF Held
  <2>3. Packets \subseteq free \cup Held(slots) \cup flight
    BY <1>1, <1>5, <2>1 DEF NoneLost, Held
  <2>4. free \cap flight = {} /\ Held(slots) \cap (free \cup flight) = {}
    BY <1>1 DEF PlacesOK, Held
  <2>5. \A i, j \in DOMAIN slots : i # j /\ slots[i].packet = slots[j].packet => slots[i].packet = NoPacket
    BY <1>1 DEF PlacesOK
  <2> QED
    BY <1>1, <2>2, <2>3, <2>4, <2>5
<1> QED
  BY <1>3, <1>4, <1>5 DEF PacketsConserved

\* Every packet of the pool is in exactly one place, and the slots between the indices are
\* exactly those that hold one.
THEOREM VideoPacketsAreConserved == Careful => (VideoSpec => []PacketsConserved)
<1> SUFFICES ASSUME Careful PROVE VideoSpec => []PacketsConserved
  OBVIOUS
<1>1. VideoInit => VideoInv
  BY VideoInitStep
<1>2. VideoInv /\ [VideoNext]_videoVars => VideoInv'
  BY VideoNextStep
<1>3. VideoInv => PacketsConserved
  BY PlacesFollow
<1> QED
  BY <1>1, <1>2, <1>3, PTL DEF VideoSpec

\* Nothing of a pool that was deleted is left in the local buffer, and nobody points to it.
THEOREM NothingGoneIsLeft == Careful => (VideoSpec => []NothingGoneIsKept)
<1> SUFFICES ASSUME Careful PROVE VideoSpec => []NothingGoneIsKept
  OBVIOUS
<1>1. VideoInit => VideoInv
  BY VideoInitStep
<1>2. VideoInv /\ [VideoNext]_videoVars => VideoInv'
  BY VideoNextStep
<1>3. VideoInv => NothingGoneIsKept
  <2> SUFFICES ASSUME VideoInv, avb = "none" PROVE Held(slots) = {} /\ ~pool /\ ~connected
    BY DEF NothingGoneIsKept
  <2>1. ~connected /\ ~pool /\ slots = NoSlots
    BY DEF VideoInv, ConnectedInv
  <2>2. \A i \in Indices : slots[i].packet = NoPacket
    BY <2>1, NoSlotsAre
  <2>3. DOMAIN slots = Indices
    BY <2>1 DEF NoSlots
  <2> QED
    BY <2>1, <2>2, <2>3 DEF Held
<1> QED
  BY <1>1, <1>2, <1>3, PTL DEF VideoSpec

----------------------------------------------------------------------------
(* Contents go out in order                                                *)

\* what the thread copies is not yet all in the buffer
Copying == thread.pc \in {"check", "write"}

\* what has gone out last, and what waits in the buffer
Queued == {last} \cup InSlots(slots)

\* The packets of the shared ring that are still to be copied. Of a full ring nothing is granted:
\* what the thread copied it cannot release, and it does not wake up any more.
ToCopy ==
  IF Copying THEN IF thread.grant = 0 THEN {} ELSE 2 .. Len(inbox)
  ELSE IF thread.pc = "access" \/ Out \/ Len(inbox) # RingSize THEN 1 .. Len(inbox) ELSE {}

InboxOrder ==
  /\ \A k \in DOMAIN inbox : Rising(inbox[k]) /\ Below(In(inbox[k]), {next})
  /\ \A k, l \in DOMAIN inbox : k < l => Below(In(inbox[k]), In(inbox[l]))
BufferOrder == ordered = TRUE /\ SlotsInOrder(slots, rd, last) /\ Below(Queued, {next})
TodoOrder ==
  Copying =>
    /\ thread.grant = 0 => Len(inbox) = RingSize
    /\ \A k \in DOMAIN thread.todo :
         Rising(thread.todo[k]) /\ Below(Queued, In(thread.todo[k])) /\ Below(In(thread.todo[k]), {next})
    /\ \A k, l \in DOMAIN thread.todo : k < l => Below(In(thread.todo[k]), In(thread.todo[l]))
AheadOrder ==
  \A k \in ToCopy :
    /\ Below(Queued, In(inbox[k]))
    /\ Copying => \A m \in DOMAIN thread.todo : Below(In(thread.todo[m]), In(inbox[k]))
OrderInv == InboxOrder /\ BufferOrder /\ TodoOrder /\ AheadOrder

\* Less is in the buffer, and what the thread has in hand and the ring are the same.
LEMMA LessQueued ==
  ASSUME OrderInv, UNCHANGED <<inbox, next, ordered>>, SlotsInOrder(slots, rd, last)', Queued' \subseteq Queued,
         ToCopy' \subseteq ToCopy, Copying' => Copying /\ thread'.grant = thread.grant /\ thread'.todo = thread.todo
  PROVE  OrderInv'
<1>1. InboxOrder'
  BY DEF OrderInv, InboxOrder
<1>2. BufferOrder'
  BY DEF OrderInv, BufferOrder, Below
<1>3. TodoOrder'
  BY DEF OrderInv, TodoOrder, Below
<1>4. AheadOrder'
  BY DEF OrderInv, AheadOrder, Below
<1> QED
  BY <1>1, <1>2, <1>3, <1>4 DEF OrderInv

\* Nothing changes in the buffer.
LEMMA SameQueued ==
  ASSUME OrderInv, UNCHANGED <<last, slots, rd>>
  PROVE  SlotsInOrder(slots, rd, last)' /\ Queued' = Queued
<1>1. InSlots(slots)' = InSlots(slots)
  BY DEF InSlots
<1>2. Queued' = Queued
  BY <1>1 DEF Queued
<1>3. \A i \in Indices : Spot(i, rd)' = Spot(i, rd)
  BY DEF Spot
<1>4. SlotsInOrder(slots, rd, last)'
  BY <1>1, <1>3 DEF OrderInv, BufferOrder, SlotsInOrder
<1> QED
  BY <1>2, <1>4

\* The run flag aside, the thread and the ring stay as they are.
LEMMA SameThread ==
  ASSUME OrderInv, UNCHANGED <<side, inbox, next, ordered>>, SlotsInOrder(slots, rd, last)', Queued' \subseteq Queued,
         thread'.pc = thread.pc, thread'.grant = thread.grant, thread'.todo = thread.todo
  PROVE  OrderInv'
<1>1. Copying' <=> Copying
  BY DEF Copying
<1>2. ToCopy' = ToCopy
  BY <1>1 DEF ToCopy, Out
<1> QED
  BY <1>1, <1>2, LessQueued

\* The thread moves, but not with a packet in hand.
LEMMA ThreadMoves ==
  ASSUME OrderInv, UNCHANGED <<side, inbox, next, ordered, last, slots, rd>>, ~Copying, ~Copying',
         thread'.pc = "access" => Out \/ thread.pc = "access" \/ Len(inbox) # RingSize
  PROVE  OrderInv'
<1>1. SlotsInOrder(slots, rd, last)' /\ Queued' = Queued
  BY SameQueued
<1>2. ToCopy' \subseteq ToCopy
  BY DEF ToCopy, Out
<1> QED
  BY <1>1, <1>2, LessQueued

\* What a write does to the order.
LEMMA WriteOrder ==
  ASSUME VideoTypes, BufferInv, ~Sph, NEW c \in Contents, Rising(c), Below(Queued, In(c)),
         SlotsInOrder(slots, rd, last), Write(c), rd' = rd, last' = last
  PROVE  SlotsInOrder(slots, rd, last)' /\ Queued' \subseteq Queued \cup In(c)
<1>0. /\ rd \in Indices /\ wr \in Indices /\ slots \in Slots /\ free \in SUBSET Packets /\ RingOK(slots, rd, wr) /\ last \in Nat
      /\ Below({last}, In(c)) /\ Below(InSlots(slots), In(c))
  BY DEF VideoTypes, BufferTypes, FlowTypes, BufferInv, Queued, Below
<1>1. ASSUME NEW t, slots' = t, SlotsInOrder(t, rd, last), InSlots(t) \subseteq InSlots(slots) \cup In(c)
      PROVE  SlotsInOrder(slots, rd, last)' /\ Queued' \subseteq Queued \cup In(c)
  <2>1. SlotsInOrder(slots, rd, last)'
    BY <1>1 DEF SlotsInOrder, InSlots, Spot
  <2>2. InSlots(slots)' = InSlots(t)
    BY <1>1 DEF InSlots
  <2> QED
    BY <1>1, <2>1, <2>2 DEF Queued
<1>2. CASE UNCHANGED <<slots, free, wr>>
  BY <1>1, <1>2
<1>3. CASE Placing(slots, c)
  <2>1. PICK p \in free : slots' = FillSlot(slots, wr, p, c)
    BY <1>3 DEF Placing
  <2>2. Level(rd, wr) # NumPackets - 1 /\ p \in Packets
    BY <1>0, <1>3 DEF Placing
  <2>3. /\ SlotsInOrder(FillSlot(slots, wr, p, c), rd, last)
        /\ InSlots(FillSlot(slots, wr, p, c)) = InSlots(slots) \cup In(c)
    BY <1>0, <2>2, FilledOrder
  <2> QED
    BY <1>1, <2>1, <2>3
<1>4. CASE \E k \in 0 .. Len(c) : Growing(c, k)
  <2>1. PICK k \in 0 .. Len(c) : Growing(c, k)
    BY <1>4
  <2> DEFINE j == wr - 1
             x == SubSeq(c, 1, k)
             y == SubSeq(c, k + 1, Len(c))
             s == Grow(slots, j, x)
  <2>2. /\ wr > 0 /\ Level(rd, wr) > 0 /\ j \in Indices /\ slots[j].packet # NoPacket
        /\ (slots' = s \/ Placing(s, y))
    BY <2>1 DEF Growing, Placed
  <2>3. Len(c) \in Nat /\ In(c) \subseteq Nat /\ DOMAIN c = 1 .. Len(c) /\ In(c) = {c[m] : m \in 1 .. Len(c)}
    BY InIs
  <2>4. x \in Contents /\ In(x) = {c[m] : m \in 1 .. k} /\ Rising(x)
    BY <2>3, PartIs
  <2>5. y \in Contents /\ In(y) = {c[m] : m \in k + 1 .. Len(c)} /\ Rising(y)
    BY <2>3, PartIs
  <2> HIDE DEF x, y, j
  <2>6. In(x) \subseteq In(c) /\ In(y) \subseteq In(c)
    BY <2>3, <2>4, <2>5
  <2>7. Below(In(x), In(y))
    <3> SUFFICES ASSUME NEW a \in In(x), NEW b \in In(y) PROVE a < b
      BY DEF Below
    <3>1. PICK m \in 1 .. k : a = c[m]
      BY <2>4
    <3>2. PICK n \in k + 1 .. Len(c) : b = c[n]
      BY <2>5
    <3> QED
      BY <2>3, <3>1, <3>2 DEF Rising
  <2>8. s \in Slots /\ RingOK(s, rd, wr)
    BY <1>0, <2>2, <2>4, GrowKeeps
  <2>9. SlotsInOrder(s, rd, last) /\ InSlots(s) = InSlots(slots) \cup In(x)
    <3>1. Below(InSlots(slots), In(x)) /\ Below({last}, In(x))
      BY <1>0, <2>6 DEF Below
    <3>2. x \in Contents /\ Rising(x)
      BY <2>4
    <3>3. SlotsInOrder(Grow(slots, wr - 1, x), rd, last) /\ InSlots(Grow(slots, wr - 1, x)) = InSlots(slots) \cup In(x)
      BY <1>0, <2>2, <3>1, <3>2, GrownOrder
    <3> QED
      BY <3>3 DEF j
  <2> HIDE DEF s
  <2>10. CASE slots' = s
    BY <1>1, <2>6, <2>9, <2>10
  <2>11. CASE Placing(s, y)
    <3>1. PICK p \in free : slots' = FillSlot(s, wr, p, y)
      BY <2>11 DEF Placing
    <3>2. Level(rd, wr) # NumPackets - 1 /\ p \in Packets
      BY <1>0, <2>11 DEF Placing
    <3>3. Below(InSlots(s), In(y)) /\ Below({last}, In(y))
      BY <1>0, <2>6, <2>7, <2>9 DEF Below
    <3>4. /\ SlotsInOrder(FillSlot(s, wr, p, y), rd, last)
          /\ InSlots(FillSlot(s, wr, p, y)) = InSlots(s) \cup In(y)
      <4>1. y \in Contents /\ Rising(y) /\ SlotsInOrder(s, rd, last)
        BY <2>5, <2>9
      <4> QED
        BY <1>0, <2>8, <3>2, <3>3, <4>1, FilledOrder
    <3>5. InSlots(FillSlot(s, wr, p, y)) \subseteq InSlots(slots) \cup In(c)
      BY <2>6, <2>9, <3>4
    <3> QED
      BY <1>1, <3>1, <3>4, <3>5
  <2> QED
    BY <2>2, <2>10, <2>11
<1> QED
  BY <1>2, <1>3, <1>4, WriteIs

\* The first packet of the shared ring goes; what is asked of the others still holds.
LEMMA PoppedOrder ==
  ASSUME VideoInv, OrderInv, inbox # <<>>, inbox' = Tail(inbox), UNCHANGED <<next, ordered, side>>,
         SlotsInOrder(slots, rd, last)', Below(Queued', {next}), ~Copying',
         \A k \in 2 .. Len(inbox) : Below(Queued', In(inbox[k]))
  PROVE  OrderInv'
<1>1. inbox \in Seq(Contents)
  BY DEF VideoInv, VideoTypes, FlowTypes
<1>2. /\ Len(inbox) \in Nat \ {0} /\ DOMAIN inbox = 1 .. Len(inbox) /\ DOMAIN inbox' = 1 .. Len(inbox) - 1
      /\ Len(inbox') = Len(inbox) - 1 /\ \A i \in 1 .. Len(inbox) - 1 : inbox'[i] = inbox[i + 1]
  BY <1>1, HeadTail
<1>3. \A i \in 1 .. Len(inbox) - 1 : i + 1 \in 2 .. Len(inbox) /\ i + 1 \in 1 .. Len(inbox)
  BY <1>2
<1>4. InboxOrder'
  <2>1. \A k \in 1 .. Len(inbox) - 1 : Rising(inbox'[k]) /\ Below(In(inbox'[k]), {next})
    BY <1>2, <1>3 DEF OrderInv, InboxOrder
  <2>2. \A k, l \in 1 .. Len(inbox) - 1 : k < l => Below(In(inbox'[k]), In(inbox'[l]))
    <3> SUFFICES ASSUME NEW k \in 1 .. Len(inbox) - 1, NEW l \in 1 .. Len(inbox) - 1, k < l
                 PROVE  Below(In(inbox'[k]), In(inbox'[l]))
      OBVIOUS
    <3>1. k + 1 < l + 1 /\ k + 1 \in DOMAIN inbox /\ l + 1 \in DOMAIN inbox
      BY <1>2, <1>3
    <3> QED
      BY <1>2, <3>1 DEF OrderInv, InboxOrder
  <2> QED
    BY <1>2, <2>1, <2>2 DEF InboxOrder
<1>5. BufferOrder'
  BY DEF OrderInv, BufferOrder
<1>6. TodoOrder'
  BY DEF TodoOrder
<1>7. AheadOrder'
  <2>1. \A k \in 1 .. Len(inbox) - 1 : Below(Queued', In(inbox'[k]))
    BY <1>2, <1>3
  <2>2. ToCopy' \subseteq 1 .. Len(inbox) - 1
    BY <1>2 DEF ToCopy
  <2> QED
    BY <2>1, <2>2 DEF AheadOrder
<1> QED
  BY <1>4, <1>5, <1>6, <1>7 DEF OrderInv

\* A packet arrives.
LEMMA SendPacketOrder == VideoInv /\ OrderInv /\ SendPacket => OrderInv'
<1> SUFFICES ASSUME VideoInv, OrderInv, SendPacket PROVE OrderInv'
  OBVIOUS
<1>0. UNCHANGED <<side, thread, slots, rd, last, ordered>>
  BY DEF SendPacket, buffer, output
<1>1. PICK n \in (IF side = "ts" THEN Sizes ELSE {1}) :
        /\ next' = next + n
        /\ inbox' = IF Len(inbox) < RingSize THEN Append(inbox, [i \in 1 .. n |-> next + i - 1]) ELSE inbox
  BY DEF SendPacket
<1>2. n \in Nat \ {0} /\ next \in Nat /\ inbox \in Seq(Contents) /\ RingSize \in Nat /\ Len(inbox) <= RingSize
      /\ Len(inbox) \in Nat /\ DOMAIN inbox = 1 .. Len(inbox)
  BY VideoConstants DEF VideoInv, VideoTypes, FlowTypes, ThreadInv
<1> DEFINE c == [i \in 1 .. n |-> next + i - 1]
<1>3. c \in Contents /\ Rising(c) /\ Below(In(c), {next + n}) /\ \A b \in In(c) : next <= b
  <2>1. \A i \in 1 .. n : next + i - 1 \in Nat /\ next <= next + i - 1 /\ next + i - 1 < next + n
    BY <1>2
  <2>2. c \in Contents
    BY <1>2, <2>1 DEF Contents
  <2>3. DOMAIN c = 1 .. n /\ \A i \in 1 .. n : c[i] = next + i - 1
    OBVIOUS
  <2> HIDE DEF c
  <2>4. Rising(c)
    BY <1>2, <2>3 DEF Rising
  <2>5. Below(In(c), {next + n}) /\ \A b \in In(c) : next <= b
    BY <2>1, <2>3 DEF Below, In
  <2> QED
    BY <2>2, <2>4, <2>5
<1>4. inbox' = IF Len(inbox) < RingSize THEN Append(inbox, c) ELSE inbox
  BY <1>1
<1> HIDE DEF c
<1>5. /\ Len(Append(inbox, c)) = Len(inbox) + 1 /\ DOMAIN Append(inbox, c) = 1 .. Len(inbox) + 1
      /\ (\A k \in 1 .. Len(inbox) : Append(inbox, c)[k] = inbox[k]) /\ Append(inbox, c)[Len(inbox) + 1] = c
  BY <1>2, <1>3, SMT
<1>6. PICK m, l1 \in Nat :
        /\ m = Len(inbox) /\ l1 = Len(inbox') /\ DOMAIN inbox = 1 .. m /\ DOMAIN inbox' = 1 .. l1 /\ m <= RingSize
        /\ l1 = m \/ (l1 = m + 1 /\ m < RingSize /\ inbox'[m + 1] = c)
        /\ \A k \in 1 .. m : inbox'[k] = inbox[k]
  <2>1. CASE Len(inbox) < RingSize
    <3>1. inbox' = Append(inbox, c)
      BY <1>4, <2>1
    <3>2. /\ Len(inbox') = Len(inbox) + 1 /\ DOMAIN inbox' = 1 .. Len(inbox) + 1
          /\ (\A k \in 1 .. Len(inbox) : inbox'[k] = inbox[k]) /\ inbox'[Len(inbox) + 1] = c
      BY <1>5, <3>1, Zenon
    <3>3. Len(inbox) \in Nat /\ Len(inbox') \in Nat /\ DOMAIN inbox = 1 .. Len(inbox) /\ DOMAIN inbox' = 1 .. Len(inbox')
          /\ Len(inbox) <= RingSize
      BY <1>2, <3>2
    <3> QED
      BY <2>1, <3>2, <3>3, Zenon
  <2>2. CASE ~(Len(inbox) < RingSize)
    <3>1. inbox' = inbox
      BY <1>4, <2>2
    <3> QED
      BY <1>2, <3>1
  <2> QED
    BY <2>1, <2>2
<1>7. ASSUME NEW k \in 1 .. l1
      PROVE  k \in 1 .. m \/ (k = m + 1 /\ m < RingSize /\ inbox'[k] = c)
  BY <1>6
<1>8. SlotsInOrder(slots, rd, last)' /\ Queued' = Queued
  BY <1>0, SameQueued
<1>9. Queued \subseteq Nat
  <2>1. slots \in Slots /\ last \in Nat
    BY DEF VideoInv, VideoTypes, BufferTypes, FlowTypes
  <2> QED
    BY <2>1, InSlotsIs DEF Queued
<1>10. ASSUME NEW A \in SUBSET Nat, Below(A, {next}) PROVE Below(A, In(c)) /\ Below(A, {next'})
  <2>1. \A a \in A : a \in Nat /\ a < next
    BY <1>10 DEF Below
  <2>2. In(c) \subseteq Nat
    BY <1>3, InIs
  <2> QED
    BY <1>1, <1>2, <1>3, <2>1, <2>2 DEF Below
<1>11. \A k \in 1 .. m : In(inbox[k]) \in SUBSET Nat
  <2>1. \A k \in 1 .. m : inbox[k] \in Contents
    <3>1. \A k \in 1 .. Len(inbox) : inbox[k] \in Contents
      BY <1>2
    <3> QED
      BY <1>6, <3>1
  <2> QED
    BY <2>1, InIs
<1>12. InboxOrder'
  <2>1. \A k \in 1 .. m : Rising(inbox[k]) /\ Below(In(inbox[k]), {next}) /\ Below(In(inbox[k]), In(c)) /\ Below(In(inbox[k]), {next'})
    <3>1. \A k \in 1 .. m : Rising(inbox[k]) /\ Below(In(inbox[k]), {next})
      BY <1>6 DEF OrderInv, InboxOrder
    <3> QED
      BY <1>10, <1>11, <3>1
  <2>2. ASSUME NEW k \in 1 .. l1 PROVE Rising(inbox'[k]) /\ Below(In(inbox'[k]), {next'})
    BY <1>1, <1>3, <1>6, <1>7, <2>1
  <2>3. ASSUME NEW k \in 1 .. l1, NEW l \in 1 .. l1, k < l PROVE Below(In(inbox'[k]), In(inbox'[l]))
    <3>1. k \in 1 .. m /\ inbox'[k] = inbox[k]
      BY <1>6, <1>7, <2>3
    <3>2. CASE l \in 1 .. m
      BY <1>2, <1>6, <2>3, <3>1, <3>2 DEF OrderInv, InboxOrder
    <3>3. CASE inbox'[l] = c
      BY <2>1, <3>1, <3>3
    <3> QED
      BY <1>7, <3>2, <3>3
  <2> QED
    BY <1>6, <2>2, <2>3 DEF InboxOrder
<1>13. BufferOrder'
  BY <1>0, <1>8, <1>9, <1>10 DEF OrderInv, BufferOrder
<1>14. thread.todo \in Seq(Contents) /\ \A j \in DOMAIN thread.todo : In(thread.todo[j]) \in SUBSET Nat
  <2>1. thread.todo \in Seq(Contents)
    BY DEF VideoInv, VideoTypes, FlowTypes, ThreadTypes
  <2>2. \A j \in DOMAIN thread.todo : thread.todo[j] \in Contents
    BY <2>1
  <2> QED
    BY <2>1, <2>2, InIs
<1>15. Copying' <=> Copying
  BY <1>0 DEF Copying
<1>16. TodoOrder'
  <2> SUFFICES ASSUME Copying PROVE TodoOrder'
    BY <1>15 DEF TodoOrder
  <2>1. thread'.grant = 0 => Len(inbox') = RingSize
    BY <1>0, <1>6 DEF OrderInv, TodoOrder
  <2>2. \A k \in DOMAIN thread.todo : Below(In(thread.todo[k]), {next'})
    BY <1>10, <1>14 DEF OrderInv, TodoOrder
  <2>3. thread' = thread /\ Queued' = Queued
    BY <1>0, <1>8
  <2>4. /\ \A k \in DOMAIN thread.todo : Rising(thread.todo[k]) /\ Below(Queued, In(thread.todo[k]))
        /\ \A k, l \in DOMAIN thread.todo : k < l => Below(In(thread.todo[k]), In(thread.todo[l]))
    BY DEF OrderInv, TodoOrder
  <2>5. thread'.todo = thread.todo
    BY <2>3
  <2> QED
    BY <2>1, <2>2, <2>3, <2>4, <2>5 DEF TodoOrder, Below
<1>17. AheadOrder'
  <2> SUFFICES ASSUME NEW k \in ToCopy'
               PROVE  /\ Below(Queued, In(inbox'[k]))
                      /\ Copying => \A j \in DOMAIN thread.todo : Below(In(thread.todo[j]), In(inbox'[k]))
    BY <1>0, <1>8, <1>15 DEF AheadOrder
  <2>1. k \in 1 .. l1
    BY <1>6 DEF ToCopy
  <2>2. CASE k \in 1 .. m
    <3>1. k \in ToCopy
      BY <1>0, <1>6, <1>15, <2>2 DEF ToCopy, Out
    <3> QED
      BY <1>6, <2>2, <3>1 DEF OrderInv, AheadOrder
  <2>3. CASE inbox'[k] = c
    <3>1. Below(Queued, In(c))
      BY <1>9, <1>10 DEF OrderInv, BufferOrder
    <3>2. Copying => \A j \in DOMAIN thread.todo : Below(In(thread.todo[j]), In(c))
      BY <1>10, <1>14 DEF OrderInv, TodoOrder
    <3> QED
      BY <2>3, <3>1, <3>2
  <2> QED
    BY <1>7, <2>1, <2>2, <2>3
<1> QED
  BY <1>12, <1>13, <1>16, <1>17 DEF OrderInv

\* The thread splits a packet of the shared ring.
LEMMA ThreadReadsOrder == VideoInv /\ OrderInv /\ ThreadReads => OrderInv'
<1> SUFFICES ASSUME VideoInv, OrderInv, ThreadReads PROVE OrderInv'
  OBVIOUS
<1>0. UNCHANGED <<side, inbox, next, ordered, last, slots, rd>>
  BY DEF ThreadReads, buffer, output
<1>1. inbox \in Seq(Contents) /\ inbox # <<>> /\ thread \in ThreadTypes /\ thread.pc = "access" /\ RingSize \in Nat \ {0}
  BY VideoConstants DEF VideoInv, VideoTypes, FlowTypes, ThreadInv, ThreadReads
<1>2. Head(inbox) = inbox[1] /\ inbox[1] \in Contents /\ Len(inbox) \in Nat \ {0} /\ DOMAIN inbox = 1 .. Len(inbox)
  BY <1>1, HeadTail
<1> DEFINE c == inbox[1]
           q == Chunks(c)
           g == IF InboxLevel > 0 THEN 1 ELSE 0
<1>3. thread' = [thread EXCEPT !.pc = "check", !.grant = g, !.todo = q]
  BY <1>2 DEF ThreadReads
<1>4. 1 \in ToCopy /\ ToCopy = 1 .. Len(inbox)
  BY <1>1, <1>2 DEF ToCopy, Copying
<1>5. Rising(c) /\ Below(In(c), {next}) /\ Below(Queued, In(c))
  BY <1>2, <1>4 DEF OrderInv, InboxOrder, AheadOrder
<1>6. /\ \A k \in DOMAIN q : In(q[k]) \subseteq In(c) /\ Rising(q[k])
      /\ \A k, l \in DOMAIN q : k < l => Below(In(q[k]), In(q[l]))
  <2> HIDE DEF q, c
  <2>1. c \in Contents
    BY <1>2 DEF c
  <2> QED
    BY <1>5, <2>1, ChunksAre, VideoConstants DEF q
<1>7. g = 0 => Len(inbox) = RingSize
  BY <1>2 DEF InboxLevel
<1> HIDE DEF q, g, c
<1>8. thread'.pc = "check" /\ thread'.grant = g /\ thread'.todo = q
  BY <1>1, <1>3 DEF ThreadTypes
<1>9. SlotsInOrder(slots, rd, last)' /\ Queued' = Queued
  BY <1>0, SameQueued
<1>10. InboxOrder' /\ BufferOrder'
  BY <1>0, <1>9 DEF OrderInv, InboxOrder, BufferOrder
<1>11. TodoOrder'
  <2>1. \A k \in DOMAIN q : Rising(q[k]) /\ Below(Queued, In(q[k])) /\ Below(In(q[k]), {next})
    BY <1>5, <1>6 DEF Below
  <2> QED
    BY <1>0, <1>6, <1>7, <1>8, <1>9, <2>1 DEF TodoOrder
<1>12. AheadOrder'
  <2> SUFFICES ASSUME NEW k \in 2 .. Len(inbox)
               PROVE  Below(Queued, In(inbox[k])) /\ \A m \in DOMAIN q : Below(In(q[m]), In(inbox[k]))
    <3>1. ToCopy' \subseteq 2 .. Len(inbox)
      BY <1>0, <1>8 DEF ToCopy, Copying
    <3> QED
      BY <1>0, <1>8, <1>9, <3>1 DEF AheadOrder
  <2>1. k \in ToCopy /\ 1 < k /\ k \in DOMAIN inbox /\ 1 \in DOMAIN inbox
    BY <1>2, <1>4
  <2>2. Below(In(c), In(inbox[k]))
    BY <2>1 DEF OrderInv, InboxOrder, c
  <2> QED
    BY <1>6, <2>1, <2>2 DEF OrderInv, AheadOrder, Below
<1> QED
  BY <1>10, <1>11, <1>12 DEF OrderInv

\* The first part of what the thread has in hand goes to the buffer, or nowhere.
LEMMA RestOrder ==
  ASSUME VideoInv, OrderInv, Copying, thread.todo # <<>>, UNCHANGED <<side, inbox, next, ordered>>,
         thread'.pc \in {"check", "write"}, thread'.grant = thread.grant, thread'.todo = Tail(thread.todo),
         SlotsInOrder(slots, rd, last)', Queued' \subseteq Queued \cup In(Head(thread.todo))
  PROVE  OrderInv'
<1> DEFINE q == thread.todo
           t == Tail(thread.todo)
<1>1. q \in Seq(Contents)
  BY DEF VideoInv, VideoTypes, FlowTypes, ThreadTypes
<1>2. PICK n \in Nat \ {0} : /\ DOMAIN q = 1 .. n /\ DOMAIN t = 1 .. n - 1 /\ Head(q) = q[1]
                             /\ \A i \in 1 .. n - 1 : t[i] = q[i + 1]
  BY <1>1, HeadTail
<1>3. /\ thread.grant = 0 => Len(inbox) = RingSize
      /\ \A k \in 1 .. n : Rising(q[k]) /\ Below(Queued, In(q[k])) /\ Below(In(q[k]), {next})
      /\ \A k, l \in 1 .. n : k < l => Below(In(q[k]), In(q[l]))
  BY <1>2 DEF OrderInv, TodoOrder
<1>4. \A k \in ToCopy : Below(Queued, In(inbox[k])) /\ \A m \in 1 .. n : Below(In(q[m]), In(inbox[k]))
  BY <1>2 DEF OrderInv, AheadOrder
<1>5. Copying' /\ thread'.todo = t
  BY DEF Copying
<1>6. Head(thread.todo) = q[1]
  BY <1>2
<1> HIDE DEF q, t
<1>7. InboxOrder'
  BY DEF OrderInv, InboxOrder
<1>8. BufferOrder'
  <2>1. Below(Queued, {next})
    BY DEF OrderInv, BufferOrder
  <2>2. Below(In(q[1]), {next})
    <3>1. 1 \in 1 .. n
      OBVIOUS
    <3> QED
      BY <1>3, <3>1, Zenon
  <2>3. Below(Queued', {next})
    BY <1>6, <2>1, <2>2 DEF Below
  <2> QED
    BY <2>3 DEF OrderInv, BufferOrder
<1>9. TodoOrder'
  <2>1. \A i \in 1 .. n - 1 : i + 1 \in 1 .. n /\ 1 < i + 1 /\ 1 \in 1 .. n
    OBVIOUS
  <2>2. \A k \in 1 .. n - 1 : Rising(t[k]) /\ Below(In(t[k]), {next}) /\ Below(Queued, In(t[k])) /\ Below(In(q[1]), In(t[k]))
    BY <1>2, <1>3, <2>1
  <2>3. \A k \in 1 .. n - 1 : Below(Queued', In(t[k]))
    BY <1>6, <2>2 DEF Below
  <2>4. \A k, l \in 1 .. n - 1 : k < l => Below(In(t[k]), In(t[l]))
    <3> SUFFICES ASSUME NEW k \in 1 .. n - 1, NEW l \in 1 .. n - 1, k < l PROVE Below(In(t[k]), In(t[l]))
      OBVIOUS
    <3>1. k + 1 < l + 1
      OBVIOUS
    <3> QED
      BY <1>2, <1>3, <2>1, <3>1
  <2> QED
    BY <1>2, <1>3, <1>5, <2>2, <2>3, <2>4 DEF TodoOrder
<1>10. AheadOrder'
  <2>1. ToCopy' = ToCopy
    BY <1>5 DEF ToCopy, Copying
  <2>2. \A i \in 1 .. n - 1 : i + 1 \in 1 .. n /\ 1 \in 1 .. n
    OBVIOUS
  <2>3. ASSUME NEW k \in ToCopy
        PROVE  Below(Queued', In(inbox[k])) /\ \A m \in 1 .. n - 1 : Below(In(t[m]), In(inbox[k]))
    <3>1. Below(Queued, In(inbox[k])) /\ Below(In(q[1]), In(inbox[k]))
      BY <1>4, <1>2
    <3>2. \A m \in 1 .. n - 1 : Below(In(t[m]), In(inbox[k]))
      BY <1>2, <1>4, <2>2
    <3> QED
      BY <1>6, <3>1, <3>2 DEF Below
  <2> QED
    BY <1>2, <1>5, <2>1, <2>3 DEF AheadOrder
<1> QED
  BY <1>7, <1>8, <1>9, <1>10 DEF OrderInv

\* The thread looks at the pool.
LEMMA ThreadChecksOrder == VideoInv /\ OrderInv /\ ThreadChecks => OrderInv'
<1> SUFFICES ASSUME VideoInv, OrderInv, ThreadChecks PROVE OrderInv'
  OBVIOUS
<1>0. UNCHANGED <<side, inbox, next, ordered, last, slots, rd>> /\ thread \in ThreadTypes /\ thread.pc = "check" /\ thread.todo # <<>>
  BY DEF ThreadChecks, buffer, output, VideoInv, VideoTypes, FlowTypes
<1>1. SlotsInOrder(slots, rd, last)' /\ Queued' = Queued /\ Copying
  BY <1>0, SameQueued DEF Copying
<1>2. CASE thread' = [thread EXCEPT !.pc = "write"]
  <2>1. thread'.pc = "write" /\ thread'.grant = thread.grant /\ thread'.todo = thread.todo
    BY <1>0, <1>2 DEF ThreadTypes
  <2>2. ToCopy' = ToCopy
    BY <1>0, <1>1, <2>1 DEF ToCopy, Copying
  <2> QED
    BY <1>0, <1>1, <2>1, <2>2, LessQueued
<1>3. CASE thread' = [thread EXCEPT !.todo = Tail(@)]
  <2>1. thread'.pc = "check" /\ thread'.grant = thread.grant /\ thread'.todo = Tail(thread.todo)
    BY <1>0, <1>3 DEF ThreadTypes
  <2> QED
    BY <1>0, <1>1, <2>1, RestOrder
<1> QED
  BY <1>2, <1>3 DEF ThreadChecks

\* A part of a packet is written.
LEMMA ThreadWritesOrder == VideoInv /\ OrderInv /\ ThreadWrites /\ ~Sph => OrderInv'
<1> SUFFICES ASSUME VideoInv, OrderInv, ThreadWrites, ~Sph PROVE OrderInv'
  OBVIOUS
<1>0. /\ UNCHANGED <<side, inbox, next, ordered, last, rd>> /\ thread \in ThreadTypes /\ thread.pc = "write" /\ thread.todo # <<>> /\ pool
      /\ Write(Head(thread.todo)) /\ VideoTypes /\ BufferInv
  BY DEF ThreadWrites, output, VideoInv, VideoTypes, FlowTypes, ThreadInv, ConnectedInv
<1>1. thread.todo \in Seq(Contents) /\ DOMAIN thread.todo = 1 .. Len(thread.todo) /\ Len(thread.todo) \in Nat \ {0}
      /\ Head(thread.todo) = thread.todo[1] /\ Head(thread.todo) \in Contents
  <2>1. thread.todo \in Seq(Contents)
    BY <1>0 DEF ThreadTypes
  <2> QED
    BY <1>0, <2>1, HeadTail
<1>2. Copying
  BY <1>0 DEF Copying
<1>3. Rising(Head(thread.todo)) /\ Below(Queued, In(Head(thread.todo)))
  BY <1>1, <1>2 DEF OrderInv, TodoOrder
<1>4. SlotsInOrder(slots, rd, last)' /\ Queued' \subseteq Queued \cup In(Head(thread.todo))
  <2>1. SlotsInOrder(slots, rd, last)
    BY DEF OrderInv, BufferOrder
  <2> QED
    BY <1>0, <1>1, <1>3, <2>1, WriteOrder
<1>5. thread'.pc = "check" /\ thread'.grant = thread.grant /\ thread'.todo = Tail(thread.todo)
  BY <1>0 DEF ThreadWrites, ThreadTypes
<1> QED
  BY <1>0, <1>2, <1>4, <1>5, RestOrder

\* The thread lets go of its packet, unless it was not granted.
LEMMA ThreadEndsOrder == VideoInv /\ OrderInv /\ ThreadEnds => OrderInv'
<1> SUFFICES ASSUME VideoInv, OrderInv, ThreadEnds PROVE OrderInv'
  OBVIOUS
<1>0. /\ UNCHANGED <<side, next, ordered, last, slots, rd>> /\ thread \in ThreadTypes /\ thread.pc = "check" /\ thread.todo = <<>> /\ ~Out
      /\ thread' = [thread EXCEPT !.pc = "wait"] /\ inbox' = IF thread.grant > 0 THEN Tail(inbox) ELSE inbox
      /\ inbox # <<>> /\ thread.grant \in {0, 1}
  BY DEF ThreadEnds, buffer, output, VideoInv, VideoTypes, FlowTypes, ThreadInv, ThreadTypes
<1>1. SlotsInOrder(slots, rd, last)' /\ Queued' = Queued /\ Copying
  BY <1>0, SameQueued DEF Copying
<1>2. thread'.pc = "wait" /\ thread'.todo = thread.todo /\ ~Copying'
  BY <1>0 DEF ThreadTypes, Copying
<1>3. CASE thread.grant = 0
  <2>1. inbox' = inbox /\ Len(inbox) = RingSize
    BY <1>0, <1>1, <1>3 DEF OrderInv, TodoOrder
  <2>2. ToCopy' = {}
    BY <1>0, <1>2, <2>1 DEF ToCopy, Out
  <2> QED
    BY <1>0, <1>1, <1>2, <2>1, <2>2, LessQueued
<1>4. CASE thread.grant = 1
  <2>1. inbox' = Tail(inbox)
    BY <1>0, <1>4
  <2>2. ToCopy = 2 .. Len(inbox)
    BY <1>1, <1>4 DEF ToCopy
  <2>3. \A k \in 2 .. Len(inbox) : Below(Queued', In(inbox[k]))
    BY <1>1, <2>2 DEF OrderInv, AheadOrder
  <2>4. Below(Queued', {next})
    BY <1>1 DEF OrderInv, BufferOrder
  <2> QED
    BY <1>0, <1>1, <1>2, <2>1, <2>3, <2>4, PoppedOrder
<1> QED
  BY <1>0, <1>3, <1>4

\* The receiver calls back, or passes a packet over.
LEMMA ReceiverReadsOrder == VideoInv /\ OrderInv /\ ReceiverReads => OrderInv'
<1> SUFFICES ASSUME VideoInv, OrderInv, ReceiverReads PROVE OrderInv'
  OBVIOUS
<1>0. /\ UNCHANGED <<side, next, ordered, last, slots, rd>> /\ thread \in ThreadTypes /\ thread.pc = "access" /\ Out /\ inbox # <<>>
      /\ \/ inbox' = inbox /\ thread' = [thread EXCEPT !.pc = "call", !.todo = <<Head(inbox)>>]
         \/ inbox' = inbox /\ thread' = [thread EXCEPT !.pc = "wait"]
         \/ inbox' = Tail(inbox) /\ thread' = [thread EXCEPT !.pc = "wait"]
  <2>1. thread \in ThreadTypes /\ inbox # <<>>
    BY DEF ReceiverReads, VideoInv, VideoTypes, FlowTypes, ThreadInv
  <2> QED
    BY <2>1, Zenon DEF ReceiverReads, buffer, output
<1>1. SlotsInOrder(slots, rd, last)' /\ Queued' = Queued /\ ~Copying
  BY <1>0, SameQueued DEF Copying
<1>2. ~Copying' /\ thread'.pc # "access" /\ (inbox' = Tail(inbox) /\ thread' = [thread EXCEPT !.pc = "wait"] => thread'.todo = thread.todo)
  <2>1. thread'.pc \in {"call", "wait"}
    BY <1>0 DEF ThreadTypes
  <2> QED
    BY <1>0, <2>1 DEF Copying, ThreadTypes
<1>3. CASE inbox' = inbox
  BY <1>0, <1>1, <1>2, <1>3, ThreadMoves
<1>4. CASE inbox' = Tail(inbox) /\ thread' = [thread EXCEPT !.pc = "wait"]
  <2>1. Len(inbox) \in Nat \ {0}
    BY <1>0, HeadTail DEF VideoInv, VideoTypes, FlowTypes
  <2>2. 2 .. Len(inbox) \subseteq ToCopy
    BY <1>0, <1>1, <2>1 DEF ToCopy
  <2>3. \A k \in 2 .. Len(inbox) : Below(Queued', In(inbox[k]))
    BY <1>1, <2>2 DEF OrderInv, AheadOrder
  <2>4. Below(Queued', {next})
    BY <1>1 DEF OrderInv, BufferOrder
  <2> QED
    BY <1>0, <1>1, <1>2, <1>4, <2>3, <2>4, PoppedOrder
<1> QED
  BY <1>0, <1>3, <1>4

\* The callback returns: what it was called with has gone out.
LEMMA CallbackEndsOrder == VideoInv /\ OrderInv /\ CallbackEnds /\ "cancel" \in Assume => OrderInv'
<1> SUFFICES ASSUME VideoInv, OrderInv, CallbackEnds, "cancel" \in Assume PROVE OrderInv'
  OBVIOUS
<1>0. /\ UNCHANGED <<side, next, slots, rd>> /\ thread \in ThreadTypes /\ Out /\ inbox # <<>> /\ ~Copying
      /\ thread' = [thread EXCEPT !.pc = "wait", !.todo = <<>>] /\ inbox' = Tail(inbox) /\ GoesOut(Head(inbox))
  <2>1. thread \in ThreadTypes /\ Out /\ inbox # <<>> /\ thread.pc = "call" /\ thread.todo = <<Head(inbox)>>
    BY DEF CallbackEnds, VideoInv, VideoTypes, FlowTypes, ThreadInv
  <2>2. Head(thread.todo) = Head(inbox)
    BY <2>1
  <2> QED
    BY <2>1, <2>2 DEF CallbackEnds, buffer, Copying
<1>1. slots = NoSlots /\ last \in Nat
  BY <1>0 DEF VideoInv, ConnectedInv, VideoTypes, FlowTypes
<1>2. inbox \in Seq(Contents) /\ Len(inbox) \in Nat \ {0} /\ DOMAIN inbox = 1 .. Len(inbox) /\ Head(inbox) = inbox[1] /\ inbox[1] \in Contents
  <2>1. inbox \in Seq(Contents)
    BY DEF VideoInv, VideoTypes, FlowTypes
  <2> QED
    BY <1>0, <2>1, HeadTail
<1> DEFINE c == inbox[1]
<1>3. Len(c) \in Nat /\ DOMAIN c = 1 .. Len(c) /\ In(c) \subseteq Nat /\ \A k \in 1 .. Len(c) : c[k] \in Nat /\ c[k] \in In(c)
  BY <1>2, InIs
<1>4. ToCopy = 1 .. Len(inbox) /\ 1 \in ToCopy
  BY <1>0, <1>2 DEF ToCopy
<1>5. Rising(c) /\ Below(In(c), {next}) /\ Below(Queued, In(c)) /\ last \in Queued
  BY <1>2, <1>4 DEF OrderInv, InboxOrder, AheadOrder, Queued
<1>6. GoesOut(c)
  BY <1>0, <1>2
<1> HIDE DEF c
<1>7. last' \in {last} \cup In(c) /\ last' \in Nat
  <2>1. c # <<>> => Len(c) \in 1 .. Len(c)
    BY <1>2, <1>3 DEF Contents, c
  <2> QED
    BY <1>1, <1>3, <1>6, <2>1 DEF GoesOut
<1>8. ordered' = TRUE /\ ordered = TRUE
  <2>1. \A i \in DOMAIN c : c[i] > IF i = 1 THEN last ELSE c[i - 1]
    <3> SUFFICES ASSUME NEW i \in 1 .. Len(c) PROVE c[i] > IF i = 1 THEN last ELSE c[i - 1]
      BY <1>3
    <3>1. last < c[i]
      BY <1>3, <1>5 DEF Below
    <3>2. i # 1 => c[i - 1] < c[i]
      <4>1. i # 1 => i - 1 \in DOMAIN c /\ i \in DOMAIN c /\ i - 1 < i
        BY <1>3
      <4> QED
        BY <1>5, <4>1 DEF Rising
    <3> QED
      BY <1>1, <1>3, <3>1, <3>2
  <2>2. ordered = TRUE
    BY DEF OrderInv, BufferOrder
  <2>3. ordered' = (ordered /\ \A i \in DOMAIN c : c[i] > IF i = 1 THEN last ELSE c[i - 1])
    BY <1>6, Zenon DEF GoesOut
  <2> QED
    BY <2>1, <2>2, <2>3, Zenon
<1>9. SlotsInOrder(slots, rd, last)' /\ Queued' = {last'} /\ Queued' \subseteq Queued \cup In(c)
  <2>1. InSlots(slots) = {} /\ \A i \in Indices : In(slots[i].tsps) = {} /\ Rising(slots[i].tsps)
    BY <1>1, NoSlotsAre DEF SlotsInOrder
  <2>2. InSlots(slots)' = {}
    BY <1>0, <2>1 DEF InSlots
  <2>3. SlotsInOrder(slots, rd, last)'
    <3>1. \A i \in Indices : In(slots'[i].tsps) = {} /\ Rising(slots'[i].tsps)
      BY <1>0, <2>1
    <3> QED
      BY <2>2, <3>1 DEF SlotsInOrder, Below
  <2> QED
    BY <1>7, <2>1, <2>2, <2>3 DEF Queued
<1>10. ~Copying'
  BY <1>0 DEF Copying, ThreadTypes
<1>11. \A k \in 2 .. Len(inbox) : Below(Queued', In(inbox[k]))
  <2> SUFFICES ASSUME NEW k \in 2 .. Len(inbox) PROVE Below(Queued', In(inbox[k]))
    OBVIOUS
  <2>1. k \in ToCopy /\ k \in DOMAIN inbox /\ 1 \in DOMAIN inbox /\ 1 < k
    BY <1>2, <1>4
  <2>2. Below(Queued, In(inbox[k])) /\ Below(In(c), In(inbox[k]))
    BY <2>1 DEF OrderInv, InboxOrder, AheadOrder, c
  <2> QED
    BY <1>9, <2>2 DEF Below
<1>12. Below(Queued', {next})
  <2>1. Below(Queued, {next})
    BY DEF OrderInv, BufferOrder
  <2> QED
    BY <1>5, <1>9, <2>1 DEF Below
<1> QED
  BY <1>0, <1>8, <1>9, <1>10, <1>11, <1>12, PoppedOrder

\* The thread of a local stream is joined.
LEMMA ThreadJoinedOrder == VideoInv /\ OrderInv /\ ThreadJoined => OrderInv'
<1> SUFFICES ASSUME VideoInv, OrderInv, ThreadJoined PROVE OrderInv'
  OBVIOUS
<1>0. /\ UNCHANGED <<side, next, thread, ordered, last, slots, rd>> /\ ~Copying /\ ~Copying' /\ thread.pc = "off"
      /\ inbox' = inbox \/ inbox' = <<>>
  BY DEF ThreadJoined, buffer, output, Copying
<1>1. CASE inbox' = inbox
  BY <1>0, <1>1, ThreadMoves
<1>2. CASE inbox' = <<>>
  <2>1. DOMAIN inbox' = {} /\ Len(inbox') = 0
    BY <1>2
  <2>2. SlotsInOrder(slots, rd, last)' /\ Queued' = Queued
    BY <1>0, SameQueued
  <2>3. ToCopy' = {}
    BY <1>0, <2>1 DEF ToCopy
  <2>4. InboxOrder'
    BY <2>1 DEF InboxOrder
  <2>5. BufferOrder'
    BY <1>0, <2>2 DEF OrderInv, BufferOrder
  <2>6. TodoOrder' /\ AheadOrder'
    BY <1>0, <2>3 DEF TodoOrder, AheadOrder
  <2> QED
    BY <2>4, <2>5, <2>6 DEF OrderInv
<1> QED
  BY <1>0, <1>1, <1>2

\* The worker takes the oldest packet.
LEMMA TakePacketOrder == VideoInv /\ OrderInv /\ TakePacket => OrderInv'
<1> SUFFICES ASSUME VideoInv, OrderInv, TakePacket PROVE OrderInv'
  OBVIOUS
<1>0. UNCHANGED <<side, inbox, next, thread>>
  BY DEF TakePacket
<1>1. CASE UNCHANGED <<slots, rd, output>>
  <2>1. SlotsInOrder(slots, rd, last)' /\ Queued' = Queued /\ ordered' = ordered
    BY <1>1, SameQueued DEF output
  <2> QED
    BY <1>0, <2>1, SameThread
<1>2. CASE Level(rd, wr) > 0 /\ slots' = TakeSlot(slots, rd) /\ rd' = After(rd) /\ GoesOut(slots[rd].tsps)
  <2> DEFINE c == slots[rd].tsps
             m == IF c = <<>> THEN last ELSE c[Len(c)]
             t == TakeSlot(slots, rd)
  <2>1. slots \in Slots /\ rd \in Indices /\ wr \in Indices /\ RingOK(slots, rd, wr) /\ last \in Nat
    BY DEF VideoInv, VideoTypes, BufferTypes, FlowTypes, BufferInv
  <2>2. SlotsInOrder(slots, rd, last) /\ ordered = TRUE
    BY DEF OrderInv, BufferOrder
  <2>3. /\ SlotsInOrder(t, After(rd), m) /\ InSlots(t) \subseteq InSlots(slots) /\ m \in {last} \cup InSlots(slots)
        /\ \A i \in DOMAIN c : c[i] > IF i = 1 THEN last ELSE c[i - 1]
    BY <1>2, <2>1, <2>2, TakenOrder
  <2>4. last' = m /\ ordered' = TRUE
    <3>1. ordered' = (ordered /\ \A i \in DOMAIN c : c[i] > IF i = 1 THEN last ELSE c[i - 1])
      BY <1>2, Zenon DEF GoesOut
    <3>2. last' = m
      BY <1>2, Zenon DEF GoesOut
    <3> QED
      BY <2>2, <2>3, <3>1, <3>2, Zenon
  <2>5. slots' = t /\ rd' = After(rd)
    BY <1>2
  <2> HIDE DEF c, m, t
  <2>6. SlotsInOrder(slots, rd, last)'
    BY <2>3, <2>4, <2>5 DEF SlotsInOrder, InSlots, Spot
  <2>7. Queued' \subseteq Queued
    <3>1. InSlots(slots)' = InSlots(t)
      BY <2>5 DEF InSlots
    <3> QED
      BY <2>3, <2>4, <3>1 DEF Queued
  <2> QED
    BY <1>0, <2>2, <2>4, <2>6, <2>7, SameThread
<1> QED
  BY <1>1, <1>2, FillIs, Zenon DEF TakePacket, TakeSlot

\* The buffer is emptied, or not.
LEMMA EmptyOrder ==
  ASSUME VideoInv, OrderInv, UNCHANGED <<side, inbox, next, thread, output>>, Reset \/ UNCHANGED <<slots, rd>>
  PROVE  OrderInv'
<1>1. SlotsInOrder(slots, rd, last)' /\ Queued' \subseteq Queued
  <2>1. CASE UNCHANGED <<slots, rd>>
    BY <2>1, SameQueued DEF output
  <2>2. CASE Reset
    <3>1. slots' = NoSlots /\ rd' = 0
      BY <2>2 DEF Reset, NoSlots, VideoInv, VideoTypes, BufferTypes, Slots
    <3>2. InSlots(NoSlots) = {} /\ SlotsInOrder(NoSlots, 0, last)
      BY NoSlotsAre
    <3>3. last' = last
      BY DEF output
    <3>4. SlotsInOrder(slots, rd, last)'
      BY <3>1, <3>2, <3>3 DEF SlotsInOrder, InSlots, Spot
    <3>5. InSlots(slots)' = {}
      BY <3>1, <3>2 DEF InSlots
    <3> QED
      BY <3>3, <3>4, <3>5 DEF Queued
  <2> QED
    BY <2>1, <2>2
<1> QED
  BY <1>1, SameThread DEF output

\* Every step keeps the order.
LEMMA OrderNextStep == VideoInv /\ OrderInv /\ [VideoNext]_videoVars /\ ~Sph /\ "cancel" \in Assume => OrderInv'
<1> SUFFICES ASSUME VideoInv, OrderInv, [VideoNext]_videoVars, ~Sph, "cancel" \in Assume PROVE OrderInv'
  OBVIOUS
<1>0. thread \in ThreadTypes
  BY DEF VideoInv, VideoTypes, FlowTypes
<1>1. CASE ThreadStarts
  BY <1>0, <1>1, ThreadMoves DEF ThreadStarts, buffer, output, Copying, ThreadTypes
<1>2. CASE ThreadWaits
  <2>1. thread'.pc \in {"off", "access"} /\ (thread'.pc = "access" => Len(inbox) # RingSize)
    BY <1>0, <1>2 DEF ThreadWaits, ThreadTypes, InboxLevel
  <2>2. thread.pc = "wait" /\ UNCHANGED <<side, inbox, next, ordered, last, slots, rd>>
    BY <1>2 DEF ThreadWaits, buffer, output
  <2> QED
    BY <2>1, <2>2, ThreadMoves DEF Copying
<1>3. CASE CreateLocal \/ CreateReceiver
  <2>1. ~exists /\ thread'.pc \in {"start", "wait"} /\ UNCHANGED <<side, inbox, next, ordered, last, slots, rd>>
    BY <1>0, <1>3 DEF CreateLocal, CreateReceiver, buffer, output, ThreadTypes
  <2>2. thread.pc = "off"
    BY <2>1 DEF VideoInv, ThreadInv
  <2> QED
    BY <2>1, <2>2, ThreadMoves DEF Copying
<1>4. CASE StopThread \/ AddAsReader \/ DestroyReceiver
  <2>1. UNCHANGED <<side, inbox, next, ordered, last, slots, rd>>
    BY <1>4 DEF StopThread, AddAsReader, DestroyReceiver, buffer, output
  <2>2. thread'.pc = thread.pc /\ thread'.grant = thread.grant /\ thread'.todo = thread.todo
    BY <1>0, <1>4 DEF StopThread, AddAsReader, DestroyReceiver, ThreadTypes
  <2> QED
    BY <2>1, <2>2, SameThread, SameQueued
<1>5. CASE ReceiverJoined \/ ClearCallbacks \/ PreparePacket \/ ReturnPacket \/ CreateAvb \/ DisconnectTakesPool \/ Remove
           \/ DeletePool \/ SetCallback \/ UNCHANGED videoVars
  <2>1. UNCHANGED <<side, inbox, next, thread, output, slots, rd>>
    <3>1. CASE ReceiverJoined \/ ClearCallbacks \/ PreparePacket \/ ReturnPacket \/ CreateAvb
      BY <3>1 DEF ReceiverJoined, ClearCallbacks, PreparePacket, ReturnPacket, CreateAvb, buffer, output
    <3>2. CASE DisconnectTakesPool \/ Remove \/ DeletePool \/ SetCallback \/ UNCHANGED videoVars
      BY <3>2 DEF DisconnectTakesPool, Remove, DeletePool, SetCallback, buffer, output, videoVars
    <3> QED
      BY <1>5, <3>1, <3>2
  <2> QED
    BY <2>1, EmptyOrder
<1>6. CASE ActivationChanged \/ Connect \/ DisconnectResets
  BY <1>6, EmptyOrder DEF ActivationChanged, Connect, DisconnectResets
<1> QED
  BY <1>1, <1>2, <1>3, <1>4, <1>5, <1>6, SendPacketOrder, ThreadReadsOrder, ThreadChecksOrder, ThreadWritesOrder, ThreadEndsOrder,
     ReceiverReadsOrder, CallbackEndsOrder, ThreadJoinedOrder, TakePacketOrder, Zenon DEF VideoNext, Thread, Control

\* Contents that come without source packet headers go out in the order in which they were
\* handed over, and none of them twice.
THEOREM ContentsGoOutInOrder == Careful /\ "cancel" \in Assume /\ ~Sph => (VideoSpec => []InOrder)
<1> SUFFICES ASSUME Careful, "cancel" \in Assume, ~Sph PROVE VideoSpec => []InOrder
  OBVIOUS
<1>1. VideoInit => VideoInv /\ OrderInv
  <2> SUFFICES ASSUME VideoInit PROVE VideoInv /\ OrderInv
    OBVIOUS
  <2>1. VideoInv
    BY VideoInitStep
  <2>2. /\ slots = NoSlots /\ rd = 0 /\ last = 0 /\ next = 1 /\ inbox = <<>> /\ ordered = TRUE /\ thread.pc = "off"
        /\ Len(inbox) = 0 /\ DOMAIN inbox = {}
    BY DEF VideoInit, NoSlots, Indices
  <2>3. InSlots(slots) = {} /\ SlotsInOrder(slots, rd, last)
    BY <2>2, NoSlotsAre
  <2>4. Queued = {0}
    BY <2>2, <2>3 DEF Queued
  <2>5. BufferOrder
    BY <2>2, <2>3, <2>4 DEF BufferOrder, Below
  <2>6. ~Copying /\ ToCopy = {}
    BY <2>2 DEF Copying, ToCopy
  <2> QED
    BY <2>1, <2>2, <2>5, <2>6 DEF OrderInv, InboxOrder, TodoOrder, AheadOrder
<1>2. (VideoInv /\ OrderInv) /\ [VideoNext]_videoVars => (VideoInv /\ OrderInv)'
  BY VideoNextStep, OrderNextStep
<1>3. VideoInv /\ OrderInv => InOrder
  BY DEF OrderInv, BufferOrder, InOrder
<1> QED
  BY <1>1, <1>2, <1>3, PTL DEF VideoSpec
=============================================================================

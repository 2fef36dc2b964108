-------------------------- MODULE VideoRingBuffer --------------------------
(***************************************************************************)
(* The shared-memory video ring buffer (IasAvbVideoRingBufferShm): one     *)
(* writer process and several reader processes, each registered in the     *)
(* table mReaders, exchange packets through a ring of NumBuffers slots.    *)
(* The ring counts what the slowest reader has not read (mBufferLevel);    *)
(* every reader has an offset of its own that runs from 0 to NumBuffers    *)
(* and is put back to 0 only when all registered readers are at the end.   *)
(*                                                                         *)
(* A step is one stretch of code whose shared accesses nobody can observe  *)
(* half done: beginAccess of the writer loads mBufferLevel and mReadOffset *)
(* without a lock, so it takes two steps; endAccess of a reader takes two  *)
(* locks one after the other and takes five.                               *)
(*                                                                         *)
(* Abstracted: slots of mReaders (a reader is found by its pid, so the     *)
(* table is a set of pids with functions), the packets' bytes, the time    *)
(* (lastAccess becomes the number of ticks a reader has been silent), the  *)
(* waits on mCondRead and mCondWrite (every wait has a timeout after which *)
(* its predicate is evaluated again, so a wait never changes what is       *)
(* possible).                                                              *)
(***************************************************************************)
EXTENDS Integers, FiniteSets

CONSTANTS
  NumBuffers,   \* mNumBuffers
  Readers,      \* pids of the reader processes
  MaxReaders,   \* cIasVideoRingBufferShmMaxReaders
  ReadSizes,    \* numBuffers a reader asks for
  WriteSizes,   \* numBuffers the writer asks for (0: pushNull)
  Word,         \* 2^32, the range of uint32_t
  Timeout,      \* READER_TIMEOUT_NS, in ticks
  SerialEnds    \* TRUE: see Undisturbed

ASSUME RingConstants ==
  /\ NumBuffers \in Nat \ {0}
  /\ MaxReaders \in Nat
  /\ ReadSizes \subseteq Nat
  /\ WriteSizes \subseteq Nat
  /\ Word \in Nat /\ Word > 2 * NumBuffers + 1
  /\ \A n \in ReadSizes \union WriteSizes : n + NumBuffers < Word
  /\ Timeout \in Nat
  /\ SerialEnds \in BOOLEAN

VARIABLES
  mReadOffset,     \* offset of the slowest reader, as last aggregated
  mWriteOffset,    \* slot the writer fills next
  mBufferLevel,    \* packets the slowest reader has not read
  mAllowedToWrite, \* packets granted by the writer's beginAccess
  readers,         \* pids in mReaders
  offset,          \* mReaders[].offset
  allowedToRead,   \* mReaders[].allowedToRead
  silence,         \* ticks since mReaders[].lastAccess
  writerPc,        \* mWriteInProgress and how far beginAccess is
  writerLevel,     \* beginAccess' local bufferLevel
  readerPc,        \* where each reader process is
  granted,         \* *offset and *numBuffers a reader got
  local,           \* a reader's register in endAccess: the offset it will
                   \* store, then the smallerOffset it aggregates
  nextSlot,        \* ghost: the slot of the oldest packet a reader has not read
  pending          \* ghost: how many packets a reader has not read

ringVars == <<mReadOffset, mWriteOffset, mBufferLevel>>
tableVars == <<readers, offset, allowedToRead, silence>>
writerVars == <<mAllowedToWrite, writerPc, writerLevel>>
readerVars == <<readerPc, granted, local>>
ghostVars == <<nextSlot, pending>>
vars == <<ringVars, tableVars, writerVars, readerVars, ghostVars>>

----------------------------------------------------------------------------
(* uint32_t arithmetic and the small computations of the class *)

\* a - b on uint32_t
Sub(a, b) == IF a >= b THEN a - b ELSE Word + a - b

\* a + b on uint32_t
Add(a, b) == IF a + b >= Word THEN a + b - Word ELSE a + b

UINT32_MAX == Word - 1

Least(a, b) == IF a <= b THEN a ELSE b

\* mutant of ReaderLevel: a writer that has wrapped around looks like an empty ring
ReaderLevelUnwrapped(o) == IF mWriteOffset >= o THEN mWriteOffset - o ELSE 0

\* calculateReaderBufferLevel: what a reader at offset o sees
ReaderLevel(o) ==
  IF mWriteOffset >= o THEN mWriteOffset - o
                       ELSE NumBuffers - o + mWriteOffset

\* mutant of ReadGrant: the request is not cut down to the reader's level
ReadGrantUncut(o, n) == IF o + n >= NumBuffers THEN NumBuffers - o ELSE n

\* beginAccess(read): packets granted to a reader at offset o that asks for n
ReadGrant(o, n) ==
  LET m == Least(n, ReaderLevel(o))
  IN  IF o + m >= NumBuffers THEN NumBuffers - o ELSE m

\* mutant of WriteGrant: the request is not cut down to the free space
WriteGrantUncut(level, n) ==
  LET k == IF mWriteOffset + n >= NumBuffers THEN NumBuffers - mWriteOffset ELSE n
  IN  IF mWriteOffset < mReadOffset THEN mReadOffset - mWriteOffset - 1 ELSE k

\* beginAccess(write): packets granted when level was loaded from mBufferLevel
WriteGrant(level, n) ==
  LET m == Least(n, Sub(NumBuffers, level))
      k == IF mWriteOffset + m >= NumBuffers THEN NumBuffers - mWriteOffset ELSE m
  IN  IF mWriteOffset < mReadOffset THEN mReadOffset - mWriteOffset - 1 ELSE k

\* the loop of updateSmallerReaderOffset over the registered readers
SmallerOffset ==
  IF readers = {} THEN UINT32_MAX
  ELSE CHOOSE o \in {offset[p] : p \in readers} : \A p \in readers : o <= offset[p]

\* packets in the ring that a reader registered now is going to get
Backlog == IF mBufferLevel = NumBuffers THEN NumBuffers ELSE ReaderLevel(mReadOffset)

Ahead(slot, n) == IF slot + n >= NumBuffers THEN slot + n - NumBuffers ELSE slot + n

----------------------------------------------------------------------------
(* Scheduling *)

EndPcs == {"store", "smaller", "level", "readOffset"}

\* The assumption SerialEnds names: while one reader is inside endAccess no
\* other reader enters endAccess, addReader or removeReader, and the reader
\* itself is neither purged nor dies there.
Undisturbed(p) == SerialEnds => \A q \in Readers \ {p} : readerPc[q] \notin EndPcs

NoPurgeInside ==
  SerialEnds => \A p \in readers : readerPc[p] \in EndPcs => silence[p] <= Timeout

\* mMutex, held by a reader between the two updates of aggregateReaderOffset
MutexFree == \A p \in Readers : readerPc[p] # "readOffset"

\* a local variable that is out of scope
NoGrant == [offset |-> 0, num |-> 0]

Init ==
  /\ mReadOffset = 0 /\ mWriteOffset = 0 /\ mBufferLevel = 0
  /\ readers = {}
  /\ offset = [p \in Readers |-> 0]
  /\ allowedToRead = [p \in Readers |-> 0]
  /\ silence = [p \in Readers |-> 0]
  /\ mAllowedToWrite = 0 /\ writerPc = "idle" /\ writerLevel = 0
  /\ readerPc = [p \in Readers |-> "idle"]
  /\ granted = [p \in Readers |-> NoGrant]
  /\ local = [p \in Readers |-> 0]
  /\ nextSlot = [p \in Readers |-> 0]
  /\ pending = [p \in Readers |-> 0]

----------------------------------------------------------------------------
(* Readers *)

\* addReader of a pid that is not in the table, while the table has room
AddReader(p) ==
  /\ readerPc[p] = "idle" /\ p \notin readers /\ Undisturbed(p)
  /\ Cardinality(readers) < MaxReaders
  /\ readers' = readers \union {p}
  /\ offset' = [offset EXCEPT ![p] = mReadOffset]
  /\ silence' = [silence EXCEPT ![p] = 0]
  /\ nextSlot' = [nextSlot EXCEPT ![p] = mReadOffset]
  /\ pending' = [pending EXCEPT ![p] = Backlog]
  /\ UNCHANGED <<ringVars, allowedToRead, writerVars, readerVars>>

\* the entries of the readers in S are zeroed (removeReader, the purge)
Unregister(S) ==
  /\ readers' = readers \ S
  /\ offset' = [p \in Readers |-> IF p \in S THEN 0 ELSE offset[p]]
  /\ allowedToRead' = [p \in Readers |-> IF p \in S THEN 0 ELSE allowedToRead[p]]
  /\ silence' = [p \in Readers |-> IF p \in S THEN 0 ELSE silence[p]]

RemoveReader(p) ==
  /\ readerPc[p] = "idle" /\ p \in readers /\ Undisturbed(p)
  /\ Unregister({p})
  /\ nextSlot' = [nextSlot EXCEPT ![p] = 0]
  /\ pending' = [pending EXCEPT ![p] = 0]
  /\ UNCHANGED <<ringVars, writerVars, readerVars>>

\* waitRead that returns eIasRingBuffTimeOut: only lastAccess has changed
WaitReadTimeout(p) ==
  /\ readerPc[p] = "idle" /\ p \in readers
  /\ ReaderLevel(offset[p]) < 1
  /\ silence' = [silence EXCEPT ![p] = 0]
  /\ UNCHANGED <<ringVars, readers, offset, allowedToRead, writerVars, readerVars, ghostVars>>

\* waitRead that returns eIasRingBuffOk, then beginAccess(read) for n packets
BeginRead(p, n) ==
  /\ readerPc[p] = "idle" /\ p \in readers
  /\ ReaderLevel(offset[p]) >= 1
  /\ LET m == ReadGrant(offset[p], n)
     IN  /\ granted' = [granted EXCEPT ![p] = [offset |-> offset[p], num |-> m]]
         /\ allowedToRead' = [allowedToRead EXCEPT ![p] = m]
  /\ silence' = [silence EXCEPT ![p] = 0]
  /\ readerPc' = [readerPc EXCEPT ![p] = "reading"]
  /\ UNCHANGED <<ringVars, readers, offset, writerVars, local, ghostVars>>

\* endAccess(read) that fails: the reader was purged while it was reading
EndReadRejected(p) ==
  /\ readerPc[p] = "reading"
  /\ p \notin readers \/ granted[p].num > allowedToRead[p]
  /\ readerPc' = [readerPc EXCEPT ![p] = "idle"]
  /\ granted' = [granted EXCEPT ![p] = NoGrant]
  /\ UNCHANGED <<ringVars, tableVars, writerVars, local, ghostVars>>

\* endAccess(read), as far as the load of reader->offset += numBuffers: the
\* client is done with what it was granted
EndRead(p) ==
  /\ readerPc[p] = "reading" /\ Undisturbed(p)
  /\ p \in readers /\ granted[p].num <= allowedToRead[p]
  /\ allowedToRead' = [allowedToRead EXCEPT ![p] = 0]
  /\ local' = [local EXCEPT ![p] = offset[p] + granted[p].num]
  /\ readerPc' = [readerPc EXCEPT ![p] = "store"]
  /\ nextSlot' = [nextSlot EXCEPT ![p] = Ahead(@, granted[p].num)]
  /\ pending' = [pending EXCEPT ![p] = @ - granted[p].num]
  /\ granted' = [granted EXCEPT ![p] = NoGrant]
  /\ UNCHANGED <<ringVars, readers, offset, silence, writerVars>>

\* the store of reader->offset += numBuffers
StoreOffset(p) ==
  /\ readerPc[p] = "store"
  /\ offset' = [offset EXCEPT ![p] = local[p]]
  /\ readerPc' = [readerPc EXCEPT ![p] = "smaller"]
  /\ UNCHANGED <<ringVars, readers, allowedToRead, silence, writerVars, granted, local, ghostVars>>

\* updateSmallerReaderOffset, under mMutexReaders
UpdateSmallerReaderOffset(p) ==
  /\ readerPc[p] = "smaller"
  /\ local' = [local EXCEPT ![p] = SmallerOffset]
  /\ offset' = [q \in Readers |->
                  IF q \in readers /\ SmallerOffset = NumBuffers THEN 0 ELSE offset[q]]
  /\ readerPc' = [readerPc EXCEPT ![p] = "level"]
  /\ UNCHANGED <<ringVars, readers, allowedToRead, silence, writerVars, granted, ghostVars>>

\* aggregateReaderOffset takes mMutex and lowers mBufferLevel ...
AggregateLevel(p) ==
  /\ readerPc[p] = "level" /\ MutexFree
  /\ mBufferLevel' = Sub(mBufferLevel, Sub(local[p], mReadOffset))
  /\ readerPc' = [readerPc EXCEPT ![p] = "readOffset"]
  /\ UNCHANGED <<mReadOffset, mWriteOffset, tableVars, writerVars, granted, local, ghostVars>>

\* ... and moves mReadOffset; endAccess then notes the access
AggregateReadOffset(p) ==
  /\ readerPc[p] = "readOffset"
  /\ mReadOffset' = IF local[p] = NumBuffers THEN 0
                    ELSE IF local[p] < NumBuffers THEN local[p] ELSE mReadOffset
  /\ silence' = [silence EXCEPT ![p] = 0]
  /\ readerPc' = [readerPc EXCEPT ![p] = "idle"]
  /\ local' = [local EXCEPT ![p] = 0]
  /\ UNCHANGED <<mWriteOffset, mBufferLevel, readers, offset, allowedToRead,
                 writerVars, granted, ghostVars>>

\* a reader process dies; its entry stays until the writer purges it
Crash(p) ==
  /\ readerPc[p] \in {"idle", "reading"} \union (IF SerialEnds THEN {} ELSE {"store", "smaller", "level"})
  /\ readerPc' = [readerPc EXCEPT ![p] = "dead"]
  /\ granted' = [granted EXCEPT ![p] = NoGrant]
  /\ local' = [local EXCEPT ![p] = 0]
  /\ UNCHANGED <<ringVars, tableVars, writerVars, ghostVars>>

\* a new process takes the place of a dead one that has been purged
Restart(p) ==
  /\ readerPc[p] = "dead" /\ p \notin readers
  /\ readerPc' = [readerPc EXCEPT ![p] = "idle"]
  /\ UNCHANGED <<ringVars, tableVars, writerVars, granted, local, ghostVars>>

----------------------------------------------------------------------------
(* The writer *)

\* beginAccess(write): mWriteInProgress is set and mBufferLevel loaded
BeginWrite ==
  /\ writerPc = "idle"
  /\ writerPc' = "loaded"
  /\ writerLevel' = mBufferLevel
  /\ UNCHANGED <<ringVars, tableVars, mAllowedToWrite, readerVars, ghostVars>>

\* ... and, with the mReadOffset of this moment, the grant is computed
GrantWrite(n) ==
  /\ writerPc = "loaded"
  /\ mAllowedToWrite' = WriteGrant(writerLevel, n)
  /\ writerPc' = "writing"
  /\ writerLevel' = 0
  /\ UNCHANGED <<ringVars, tableVars, readerVars, ghostVars>>

\* mutant of Unresponsive: nothing is purged when nothing was granted
UnresponsiveIfGranted == {p \in readers : mAllowedToWrite > 0 /\ silence[p] > Timeout}

\* the readers purgeUnresponsiveReaders drops
Unresponsive == {p \in readers : silence[p] > Timeout}

\* endAccess(write) for n packets under mMutex, the purge included
EndWrite(n) ==
  /\ writerPc = "writing" /\ MutexFree /\ NoPurgeInside
  /\ n <= mAllowedToWrite
  /\ mAllowedToWrite' = 0
  /\ mWriteOffset + n <= NumBuffers
  /\ mWriteOffset' = IF mWriteOffset + n = NumBuffers THEN 0 ELSE mWriteOffset + n
  /\ mBufferLevel' = Add(mBufferLevel, n)
  /\ writerPc' = "idle"
  /\ Unregister(Unresponsive)
  /\ nextSlot' = [p \in Readers |-> IF p \in Unresponsive THEN 0 ELSE nextSlot[p]]
  /\ pending' = [p \in Readers |-> IF p \in Unresponsive THEN 0
                                  ELSE IF p \in readers THEN pending[p] + n ELSE pending[p]]
  /\ UNCHANGED <<mReadOffset, writerLevel, readerVars>>

\* time passes
Tick ==
  /\ silence' = [p \in Readers |->
                   IF p \in readers /\ silence[p] <= Timeout THEN silence[p] + 1 ELSE silence[p]]
  /\ UNCHANGED <<ringVars, readers, offset, allowedToRead, writerVars, readerVars, ghostVars>>

----------------------------------------------------------------------------
ReaderStep(p) ==
  \/ WaitReadTimeout(p)
  \/ \E n \in ReadSizes : BeginRead(p, n)
  \/ EndReadRejected(p) \/ EndRead(p) \/ StoreOffset(p) \/ UpdateSmallerReaderOffset(p)
  \/ AggregateLevel(p) \/ AggregateReadOffset(p)

Membership(p) == AddReader(p) \/ RemoveReader(p) \/ Crash(p) \/ Restart(p)

WriterStep ==
  \/ BeginWrite
  \/ \E n \in WriteSizes : GrantWrite(n)
  \/ \E n \in 0..NumBuffers : EndWrite(n)

Next ==
  \/ \E p \in Readers : ReaderStep(p) \/ Membership(p)
  \/ WriterStep
  \/ Tick

Spec == Init /\ [][Next]_vars

\* Every reader thread keeps calling and the writer process keeps pushing
\* (a packet or pushNull), time passes; nothing obliges a reader to register, leave or die.
\* EndRead is strongly fair because the code lets a reader enter endAccess
\* at any time (only SerialEnds makes it wait for other readers), EndWrite
\* because mMutex does not starve the writer.
Fairness ==
  /\ \A p \in Readers : WF_vars(ReaderStep(p)) /\ SF_vars(EndRead(p))
  /\ WF_vars(WriterStep) /\ SF_vars(\E n \in 0..NumBuffers : EndWrite(n))
  /\ WF_vars(Tick)

FairSpec == Spec /\ Fairness

----------------------------------------------------------------------------
(* Properties *)

\* The shape of the state: the offsets of the ring are slots of it, and
\* mBufferLevel, an unsigned difference of offsets, never wraps around.
TypeOK ==
  /\ mReadOffset \in 0..(NumBuffers - 1) /\ mWriteOffset \in 0..(NumBuffers - 1)
  /\ mBufferLevel \in 0..NumBuffers
  /\ mAllowedToWrite \in Int
  /\ readers \subseteq Readers
  /\ offset \in [Readers -> Int]
  /\ allowedToRead \in [Readers -> Int]
  /\ silence \in [Readers -> 0..(Timeout + 1)]
  /\ writerPc \in {"idle", "loaded", "writing"}
  /\ writerLevel \in Int
  /\ readerPc \in [Readers -> {"idle", "reading", "dead"} \union EndPcs]
  /\ granted \in [Readers -> [offset : Int, num : Int]]
  /\ local \in [Readers -> Int]
  /\ nextSlot \in [Readers -> Int]
  /\ pending \in [Readers -> Int]

\* beginAccess(write) never grants a slot that holds a packet some registered
\* reader has not finished reading: the packets pending for a reader and those
\* granted to the writer fit the ring together.
NoOverwrite ==
  writerPc = "writing" =>
    \A p \in readers : pending[p] + mAllowedToWrite <= NumBuffers

\* beginAccess(read) grants packets that were written and not yet read by this
\* reader, and the oldest of them first: nothing is skipped or read twice.
InOrderDelivery ==
  \A p \in readers :
    readerPc[p] = "reading" /\ granted[p].num > 0 =>
      /\ granted[p].offset = nextSlot[p]
      /\ granted[p].num <= pending[p]

\* "mBufferLevel has the overall buffer level, relative to the slowest reader":
\* it never falls below what any registered reader has still to read, and never
\* leaves the range of the ring.
LevelCoversSlowest ==
  /\ mBufferLevel <= NumBuffers
  /\ \A p \in readers : pending[p] <= mBufferLevel

\* "readers processes will only make it smaller": only the writer's endAccess
\* raises mBufferLevel, which is what lets beginAccess(write) use a value it
\* loaded earlier.
ReadersOnlyLowerLevel == [][mBufferLevel' > mBufferLevel => writerPc # writerPc']_vars

\* equal offsets that stand for a full ring: readers take it for an empty one
FullRing == mReadOffset = mWriteOffset /\ mBufferLevel = NumBuffers

Waiting(p, s) == p \in readers /\ pending[p] > 0 /\ nextSlot[p] = s

\* "not a problem, as we'll eventually catch up": a reader with unread packets
\* gets to read the next one, or leaves (removed, purged, dead), as long as
\* readers do not keep registering for ever (each one
\* starts at mReadOffset and holds back the readers at the end of the ring),
\* unless the writer has filled the whole ring: that state is the only one in
\* which readers stop making progress.
CatchUpUnlessFull ==
  <>[][\A q \in Readers : ~AddReader(q)]_vars =>
    \A p \in Readers : \A s \in 0..(NumBuffers - 1) :
      Waiting(p, s) ~> (~Waiting(p, s) \/ readerPc[p] = "dead" \/ FullRing)

\* A reader that died, wherever it was, is dropped from the table by the
\* purge in the writer's endAccess, however full the ring is.
DeadReaderPurged ==
  \A p \in Readers : readerPc[p] = "dead" ~> p \notin readers
============================================================================

-------------------------- MODULE LocalAudioProofs --------------------------
(***************************************************************************)
(* The local audio buffer is a bounded FIFO, for every size of the ring,   *)
(* every block and request and every level a reset asks for, as long as    *)
(* the layouts are uniform (LocalAudioBuffer).                             *)
(*                                                                         *)
(* The channels of a local audio stream with time-aware buffers stay       *)
(* aligned and its descriptors exact, for every number of channels, size   *)
(* of packets, periods and rings and every bound of the model, under what  *)
(* AlsaStream assumes of the environment (AlsaStream).                     *)
(***************************************************************************)
EXTENDS LocalAudioBuffer, AlsaStream, SequenceTheorems, WellFoundedInduction, TLAPS

(***************************************************************************)
(* The local audio buffer                                                  *)
(***************************************************************************)

\* where the indices may stand: an index at the end of the ring was left there by a block
\* copy, and a writer at the end never has a reader at the beginning
IndexInv ==
  /\ layout \in UniformLayouts
  /\ mReadIndex \in 0..TotalSize /\ mWriteIndex \in 0..TotalSize
  /\ "strided" \in layout.write => mWriteIndex < TotalSize
  /\ "strided" \in layout.read => mReadIndex < TotalSize
  /\ mWriteIndex = TotalSize => mReadIndex # 0

\* the inductive invariant: indices, contents and counters
IInv ==
  /\ IndexInv
  /\ layout \in Layouts
  /\ mBuffer \in [Cells -> Sample]
  /\ mReferenceFill \in 0..(TotalSize - 1)
  /\ mReadReady \in BOOLEAN
  /\ mReadThreshold \in 0..TotalSize
  /\ ahead \in Int
  /\ resetLevel \in Levels
  /\ delivered \in Seq(Sample)
  /\ CountersMatchFill
  /\ ReadyInTime

\* the fill level without the arithmetic of uint32_t
IndexDistance(write, read) == IF write >= read THEN write - read ELSE write - read + TotalSize

-----------------------------------------------------------------------------
(* The arithmetic of the indices. *)

\* the assumptions on the two sizes
LEMMA Sizes == TotalSize \in Nat \ {0} /\ Word \in Nat /\ 2 * TotalSize < Word
BY AudioBufferConstants

\* the remainder of a number within one Word of 0
LEMMA Remainder ==
  ASSUME NEW x \in Int, -Word <= x, x < Word
  PROVE  x % Word = IF x >= 0 THEN x ELSE x + Word
<1>1. CASE x >= 0
  BY <1>1, Sizes
<1>2. CASE x < 0
  BY <1>2, Sizes
<1> QED
  BY <1>1, <1>2

\* a difference of indices that is brought back into the ring
LEMMA WrappedValue ==
  ASSUME NEW d \in Int, -TotalSize <= d, d <= TotalSize
  PROVE  Wrapped(d) = IF d >= 0 THEN d ELSE d + TotalSize
<1>1. d % Word = IF d >= 0 THEN d ELSE d + Word
  <2>1. -Word <= d /\ d < Word
    BY Sizes
  <2> QED
    BY <2>1, Remainder
<1>2. CASE d >= 0
  BY <1>1, <1>2, Sizes DEF Wrapped
<1>3. CASE d < 0
  <2>1. (d + Word + TotalSize) % Word = d + TotalSize
    BY <1>3, Sizes
  <2>2. d % Word = d + Word /\ d + Word > TotalSize
    BY <1>1, <1>3, Sizes
  <2> QED
    BY <2>1, <2>2, <1>3, Sizes DEF Wrapped
<1> QED
  BY <1>2, <1>3

\* getFillLevel() is the distance of the indices and less than mTotalSize
LEMMA FillValue ==
  ASSUME NEW w \in 0..TotalSize, NEW r \in 0..TotalSize, w = TotalSize => r # 0
  PROVE  Fill(w, r) = IndexDistance(w, r) /\ Fill(w, r) \in 0..(TotalSize - 1)
<1>1. w - r \in Int /\ -TotalSize <= w - r /\ w - r <= TotalSize
  BY Sizes
<1>2. Fill(w, r) = IF w - r >= 0 THEN w - r ELSE w - r + TotalSize
  BY <1>1, WrappedValue DEF Fill
<1> QED
  BY <1>2, Sizes DEF IndexDistance

\* the fill level in a state of the invariant, and the space write() finds
LEMMA FillNow ==
  ASSUME IndexInv
  PROVE  /\ FillLevel = IndexDistance(mWriteIndex, mReadIndex)
         /\ FillLevel \in 0..(TotalSize - 1)
         /\ Remaining = TotalSize - 1 - FillLevel
<1>1. /\ FillLevel = IndexDistance(mWriteIndex, mReadIndex)
      /\ FillLevel \in 0..(TotalSize - 1)
  BY FillValue DEF IndexInv, FillLevel
<1>2. /\ TotalSize - FillLevel - 1 \in Int
      /\ -Word <= TotalSize - FillLevel - 1 /\ TotalSize - FillLevel - 1 < Word
      /\ TotalSize - FillLevel - 1 >= 0
  BY <1>1, Sizes
<1>3. (TotalSize - FillLevel - 1) % Word = TotalSize - FillLevel - 1
  BY <1>2, Remainder
<1> QED
  BY <1>1, <1>3, Sizes DEF Remaining

\* the space before the end of the ring
LEMMA BeforeWrapValue ==
  ASSUME NEW index \in 0..TotalSize
  PROVE  BeforeWrap(index) = TotalSize - index
<1>1. /\ TotalSize - index \in Int /\ -Word <= TotalSize - index
      /\ TotalSize - index < Word /\ TotalSize - index >= 0
  BY Sizes
<1> QED
  BY <1>1, Remainder DEF BeforeWrap

\* the place of a sample, for both ways of copying
LEMMA PlaceValue ==
  ASSUME NEW copy \in Copies, NEW index \in 0..TotalSize, NEW i \in 0..TotalSize,
         copy = "strided" => index < TotalSize
  PROVE  Place(copy, index, i) = RingPlace(index + i)
BY BeforeWrapValue, Sizes DEF Place, RingPlace, Copies

\* the index after a copy: only a block copy ends at the end of the ring
LEMMA AfterValue ==
  ASSUME NEW copy \in Copies, NEW index \in 0..TotalSize, NEW n \in 0..(TotalSize - 1),
         copy = "strided" => index < TotalSize
  PROVE  /\ After(copy, index, n) = IF index + n = TotalSize /\ copy = "block"
                                      THEN TotalSize ELSE RingPlace(index + n)
         /\ After(copy, index, n) \in 0..TotalSize
         /\ copy = "strided" => After(copy, index, n) < TotalSize
<1>1. CASE copy = "block"
  BY <1>1, BeforeWrapValue, Sizes DEF After, RingPlace
<1>2. CASE copy = "strided"
  <2>1. After(copy, index, n) = RingPlace(index + n)
    BY <1>2, PlaceValue, Sizes DEF After
  <2> QED
    BY <1>2, <2>1, Sizes DEF RingPlace
<1> QED
  BY <1>1, <1>2 DEF Copies

-----------------------------------------------------------------------------
(* What each operation does to the indices and to the fill level. *)

\* write() keeps the indices in place and adds what it has accepted
LEMMA WriteIndices ==
  ASSUME IndexInv, NEW copy \in Copies, NEW data \in Blocks, Write(copy, data)
  PROVE  /\ IndexInv'
         /\ Least(Len(data), Remaining) \in 0..(TotalSize - 1 - FillLevel)
         /\ FillLevel' = FillLevel + Least(Len(data), Remaining)
         /\ FillLevel' = Fill(After(copy, mWriteIndex, Least(Len(data), Remaining)), mReadIndex)
         /\ FillLevel' \in 0..(TotalSize - 1)
<1> DEFINE n == Least(Len(data), Remaining)
<1>1. /\ FillLevel = IndexDistance(mWriteIndex, mReadIndex)
      /\ FillLevel \in 0..(TotalSize - 1) /\ Remaining = TotalSize - 1 - FillLevel
  BY FillNow
<1>2. Len(data) \in Nat
  BY AudioBufferConstants, LenProperties
<1>3. n \in 0..(TotalSize - 1 - FillLevel)
  BY <1>1, <1>2, Sizes DEF Least
<1>4. /\ copy \in layout.write /\ layout' = layout /\ mReadIndex' = mReadIndex
      /\ mWriteIndex' = After(copy, mWriteIndex, n)
  BY DEF Write
<1>5. /\ copy = "strided" => mWriteIndex < TotalSize
      /\ layout.write = {copy}
  BY <1>4 DEF IndexInv, UniformLayouts
<1>6. n \in 0..(TotalSize - 1) /\ mWriteIndex \in 0..TotalSize
  BY <1>1, <1>3, Sizes DEF IndexInv
<1> HIDE DEF n
<1>7. /\ mWriteIndex' = IF mWriteIndex + n = TotalSize /\ copy = "block"
                          THEN TotalSize ELSE RingPlace(mWriteIndex + n)
      /\ mWriteIndex' \in 0..TotalSize
      /\ copy = "strided" => mWriteIndex' < TotalSize
  BY <1>4, <1>5, <1>6, AfterValue
<1>8. mWriteIndex' = TotalSize => mReadIndex # 0
  BY <1>1, <1>3, <1>7, Sizes DEF IndexInv, IndexDistance, RingPlace
<1>9. IndexInv'
  BY <1>4, <1>5, <1>7, <1>8 DEF IndexInv
<1>10. FillLevel' = IndexDistance(mWriteIndex', mReadIndex') /\ FillLevel' \in 0..(TotalSize - 1)
  BY <1>9, FillValue DEF IndexInv, FillLevel
<1>11. IndexDistance(mWriteIndex', mReadIndex') = IndexDistance(mWriteIndex, mReadIndex) + n
  BY <1>1, <1>3, <1>4, <1>7, Sizes DEF IndexInv, IndexDistance, RingPlace
<1>12. FillLevel' = Fill(After(copy, mWriteIndex, n), mReadIndex)
  BY <1>4 DEF FillLevel
<1> QED
  BY <1>1, <1>3, <1>9, <1>10, <1>11, <1>12 DEF n

\* read() keeps the indices in place and takes what it has delivered
LEMMA ReadIndices ==
  ASSUME IndexInv, NEW copy \in Copies, NEW request \in Requests, NEW beyond \in Sample,
         Read(copy, request, beyond)
  PROVE  /\ IndexInv'
         /\ Least(request, FillLevel) \in 0..FillLevel
         /\ FillLevel' = FillLevel - Least(request, FillLevel)
         /\ copy = "strided" => mReadIndex < TotalSize
         /\ mReadIndex' = IF mReadIndex + Least(request, FillLevel) = TotalSize /\ copy = "block"
                            THEN TotalSize ELSE RingPlace(mReadIndex + Least(request, FillLevel))
<1> DEFINE n == Least(request, FillLevel)
<1>1. FillLevel = IndexDistance(mWriteIndex, mReadIndex) /\ FillLevel \in 0..(TotalSize - 1)
  BY FillNow
<1>2. n \in 0..FillLevel
  BY <1>1, AudioBufferConstants DEF Least
<1>3. /\ copy \in layout.read /\ layout' = layout /\ mWriteIndex' = mWriteIndex
      /\ mReadIndex' = After(copy, mReadIndex, n)
  BY DEF Read
<1>4. /\ copy = "strided" => mReadIndex < TotalSize
      /\ layout.read = {copy}
      /\ copy = "strided" => mWriteIndex < TotalSize
  BY <1>3 DEF IndexInv, UniformLayouts
<1>5. n \in 0..(TotalSize - 1) /\ mReadIndex \in 0..TotalSize
  BY <1>1, <1>2, Sizes DEF IndexInv
<1> HIDE DEF n
<1>6. /\ mReadIndex' = IF mReadIndex + n = TotalSize /\ copy = "block"
                         THEN TotalSize ELSE RingPlace(mReadIndex + n)
      /\ mReadIndex' \in 0..TotalSize
      /\ copy = "strided" => mReadIndex' < TotalSize
  BY <1>3, <1>4, <1>5, AfterValue
<1>7. mWriteIndex' = TotalSize => mReadIndex' # 0
  BY <1>1, <1>2, <1>3, <1>4, <1>6, Sizes DEF IndexInv, IndexDistance, RingPlace, Copies
<1>8. IndexInv'
  BY <1>3, <1>4, <1>6, <1>7 DEF IndexInv
<1>9. FillLevel' = IndexDistance(mWriteIndex', mReadIndex')
  BY <1>8, FillValue DEF IndexInv, FillLevel
<1>10. IndexDistance(mWriteIndex', mReadIndex') = IndexDistance(mWriteIndex, mReadIndex) - n
  BY <1>1, <1>2, <1>3, <1>4, <1>6, <1>8, Sizes DEF IndexInv, IndexDistance, RingPlace, Copies
<1> QED
  BY <1>1, <1>2, <1>4, <1>6, <1>8, <1>9, <1>10 DEF n

\* reset() leaves exactly the level it is asked for
LEMMA ResetIndices ==
  ASSUME IndexInv, NEW level \in Levels, ResetRing(level)
  PROVE  /\ IndexInv'
         /\ FillLevel' = level
         /\ mReadIndex' = IF mWriteIndex >= level THEN mWriteIndex - level
                                                  ELSE mWriteIndex - level + TotalSize
<1>1. level \in 0..(TotalSize - 1)
  BY AudioBufferConstants
<1>2. layout' = layout /\ mWriteIndex' = mWriteIndex /\ mReadIndex' = Wrapped(mWriteIndex - level)
  BY DEF ResetRing
<1>3. mReadIndex' = IF mWriteIndex >= level THEN mWriteIndex - level
                                            ELSE mWriteIndex - level + TotalSize
  <2>1. /\ mWriteIndex - level \in Int /\ -TotalSize <= mWriteIndex - level
        /\ mWriteIndex - level <= TotalSize
        /\ mWriteIndex - level >= 0 <=> mWriteIndex >= level
    BY <1>1, Sizes DEF IndexInv
  <2> QED
    BY <1>2, <2>1, WrappedValue
<1>4. IndexInv'
  BY <1>1, <1>2, <1>3, Sizes DEF IndexInv, UniformLayouts
<1>5. FillLevel' = IndexDistance(mWriteIndex', mReadIndex')
  BY <1>4, FillValue DEF IndexInv, FillLevel
<1> QED
  BY <1>1, <1>2, <1>3, <1>4, <1>5, Sizes DEF IndexInv, IndexDistance

-----------------------------------------------------------------------------
(* The samples in the ring. *)

\* a listing is a sequence of samples
LEMMA ListingIsSeq ==
  ASSUME NEW b \in [Cells -> Sample], NEW r \in 0..TotalSize, NEW f \in 0..(TotalSize - 1)
  PROVE  /\ Listing(b, r, f) \in Seq(Sample) /\ Len(Listing(b, r, f)) = f
         /\ \A i \in 1..f : /\ RingPlace(r + i - 1) \in Cells
                            /\ Listing(b, r, f)[i] = b[RingPlace(r + i - 1)]
<1>1. \A i \in 1..f : RingPlace(r + i - 1) \in Cells
  BY Sizes DEF RingPlace, Cells
<1>2. \A i \in 1..f : b[RingPlace(r + i - 1)] \in Sample
  BY <1>1
<1> QED
  BY <1>1, <1>2, Sizes DEF Listing

\* write() appends what it accepts
LEMMA WriteIsPut ==
  ASSUME IndexInv, mBuffer \in [Cells -> Sample],
         NEW copy \in Copies, NEW data \in Blocks, Write(copy, data)
  PROVE  mBuffer' \in [Cells -> Sample] /\ Fifo!Put(data)
<1> DEFINE n == Least(Len(data), Remaining)
           added == SubSeq(data, 1, n)
           At(i) == RingPlace(mReadIndex + i - 1)
<1>1. /\ FillLevel = IndexDistance(mWriteIndex, mReadIndex)
      /\ FillLevel \in 0..(TotalSize - 1) /\ Remaining = TotalSize - 1 - FillLevel
  BY FillNow
<1>2. data \in Seq(Sample) /\ Len(data) \in Nat
  BY AudioBufferConstants, LenProperties
<1>3. IndexInv' /\ n \in 0..(TotalSize - 1 - FillLevel) /\ FillLevel' = FillLevel + n
  BY WriteIndices
<1>4. n <= Len(data)
  BY <1>1, <1>2 DEF Least
<1>5. \A i \in 1..n : data[i] \in Sample
  BY <1>2, <1>3, <1>4, ElementOfSeq
<1>6. /\ mReadIndex' = mReadIndex /\ delivered' = delivered
      /\ mBuffer' = [x \in Cells |->
                       IF Inside(copy, mWriteIndex) /\ Number(mWriteIndex, x) < n
                         THEN data[Number(mWriteIndex, x) + 1] ELSE mBuffer[x]]
      /\ copy \in layout.write
  BY DEF Write
<1>7. Inside(copy, mWriteIndex)
  BY <1>6, Sizes DEF Inside, IndexInv, UniformLayouts, Copies
<1> HIDE DEF n
<1>8. \A x \in Cells : Number(mWriteIndex, x) \in Nat
  BY Sizes DEF Number, Cells, IndexInv
<1>9. mBuffer' \in [Cells -> Sample]
  BY <1>3, <1>5, <1>6, <1>8
<1>10. /\ Contents \in Seq(Sample) /\ Len(Contents) = FillLevel
       /\ \A i \in 1..FillLevel : At(i) \in Cells /\ Contents[i] = mBuffer[At(i)]
  BY <1>1, ListingIsSeq DEF IndexInv, Contents
<1>11. /\ Contents' \in Seq(Sample) /\ Len(Contents') = FillLevel'
       /\ \A i \in 1..FillLevel' : At(i) \in Cells /\ Contents'[i] = mBuffer'[At(i)]
  <2>1. FillLevel' \in 0..(TotalSize - 1) /\ mReadIndex' \in 0..TotalSize
    BY <1>1, <1>3, Sizes DEF IndexInv
  <2>2. Contents' = Listing(mBuffer', mReadIndex, FillLevel')
    BY <1>6 DEF Contents
  <2> QED
    BY <1>6, <1>9, <2>1, <2>2, ListingIsSeq
<1>12. /\ added \in Seq(Sample) /\ Len(added) = n
       /\ \A i \in 1..n : added[i] = data[i]
  BY <1>1, <1>3, <1>5, SubSeqProperties
<1> HIDE DEF added
<1>13. /\ Contents \o added \in Seq(Sample) /\ Len(Contents \o added) = FillLevel + n
       /\ \A i \in 1..(FillLevel + n) : (Contents \o added)[i] =
            IF i <= FillLevel THEN Contents[i] ELSE added[i - FillLevel]
  BY <1>10, <1>12, ConcatProperties
<1>14. ASSUME NEW i \in 1..(FillLevel + n)
       PROVE  Contents'[i] = (Contents \o added)[i]
  <2>1. At(i) \in Cells /\ Contents'[i] = mBuffer'[At(i)]
    BY <1>3, <1>11
  <2>2. CASE i <= FillLevel
    <3>1. ~(Number(mWriteIndex, At(i)) < n)
      BY <1>1, <1>3, <2>2, Sizes DEF IndexInv, IndexDistance, Number, RingPlace
    <3> QED
      BY <1>1, <1>6, <1>10, <1>13, <2>1, <2>2, <3>1
  <2>3. CASE i > FillLevel
    <3>1. Number(mWriteIndex, At(i)) = i - FillLevel - 1
      BY <1>1, <1>3, <2>3, Sizes DEF IndexInv, IndexDistance, Number, RingPlace
    <3>2. i - FillLevel - 1 < n /\ i - FillLevel \in 1..n /\ i - FillLevel - 1 + 1 = i - FillLevel
      BY <1>1, <1>3, <2>3, Sizes
    <3>3. mBuffer'[At(i)] = data[i - FillLevel]
      BY <1>6, <1>7, <2>1, <3>1, <3>2
    <3> QED
      BY <1>1, <1>12, <1>13, <2>1, <2>3, <3>2, <3>3
  <2>4. i <= FillLevel \/ i > FillLevel
    BY <1>1, <1>3, Sizes
  <2> QED
    BY <2>2, <2>3, <2>4, Zenon
<1>15. Contents' = Contents \o added
  BY <1>3, <1>11, <1>13, <1>14, SeqEqual
<1>16. Fifo!Smaller(Len(data), (TotalSize - 1) - Len(Contents)) = n
  BY <1>1, <1>10 DEF Fifo!Smaller, Least, n
<1> QED
  BY <1>6, <1>9, <1>15, <1>16 DEF Fifo!Put, added

\* read() delivers and removes the oldest samples
LEMMA ReadIsGet ==
  ASSUME IndexInv, mBuffer \in [Cells -> Sample],
         NEW copy \in Copies, NEW request \in Requests, NEW beyond \in Sample,
         Read(copy, request, beyond)
  PROVE  delivered' \in Seq(Sample) /\ Fifo!Get(request)
<1> DEFINE n == Least(request, FillLevel)
           first == SubSeq(Contents, 1, n)
           rest == SubSeq(Contents, n + 1, FillLevel)
           At(i) == RingPlace(mReadIndex + i - 1)
           Cell(x) == IF x \in Cells THEN mBuffer[x] ELSE beyond
<1>1. FillLevel \in 0..(TotalSize - 1) /\ mReadIndex \in 0..TotalSize
  BY FillNow DEF IndexInv
<1>2. /\ IndexInv' /\ n \in 0..FillLevel /\ FillLevel' = FillLevel - n
      /\ copy = "strided" => mReadIndex < TotalSize
      /\ mReadIndex' = IF mReadIndex + n = TotalSize /\ copy = "block"
                         THEN TotalSize ELSE RingPlace(mReadIndex + n)
  BY ReadIndices
<1>3. /\ delivered' = [i \in 1..n |-> Cell(Place(copy, mReadIndex, i - 1))]
      /\ mBuffer' = mBuffer
  BY DEF Read
<1> HIDE DEF n
<1>4. /\ Contents \in Seq(Sample) /\ Len(Contents) = FillLevel
      /\ \A i \in 1..FillLevel : At(i) \in Cells /\ Contents[i] = mBuffer[At(i)]
  BY <1>1, ListingIsSeq DEF Contents
<1>5. \A i \in 1..FillLevel : Contents[i] \in Sample
  BY <1>4
<1>6. /\ first \in Seq(Sample) /\ Len(first) = n
      /\ \A i \in 1..n : first[i] = Contents[i]
  <2>1. \A i \in 1..n : Contents[i] \in Sample
    BY <1>1, <1>2, <1>5
  <2> QED
    BY <1>1, <1>2, <2>1, SubSeqProperties
<1>7. /\ rest \in Seq(Sample) /\ Len(rest) = FillLevel - n
      /\ \A i \in 1..(FillLevel - n) : rest[i] = Contents[n + i]
  <2>1. \A i \in (n + 1)..FillLevel : Contents[i] \in Sample
    BY <1>1, <1>2, <1>5
  <2>2. /\ n + 1 \in Int /\ FillLevel \in Int /\ FillLevel - (n + 1) + 1 = FillLevel - n
        /\ (IF n + 1 <= FillLevel THEN FillLevel - (n + 1) + 1 ELSE 0) = FillLevel - n
        /\ \A i \in 1..(FillLevel - n) : (n + 1) + i - 1 = n + i
    BY <1>1, <1>2
  <2>3. /\ rest \in Seq(Sample)
        /\ Len(rest) = IF n + 1 <= FillLevel THEN FillLevel - (n + 1) + 1 ELSE 0
        /\ \A i \in 1..(FillLevel - (n + 1) + 1) : rest[i] = Contents[(n + 1) + i - 1]
    BY <2>1, <2>2, SubSeqProperties
  <2> HIDE DEF rest
  <2> QED
    BY <2>2, <2>3
<1> HIDE DEF first, rest
<1>8. ASSUME NEW i \in 1..n
      PROVE  Cell(Place(copy, mReadIndex, i - 1)) = Contents[i]
  <2>1. i - 1 \in 0..TotalSize /\ mReadIndex + (i - 1) = mReadIndex + i - 1 /\ i \in 1..FillLevel
    BY <1>1, <1>2, Sizes
  <2>2. Place(copy, mReadIndex, i - 1) = At(i)
    BY <1>1, <1>2, <2>1, PlaceValue
  <2> QED
    BY <1>4, <2>1, <2>2
<1>9. delivered' \in Seq(Sample) /\ Len(delivered') = n
      /\ \A i \in 1..n : delivered'[i] = Contents[i]
  <2>1. \A i \in 1..n : Cell(Place(copy, mReadIndex, i - 1)) \in Sample
    BY <1>1, <1>2, <1>5, <1>8
  <2> HIDE DEF Cell
  <2> QED
    BY <1>1, <1>2, <1>3, <1>8, <2>1
<1>10. delivered' = first
  BY <1>6, <1>9, SeqEqual
<1>11. /\ Contents' \in Seq(Sample) /\ Len(Contents') = FillLevel - n
       /\ \A i \in 1..(FillLevel - n) : Contents'[i] = mBuffer[RingPlace(mReadIndex' + i - 1)]
  <2>1. FillLevel' \in 0..(TotalSize - 1) /\ mReadIndex' \in 0..TotalSize
    BY <1>1, <1>2, Sizes DEF IndexInv
  <2>2. Contents' = Listing(mBuffer, mReadIndex', FillLevel')
    BY <1>3 DEF Contents
  <2> QED
    BY <1>2, <2>1, <2>2, ListingIsSeq
<1>12. ASSUME NEW i \in 1..(FillLevel - n)
       PROVE  Contents'[i] = rest[i]
  <2>1. RingPlace(mReadIndex' + i - 1) = At(n + i) /\ n + i \in 1..FillLevel
    BY <1>1, <1>2, Sizes DEF RingPlace
  <2> QED
    BY <1>4, <1>7, <1>11, <2>1
<1>13. Contents' = rest
  BY <1>7, <1>11, <1>12, SeqEqual
<1>14. Fifo!Smaller(request, Len(Contents)) = n
  BY <1>4 DEF Fifo!Smaller, Least, n
<1> QED
  BY <1>4, <1>9, <1>10, <1>13, <1>14 DEF Fifo!Get, first, rest

\* reset() leaves the newest samples, or silence in front of all of them
LEMMA ResetIsSetLevel ==
  ASSUME IndexInv, mBuffer \in [Cells -> Sample], NEW level \in Levels, ResetRing(level)
  PROVE  mBuffer' \in [Cells -> Sample] /\ Fifo!SetLevel(level)
<1> DEFINE silent == [i \in 1..(level - FillLevel) |-> Silence]
           newest == SubSeq(Contents, FillLevel - level + 1, FillLevel)
           At(i) == RingPlace(mReadIndex + i - 1)
           NewAt(i) == RingPlace(mReadIndex' + i - 1)
<1>1. /\ FillLevel = IndexDistance(mWriteIndex, mReadIndex)
      /\ FillLevel \in 0..(TotalSize - 1) /\ mReadIndex \in 0..TotalSize
      /\ mWriteIndex \in 0..TotalSize
  BY FillNow DEF IndexInv
<1>2. level \in 0..(TotalSize - 1) /\ Silence \in Sample
  BY AudioBufferConstants
<1>3. /\ IndexInv' /\ FillLevel' = level /\ mReadIndex' \in 0..TotalSize
      /\ mReadIndex' = IF mWriteIndex >= level THEN mWriteIndex - level
                                               ELSE mWriteIndex - level + TotalSize
  BY ResetIndices DEF IndexInv
<1>4. /\ mBuffer' = [x \in Cells |->
                       IF FillLevel < level /\ Zeroed(mReadIndex', x) THEN Silence ELSE mBuffer[x]]
      /\ delivered' = delivered
  BY DEF ResetRing
<1>5. mBuffer' \in [Cells -> Sample]
  BY <1>2, <1>4
<1>6. /\ Contents \in Seq(Sample) /\ Len(Contents) = FillLevel
      /\ \A i \in 1..FillLevel : At(i) \in Cells /\ Contents[i] = mBuffer[At(i)]
  BY <1>1, ListingIsSeq DEF Contents
<1>7. /\ Contents' \in Seq(Sample) /\ Len(Contents') = level
      /\ \A i \in 1..level : NewAt(i) \in Cells /\ Contents'[i] = mBuffer'[NewAt(i)]
  <2>1. Contents' = Listing(mBuffer', mReadIndex', level)
    BY <1>3 DEF Contents
  <2> QED
    BY <1>2, <1>3, <1>5, <2>1, ListingIsSeq
<1>8. CASE FillLevel < level
  <2>1. /\ silent \in Seq(Sample) /\ Len(silent) = level - FillLevel
        /\ \A i \in 1..(level - FillLevel) : silent[i] = Silence
    BY <1>1, <1>2, <1>8
  <2> HIDE DEF silent
  <2>2. /\ silent \o Contents \in Seq(Sample)
        /\ Len(silent \o Contents) = level
        /\ \A i \in 1..level : (silent \o Contents)[i] =
             IF i <= level - FillLevel THEN silent[i] ELSE Contents[i - (level - FillLevel)]
    <3>1. Len(silent) + Len(Contents) = level
      BY <1>1, <1>2, <1>6, <2>1
    <3>2. /\ silent \o Contents \in Seq(Sample)
          /\ Len(silent \o Contents) = Len(silent) + Len(Contents)
          /\ \A i \in 1..(Len(silent) + Len(Contents)) : (silent \o Contents)[i] =
               IF i <= Len(silent) THEN silent[i] ELSE Contents[i - Len(silent)]
      BY <1>6, <2>1, ConcatProperties
    <3>3. Len(silent) = level - FillLevel
      BY <2>1
    <3> QED
      BY <3>1, <3>2, <3>3, Zenon
  <2>3. ASSUME NEW i \in 1..level
        PROVE  Contents'[i] = (silent \o Contents)[i]
    <3>1. CASE i <= level - FillLevel
      <4>1. Zeroed(mReadIndex', NewAt(i))
        BY <1>1, <1>2, <1>3, <1>8, <3>1, Sizes DEF Zeroed, RingPlace, IndexDistance, IndexInv
      <4>2. i \in 1..(level - FillLevel)
        BY <1>1, <1>2, <3>1
      <4>3. Contents'[i] = Silence
        BY <1>4, <1>7, <1>8, <4>1
      <4> QED
        BY <2>1, <2>2, <3>1, <4>2, <4>3
    <3>2. CASE i > level - FillLevel
      <4> DEFINE j == i - (level - FillLevel)
      <4>1. j \in 1..FillLevel /\ ~(i <= level - FillLevel)
        BY <1>1, <1>2, <1>8, <3>2
      <4>2. NewAt(i) = At(j)
        BY <1>1, <1>2, <1>3, <1>8, <3>2, Sizes DEF RingPlace, IndexDistance, IndexInv
      <4>3. ~Zeroed(mReadIndex', NewAt(i))
        BY <1>1, <1>2, <1>3, <1>8, <3>2, Sizes DEF Zeroed, RingPlace, IndexDistance, IndexInv
      <4> HIDE DEF At, NewAt
      <4>4. Contents'[i] = Contents[j]
        BY <1>4, <1>6, <1>7, <4>1, <4>2, <4>3
      <4> QED
        BY <2>2, <4>1, <4>4
    <3>3. i <= level - FillLevel \/ i > level - FillLevel
      BY <1>1, <1>2
    <3> QED
      BY <3>1, <3>2, <3>3, Zenon
  <2>4. Contents' = silent \o Contents
    BY <1>7, <2>2, <2>3, SeqEqual
  <2> QED
    BY <1>4, <1>5, <1>6, <1>8, <2>4 DEF Fifo!SetLevel, silent
<1>9. CASE ~(FillLevel < level)
  <2>1. /\ newest \in Seq(Sample) /\ Len(newest) = level
        /\ \A i \in 1..level : newest[i] = Contents[FillLevel - level + i]
    <3>1. \A i \in (FillLevel - level + 1)..FillLevel : Contents[i] \in Sample
      BY <1>1, <1>2, <1>6, <1>9
    <3>2. /\ FillLevel - level + 1 \in Int /\ FillLevel \in Int
          /\ FillLevel - (FillLevel - level + 1) + 1 = level
          /\ (IF FillLevel - level + 1 <= FillLevel
                THEN FillLevel - (FillLevel - level + 1) + 1 ELSE 0) = level
          /\ \A i \in 1..level : (FillLevel - level + 1) + i - 1 = FillLevel - level + i
      BY <1>1, <1>2
    <3>3. /\ newest \in Seq(Sample)
          /\ Len(newest) = IF FillLevel - level + 1 <= FillLevel
                             THEN FillLevel - (FillLevel - level + 1) + 1 ELSE 0
          /\ \A i \in 1..(FillLevel - (FillLevel - level + 1) + 1) :
               newest[i] = Contents[(FillLevel - level + 1) + i - 1]
      BY <3>1, <3>2, SubSeqProperties
    <3> HIDE DEF newest
    <3> QED
      BY <3>2, <3>3
  <2> HIDE DEF newest
  <2>2. ASSUME NEW i \in 1..level
        PROVE  Contents'[i] = newest[i]
    <3> DEFINE j == FillLevel - level + i
    <3>1. j \in 1..FillLevel
      BY <1>1, <1>2, <1>9
    <3>2. NewAt(i) = At(j)
      BY <1>1, <1>2, <1>3, <1>9, Sizes DEF RingPlace, IndexDistance, IndexInv
    <3> HIDE DEF At, NewAt
    <3> QED
      BY <1>4, <1>6, <1>7, <1>9, <2>1, <3>1, <3>2
  <2>3. Contents' = newest
    BY <1>7, <2>1, <2>2, SeqEqual
  <2> QED
    BY <1>4, <1>5, <1>6, <1>9, <2>3 DEF Fifo!SetLevel, newest
<1> QED
  BY <1>8, <1>9

-----------------------------------------------------------------------------
(* The invariant and the refinement. *)

\* the invariant implies the type invariant: the counters are bounded by the fill level
LEMMA InvariantImpliesTypes ==
  ASSUME IInv
  PROVE  TypeOK
<1>1. FillLevel \in 0..(TotalSize - 1)
  BY FillNow DEF IInv
<1>2. resetLevel \in 0..(TotalSize - 1)
  BY AudioBufferConstants DEF IInv
<1>3. ahead \in (1 - TotalSize)..(TotalSize - 1)
  BY <1>1, <1>2, Sizes DEF IInv, CountersMatchFill
<1> QED
  BY <1>3 DEF IInv, IndexInv, TypeOK

\* the ring starts empty and with its counters at 0
LEMMA InitEstablishes ==
  ASSUME Layouts \subseteq UniformLayouts, Init
  PROVE  IInv /\ Fifo!Init
<1>1. IndexInv
  BY Sizes DEF Init, IndexInv
<1>2. FillLevel = 0
  BY <1>1, FillNow, Sizes DEF Init, IndexDistance
<1>3. Contents = <<>>
  BY <1>2 DEF Contents, Listing
<1>4. resetLevel \in Levels /\ mReferenceFill \in 0..(TotalSize - 1)
  BY AudioBufferConstants DEF Init
<1>5. delivered \in Seq(Sample)
  BY EmptySeq DEF Init
<1>6. CountersMatchFill /\ ReadyInTime
  BY <1>2 DEF Init, CountersMatchFill, ReadyInTime
<1>7. /\ layout \in Layouts /\ mBuffer \in [Cells -> Sample] /\ mReadReady \in BOOLEAN
      /\ mReadThreshold \in 0..TotalSize /\ ahead \in Int
  <2>1. ahead \in Int
    BY DEF Init
  <2> QED
    BY <2>1, Zenon DEF Init
<1>8. IInv
  BY <1>1, <1>4, <1>5, <1>6, <1>7 DEF IInv
<1>9. Fifo!Init
  BY <1>3 DEF Init, Fifo!Init
<1> QED
  BY <1>8, <1>9

\* write() preserves the invariant
LEMMA WriteKeeps ==
  ASSUME IInv, NEW copy \in Copies, NEW data \in Blocks, Write(copy, data)
  PROVE  IInv' /\ Fifo!Put(data)
<1> DEFINE n == Least(Len(data), Remaining)
<1>1. IndexInv /\ mBuffer \in [Cells -> Sample]
  BY DEF IInv
<1>2. /\ IndexInv' /\ n \in 0..(TotalSize - 1 - FillLevel)
      /\ FillLevel' = FillLevel + n
      /\ FillLevel' = Fill(After(copy, mWriteIndex, n), mReadIndex)
      /\ FillLevel' \in 0..(TotalSize - 1)
  BY <1>1, WriteIndices
<1>3. mBuffer' \in [Cells -> Sample] /\ Fifo!Put(data)
  BY <1>1, WriteIsPut
<1>4. /\ mReferenceFill' = NewReference(copy, n) /\ ahead' = ahead + n
      /\ mReadReady' = Ready(FillLevel')
      /\ layout' = layout /\ mReadIndex' = mReadIndex /\ mReadThreshold' = mReadThreshold
      /\ resetLevel' = resetLevel /\ delivered' = delivered
      /\ copy \in layout.write
  BY <1>2 DEF Write
<1>5. FillLevel \in 0..(TotalSize - 1)
  BY <1>1, FillNow
<1> HIDE DEF n
<1>6. mReferenceFill' \in 0..(TotalSize - 1)
  <2>1. CASE copy = "strided" /\ n # 0
    <3>1. /\ mWriteIndex \in 0..TotalSize /\ mReadIndex \in 0..TotalSize
          /\ mWriteIndex < TotalSize
      BY <1>4, <2>1 DEF IInv, IndexInv
    <3>2. 1 \in 0..(TotalSize - 1)
      BY <1>2, <1>5, <2>1, Sizes
    <3>3. After(copy, mWriteIndex, 1) \in 0..TotalSize /\ After(copy, mWriteIndex, 1) < TotalSize
      BY <2>1, <3>1, <3>2, AfterValue
    <3>4. After(copy, mWriteIndex, 1) # TotalSize
      BY <3>3, Sizes
    <3> HIDE DEF After, Fill
    <3>5. Fill(After(copy, mWriteIndex, 1), mReadIndex) \in 0..(TotalSize - 1)
      BY <3>1, <3>3, <3>4, FillValue
    <3> QED
      BY <1>4, <2>1, <3>5 DEF NewReference, IInv
  <2>2. CASE ~(copy = "strided" /\ n # 0)
    BY <1>2, <1>4, <2>2, Sizes DEF NewReference, IInv, Copies
  <2> QED
    BY <2>1, <2>2
<1>7. CountersMatchFill' /\ ahead' \in Int
  BY <1>2, <1>4, <1>5, AudioBufferConstants DEF IInv, CountersMatchFill
<1>8. mReadReady' \in BOOLEAN /\ ReadyInTime'
  <2>1. mReadReady' = (mReadReady \/ FillLevel' >= mReadThreshold)
    BY <1>4 DEF Ready
  <2>2. mReadThreshold \in Int /\ FillLevel' \in Int
    BY <1>2, Sizes DEF IInv
  <2>3. FillLevel' >= mReadThreshold \/ FillLevel' < mReadThreshold
    BY <2>2
  <2> QED
    BY <1>4, <2>1, <2>3, Zenon DEF ReadyInTime
<1> QED
  BY <1>2, <1>3, <1>4, <1>6, <1>7, <1>8 DEF IInv

\* read() preserves the invariant
LEMMA ReadKeeps ==
  ASSUME IInv, NEW copy \in Copies, NEW request \in Requests, NEW beyond \in Sample,
         Read(copy, request, beyond)
  PROVE  IInv' /\ Fifo!Get(request)
<1> DEFINE n == Least(request, FillLevel)
<1>1. IndexInv /\ mBuffer \in [Cells -> Sample]
  BY DEF IInv
<1>2. IndexInv' /\ n \in 0..FillLevel /\ FillLevel' = FillLevel - n
  BY <1>1, ReadIndices
<1>3. delivered' \in Seq(Sample) /\ Fifo!Get(request)
  BY <1>1, ReadIsGet
<1>4. /\ ahead' = ahead - n /\ layout' = layout /\ mBuffer' = mBuffer
      /\ mReferenceFill' = mReferenceFill /\ mReadReady' = mReadReady
      /\ mReadThreshold' = mReadThreshold /\ resetLevel' = resetLevel
  BY DEF Read
<1>5. FillLevel \in 0..(TotalSize - 1)
  BY <1>1, FillNow
<1> HIDE DEF n
<1>6. CountersMatchFill' /\ ahead' \in Int
  BY <1>2, <1>4, <1>5, AudioBufferConstants DEF IInv, CountersMatchFill
<1>7. ReadyInTime'
  <2>1. FillLevel < mReadThreshold => FillLevel' < mReadThreshold'
    BY <1>2, <1>4, <1>5, Sizes DEF IInv
  <2> QED
    BY <1>4, <2>1, Zenon DEF IInv, ReadyInTime
<1> QED
  BY <1>2, <1>3, <1>4, <1>6, <1>7 DEF IInv

\* reset() and connect() preserve the invariant
LEMMA ResetKeeps ==
  ASSUME IInv, NEW level \in Levels, ResetRing(level), ahead' = 0,
         mReadThreshold' \in 0..TotalSize
  PROVE  IInv' /\ Fifo!SetLevel(level)
<1>1. IndexInv /\ mBuffer \in [Cells -> Sample]
  BY DEF IInv
<1>2. IndexInv' /\ FillLevel' = level
  BY <1>1, ResetIndices
<1>3. mBuffer' \in [Cells -> Sample] /\ Fifo!SetLevel(level)
  BY <1>1, ResetIsSetLevel
<1>4. /\ mReferenceFill' = 0 /\ mReadReady' = FALSE /\ resetLevel' = level
      /\ layout' = layout /\ delivered' = delivered
  BY DEF ResetRing
<1>5. CountersMatchFill'
  BY <1>2, <1>4, AudioBufferConstants DEF CountersMatchFill
<1>6. ReadyInTime'
  BY <1>2, <1>4 DEF ReadyInTime
<1>7. mReferenceFill' \in 0..(TotalSize - 1) /\ ahead' \in Int
  BY <1>4, Sizes
<1> QED
  BY <1>2, <1>3, <1>4, <1>5, <1>6, <1>7 DEF IInv

\* every step preserves the invariant and is a step of the queue, or leaves it alone
LEMMA StepKeeps ==
  ASSUME IInv, [Next]_vars
  PROVE  IInv' /\ [Fifo!Next]_(Fifo!vars)
<1>1. CASE \E copy \in Copies, data \in Blocks : Write(copy, data)
  <2>1. PICK copy \in Copies, data \in Blocks : Write(copy, data)
    BY <1>1
  <2> QED
    BY <2>1, WriteKeeps DEF Fifo!Next
<1>2. CASE \E copy \in Copies, n \in Requests, beyond \in Sample : Read(copy, n, beyond)
  <2>1. PICK copy \in Copies, n \in Requests, beyond \in Sample : Read(copy, n, beyond)
    BY <1>2
  <2> QED
    BY <2>1, ReadKeeps DEF Fifo!Next
<1>3. CASE \E level \in Levels : Reset(level)
  <2>1. PICK level \in Levels : Reset(level)
    BY <1>3
  <2>2. ResetRing(level) /\ ahead' = 0 /\ mReadThreshold' \in 0..TotalSize
    BY <2>1 DEF Reset, IInv
  <2> QED
    BY <2>2, ResetKeeps DEF Fifo!Next
<1>4. CASE \E threshold \in Thresholds : Connect(threshold)
  <2>1. PICK threshold \in Thresholds : Connect(threshold)
    BY <1>4
  <2>2. ResetRing(0) /\ ahead' = 0 /\ 0 \in Levels
    BY <2>1, AudioBufferConstants DEF Connect
  <2>3. mReadThreshold' \in 0..TotalSize
    BY <2>1, AudioBufferConstants, Sizes DEF Connect, IInv
  <2> QED
    BY <2>2, <2>3, ResetKeeps DEF Fifo!Next
<1>5. CASE UNCHANGED vars
  <2>1. IInv'
    BY <1>5 DEF vars, IInv, IndexInv, CountersMatchFill, ReadyInTime, FillLevel
  <2>2. Contents' = Contents
    BY <1>5 DEF vars, Contents, FillLevel
  <2> QED
    BY <1>5, <2>1, <2>2 DEF vars, Fifo!vars
<1> QED
  BY <1>1, <1>2, <1>3, <1>4, <1>5 DEF Next

\* the invariant holds throughout, for uniform layouts
LEMMA Invariance ==
  ASSUME Layouts \subseteq UniformLayouts
  PROVE  Spec => []IInv
<1>1. Init => IInv
  BY InitEstablishes
<1>2. IInv /\ [Next]_vars => IInv'
  BY StepKeeps
<1> QED
  BY <1>1, <1>2, PTL DEF Spec

(* The indices never leave the ring and the monotonic counters never drift further apart
   than the ring is long, whatever the order of write(), read(), reset() and connect(). *)
THEOREM TypeCorrect ==
  ASSUME Layouts \subseteq UniformLayouts
  PROVE  Spec => []TypeOK
<1>1. IInv => TypeOK
  BY InvariantImpliesTypes
<1> QED
  BY <1>1, Invariance, PTL

(* The distance of the monotonic indices is the fill level less what the last reset left:
   the descriptors that are stored with them stay attached to their samples. *)
THEOREM CountersAreExact ==
  ASSUME Layouts \subseteq UniformLayouts
  PROVE  Spec => []CountersMatchFill
<1>1. IInv => CountersMatchFill
  BY DEF IInv
<1> QED
  BY <1>1, Invariance, PTL

(* isReadReady() reports the threshold as soon as a write reaches it. *)
THEOREM ReadinessInTime ==
  ASSUME Layouts \subseteq UniformLayouts
  PROVE  Spec => []ReadyInTime
<1>1. IInv => ReadyInTime
  BY DEF IInv
<1> QED
  BY <1>1, Invariance, PTL

(* The ring of IasLocalAudioBuffer implements the bounded FIFO, for every size, every
   sequence of blocks, requests and resets, and with the uint32_t arithmetic of the code. *)
THEOREM ImplementsQueue ==
  ASSUME Layouts \subseteq UniformLayouts
  PROVE  Spec => ImplementsFifo
<1>1. Init => Fifo!Init
  BY InitEstablishes
<1>2. IInv /\ [Next]_vars => [Fifo!Next]_(Fifo!vars)
  BY StepKeeps
<1> QED
  BY <1>1, <1>2, Invariance, PTL DEF Spec, ImplementsFifo, Fifo!Spec

(***************************************************************************)
(* The local audio stream                                                  *)
(***************************************************************************)

\* packets no longer than a period, and a ring that is readable before it has no room
Sized == Packet <= Period /\ Threshold + Packet <= Total + 1

Descriptors == [time : Int, index : Nat, count : Nat]

\* the buffers with rings, read indices and flags of all channels, descriptors and reset request
Buffers(rings, rds, readies, d, e) ==
  [ring |-> rings, rd |-> rds, ready |-> readies, desc |-> d, req |-> e]

\* the first n channels have one value and the others another
UpTo(n, new, old) == [c \in Channels |-> IF c <= n THEN new ELSE old]

\* the buffers when the first n channels have been treated and the others have not
Partly(q1, r1, y1, q, r, y, d, e, n) ==
  Buffers(UpTo(n, q1, q), UpTo(n, r1, r), UpTo(n, y1, y), d, e)

\* the buffers when all channels are alike
Alike(q, r, y, d, e) == Partly(q, r, y, q, r, y, d, e, 0)

\* the descriptors d follow each other without gap from where the reader is up to the last pc
\* samples that have been written, and each has the time of its first sample
Described(q, r, d, pc) ==
  /\ d \in Seq(Descriptors)
  /\ \A i \in 1 .. Len(d) : d[i].count = Period
  /\ \A i \in 1 .. Len(d) - 1 : d[i + 1].index = d[i].index + Period
  /\ IF d = <<>> THEN Len(q) <= pc
     ELSE /\ d[1].index <= r /\ r < d[1].index + Period
          /\ d[Len(d)].index + Period + pc = r + Len(q)
  /\ \A i \in 1 .. Len(d) : d[i].index >= r => d[i].time = q[d[i].index - r + 1]

\* a ring with its read index and flag
RingSized(q, r, y) ==
  /\ q \in Seq(Int) /\ r \in Nat /\ y \in BOOLEAN
  /\ Len(q) <= Total /\ r + Len(q) <= MaxIndex
  /\ Len(q) > 0 /\ Len(q) >= Threshold => y

\* what a read of m samples leaves of a ring, and where it leaves the read index
LeftOf(q, m) == SubSeq(q, Lesser(m, Len(q)) + 1, Len(q))
ReadTo(q, r, m) == r + Lesser(m, Len(q))

\* the channel before c
Before(c) == c - 1

\* what is left of the descriptors d when the samples before i have been read
Unread(d, i) == {j \in 1 .. Len(d) : d[j].index + d[j].count > i}
Rest(d, i) == IF Unread(d, i) = {} THEN <<>> ELSE SubSeq(d, LeastOf(Unread(d, i)), Len(d))

----------------------------------------------------------------------------

\* The constants, with the types the provers need.
LEMMA Constants ==
  /\ NumChannels \in Nat /\ NumChannels >= 1 /\ Period \in Nat /\ Period >= 1
  /\ Packet \in Nat /\ Packet >= 1 /\ Total \in Nat /\ Total >= 3 * Period
  /\ Threshold \in Nat /\ MaxIndex \in Nat
  /\ Optimal \in Nat /\ 2 * Optimal <= Total /\ Total <= 2 * Optimal + 1
BY AlsaConstants DEF Optimal

\* Every nonempty set of natural numbers has a least element.
LEMMA LeastNatural ==
  ASSUME NEW T \in SUBSET Nat, T # {}
  PROVE  \E x \in T : \A y \in T : x <= y
<1> DEFINE R == {ss \in Nat \X Nat : ss[1] < ss[2]}
<1>1. IsWellFoundedOn(R, Nat)
  BY NatLessThanWellFounded, Zenon DEF OpToRel
<1>2. PICK x \in T : \A y \in T : ~(<<y, x>> \in R)
  <2> HIDE DEF R
  <2> QED  BY <1>1, WFMin, Zenon
<1>3. \A y \in T : ~(y < x)
  BY <1>2
<1> QED  BY <1>3

\* The least element of a set of numbers.
LEMMA LeastOfSet ==
  ASSUME NEW T \in SUBSET Nat, T # {}
  PROVE  LeastOf(T) \in T /\ \A y \in T : LeastOf(T) <= y
BY LeastNatural DEF LeastOf

\* The smaller of two numbers.
LEMMA LesserOf ==
  ASSUME NEW a \in Nat, NEW b \in Nat
  PROVE  /\ Lesser(a, b) \in Nat /\ Lesser(a, b) <= a /\ Lesser(a, b) <= b
         /\ (a <= b => Lesser(a, b) = a) /\ (b <= a => Lesser(a, b) = b)
BY DEF Lesser

\* Two sequences of values are computed in the same way, each value from the one before.
Agree(f, g, N) == f[0] = g[0] /\ \A i \in 1 .. N : f[i - 1] = g[i - 1] => f[i] = g[i]

\* Then they end with the same value.
LEMMA SameEnds ==
  ASSUME NEW N \in Nat, NEW f, NEW g, Agree(f, g, N)
  PROVE  f[N] = g[N]
<1> DEFINE Bad == {c \in 0 .. N : f[c] # g[c]}
<1>1. f[0] = g[0] /\ \A i \in 1 .. N : f[i - 1] = g[i - 1] => f[i] = g[i]
  BY DEF Agree
<1> SUFFICES ASSUME Bad # {} PROVE FALSE
  OBVIOUS
<1>2. PICK m \in Bad : \A k \in Bad : m <= k
  <2>1. Bad \in SUBSET Nat
    OBVIOUS
  <2> HIDE DEF Bad
  <2> QED  BY <2>1, LeastNatural, Zenon
<1>3. m # 0 /\ m \in 1 .. N
  BY <1>1
<1>4. m - 1 \notin Bad
  <2>1. m \in Nat
    BY <1>3
  <2> HIDE DEF Bad
  <2> QED  BY <1>2, <2>1
<1> QED  BY <1>1, <1>3, <1>4

\* What a read leaves in a ring.
LEMMA RestOfRing ==
  ASSUME NEW q \in Seq(Int), NEW k \in 0 .. Len(q)
  PROVE  /\ SubSeq(q, k + 1, Len(q)) \in Seq(Int)
         /\ Len(SubSeq(q, k + 1, Len(q))) = Len(q) - k
         /\ \A i \in 1 .. Len(q) - k : SubSeq(q, k + 1, Len(q))[i] = q[i + k]
<1>1. Len(q) \in Nat /\ k + 1 \in 1 .. Len(q) + 1
  OBVIOUS
<1> QED  BY <1>1

\* What a write makes of a ring.
LEMMA LongerRing ==
  ASSUME NEW q \in Seq(Int), NEW s \in Seq(Int)
  PROVE  /\ q \o s \in Seq(Int) /\ Len(q \o s) = Len(q) + Len(s)
         /\ \A i \in 1 .. Len(q) : (q \o s)[i] = q[i]
         /\ \A i \in 1 .. Len(s) : (q \o s)[Len(q) + i] = s[i]
OBVIOUS

\* No descriptor reaches beyond the samples that are written.
LEMMA AllWritten ==
  ASSUME NEW q \in Seq(Int), NEW r \in Nat, NEW d, NEW pc \in Nat, Described(q, r, d, pc),
         NEW m0 \in 1 .. Len(d)
  PROVE  d[m0].index + Period + pc <= r + Len(q)
<1> SUFFICES ASSUME ~(d[m0].index + Period + pc <= r + Len(q)) PROVE FALSE
  OBVIOUS
<1>1. PICK n \in Nat : n = Len(q)
  OBVIOUS
<1>2. d \in Seq(Descriptors) /\ Len(d) \in Nat /\ Len(d) \in 1 .. Len(d) /\ d # <<>>
  BY DEF Described
<1>3. \A i \in 1 .. Len(d) : d[i].index \in Nat
  <2>1. \A i \in 1 .. Len(d) : d[i] \in Descriptors
    BY <1>2
  <2> QED  BY <2>1 DEF Descriptors
<1> DEFINE Bad == {t \in Nat : t <= Len(d) - 1 /\ ~(d[Len(d) - t].index + Period + pc <= r + Len(q))}
<1>4. PICK t \in Bad : \A u \in Bad : t <= u
  <2>1. Len(d) - m0 \in Bad /\ Bad \in SUBSET Nat
    BY <1>2
  <2> HIDE DEF Bad
  <2> QED  BY <2>1, LeastNatural, Zenon
<1>5. d[Len(d)].index + Period + pc = r + Len(q)
  BY <1>2 DEF Described
<1>6. t # 0
  <2> SUFFICES ASSUME t = 0 PROVE FALSE
    OBVIOUS
  <2>1. Len(d) - t = Len(d)
    BY <1>2
  <2>2. d[Len(d)].index + Period + pc \in Int /\ r + Len(q) \in Int
    BY <1>2, <1>3, Constants
  <2>3. ~(d[Len(d)].index + Period + pc <= r + Len(q))
    BY <2>1
  <2> QED  BY <1>5, <2>2, <2>3
<1>7. t \in Nat /\ t <= Len(d) - 1 /\ Len(d) - t \in 1 .. Len(d) /\ Len(d) - t \in 1 .. Len(d) - 1
  BY <1>6, <1>2
<1>8. t - 1 \notin Bad /\ t - 1 \in Nat
  <2>1. t - 1 \in Nat
    BY <1>6, <1>7
  <2> HIDE DEF Bad
  <2> QED  BY <1>4, <1>7, <2>1
<1>9. d[Len(d) - (t - 1)].index + Period + pc <= r + Len(q)
  BY <1>7, <1>8, <1>2
<1>10. Len(d) - (t - 1) = (Len(d) - t) + 1
  BY <1>7, <1>2
<1>11. d[(Len(d) - t) + 1].index = d[Len(d) - t].index + Period
  BY <1>7, Zenon DEF Described
<1>12. ~(d[Len(d) - t].index + Period + pc <= r + Len(q))
  OBVIOUS
<1> HIDE DEF Bad
<1>13. PICK a \in Nat : a = d[Len(d) - t].index
  BY <1>7, <1>3
<1>14. (a + Period) + Period + pc <= r + n
  BY <1>9, <1>10, <1>11, <1>13, <1>1
<1>15. ~(a + Period + pc <= r + n)
  BY <1>12, <1>13, <1>1
<1> QED  BY <1>14, <1>15, Constants

\* A quotient of products with the same factor.
LEMMA SmallerFactor ==
  ASSUME NEW a \in Nat, NEW b \in Nat, NEW p \in Nat, p >= 1, a * p < b * p
  PROVE  a < b
<1> SUFFICES ASSUME a >= b PROVE FALSE
  OBVIOUS
<1>1. PICK t \in Nat : a = b + t
  <2>1. a - b \in Nat /\ a = b + (a - b)
    OBVIOUS
  <2> QED  BY <2>1
<1>2. a * p = b * p + t * p
  BY <1>1
<1>3. t * p \in Nat /\ b * p \in Nat
  OBVIOUS
<1> QED  BY <1>2, <1>3

\* The queue has a free place for the descriptor of a period: it never loses one.
LEMMA FewDescriptors ==
  ASSUME NEW q \in Seq(Int), NEW r \in Nat, NEW d, NEW pc \in Nat, Described(q, r, d, pc),
         Len(q) <= Total
  PROVE  Len(d) < QueueSize
<1>1. PICK n \in Nat : n = Len(q)
  OBVIOUS
<1>2. d \in Seq(Descriptors) /\ Len(d) \in Nat
  BY DEF Described
<1>3. PICK l \in Nat : l = Len(d)
  BY <1>2
<1>4. \A i \in 1 .. Len(d) : d[i].index \in Nat
  <2>1. \A i \in 1 .. Len(d) : d[i] \in Descriptors
    BY <1>2
  <2> QED  BY <2>1 DEF Descriptors
<1> DEFINE M == (Total + Period - 1) \div Period
<1>5. M \in Nat /\ Total <= M * Period
  <2>1. PICK z \in Nat : z = Total + Period - 1
    BY Constants
  <2>2. PICK mm \in Nat : mm = z \div Period
    <3>1. Period \in Nat /\ Period > 0
      BY Constants
    <3>2. z \div Period \in Nat
      BY <3>1
    <3> QED  BY <3>2
  <2>3. z < (mm + 1) * Period
    BY <2>2, Constants
  <2>4. (mm + 1) * Period = mm * Period + Period /\ mm * Period \in Nat
    BY Constants
  <2>5. Total <= mm * Period
    BY <2>1, <2>3, <2>4, Constants
  <2> QED  BY <2>5, <2>1, <2>2
<1>6. QueueSize = M + 1
  BY DEF QueueSize
<1> HIDE DEF M
<1>7. CASE d = <<>>
  BY <1>7, <1>5, <1>6
<1>8. CASE d # <<>>
  <2>1. 1 \in 1 .. Len(d) /\ Len(d) \in 1 .. Len(d)
    BY <1>2, <1>8
  <2>2. PICK x \in Nat : x = d[1].index
    BY <2>1, <1>4
  <2>3. r < x + Period
    BY <1>8, <2>2 DEF Described
  <2> DEFINE Bad == {i \in Nat : i \in 1 .. Len(d) /\ d[i].index # x + (i - 1) * Period}
  <2>4. Bad = {}
    <3> SUFFICES ASSUME Bad # {} PROVE FALSE
      OBVIOUS
    <3>1. PICK i \in Bad : \A k \in Bad : i <= k
      <4>1. Bad \in SUBSET Nat
        OBVIOUS
      <4> HIDE DEF Bad
      <4> QED  BY <4>1, LeastNatural, Zenon
    <3>2. i \in 1 .. Len(d) /\ i \in Nat /\ d[i].index # x + (i - 1) * Period
      OBVIOUS
    <3>3. i # 1
      <4>1. (1 - 1) * Period = 0 /\ x + 0 = x
        BY Constants
      <4> QED  BY <4>1, <2>2, <3>2
    <3>4. i - 1 \in 1 .. Len(d) - 1 /\ i - 1 \in 1 .. Len(d) /\ i - 1 \in Nat /\ (i - 1) + 1 = i
      BY <3>2, <3>3, <1>2
    <3>5. i - 1 \notin Bad
      <4> HIDE DEF Bad
      <4> QED  BY <3>1, <3>2, <3>4
    <3>6. d[i - 1].index = x + ((i - 1) - 1) * Period
      BY <3>4, <3>5
    <3>7. d[(i - 1) + 1].index = d[i - 1].index + Period
      BY <3>4, Zenon DEF Described
    <3>8. ((i - 1) - 1) * Period + Period = (i - 1) * Period
      BY <3>2, Constants
    <3>9. ((i - 1) - 1) * Period \in Int
      BY <3>2, Constants
    <3>10. x + (((i - 1) - 1) * Period + Period) = d[i].index
      <4>1. PICK w \in Int : w = ((i - 1) - 1) * Period
        BY <3>9
      <4> QED  BY <4>1, <3>4, <3>6, <3>7, <2>2, Constants
    <3> QED  BY <3>2, <3>8, <3>10
  <2>5. d[l].index = x + (l - 1) * Period
    BY <2>1, <2>4, <1>3
  <2>6. d[l].index + Period + pc = r + n
    BY <1>8, <1>1, <1>3 DEF Described
  <2>7. PICK w \in Nat : w = (l - 1) * Period
    BY <2>1, <1>3, Constants
  <2>8. x + w + Period + pc = r + n
    BY <2>5, <2>6, <2>7
  <2>9. w < Total
    BY <2>8, <2>3, <1>1, Constants
  <2>10. (l - 1) * Period < M * Period
    <3>1. PICK v \in Nat : v = M * Period
      BY <1>5, Constants
    <3> QED  BY <2>7, <2>9, <3>1, <1>5, Constants
  <2>11. l - 1 < M
    BY <2>10, <2>1, <1>3, <1>5, Constants, SmallerFactor
  <2> QED  BY <2>11, <1>3, <1>5, <1>6
<1> QED  BY <1>7, <1>8

\* The descriptors that are left after a read describe what is left of the samples.
LEMMA RestDescribes ==
  ASSUME NEW q \in Seq(Int), NEW r \in Nat, NEW d, NEW pc \in Nat, Described(q, r, d, pc),
         NEW k \in 0 .. Len(q)
  PROVE  Described(SubSeq(q, k + 1, Len(q)), r + k, Rest(d, r + k), pc)
<1> DEFINE p == SubSeq(q, k + 1, Len(q))
<1>1. p \in Seq(Int) /\ Len(p) = Len(q) - k /\ \A i \in 1 .. Len(q) - k : p[i] = q[i + k]
  BY RestOfRing
<1> HIDE DEF p
<1>2. PICK n \in Nat : n = Len(q)
  OBVIOUS
<1>3. d \in Seq(Descriptors) /\ Len(d) \in Nat
  BY DEF Described
<1>4. \A i \in 1 .. Len(d) : d[i].index \in Nat /\ d[i].count = Period /\ d[i].time \in Int
  <2> SUFFICES ASSUME NEW i \in 1 .. Len(d)
               PROVE  d[i].index \in Nat /\ d[i].count = Period /\ d[i].time \in Int
    OBVIOUS
  <2>1. d[i] \in Descriptors
    BY <1>3
  <2>2. d[i].count = Period
    BY DEF Described
  <2> QED  BY <2>1, <2>2 DEF Descriptors
<1>5. CASE Unread(d, r + k) = {}
  <2>1. Rest(d, r + k) = <<>>
    BY <1>5 DEF Rest
  <2>2. Len(p) <= pc
    <3>1. CASE d = <<>>
      BY <3>1, <1>1 DEF Described
    <3>2. CASE d # <<>>
      <4>1. Len(d) \in 1 .. Len(d)
        BY <1>3, <3>2
      <4>2. d[Len(d)].index + Period <= r + k
        <5>1. ~(d[Len(d)].index + d[Len(d)].count > r + k)
          BY <4>1, <1>5 DEF Unread
        <5>2. d[Len(d)].index \in Nat /\ d[Len(d)].count = Period
          BY <4>1, <1>4
        <5> QED  BY <5>1, <5>2, Constants
      <4>3. d[Len(d)].index + Period + pc = r + Len(q)
        BY <3>2 DEF Described
      <4>4. PICK x \in Nat : x = d[Len(d)].index
        BY <4>1, <1>4
      <4>5. x + Period <= r + k /\ x + Period + pc = r + n
        BY <4>2, <4>3, <4>4, <1>2
      <4>6. n - k <= pc
        BY <4>5, <1>2, Constants
      <4> QED  BY <4>6, <1>1, <1>2
    <3> QED  BY <3>1, <3>2
  <2>3. Described(p, r + k, <<>>, pc)
    BY <2>2 DEF Described
  <2> QED  BY <2>1, <2>3 DEF p
<1>6. CASE Unread(d, r + k) # {}
  <2> DEFINE j == LeastOf(Unread(d, r + k))
             x == SubSeq(d, j, Len(d))
  <2>1. j \in Unread(d, r + k) /\ \A i \in Unread(d, r + k) : j <= i
    <3>1. Unread(d, r + k) \in SUBSET Nat
      BY DEF Unread
    <3> QED  BY <3>1, <1>6, LeastOfSet
  <2>2. j \in 1 .. Len(d) /\ d[j].index + Period > r + k
    BY <2>1, <1>4 DEF Unread
  <2>3. x \in Seq(Descriptors) /\ Len(x) = Len(d) - j + 1 /\ \A i \in 1 .. Len(x) : x[i] = d[i + j - 1]
    BY <2>2, <1>3
  <2>4. Rest(d, r + k) = x
    BY <1>6 DEF Rest
  <2>5. d[j].index <= r + k
    <3>1. CASE j = 1
      BY <3>1, <1>4, <2>2, <1>3 DEF Described
    <3>2. CASE j # 1
      <4>1. j - 1 \in 1 .. Len(d) - 1 /\ j - 1 \in 1 .. Len(d)
        BY <2>2, <3>2
      <4>2. j - 1 \notin Unread(d, r + k)
        <5>1. j \in Nat
          BY <2>2
        <5> HIDE DEF j
        <5> QED  BY <2>1, <5>1
      <4>3. d[j - 1].index + Period <= r + k
        BY <4>1, <4>2, <1>4, Constants DEF Unread
      <4>4. d[(j - 1) + 1].index = d[j - 1].index + Period
        BY <4>1, Zenon DEF Described
      <4> QED  BY <4>3, <4>4, <2>2
    <3> QED  BY <3>1, <3>2
  <2> HIDE DEF x, j
  <2>6. x # <<>> /\ Len(x) \in Nat /\ Len(x) >= 1 /\ x[1] = d[j] /\ x[Len(x)] = d[Len(d)]
    BY <2>2, <2>3, <1>3
  <2>7. \A i \in 1 .. Len(x) : x[i].count = Period
    <3> SUFFICES ASSUME NEW i \in 1 .. Len(x) PROVE x[i].count = Period
      OBVIOUS
    <3>1. i + j - 1 \in 1 .. Len(d) /\ x[i] = d[i + j - 1]
      BY <2>2, <2>3, <1>3
    <3> QED  BY <3>1, <1>4
  <2>8. \A i \in 1 .. Len(x) - 1 : x[i + 1].index = x[i].index + Period
    <3> SUFFICES ASSUME NEW i \in 1 .. Len(x) - 1
                 PROVE  x[i + 1].index = x[i].index + Period
      OBVIOUS
    <3>1. i + j - 1 \in 1 .. Len(d) - 1 /\ i \in 1 .. Len(x) /\ i + 1 \in 1 .. Len(x)
      BY <2>2, <2>3, <1>3, <2>6
    <3>2. d[(i + j - 1) + 1].index = d[i + j - 1].index + Period
      BY <3>1, Zenon DEF Described
    <3>3. x[i] = d[i + j - 1] /\ x[i + 1] = d[(i + 1) + j - 1]
      BY <3>1, <2>3
    <3>4. (i + 1) + j - 1 = (i + j - 1) + 1
      BY <2>2
    <3> QED  BY <3>2, <3>3, <3>4
  <2>9. x[Len(x)].index + Period + pc = (r + k) + Len(p)
    <3>1. d[Len(d)].index + Period + pc = r + Len(q)
      BY <2>2, <1>3 DEF Described
    <3>2. Len(d) \in 1 .. Len(d)
      BY <2>2
    <3> QED  BY <3>1, <3>2, <2>6, <1>1, <1>2
  <2>10. ASSUME NEW i \in 1 .. Len(x), x[i].index >= r + k
         PROVE  x[i].time = p[x[i].index - (r + k) + 1]
    <3>1. i + j - 1 \in 1 .. Len(d) /\ x[i] = d[i + j - 1]
      BY <2>2, <2>3, <1>3
    <3>2. PICK ix \in Nat : ix = x[i].index
      BY <3>1, <1>4
    <3>3. x[i].time = q[ix - r + 1]
      <4>1. d[i + j - 1].index = ix /\ ix >= r /\ x[i].time = d[i + j - 1].time
        BY <3>1, <3>2, <2>10
      <4>2. d[i + j - 1].time = q[d[i + j - 1].index - r + 1]
        BY <4>1, <3>1 DEF Described
      <4> QED  BY <4>1, <4>2
    <3>4. ix + Period + pc <= r + Len(q)
      <4>1. d[i + j - 1].index + Period + pc <= r + Len(q)
        BY <3>1, AllWritten
      <4> QED  BY <4>1, <3>1, <3>2
    <3>5. ix - (r + k) + 1 \in 1 .. n - k
      <4>1. ix >= r + k /\ ix + Period + pc <= r + n /\ k \in Nat
        BY <3>2, <3>4, <2>10, <1>2
      <4>2. ix + 1 + pc <= r + n
        BY <4>1, <1>2, <3>2, Constants
      <4>3. ix + 1 <= r + n
        BY <4>2, <1>2, <3>2
      <4> QED  BY <4>1, <4>3, <1>2, <3>2
    <3>6. p[ix - (r + k) + 1] = q[(ix - (r + k) + 1) + k]
      BY <3>5, <1>1, <1>2
    <3>7. (ix - (r + k) + 1) + k = ix - r + 1
      BY <3>2
    <3> QED  BY <3>2, <3>3, <3>6, <3>7
  <2>11. x[1].index <= r + k /\ r + k < x[1].index + Period
    BY <2>2, <2>5, <2>6, <1>4, Constants
  <2>12. Described(p, r + k, x, pc)
    BY <2>3, <2>6, <2>7, <2>8, <2>9, <2>10, <2>11 DEF Described
  <2> QED  BY <2>4, <2>12 DEF p
<1> QED  BY <1>5, <1>6

\* A read leaves a ring of the right size, a write makes one if there was room.
LEMMA RestIsSized ==
  ASSUME NEW q, NEW r, NEW y, RingSized(q, r, y), NEW k \in 0 .. Len(q)
  PROVE  RingSized(SubSeq(q, k + 1, Len(q)), r + k, y)
<1>1. q \in Seq(Int) /\ Len(q) \in Nat /\ k \in Nat /\ r \in Nat
  BY DEF RingSized
<1>2. PICK n \in Nat : n = Len(q)
  BY <1>1
<1>3. /\ SubSeq(q, k + 1, Len(q)) \in Seq(Int) /\ Len(SubSeq(q, k + 1, Len(q))) = n - k
  BY <1>1, <1>2, RestOfRing
<1>4. n <= Total /\ r + n <= MaxIndex /\ (n > 0 /\ n >= Threshold => y) /\ y \in BOOLEAN
  BY <1>2 DEF RingSized
<1>5. PICK p : p = SubSeq(q, k + 1, Len(q))
  OBVIOUS
<1>6. k <= n /\ p \in Seq(Int) /\ Len(p) = n - k
  BY <1>2, <1>3, <1>5
<1>7. r + k \in Nat /\ Len(p) <= Total /\ (r + k) + Len(p) <= MaxIndex
  BY <1>1, <1>4, <1>6, Constants
<1>8. Len(p) > 0 /\ Len(p) >= Threshold => y
  BY <1>1, <1>2, <1>4, <1>6, Constants
<1>9. RingSized(p, r + k, y)
  BY <1>4, <1>6, <1>7, <1>8 DEF RingSized
<1> QED  BY <1>5, <1>9

\* A write leaves one as well, if there was room for the samples.
LEMMA LongerIsSized ==
  ASSUME NEW q, NEW r, NEW y, RingSized(q, r, y), NEW s \in Seq(Int), NEW y2 \in BOOLEAN,
         Len(q) + Len(s) <= Total, r + Len(q) + Len(s) <= MaxIndex,
         Len(q) + Len(s) >= Threshold => y2
  PROVE  RingSized(q \o s, r, y2)
<1>1. q \in Seq(Int) /\ Len(q) \in Nat /\ r \in Nat
  BY DEF RingSized
<1>2. q \o s \in Seq(Int) /\ Len(q \o s) = Len(q) + Len(s)
  BY <1>1, LongerRing
<1> QED  BY <1>1, <1>2, Constants DEF RingSized

\* Samples for which there is no descriptor yet have been written.
LEMMA WriteDescribes ==
  ASSUME NEW q \in Seq(Int), NEW r \in Nat, NEW d, NEW pc \in Nat, Described(q, r, d, pc),
         NEW s \in Seq(Int)
  PROVE  Described(q \o s, r, d, pc + Len(s))
<1>1. /\ q \o s \in Seq(Int) /\ Len(q \o s) = Len(q) + Len(s)
      /\ \A i \in 1 .. Len(q) : (q \o s)[i] = q[i]
  BY LongerRing
<1>2. d \in Seq(Descriptors) /\ Len(d) \in Nat
  BY DEF Described
<1>3. \A i \in 1 .. Len(d) : d[i].index \in Nat
  <2>1. \A i \in 1 .. Len(d) : d[i] \in Descriptors
    BY <1>2
  <2> QED  BY <2>1 DEF Descriptors
<1>4. PICK n \in Nat, m \in Nat : n = Len(q) /\ m = Len(s)
  OBVIOUS
<1>5. ASSUME NEW i \in 1 .. Len(d), d[i].index >= r
      PROVE  d[i].time = (q \o s)[d[i].index - r + 1]
  <2>1. d[i].time = q[d[i].index - r + 1]
    BY <1>5 DEF Described
  <2>2. d[i].index + Period + pc <= r + Len(q)
    BY AllWritten
  <2>3. PICK x \in Nat : x = d[i].index
    BY <1>3
  <2>4. x + Period + pc <= r + n /\ x >= r
    BY <2>2, <2>3, <1>4, <1>5
  <2>5. x + 1 <= r + n
    BY <2>4, <1>4, Constants
  <2>6. x - r + 1 \in 1 .. n
    BY <2>4, <2>5, <1>4
  <2> QED  BY <2>1, <2>3, <2>6, <1>1, <1>4
<1>6. IF d = <<>> THEN Len(q \o s) <= pc + Len(s)
      ELSE d[Len(d)].index + Period + (pc + Len(s)) = r + Len(q \o s)
  <2>1. CASE d = <<>>
    BY <2>1, <1>1 DEF Described
  <2>2. CASE d # <<>>
    <3>1. PICK x \in Nat : x = d[Len(d)].index
      BY <2>2, <1>2, <1>3
    <3>2. x + Period + pc = r + n
      BY <2>2, <3>1, <1>4 DEF Described
    <3>3. x + Period + (pc + m) = r + (n + m)
      <4>1. PICK w \in Nat : w = Period
        BY Constants
      <4>2. x + w + pc = r + n
        BY <3>2, <4>1
      <4>3. x + w + (pc + m) = r + (n + m)
        BY <4>2
      <4> QED  BY <4>1, <4>3
    <3> QED  BY <3>1, <3>3, <1>1, <1>4, <2>2
  <2> QED  BY <2>1, <2>2
<1> QED  BY <1>5, <1>6 DEF Described

\* So has a whole period, whose descriptor is enqueued.
LEMMA EnqueueDescribes ==
  ASSUME NEW q \in Seq(Int), NEW r \in Nat, NEW d, NEW pc \in Nat, Described(q, r, d, pc),
         NEW s \in Seq(Int), NEW pc2 \in Nat, pc2 < Len(s), NEW x \in Descriptors,
         x.count = Period, x.index = r + Len(q) - pc,
         x.index + Period + pc2 = r + Len(q) + Len(s),
         x.index >= r => x.time = (q \o s)[x.index - r + 1]
  PROVE  Described(q \o s, r, Append(d, x), pc2)
<1> DEFINE e == Append(d, x)
           p == q \o s
<1>1. /\ p \in Seq(Int) /\ Len(p) = Len(q) + Len(s)
  BY LongerRing
<1>2. d \in Seq(Descriptors) /\ Len(d) \in Nat
  BY DEF Described
<1>3. \A i \in 1 .. Len(d) : d[i].index \in Nat
  <2>1. \A i \in 1 .. Len(d) : d[i] \in Descriptors
    BY <1>2
  <2> QED  BY <2>1 DEF Descriptors
<1>4. PICK n \in Nat, m \in Nat, l \in Nat : n = Len(q) /\ m = Len(s) /\ l = Len(d)
  BY <1>2
<1>5. /\ e \in Seq(Descriptors) /\ Len(e) = l + 1 /\ e # <<>>
      /\ \A i \in 1 .. l : e[i] = d[i]
      /\ e[l + 1] = x
  <2>1. e \in Seq(Descriptors) /\ Len(e) = Len(d) + 1
    BY <1>2
  <2>2. e[Len(d) + 1] = x /\ \A i \in 1 .. Len(d) : e[i] = d[i]
    BY <1>2
  <2>3. e # <<>>
    BY <2>1, <1>2
  <2> HIDE DEF e
  <2> QED  BY <2>1, <2>2, <2>3, <1>4
<1>6. Described(p, r, d, pc + m)
  BY <1>4, WriteDescribes
<1>7. PICK ix \in Nat : ix = x.index
  BY DEF Descriptors
<1>8. ix = r + n - pc /\ ix + Period + pc2 = r + n + m /\ pc2 < m
  BY <1>7, <1>4
<1> HIDE DEF e, p
<1>9. \A i \in 1 .. Len(e) : e[i].count = Period
  <2> SUFFICES ASSUME NEW i \in 1 .. Len(e) PROVE e[i].count = Period
    OBVIOUS
  <2>1. CASE i = l + 1
    BY <2>1, <1>5
  <2>2. CASE i # l + 1
    <3>1. i \in 1 .. l /\ i \in 1 .. Len(d)
      BY <2>2, <1>5, <1>4
    <3> QED  BY <3>1, <1>5 DEF Described
  <2> QED  BY <2>1, <2>2
<1>10. \A i \in 1 .. Len(e) - 1 : e[i + 1].index = e[i].index + Period
  <2> SUFFICES ASSUME NEW i \in 1 .. Len(e) - 1 PROVE e[i + 1].index = e[i].index + Period
    OBVIOUS
  <2>1. i \in 1 .. l /\ i \in 1 .. Len(d)
    BY <1>5, <1>4
  <2>2. CASE i = l
    <3>1. d # <<>>
      BY <2>1, <1>4
    <3>2. d[l].index + Period + pc = r + n
      BY <3>1, <1>4 DEF Described
    <3>3. PICK z \in Nat : z = d[l].index
      BY <2>1, <2>2, <1>3
    <3>4. ix = z + Period
      <4>1. PICK w \in Nat : w = Period
        BY Constants
      <4>2. z + w + pc = r + n
        BY <3>2, <3>3, <4>1
      <4>3. ix = z + w
        BY <4>2, <1>8, <1>4
      <4> QED  BY <4>1, <4>3
    <3>5. e[l + 1] = x /\ e[l] = d[l]
      BY <1>5, <2>1, <2>2
    <3> QED  BY <3>3, <3>4, <3>5, <1>7, <2>2
  <2>3. CASE i # l
    <3>1. i \in 1 .. Len(d) - 1 /\ i + 1 \in 1 .. l
      BY <2>1, <2>3, <1>4
    <3>2. d[i + 1].index = d[i].index + Period
      BY <3>1, Zenon DEF Described
    <3> QED  BY <3>1, <3>2, <2>1, <1>5
  <2> QED  BY <2>2, <2>3
<1>11. e[1].index <= r /\ r < e[1].index + Period
  <2>1. CASE d = <<>>
    <3>1. l = 0 /\ n <= pc
      BY <2>1, <1>4 DEF Described
    <3>2. e[1] = x
      BY <3>1, <1>5
    <3> QED  BY <3>1, <3>2, <1>7, <1>8, <1>4, Constants
  <2>2. CASE d # <<>>
    <3>1. 1 \in 1 .. l
      BY <2>2, <1>2, <1>4
    <3>2. e[1] = d[1]
      BY <3>1, <1>5
    <3> QED  BY <3>2, <2>2 DEF Described
  <2> QED  BY <2>1, <2>2
<1>12. e[Len(e)].index + Period + pc2 = r + Len(p)
  <2>1. e[Len(e)] = x
    BY <1>5
  <2>2. ix + Period + pc2 = r + (n + m)
    <3>1. PICK w \in Nat : w = Period
      BY Constants
    <3>2. ix + w + pc2 = r + n + m
      BY <3>1, <1>8
    <3>3. ix + w + pc2 = r + (n + m)
      BY <3>2, <1>4
    <3> QED  BY <3>1, <3>3
  <2> QED  BY <2>1, <2>2, <1>7, <1>1, <1>4
<1>13. ASSUME NEW i \in 1 .. Len(e), e[i].index >= r
       PROVE  e[i].time = p[e[i].index - r + 1]
  <2>1. CASE i = l + 1
    BY <2>1, <1>5, <1>13 DEF p
  <2>2. CASE i # l + 1
    <3>1. i \in 1 .. l /\ i \in 1 .. Len(d) /\ e[i] = d[i]
      BY <2>2, <1>5, <1>4
    <3> QED  BY <3>1, <1>6, <1>13 DEF Described
  <2> QED  BY <2>1, <2>2
<1>14. Described(p, r, e, pc2)
  BY <1>5, <1>9, <1>10, <1>11, <1>12, <1>13 DEF Described
<1> QED  BY <1>14 DEF e, p

\* The fields of buffers, and their replacement.
LEMMA BufferFields ==
  ASSUME NEW R, NEW D, NEW Y, NEW d, NEW e
  PROVE  /\ Buffers(R, D, Y, d, e).ring = R /\ Buffers(R, D, Y, d, e).rd = D
         /\ Buffers(R, D, Y, d, e).ready = Y /\ Buffers(R, D, Y, d, e).desc = d
         /\ Buffers(R, D, Y, d, e).req = e
BY DEF Buffers

\* names for the replacements, under which the provers recognise them
WithRings(b, x, z) == [b EXCEPT !.ring = x, !.rd = z]
WithReady(b, x, z) == [b EXCEPT !.ring = x, !.ready = z]
WithDesc(b, x) == [b EXCEPT !.desc = x]
WithReq(b, x) == [b EXCEPT !.req = x]
WithValue(f, c, x) == [f EXCEPT ![c] = x]

\* The fields of the buffers that a write or a read replaces.
LEMMA BuffersReplaced ==
  ASSUME NEW R, NEW D, NEW Y, NEW d, NEW e, NEW X, NEW Z
  PROVE  /\ WithRings(Buffers(R, D, Y, d, e), X, Z) = Buffers(X, Z, Y, d, e)
         /\ WithReady(Buffers(R, D, Y, d, e), X, Z) = Buffers(X, D, Z, d, e)
         /\ WithDesc(Buffers(R, D, Y, d, e), X) = Buffers(R, D, Y, X, e)
         /\ WithReq(Buffers(R, D, Y, d, e), X) = Buffers(R, D, Y, d, X)
<1>1. PICK b : b = Buffers(R, D, Y, d, e)
  OBVIOUS
<1>2. PICK b1 : b1 = [b EXCEPT !.ring = X]
  OBVIOUS
<1>3. b1 = [ring |-> X, rd |-> D, ready |-> Y, desc |-> d, req |-> e]
  BY <1>1, <1>2 DEF Buffers
<1>4. /\ [b EXCEPT !.ring = X, !.rd = Z] = [b1 EXCEPT !.rd = Z]
      /\ [b EXCEPT !.ring = X, !.ready = Z] = [b1 EXCEPT !.ready = Z]
  BY <1>2
<1>5. /\ [b1 EXCEPT !.rd = Z] = [ring |-> X, rd |-> Z, ready |-> Y, desc |-> d, req |-> e]
      /\ [b1 EXCEPT !.ready = Z] = [ring |-> X, rd |-> D, ready |-> Z, desc |-> d, req |-> e]
  BY <1>3
<1>6. /\ [b EXCEPT !.desc = X] = [ring |-> R, rd |-> D, ready |-> Y, desc |-> X, req |-> e]
      /\ [b EXCEPT !.req = X] = [ring |-> R, rd |-> D, ready |-> Y, desc |-> d, req |-> X]
  BY <1>1 DEF Buffers
<1>7. /\ WithRings(b, X, Z) = Buffers(X, Z, Y, d, e) /\ WithReady(b, X, Z) = Buffers(X, D, Z, d, e)
      /\ WithDesc(b, X) = Buffers(R, D, Y, X, e) /\ WithReq(b, X) = Buffers(R, D, Y, d, X)
  BY <1>4, <1>5, <1>6 DEF Buffers, WithRings, WithReady, WithDesc, WithReq
<1> QED  BY <1>1, <1>7

\* The values of the channels, and the step from one channel to the next.
LEMMA UpToValues ==
  ASSUME NEW new, NEW old
  PROVE  /\ UpTo(0, new, old) = UpTo(0, old, old)
         /\ UpTo(NumChannels, new, old) = UpTo(0, new, new)
         /\ \A n \in Int : UpTo(n, old, old) = UpTo(0, old, old)
         /\ \A c \in Channels : UpTo(0, old, old)[c] = old
<1>1. NumChannels \in Nat /\ Channels = 1 .. NumChannels
  BY Constants DEF Channels
<1>2. \A c \in Channels : ~(c <= 0) /\ c <= NumChannels
  BY <1>1
<1>3. UpTo(0, new, old) = UpTo(0, old, old) /\ UpTo(NumChannels, new, old) = UpTo(0, new, new)
  BY <1>2 DEF UpTo
<1>4. \A c \in Channels : UpTo(0, old, old)[c] = old
  BY DEF UpTo
<1>6. \A n \in Int : UpTo(n, old, old) = UpTo(0, old, old)
  BY DEF UpTo
<1> QED  BY <1>3, <1>4, <1>6

\* The loops over the channels treat one channel after the other.
LEMMA UpToNext ==
  ASSUME NEW new, NEW old, NEW c \in Channels
  PROVE  UpTo(Before(c), new, old)[c] = old /\ WithValue(UpTo(Before(c), new, old), c, new) = UpTo(c, new, old)
<1>1. NumChannels \in Nat /\ Channels = 1 .. NumChannels
  BY Constants DEF Channels
<1>2. UpTo(Before(c), new, old)[c] = old
  <2>1. ~(c <= Before(c))
    BY <1>1 DEF Before
  <2> QED  BY <2>1 DEF UpTo
<1>3. PICK R : R = UpTo(Before(c), new, old)
  OBVIOUS
<1>4. [R EXCEPT ![c] = new] = UpTo(c, new, old)
  BY <1>1, <1>3 DEF UpTo, Before
<1> QED  BY <1>2, <1>3, <1>4 DEF WithValue

\* Before the first channel and after the last the buffers are alike.
LEMMA PartlyEnds ==
  ASSUME NEW q1, NEW r1, NEW y1, NEW q, NEW r, NEW y, NEW d, NEW e
  PROVE  /\ Partly(q1, r1, y1, q, r, y, d, e, 0) = Alike(q, r, y, d, e)
         /\ Partly(q1, r1, y1, q, r, y, d, e, NumChannels) = Alike(q1, r1, y1, d, e)
BY UpToValues, Zenon DEF Partly, Alike

\* What a channel of the buffers holds that has not been treated.
LEMMA PartlyFields ==
  ASSUME NEW q1, NEW r1, NEW y1, NEW q, NEW r, NEW y, NEW d, NEW e, NEW c \in Channels
  PROVE  LET b == Partly(q1, r1, y1, q, r, y, d, e, Before(c)) IN
         b.ring[c] = q /\ b.rd[c] = r /\ b.ready[c] = y /\ b.desc = d /\ b.req = e
<1>1. /\ UpTo(Before(c), q1, q)[c] = q /\ UpTo(Before(c), r1, r)[c] = r /\ UpTo(Before(c), y1, y)[c] = y
  BY UpToNext
<1>2. PICK R, D, Y : R = UpTo(Before(c), q1, q) /\ D = UpTo(Before(c), r1, r) /\ Y = UpTo(Before(c), y1, y)
  OBVIOUS
<1>3. Partly(q1, r1, y1, q, r, y, d, e, Before(c)) = Buffers(R, D, Y, d, e)
  BY <1>2 DEF Partly
<1> QED  BY <1>1, <1>2, <1>3, BufferFields

\* The fields of buffers whose channels are all alike.
LEMMA AlikeFields ==
  ASSUME NEW q, NEW r, NEW y, NEW d, NEW e
  PROVE  LET b == Alike(q, r, y, d, e) IN
         /\ \A c \in Channels : b.ring[c] = q /\ b.rd[c] = r /\ b.ready[c] = y
         /\ b.desc = d /\ b.req = e
<1>1. PICK R, D, Y : R = UpTo(0, q, q) /\ D = UpTo(0, r, r) /\ Y = UpTo(0, y, y)
  OBVIOUS
<1>2. \A c \in Channels : R[c] = q /\ D[c] = r /\ Y[c] = y
  BY <1>1, UpToValues
<1>3. Alike(q, r, y, d, e) = Buffers(R, D, Y, d, e)
  BY <1>1 DEF Alike, Partly
<1> QED  BY <1>2, <1>3, BufferFields

\* One channel is read.
LEMMA ReadOne ==
  ASSUME NEW q \in Seq(Int), NEW r \in Nat, NEW y, NEW d, NEW e, NEW m \in Nat, NEW c \in Channels
  PROVE  RingRead(Partly(LeftOf(q, m), ReadTo(q, r, m), y, q, r, y, d, e, Before(c)), c, m)
           = Partly(LeftOf(q, m), ReadTo(q, r, m), y, q, r, y, d, e, c)
<1> DEFINE k == Lesser(m, Len(q))
           q1 == LeftOf(q, m)
           r1 == ReadTo(q, r, m)
<1>1. q1 = SubSeq(q, k + 1, Len(q)) /\ r1 = r + k
  BY DEF LeftOf, ReadTo
<1> HIDE DEF q1, r1
<1> DEFINE R == UpTo(Before(c), q1, q)
           D == UpTo(Before(c), r1, r)
           Y == UpTo(Before(c), y, y)
           b == Buffers(R, D, Y, d, e)
<1>2. b = Partly(q1, r1, y, q, r, y, d, e, Before(c))
  BY DEF Partly
<1>3. R[c] = q /\ D[c] = r
  BY UpToNext
<1>4. WithValue(R, c, q1) = UpTo(c, q1, q) /\ WithValue(D, c, r1) = UpTo(c, r1, r)
  BY UpToNext
<1>5. Y = UpTo(c, y, y)
  <2>1. c \in Int /\ Before(c) \in Int
    BY Constants DEF Channels, Before
  <2> QED  BY <2>1, UpToValues
<1> HIDE DEF R, D, Y
<1>6. b.ring = R /\ b.rd = D
  BY BufferFields
<1>7. RingRead(b, c, m) = [b EXCEPT !.ring[c] = SubSeq(@, k + 1, Len(@)), !.rd[c] = @ + k]
  <2> HIDE DEF b
  <2> QED  BY <1>3, <1>6 DEF RingRead, FillOf
<1>8. [b EXCEPT !.ring[c] = SubSeq(@, k + 1, Len(@)), !.rd[c] = @ + k]
        = [b EXCEPT !.ring = [R EXCEPT ![c] = q1], !.rd = [D EXCEPT ![c] = r1]]
  BY <1>1, <1>3, <1>6 DEF Buffers
<1>9. RingRead(b, c, m) = WithRings(b, WithValue(R, c, q1), WithValue(D, c, r1))
  <2> HIDE DEF b
  <2> QED  BY <1>7, <1>8 DEF WithRings, WithValue
<1>10. WithRings(b, UpTo(c, q1, q), UpTo(c, r1, r)) = Buffers(UpTo(c, q1, q), UpTo(c, r1, r), Y, d, e)
  BY BuffersReplaced
<1>11. RingRead(b, c, m) = Partly(q1, r1, y, q, r, y, d, e, c)
  <2> HIDE DEF b
  <2> QED  BY <1>4, <1>5, <1>9, <1>10 DEF Partly
<1> QED  BY <1>2, <1>11 DEF q1, r1

\* Descriptors are dequeued when the last channel has been read.
LEMMA ConsumedValue ==
  ASSUME NEW q, NEW r \in Nat, NEW y, NEW d, NEW e
  PROVE  Consumed(Alike(q, r, y, d, e)) = Alike(q, r, y, Rest(d, r), e)
<1>1. PICK b : b = Alike(q, r, y, d, e)
  OBVIOUS
<1>2. b.rd[NumChannels] = r /\ b.desc = d
  <2>1. NumChannels \in Channels
    BY Constants DEF Channels
  <2> QED  BY <1>1, <2>1, AlikeFields
<1>3. Consumed(b) = [b EXCEPT !.desc = Rest(d, r)]
  BY <1>2 DEF Consumed, Rest, Unread
<1>4. PICK R, D, Y : R = UpTo(0, q, q) /\ D = UpTo(0, r, r) /\ Y = UpTo(0, y, y)
  OBVIOUS
<1>5. b = Buffers(R, D, Y, d, e)
  BY <1>1, <1>4 DEF Alike, Partly
<1>6. WithDesc(Buffers(R, D, Y, d, e), Rest(d, r)) = Buffers(R, D, Y, Rest(d, r), e)
  BY BuffersReplaced
<1>7. Consumed(b) = Buffers(R, D, Y, Rest(d, r), e)
  BY <1>3, <1>5, <1>6 DEF WithDesc
<1> QED  BY <1>1, <1>4, <1>7 DEF Alike, Partly

\* The first descriptor names the sample the reader is at.
LEMMA HeadCovers ==
  ASSUME NEW q, NEW r \in Nat, NEW d, NEW pc, Described(q, r, d, pc), d # <<>>
  PROVE  /\ Head(d) = d[1] /\ d[1] \in Descriptors /\ d[1].count = Period
         /\ Covers(d[1], r)
<1>1. d \in Seq(Descriptors) /\ 1 \in 1 .. Len(d) /\ Head(d) = d[1]
  BY DEF Described
<1>2. d[1].count = Period /\ d[1].index <= r /\ r < d[1].index + Period
  BY <1>1 DEF Described
<1> QED  BY <1>1, <1>2 DEF Covers

\* the same number of samples for each channel
Each(m) == [c \in Channels |-> m]

\* All channels are read, the same number of samples from each.
LEMMA ReadAllValue ==
  ASSUME NEW q \in Seq(Int), NEW r \in Nat, NEW y \in BOOLEAN, NEW d, NEW e, NEW pc \in Nat,
         Described(q, r, d, pc), NEW m \in Nat
  PROVE  ReadAll(Alike(q, r, y, d, e), Each(m))
           = IF y /\ d # <<>>
             THEN Alike(LeftOf(q, m), ReadTo(q, r, m), y, Rest(d, ReadTo(q, r, m)), e)
             ELSE Alike(q, r, y, d, e)
<1> DEFINE b == Alike(q, r, y, d, e)
           n == [c \in Channels |-> m]
           Step(h) == [c \in 0 .. NumChannels |->
                         IF c = 0 THEN b ELSE ReadLocal(h[c - 1], c, n[c])]
           f == CHOOSE h : h = Step(h)
<1>2. ReadAll(b, n) = f[NumChannels]
  BY DEF ReadAll, Each
<1>3. \A c \in Channels : n[c] = m /\ c \in 0 .. NumChannels /\ c - 1 \in 0 .. NumChannels /\ c # 0
  BY Constants DEF Channels
<1>4. NumChannels \in Channels /\ NumChannels \in 0 .. NumChannels /\ 0 \in 0 .. NumChannels /\ NumChannels # 0
  BY Constants DEF Channels
<1>5. ASSUME NEW g, g = Step(g)
      PROVE  f[NumChannels] = g[NumChannels]
  <2>1. f = Step(f)
    BY <1>5, Zenon
  <2> HIDE DEF b, n, f
  <2>2. f[0] = b /\ g[0] = b
    BY <2>1, <1>5, <1>4
  <2>3. \A c \in 1 .. NumChannels : f[c - 1] = g[c - 1] => f[c] = g[c]
    <3> SUFFICES ASSUME NEW c \in Channels, f[c - 1] = g[c - 1] PROVE f[c] = g[c]
      BY DEF Channels
    <3>1. f[c] = ReadLocal(f[c - 1], c, n[c]) /\ g[c] = ReadLocal(g[c - 1], c, n[c])
      BY <2>1, <1>5, <1>3
    <3> QED  BY <3>1
  <2>4. NumChannels \in Nat /\ Agree(f, g, NumChannels)
    <3> HIDE DEF Step
    <3> QED  BY <2>2, <2>3, Constants DEF Agree
  <2> QED  BY <2>4, SameEnds
<1> HIDE DEF f
<1>6. CASE ~(y /\ d # <<>>)
  <2> DEFINE g == [c \in 0 .. NumChannels |-> b]
  <2>1. \A c \in Channels : ReadLocal(b, c, n[c]) = b
    <3>1. \A c \in Channels : b.ready[c] = y /\ b.desc = d
      BY AlikeFields
    <3> HIDE DEF b
    <3> QED  BY <3>1, <1>6 DEF ReadLocal
  <2>2. g = Step(g)
    <3> HIDE DEF b, n
    <3>1. \A c \in 0 .. NumChannels : c # 0 => c \in Channels /\ c - 1 \in 0 .. NumChannels
      BY Constants DEF Channels
    <3> QED  BY <2>1, <3>1
  <2>3. f[NumChannels] = b
    <3> HIDE DEF Step, b, n
    <3> QED  BY <2>2, <1>5, <1>4
  <2> QED  BY <1>2, <1>6, <2>3 DEF Each
<1>7. CASE y /\ d # <<>>
  <2> DEFINE q1 == LeftOf(q, m)
             r1 == ReadTo(q, r, m)
             H(c) == Partly(q1, r1, y, q, r, y, d, e, c)
             final == Alike(q1, r1, y, Rest(d, r1), e)
             g == [c \in 0 .. NumChannels |-> IF c = NumChannels THEN final ELSE H(c)]
  <2>2. r1 \in Nat
    <3>1. Len(q) \in Nat
      OBVIOUS
    <3>2. Lesser(m, Len(q)) \in Nat
      BY <3>1, LesserOf
    <3> QED  BY <3>2 DEF ReadTo
  <2>3. \A c \in Channels : ReadLocal(H(Before(c)), c, m) = IF c = NumChannels THEN final ELSE H(c)
    <3> SUFFICES ASSUME NEW c \in Channels
                 PROVE  ReadLocal(H(Before(c)), c, m) = IF c = NumChannels THEN final ELSE H(c)
      OBVIOUS
    <3> DEFINE p == H(Before(c))
    <3>2. RingRead(p, c, m) = H(c)
      BY ReadOne
    <3>3. p.ready[c] = y /\ p.desc = d /\ p.rd[c] = r
      BY PartlyFields
    <3> HIDE DEF p
    <3>4. Covers(Head(p.desc), p.rd[c])
      BY <3>3, <1>7, HeadCovers
    <3>5. ReadLocal(p, c, m) = IF c # NumChannels THEN H(c) ELSE Consumed(H(c))
      <4> HIDE DEF H
      <4> QED  BY <3>2, <3>3, <3>4, <1>7 DEF ReadLocal
    <3>6. H(NumChannels) = Alike(q1, r1, y, d, e)
      BY PartlyEnds
    <3>7. Consumed(H(NumChannels)) = final
      BY <3>6, <2>2, ConsumedValue
    <3> HIDE DEF H, final
    <3> QED  BY <3>5, <3>7 DEF p
  <2>4. H(0) = b
    BY PartlyEnds
  <2>5. g = Step(g)
    <3> HIDE DEF b, H, final
    <3>1. \A c \in 0 .. NumChannels : c # 0 => /\ c \in Channels /\ c - 1 \in 0 .. NumChannels
                                              /\ c - 1 # NumChannels /\ n[c] = m
      BY Constants DEF Channels
    <3> HIDE DEF n
    <3>2. \A c \in 0 .. NumChannels : c # 0 => g[c - 1] = H(c - 1)
      BY <3>1
    <3>3. \A c \in 0 .. NumChannels : g[c] = IF c = 0 THEN b ELSE ReadLocal(g[c - 1], c, n[c])
      BY <2>3, <2>4, <3>1, <3>2, <1>4 DEF Before
    <3> QED  BY <3>3
  <2>6. f[NumChannels] = final
    <3> HIDE DEF Step, final, H
    <3> QED  BY <2>5, <1>5, <1>4
  <2> QED  BY <1>2, <1>7, <2>6 DEF Each
<1> QED  BY <1>6, <1>7

PendingRecords ==
  [time : Nat, index : Nat, count : 0 .. Period - 1, samples : Nat, lastCnt : Nat, lastTime : Nat]

\* the pending descriptor p ends with the last sample of ring q and has the time of its first,
\* or will have it when the next packet comes
PendFits(p, q, r) ==
  /\ p.count < Period /\ p.samples = p.count /\ (p.count = 0 => p.time = 0)
  /\ p.count > 0 =>
       /\ p.index + p.count = r + Len(q)
       /\ p.index >= r =>
            q[p.index - r + 1] = IF p.time # 0 THEN p.time ELSE p.lastTime + Packet - p.count
       /\ p.time = 0 => p.lastCnt = Packet /\ p.count < Packet

\* the buffers b and the pending descriptor p: all channels are alike, and every sample but
\* those of p has a descriptor
Fits(b, p) ==
  \E q, r, y, d, e :
    /\ b = Alike(q, r, y, d, e) /\ e \in BOOLEAN
    /\ RingSized(q, r, y)
    /\ Described(q, r, d, IF e THEN 0 ELSE p.count)
    /\ ~e => PendFits(p, q, r)

\* What a read does to a ring, to its descriptors and to the pending one.
LEMMA LeftLength ==
  ASSUME NEW q \in Seq(Int), NEW m \in Nat
  PROVE  Len(LeftOf(q, m)) = Len(q) - Lesser(m, Len(q))
<1>1. PICK n \in Nat : n = Len(q)
  OBVIOUS
<1>2. Lesser(m, Len(q)) \in 0 .. Len(q)
  BY <1>1, LesserOf
<1> QED  BY <1>2, RestOfRing DEF LeftOf

\* A read of one channel leaves a ring of the right size whose samples are described.
LEMMA ReadKeepsDescribed ==
  ASSUME NEW q, NEW r, NEW y, NEW d, NEW pc \in Nat, NEW m \in Nat,
         RingSized(q, r, y), Described(q, r, d, pc)
  PROVE  /\ RingSized(LeftOf(q, m), ReadTo(q, r, m), y)
         /\ Described(LeftOf(q, m), ReadTo(q, r, m), Rest(d, ReadTo(q, r, m)), pc)
<1>1. q \in Seq(Int) /\ r \in Nat /\ Len(q) \in Nat
  BY DEF RingSized
<1>2. PICK k : k = Lesser(m, Len(q))
  OBVIOUS
<1>3. k \in 0 .. Len(q)
  BY <1>1, <1>2, LesserOf
<1>4. SubSeq(q, k + 1, Len(q)) = LeftOf(q, m) /\ r + k = ReadTo(q, r, m)
  BY <1>2 DEF LeftOf, ReadTo
<1>5. RingSized(SubSeq(q, k + 1, Len(q)), r + k, y)
  BY <1>3, RestIsSized
<1>6. Described(SubSeq(q, k + 1, Len(q)), r + k, Rest(d, r + k), pc)
  BY <1>1, <1>3, RestDescribes
<1> QED  BY <1>4, <1>5, <1>6

\* A read does not touch the pending descriptor, which stays exact for the ring.
LEMMA PendingKept ==
  ASSUME NEW q \in Seq(Int), NEW r \in Nat, NEW m \in Nat, NEW p, PendFits(p, q, r),
         p.count \in Nat, p.index \in Nat
  PROVE  PendFits(p, LeftOf(q, m), ReadTo(q, r, m))
<1> DEFINE q1 == LeftOf(q, m)
           r1 == ReadTo(q, r, m)
<1>1. PICK n \in Nat : n = Len(q)
  OBVIOUS
<1>2. PICK k \in Nat : k = Lesser(m, Len(q)) /\ k <= n
  BY <1>1, LesserOf
<1>3. SubSeq(q, k + 1, Len(q)) = q1 /\ r + k = r1
  BY <1>2 DEF LeftOf, ReadTo
<1> HIDE DEF q1, r1
<1>4. Len(q1) = n - k /\ \A i \in 1 .. n - k : q1[i] = q[i + k]
  <2>1. k \in 0 .. Len(q)
    BY <1>1, <1>2
  <2> QED  BY <1>1, <1>3, <2>1, RestOfRing
<1>5. /\ p.count < Period /\ p.samples = p.count /\ r1 = r + k /\ k <= n
      /\ (p.count = 0 => p.time = 0)
  BY <1>2, <1>3 DEF PendFits
<1>6. ASSUME p.count > 0
      PROVE  /\ p.index + p.count = r1 + Len(q1)
             /\ p.index >= r1 =>
                  q1[p.index - r1 + 1] = IF p.time # 0 THEN p.time ELSE p.lastTime + Packet - p.count
             /\ p.time = 0 => p.lastCnt = Packet /\ p.count < Packet
  <2>1. PICK x \in Nat, w \in Nat : x = p.index /\ w = p.count
    OBVIOUS
  <2>2. /\ x + w = r + n /\ w > 0
        /\ x >= r => q[x - r + 1] = IF p.time # 0 THEN p.time ELSE p.lastTime + Packet - p.count
        /\ p.time = 0 => p.lastCnt = Packet /\ p.count < Packet
    BY <1>6, <2>1, <1>1 DEF PendFits
  <2>3. x + w = r1 + Len(q1)
    <3>1. Len(q1) = n - k
      BY <1>4
    <3> QED  BY <3>1, <2>2, <1>5
  <2>4. ASSUME x >= r1 PROVE q1[x - r1 + 1] = q[x - r + 1] /\ x >= r
    <3>1. x >= r + k /\ x < r + n
      BY <2>4, <1>5, <2>2
    <3>2. x - (r + k) + 1 \in 1 .. n - k /\ (x - (r + k) + 1) + k = x - r + 1
      BY <3>1
    <3>3. q1[x - (r + k) + 1] = q[(x - (r + k) + 1) + k]
      BY <3>2, <1>4
    <3> QED  BY <3>1, <3>2, <3>3, <1>5
  <2> QED  BY <2>1, <2>2, <2>3, <2>4
<1>7. PendFits(p, q1, r1)
  BY <1>5, <1>6 DEF PendFits
<1> QED  BY <1>7 DEF q1, r1
\* What is read from each channel.
LEMMA ReadFits ==
  ASSUME NEW b, NEW p \in PendingRecords, Fits(b, p), NEW m \in Nat
  PROVE  LET after == ReadAll(b, Each(m)) IN
         /\ Fits(after, p)
         /\ after.req = b.req /\ after.ready[1] = b.ready[1]
         /\ Written(after, 1) = Written(b, 1)
         /\ FillOf(b, 1) \in Nat /\ ReadCount(b, 1, m) \in 0 .. FillOf(b, 1) /\ ReadCount(b, 1, m) <= m
         /\ FillOf(after, 1) = FillOf(b, 1) - ReadCount(b, 1, m)
         /\ after.rd[1] = b.rd[1] + ReadCount(b, 1, m) /\ b.rd[1] \in Nat
         /\ b.ready[1] /\ FillOf(b, 1) > p.count => ReadCount(b, 1, m) = Lesser(m, FillOf(b, 1))
<1>1. PICK q, r, y, d, e :
        /\ b = Alike(q, r, y, d, e) /\ e \in BOOLEAN
        /\ RingSized(q, r, y) /\ Described(q, r, d, IF e THEN 0 ELSE p.count)
        /\ ~e => PendFits(p, q, r)
  BY DEF Fits
<1> DEFINE pc == IF e THEN 0 ELSE p.count
           after == ReadAll(b, Each(m))
<1>2. pc \in Nat /\ p.count \in Nat /\ p.index \in Nat /\ pc <= p.count
  BY <1>1 DEF PendingRecords
<1>3. q \in Seq(Int) /\ r \in Nat /\ y \in BOOLEAN /\ Len(q) \in Nat
  BY <1>1 DEF RingSized
<1>4. Described(q, r, d, pc)
  BY <1>1
<1> HIDE DEF pc
<1>5. after = IF y /\ d # <<>>
              THEN Alike(LeftOf(q, m), ReadTo(q, r, m), y, Rest(d, ReadTo(q, r, m)), e)
              ELSE Alike(q, r, y, d, e)
  <2>1. ReadAll(Alike(q, r, y, d, e), Each(m))
          = IF y /\ d # <<>>
            THEN Alike(LeftOf(q, m), ReadTo(q, r, m), y, Rest(d, ReadTo(q, r, m)), e)
            ELSE Alike(q, r, y, d, e)
    BY <1>2, <1>3, <1>4, ReadAllValue
  <2> QED  BY <2>1, <1>1
<1>6. 1 \in Channels
  BY Constants DEF Channels
<1>7. b.ring[1] = q /\ b.rd[1] = r /\ b.ready[1] = y /\ b.desc = d /\ b.req = e
  BY <1>1, <1>6, AlikeFields
<1>8. FillOf(b, 1) = Len(q) /\ Written(b, 1) = r + Len(q)
  BY <1>7 DEF FillOf, Written
<1>9. /\ Lesser(m, Len(q)) \in Nat /\ Lesser(m, Len(q)) <= m /\ Lesser(m, Len(q)) <= Len(q)
  BY <1>3, LesserOf
<1>10. ReadCount(b, 1, m) = IF y /\ d # <<>> THEN Lesser(m, Len(q)) ELSE 0
  BY <1>7, <1>8 DEF ReadCount
<1>14. pc \in Nat /\ RingSized(q, r, y)
  BY <1>1, <1>2
<1>11. d = <<>> => Len(q) <= pc
  BY <1>4 DEF Described
<1> HIDE DEF after
<1>12. CASE ~(y /\ d # <<>>)
  <2>1. after = b
    BY <1>1, <1>5, <1>12
  <2>2. ReadCount(b, 1, m) = 0
    BY <1>10, <1>12
  <2>3. b.ready[1] /\ FillOf(b, 1) > p.count => FALSE
    BY <1>12, <1>11, <1>7, <1>8, <1>2, <1>3
  <2> QED  BY <2>1, <2>2, <2>3, <1>3, <1>7, <1>8 DEF after
<1>13. CASE y /\ d # <<>>
  <2> DEFINE q1 == LeftOf(q, m)
             r1 == ReadTo(q, r, m)
             d1 == Rest(d, ReadTo(q, r, m))
  <2>1. after = Alike(q1, r1, y, d1, e)
    BY <1>5, <1>13
  <2>2. /\ RingSized(LeftOf(q, m), ReadTo(q, r, m), y)
        /\ Described(LeftOf(q, m), ReadTo(q, r, m), Rest(d, ReadTo(q, r, m)), pc)
    BY <1>14, <1>4, ReadKeepsDescribed
  <2>3. Len(q1) = Len(q) - Lesser(m, Len(q)) /\ r1 = r + Lesser(m, Len(q))
    <3>1. Len(q1) = Len(q) - Lesser(m, Len(q))
      BY <1>3, LeftLength
    <3>2. r1 = r + Lesser(m, Len(q))
      BY DEF ReadTo
    <3> QED  BY <3>1, <3>2
  <2>4. ~e => PendFits(p, q1, r1)
    <3>1. PendFits(p, q, r) => PendFits(p, q1, r1)
      <4> SUFFICES ASSUME PendFits(p, q, r) PROVE PendFits(p, q1, r1)
        OBVIOUS
      <4> QED  BY <1>2, <1>3, PendingKept
    <3> QED  BY <3>1, <1>1
  <2> HIDE DEF q1, r1, d1
  <2>5. Fits(after, p)
    <3>1. RingSized(q1, r1, y) /\ Described(q1, r1, d1, pc)
      BY <2>2 DEF q1, r1, d1
    <3>2. e \in BOOLEAN
      BY <1>1
    <3> QED  BY <3>1, <3>2, <2>1, <2>4 DEF Fits, pc
  <2>6. after.ring[1] = q1 /\ after.rd[1] = r1 /\ after.ready[1] = y /\ after.req = e
    BY <2>1, <1>6, AlikeFields
  <2>7. FillOf(after, 1) = Len(q1) /\ Written(after, 1) = r1 + Len(q1)
    BY <2>6 DEF FillOf, Written
  <2>8. ReadCount(b, 1, m) = Lesser(m, Len(q))
    BY <1>10, <1>13
  <2> QED  BY <2>3, <2>5, <2>6, <2>7, <2>8, <1>3, <1>7, <1>8, <1>9 DEF after
<1> QED  BY <1>12, <1>13

\* What fits is the same for all channels and within the bounds.
LEMMA FitsBounds ==
  ASSUME NEW b, NEW p \in PendingRecords, Fits(b, p)
  PROVE  /\ 1 \in Channels /\ NumChannels \in Channels
         /\ \A c \in Channels : /\ b.ring[c] = b.ring[1] /\ b.rd[c] = b.rd[1]
                                /\ b.ready[c] = b.ready[1] /\ FillOf(b, c) = FillOf(b, 1)
         /\ b.ready[1] \in BOOLEAN /\ b.req \in BOOLEAN
         /\ FillOf(b, 1) \in Nat /\ FillOf(b, 1) <= Total
         /\ b.rd[1] \in Nat /\ Written(b, 1) = b.rd[1] + FillOf(b, 1) /\ Written(b, 1) <= MaxIndex
         /\ (FillOf(b, 1) > 0 /\ FillOf(b, 1) >= Threshold => b.ready[1])
<1>1. PICK q, r, y, d, e :
        /\ b = Alike(q, r, y, d, e) /\ e \in BOOLEAN
        /\ RingSized(q, r, y) /\ Described(q, r, d, IF e THEN 0 ELSE p.count)
        /\ ~e => PendFits(p, q, r)
  BY DEF Fits
<1>2. 1 \in Channels /\ NumChannels \in Channels
  BY Constants DEF Channels
<1>3. /\ \A c \in Channels : b.ring[c] = q /\ b.rd[c] = r /\ b.ready[c] = y
      /\ b.req = e
  BY <1>1, AlikeFields
<1>4. /\ q \in Seq(Int) /\ r \in Nat /\ y \in BOOLEAN
      /\ Len(q) \in Nat /\ Len(q) <= Total /\ r + Len(q) <= MaxIndex
      /\ (Len(q) > 0 /\ Len(q) >= Threshold => y)
  BY <1>1 DEF RingSized
<1>5. \A c \in Channels : FillOf(b, c) = Len(q)
  BY <1>3 DEF FillOf
<1>6. b.ring[1] = q /\ b.rd[1] = r /\ b.ready[1] = y /\ FillOf(b, 1) = Len(q)
  BY <1>2, <1>3, <1>5
<1>7. Written(b, 1) = r + Len(q)
  BY <1>6 DEF Written
<1> QED  BY <1>1, <1>2, <1>3, <1>4, <1>5, <1>6, <1>7

\* Empty buffers are alike, and nothing is read from them.
LEMMA EmptyAlike ==
  ASSUME NEW e
  PROVE  Empty(e) = Alike(<<>>, 0, FALSE, <<>>, e)
<1>1. \A x : [c \in Channels |-> x] = UpTo(0, x, x)
  BY DEF UpTo
<1>2. /\ [c \in Channels |-> <<>>] = UpTo(0, <<>>, <<>>) /\ [c \in Channels |-> 0] = UpTo(0, 0, 0)
      /\ [c \in Channels |-> FALSE] = UpTo(0, FALSE, FALSE)
  BY <1>1
<1> QED  BY <1>2 DEF Empty, Alike, Partly, Buffers

\* Rings that have just been reset fit, with a pending descriptor that is to be reset or empty.
LEMMA EmptyFits ==
  ASSUME NEW e \in BOOLEAN, NEW p, e \/ (p.count = 0 /\ p.samples = 0 /\ p.time = 0)
  PROVE  /\ Fits(Empty(e), p) /\ Empty(e).req = e /\ FillOf(Empty(e), 1) = 0
         /\ Empty(e).rd[1] = 0 /\ Empty(e).ready[1] = FALSE /\ Empty(e).desc = <<>>
         /\ Written(Empty(e), 1) = 0
<1>1. RingSized(<<>>, 0, FALSE)
  BY Constants DEF RingSized
<1>2. Described(<<>>, 0, <<>>, IF e THEN 0 ELSE p.count)
  <2>1. (IF e THEN 0 ELSE p.count) = 0
    OBVIOUS
  <2> QED  BY <2>1 DEF Described
<1>3. ~e => PendFits(p, <<>>, 0)
  BY Constants DEF PendFits
<1>4. 1 \in Channels
  BY Constants DEF Channels
<1>5. Fits(Alike(<<>>, 0, FALSE, <<>>, e), p)
  BY <1>1, <1>2, <1>3 DEF Fits
<1>6. /\ Empty(e).req = e /\ Empty(e).ring[1] = <<>> /\ Empty(e).rd[1] = 0
      /\ Empty(e).ready[1] = FALSE /\ Empty(e).desc = <<>>
  BY <1>4 DEF Empty
<1>7. Fits(Empty(e), p)
  <2>1. PICK b : b = Empty(e)
    OBVIOUS
  <2>2. b = Alike(<<>>, 0, FALSE, <<>>, e)
    BY <2>1, EmptyAlike
  <2> QED  BY <1>5, <2>1, <2>2
<1>8. FillOf(Empty(e), 1) = 0
  BY <1>6 DEF FillOf
<1>9. Written(Empty(e), 1) = 0
  BY <1>6, <1>8 DEF Written
<1> QED  BY <1>6, <1>7, <1>8, <1>9

\* The surplus is the same for all channels.
SurplusOf(n) == IF n > Optimal THEN n - Optimal ELSE 0

\* resetBuffers() discards as many samples of one channel as of the others.
LEMMA SurplusEach ==
  ASSUME NEW b, NEW p \in PendingRecords, Fits(b, p)
  PROVE  Surplus(b) = Each(SurplusOf(FillOf(b, 1)))
<1>1. \A c \in Channels : FillOf(b, c) = FillOf(b, 1)
  BY FitsBounds
<1> QED  BY <1>1 DEF Surplus, Each, SurplusOf

\* resetBuffers() leaves room for a packet and never meets an underrun.
LEMMA ResetFits ==
  ASSUME Sized, NEW b, NEW p \in PendingRecords, Fits(b, p)
  PROVE  /\ Fits(ResetBuffers(b), p)
         /\ ResetBuffers(b).req = b.req
         /\ Written(ResetBuffers(b), 1) = Written(b, 1)
         /\ FillOf(ResetBuffers(b), 1) + Packet <= Total
         /\ ~ResetStarves(b)
<1> DEFINE F == FillOf(b, 1)
           m == SurplusOf(F)
           after == ReadAll(b, Each(m))
           n == ReadCount(b, 1, m)
<1>1. /\ F \in Nat /\ F <= Total /\ b.ready[1] \in BOOLEAN
      /\ (F > 0 /\ F >= Threshold => b.ready[1])
  BY FitsBounds
<1>2. m \in Nat /\ (F > Optimal => m = F - Optimal) /\ (F <= Optimal => m = 0)
  BY <1>1, Constants DEF SurplusOf
<1>3. ResetBuffers(b) = after
  BY SurplusEach DEF ResetBuffers
<1>4. p.count \in Nat /\ p.count < Period
  BY Constants DEF PendingRecords
<1>5. Packet <= Period /\ Threshold + Packet <= Total + 1
  BY DEF Sized
<1> HIDE DEF m
<1>6. /\ Fits(after, p) /\ after.req = b.req /\ Written(after, 1) = Written(b, 1)
      /\ n \in 0 .. F /\ n <= m
      /\ FillOf(after, 1) = F - n
      /\ (b.ready[1] /\ F > p.count => n = Lesser(m, F))
  BY <1>2, ReadFits
<1>7. Lesser(m, F) = m
  <2>1. m <= F
    BY <1>1, <1>2, Constants
  <2> HIDE DEF F
  <2> QED  BY <2>1, <1>1, <1>2, LesserOf
<1> HIDE DEF F, n
<1>8. FillOf(after, 1) + Packet <= Total
  <2>1. F - n + Packet <= Total
    <3>1. CASE ~b.ready[1]
      <4>1. F = 0 \/ F < Threshold
        BY <1>1, <3>1, Constants
      <4>2. F + Packet <= Total
        BY <4>1, <1>1, <1>5, Constants
      <4> QED  BY <4>2, <1>1, <1>6, Constants
    <3>2. CASE b.ready[1] /\ F > p.count
      <4>1. n = m
        BY <3>2, <1>6, <1>7
      <4>2. F - n <= Optimal
        BY <4>1, <1>1, <1>2, Constants
      <4>3. n \in Nat
        BY <1>6, <1>1
      <4> QED  BY <4>2, <4>3, <1>1, <1>5, Constants
    <3>3. CASE F <= p.count
      <4>1. F + Packet <= Total
        BY <3>3, <1>1, <1>4, <1>5, Constants
      <4> QED  BY <4>1, <1>1, <1>6, Constants
    <3> QED  BY <3>1, <3>2, <3>3, <1>1, <1>4
  <2> QED  BY <2>1, <1>6
<1>9. ~ResetStarves(b)
  <2> SUFFICES ASSUME NEW c \in Channels, Surplus(b)[c] > 0, Starves(b, c, Surplus(b)[c])
               PROVE  FALSE
    BY DEF ResetStarves
  <2>1. Surplus(b)[c] = m
    BY SurplusEach DEF Each, m, F
  <2>2. m > 0
    BY <2>1
  <2>3. F > Optimal
    BY <2>2, <1>1, <1>2, Constants
  <2>4. F > p.count
    BY <2>3, <1>1, <1>4, Constants
  <2>5. FillOf(b, c) = F /\ b.ready[c] = b.ready[1]
    BY FitsBounds DEF F
  <2>6. b.ready[1] /\ ReadCount(b, c, m) = 0
    BY <2>1, <2>5 DEF Starves
  <2>7. ReadCount(b, c, m) = n
    BY <2>5 DEF ReadCount, n, F
  <2>8. n = m
    BY <2>4, <2>6, <1>6, <1>7
  <2> QED  BY <2>2, <2>6, <2>7, <2>8
<1> QED  BY <1>3, <1>6, <1>8, <1>9

\* resetBuffers() leaves empty buffers alone.
LEMMA ResetEmpty ==
  ASSUME NEW e \in BOOLEAN
  PROVE  ResetBuffers(Empty(e)) = Empty(e)
<1> DEFINE p == [NoPending EXCEPT !.count = 0]
<1>1. p \in PendingRecords /\ p.count = 0 /\ p.samples = 0 /\ p.time = 0
  BY Constants DEF PendingRecords, NoPending
<1> HIDE DEF p
<1>2. Fits(Empty(e), p) /\ FillOf(Empty(e), 1) = 0
  BY <1>1, EmptyFits
<1>3. Surplus(Empty(e)) = Each(SurplusOf(FillOf(Empty(e), 1)))
  BY <1>1, <1>2, SurplusEach
<1>4. SurplusOf(0) = 0
  BY Constants DEF SurplusOf
<1>5. Described(<<>>, 0, <<>>, 0) /\ <<>> \in Seq(Int)
  BY DEF Described
<1>6. ReadAll(Alike(<<>>, 0, FALSE, <<>>, e), Each(0)) = Alike(<<>>, 0, FALSE, <<>>, e)
  <2>1. \A d : Described(<<>>, 0, d, 0) =>
          ReadAll(Alike(<<>>, 0, FALSE, d, e), Each(0))
            = IF FALSE /\ d # <<>>
              THEN Alike(LeftOf(<<>>, 0), ReadTo(<<>>, 0, 0), FALSE, Rest(d, ReadTo(<<>>, 0, 0)), e)
              ELSE Alike(<<>>, 0, FALSE, d, e)
    <3> TAKE d
    <3> HAVE Described(<<>>, 0, d, 0)
    <3>1. PICK q \in Seq(Int), r \in Nat, y \in BOOLEAN, pc \in Nat, m \in Nat :
            q = <<>> /\ r = 0 /\ y = FALSE /\ pc = 0 /\ m = 0
      <4>1. <<>> \in Seq(Int) /\ 0 \in Nat /\ FALSE \in BOOLEAN
        OBVIOUS
      <4> QED  BY <4>1, Zenon
    <3>2. Described(q, r, d, pc)
      BY <3>1
    <3>3. ReadAll(Alike(q, r, y, d, e), Each(m))
            = IF y /\ d # <<>>
              THEN Alike(LeftOf(q, m), ReadTo(q, r, m), y, Rest(d, ReadTo(q, r, m)), e)
              ELSE Alike(q, r, y, d, e)
      BY ONLY <3>2, ReadAllValue, q \in Seq(Int), r \in Nat, y \in BOOLEAN, pc \in Nat, m \in Nat
    <3> QED  BY <3>1, <3>3
  <2> QED  BY <1>5, <2>1
<1> QED  BY <1>2, <1>3, <1>4, <1>6, EmptyAlike DEF ResetBuffers

\* What may be discarded, and what is left after it.
LEMMA DumpedFits ==
  ASSUME NEW b, NEW p \in PendingRecords, Fits(b, p), NEW n \in Nat
  PROVE  /\ Dumpable(b, n) = Lesser(n, FillOf(b, 1)) /\ Dumpable(b, n) \in 0 .. n
         /\ Fits(Dumped(b, n), p)
         /\ Dumped(b, n).req = b.req /\ Dumped(b, n).ready[1] = b.ready[1]
<1> DEFINE S == {n} \cup {FillOf(b, c) : c \in Channels}
<1>1. 1 \in Channels /\ FillOf(b, 1) \in Nat /\ \A c \in Channels : FillOf(b, c) = FillOf(b, 1)
  BY FitsBounds
<1>2. S = {n, FillOf(b, 1)}
  BY <1>1
<1>3. S \in SUBSET Nat /\ S # {} /\ Dumpable(b, n) = LeastOf(S)
  BY <1>1, <1>2 DEF Dumpable
<1> HIDE DEF S
<1>4. Dumpable(b, n) \in S /\ \A x \in S : Dumpable(b, n) <= x
  BY <1>3, LeastOfSet
<1>5. Dumpable(b, n) = Lesser(n, FillOf(b, 1)) /\ Dumpable(b, n) \in 0 .. n
  <2>1. PICK f \in Nat : f = FillOf(b, 1)
    BY <1>1
  <2>2. Dumpable(b, n) \in {n, f} /\ Dumpable(b, n) <= n /\ Dumpable(b, n) <= f
    BY <1>2, <1>4, <2>1
  <2>3. Dumpable(b, n) = Lesser(n, f) /\ Dumpable(b, n) \in 0 .. n
    BY <2>2 DEF Lesser
  <2> QED  BY <2>1, <2>3
<1>6. Dumped(b, n) = IF Dumpable(b, n) = 0 THEN b ELSE ReadAll(b, Each(Dumpable(b, n)))
  BY DEF Dumped, Each
<1>7. Dumpable(b, n) \in Nat
  BY <1>5
<1>8. LET after == ReadAll(b, Each(Dumpable(b, n))) IN
      Fits(after, p) /\ after.req = b.req /\ after.ready[1] = b.ready[1]
  BY <1>7, ReadFits
<1> QED  BY <1>5, <1>6, <1>8

\* one packet of late samples is discarded
LateStep(a, ref) ==
  IF ~Behind(a.b, ref) THEN a
  ELSE [b |-> Dumped(a.b, a.size), size |-> Dumpable(a.b, a.size)]

\* the first n steps from a0 on
LateSteps(h, a0, ref, n) == [k \in 0 .. n |-> IF k = 0 THEN a0 ELSE LateStep(h[k - 1], ref)]

\* The loop that discards late samples is a function: there is a sequence of its steps.
LEMMA LateStepsExist ==
  ASSUME NEW a0, NEW ref, NEW N \in Nat
  PROVE  \E g : g = LateSteps(g, a0, ref, N)
<1> DEFINE Bad == {n \in Nat : ~ \E g : g = LateSteps(g, a0, ref, n)}
<1> SUFFICES ASSUME Bad # {} PROVE FALSE
  OBVIOUS
<1>1. PICK n \in Bad : \A k \in Bad : n <= k
  <2>1. Bad \in SUBSET Nat
    OBVIOUS
  <2> HIDE DEF Bad
  <2> QED  BY <2>1, LeastNatural, Zenon
<1>2. n \in Nat
  OBVIOUS
<1>3. n # 0
  <2> SUFFICES ASSUME n = 0 PROVE FALSE
    OBVIOUS
  <2> DEFINE g == [k \in 0 .. 0 |-> a0]
  <2>1. g = LateSteps(g, a0, ref, 0)
    BY DEF LateSteps
  <2> HIDE DEF g
  <2> QED  BY <2>1
<1>4. n - 1 \in Nat /\ n - 1 \notin Bad
  <2>1. n - 1 \in Nat /\ ~(n <= n - 1)
    BY <1>2, <1>3
  <2> HIDE DEF Bad
  <2> QED  BY <1>1, <2>1
<1>5. PICK g : g = LateSteps(g, a0, ref, n - 1)
  BY <1>4
<1> DEFINE g2 == [k \in 0 .. n |-> IF k = n THEN LateStep(g[n - 1], ref) ELSE g[k]]
<1>6. \A k \in 0 .. n : k # n =>
        /\ k \in 0 .. n - 1 /\ g[k] = (IF k = 0 THEN a0 ELSE LateStep(g[k - 1], ref))
        /\ g2[k] = g[k]
  <2> TAKE k \in 0 .. n
  <2> HAVE k # n
  <2>1. k \in 0 .. n - 1
    BY <1>2
  <2>2. g[k] = (IF k = 0 THEN a0 ELSE LateStep(g[k - 1], ref))
    BY <2>1, <1>5 DEF LateSteps
  <2> QED  BY <2>1, <2>2
<1>7. \A k \in 0 .. n : g2[k] = IF k = 0 THEN a0 ELSE LateStep(g2[k - 1], ref)
  <2> TAKE k \in 0 .. n
  <2>1. k = n => g2[k] = LateStep(g[n - 1], ref)
    OBVIOUS
  <2>2. k # 0 => k - 1 \in 0 .. n /\ k - 1 # n
    BY <1>2
  <2>3. k # 0 => g2[k - 1] = g[k - 1]
    BY <2>2, <1>6
  <2> HIDE DEF g2
  <2>4. CASE k = n
    BY <2>1, <2>3, <2>4, <1>3
  <2>5. CASE k # n
    BY <2>3, <2>5, <1>6
  <2> QED  BY <2>4, <2>5
<1>8. g2 = LateSteps(g2, a0, ref, n)
  <2>1. g2 = [k \in 0 .. n |-> g2[k]]
    OBVIOUS
  <2> HIDE DEF g2
  <2> QED  BY <2>1, <1>7 DEF LateSteps
<1> HIDE DEF g2
<1>9. n \notin Bad
  BY <1>8
<1> QED  BY <1>9

\* what discarding keeps
Late(a, b, p, size) ==
  /\ Fits(a.b, p) /\ a.size \in 0 .. size
  /\ a.b.req = b.req /\ a.b.ready[1] = b.ready[1]

\* One pass of that loop keeps the channels alike and does not enlarge the packet.
LEMMA LateStepKeeps ==
  ASSUME NEW b, NEW p \in PendingRecords, NEW size \in Nat, NEW a, NEW ref, Late(a, b, p, size)
  PROVE  Late(LateStep(a, ref), b, p, size)
<1>1. CASE ~Behind(a.b, ref)
  BY <1>1 DEF LateStep
<1>2. CASE Behind(a.b, ref)
  <2>1. Fits(a.b, p) /\ a.size \in Nat /\ a.size <= size /\ a.b.req = b.req /\ a.b.ready[1] = b.ready[1]
    BY DEF Late
  <2>2. /\ Dumpable(a.b, a.size) \in 0 .. a.size /\ Fits(Dumped(a.b, a.size), p)
        /\ Dumped(a.b, a.size).req = a.b.req /\ Dumped(a.b, a.size).ready[1] = a.b.ready[1]
    BY <2>1, DumpedFits
  <2>3. LateStep(a, ref) = [b |-> Dumped(a.b, a.size), size |-> Dumpable(a.b, a.size)]
    BY <1>2 DEF LateStep
  <2>4. LateStep(a, ref).b = Dumped(a.b, a.size) /\ LateStep(a, ref).size = Dumpable(a.b, a.size)
    BY <2>3
  <2>5. Dumpable(a.b, a.size) \in 0 .. size
    BY <2>1, <2>2
  <2> QED  BY <2>1, <2>2, <2>4, <2>5 DEF Late
<1> QED  BY <1>1, <1>2

\* Late samples are discarded from all channels alike.
LEMMA AlignedFits ==
  ASSUME NEW b, NEW p \in PendingRecords, Fits(b, p), NEW size \in Nat, NEW ref
  PROVE  Late(Aligned(b, size, ref), b, p, size)
<1> DEFINE a0 == [b |-> b, size |-> size]
           Step(h) == LateSteps(h, a0, ref, Total)
           f == CHOOSE h : h = Step(h)
<1>1. Aligned(b, size, ref) = f[Total]
  BY DEF Aligned, LateSteps, LateStep
<1>2. f = Step(f)
  <2>1. Total \in Nat
    BY Constants
  <2>2. \E g : g = Step(g)
    <3> HIDE DEF a0
    <3> QED  BY <2>1, LateStepsExist
  <2> HIDE DEF Step
  <2> QED  BY <2>2, Zenon
<1>3. Late(a0, b, p, size)
  BY DEF Late
<1> HIDE DEF f, a0
<1>4. \A k \in 0 .. Total : f[k] = IF k = 0 THEN a0 ELSE LateStep(f[k - 1], ref)
  BY <1>2 DEF LateSteps
<1> HIDE DEF Step
<1> DEFINE Bad == {k \in 0 .. Total : ~Late(f[k], b, p, size)}
<1>5. Bad = {}
  <2> SUFFICES ASSUME Bad # {} PROVE FALSE
    OBVIOUS
  <2>1. PICK n \in Bad : \A k \in Bad : n <= k
    <3>1. Bad \in SUBSET Nat
      BY Constants
    <3> HIDE DEF Bad
    <3> QED  BY <3>1, LeastNatural, Zenon
  <2>2. n \in 0 .. Total /\ ~Late(f[n], b, p, size)
    OBVIOUS
  <2>3. n # 0
    BY <2>2, <1>3, <1>4
  <2>4. n - 1 \in 0 .. Total /\ n - 1 \notin Bad
    <3>1. n - 1 \in 0 .. Total /\ ~(n <= n - 1)
      BY <2>2, <2>3, Constants
    <3> HIDE DEF Bad
    <3> QED  BY <2>1, <3>1
  <2>5. Late(f[n - 1], b, p, size)
    BY <2>4
  <2>6. f[n] = LateStep(f[n - 1], ref)
    BY <2>2, <2>3, <1>4
  <2>7. Late(f[n], b, p, size)
    BY <2>5, <2>6, LateStepKeeps
  <2> QED  BY <2>2, <2>7
<1>6. Total \in 0 .. Total
  BY Constants
<1> QED  BY <1>1, <1>5, <1>6

\* n samples from time t on
Times(t, n) == [i \in 1 .. n |-> t + i - 1]

\* The samples of a packet or of a copy job are as many as it has, one after the other.
LEMMA TimesAre ==
  ASSUME NEW t \in Int, NEW n \in Nat
  PROVE  /\ Times(t, n) \in Seq(Int) /\ Len(Times(t, n)) = n
         /\ \A i \in 1 .. n : Times(t, n)[i] = t + i - 1
BY DEF Times

\* A write that fits writes everything.
LEMMA WholeSeq ==
  ASSUME NEW s \in Seq(Int)
  PROVE  SubSeq(s, 1, Len(s)) = s
OBVIOUS

\* A write into a full ring writes nothing.
LEMMA NothingAppended ==
  ASSUME NEW q \in Seq(Int), NEW s \in Seq(Int)
  PROVE  q \o SubSeq(s, 1, 0) = q
OBVIOUS

\* a ring and its flag after a write that fits
Longer(q, s) == q \o s
NowReady(q, s, y) == y \/ Len(q) + Len(s) >= Threshold

\* One channel is written, and there is room.
LEMMA WriteOne ==
  ASSUME NEW q \in Seq(Int), NEW r, NEW y, NEW d, NEW e, NEW s \in Seq(Int), NEW c \in Channels,
         Len(q) + Len(s) <= Total
  PROVE  RingWrite(Partly(Longer(q, s), r, NowReady(q, s, y), q, r, y, d, e, Before(c)), c, s)
           = Partly(Longer(q, s), r, NowReady(q, s, y), q, r, y, d, e, c)
<1> DEFINE q1 == Longer(q, s)
           y1 == NowReady(q, s, y)
           n == Lesser(Len(s), Total - Len(q))
<1>1. n = Len(s)
  <2>1. Len(s) \in Nat /\ Total - Len(q) \in Nat /\ Len(s) <= Total - Len(q)
    BY Constants
  <2> QED  BY <2>1, LesserOf
<1>2. q \o SubSeq(s, 1, n) = q1
  BY <1>1, WholeSeq DEF Longer
<1>3. (y \/ Len(q) + n >= Threshold) = y1
  BY <1>1 DEF NowReady
<1> HIDE DEF q1, y1
<1> DEFINE R == UpTo(Before(c), q1, q)
           D == UpTo(Before(c), r, r)
           Y == UpTo(Before(c), y1, y)
           b == Buffers(R, D, Y, d, e)
<1>4. b = Partly(q1, r, y1, q, r, y, d, e, Before(c))
  BY DEF Partly
<1>5. R[c] = q /\ Y[c] = y
  BY UpToNext
<1>6. WithValue(R, c, q1) = UpTo(c, q1, q) /\ WithValue(Y, c, y1) = UpTo(c, y1, y)
  BY UpToNext
<1>7. D = UpTo(c, r, r)
  <2>1. c \in Int /\ Before(c) \in Int
    BY Constants DEF Channels, Before
  <2> QED  BY <2>1, UpToValues
<1> HIDE DEF R, D, Y
<1>8. b.ring = R /\ b.ready = Y
  BY BufferFields
<1>9. RingWrite(b, c, s) = [b EXCEPT !.ring[c] = @ \o SubSeq(s, 1, n),
                                    !.ready[c] = @ \/ Len(q) + n >= Threshold]
  <2>1. FillOf(b, c) = Len(q)
    BY <1>5, <1>8 DEF FillOf
  <2> HIDE DEF b
  <2> QED  BY <2>1 DEF RingWrite
<1> HIDE DEF n
<1>10. [b EXCEPT !.ring[c] = @ \o SubSeq(s, 1, n), !.ready[c] = @ \/ Len(q) + n >= Threshold]
         = [b EXCEPT !.ring = [R EXCEPT ![c] = q1], !.ready = [Y EXCEPT ![c] = y1]]
  BY <1>2, <1>3, <1>5, <1>8 DEF Buffers
<1>11. RingWrite(b, c, s) = WithReady(b, WithValue(R, c, q1), WithValue(Y, c, y1))
  <2> HIDE DEF b
  <2> QED  BY <1>9, <1>10 DEF WithReady, WithValue
<1>12. WithReady(b, UpTo(c, q1, q), UpTo(c, y1, y)) = Buffers(UpTo(c, q1, q), D, UpTo(c, y1, y), d, e)
  BY BuffersReplaced
<1>13. RingWrite(b, c, s) = Partly(q1, r, y1, q, r, y, d, e, c)
  <2> HIDE DEF b
  <2> QED  BY <1>6, <1>7, <1>11, <1>12 DEF Partly
<1> QED  BY <1>4, <1>13 DEF q1, y1

\* A descriptor is enqueued: the queue has room for it.
LEMMA EnqueueValue ==
  ASSUME NEW q, NEW r, NEW y, NEW d, NEW e, NEW x, Len(d) < QueueSize, Len(d) \in Nat
  PROVE  Enqueue(Alike(q, r, y, d, e), x) = Alike(q, r, y, Append(d, x), e)
<1>1. PICK b : b = Alike(q, r, y, d, e)
  OBVIOUS
<1>2. b.desc = d
  BY <1>1, AlikeFields
<1>3. ~(Len(d) >= QueueSize)
  BY Constants DEF QueueSize
<1> DEFINE z == Append(d, x)
<1>4. Enqueue(b, x) = [b EXCEPT !.desc = z]
  BY <1>2, <1>3 DEF Enqueue
<1> HIDE DEF z
<1>5. PICK R, D, Y : R = UpTo(0, q, q) /\ D = UpTo(0, r, r) /\ Y = UpTo(0, y, y)
  OBVIOUS
<1>6. b = Buffers(R, D, Y, d, e)
  BY <1>1, <1>5 DEF Alike, Partly
<1>7. /\ WithRings(Buffers(R, D, Y, d, e), z, z) = Buffers(z, z, Y, d, e)
      /\ WithDesc(Buffers(R, D, Y, d, e), z) = Buffers(R, D, Y, z, e)
  BY BuffersReplaced
<1>8. Enqueue(b, x) = Buffers(R, D, Y, z, e)
  BY <1>4, <1>6, <1>7 DEF WithDesc
<1>9. Enqueue(b, x) = Alike(q, r, y, z, e)
  BY <1>5, <1>8 DEF Alike, Partly
<1> QED  BY <1>1, <1>9 DEF z

\* A period that fits is described by one more descriptor.
LEMMA CopiedTxFits ==
  ASSUME NEW b, Fits(b, NoPending), NEW ts \in Nat, FillOf(b, 1) + Period <= Total \/ FillOf(b, 1) = Total,
         Written(b, 1) + Period <= MaxIndex, ~epoch
  PROVE  /\ Fits(CopiedTx(b, ts), NoPending) /\ (b.ready[1] => CopiedTx(b, ts).ready[1])
<1>0. NoPending \in PendingRecords /\ NoPending.count = 0 /\ NoPending.samples = 0
      /\ NoPending.time = 0
  BY Constants DEF PendingRecords, NoPending
<1>1. PICK q, r, y, d, e :
        /\ b = Alike(q, r, y, d, e) /\ e \in BOOLEAN
        /\ RingSized(q, r, y) /\ Described(q, r, d, IF e THEN 0 ELSE NoPending.count)
  BY DEF Fits
<1>2. Described(q, r, d, 0)
  BY <1>0, <1>1
<1>3. /\ q \in Seq(Int) /\ Len(q) \in Nat /\ r \in Nat /\ y \in BOOLEAN /\ Len(q) <= Total
      /\ r + Len(q) <= MaxIndex
  BY <1>1 DEF RingSized
<1>4. \A c \in Channels : b.ring[c] = q /\ b.ready[c] = y
  BY <1>1, AlikeFields
<1>5. 1 \in Channels /\ b.ring[1] = q /\ b.rd[1] = r /\ b.ready[1] = y
  BY <1>1, AlikeFields, Constants DEF Channels
<1>6. FillOf(b, 1) = Len(q) /\ Written(b, 1) = r + Len(q) /\ \A c \in Channels : FillOf(b, c) = Len(q)
  BY <1>4, <1>5 DEF FillOf, Written
<1>7. \A q1, y1, d1 : RingSized(q1, r, y1) /\ Described(q1, r, d1, 0) => Fits(Alike(q1, r, y1, d1, e), NoPending)
  <2> TAKE q1, y1, d1
  <2> HAVE RingSized(q1, r, y1) /\ Described(q1, r, d1, 0)
  <2>1. (IF e THEN 0 ELSE NoPending.count) = 0
    BY <1>0
  <2>2. PendFits(NoPending, q1, r)
    BY <1>0, Constants DEF PendFits
  <2> QED  BY <1>1, <2>1, <2>2 DEF Fits
<1> DEFINE s == Times(ts, Period)
           n == Lesser(Period, Total - Len(q))
           s1 == SubSeq(s, 1, n)
           q1 == q \o s1
           y1 == y \/ Len(q) + n >= Threshold
           x == [time |-> ts, index |-> r + Len(q), count |-> n]
           X == UpTo(0, q1, q1)
           Z == UpTo(0, y1, y1)
<1>8. s \in Seq(Int) /\ Len(s) = Period /\ \A i \in 1 .. Period : s[i] = ts + i - 1
  <2>1. ts \in Int /\ Period \in Nat
    BY Constants
  <2>2. PICK n0 \in Nat, t0 \in Int : n0 = Period /\ t0 = ts
    BY <2>1, Zenon
  <2>3. /\ Times(t0, n0) \in Seq(Int) /\ Len(Times(t0, n0)) = n0
        /\ \A i \in 1 .. n0 : Times(t0, n0)[i] = t0 + i - 1
    BY ONLY TimesAre, n0 \in Nat, t0 \in Int
  <2> QED  BY <2>2, <2>3
<1>9. CopiedTx(b, ts) = IF ts = 0 THEN b
                        ELSE IF n = 0 THEN WithReady(b, X, Z) ELSE Enqueue(WithReady(b, X, Z), x)
  <2> DEFINE w == [c \in Channels |-> RingWrite(b, c, s)]
  <2>1. \A c \in Channels : w[c].ring[c] = q1 /\ w[c].ready[c] = y1
    <3> TAKE c \in Channels
    <3>1. w[c] = RingWrite(b, c, s)
      OBVIOUS
    <3>2. Lesser(Len(s), Total - FillOf(b, c)) = n
      BY <1>6, <1>8
    <3> HIDE DEF n, s
    <3>3. RingWrite(b, c, s) = [b EXCEPT !.ring[c] = @ \o SubSeq(s, 1, n),
                                         !.ready[c] = @ \/ Len(q) + n >= Threshold]
      BY <3>2, <1>6 DEF RingWrite
    <3>4. PICK R, D, Y : R = UpTo(0, q, q) /\ D = UpTo(0, r, r) /\ Y = UpTo(0, y, y)
      OBVIOUS
    <3>5. b = Buffers(R, D, Y, d, e)
      BY <1>1, <3>4 DEF Alike, Partly
    <3>6. R \in [Channels -> {q}] /\ Y \in [Channels -> {y}]
      BY <3>4 DEF UpTo
    <3>7. RingWrite(b, c, s).ring[c] = q \o s1 /\ RingWrite(b, c, s).ready[c] = y1
      <4> DEFINE z == q \o s1
      <4>1. R[c] = q /\ Y[c] = y /\ b.ring = R /\ b.ready = Y
        BY <3>4, <3>5, <3>6, BufferFields
      <4> HIDE DEF y1
      <4>2. RingWrite(b, c, s) = [[b EXCEPT !.ring = [R EXCEPT ![c] = z]]
                                    EXCEPT !.ready = [Y EXCEPT ![c] = y1]]
        BY <4>1, <3>3, <3>5 DEF Buffers, y1
      <4> HIDE DEF z
      <4>3. [R EXCEPT ![c] = z][c] = z /\ [Y EXCEPT ![c] = y1][c] = y1
        BY <3>6
      <4> QED  BY <4>2, <4>3, <3>5 DEF Buffers, z
    <3> QED  BY <3>1, <3>7
  <2>2. [c \in Channels |-> w[c].ring[c]] = X /\ [c \in Channels |-> w[c].ready[c]] = Z
    BY <2>1 DEF UpTo
  <2>3. CopiedTx(b, ts) =
          LET b1 == [b EXCEPT !.ring = [c \in Channels |-> w[c].ring[c]],
                              !.ready = [c \in Channels |-> w[c].ready[c]]]
          IN IF ts = 0 THEN b ELSE IF n = 0 THEN b1
             ELSE Enqueue(b1, [time |-> ts, index |-> Written(b, 1), count |-> n])
    BY <1>6 DEF CopiedTx, Times
  <2> HIDE DEF w, X, Z, n
  <2> QED  BY <2>2, <2>3, <1>6 DEF WithReady
<1>10. WithReady(b, X, Z) = Alike(q1, r, y1, d, e)
  <2> HIDE DEF q1, y1
  <2>1. PICK R, D, Y : R = UpTo(0, q, q) /\ D = UpTo(0, r, r) /\ Y = UpTo(0, y, y)
    OBVIOUS
  <2>2. b = Buffers(R, D, Y, d, e)
    BY <1>1, <2>1 DEF Alike, Partly
  <2> HIDE DEF X, Z
  <2>3. WithReady(Buffers(R, D, Y, d, e), X, Z) = Buffers(X, D, Z, d, e)
    BY BuffersReplaced
  <2> QED  BY <2>1, <2>2, <2>3 DEF Alike, Partly, X, Z
<1>11. y => y1
  OBVIOUS
<1>12. CASE ts = 0
  <2>1. CopiedTx(b, ts) = b
    BY <1>9, <1>12
  <2> QED  BY <2>1
<1>13. CASE ts # 0 /\ Len(q) = Total
  <2>1. n = 0
    <3>1. Total - Len(q) = 0
      BY <1>13, <1>3, Constants
    <3> QED  BY <3>1, Constants DEF Lesser
  <2>2. q1 = q
    <3>1. q \o SubSeq(s, 1, 0) = q
      BY <1>3, <1>8, NothingAppended
    <3> QED  BY <2>1, <3>1
  <2>3. y1 \in BOOLEAN
    OBVIOUS
  <2>4. RingSized(q, r, y1)
    BY <1>1, <2>3, <1>11 DEF RingSized
  <2>5. CopiedTx(b, ts) = Alike(q, r, y1, d, e)
    BY <1>9, <1>10, <1>13, <2>1, <2>2
  <2> HIDE DEF y1
  <2>6. CopiedTx(b, ts).ready[1] = y1
    BY <2>5, <1>5, AlikeFields
  <2> QED  BY <2>4, <2>5, <2>6, <1>2, <1>5, <1>7, <1>11
<1>14. CASE ts # 0 /\ Len(q) + Period <= Total
  <2>1. n = Period
    <3>1. Period <= Total - Len(q) /\ Total - Len(q) \in Nat
      BY <1>14, <1>3, Constants
    <3> QED  BY <3>1, Constants, LesserOf
  <2>2. q1 = q \o s
    BY <2>1, <1>8, WholeSeq
  <2>3. x \in Descriptors /\ x.count = Period /\ x.index = r + Len(q) /\ x.time = ts
    BY <2>1, <1>3, Constants DEF Descriptors
  <2>4. Described(q \o s, r, Append(d, x), 0)
    <3>1. x.index + Period + 0 = r + Len(q) + Len(s) /\ x.index = r + Len(q) - 0 /\ 0 < Len(s)
      BY <2>3, <1>3, <1>8, Constants
    <3>2. x.time = (q \o s)[x.index - r + 1]
      <4>1. (q \o s)[Len(q) + 1] = s[1] /\ s[1] = ts
        <5>1. 1 \in 1 .. Period /\ 1 \in 1 .. Len(s)
          BY <1>8, Constants
        <5>2. s[1] = ts
          BY <5>1, <1>8
        <5> HIDE DEF s
        <5> QED  BY <5>1, <5>2, <1>3, <1>8, LongerRing
      <4>2. x.index - r + 1 = Len(q) + 1
        BY <2>3, <1>3
      <4> QED  BY <2>3, <4>1, <4>2
    <3> HIDE DEF s, x
    <3> QED  BY <3>1, <3>2, <2>3, <1>2, <1>3, <1>8, EnqueueDescribes
  <2>5. y1 \in BOOLEAN /\ (Len(q) + Len(s) >= Threshold => y1)
    BY <2>1, <1>8
  <2>6. RingSized(q \o s, r, y1)
    <3>1. Len(q) + Len(s) <= Total /\ r + Len(q) + Len(s) <= MaxIndex
      BY <1>6, <1>8, <1>14
    <3> HIDE DEF y1, s
    <3> QED  BY <3>1, <2>5, <1>1, <1>8, LongerIsSized
  <2>7. Len(d) < QueueSize /\ Len(d) \in Nat
    <3>1. Len(d) \in Nat
      BY <1>2 DEF Described
    <3> QED  BY <3>1, <1>2, <1>3, FewDescriptors
  <2>8. CopiedTx(b, ts) = Enqueue(Alike(q1, r, y1, d, e), x)
    BY <1>9, <1>10, <1>14, <2>1, Constants
  <2> HIDE DEF y1, q1, x, s
  <2>9. CopiedTx(b, ts) = Alike(q1, r, y1, Append(d, x), e)
    BY <2>7, <2>8, EnqueueValue
  <2>10. CopiedTx(b, ts).ready[1] = y1
    BY <2>9, <1>5, AlikeFields
  <2> QED  BY <2>2, <2>4, <2>6, <2>9, <2>10, <1>5, <1>7, <1>11
<1> QED  BY <1>6, <1>12, <1>13, <1>14

\* what one channel, and all of them, lose to the samples of the first descriptor
PresentStep(h, b, d, present) ==
  [c \in 0 .. NumChannels |-> IF c = 0 THEN b ELSE Presented(h[c - 1], c, d, present)]

\* The receive copy job ends with what its loop over the channels makes of the last one.
LEMMA PresentedEnds ==
  ASSUME NEW b, NEW d, NEW present, NEW g, g = PresentStep(g, b, d, present), Head(b.desc) = d,
         ToBePresented(b) = present
  PROVE  CopiedRx(b) = IF ResetRequested(b) THEN Flushed(b)
                       ELSE IF b.ready[1] /\ b.desc # <<>> THEN g[NumChannels] ELSE b
<1> DEFINE f == CHOOSE h : h = PresentStep(h, b, Head(b.desc), ToBePresented(b))
<1>1. f = PresentStep(f, b, d, present)
  <2>1. g = PresentStep(g, b, Head(b.desc), ToBePresented(b))
    OBVIOUS
  <2>2. f = PresentStep(f, b, Head(b.desc), ToBePresented(b))
    BY <2>1, Zenon
  <2> HIDE DEF f
  <2> QED  BY <2>2
<1>2. CopiedRx(b) = IF ResetRequested(b) THEN Flushed(b)
                    ELSE IF b.ready[1] /\ b.desc # <<>> THEN f[NumChannels] ELSE b
  BY DEF CopiedRx, PresentStep
<1> HIDE DEF f
<1>3. NumChannels \in Nat /\ 0 \in 0 .. NumChannels
  BY Constants
<1>4. f[0] = b /\ g[0] = b
  BY <1>1, <1>3 DEF PresentStep
<1>5. \A c \in 1 .. NumChannels : f[c - 1] = g[c - 1] => f[c] = g[c]
  <2> TAKE c \in 1 .. NumChannels
  <2>1. c \in 0 .. NumChannels /\ c # 0
    BY <1>3
  <2>2. f[c] = Presented(f[c - 1], c, d, present) /\ g[c] = Presented(g[c - 1], c, d, present)
    BY <1>1, <2>1 DEF PresentStep
  <2> QED  BY <2>2
<1>6. Agree(f, g, NumChannels)
  BY ONLY <1>4, <1>5 DEF Agree
<1>7. f[NumChannels] = g[NumChannels]
  BY ONLY <1>3, <1>6, SameEnds
<1> QED  BY <1>2, <1>7

\* the buffers when m samples have been taken from each channel, or none
Taken(q, r, y, d, e, m, present) ==
  IF present THEN Alike(LeftOf(q, m), ReadTo(q, r, m), y, Rest(d, ReadTo(q, r, m)), e)
  ELSE Alike(q, r, y, d, e)

\* the channels of b are presented one after the other, which ends with the buffers last
Presents(b, d, present, last) ==
  \E g : g = PresentStep(g, b, d, present) /\ g[NumChannels] = last

\* What a copy job takes: the rest of the first descriptor, the same from all channels.
LEMMA PresentedValue ==
  ASSUME NEW q, NEW r \in Nat, NEW y, NEW ds, NEW e, NEW pc \in Nat, NEW present \in BOOLEAN,
         q \in Seq(Int), Described(q, r, ds, pc), ds # <<>>, NEW hd, Head(ds) = hd
  PROVE  \E m \in Nat : Presents(Alike(q, r, y, ds, e), hd, present, Taken(q, r, y, ds, e, m, present))
<1> DEFINE d == Head(ds)
           b == Alike(q, r, y, ds, e)
           m == Period - (r - d.index)
<1>1. /\ d \in Descriptors /\ d.count = Period /\ d.index <= r /\ r < d.index + Period
  <2>1. Head(ds) = ds[1] /\ ds[1] \in Descriptors /\ ds[1].count = Period /\ Covers(ds[1], r)
    BY HeadCovers
  <2> QED  BY <2>1 DEF Covers
<1>2. m \in Nat /\ m \in 0 .. Period /\ d.index \in Nat
  <2>1. d.index \in Nat
    BY <1>1 DEF Descriptors
  <2> HIDE DEF d
  <2> QED  BY <2>1, <1>1, Constants
<1>3. \A c \in Channels : c \in 0 .. NumChannels /\ c - 1 \in 0 .. NumChannels /\ c # 0
  BY Constants DEF Channels
<1>4. NumChannels \in Channels /\ NumChannels \in 0 .. NumChannels /\ NumChannels # 0
  BY Constants DEF Channels
<1>5. \A c \in 0 .. NumChannels : c # 0 => c \in Channels /\ c - 1 \in 0 .. NumChannels /\ c - 1 # NumChannels
  BY Constants DEF Channels
<1>6. \A h, c : c \in Channels /\ h.rd[c] = r =>
        Presented(h, c, d, present)
          = IF present /\ c = NumChannels THEN Consumed(RingRead(h, c, m))
            ELSE IF present THEN RingRead(h, c, m) ELSE h
  <2> TAKE h, c
  <2> HAVE c \in Channels /\ h.rd[c] = r
  <2>1. ~(h.rd[c] < d.index)
    BY <1>1, <1>2
  <2>2. d.count - (h.rd[c] - d.index) = m
    BY <1>1
  <2> HIDE DEF m, d
  <2> QED  BY <2>1, <2>2, <1>2 DEF Presented
<1> HIDE DEF m, d
<1>7. CASE ~present
  <2> DEFINE g == [c \in 0 .. NumChannels |-> b]
  <2>1. \A c \in Channels : Presented(b, c, d, present) = b
    <3>1. \A c \in Channels : b.rd[c] = r
      BY AlikeFields
    <3> HIDE DEF b
    <3> QED  BY <3>1, <1>6, <1>7
  <2>2. g = PresentStep(g, b, d, present)
    <3> HIDE DEF b
    <3> QED  BY <2>1, <1>5 DEF PresentStep
  <2>3. g[NumChannels] = b
    BY <1>4
  <2> HIDE DEF g
  <2>4. g[NumChannels] = Taken(q, r, y, ds, e, m, present)
    BY <2>3, <1>7 DEF Taken
  <2>5. d = hd
    BY DEF d
  <2> HIDE DEF b
  <2>6. Presents(b, hd, present, Taken(q, r, y, ds, e, m, present))
    BY <2>2, <2>4, <2>5 DEF Presents
  <2> QED  BY <2>6, <1>2 DEF b
<1>8. CASE present
  <2> DEFINE q1 == LeftOf(q, m)
             r1 == ReadTo(q, r, m)
             H(c) == Partly(q1, r1, y, q, r, y, ds, e, c)
             final == Alike(q1, r1, y, Rest(ds, r1), e)
             g == [c \in 0 .. NumChannels |-> IF c = NumChannels THEN final ELSE H(c)]
  <2>1. r1 \in Nat
    <3>1. Lesser(m, Len(q)) \in Nat
      BY <1>2, LesserOf
    <3> QED  BY <3>1 DEF ReadTo
  <2>2. \A c \in Channels :
          Presented(H(Before(c)), c, d, present) = IF c = NumChannels THEN final ELSE H(c)
    <3> SUFFICES ASSUME NEW c \in Channels
                 PROVE  Presented(H(Before(c)), c, d, present) = IF c = NumChannels THEN final ELSE H(c)
      OBVIOUS
    <3> DEFINE p == H(Before(c))
    <3>1. RingRead(p, c, m) = H(c)
      BY <1>2, ReadOne
    <3>2. p.rd[c] = r
      BY PartlyFields
    <3>3. H(NumChannels) = Alike(q1, r1, y, ds, e)
      BY PartlyEnds
    <3>4. Consumed(H(NumChannels)) = final
      BY <3>3, <2>1, ConsumedValue
    <3> HIDE DEF H, final, p
    <3>5. Presented(p, c, d, present)
            = IF c = NumChannels THEN Consumed(RingRead(p, c, m)) ELSE RingRead(p, c, m)
      BY <3>2, <1>6, <1>8
    <3> QED  BY <3>1, <3>4, <3>5 DEF p
  <2>3. H(0) = b
    BY PartlyEnds
  <2>4. g = PresentStep(g, b, d, present)
    <3> HIDE DEF b, H, final
    <3>1. \A c \in 0 .. NumChannels : c # 0 => g[c - 1] = H(Before(c))
      BY <1>5 DEF Before
    <3>2. g[0] = H(0)
      BY <1>4, <1>5, Constants
    <3>3. \A c \in 0 .. NumChannels : g[c] = IF c = 0 THEN b ELSE Presented(g[c - 1], c, d, present)
      <4> TAKE c \in 0 .. NumChannels
      <4>1. CASE c = 0
        BY <4>1, <3>2, <2>3
      <4>2. CASE c # 0
        <5>1. g[c - 1] = H(Before(c)) /\ c \in Channels
          BY <4>2, <3>1, <1>5
        <5>2. g[c] = IF c = NumChannels THEN final ELSE H(c)
          OBVIOUS
        <5> HIDE DEF g
        <5> QED  BY <5>1, <5>2, <4>2, <2>2
      <4> QED  BY <4>1, <4>2
    <3>4. g = [c \in 0 .. NumChannels |-> g[c]]
      OBVIOUS
    <3> HIDE DEF g
    <3> QED  BY <3>3, <3>4 DEF PresentStep
  <2>5. g[NumChannels] = final
    BY <1>4
  <2> HIDE DEF g
  <2>6. g[NumChannels] = Taken(q, r, y, ds, e, m, present)
    BY <2>5, <1>8 DEF Taken
  <2>7. d = hd
    BY DEF d
  <2> HIDE DEF b
  <2>8. Presents(b, hd, present, Taken(q, r, y, ds, e, m, present))
    BY <2>4, <2>6, <2>7 DEF Presents
  <2> QED  BY <2>8, <1>2 DEF b
<1> QED  BY <1>7, <1>8

\* The copy job of a receive stream.
LEMMA CopiedRxFits ==
  ASSUME NEW b, NEW p \in PendingRecords, Fits(b, p)
  PROVE  /\ Fits(CopiedRx(b), p)
         /\ ~b.ready[1] => CopiedRx(b) = b \/ CopiedRx(b) = Empty(TRUE)
         /\ CopiedRx(b) = Empty(TRUE) \/ CopiedRx(b).req = b.req
<1>1. PICK q, r, y, d, e :
        /\ b = Alike(q, r, y, d, e) /\ e \in BOOLEAN
        /\ RingSized(q, r, y) /\ Described(q, r, d, IF e THEN 0 ELSE p.count)
        /\ ~e => PendFits(p, q, r)
  BY DEF Fits
<1> DEFINE pc == IF e THEN 0 ELSE p.count
<1>2. pc \in Nat /\ p.count \in Nat /\ p.index \in Nat
  BY <1>1 DEF PendingRecords
<1>3. Described(q, r, d, pc)
  BY <1>1
<1>4. 1 \in Channels
  BY Constants DEF Channels
<1>5. b.ready[1] = y /\ b.desc = d /\ b.req = e
  BY <1>1, <1>4, AlikeFields
<1>6. q \in Seq(Int) /\ r \in Nat /\ y \in BOOLEAN
  BY <1>1 DEF RingSized
<1>7. CASE ResetRequested(b)
  <2>1. CopiedRx(b) = Empty(TRUE)
    BY <1>7 DEF CopiedRx, Flushed
  <2>2. Fits(Empty(TRUE), p)
    BY EmptyFits
  <2> QED  BY <2>1, <2>2
<1>8. CASE ~ResetRequested(b) /\ ~(y /\ d # <<>>)
  <2>1. CopiedRx(b) = b
    BY <1>5, <1>8 DEF CopiedRx
  <2> QED  BY <2>1
<1>9. CASE ~ResetRequested(b) /\ y /\ d # <<>>
  <2> HIDE DEF pc
  <2>1. PICK present \in BOOLEAN : ToBePresented(b) = present
    BY DEF ToBePresented
  <2> DEFINE hd == Head(d)
  <2>6. Head(d) = hd
    OBVIOUS
  <2> HIDE DEF hd
  <2>7. PICK m \in Nat : Presents(Alike(q, r, y, d, e), hd, present, Taken(q, r, y, d, e, m, present))
    BY <1>2, <1>3, <1>6, <1>9, <2>6, PresentedValue
  <2>2. PICK g : /\ g = PresentStep(g, Alike(q, r, y, d, e), hd, present)
                 /\ g[NumChannels] = Taken(q, r, y, d, e, m, present)
    BY <2>7 DEF Presents
  <2>3. CopiedRx(b) = g[NumChannels]
    <3>2. g = PresentStep(g, b, hd, present) /\ Head(b.desc) = hd
      BY <2>2, <2>6, <1>1, <1>5
    <3>3. CopiedRx(b) = IF ResetRequested(b) THEN Flushed(b)
                        ELSE IF b.ready[1] /\ b.desc # <<>> THEN g[NumChannels] ELSE b
      BY <3>2, <2>1, PresentedEnds
    <3> QED  BY <3>3, <1>5, <1>9
  <2>4. CASE ~present
    BY <2>2, <2>3, <2>4, <1>1, <1>9, <1>5 DEF Taken
  <2>5. CASE present
    <3> DEFINE q1 == LeftOf(q, m)
               r1 == ReadTo(q, r, m)
               d1 == Rest(d, ReadTo(q, r, m))
    <3>1. CopiedRx(b) = Alike(q1, r1, y, d1, e)
      BY <2>2, <2>3, <2>5 DEF Taken
    <3>2. /\ RingSized(LeftOf(q, m), ReadTo(q, r, m), y)
          /\ Described(LeftOf(q, m), ReadTo(q, r, m), Rest(d, ReadTo(q, r, m)), pc)
      BY <1>1, <1>2, <1>3, ReadKeepsDescribed
    <3>3. ~e => PendFits(p, q1, r1)
      <4>1. PendFits(p, q, r) => PendFits(p, q1, r1)
        <5> SUFFICES ASSUME PendFits(p, q, r) PROVE PendFits(p, q1, r1)
          OBVIOUS
        <5> QED  BY <1>2, <1>6, PendingKept
      <4> QED  BY <4>1, <1>1
    <3> HIDE DEF q1, r1, d1
    <3>4. Fits(CopiedRx(b), p)
      <4>1. RingSized(q1, r1, y) /\ Described(q1, r1, d1, pc) /\ e \in BOOLEAN
        BY <3>2, <1>1 DEF q1, r1, d1
      <4> QED  BY <4>1, <3>1, <3>3 DEF Fits, pc
    <3>5. CopiedRx(b).req = e
      BY <3>1, AlikeFields
    <3> QED  BY <3>4, <3>5, <1>5, <1>9
  <2> QED  BY <2>4, <2>5
<1> QED  BY <1>6, <1>7, <1>8, <1>9

\* no reset is requested
NoReset == FALSE

\* one channel and then the next is written
WriteChannel(b, c, active, s) ==
  IF active /\ Lesser(Packet, Total - FillOf(b, c)) # Packet THEN ResetBuffers(RingWrite(b, c, s))
  ELSE RingWrite(b, c, s)

WriteStep(h, b, active, s) ==
  [c \in 0 .. NumChannels |-> IF c = 0 THEN b ELSE WriteChannel(h[c - 1], c, active, s)]

\* buffers with room for a packet of samples s, and after it
Room(b, q, r, y, d, s) ==
  /\ b = Alike(q, r, y, d, NoReset)
  /\ q \in Seq(Int) /\ s \in Seq(Int) /\ Len(s) = Packet /\ Len(q) + Packet <= Total
WrittenUpTo(q, r, y, d, s, n) == Partly(Longer(q, s), r, NowReady(q, s, y), q, r, y, d, NoReset, n)

\* All channels are written in the same way.
LEMMA WriteAllValue ==
  ASSUME NEW b, NEW q, NEW r, NEW y, NEW d, NEW s, Room(b, q, r, y, d, s), NEW active \in BOOLEAN,
         NEW f, f = CHOOSE h : h = WriteStep(h, b, active, s)
  PROVE  /\ f[NumChannels] = WrittenUpTo(q, r, y, d, s, NumChannels)
         /\ f[NumChannels - 1] = WrittenUpTo(q, r, y, d, s, NumChannels - 1)
<1> DEFINE H(n) == WrittenUpTo(q, r, y, d, s, n)
           g == [c \in 0 .. NumChannels |-> H(c)]
<1>1. /\ b = Alike(q, r, y, d, NoReset) /\ q \in Seq(Int) /\ s \in Seq(Int) /\ Len(s) = Packet
      /\ Len(q) \in Nat /\ Len(q) + Packet <= Total
  BY DEF Room
<1>2. \A c \in 0 .. NumChannels : c # 0 => c \in Channels /\ c - 1 \in 0 .. NumChannels
  BY Constants DEF Channels
<1>3. H(0) = b
  BY <1>1, PartlyEnds DEF WrittenUpTo
<1>4. \A c \in Channels : WriteChannel(H(Before(c)), c, active, s) = H(c)
  <2> TAKE c \in Channels
  <2> DEFINE p == H(Before(c))
  <2>1. RingWrite(p, c, s) = H(c)
    BY <1>1, WriteOne DEF WrittenUpTo
  <2>2. p.ring[c] = q
    BY PartlyFields DEF WrittenUpTo
  <2> HIDE DEF p, H
  <2>3. Lesser(Packet, Total - FillOf(p, c)) = Packet
    <3>1. FillOf(p, c) = Len(q)
      BY <2>2 DEF FillOf
    <3>2. Packet <= Total - Len(q) /\ Total - Len(q) \in Nat /\ Packet \in Nat
      BY <1>1, Constants
    <3> QED  BY <3>1, <3>2, LesserOf
  <2> QED  BY <2>1, <2>3 DEF WriteChannel, p
<1> HIDE DEF H
<1>5. g = WriteStep(g, b, active, s)
  <2>1. \A c \in 0 .. NumChannels : g[c] = IF c = 0 THEN b ELSE WriteChannel(g[c - 1], c, active, s)
    <3> TAKE c \in 0 .. NumChannels
    <3>1. CASE c = 0
      BY <3>1, <1>3
    <3>2. CASE c # 0
      <4>1. g[c - 1] = H(Before(c)) /\ c \in Channels /\ g[c] = H(c)
        BY <3>2, <1>2 DEF Before
      <4> HIDE DEF g
      <4> QED  BY <4>1, <3>2, <1>4
    <3> QED  BY <3>1, <3>2
  <2>2. g = [c \in 0 .. NumChannels |-> g[c]]
    OBVIOUS
  <2> HIDE DEF g
  <2> QED  BY <2>1, <2>2 DEF WriteStep
<1>6. f = WriteStep(f, b, active, s)
  <2> HIDE DEF g
  <2> QED  BY <1>5, Zenon
<1>7. f[0] = g[0] /\ \A c \in 1 .. NumChannels : f[c - 1] = g[c - 1] => f[c] = g[c]
  <2> HIDE DEF g
  <2>1. \A c \in 1 .. NumChannels : c \in 0 .. NumChannels /\ c # 0
    BY Constants
  <2>2. 0 \in 0 .. NumChannels
    BY Constants
  <2>3. \A c \in 0 .. NumChannels :
          /\ f[c] = (IF c = 0 THEN b ELSE WriteChannel(f[c - 1], c, active, s))
          /\ g[c] = (IF c = 0 THEN b ELSE WriteChannel(g[c - 1], c, active, s))
    BY ONLY <1>5, <1>6 DEF WriteStep
  <2> QED  BY <2>1, <2>2, <2>3
<1>8. f[NumChannels] = g[NumChannels]
  <2> HIDE DEF g
  <2>1. NumChannels \in Nat
    BY Constants
  <2>2. Agree(f, g, NumChannels)
    BY <1>7 DEF Agree
  <2> QED  BY ONLY <2>1, <2>2, SameEnds
<1>9. f[NumChannels - 1] = g[NumChannels - 1]
  <2> HIDE DEF g
  <2> DEFINE N == NumChannels - 1
  <2>1. N \in Nat /\ \A c \in 1 .. N : c \in 1 .. NumChannels
    BY Constants
  <2>2. \A c \in 1 .. N : f[c - 1] = g[c - 1] => f[c] = g[c]
    BY <2>1, <1>7
  <2> HIDE DEF N
  <2>3. Agree(f, g, N)
    BY <1>7, <2>2 DEF Agree
  <2>4. N \in Nat
    BY <2>1
  <2>5. f[N] = g[N]
    BY ONLY <2>3, <2>4, SameEnds
  <2> QED  BY <2>5 DEF N
<1>10. NumChannels \in 0 .. NumChannels /\ NumChannels - 1 \in 0 .. NumChannels
  BY Constants
<1> QED  BY <1>8, <1>9, <1>10 DEF H

\* what a packet makes of the buffers and of the pending descriptor p, when b has been written
PendAfter(p, b, ts) == Collected(p, b, Packet, ts)
DescAfter(p, b, ts) ==
  [time |-> PendAfter(p, b, ts).time, index |-> PendAfter(p, b, ts).index, count |-> Period]
BufWrote(p, b, ts) == IF PendAfter(p, b, ts).samples >= Period THEN Enqueue(b, DescAfter(p, b, ts)) ELSE b
PendWrote(p, b, ts) == Completed(PendAfter(p, b, ts), b, ts)

\* What writeLocalAudioBuffer() does to all channels when there is room in each.
LEMMA WriteLocalValue ==
  ASSUME NEW b0, NEW b1, NEW p0, NEW q, NEW r, NEW y, NEW d, NEW active \in BOOLEAN, NEW ts \in Nat,
         (IF active /\ OverrunAhead(b0) THEN ResetBuffers(b0) ELSE b0) = b1,
         Room(WithReq(b1, NoReset), q, r, y, d, Times(ts, Packet))
  PROVE  LET p == IF b1.req THEN NoPending ELSE p0
             b3 == Alike(Longer(q, Times(ts, Packet)), r, NowReady(q, Times(ts, Packet), y), d, NoReset)
         IN /\ WriteLocal(b0, p0, active, ts).buf = BufWrote(p, b3, ts)
            /\ WriteLocal(b0, p0, active, ts).pend = PendWrote(p, b3, ts)
<1> DEFINE s == Times(ts, Packet)
           B == IF active /\ OverrunAhead(b0) THEN ResetBuffers(b0) ELSE b0
           b2 == WithReq(B, NoReset)
           f == CHOOSE h : h = WriteStep(h, b2, active, s)
           n == Lesser(Packet, Total - FillOf(f[NumChannels - 1], NumChannels))
           p == IF B.req THEN NoPending ELSE p0
           b3 == Alike(Longer(q, s), r, NowReady(q, s, y), d, NoReset)
           W(b4, n1) ==
             IF n1 = 0 \/ (active /\ n1 # Packet) THEN [buf |-> b4, pend |-> p]
             ELSE [buf |-> IF Collected(p, b4, n1, ts).samples >= Period
                           THEN Enqueue(b4, [time |-> Collected(p, b4, n1, ts).time,
                                             index |-> Collected(p, b4, n1, ts).index, count |-> Period])
                           ELSE b4,
                   pend |-> Completed(Collected(p, b4, n1, ts), b4, ts)]
<1>1. WriteLocal(b0, p0, active, ts) = W(f[NumChannels], n)
  BY DEF WriteLocal, WriteStep, WriteChannel, Times, WithReq, NoReset
<1>2. /\ f[NumChannels] = WrittenUpTo(q, r, y, d, s, NumChannels)
      /\ f[NumChannels - 1] = WrittenUpTo(q, r, y, d, s, NumChannels - 1)
  <2> DEFINE ff == f
  <2>1. ff = CHOOSE h : h = WriteStep(h, b2, active, s)
    OBVIOUS
  <2> HIDE DEF ff, b2, s
  <2>2. Room(b2, q, r, y, d, s)
    <3>1. B = b1
      OBVIOUS
    <3> HIDE DEF B
    <3> QED  BY <3>1 DEF b2, s
  <2>3. /\ ff[NumChannels] = WrittenUpTo(q, r, y, d, s, NumChannels)
        /\ ff[NumChannels - 1] = WrittenUpTo(q, r, y, d, s, NumChannels - 1)
    BY <2>1, <2>2, WriteAllValue
  <2> QED  BY <2>3 DEF ff
<1>3. f[NumChannels] = b3
  BY <1>2, PartlyEnds DEF WrittenUpTo
<1>4. n = Packet
  <2>1. NumChannels \in Channels /\ Before(NumChannels) = NumChannels - 1
    BY Constants DEF Channels, Before
  <2>2. f[NumChannels - 1].ring[NumChannels] = q
    <3>1. WrittenUpTo(q, r, y, d, s, Before(NumChannels)).ring[NumChannels] = q
      BY <2>1, PartlyFields DEF WrittenUpTo
    <3> QED  BY <1>2, <2>1, <3>1
  <2>3. Packet <= Total - Len(q) /\ Total - Len(q) \in Nat /\ Packet \in Nat
    BY Constants DEF Room
  <2> QED  BY <2>2, <2>3, LesserOf DEF FillOf
<1> HIDE DEF f, n, b3, p
<1>5. WriteLocal(b0, p0, active, ts) = W(b3, Packet)
  BY <1>1, <1>3, <1>4
<1>6. Packet # 0
  BY Constants
<1>7. /\ WriteLocal(b0, p0, active, ts).buf = BufWrote(p, b3, ts)
      /\ WriteLocal(b0, p0, active, ts).pend = PendWrote(p, b3, ts)
  BY <1>5, <1>6 DEF BufWrote, PendWrote, PendAfter, DescAfter
<1>8. B = b1
  OBVIOUS
<1> HIDE DEF B
<1> QED  BY <1>7, <1>8 DEF p, b3

\* A product is divided by one of its factors.
LEMMA FactorDivided ==
  ASSUME NEW a \in Nat, NEW k \in Nat, a >= 1
  PROVE  (a * k) \div a = k
<1>1. PICK z \in Nat : z = a * k
  OBVIOUS
<1>2. PICK m \in Nat : m = z \div a
  <2>1. z \div a \in Nat
    OBVIOUS
  <2> QED  BY <2>1
<1>3. m * a <= z /\ z < (m + 1) * a
  BY <1>2
<1>4. m * a < (k + 1) * a /\ k * a < (m + 1) * a
  <2>1. (k + 1) * a = z + a /\ k * a = z
    BY <1>1
  <2> QED  BY <2>1, <1>3
<1>5. m < k + 1 /\ k < m + 1
  BY <1>4, SmallerFactor
<1> QED  BY <1>1, <1>2, <1>5

\* The time of a descriptor that has waited for the next packet.
LEMMA InterpolatedTime ==
  ASSUME NEW p \in PendingRecords, NEW ts \in Nat, p.count > 0, p.count < Packet, p.lastCnt = Packet,
         ts = p.lastTime + Packet
  PROVE  PendingTime(p, ts) = p.lastTime + Packet - p.count
<1>1. PICK c \in Nat, l \in Nat, w \in Nat : c = p.count /\ l = p.lastTime /\ w = Packet
  BY Constants DEF PendingRecords
<1>2. PICK k \in Nat : k = w - c
  BY <1>1
<1>3. (w * k) \div w = k
  BY <1>1, <1>2, Constants, FactorDivided
<1>4. PendingTime(p, ts) = l + ((ts - l) * (w - c)) \div w
  BY <1>1, Constants DEF PendingTime
<1>5. ts - l = w
  BY <1>1
<1> QED  BY <1>1, <1>2, <1>3, <1>4, <1>5

\* a pending descriptor, field by field
Pending(t, i, c, n, lc, lt) ==
  [time |-> t, index |-> i, count |-> c, samples |-> n, lastCnt |-> lc, lastTime |-> lt]

\* The fields of a pending descriptor.
LEMMA PendingFields ==
  ASSUME NEW t, NEW i, NEW c, NEW n, NEW lc, NEW lt
  PROVE  LET p == Pending(t, i, c, n, lc, lt) IN
         /\ p.time = t /\ p.index = i /\ p.count = c /\ p.samples = n /\ p.lastCnt = lc
         /\ p.lastTime = lt
         /\ t \in Nat /\ i \in Nat /\ c \in 0 .. Period - 1 /\ n \in Nat /\ lc \in Nat /\ lt \in Nat
              => p \in PendingRecords
BY DEF Pending, PendingRecords

\* t, i and lt are the time, the index and the last time of the pending descriptor p after it
Collects(t, i, lt, p, b, q, r, ts) ==
  /\ PendAfter(p, b, ts) = Pending(t, i, p.count + Packet, p.count + Packet, p.lastCnt, lt)
  /\ t # 0 /\ i = r + Len(q) - p.count /\ p.count <= r + Len(q)
  /\ i >= r => t = Longer(q, Times(ts, Packet))[i - r + 1]

\* The pending descriptor with the samples of a packet, before it is seen to be complete.
LEMMA CollectedIs ==
  ASSUME NEW q, NEW r, NEW y, RingSized(q, r, y), NEW p \in PendingRecords, PendFits(p, q, r),
         NEW ts \in Nat, ts >= 1, p.count > 0 /\ p.time = 0 => ts = p.lastTime + Packet,
         NEW b, Written(b, NumChannels) = r + Len(q) + Packet
  PROVE  \E t \in Nat, i \in Nat, lt \in Nat : Collects(t, i, lt, p, b, q, r, ts)
<1> DEFINE s == Times(ts, Packet)
<1>1. PICK c \in Nat, n \in Nat, w \in Nat : c = p.count /\ n = Len(q) /\ w = Packet
  BY Constants DEF RingSized, PendingRecords
<1>2. /\ p.time \in Nat /\ p.index \in Nat /\ p.lastCnt \in Nat /\ p.lastTime \in Nat /\ p.samples = c
      /\ (c = 0 => p.time = 0)
      /\ p = Pending(p.time, p.index, c, c, p.lastCnt, p.lastTime)
  <2>1. p.samples = c /\ (c = 0 => p.time = 0)
    BY <1>1 DEF PendFits
  <2>2. p.time \in Nat /\ p.index \in Nat /\ p.lastCnt \in Nat /\ p.lastTime \in Nat
    BY DEF PendingRecords
  <2>3. p = [time |-> p.time, index |-> p.index, count |-> p.count, samples |-> p.samples,
             lastCnt |-> p.lastCnt, lastTime |-> p.lastTime]
    BY DEF PendingRecords
  <2> QED  BY <2>1, <2>2, <2>3, <1>1 DEF Pending
<1>3. q \in Seq(Int) /\ r \in Nat
  BY DEF RingSized
<1>4. s \in Seq(Int) /\ Len(s) = w /\ \A j \in 1 .. w : s[j] = ts + j - 1
  <2>1. PICK t0 \in Int : t0 = ts
    OBVIOUS
  <2>2. /\ Times(t0, w) \in Seq(Int) /\ Len(Times(t0, w)) = w
        /\ \A j \in 1 .. w : Times(t0, w)[j] = t0 + j - 1
    BY ONLY TimesAre, t0 \in Int, w \in Nat
  <2> QED  BY <2>1, <2>2, <1>1
<1> HIDE DEF s
<1>5. /\ \A j \in 1 .. n : Longer(q, s)[j] = q[j]
      /\ \A j \in 1 .. w : Longer(q, s)[n + j] = s[j]
  <2>1. /\ \A j \in 1 .. Len(q) : (q \o s)[j] = q[j]
        /\ \A j \in 1 .. Len(s) : (q \o s)[Len(q) + j] = s[j]
    BY <1>3, <1>4, LongerRing
  <2> QED  BY <2>1, <1>1, <1>4 DEF Longer
<1>6. c > 0 => /\ p.index + c = r + n
               /\ p.index >= r =>
                    q[p.index - r + 1] = (IF p.time # 0 THEN p.time ELSE p.lastTime + Packet - c)
               /\ p.time = 0 => p.lastCnt = Packet /\ c < Packet
  BY <1>1 DEF PendFits
<1>7. c > 0 /\ p.index >= r => Longer(q, s)[p.index - r + 1] = q[p.index - r + 1]
  <2> SUFFICES ASSUME c > 0, p.index >= r PROVE p.index - r + 1 \in 1 .. n
    BY <1>5
  <2>1. PICK x \in Nat : x = p.index
    BY <1>2
  <2>2. x + c = r + n
    BY <1>6, <2>1
  <2> QED  BY <2>1, <2>2, <1>3
<1> DEFINE Goal(t, i, lt) ==
             /\ PendAfter(p, b, ts) = Pending(t, i, p.count + Packet, p.count + Packet, p.lastCnt, lt)
             /\ t # 0 /\ i = r + n - p.count /\ p.count <= r + n
             /\ i >= r => t = Longer(q, s)[i - r + 1]
<1> SUFFICES \E t \in Nat, i \in Nat, lt \in Nat : Goal(t, i, lt)
  BY <1>1 DEF s, Collects
<1>8. CASE p.time # 0
  <2>1. PICK x \in Nat : x = p.index
    BY <1>2
  <2>2. x + c = r + n /\ c > 0
    BY <1>2, <1>6, <1>8, <2>1
  <2>3. PendAfter(p, b, ts) = [p EXCEPT !.count = @ + Packet, !.samples = @ + Packet]
    BY <1>8 DEF PendAfter, Collected
  <2>4. PendAfter(p, b, ts) = Pending(p.time, p.index, c + Packet, c + Packet, p.lastCnt, p.lastTime)
    <3>1. PICK p1 : p1 = [p EXCEPT !.count = @ + Packet]
      OBVIOUS
    <3>2. p1 = Pending(p.time, p.index, c + Packet, c, p.lastCnt, p.lastTime)
      BY <3>1, <1>2 DEF Pending
    <3>3. PendAfter(p, b, ts) = [p1 EXCEPT !.samples = @ + Packet]
      BY <2>3, <3>1
    <3> QED  BY <3>2, <3>3 DEF Pending
  <2>5. p.index >= r => p.time = Longer(q, s)[p.index - r + 1]
    BY <1>6, <1>7, <1>8, <2>2
  <2>6. p.index = r + n - c /\ c <= r + n
    BY <2>1, <2>2, <1>3
  <2>7. Goal(p.time, p.index, p.lastTime)
    BY <2>4, <2>5, <2>6, <1>1, <1>8
  <2> HIDE DEF Goal
  <2> QED  BY <2>7, <1>2
<1>9. CASE p.time = 0
  <2> DEFINE t == PendingTime(p, ts)
             i == IF p.count = 0 THEN Written(b, NumChannels) - Packet ELSE p.index
  <2>1. PendAfter(p, b, ts) = [p EXCEPT !.time = t, !.lastTime = ts, !.index = i,
                                        !.count = @ + Packet, !.samples = @ + Packet]
    BY <1>9 DEF PendAfter, Collected
  <2>2. PendAfter(p, b, ts) = Pending(t, i, c + Packet, c + Packet, p.lastCnt, ts)
    <3> HIDE DEF t, i
    <3>1. PICK p1 : p1 = [p EXCEPT !.time = t, !.lastTime = ts, !.index = i]
      OBVIOUS
    <3>2. PICK p2 : p2 = [p1 EXCEPT !.count = @ + Packet]
      OBVIOUS
    <3>3. p1 = Pending(t, i, c, c, p.lastCnt, ts)
      <4>1. PICK p3 : p3 = [p EXCEPT !.time = t]
        OBVIOUS
      <4>2. PICK p4 : p4 = [p3 EXCEPT !.lastTime = ts]
        OBVIOUS
      <4>3. p3 = Pending(t, p.index, c, c, p.lastCnt, p.lastTime)
        BY <4>1, <1>2 DEF Pending
      <4>4. p4 = Pending(t, p.index, c, c, p.lastCnt, ts)
        BY <4>2, <4>3 DEF Pending
      <4>5. p1 = [p4 EXCEPT !.index = i]
        BY <3>1, <4>1, <4>2
      <4> QED  BY <4>4, <4>5 DEF Pending
    <3>4. p2 = Pending(t, i, c + Packet, c, p.lastCnt, ts)
      BY <3>2, <3>3 DEF Pending
    <3>5. PendAfter(p, b, ts) = [p2 EXCEPT !.samples = @ + Packet]
      BY <2>1, <3>1, <3>2
    <3> QED  BY <3>4, <3>5 DEF Pending
  <2>3. CASE c = 0
    <3>1. t = ts /\ i = r + n
      <4>1. t = ts
        BY <2>3, <1>1 DEF PendingTime
      <4>2. i = r + n
        <5>1. p.count = 0
          BY <2>3, <1>1
        <5>2. Written(b, NumChannels) - Packet = r + n
          BY <1>1, <1>3
        <5> QED  BY <5>1, <5>2
      <4> QED  BY <4>1, <4>2
    <3>2. Longer(q, s)[i - r + 1] = ts
      <4>1. 1 \in 1 .. w
        BY <1>1, Constants
      <4>2. Longer(q, s)[n + 1] = s[1] /\ s[1] = ts + 1 - 1
        BY <4>1, <1>4, <1>5
      <4>3. i - r + 1 = n + 1
        BY <3>1, <1>3
      <4> QED  BY <4>2, <4>3
    <3>3. i = r + n - c /\ c <= r + n /\ i \in Nat
      BY <3>1, <2>3, <1>3
    <3> HIDE DEF t, i
    <3>4. Goal(t, i, ts)
      BY <3>1, <3>2, <3>3, <2>2, <1>1
    <3> HIDE DEF Goal
    <3> QED  BY <3>4, <3>1, <3>3
  <2>4. CASE c > 0
    <3>1. p.lastCnt = Packet /\ c < Packet /\ ts = p.lastTime + Packet
      BY <2>4, <1>6, <1>9, <1>1
    <3>2. t = p.lastTime + Packet - c
      BY <3>1, <2>4, <1>1, InterpolatedTime
    <3>3. t \in Nat /\ t # 0
      BY <3>1, <3>2, <1>1, <1>2, Constants
    <3>4. PICK x \in Nat : x = p.index
      BY <1>2
    <3>5. i = x /\ x + c = r + n
      <4>1. i = p.index
        BY <2>4, <1>1
      <4> QED  BY <4>1, <2>4, <1>6, <3>4
    <3>6. i >= r => t = Longer(q, s)[i - r + 1]
      BY <1>6, <1>7, <1>9, <2>4, <3>2, <3>4, <3>5
    <3>7. i = r + n - c /\ c <= r + n /\ i \in Nat
      BY <3>5, <1>3
    <3> HIDE DEF t, i
    <3>8. Goal(t, i, ts)
      BY <3>3, <3>6, <3>7, <2>2, <1>1
    <3> HIDE DEF Goal
    <3> QED  BY <3>3, <3>7, <3>8
  <2> QED  BY <2>3, <2>4, <1>1
<1> QED  BY <1>8, <1>9

\* a pending descriptor without time waits for the packet after the one with time lt
PendWaits(p, lt) == p.count > 0 /\ p.time = 0 => p.lastTime = lt

\* A packet that fits leaves buffers and a pending descriptor that fit.
LEMMA WroteFits ==
  ASSUME Sized, NEW q, NEW r, NEW y, NEW d, RingSized(q, r, y), NEW p \in PendingRecords,
         PendFits(p, q, r), Described(q, r, d, p.count),
         NEW ts \in Nat, ts >= 1, p.count > 0 /\ p.time = 0 => ts = p.lastTime + Packet,
         Len(q) + Packet <= Total, r + Len(q) + Packet <= MaxIndex,
         NEW b, b = Alike(Longer(q, Times(ts, Packet)), r, NowReady(q, Times(ts, Packet), y), d, NoReset)
  PROVE  /\ Fits(BufWrote(p, b, ts), PendWrote(p, b, ts))
         /\ PendWrote(p, b, ts) \in PendingRecords
         /\ BufWrote(p, b, ts).req = FALSE
         /\ PendWaits(PendWrote(p, b, ts), ts)
<1> DEFINE s == Times(ts, Packet)
           q1 == Longer(q, s)
           y1 == NowReady(q, s, y)
<1>1. PICK c \in Nat, n \in Nat, w \in Nat : c = p.count /\ n = Len(q) /\ w = Packet
  BY Constants DEF RingSized, PendingRecords
<1>2. q \in Seq(Int) /\ r \in Nat /\ y \in BOOLEAN
  BY DEF RingSized
<1>3. s \in Seq(Int) /\ Len(s) = w /\ \A j \in 1 .. w : s[j] = ts + j - 1
  <2>1. PICK t0 \in Int : t0 = ts
    OBVIOUS
  <2>2. /\ Times(t0, w) \in Seq(Int) /\ Len(Times(t0, w)) = w
        /\ \A j \in 1 .. w : Times(t0, w)[j] = t0 + j - 1
    BY ONLY TimesAre, t0 \in Int, w \in Nat
  <2> QED  BY <2>1, <2>2, <1>1
<1>4. y1 \in BOOLEAN /\ (Len(q) + Len(s) >= Threshold => y1)
  BY <1>2 DEF NowReady
<1>5. b = Alike(q1, r, y1, d, NoReset)
  OBVIOUS
<1> HIDE DEF s, y1
<1>6. /\ q1 \in Seq(Int) /\ Len(q1) = n + w
      /\ \A j \in 1 .. w : q1[n + j] = s[j]
      /\ q1 = q \o s
  <2>1. /\ q \o s \in Seq(Int) /\ Len(q \o s) = Len(q) + Len(s)
        /\ \A j \in 1 .. Len(s) : (q \o s)[Len(q) + j] = s[j]
    BY <1>2, <1>3, LongerRing
  <2> QED  BY <2>1, <1>1, <1>3 DEF Longer
<1>7. RingSized(q1, r, y1)
  <2>1. RingSized(q \o s, r, y1)
    <3>1. Len(q) + Len(s) <= Total /\ r + Len(q) + Len(s) <= MaxIndex
      BY <1>1, <1>3
    <3> QED  BY <3>1, <1>3, <1>4, LongerIsSized
  <2> QED  BY <2>1, <1>6
<1> HIDE DEF q1
<1>8. Written(b, NumChannels) = r + Len(q) + Packet
  <2>1. NumChannels \in Channels
    BY Constants DEF Channels
  <2>2. b.ring[NumChannels] = q1 /\ b.rd[NumChannels] = r
    BY <2>1, <1>5, AlikeFields
  <2>3. Written(b, NumChannels) = r + (n + w)
    BY <2>2, <1>6 DEF Written, FillOf
  <2> QED  BY <2>3, <1>1, <1>2
<1>9. PICK t \in Nat, i \in Nat, lt \in Nat : Collects(t, i, lt, p, b, q, r, ts)
  BY <1>8, CollectedIs
<1>10. /\ t # 0 /\ i + c = r + n
       /\ i >= r => t = q1[i - r + 1]
  <2>1. i + c = r + n
    <3>1. i = r + n - c
      BY <1>9, <1>1 DEF Collects
    <3>2. \A i1, r1, n1, c1 \in Nat : i1 = r1 + n1 - c1 => i1 + c1 = r1 + n1
      OBVIOUS
    <3>3. r \in Nat
      BY <1>2
    <3> QED  BY ONLY <3>1, <3>2, <3>3, i \in Nat, n \in Nat, c \in Nat
  <2>2. t # 0 /\ (i >= r => t = q1[i - r + 1])
    BY <1>9 DEF Collects, q1, s
  <2> QED  BY <2>1, <2>2
<1> DEFINE q2 == PendAfter(p, b, ts)
<1>11. /\ q2.time = t /\ q2.index = i /\ q2.count = c + w /\ q2.samples = c + w /\ q2.lastTime = lt
       /\ q2.lastCnt = p.lastCnt /\ q2 = Pending(t, i, c + w, c + w, p.lastCnt, lt)
  <2>1. q2 = Pending(t, i, c + w, c + w, p.lastCnt, lt)
    BY <1>9, <1>1 DEF Collects
  <2> HIDE DEF q2
  <2> QED  BY <2>1, PendingFields
<1>12. c < Period /\ w <= Period /\ w >= 1 /\ Period \in Nat /\ Len(d) < QueueSize /\ Len(d) \in Nat
  <2>1. c < Period
    BY <1>1 DEF PendFits
  <2>2. Len(d) \in Nat
    BY DEF Described
  <2>3. Len(d) < QueueSize
    <3>1. Len(q) <= Total /\ p.count \in Nat
      BY <1>1 DEF RingSized
    <3> QED  BY <3>1, <1>2, FewDescriptors
  <2> QED  BY <2>1, <2>2, <2>3, <1>1, Constants DEF Sized
<1>13. p.lastCnt \in Nat
  BY DEF PendingRecords
<1> HIDE DEF q2
<1>14. CASE c + w < Period
  <2>1. BufWrote(p, b, ts) = b
    <3>1. ~(q2.samples >= Period)
      BY <1>11, <1>12, <1>14
    <3> QED  BY <3>1 DEF BufWrote, q2
  <2>2. PendWrote(p, b, ts) = q2
    <3>1. q2.samples - Period < 0
      BY <1>11, <1>12, <1>14
    <3> QED  BY <3>1 DEF PendWrote, Completed, q2
  <2>3. q2 \in PendingRecords
    <3>1. c + w \in 0 .. Period - 1 /\ c + w \in Nat
      BY <1>12, <1>14
    <3> QED  BY <3>1, <1>11, <1>13, PendingFields
  <2>4. PendFits(q2, q1, r)
    <3>1. c + w > 0 /\ i + (c + w) = r + (n + w)
      BY <1>10, <1>12, <1>2
    <3>2. q2.count < Period /\ q2.samples = q2.count /\ q2.count # 0 /\ q2.time # 0
      BY <1>10, <1>11, <1>12, <1>14
    <3>3. q2.index + q2.count = r + Len(q1)
      BY <3>1, <1>6, <1>11
    <3>4. q2.index >= r => q1[q2.index - r + 1] = q2.time
      BY <1>10, <1>11
    <3> QED  BY <3>2, <3>3, <3>4 DEF PendFits
  <2>5. Described(q1, r, d, q2.count)
    <3>1. Described(q \o s, r, d, p.count + Len(s))
      BY <1>1, <1>2, <1>3, WriteDescribes
    <3> QED  BY <3>1, <1>1, <1>3, <1>6, <1>11
  <2>6. Fits(b, q2)
    <3>1. Described(q1, r, d, IF NoReset THEN 0 ELSE q2.count) /\ NoReset \in BOOLEAN
      BY <2>5 DEF NoReset
    <3> QED  BY <3>1, <2>4, <1>5, <1>7 DEF Fits
  <2>7. b.req = FALSE
    <3>1. b.req = NoReset
      BY <1>5, AlikeFields
    <3> QED  BY <3>1 DEF NoReset
  <2>8. PendWaits(q2, ts)
    BY <1>10, <1>11 DEF PendWaits
  <2> QED  BY <2>1, <2>2, <2>3, <2>6, <2>7, <2>8
<1>15. CASE c + w >= Period
  <2> DEFINE x == DescAfter(p, b, ts)
             more == c + w - Period
             d1 == Append(d, x)
             p2 == PendWrote(p, b, ts)
  <2>1. x \in Descriptors /\ x.count = Period /\ x.index = i /\ x.time = t
    <3>1. x = [time |-> t, index |-> i, count |-> Period]
      BY <1>11 DEF DescAfter, q2
    <3> HIDE DEF x
    <3> QED  BY <3>1, <1>12 DEF Descriptors
  <2>2. BufWrote(p, b, ts) = Enqueue(b, x)
    <3>1. q2.samples >= Period
      BY <1>11, <1>15
    <3> QED  BY <3>1 DEF BufWrote, q2
  <2> HIDE DEF x
  <2>3. more \in Nat /\ more < w /\ more < Period /\ more = q2.samples - Period
    BY <1>11, <1>12, <1>15
  <2>4. i + Period + more = r + (n + w)
    BY <1>10, <1>12, <1>2, <2>3
  <2> HIDE DEF more
  <2>5. BufWrote(p, b, ts) = Alike(q1, r, y1, d1, NoReset)
    BY <2>2, <1>5, <1>12, EnqueueValue
  <2> HIDE DEF d1
  <2>6. Described(q1, r, d1, more)
    <3>1. x.index = r + Len(q) - p.count
      <4>1. i = r + n - c
        BY <1>10, <1>2
      <4> QED  BY <4>1, <2>1, <1>1
    <3>2. x.index + Period + more = r + Len(q) + Len(s)
      <4>1. r + (n + w) = r + n + w
        BY <1>2
      <4> QED  BY <4>1, <2>1, <2>4, <1>1, <1>3
    <3>3. x.index >= r => x.time = (q \o s)[x.index - r + 1]
      BY <2>1, <1>10, <1>6
    <3>4. more < Len(s) /\ p.count \in Nat
      BY <2>3, <1>1, <1>3
    <3>5. Described(q \o s, r, Append(d, x), more)
      BY <3>1, <3>2, <3>3, <3>4, <2>1, <2>3, <1>2, <1>3, EnqueueDescribes
    <3> QED  BY <3>5, <1>6 DEF d1
  <2>7. CASE more = 0
    <3>1. p2 = Pending(0, 0, 0, 0, 0, lt)
      <4>1. p2 = [NoPending EXCEPT !.lastTime = q2.lastTime]
        BY <2>3, <2>7 DEF PendWrote, Completed, q2
      <4> QED  BY <4>1, <1>11 DEF NoPending, Pending
    <3> HIDE DEF p2
    <3>2. p2.count = 0 /\ p2.samples = 0 /\ p2.time = 0 /\ p2 \in PendingRecords
      <4>1. 0 \in 0 .. Period - 1 /\ 0 \in Nat
        BY Constants
      <4> QED  BY <3>1, <4>1, PendingFields
    <3>3. PendFits(p2, q1, r) /\ PendWaits(p2, ts)
      BY <3>2, Constants DEF PendFits, PendWaits
    <3>4. Fits(BufWrote(p, b, ts), p2)
      <4>1. Described(q1, r, d1, IF NoReset THEN 0 ELSE p2.count) /\ NoReset \in BOOLEAN
        BY <2>6, <2>7, <3>2 DEF NoReset
      <4> QED  BY <4>1, <3>3, <2>5, <1>7 DEF Fits
    <3>5. BufWrote(p, b, ts).req = FALSE
      <4>1. BufWrote(p, b, ts).req = NoReset
        BY <2>5, AlikeFields
      <4> QED  BY <4>1 DEF NoReset
    <3> QED  BY <3>2, <3>3, <3>4, <3>5 DEF p2
  <2>8. CASE more # 0
    <3> DEFINE j == Written(b, NumChannels) - more
    <3>1. p2 = Pending(0, j, more, more, Packet, ts)
      <4>1. ~(q2.samples - Period < 0) /\ q2.samples - Period # 0 /\ q2.samples - Period = more
        BY <2>3, <2>8
      <4> QED  BY <4>1 DEF PendWrote, Completed, Pending, q2
    <3>2. j \in Nat /\ j + more = r + (n + w) /\ j - r + 1 = n + (w - more + 1) /\ j >= r
      <4>1. PICK v \in Nat, m \in Nat : v = Written(b, NumChannels) /\ m = more
        BY <1>8, <1>1, <1>2, <2>3
      <4>2. v = r + n + w /\ m < w
        BY <4>1, <1>8, <1>1, <2>3
      <4>3. j = v - m
        BY <4>1
      <4> HIDE DEF j
      <4>4. j \in Nat /\ j + m = r + (n + w) /\ j - r + 1 = n + (w - m + 1) /\ j >= r
        BY <4>2, <4>3, <1>2
      <4> QED  BY <4>1, <4>4
    <3> HIDE DEF p2, j
    <3>3. /\ p2.count = more /\ p2.samples = more /\ p2.time = 0 /\ p2 \in PendingRecords
          /\ p2.index = j /\ p2.lastCnt = Packet /\ p2.lastTime = ts
      <4>1. more \in 0 .. Period - 1 /\ 0 \in Nat /\ Packet \in Nat
        BY <2>3, Constants
      <4>2. /\ p2.count = more /\ p2.samples = more /\ p2.time = 0
            /\ p2.index = j /\ p2.lastCnt = Packet /\ p2.lastTime = ts
        BY <3>1, PendingFields
      <4>3. p2 \in PendingRecords
        BY <3>1, <3>2, <4>1, <2>3 DEF Pending, PendingRecords
      <4> QED  BY <4>2, <4>3
    <3>4. q1[j - r + 1] = ts + Packet - more
      <4>1. w - more + 1 \in 1 .. w
        BY <2>3, <2>8
      <4>2. q1[n + (w - more + 1)] = s[w - more + 1] /\ s[w - more + 1] = ts + (w - more + 1) - 1
        BY <4>1, <1>3, <1>6
      <4>3. ts + (w - more + 1) - 1 = ts + w - more
        BY <2>3
      <4> QED  BY <4>2, <4>3, <3>2, <1>1
    <3>5. PendFits(p2, q1, r)
      BY <3>2, <3>3, <3>4, <2>3, <2>8, <1>1, <1>6 DEF PendFits
    <3>6. Fits(BufWrote(p, b, ts), p2)
      <4>1. Described(q1, r, d1, IF NoReset THEN 0 ELSE p2.count) /\ NoReset \in BOOLEAN
        BY <2>6, <3>3 DEF NoReset
      <4> QED  BY <4>1, <3>5, <2>5, <1>7 DEF Fits
    <3>7. BufWrote(p, b, ts).req = FALSE
      <4>1. BufWrote(p, b, ts).req = NoReset
        BY <2>5, AlikeFields
      <4> QED  BY <4>1 DEF NoReset
    <3>8. PendWaits(p2, ts)
      BY <3>3 DEF PendWaits
    <3> QED  BY <3>3, <3>6, <3>7, <3>8 DEF p2
  <2> QED  BY <2>7, <2>8
<1>16. c + w < Period \/ c + w >= Period
  BY <1>12
<1> QED  BY <1>14, <1>15, <1>16, Zenon

\* A reset request is taken back when the AVB stream has seen it.
LEMMA WithReqValue ==
  ASSUME NEW q, NEW r, NEW y, NEW d, NEW e, NEW e1
  PROVE  WithReq(Alike(q, r, y, d, e), e1) = Alike(q, r, y, d, e1)
<1>1. PICK R, D, Y : R = UpTo(0, q, q) /\ D = UpTo(0, r, r) /\ Y = UpTo(0, y, y)
  OBVIOUS
<1>2. /\ Alike(q, r, y, d, e) = Buffers(R, D, Y, d, e) /\ Alike(q, r, y, d, e1) = Buffers(R, D, Y, d, e1)
  BY <1>1 DEF Alike, Partly
<1>3. /\ WithRings(Buffers(R, D, Y, d, e), e1, e1) = Buffers(e1, e1, Y, d, e)
      /\ WithReq(Buffers(R, D, Y, d, e), e1) = Buffers(R, D, Y, d, e1)
  BY BuffersReplaced
<1> QED  BY <1>2, <1>3

\* writeLocalAudioBuffer() keeps the channels alike and the descriptors right.
LEMMA WriteLocalFits ==
  ASSUME Sized, NEW b0, NEW p0 \in PendingRecords, Fits(b0, p0), NEW active \in BOOLEAN,
         NEW ts \in Nat, ts >= 1, Written(b0, 1) + Packet <= MaxIndex,
         ~active => Packet <= Total - FillOf(b0, 1),
         ~b0.req /\ p0.count > 0 /\ p0.time = 0 => ts = p0.lastTime + Packet
  PROVE  LET w == WriteLocal(b0, p0, active, ts) IN
         /\ Fits(w.buf, w.pend) /\ w.pend \in PendingRecords
         /\ w.buf.req = FALSE /\ PendWaits(w.pend, ts)
<1> DEFINE b1 == IF active /\ OverrunAhead(b0) THEN ResetBuffers(b0) ELSE b0
           s == Times(ts, Packet)
<1>1. /\ Fits(b1, p0) /\ b1.req = b0.req /\ Written(b1, 1) = Written(b0, 1)
      /\ FillOf(b1, 1) + Packet <= Total
  <2>1. FillOf(b0, 1) \in Nat /\ FillOf(b0, 1) <= Total
    BY FitsBounds
  <2>2. CASE active /\ OverrunAhead(b0)
    <3>1. /\ Fits(ResetBuffers(b0), p0) /\ ResetBuffers(b0).req = b0.req
          /\ Written(ResetBuffers(b0), 1) = Written(b0, 1)
          /\ FillOf(ResetBuffers(b0), 1) + Packet <= Total
      BY ResetFits
    <3>2. b1 = ResetBuffers(b0)
      BY <2>2
    <3> HIDE DEF b1
    <3> QED  BY <3>1, <3>2
  <2>3. CASE ~(active /\ OverrunAhead(b0))
    <3>1. b1 = b0
      BY <2>3
    <3>2. FillOf(b0, 1) + Packet <= Total
      <4>1. Packet <= Total - FillOf(b0, 1)
        BY <2>1, <2>3, Constants DEF OverrunAhead
      <4> QED  BY <4>1, <2>1, Constants
    <3> HIDE DEF b1
    <3> QED  BY <3>1, <3>2
  <2> QED  BY <2>2, <2>3
<1>2. (IF active /\ OverrunAhead(b0) THEN ResetBuffers(b0) ELSE b0) = b1
  OBVIOUS
<1> HIDE DEF b1
<1>3. PICK q, r, y, d, e :
        /\ b1 = Alike(q, r, y, d, e) /\ e \in BOOLEAN
        /\ RingSized(q, r, y) /\ Described(q, r, d, IF e THEN 0 ELSE p0.count)
        /\ ~e => PendFits(p0, q, r)
  BY <1>1 DEF Fits
<1>4. 1 \in Channels
  BY Constants DEF Channels
<1>5. b1.ring[1] = q /\ b1.rd[1] = r /\ b1.req = e
  BY <1>3, <1>4, AlikeFields
<1>6. /\ q \in Seq(Int) /\ r \in Nat /\ Len(q) \in Nat
      /\ Len(q) + Packet <= Total /\ r + Len(q) + Packet <= MaxIndex
  <2>1. q \in Seq(Int) /\ r \in Nat /\ Len(q) \in Nat
    BY <1>3 DEF RingSized
  <2>2. FillOf(b1, 1) = Len(q) /\ Written(b1, 1) = r + Len(q)
    BY <1>5 DEF FillOf, Written
  <2> QED  BY <2>1, <2>2, <1>1
<1> DEFINE p == IF b1.req THEN NoPending ELSE p0
<1>7. /\ p \in PendingRecords /\ PendFits(p, q, r) /\ Described(q, r, d, p.count)
      /\ (p.count > 0 /\ p.time = 0 => ts = p.lastTime + Packet)
  <2>1. CASE e
    <3>1. p = NoPending
      BY <1>5, <2>1
    <3>2. /\ NoPending \in PendingRecords /\ NoPending.count = 0 /\ NoPending.samples = 0
          /\ NoPending.time = 0
      BY Constants DEF PendingRecords, NoPending
    <3>3. PendFits(NoPending, q, r)
      BY <3>2, Constants DEF PendFits
    <3>4. Described(q, r, d, 0)
      BY <1>3, <2>1
    <3> HIDE DEF p
    <3> QED  BY <3>1, <3>2, <3>3, <3>4
  <2>2. CASE ~e
    <3>1. p = p0
      BY <1>5, <2>2
    <3>2. PendFits(p0, q, r) /\ Described(q, r, d, p0.count)
      BY <1>3, <2>2
    <3> HIDE DEF p
    <3> QED  BY <3>1, <3>2, <2>2, <1>1, <1>5
  <2> QED  BY <2>1, <2>2, <1>3
<1> DEFINE b3 == Alike(Longer(q, Times(ts, Packet)), r, NowReady(q, Times(ts, Packet), y), d, NoReset)
<1>8. /\ WriteLocal(b0, p0, active, ts).buf = BufWrote(p, b3, ts)
      /\ WriteLocal(b0, p0, active, ts).pend = PendWrote(p, b3, ts)
  <2>1. Room(WithReq(b1, NoReset), q, r, y, d, Times(ts, Packet))
    <3>1. WithReq(b1, NoReset) = Alike(q, r, y, d, NoReset)
      <4>1. WithReq(Alike(q, r, y, d, e), NoReset) = Alike(q, r, y, d, NoReset)
        BY WithReqValue
      <4> QED  BY <4>1, <1>3
    <3>2. Times(ts, Packet) \in Seq(Int) /\ Len(Times(ts, Packet)) = Packet
      <4>1. PICK t0 \in Int, w \in Nat : t0 = ts /\ w = Packet
        BY Constants
      <4>2. /\ Times(t0, w) \in Seq(Int) /\ Len(Times(t0, w)) = w
            /\ \A j \in 1 .. w : Times(t0, w)[j] = t0 + j - 1
        BY ONLY TimesAre, t0 \in Int, w \in Nat
      <4> QED  BY <4>1, <4>2
    <3> QED  BY <3>1, <3>2, <1>6 DEF Room
  <2> QED  BY <2>1, <1>2, WriteLocalValue
<1> HIDE DEF p
<1>9. /\ Fits(BufWrote(p, b3, ts), PendWrote(p, b3, ts))
      /\ PendWrote(p, b3, ts) \in PendingRecords
      /\ BufWrote(p, b3, ts).req = FALSE
      /\ PendWaits(PendWrote(p, b3, ts), ts)
  <2>1. b3 = Alike(Longer(q, Times(ts, Packet)), r, NowReady(q, Times(ts, Packet), y), d, NoReset)
    OBVIOUS
  <2> HIDE DEF b3
  <2>2. RingSized(q, r, y)
    BY <1>3
  <2> QED  BY <2>1, <2>2, <1>6, <1>7, WroteFits
<1> HIDE DEF b3
<1> QED  BY <1>8, <1>9

\* the types the proofs need
SenderOK(s) ==
  /\ \E dumps, wait, reads, ref, active :
       s = [size |-> s.size, dummy |-> s.dummy, dumps |-> dumps, wait |-> wait, reads |-> reads,
            ref |-> ref, active |-> active]
  /\ s.size \in 0 .. Packet /\ s.dummy \in Nat

ShmOK(m) ==
  /\ m \in [fill : 0 .. ShmPeriods, state : {"idle", "prefilling", "running"}, done : 0 .. Prefill,
            offset : Int]
  /\ m.state = "idle" => m.done = 0

StateOK ==
  /\ dir \in {"rx", "tx"} /\ client \in {"none", "idle", "active"}
  /\ worker \in {"off", "idle", "status", "signal"} /\ running \in BOOLEAN /\ valid \in BOOLEAN
  /\ count \in 0 .. Validation /\ SenderOK(sender) /\ ShmOK(shm)
  /\ now \in Nat /\ media \in Nat /\ media >= 1 /\ epoch \in BOOLEAN /\ owed \in Int

\* a descriptor that waits for its time gets it from the next packet
MediaFollows ==
  dir = "rx" /\ ~buf.req /\ valid /\ client # "none" /\ pend.count > 0 /\ pend.time = 0
    => media = pend.lastTime + Packet

\* a receive stream that does not run, or is to be reset, has nothing in its buffers
StoppedEmpty ==
  dir = "rx" => /\ buf.req \/ ~running => buf = Empty(buf.req)
                /\ ~running /\ ~buf.req => pend.count = 0

\* a transmit stream owes the dummy samples it has sent
TransmitOK ==
  dir = "tx" => pend = NoPending /\ (sender.dummy > 0 => buf.ready[1]) /\ sender.dummy = owed

StreamInv ==
  /\ StateOK
  /\ pend \in PendingRecords /\ Fits(buf, pend)
  /\ MediaFollows /\ StoppedEmpty /\ TransmitOK /\ ~inverted

Assumed == {"reconnect", "drained", "start", "room", "warp"} \subseteq Assume

\* Flushed buffers are not ready to be read.
LEMMA EmptyFlags ==
  ASSUME NEW e
  PROVE  Empty(e).req = e /\ Empty(e).ready[1] = FALSE
BY Constants DEF Empty, Channels

\* A stream that has been created has empty buffers, which fit.
LEMMA StreamInvInit == AlsaInit => StreamInv
<1> SUFFICES ASSUME AlsaInit PROVE StreamInv
  OBVIOUS
<1> USE DEF AlsaInit, LocalInit, ShmInit
<1>1. NoPending \in PendingRecords /\ NoPending.count = 0 /\ NoPending.samples = 0 /\ NoPending.time = 0
  BY Constants DEF PendingRecords, NoPending
<1>2. Fits(buf, pend)
  BY <1>1, EmptyFits
<1>3. SenderOK(sender)
  <2>1. sender = NewSender(Packet, FALSE) /\ Packet \in 0 .. Packet /\ 0 \in Nat
    BY Constants, AlsaConstants
  <2>2. sender.size = Packet /\ sender.dummy = 0
    BY <2>1 DEF NewSender
  <2> QED  BY <2>1, <2>2, Zenon DEF SenderOK, NewSender
<1>4. ShmOK(shm)
  BY AlsaConstants DEF ShmOK, Refilled
<1>5. StateOK
  <2>1. Validation \in 0 .. Validation
    BY AlsaConstants
  <2>2. /\ dir \in {"rx", "tx"} /\ client \in {"none", "idle", "active"}
        /\ worker \in {"off", "idle", "status", "signal"} /\ running \in BOOLEAN /\ valid \in BOOLEAN
    OBVIOUS
  <2>3. count \in 0 .. Validation
    BY <2>1
  <2>4. now = 1 /\ media = 1 /\ owed = 0 /\ epoch \in BOOLEAN
    OBVIOUS
  <2>5. now \in Nat /\ media \in Nat /\ media >= 1 /\ owed \in Int
    BY ONLY <2>4
  <2> QED  BY ONLY <2>2, <2>3, <2>4, <2>5, <1>3, <1>4 DEF StateOK
<1>6. MediaFollows
  BY DEF MediaFollows
<1>7. StoppedEmpty
  BY <1>1, EmptyFlags DEF StoppedEmpty
<1>8. TransmitOK
  BY DEF TransmitOK, NewSender
<1> QED  BY <1>1, <1>2, <1>5, <1>6, <1>7, <1>8 DEF StreamInv

\* Time passes: nothing of the stream changes.
LEMMA TickStep == ASSUME StreamInv, Tick PROVE StreamInv'
BY DEF StreamInv, StateOK, Tick, MediaFollows, StoppedEmpty, TransmitOK

\* A new PTP epoch is only noticed by the next copy job.
LEMMA NewEpochStep == ASSUME StreamInv, NewEpoch PROVE StreamInv'
BY DEF StreamInv, StateOK, NewEpoch, MediaFollows, StoppedEmpty, TransmitOK

\* A client that is disconnected leaves the buffers as they are.
LEMMA DisconnectStep == ASSUME StreamInv, Disconnect PROVE StreamInv'
BY DEF StreamInv, StateOK, Disconnect, MediaFollows, StoppedEmpty, TransmitOK

\* updateBufferStatus() looks at the fill level without a lock, and what it signals later changes
\* the client's state but no buffer.
LEMMA StatusStep == ASSUME StreamInv, UpdateBufferStatus \/ SignalUnderrun PROVE StreamInv'
BY DEF StreamInv, StateOK, UpdateBufferStatus, SignalUnderrun, MediaFollows, StoppedEmpty, TransmitOK

\* start() of the worker thread touches no buffer.
LEMMA StartStep == ASSUME StreamInv, WorkerStarts PROVE StreamInv'
BY DEF StreamInv, StateOK, WorkerStarts, MediaFollows, StoppedEmpty, TransmitOK

\* A receive stream that is interrupted keeps its buffers; it is to validate packets anew, so that
\* none is due for a descriptor that waits.
LEMMA InterruptedStep == ASSUME StreamInv, Interrupted PROVE StreamInv'
<1>1. Ahead \in Nat /\ Validation \in 0 .. Validation
  BY AlsaConstants
<1>2. StateOK'
  <2>1. media' \in Nat /\ media' >= 1
    <3>1. PICK t \in {media + 1, now + Ahead} : t >= media /\ media' = t
      BY DEF Interrupted
    <3> QED  BY <3>1, <1>1 DEF StreamInv, StateOK
  <2> QED  BY <2>1, <1>1 DEF StreamInv, StateOK, Interrupted
<1>3. MediaFollows'
  BY DEF Interrupted, MediaFollows
<1>4. StoppedEmpty' /\ TransmitOK'
  BY DEF StreamInv, Interrupted, StoppedEmpty, TransmitOK
<1> QED  BY <1>2, <1>3, <1>4 DEF StreamInv, Interrupted

\* stop() flushes the buffers of a receive stream and leaves those of a transmit stream.
LEMMA StopStep == ASSUME StreamInv, WorkerStops PROVE StreamInv'
<1>1. Fits(Empty(TRUE), pend)
  BY EmptyFits
<1>2. CASE dir = "rx" /\ buf' = Flushed(buf)
  <2>1. buf' = Empty(TRUE) /\ buf'.req = TRUE
    BY <1>2, EmptyFlags DEF Flushed
  <2>2. pend' = pend /\ Fits(buf', pend')
    BY <2>1, <1>1 DEF WorkerStops
  <2>3. dir' = "rx" /\ inverted' = inverted
    BY <1>2 DEF WorkerStops
  <2>4. MediaFollows' /\ StoppedEmpty' /\ TransmitOK'
    BY <2>1, <2>3 DEF MediaFollows, StoppedEmpty, TransmitOK
  <2>5. StateOK'
    BY DEF StreamInv, StateOK, WorkerStops
  <2> QED  BY <2>2, <2>3, <2>4, <2>5 DEF StreamInv
<1>3. CASE buf' = buf
  BY <1>3, EmptyFlags DEF StreamInv, StateOK, WorkerStops, MediaFollows, StoppedEmpty, TransmitOK, Flushed
<1> QED  BY <1>2, <1>3 DEF WorkerStops

\* What the client does to the shared memory, by its accesses and its control messages, stays
\* within the shared memory.
LEMMA ClientStep == ASSUME StreamInv, ClientAccess \/ IpcStartStop PROVE StreamInv'
<1>1. ShmOK(shm')
  <2>1. ShmPeriods \in Nat \ {0} /\ Prefill \in 1 .. ShmPeriods /\ ShmOK(shm)
    BY AlsaConstants DEF StreamInv, StateOK
  <2>2. CASE ClientAccess
    <3>1. CASE dir = "rx"
      <4>1. shm.fill > 0 /\ shm' = [shm EXCEPT !.fill = @ - 1, !.offset = (@ + 1) % ShmPeriods]
        BY <3>1, <2>2 DEF ClientAccess
      <4>2. /\ shm.fill \in 0 .. ShmPeriods /\ shm.offset \in Int
            /\ shm.fill - 1 \in 0 .. ShmPeriods /\ (shm.offset + 1) % ShmPeriods \in Int
        BY <4>1, <2>1 DEF ShmOK
      <4> QED  BY <4>1, <4>2, <2>1 DEF ShmOK
    <3>2. CASE dir # "rx"
      <4>1. shm.fill < ShmPeriods /\ shm' = [shm EXCEPT !.fill = @ + 1]
        BY <3>2, <2>2 DEF ClientAccess, Free
      <4>2. shm.fill + 1 \in 0 .. ShmPeriods
        BY <4>1, <2>1 DEF ShmOK
      <4> QED  BY <4>1, <4>2, <2>1 DEF ShmOK
    <3> QED  BY <3>1, <3>2
  <2>3. CASE IpcStartStop
    BY <2>1, <2>3 DEF IpcStartStop, Refilled, ShmOK
  <2> QED  BY <2>2, <2>3
<1>2. UNCHANGED <<dir, buf, pend, client, running, valid, count, sender, worker, now, media, epoch,
                  inverted, owed>>
  BY DEF ClientAccess, IpcStartStop
<1> QED  BY <1>1, <1>2 DEF StreamInv, StateOK, MediaFollows, StoppedEmpty, TransmitOK

\* What does not concern a transmit stream.
LEMMA TransmitOnly ==
  ASSUME dir' = "tx"
  PROVE  MediaFollows' /\ StoppedEmpty'
BY DEF MediaFollows, StoppedEmpty

\* What a transmitting AVB stream keeps starts without dummy samples.
LEMMA NewSenderOK ==
  ASSUME NEW s \in 0 .. Packet, NEW a, NEW z
  PROVE  /\ SenderOK(NewSender(s, a)) /\ NewSender(s, a).dummy = 0
         /\ SenderOK([NewSender(s, a) EXCEPT !.wait = z]) /\ [NewSender(s, a) EXCEPT !.wait = z].dummy = 0
<1>1. s \in Nat /\ s <= Packet /\ 0 \in Nat
  BY Constants, AlsaConstants
<1>2. [NewSender(s, a) EXCEPT !.wait = z]
        = [size |-> s, dummy |-> 0, dumps |-> 0, wait |-> z, reads |-> 0, ref |-> 0, active |-> a]
  BY DEF NewSender
<1>3. \A x : SenderOK([size |-> s, dummy |-> 0, dumps |-> 0, wait |-> x, reads |-> 0, ref |-> 0, active |-> a])
  <2> TAKE x
  <2> DEFINE m == [size |-> s, dummy |-> 0, dumps |-> 0, wait |-> x, reads |-> 0, ref |-> 0, active |-> a]
  <2>1. m.size = s /\ m.dummy = 0
    OBVIOUS
  <2>2. \E dumps, wait, reads, ref, active :
          m = [size |-> m.size, dummy |-> m.dummy, dumps |-> dumps, wait |-> wait, reads |-> reads,
               ref |-> ref, active |-> active]
    <3>1. m = [size |-> m.size, dummy |-> m.dummy, dumps |-> 0, wait |-> x, reads |-> 0,
               ref |-> 0, active |-> a]
      BY <2>1
    <3> HIDE DEF m
    <3> QED  BY <3>1, Zenon
  <2> HIDE DEF m
  <2>3. SenderOK(m)
    BY <2>1, <2>2, <1>1 DEF SenderOK
  <2> QED  BY <2>3 DEF m
<1>4. NewSender(s, a).dummy = 0 /\ [NewSender(s, a) EXCEPT !.wait = z].dummy = 0
  BY DEF NewSender
<1> QED  BY <1>2, <1>3, <1>4 DEF NewSender

\* connectTo() may empty the rings of a transmit stream; it starts without a debt of dummy samples.
LEMMA ConnectStep == ASSUME StreamInv, Assumed, ConnectStream PROVE StreamInv'
<1>1. /\ client = "none" /\ (dir = "tx" \/ ~valid \/ pend.count = 0)
      /\ client' \in {"idle", "active"}
      /\ UNCHANGED <<dir, pend, running, valid, count, shm, worker, now, media, epoch, inverted>>
  BY DEF ConnectStream, Assumed
<1>2. SenderOK(sender') /\ sender'.dummy = 0 /\ owed' = 0
  <2>1. sender.size \in 0 .. Packet
    BY DEF StreamInv, StateOK, SenderOK
  <2>2. sender' = [NewSender(sender.size, sender.active) EXCEPT !.wait = sender.wait] /\ owed' = 0
    BY DEF ConnectStream
  <2> DEFINE n == sender.size
             a == sender.active
             z == sender.wait
  <2>3. n \in 0 .. Packet /\ sender' = [NewSender(n, a) EXCEPT !.wait = z]
    BY <2>1, <2>2
  <2> HIDE DEF n, a, z
  <2>4. SenderOK([NewSender(n, a) EXCEPT !.wait = z]) /\ [NewSender(n, a) EXCEPT !.wait = z].dummy = 0
    BY <2>3, NewSenderOK
  <2> QED  BY <2>2, <2>3, <2>4
<1>3. StateOK'
  BY <1>1, <1>2 DEF StreamInv, StateOK
<1>4. Fits(buf', pend')
  <2>1. buf' = buf \/ buf' = Empty(TRUE)
    BY DEF ConnectStream, Flushed
  <2> QED  BY <2>1, <1>1, EmptyFits DEF StreamInv
<1>5. TransmitOK'
  BY <1>1, <1>2 DEF StreamInv, TransmitOK
<1>6. MediaFollows' /\ StoppedEmpty'
  <2>1. CASE dir = "tx"
    BY <2>1, <1>1, TransmitOnly
  <2>2. CASE dir = "rx"
    <3>1. buf' = buf
      BY <2>2 DEF ConnectStream
    <3> QED  BY <2>2, <3>1, <1>1 DEF StreamInv, MediaFollows, StoppedEmpty, PendingRecords
  <2> QED  BY <2>1, <2>2 DEF StreamInv, StateOK
<1> QED  BY <1>1, <1>3, <1>4, <1>5, <1>6 DEF StreamInv

\* activationChanged() forgets the dummy samples, and the ghost that counts them with it.
LEMMA ActivationStep == ASSUME StreamInv, ActivationChanged PROVE StreamInv'
<1>1. /\ dir = "tx" /\ dir' = "tx"
      /\ UNCHANGED <<pend, running, valid, count, shm, worker, now, media, epoch, inverted>>
  BY DEF ActivationChanged
<1>2. PICK active \in BOOLEAN :
        /\ sender' = IF active THEN NewSender(sender.size, TRUE) ELSE [sender EXCEPT !.active = FALSE]
        /\ owed' = IF active THEN 0 ELSE owed
        /\ client' = IF client = "none" THEN client ELSE IF active THEN "active" ELSE "idle"
        /\ buf' = IF active /\ client = "idle" THEN Flushed(buf) ELSE buf
  BY DEF ActivationChanged
<1>3. CASE active
  <2>1. SenderOK(sender') /\ sender'.dummy = 0 /\ owed' = 0
    <3>1. sender.size \in 0 .. Packet
      BY DEF StreamInv, StateOK, SenderOK
    <3> QED  BY <3>1, <1>2, <1>3, NewSenderOK
  <2>2. buf' = buf \/ buf' = Empty(TRUE)
    BY <1>2 DEF Flushed
  <2>3. Fits(buf', pend')
    BY <2>2, <1>1, EmptyFits DEF StreamInv
  <2>4. StateOK'
    BY <2>1, <1>1, <1>2 DEF StreamInv, StateOK
  <2>5. TransmitOK'
    BY <2>1, <1>1 DEF StreamInv, TransmitOK
  <2> QED  BY <2>3, <2>4, <2>5, <1>1, TransmitOnly DEF StreamInv
<1>4. CASE ~active
  <2>1. sender' = [sender EXCEPT !.active = FALSE] /\ owed' = owed /\ buf' = buf
    BY <1>2, <1>4
  <2>2. SenderOK(sender') /\ sender'.dummy = sender.dummy
    <3>1. PICK dumps, wait, reads, ref, act :
            sender = [size |-> sender.size, dummy |-> sender.dummy, dumps |-> dumps, wait |-> wait,
                      reads |-> reads, ref |-> ref, active |-> act]
      BY Zenon DEF StreamInv, StateOK, SenderOK
    <3>2. sender' = [size |-> sender.size, dummy |-> sender.dummy, dumps |-> dumps, wait |-> wait,
                     reads |-> reads, ref |-> ref, active |-> FALSE]
      <4>1. \A z, d, a : [[size |-> z, dummy |-> d, dumps |-> dumps, wait |-> wait, reads |-> reads,
                          ref |-> ref, active |-> act] EXCEPT !.active = a]
                        = [size |-> z, dummy |-> d, dumps |-> dumps, wait |-> wait, reads |-> reads,
                           ref |-> ref, active |-> a]
        OBVIOUS
      <4> DEFINE z == sender.size
                 d == sender.dummy
      <4>2. sender = [size |-> z, dummy |-> d, dumps |-> dumps, wait |-> wait, reads |-> reads,
                      ref |-> ref, active |-> act]
        BY <3>1
      <4> HIDE DEF z, d
      <4>3. sender' = [[size |-> z, dummy |-> d, dumps |-> dumps, wait |-> wait, reads |-> reads,
                        ref |-> ref, active |-> act] EXCEPT !.active = FALSE]
        BY <2>1, <4>2
      <4> QED  BY <4>1, <4>3 DEF z, d
    <3>3. sender'.size = sender.size /\ sender'.dummy = sender.dummy
      BY <3>2
    <3> QED  BY <3>2, <3>3 DEF StreamInv, StateOK, SenderOK
  <2>3. StateOK'
    BY <2>1, <2>2, <1>1, <1>2 DEF StreamInv, StateOK
  <2>4. TransmitOK'
    BY <2>1, <2>2, <1>1 DEF StreamInv, TransmitOK
  <2> QED  BY <2>1, <2>3, <2>4, <1>1, TransmitOnly DEF StreamInv
<1> QED  BY <1>2, <1>3, <1>4

\* A copy job of a transmit stream writes all of a period or nothing, in all channels, and a new
\* epoch empties all of them.
LEMMA CopyTxStep == ASSUME StreamInv, Assumed, CopyJobTx PROVE StreamInv'
<1>1. /\ dir = "tx" /\ dir' = "tx" /\ worker' = "status" /\ media' = media + Period
      /\ UNCHANGED <<pend, client, running, valid, count, sender, now, inverted, owed>>
      /\ FillOf(buf, 1) + Period <= Total \/ FillOf(buf, 1) = Total
      /\ Written(buf, 1) + Period <= MaxIndex
      /\ epoch => sender.dummy = 0
  BY DEF CopyJobTx, Assumed
<1>2. pend = NoPending /\ Fits(buf, NoPending) /\ media \in Nat
  BY <1>1 DEF StreamInv, TransmitOK, StateOK
<1>3. Fits(buf', pend') /\ (sender.dummy > 0 => buf'.ready[1]) /\ epoch' \in BOOLEAN
  <2>1. CASE client = "none"
    BY <2>1, <1>1 DEF CopyJobTx, StreamInv, TransmitOK, StateOK
  <2>2. CASE client # "none"
    <3>1. PICK ts \in {0, media} : buf' = CopiedTx(buf, ts) /\ epoch' = FALSE
      BY <2>2 DEF CopyJobTx
    <3>2. CASE epoch
      <4>1. buf' = Empty(TRUE)
        BY <3>1, <3>2 DEF CopiedTx, Flushed
      <4>2. ~(sender.dummy > 0)
        BY <3>2, <1>1
      <4> QED  BY <4>1, <4>2, <3>1, <1>1, EmptyFits
    <3>3. CASE ~epoch
      <4>1. ts \in Nat
        BY <1>2
      <4>2. Fits(CopiedTx(buf, ts), NoPending) /\ (buf.ready[1] => CopiedTx(buf, ts).ready[1])
        BY <4>1, <3>3, <1>1, <1>2, CopiedTxFits
      <4> QED  BY <4>2, <3>1, <1>1, <1>2 DEF StreamInv, TransmitOK
    <3> QED  BY <3>2, <3>3
  <2> QED  BY <2>1, <2>2
<1>4. ShmOK(shm')
  <2>1. shm' = [shm EXCEPT !.fill = IF @ = 0 THEN 0 ELSE @ - 1] /\ ShmOK(shm) /\ ShmPeriods \in Nat
    BY AlsaConstants DEF CopyJobTx, StreamInv, StateOK
  <2> QED  BY <2>1 DEF ShmOK
<1>5. media' \in Nat /\ media' >= 1
  BY <1>1, Constants DEF StreamInv, StateOK
<1>6. StateOK'
  BY <1>1, <1>3, <1>4, <1>5 DEF StreamInv, StateOK
<1>7. TransmitOK'
  BY <1>1, <1>3 DEF StreamInv, TransmitOK
<1> QED  BY <1>1, <1>3, <1>6, <1>7, TransmitOnly DEF StreamInv

\* The prefilling of the shared memory stays within it.
LEMMA CopiedShmOK == ASSUME ShmOK(shm) PROVE ShmOK(CopiedShm)
<1>1. /\ shm.fill \in 0 .. ShmPeriods /\ shm.state \in {"idle", "prefilling", "running"}
      /\ shm.done \in 0 .. Prefill /\ shm.offset \in Int /\ (shm.state = "idle" => shm.done = 0)
  BY DEF ShmOK
<1>2. ShmPeriods \in Nat \ {0} /\ Prefill \in 1 .. ShmPeriods
  BY AlsaConstants
<1> DEFINE p == Prefilling
<1>3. /\ p.write \in {0, 1} /\ (p.write = 1 => shm.fill < ShmPeriods)
      /\ p.state \in {"idle", "prefilling", "running"} /\ p.done \in 0 .. Prefill
      /\ (p.state = "idle" => p.done = 0)
  <2>1. CASE shm.state = "idle"
    BY <2>1, <1>1, <1>2 DEF Prefilling, Free
  <2>2. CASE shm.state = "prefilling"
    BY <2>2, <1>1, <1>2 DEF Prefilling, Free
  <2>3. CASE shm.state = "running"
    BY <2>3, <1>1, <1>2 DEF Prefilling, Free
  <2> QED  BY <2>1, <2>2, <2>3, <1>1
<1> HIDE DEF p
<1>4. CASE p.state = "running" /\ p.write = 0 /\ SmartX
  <2>1. CopiedShm = Refilled("idle", 1)
    BY <1>4 DEF CopiedShm, p
  <2> QED  BY <2>1, <1>2 DEF Refilled, ShmOK
<1>5. CASE ~(p.state = "running" /\ p.write = 0 /\ SmartX)
  <2>1. CopiedShm = [fill |-> shm.fill + p.write, state |-> p.state, done |-> p.done, offset |-> shm.offset]
    BY <1>5 DEF CopiedShm, p
  <2>2. shm.fill + p.write \in 0 .. ShmPeriods
    BY <1>1, <1>2, <1>3
  <2> QED  BY <2>1, <2>2, <1>1, <1>3 DEF ShmOK
<1> QED  BY <1>4, <1>5

\* A copy job of a receive stream reads as much from one channel as from the others.
LEMMA CopyRxStep == ASSUME StreamInv, CopyJobRx PROVE StreamInv'
<1>1. /\ dir = "rx" /\ dir' = "rx" /\ worker' = "status" /\ shm' = CopiedShm
      /\ UNCHANGED <<pend, client, running, valid, count, sender, now, media, inverted, owed>>
  BY DEF CopyJobRx
<1>2. StateOK'
  <2>1. ShmOK(shm')
    BY <1>1, CopiedShmOK DEF StreamInv, StateOK
  <2>2. epoch' \in BOOLEAN
    BY DEF CopyJobRx, StreamInv, StateOK
  <2> QED  BY <2>1, <2>2, <1>1 DEF StreamInv, StateOK
<1>3. /\ Fits(buf', pend')
      /\ buf' = Empty(TRUE) \/ buf'.req = buf.req
      /\ ~buf.ready[1] => buf' = buf \/ buf' = Empty(TRUE)
  <2>1. pend \in PendingRecords /\ Fits(buf, pend)
    BY DEF StreamInv
  <2>2. CASE client = "none"
    BY <2>1, <2>2, <1>1 DEF CopyJobRx
  <2>3. CASE client # "none"
    BY <2>1, <2>3, <1>1, CopiedRxFits DEF CopyJobRx
  <2> QED  BY <2>2, <2>3
<1>4. buf.req \/ ~running => ~buf.ready[1]
  BY <1>1, EmptyFlags DEF StreamInv, StoppedEmpty
<1>5. StoppedEmpty'
  BY <1>1, <1>3, <1>4, EmptyFlags DEF StreamInv, StoppedEmpty
<1>6. MediaFollows'
  BY <1>1, <1>3, EmptyFlags DEF StreamInv, MediaFollows
<1>7. TransmitOK'
  BY <1>1 DEF TransmitOK
<1> QED  BY <1>1, <1>2, <1>3, <1>5, <1>6, <1>7 DEF StreamInv

\* the fields of a transmitting AVB stream that a packet changes
SenderWith(s, z, u, dm, wt, rs, rf) ==
  [s EXCEPT !.size = z, !.dummy = u, !.dumps = dm, !.wait = wt, !.reads = rs, !.ref = rf]

WithRef(s, rf) == [s EXCEPT !.ref = rf]

\* What writeToAvbPacket() leaves of the transmitting stream's fields.
LEMMA SenderWithOK ==
  ASSUME NEW s, SenderOK(s), NEW z \in 0 .. Packet, NEW u \in Nat,
         NEW dm, NEW wt, NEW rs, NEW rf
  PROVE  /\ SenderOK(SenderWith(s, z, u, dm, wt, rs, rf)) /\ SenderWith(s, z, u, dm, wt, rs, rf).dummy = u
         /\ SenderOK(WithRef(s, rf)) /\ WithRef(s, rf).dummy = s.dummy
<1> DEFINE z0 == s.size
           u0 == s.dummy
           T(a, b, c, d, e, f, g) ==
             [size |-> a, dummy |-> b, dumps |-> c, wait |-> d, reads |-> e, ref |-> f, active |-> g]
<1>1. PICK dumps, wait, reads, ref, act : s = T(z0, u0, dumps, wait, reads, ref, act)
  BY Zenon DEF SenderOK
<1>2. z0 \in 0 .. Packet /\ u0 \in Nat
  BY DEF SenderOK
<1>3. \A a, b, c, d, e, f, g :
        /\ T(a, b, c, d, e, f, g).size = a /\ T(a, b, c, d, e, f, g).dummy = b
        /\ \A x : [T(a, b, c, d, e, f, g) EXCEPT !.size = x] = T(x, b, c, d, e, f, g)
        /\ \A x : [T(a, b, c, d, e, f, g) EXCEPT !.dummy = x] = T(a, x, c, d, e, f, g)
        /\ \A x : [T(a, b, c, d, e, f, g) EXCEPT !.dumps = x] = T(a, b, x, d, e, f, g)
        /\ \A x : [T(a, b, c, d, e, f, g) EXCEPT !.wait = x] = T(a, b, c, x, e, f, g)
        /\ \A x : [T(a, b, c, d, e, f, g) EXCEPT !.reads = x] = T(a, b, c, d, x, f, g)
        /\ \A x : [T(a, b, c, d, e, f, g) EXCEPT !.ref = x] = T(a, b, c, d, e, x, g)
  OBVIOUS
<1>4. \A a, b, c, d, e, f, g : a \in 0 .. Packet /\ b \in Nat
        => SenderOK(T(a, b, c, d, e, f, g))
  <2> TAKE a, b, c, d, e, f, g
  <2> HAVE a \in 0 .. Packet /\ b \in Nat
  <2> DEFINE m == T(a, b, c, d, e, f, g)
  <2>1. m.size = a /\ m.dummy = b
    OBVIOUS
  <2>2. \E dm1, wt1, rs1, rf1, ac1 : m = T(m.size, m.dummy, dm1, wt1, rs1, rf1, ac1)
    <3>1. m = T(m.size, m.dummy, c, d, e, f, g)
      BY <2>1
    <3> HIDE DEF m
    <3> QED  BY <3>1, Zenon
  <2> HIDE DEF m
  <2>3. SenderOK(m)
    BY <2>1, <2>2 DEF SenderOK
  <2> QED  BY <2>3 DEF m
<1> HIDE DEF T, z0, u0
<1>5. WithRef(s, rf) = T(z0, u0, dumps, wait, reads, rf, act)
  <2>1. [s EXCEPT !.ref = rf] = T(z0, u0, dumps, wait, reads, rf, act)
    BY <1>1, <1>3
  <2> QED  BY <2>1 DEF WithRef
<1>6. SenderWith(s, z, u, dm, wt, rs, rf) = T(z, u, dm, wt, rs, rf, act)
  <2>1. SenderWith(s, z, u, dm, wt, rs, rf)
          = [[[[[[s EXCEPT !.size = z] EXCEPT !.dummy = u] EXCEPT !.dumps = dm] EXCEPT !.wait = wt]
                EXCEPT !.reads = rs] EXCEPT !.ref = rf]
    BY DEF SenderWith
  <2> DEFINE s1 == [s EXCEPT !.size = z]
             s2 == [s1 EXCEPT !.dummy = u]
             s3 == [s2 EXCEPT !.dumps = dm]
             s4 == [s3 EXCEPT !.wait = wt]
             s5 == [s4 EXCEPT !.reads = rs]
             s6 == [s5 EXCEPT !.ref = rf]
  <2>2. s1 = T(z, u0, dumps, wait, reads, ref, act)
    BY <1>1, <1>3
  <2> HIDE DEF s1
  <2>3. s2 = T(z, u, dumps, wait, reads, ref, act)
    BY <2>2, <1>3
  <2> HIDE DEF s2
  <2>4. s3 = T(z, u, dm, wait, reads, ref, act)
    BY <2>3, <1>3
  <2> HIDE DEF s3
  <2>5. s4 = T(z, u, dm, wt, reads, ref, act)
    BY <2>4, <1>3
  <2> HIDE DEF s4
  <2>6. s5 = T(z, u, dm, wt, rs, ref, act)
    BY <2>5, <1>3
  <2> HIDE DEF s5
  <2>7. s6 = T(z, u, dm, wt, rs, rf, act)
    BY <2>6, <1>3
  <2> QED  BY <2>1, <2>7 DEF s1, s2, s3, s4, s5, s6
<1> QED  BY <1>2, <1>3, <1>4, <1>5, <1>6 DEF u0

\* What is discarded for dummy samples is as much as counts as compensated for.
LEMMA DumpForFits ==
  ASSUME StreamInv, dir = "tx", NEW b1,
         b1 = IF DumpFor(buf) = 0 THEN buf ELSE ReadAll(buf, Each(DumpFor(buf)))
  PROVE  /\ DumpFor(buf) \in 0 .. sender.dummy
         /\ Fits(b1, NoPending) /\ b1.ready[1] = buf.ready[1] /\ b1.rd[1] - buf.rd[1] = DumpFor(buf)
<1>1. NoPending \in PendingRecords /\ NoPending.count = 0
  BY Constants DEF PendingRecords, NoPending
<1>2. Fits(buf, NoPending) /\ sender.dummy \in Nat /\ (sender.dummy > 0 => buf.ready[1])
  BY AlsaConstants, Constants DEF StreamInv, TransmitOK, StateOK, SenderOK
<1>3. FillOf(buf, 1) \in Nat /\ buf.rd[1] \in Nat
  BY <1>1, <1>2, FitsBounds
<1> DEFINE n == sender.dummy
           F == FillOf(buf, 1)
           d == DumpFor(buf)
<1>4. d \in 0 .. n /\ (d > 0 => d = Lesser(n, F) /\ n > 0)
  <2>1. Dumpable(buf, n) = Lesser(n, F) /\ Dumpable(buf, n) \in 0 .. n
    BY <1>1, <1>2, DumpedFits
  <2> QED  BY <2>1, <1>2 DEF DumpFor
<1> HIDE DEF d, n
<1>5. CASE d = 0
  <2>1. b1 = buf
    BY <1>5 DEF d
  <2>2. b1.rd[1] - buf.rd[1] = 0
    BY <2>1, <1>3
  <2> QED  BY <2>1, <2>2, <1>2, <1>4, <1>5 DEF d, n
<1>6. CASE d # 0
  <2>1. b1 = ReadAll(buf, Each(d)) /\ d \in Nat /\ d > 0 /\ n \in Nat
    BY <1>2, <1>4, <1>6 DEF d, n
  <2>2. d <= F /\ F > 0
    <3>1. d = Lesser(n, F)
      BY <1>4, <2>1
    <3> QED  BY <3>1, <2>1, <1>3, LesserOf
  <2> DEFINE after == ReadAll(buf, Each(d))
  <2>3. /\ Fits(after, NoPending) /\ after.ready[1] = buf.ready[1]
        /\ after.rd[1] = buf.rd[1] + ReadCount(buf, 1, d)
        /\ buf.ready[1] /\ F > NoPending.count => ReadCount(buf, 1, d) = Lesser(d, F)
    BY <1>1, <1>2, <2>1, ReadFits
  <2>4. Lesser(d, F) = d
    BY <2>1, <2>2, <1>3, LesserOf
  <2>5. buf.ready[1]
    BY <1>2, <1>4, <2>1 DEF n
  <2>6. after.rd[1] = buf.rd[1] + d
    BY <2>2, <2>3, <2>4, <2>5, <1>1
  <2> HIDE DEF after
  <2>7. b1 = after
    BY <2>1 DEF after
  <2> QED  BY <2>1, <2>3, <2>6, <2>7, <1>3, <1>4 DEF d, n
<1> QED  BY <1>5, <1>6

\* writeToAvbPacket() discards what it owes, and what is late, from all channels before it reads: the
\* dummy samples it counts are the ones it has sent.
LEMMA SendStep == ASSUME StreamInv, SendPacket PROVE StreamInv'
<1>1. /\ dir = "tx" /\ dir' = "tx"
      /\ UNCHANGED <<pend, client, running, valid, count, shm, worker, now, media, epoch, inverted>>
  BY DEF SendPacket
<1>2. /\ pend = NoPending /\ SenderOK(sender) /\ sender.dummy = owed
      /\ (sender.dummy > 0 => buf.ready[1]) /\ Fits(buf, NoPending)
      /\ sender.size \in 0 .. Packet /\ sender.dummy \in Nat
  BY <1>1, AlsaConstants, Constants DEF StreamInv, TransmitOK, StateOK, SenderOK
<1> DEFINE ref == IF sender.ref = 0 THEN now + 1 ELSE sender.ref
           d == DumpFor(buf)
           b1 == IF d = 0 THEN buf ELSE ReadAll(buf, Each(d))
           dummy == sender.dummy - d
           ready == b1.ready[1]
           a == IF ready /\ sender.reads = 0 THEN Aligned(b1, sender.size, ref)
                ELSE [b |-> b1, size |-> sender.size]
           reading == dummy = 0 /\ ready
           n == IF reading THEN ReadCount(a.b, 1, a.size) ELSE 0
           b2 == IF reading THEN ReadAll(a.b, Each(a.size)) ELSE a.b
           sent == IF n = 0 THEN a.size ELSE n
           more == IF ready /\ n = 0 THEN a.size ELSE 0
<1>3. IF client = "none"
      THEN sender' = [sender EXCEPT !.ref = ref + sender.size] /\ UNCHANGED <<buf, owed>>
      ELSE /\ buf' = b2
           /\ sender' = SenderWith(sender, a.size, dummy + more,
                          DumpsAfter(d, dummy),
                          IF more > 0 THEN TRUE ELSE IF n > 0 THEN FALSE ELSE sender.wait,
                          sender.reads + n, ref + sent)
           /\ owed' = owed + more - (b1.rd[1] - buf.rd[1])
  BY DEF SendPacket, Each, SenderWith
<1>4. CASE client = "none"
  <2>1. sender' = [sender EXCEPT !.ref = ref + sender.size] /\ buf' = buf /\ owed' = owed
    BY <1>3, <1>4
  <2> DEFINE rf == ref + sender.size
  <2>2. sender' = [sender EXCEPT !.ref = rf]
    BY <2>1
  <2> HIDE DEF rf
  <2>3. SenderOK(sender') /\ sender'.dummy = sender.dummy
    <3>1. 0 \in 0 .. Packet /\ 0 \in Nat
      BY Constants, AlsaConstants
    <3>2. SenderOK(WithRef(sender, rf)) /\ WithRef(sender, rf).dummy = sender.dummy
      BY <3>1, <1>2, SenderWithOK
    <3> QED  BY <2>2, <3>2 DEF WithRef
  <2>4. StateOK'
    BY <2>1, <2>3, <1>1 DEF StreamInv, StateOK
  <2>5. TransmitOK'
    BY <2>1, <2>3, <1>1, <1>2 DEF TransmitOK
  <2> QED  BY <2>1, <2>4, <2>5, <1>1, TransmitOnly DEF StreamInv
<1>5. CASE client # "none"
  <2>1. /\ d \in 0 .. sender.dummy
        /\ Fits(b1, NoPending) /\ b1.ready[1] = buf.ready[1] /\ b1.rd[1] - buf.rd[1] = d
    <3> DEFINE x == b1
    <3>1. x = IF DumpFor(buf) = 0 THEN buf ELSE ReadAll(buf, Each(DumpFor(buf)))
      OBVIOUS
    <3> HIDE DEF x
    <3>2. /\ DumpFor(buf) \in 0 .. sender.dummy
          /\ Fits(x, NoPending) /\ x.ready[1] = buf.ready[1] /\ x.rd[1] - buf.rd[1] = DumpFor(buf)
      BY <3>1, <1>1, DumpForFits
    <3> QED  BY <3>2 DEF x
  <2>2. NoPending \in PendingRecords
    BY Constants DEF PendingRecords, NoPending
  <2> HIDE DEF b1, d, ref
  <2>3. /\ Fits(a.b, NoPending) /\ a.size \in 0 .. sender.size /\ a.b.ready[1] = b1.ready[1]
    <3>1. CASE ready /\ sender.reads = 0
      <4>1. Late(Aligned(b1, sender.size, ref), b1, NoPending, sender.size)
        <5>1. sender.size \in Nat
          BY <1>2
        <5> QED  BY <5>1, <2>1, <2>2, AlignedFits
      <4>2. a = Aligned(b1, sender.size, ref)
        BY <3>1
      <4> QED  BY <4>1, <4>2 DEF Late
    <3>2. CASE ~(ready /\ sender.reads = 0)
      <4>1. a.b = b1 /\ a.size = sender.size
        BY <3>2
      <4>2. sender.size \in 0 .. sender.size
        BY <1>2
      <4> HIDE DEF a
      <4> QED  BY <4>1, <4>2, <2>1
    <3> QED  BY <3>1, <3>2
  <2> HIDE DEF a
  <2>4. /\ Fits(b2, NoPending) /\ b2.ready[1] = b1.ready[1]
    <3>1. CASE reading
      <4>1. b2 = ReadAll(a.b, Each(a.size)) /\ a.size \in Nat
        BY <3>1, <2>3
      <4> HIDE DEF b2
      <4>2. /\ Fits(ReadAll(a.b, Each(a.size)), NoPending)
            /\ ReadAll(a.b, Each(a.size)).ready[1] = a.b.ready[1]
        BY <4>1, <2>2, <2>3, ReadFits
      <4> QED  BY <4>1, <4>2, <2>3
    <3>2. CASE ~reading
      <4>1. b2 = a.b
        BY <3>2
      <4> HIDE DEF b2
      <4> QED  BY <4>1, <2>3
    <3> QED  BY <3>1, <3>2
  <2>5. /\ dummy \in Nat /\ more \in 0 .. Packet /\ a.size \in 0 .. Packet
        /\ (more > 0 => ready) /\ (dummy > 0 => ready)
    BY <1>2, <2>1, <2>3, AlsaConstants, Constants
  <2> DEFINE u == dummy + more
             dm == DumpsAfter(d, dummy)
             wt == IF more > 0 THEN TRUE ELSE IF n > 0 THEN FALSE ELSE sender.wait
             rs == sender.reads + n
             rf == ref + sent
  <2>6. /\ buf' = b2 /\ sender' = SenderWith(sender, a.size, u, dm, wt, rs, rf)
        /\ owed' = owed + more - d
    BY <1>3, <1>5, <2>1
  <2>7. /\ u \in Nat /\ u = sender.dummy - d + more /\ (u > 0 => ready)
    <3> HIDE DEF more
    <3>1. Packet \in Nat
      BY AlsaConstants
    <3>2. u = sender.dummy - d + more
      OBVIOUS
    <3> HIDE DEF dummy
    <3> QED  BY <2>5, <3>1, <3>2
  <2>8. owed' = u
    <3> HIDE DEF more
    <3>1. PICK x \in Int, y \in Int : x = sender.dummy /\ y = more
      BY <1>2, <2>5
    <3>2. d \in Int
      BY <2>1, <1>2
    <3> HIDE DEF u
    <3> QED  BY <2>6, <2>7, <3>1, <3>2, <1>2
  <2> HIDE DEF u, dm, wt, rs, rf, b2
  <2>9. SenderOK(sender') /\ sender'.dummy = u
    <3>1. /\ SenderOK(SenderWith(sender, a.size, u, dm, wt, rs, rf))
          /\ SenderWith(sender, a.size, u, dm, wt, rs, rf).dummy = u
      <4> DEFINE z == a.size
      <4>1. z \in 0 .. Packet /\ u \in Nat /\ SenderOK(sender)
        BY <1>2, <2>5, <2>7
      <4> HIDE DEF z
      <4>2. /\ SenderOK(SenderWith(sender, z, u, dm, wt, rs, rf))
            /\ SenderWith(sender, z, u, dm, wt, rs, rf).dummy = u
        BY <4>1, SenderWithOK
      <4> QED  BY <4>2 DEF z
    <3> QED  BY <2>6, <3>1
  <2>10. StateOK'
    <3>1. owed' \in Int
      BY <2>7, <2>8, AlsaConstants
    <3> QED  BY <3>1, <2>9, <1>1 DEF StreamInv, StateOK
  <2>11. TransmitOK'
    <3>1. u > 0 => buf'.ready[1]
      BY <2>4, <2>6, <2>7
    <3> QED  BY <3>1, <2>8, <2>9, <1>1, <1>2 DEF TransmitOK
  <2>12. Fits(buf', pend') /\ pend' \in PendingRecords /\ ~inverted'
    BY <2>2, <2>4, <2>6, <1>1, <1>2 DEF StreamInv
  <2> QED  BY <2>10, <2>11, <2>12, <1>1, TransmitOnly DEF StreamInv
<1> QED  BY <1>4, <1>5

\* the pending descriptor of a stream that is activated
Restarted(p) == [p EXCEPT !.lastTime = 0]

\* setClientActive() changes the last time of a pending descriptor and nothing else.
LEMMA RestartedFields ==
  ASSUME NEW p \in PendingRecords
  PROVE  /\ Restarted(p) \in PendingRecords /\ Restarted(p).count = p.count
         /\ Restarted(p).samples = p.samples /\ Restarted(p).time = p.time
         /\ Restarted(p).index = p.index /\ Restarted(p).lastCnt = p.lastCnt
BY DEF Restarted, PendingRecords

\* It still fits, unless it waits for the time of the next packet.
LEMMA RestartedFits ==
  ASSUME NEW b, NEW p \in PendingRecords, Fits(b, p), b.req \/ p.count = 0 \/ p.time # 0
  PROVE  Fits(b, Restarted(p))
<1>1. PICK q, r, y, d, e :
        /\ b = Alike(q, r, y, d, e) /\ e \in BOOLEAN
        /\ RingSized(q, r, y) /\ Described(q, r, d, IF e THEN 0 ELSE p.count)
        /\ ~e => PendFits(p, q, r)
  BY DEF Fits
<1>2. b.req = e
  BY <1>1, AlikeFields
<1> DEFINE p1 == Restarted(p)
<1>3. /\ p1.count = p.count /\ p1.samples = p.samples /\ p1.time = p.time
      /\ p1.index = p.index /\ p1.lastCnt = p.lastCnt
  BY RestartedFields
<1> HIDE DEF p1
<1>4. ~e => PendFits(p1, q, r)
  <2> SUFFICES ASSUME ~e PROVE PendFits(p1, q, r)
    OBVIOUS
  <2>1. PendFits(p, q, r) /\ (p.count = 0 \/ p.time # 0) /\ p.count \in Nat
    BY <1>1, <1>2 DEF PendingRecords
  <2> QED  BY <2>1, <1>3 DEF PendFits
<1>5. Described(q, r, d, IF e THEN 0 ELSE p1.count)
  BY <1>1, <1>3
<1>6. Fits(b, p1)
  BY <1>1, <1>4, <1>5 DEF Fits
<1> QED  BY <1>6 DEF p1

\* readFromAvbPacket(): a packet is written to all channels or, after an overrun, to rings that have
\* been brought to the optimal level first; its time completes the pending descriptor.
LEMMA ReceiveStep == ASSUME StreamInv, Assumed, Sized, ReceivePacket PROVE StreamInv'
<1> DEFINE starts == count = 1 /\ client = "idle"
           b1 == IF starts THEN ResetBuffers(buf) ELSE buf
           b2 == IF ~valid /\ client # "none" THEN Flushed(b1) ELSE b1
           active == starts \/ client = "active"
           p1 == IF starts THEN [pend EXCEPT !.lastTime = 0] ELSE pend
           w == IF client # "none" /\ running THEN WriteLocal(b2, p1, active, media)
                ELSE [buf |-> b2, pend |-> p1]
<1>1. /\ dir = "rx" /\ dir' = "rx" /\ media' = media + Packet /\ valid' = TRUE
      /\ UNCHANGED <<running, sender, shm, worker, now, epoch, owed>>
      /\ count' = IF count > 0 THEN count - 1 ELSE 0
      /\ Written(buf, 1) + Packet <= MaxIndex
      /\ client = "idle" => Packet <= Total - FillOf(buf, 1)
      /\ valid /\ count = 1 /\ client = "idle" => buf.req \/ pend.count = 0 \/ pend.time # 0
  BY DEF ReceivePacket, Assumed
<1>2. /\ client' = IF starts THEN "active" ELSE client
      /\ inverted' = (inverted \/ (starts /\ ResetStarves(buf))
                               \/ (active /\ Packet > Total - FillOf(b2, 1) /\ ResetStarves(b2)))
      /\ buf' = w.buf /\ pend' = w.pend
  BY DEF ReceivePacket
<1>3. /\ pend \in PendingRecords /\ Fits(buf, pend) /\ ~inverted
      /\ media \in Nat /\ media >= 1 /\ valid \in BOOLEAN /\ running \in BOOLEAN
      /\ client \in {"none", "idle", "active"} /\ count \in 0 .. Validation
  BY DEF StreamInv, StateOK
<1>4. StateOK'
  <2>1. count' \in 0 .. Validation /\ media' \in Nat /\ media' >= 1 /\ valid' \in BOOLEAN
    BY <1>1, <1>3, Constants, AlsaConstants
  <2>2. client' \in {"none", "idle", "active"}
    BY <1>2, <1>3
  <2> QED  BY <2>1, <2>2, <1>1 DEF StreamInv, StateOK
<1>5. TransmitOK'
  BY <1>1 DEF TransmitOK
<1>6. ResetStarves(buf) = FALSE /\ Fits(ResetBuffers(buf), pend) /\ ResetBuffers(buf).req = buf.req
      /\ Written(ResetBuffers(buf), 1) = Written(buf, 1)
  <2>1. ~ResetStarves(buf)
    BY <1>3, ResetFits
  <2>2. /\ Fits(ResetBuffers(buf), pend) /\ ResetBuffers(buf).req = buf.req
        /\ Written(ResetBuffers(buf), 1) = Written(buf, 1)
    BY <1>3, ResetFits
  <2>3. ResetStarves(buf) \in BOOLEAN
    BY DEF ResetStarves
  <2> QED  BY <2>1, <2>2, <2>3
<1>7. Fits(b1, pend) /\ b1.req = buf.req /\ Written(b1, 1) = Written(buf, 1) /\ Written(buf, 1) \in Nat
  <2>1. Written(buf, 1) \in Nat
    <3>1. buf.rd[1] \in Nat /\ FillOf(buf, 1) \in Nat /\ Written(buf, 1) = buf.rd[1] + FillOf(buf, 1)
      BY <1>3, FitsBounds
    <3> QED  BY <3>1
  <2>2. CASE starts
    <3>1. b1 = ResetBuffers(buf)
      BY <2>2
    <3> HIDE DEF b1
    <3> QED  BY <3>1, <2>1, <1>6
  <2>3. CASE ~starts
    <3>1. b1 = buf
      BY <2>3
    <3> HIDE DEF b1
    <3> QED  BY <3>1, <2>1, <1>3
  <2> QED  BY <2>2, <2>3
<1>8. p1 \in PendingRecords /\ p1.count = pend.count /\ p1.time = pend.time /\ (~starts => p1 = pend)
  <2>1. CASE starts
    <3>1. p1 = Restarted(pend)
      BY <2>1 DEF Restarted
    <3>2. /\ Restarted(pend) \in PendingRecords /\ Restarted(pend).count = pend.count
          /\ Restarted(pend).time = pend.time
      BY <1>3, RestartedFields
    <3> HIDE DEF p1
    <3> QED  BY <3>1, <3>2, <2>1
  <2>2. CASE ~starts
    <3>1. p1 = pend
      BY <2>2
    <3> HIDE DEF p1
    <3> QED  BY <3>1, <1>3
  <2> QED  BY <2>1, <2>2
<1>9. \/ b2 = Empty(TRUE) /\ ~valid /\ client # "none"
      \/ b2 = b1 /\ (valid \/ client = "none")
  <2>1. CASE ~valid /\ client # "none"
    <3>1. b2 = Empty(TRUE)
      BY <2>1 DEF Flushed
    <3> HIDE DEF b2, b1
    <3> QED  BY <2>1, <3>1
  <2>2. CASE ~(~valid /\ client # "none")
    <3>1. b2 = b1
      BY <2>2
    <3> HIDE DEF b2, b1
    <3> QED  BY <2>2, <3>1, <1>3
  <2> QED  BY <2>1, <2>2
<1>10. /\ Fits(b2, p1) /\ Written(b2, 1) + Packet <= MaxIndex
       /\ b2 = Empty(TRUE) \/ b2.req = buf.req
  <2>1. CASE b2 = Empty(TRUE) /\ ~valid /\ client # "none"
    <3> HIDE DEF b2, p1
    <3>1. Fits(Empty(TRUE), p1) /\ Written(Empty(TRUE), 1) = 0
      BY EmptyFits
    <3>2. 0 + Packet <= MaxIndex
      BY <1>1, <1>7, Constants
    <3> QED  BY <2>1, <3>1, <3>2
  <2>2. CASE b2 = b1 /\ (valid \/ client = "none")
    <3>1. Fits(b1, p1)
      <4>1. CASE starts
        <5>1. p1 = Restarted(pend)
          BY <4>1 DEF Restarted
        <5>2. valid /\ (b1.req \/ pend.count = 0 \/ pend.time # 0)
          BY <4>1, <2>2, <1>1, <1>7
        <5> HIDE DEF b1, p1
        <5>3. Fits(b1, Restarted(pend))
          BY <5>2, <1>3, <1>7, RestartedFits
        <5> QED  BY <5>1, <5>3
      <4>2. CASE ~starts
        <5> HIDE DEF starts, b1, p1
        <5> QED  BY <4>2, <1>7, <1>8
      <4> QED  BY <4>1, <4>2
    <3> HIDE DEF b2, b1, p1
    <3> QED  BY <2>2, <3>1, <1>1, <1>7
  <2> QED  BY <2>1, <2>2, <1>9
<1>11. ~inverted'
  <2>1. ~ResetStarves(b2)
    <3> HIDE DEF b2, p1
    <3> QED  BY <1>8, <1>10, ResetFits
  <2> HIDE DEF b2
  <2> QED  BY <2>1, <1>2, <1>3, <1>6
<1>12. CASE client = "none"
  <2>1. ~starts /\ b2 = buf /\ p1 = pend
    BY <1>12
  <2>2. w = [buf |-> b2, pend |-> p1]
    BY <1>12
  <2>3. buf' = buf /\ pend' = pend /\ client' = "none"
    <3> HIDE DEF w, b2, p1, starts
    <3> QED  BY <2>1, <2>2, <1>2, <1>12
  <2>4. MediaFollows' /\ StoppedEmpty'
    BY <2>3, <1>1 DEF MediaFollows, StoppedEmpty, StreamInv
  <2> QED  BY <2>3, <2>4, <1>3, <1>4, <1>5, <1>11 DEF StreamInv
<1>13. CASE client # "none" /\ ~running
  <2>1. w.buf = b2 /\ w.pend = p1
    BY <1>13
  <2>2. buf' = b2 /\ pend' = p1
    <3> HIDE DEF w, b2, p1
    <3> QED  BY <2>1, <1>2
  <2>3. buf = Empty(buf.req) /\ (~buf.req => pend.count = 0) /\ buf.req \in BOOLEAN
    <3>1. buf = Empty(buf.req) /\ (~buf.req => pend.count = 0)
      BY <1>1, <1>13 DEF StreamInv, StoppedEmpty
    <3>2. buf.req \in BOOLEAN
      BY <1>3, FitsBounds
    <3> QED  BY <3>1, <3>2
  <2>4. b1 = buf
    <3>1. CASE starts
      <4>1. b1 = ResetBuffers(buf)
        BY <3>1
      <4> DEFINE e == buf.req
      <4>2. e \in BOOLEAN /\ buf = Empty(e)
        BY <2>3
      <4> HIDE DEF e, b1
      <4>3. ResetBuffers(Empty(e)) = Empty(e)
        BY <4>2, ResetEmpty
      <4> QED  BY <4>1, <4>2, <4>3
    <3>2. CASE ~starts
      BY <3>2
    <3> QED  BY <3>1, <3>2
  <2> HIDE DEF w, p1, b1, starts
  <2>5. buf' = Empty(TRUE) \/ buf' = buf
    BY <2>2, <2>4, <1>9
  <2> HIDE DEF b2
  <2>6. StoppedEmpty'
    <3>1. CASE buf' = Empty(TRUE)
      <4>1. buf'.req = TRUE
        BY <3>1, EmptyFlags
      <4> QED  BY <3>1, <4>1 DEF StoppedEmpty
    <3>2. CASE buf' = buf
      BY <3>2, <2>2, <2>3, <1>8 DEF StoppedEmpty
    <3> QED  BY <3>1, <3>2, <2>5
  <2>7. MediaFollows'
    <3>1. CASE buf' = Empty(TRUE)
      <4>1. buf'.req = TRUE
        BY <3>1, EmptyFlags
      <4> QED  BY <4>1 DEF MediaFollows
    <3>2. CASE buf' = buf
      <4>1. pend'.count = 0 \/ buf'.req
        BY <3>2, <2>2, <2>3, <1>8
      <4> QED  BY <4>1 DEF MediaFollows
    <3> QED  BY <3>1, <3>2, <2>5
  <2> QED  BY <2>2, <2>6, <2>7, <1>4, <1>5, <1>8, <1>10, <1>11 DEF StreamInv
<1>14. CASE client # "none" /\ running
  <2>1. w = WriteLocal(b2, p1, active, media)
    BY <1>14
  <2>2. active \in BOOLEAN /\ (~active => ~starts /\ client = "idle")
    BY <1>3, <1>14
  <2>3. ~active => Packet <= Total - FillOf(b2, 1)
    <3> SUFFICES ASSUME ~active PROVE Packet <= Total - FillOf(b2, 1)
      OBVIOUS
    <3>1. b1 = buf
      BY <2>2
    <3> HIDE DEF b1
    <3>2. CASE b2 = Empty(TRUE)
      <4> HIDE DEF b2
      <4>1. FillOf(Empty(TRUE), 1) = 0
        BY <1>3, EmptyFits
      <4>2. Packet <= Total - 0
        BY Constants DEF Sized
      <4> QED  BY <3>2, <4>1, <4>2
    <3>3. CASE b2 = b1
      <4> HIDE DEF b2
      <4> QED  BY <3>1, <3>3, <2>2, <1>1
    <3> QED  BY <3>2, <3>3, <1>9
  <2>4. ~b2.req /\ p1.count > 0 /\ p1.time = 0 => media = p1.lastTime + Packet
    <3> SUFFICES ASSUME ~b2.req, p1.count > 0, p1.time = 0 PROVE media = p1.lastTime + Packet
      OBVIOUS
    <3> HIDE DEF b1, p1
    <3>1. b2 # Empty(TRUE)
      <4> HIDE DEF b2
      <4> QED  BY EmptyFlags
    <3>2. valid
      BY <3>1, <1>9, <1>14
    <3> HIDE DEF b2
    <3>3. ~buf.req /\ pend.count > 0 /\ pend.time = 0
      BY <3>1, <1>8, <1>10
    <3>4. ~starts
      <4>1. pend.count # 0
        BY <3>3
      <4> QED  BY <3>2, <3>3, <4>1, <1>1
    <3>5. p1 = pend
      BY <3>4, <1>8
    <3> QED  BY <3>2, <3>3, <3>5, <1>1, <1>14 DEF StreamInv, MediaFollows
  <2> HIDE DEF b2, p1, active, starts, w
  <2>5. LET x == WriteLocal(b2, p1, active, media) IN
        /\ Fits(x.buf, x.pend) /\ x.pend \in PendingRecords
        /\ x.buf.req = FALSE /\ PendWaits(x.pend, media)
    BY <2>2, <2>3, <2>4, <1>3, <1>8, <1>10, WriteLocalFits
  <2>6. /\ Fits(buf', pend') /\ pend' \in PendingRecords
        /\ buf'.req = FALSE /\ PendWaits(pend', media)
    BY <2>1, <2>5, <1>2
  <2>7. MediaFollows'
    BY <2>6, <1>1 DEF MediaFollows, PendWaits
  <2>8. StoppedEmpty'
    BY <2>6, <1>1, <1>14 DEF StoppedEmpty
  <2> QED  BY <2>6, <2>7, <2>8, <1>4, <1>5, <1>11 DEF StreamInv
<1> QED  BY <1>12, <1>13, <1>14, <1>3

\* What fits is described: no more descriptors than mDescQ has places, each with the time of
\* its sample, and the first not out of date.
LEMMA FitsDescribed ==
  ASSUME NEW b, NEW p \in PendingRecords, Fits(b, p)
  PROVE  /\ Len(b.desc) <= QueueSize
         /\ \A i \in 1 .. Len(b.desc) :
              b.desc[i].index \in b.rd[1] .. Written(b, 1) - 1
                => b.desc[i].time = b.ring[1][b.desc[i].index - b.rd[1] + 1]
         /\ b.desc # <<>> => b.rd[1] < Head(b.desc).index + Head(b.desc).count
<1>1. PICK q, r, y, d, e :
        /\ b = Alike(q, r, y, d, e) /\ e \in BOOLEAN
        /\ RingSized(q, r, y) /\ Described(q, r, d, IF e THEN 0 ELSE p.count)
  BY DEF Fits
<1>2. 1 \in Channels
  BY Constants DEF Channels
<1>3. b.ring[1] = q /\ b.rd[1] = r /\ b.desc = d
  BY <1>1, <1>2, AlikeFields
<1>4. PICK pc \in Nat : Described(q, r, d, pc)
  BY <1>1 DEF PendingRecords
<1>5. q \in Seq(Int) /\ r \in Nat /\ Len(q) <= Total
  BY <1>1 DEF RingSized
<1>6. Len(d) <= QueueSize
  <2>1. Len(d) < QueueSize
    BY <1>4, <1>5, FewDescriptors
  <2>2. Len(d) \in Nat
    BY <1>4 DEF Described
  <2>3. QueueSize \in Int
    BY Constants DEF QueueSize
  <2> QED  BY <2>1, <2>2, <2>3
<1>7. \A i \in 1 .. Len(d) : d[i].index >= r => d[i].time = q[d[i].index - r + 1]
  BY <1>4 DEF Described
<1>8. Written(b, 1) \in Int
  BY <1>3, <1>5 DEF Written, FillOf
<1>9. \A i \in 1 .. Len(d) : d[i].index \in r .. Written(b, 1) - 1 => d[i].index >= r
  BY <1>5, <1>8
<1>10. d # <<>> => r < Head(d).index + Head(d).count
  BY <1>4, <1>5, HeadCovers DEF Covers, Descriptors
<1> QED  BY <1>3, <1>6, <1>7, <1>9, <1>10

\* The invariant gives the types.
LEMMA StreamTypes == StreamInv => AlsaTypeOK
<1> SUFFICES ASSUME StreamInv PROVE AlsaTypeOK
  OBVIOUS
<1>1. pend \in PendingRecords /\ Fits(buf, pend) /\ StateOK
  BY DEF StreamInv
<1>2. \A c \in Channels : FillOf(buf, c) \in 0 .. Total /\ buf.rd[c] \in 0 .. MaxIndex
  <2>1. /\ \A c \in Channels : FillOf(buf, c) = FillOf(buf, 1) /\ buf.rd[c] = buf.rd[1]
        /\ FillOf(buf, 1) \in Nat /\ FillOf(buf, 1) <= Total
        /\ buf.rd[1] \in Nat /\ buf.rd[1] + FillOf(buf, 1) <= MaxIndex
    <3>1. /\ \A c \in Channels : buf.rd[c] = buf.rd[1] /\ FillOf(buf, c) = FillOf(buf, 1)
          /\ FillOf(buf, 1) \in Nat /\ FillOf(buf, 1) <= Total /\ buf.rd[1] \in Nat
          /\ Written(buf, 1) = buf.rd[1] + FillOf(buf, 1) /\ Written(buf, 1) <= MaxIndex
      BY <1>1, FitsBounds
    <3> QED  BY <3>1
  <2> QED  BY <2>1, Constants
<1>3. Len(buf.desc) <= QueueSize
  BY <1>1, FitsDescribed
<1>4. /\ client \in {"none", "idle", "active"} /\ worker \in {"off", "idle", "status", "signal"}
      /\ count \in 0 .. Validation
  BY <1>1 DEF StateOK
<1>5. sender.size \in 0 .. Packet /\ sender.dummy \in Nat
  BY <1>1 DEF StateOK, SenderOK
<1>6. shm.fill \in 0 .. ShmPeriods /\ shm.done \in 0 .. ShmPeriods + Prefill
  <2>1. shm.fill \in 0 .. ShmPeriods /\ shm.done \in 0 .. Prefill
    BY <1>1 DEF StateOK, ShmOK
  <2> QED  BY <2>1, AlsaConstants
<1> QED  BY <1>2, <1>3, <1>4, <1>5, <1>6 DEF AlsaTypeOK

\* The invariant gives the aligned channels.
LEMMA StreamInvAligned == StreamInv => ChannelsAligned
<1> SUFFICES ASSUME StreamInv PROVE ChannelsAligned
  OBVIOUS
<1>1. \A c \in Channels : buf.ring[c] = buf.ring[1] /\ buf.rd[c] = buf.rd[1]
  BY FitsBounds DEF StreamInv
<1>2. dir = "tx" => sender.dummy = owed
  BY DEF StreamInv, TransmitOK
<1> QED  BY <1>1, <1>2, StreamTypes DEF StreamInv, ChannelsAligned

\* And the exact descriptors.
LEMMA StreamInvExact == StreamInv => DescriptorsExact
BY FitsDescribed DEF StreamInv, DescriptorsExact

\* Every step keeps the invariant.
LEMMA StreamInvStep ==
  ASSUME StreamInv, Assumed, Sized, [AlsaNext]_alsaVars
  PROVE  StreamInv'
<1>1. CASE ReceivePacket
  BY <1>1, ReceiveStep
<1>2. CASE Interrupted
  BY <1>2, InterruptedStep
<1>3. CASE CopyJobRx
  BY <1>3, CopyRxStep
<1>4. CASE ClientAccess \/ IpcStartStop
  BY <1>4, ClientStep
<1>5. CASE CopyJobTx
  BY <1>5, CopyTxStep
<1>6. CASE SendPacket
  BY <1>6, SendStep
<1>7. CASE ActivationChanged
  BY <1>7, ActivationStep
<1>8. CASE UpdateBufferStatus \/ SignalUnderrun
  BY <1>8, StatusStep
<1>9. CASE WorkerStarts
  BY <1>9, StartStep
<1>10. CASE WorkerStops
  BY <1>10, StopStep
<1>11. CASE ConnectStream
  BY <1>11, ConnectStep
<1>12. CASE Disconnect
  BY <1>12, DisconnectStep
<1>13. CASE Tick
  BY <1>13, TickStep
<1>14. CASE NewEpoch
  BY <1>14, NewEpochStep
<1>15. CASE UNCHANGED alsaVars
  BY <1>15 DEF alsaVars, StreamInv, StateOK, MediaFollows, StoppedEmpty, TransmitOK
<1> QED  BY <1>1, <1>2, <1>3, <1>4, <1>5, <1>6, <1>7, <1>8, <1>9, <1>10, <1>11, <1>12, <1>13,
            <1>14, <1>15 DEF AlsaNext

\* For every size of packets, periods and rings the channels of an IasLocalAudioStream stay alike and
\* the descriptors in mDescQ and the pending one describe what is in the rings without gap.
THEOREM StreamInvHolds == ASSUME Assumed, Sized PROVE AlsaSpec => []StreamInv
<1>1. StreamInv /\ [AlsaNext]_alsaVars => StreamInv'
  BY StreamInvStep
<1> QED  BY <1>1, StreamInvInit, PTL DEF AlsaSpec

\* Overruns, resets, reads of the copy jobs and the discarding of late or dummy samples never leave one
\* channel ahead of another; writeToAvbPacket() has to discard as many samples as it sent dummies for;
\* no underrun is signalled with the AVB stream's mutex held (ChannelsAligned, which has the types).
THEOREM ChannelsStayAligned == ASSUME Assumed, Sized PROVE AlsaSpec => []ChannelsAligned
BY StreamInvHolds, StreamInvAligned, PTL

\* A descriptor carries the time of the sample at its index, interpolated where packets straddle
\* periods, and the first is never out of date (comment at IasLocalAudioStream.cpp:606-616).
THEOREM DescriptorsAreExact == ASSUME Assumed, Sized PROVE AlsaSpec => []DescriptorsExact
BY StreamInvHolds, StreamInvExact, PTL
=============================================================================

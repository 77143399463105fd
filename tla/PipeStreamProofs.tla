-------------------------- MODULE PipeStreamProofs --------------------------
(***************************************************************************)
(* Proofs about PipeStream, for any number and length of texts, every size *)
(* of buffer and of fifo: its types, that the pipes are kept apart, and    *)
(* that it implements LineChannel.                                         *)
(***************************************************************************)
EXTENDS PipeStream, FiniteFolds, SequenceTheorems, TLAPS

\* The constants, one by one.
LEMMA Sizes ==
    /\ Sessions \in Nat \ {0} /\ TextLen \in Nat \ {0}
    /\ PipeBuf \in Nat \ {0} /\ FifoSize \in Nat \ {0} /\ PipeBuf <= FifoSize
BY SizesAssumption

-----------------------------------------------------------------------------
(* Type correctness: no buffer holds more than its size                    *)

\* The types, and that the text is counted from 1.
Types == TypeOK /\ next \in Nat \ {0}

\* All buffers are empty at the start.
LEMMA InitTypes == Init => Types
BY Sizes DEF Init, Types, TypeOK, BufferSize

\* What is written to a pipe is the beginning of the put area, and fits.
LEMMA WrittenTypes ==
    ASSUME Types, wn \in 1..Sessions, Synced
    PROVE  /\ fifo' \in [1..Sessions -> Seq(Bytes)]
           /\ \A s \in 1..Sessions : Len(fifo'[s]) <= FifoSize
<1> USE Sizes DEF Types, TypeOK
<1>1. PICK n \in Writable : fifo' = [fifo EXCEPT ![wn] = @ \o SubSeq(put, 1, n)]
  BY DEF Synced
<1>2. n \in 1..Len(put) /\ Len(fifo[wn]) + n <= FifoSize
  BY <1>1 DEF Writable
<1>3. SubSeq(put, 1, n) \in Seq(Bytes) /\ Len(SubSeq(put, 1, n)) = n
  BY <1>2
<1>4. fifo[wn] \o SubSeq(put, 1, n) \in Seq(Bytes) /\ Len(fifo[wn] \o SubSeq(put, 1, n)) <= FifoSize
  BY <1>2, <1>3
<1> QED
  BY <1>1, <1>4

\* Emptying a pipe keeps the types.
LEMMA EmptiedTypes ==
    ASSUME Types, NEW s \in 1..Sessions, fifo' = fifo \/ fifo' = [fifo EXCEPT ![s] = <<>>]
    PROVE  /\ fifo' \in [1..Sessions -> Seq(Bytes)]
           /\ \A u \in 1..Sessions : Len(fifo'[u]) <= FifoSize
<1>1. <<>> \in Seq(Bytes) /\ Len(<<>>) <= FifoSize
  BY Sizes
<1> QED
  BY <1>1 DEF Types, TypeOK

\* A byte is put behind the others as long as there is room.
LEMMA PutTypes ==
    ASSUME Types, wn \in 1..Sessions, next <= TextLen
    PROVE  /\ Byte(wn, next) \in Bytes
           /\ <<Byte(wn, next)>> \in Seq(Bytes) /\ Len(<<Byte(wn, next)>>) <= BufferSize
           /\ Len(put) < BufferSize => Append(put, Byte(wn, next)) \in Seq(Bytes)
                                       /\ Len(Append(put, Byte(wn, next))) <= BufferSize
<1>1. Byte(wn, next) \in Bytes
  BY Sizes DEF Types, TypeOK, Bytes
<1> HIDE DEF Bytes
<1> QED
  BY <1>1, Sizes DEF Types, TypeOK, BufferSize

\* A side that is in a pipe is in one that exists.
Places ==
    /\ wpc \in {"open", "opening", "dead"} => wn \in 1..Sessions
    /\ rpc \in {"open", "opening"} => rn \in 1..Sessions

\* The writer keeps the types.
LEMMA WriterTypes == ASSUME Types, Places, WriterStep PROVE Types'
<1> USE Sizes DEF Places
<1>1. CASE OpenWriter \/ WriterOpenFails
  BY <1>1 DEF OpenWriter, WriterOpenFails, Types, TypeOK, reader
<1>2. CASE PutByte
  <2>1. wn \in 1..Sessions /\ next <= TextLen
    BY <1>2 DEF PutByte
  <2>2. next' = next + 1 /\ UNCHANGED <<wpc, wn, wbad, reader, async, failed, stuck>>
    BY <1>2 DEF PutByte
  <2>3. ASSUME put' \in Seq(Bytes), Len(put') <= BufferSize, fifo' \in [1..Sessions -> Seq(Bytes)],
               \A s \in 1..Sessions : Len(fifo'[s]) <= FifoSize
        PROVE  Types'
    BY <2>2, <2>3 DEF reader, Types, TypeOK
  <2>4. CASE Len(put) < BufferSize /\ put' = Append(put, Byte(wn, next)) /\ UNCHANGED fifo
    <3>1. put' \in Seq(Bytes) /\ Len(put') <= BufferSize
      BY <2>1, <2>4, PutTypes
    <3> QED BY <2>3, <2>4, <3>1 DEF Types, TypeOK
  <2>5. CASE Synced /\ put' = <<Byte(wn, next)>>
    <3>1. put' \in Seq(Bytes) /\ Len(put') <= BufferSize
      BY <2>1, <2>5, PutTypes
    <3>2. fifo' \in [1..Sessions -> Seq(Bytes)] /\ \A s \in 1..Sessions : Len(fifo'[s]) <= FifoSize
      BY <2>1, <2>5, WrittenTypes
    <3> QED BY <2>3, <3>1, <3>2
  <2> QED
    BY <1>2, <2>4, <2>5 DEF PutByte
<1>3. CASE Flush
  BY <1>3, WrittenTypes DEF Flush, reader, Types, TypeOK, BufferSize
<1>4. CASE Spoil
  BY <1>4 DEF Spoil, SyncFails, reader, Types, TypeOK
<1>5. CASE CloseWriter
  <2>1. CASE Synced /\ put' = <<>>
    BY <1>5, <2>1, WrittenTypes DEF CloseWriter, reader, Types, TypeOK, BufferSize
  <2>2. CASE fifo' = Emptied(wn, ReaderHas(wn)) /\ UNCHANGED <<put, stuck>>
    BY <1>5, <2>2, EmptiedTypes DEF CloseWriter, Emptied, reader, Types, TypeOK
  <2>3. CASE SyncFails /\ stuck' = TRUE /\ UNCHANGED put
    BY <1>5, <2>3 DEF CloseWriter, SyncFails, reader, Types, TypeOK
  <2> QED
    BY <1>5, <2>1, <2>2, <2>3 DEF CloseWriter
<1>6. CASE DieWriting
  BY <1>6, EmptiedTypes DEF DieWriting, Emptied, reader, Types, TypeOK, BufferSize
<1> QED
  BY <1>1, <1>2, <1>3, <1>4, <1>5, <1>6 DEF WriterStep

\* The reader keeps them.
LEMMA ReaderTypes == ASSUME Types, Places, ReaderStep PROVE Types'
<1> USE Sizes DEF Places
<1>1. CASE OpenReader \/ ReaderOpenFails
  <2>1. CASE OpenReader
    BY <2>1 DEF OpenReader, Types, TypeOK
  <2>2. CASE ReaderOpenFails
    BY <2>2 DEF ReaderOpenFails, Types, TypeOK, writer
  <2> QED BY <1>1, <2>1, <2>2
<1>2. CASE Underflow
  <2> DEFINE n == IF Len(fifo[rn]) < BufferSize THEN Len(fifo[rn]) ELSE BufferSize
             rest == SubSeq(fifo[rn], n + 1, Len(fifo[rn]))
  <2>1. rn \in 1..Sessions /\ fifo[rn] \in Seq(Bytes) /\ n \in 0..Len(fifo[rn])
    BY <1>2 DEF Underflow, Reading, Types, TypeOK, BufferSize
  <2>2. SubSeq(fifo[rn], 1, n) \in Seq(Bytes) /\ rest \in Seq(Bytes) /\ Len(rest) <= Len(fifo[rn])
    BY <2>1
  <2>3. get' = SubSeq(fifo[rn], 1, n) /\ fifo' = [fifo EXCEPT ![rn] = rest]
    BY <1>2 DEF Underflow
  <2> QED
    <3>1. rest \in Seq(Bytes) /\ Len(rest) <= FifoSize
      <4>1. Len(fifo[rn]) \in Nat /\ Len(rest) \in Nat /\ Len(fifo[rn]) <= FifoSize
        BY <2>1, <2>2 DEF Types, TypeOK
      <4> QED
        BY <4>1, <2>2
    <3> HIDE DEF rest
    <3>2. /\ fifo' \in [1..Sessions -> Seq(Bytes)]
          /\ \A s \in 1..Sessions : Len(fifo'[s]) <= FifoSize
      BY <2>3, <3>1 DEF Types, TypeOK
    <3>3. get' \in Seq(Bytes)
      BY <2>2, <2>3
    <3> QED
      BY <1>2, <3>2, <3>3 DEF Underflow, writer, Types, TypeOK
<1>3. CASE Consume
  <2>1. get' \in Seq(Bytes)
    <3>1. CASE get' = <<>>
      BY <3>1
    <3>2. ASSUME NEW n \in DOMAIN get, get' = SubSeq(get, n + 1, Len(get)) PROVE get' \in Seq(Bytes)
      BY <3>2 DEF Types, TypeOK
    <3> QED
      BY <1>3, <3>1, <3>2 DEF Consume
  <2> QED
    BY <1>3, <2>1 DEF Consume, writer, Types, TypeOK
<1>4. CASE EndOfFile \/ ReadInterrupted
  BY <1>4 DEF EndOfFile, ReadInterrupted, LoopEnds, writer, Types, TypeOK
<1>5. CASE CloseReader
  BY <1>5, EmptiedTypes DEF CloseReader, Emptied, writer, Types, TypeOK
<1> QED
  BY <1>1, <1>2, <1>3, <1>4, <1>5 DEF ReaderStep, ReadStep

\* A pipe is opened after its number was counted up.
LEMMA PlacesStep == Types /\ Places /\ [Next]_vars => Places'
<1> SUFFICES ASSUME Types, Places, [Next]_vars PROVE Places'
  OBVIOUS
<1>1. wn \in 0..Sessions /\ rn \in 0..Sessions
  BY DEF Types, TypeOK
<1>2. CASE OpenWriter \/ WriterOpenFails \/ OpenReader \/ ReaderOpenFails
  BY <1>1, <1>2, Sizes DEF OpenWriter, WriterOpenFails, OpenReader, ReaderOpenFails, Places, reader, writer
<1>3. CASE PutByte \/ Flush \/ Spoil \/ CloseWriter \/ DieWriting
  BY <1>3 DEF PutByte, Flush, Spoil, CloseWriter, DieWriting, reader, Places
<1>4. CASE ReadStep \/ ReadInterrupted \/ CloseReader
  BY <1>4 DEF ReadStep, Underflow, Consume, EndOfFile, ReadInterrupted, LoopEnds, CloseReader, writer, Places
<1>5. CASE UNCHANGED vars
  BY <1>5 DEF vars, writer, reader, Places
<1> QED
  BY <1>2, <1>3, <1>4, <1>5 DEF Next, WriterStep, ReaderStep

\* Every step keeps types and places.
LEMMA TypesStep == Types /\ Places /\ [Next]_vars => (Types /\ Places)'
<1>1. Types /\ UNCHANGED vars => Types'
  BY DEF Types, TypeOK, vars, writer, reader
<1> QED
  BY <1>1, WriterTypes, ReaderTypes, PlacesStep DEF Next

\* So they hold in every state.
LEMMA AlwaysTypes == Spec => [](Types /\ Places)
<1>1. Init => Types /\ Places
  BY InitTypes DEF Init, Places
<1> QED
  BY <1>1, TypesStep, PTL DEF Spec

\* Put area, get area and the kernel's buffers keep their types and their sizes.
THEOREM TypeCorrect == Spec => []TypeOK
<1>1. Types => TypeOK
  BY DEF Types
<1> QED
  BY <1>1, AlwaysTypes, PTL

-----------------------------------------------------------------------------
(* A pipe carries its own text                                             *)

\* All of the text is that of the session.
Of(text, s) == \A i \in DOMAIN text : text[i][1] = s

\* The put area is empty when a pipe is opened, and holds bytes of the open one.
Own ==
    ~stuck => /\ Of(put, wn)
              /\ wpc \in {"closed", "opening"} => put = <<>>
              /\ \A s \in 1..Sessions : Of(fifo[s], s)

\* Parts of a text of one session, and two of them together.
LEMMA OfParts ==
    ASSUME NEW s, NEW text \in Seq(Bytes), NEW more \in Seq(Bytes), Of(text, s), Of(more, s)
    PROVE  /\ Of(text \o more, s)
           /\ \A i, j \in Nat : 1 <= i /\ j <= Len(text) => Of(SubSeq(text, i, j), s)
<1>1. \A k \in 1..(Len(text) + Len(more)) :
        (text \o more)[k] = IF k <= Len(text) THEN text[k] ELSE more[k - Len(text)]
  OBVIOUS
<1>2. Of(text \o more, s)
  BY <1>1 DEF Of
<1>3. ASSUME NEW i \in Nat, NEW j \in Nat, 1 <= i, j <= Len(text)
      PROVE  Of(SubSeq(text, i, j), s)
  BY <1>3 DEF Of
<1> QED
  BY <1>2, <1>3

\* The next byte of the writer is of its session.
LEMMA OfByte ==
    ASSUME Types, wn \in 1..Sessions, next <= TextLen, Of(put, wn)
    PROVE  Of(<<Byte(wn, next)>>, wn) /\ Of(Append(put, Byte(wn, next)), wn)
<1>1. Byte(wn, next)[1] = wn /\ put \in Seq(Bytes) /\ Byte(wn, next) \in Bytes
  BY PutTypes DEF Types, TypeOK, Byte
<1> HIDE DEF Byte
<1> QED
  BY <1>1 DEF Of

\* Every step keeps it.
LEMMA OwnStep == Types /\ Places /\ Own /\ [Next]_vars => Own'
<1> SUFFICES ASSUME Types, Places, Own, [Next]_vars, ~stuck' PROVE Own'
  BY DEF Own
<1>1. ~stuck
  BY DEF Next, WriterStep, OpenWriter, WriterOpenFails, PutByte, Flush, Spoil, CloseWriter,
         DieWriting, ReaderStep, ReadStep, OpenReader, ReaderOpenFails, Underflow, Consume,
         EndOfFile, ReadInterrupted, LoopEnds, CloseReader, vars, writer
<1>2. Of(put, wn) /\ \A s \in 1..Sessions : Of(fifo[s], s)
  BY <1>1 DEF Own
<1>3. Of(<<>>, wn) /\ Of(<<>>, wn') /\ \A s \in 1..Sessions : Of(<<>>, s)
  BY DEF Of
<1>4. ASSUME wn \in 1..Sessions, Synced PROVE \A s \in 1..Sessions : Of(fifo'[s], s)
  <2>1. PICK n \in Writable : fifo' = [fifo EXCEPT ![wn] = @ \o SubSeq(put, 1, n)]
    BY <1>4 DEF Synced
  <2>2. n \in 1..Len(put) /\ put \in Seq(Bytes) /\ fifo[wn] \in Seq(Bytes)
    BY <1>4, <2>1 DEF Writable, Types, TypeOK
  <2>3. SubSeq(put, 1, n) \in Seq(Bytes) /\ Of(SubSeq(put, 1, n), wn)
    BY <1>2, <2>2, OfParts
  <2>4. Of(fifo[wn] \o SubSeq(put, 1, n), wn)
    BY <1>2, <1>4, <2>2, <2>3, OfParts
  <2> QED
    BY <1>2, <2>1, <2>4 DEF Types, TypeOK
<1>5. ASSUME NEW u \in 1..Sessions, fifo' = fifo \/ fifo' = [fifo EXCEPT ![u] = <<>>]
      PROVE  \A s \in 1..Sessions : Of(fifo'[s], s)
  BY <1>2, <1>3, <1>5 DEF Types, TypeOK
<1>6. CASE OpenWriter \/ WriterOpenFails
  BY <1>1, <1>2, <1>3, <1>6 DEF OpenWriter, WriterOpenFails, Own
<1>7. CASE PutByte
  <2>1. wn \in 1..Sessions /\ wn' = wn /\ next <= TextLen /\ wpc' = "open"
    BY <1>7 DEF PutByte, Places
  <2>2. Of(put', wn)
    BY <1>2, <1>7, <2>1, OfByte DEF PutByte
  <2>3. \A s \in 1..Sessions : Of(fifo'[s], s)
    BY <1>2, <1>4, <1>7, <2>1 DEF PutByte
  <2> QED
    BY <2>1, <2>2, <2>3 DEF Own
<1>8. CASE Flush
  BY <1>3, <1>4, <1>8 DEF Flush, Places, Own
<1>9. CASE Spoil
  BY <1>1, <1>2, <1>9 DEF Spoil, SyncFails, Own
<1>10. CASE CloseWriter
  <2>1. wn \in 1..Sessions /\ wn' = wn /\ put' = <<>>
    BY <1>10 DEF CloseWriter, Places
  <2>2. \A s \in 1..Sessions : Of(fifo'[s], s)
    BY <1>4, <1>5, <1>10, <2>1 DEF CloseWriter, Emptied
  <2> QED
    BY <1>3, <2>1, <2>2 DEF Own
<1>11. CASE DieWriting
  BY <1>3, <1>5, <1>11 DEF DieWriting, Emptied, Places, Own
<1>12. CASE OpenReader \/ ReaderOpenFails
  BY <1>1, <1>2, <1>12 DEF OpenReader, ReaderOpenFails, Own, writer
<1>13. CASE Underflow
  <2> DEFINE n == IF Len(fifo[rn]) < BufferSize THEN Len(fifo[rn]) ELSE BufferSize
  <2>1. rn \in 1..Sessions /\ fifo[rn] \in Seq(Bytes) /\ n \in 0..Len(fifo[rn])
    BY <1>13, Sizes DEF Underflow, Reading, Places, Types, TypeOK, BufferSize
  <2>2. fifo' = [fifo EXCEPT ![rn] = SubSeq(@, n + 1, Len(@))]
    BY <1>13 DEF Underflow
  <2>3. Of(SubSeq(fifo[rn], n + 1, Len(fifo[rn])), rn)
    BY <1>2, <2>1, OfParts
  <2>4. \A s \in 1..Sessions : Of(fifo'[s], s)
    BY <1>2, <2>2, <2>3 DEF Types, TypeOK
  <2> QED
    BY <1>1, <1>2, <1>13, <2>4 DEF Underflow, writer, Own
<1>14. CASE Consume \/ EndOfFile \/ ReadInterrupted \/ UNCHANGED vars
  BY <1>1, <1>2, <1>14 DEF Consume, EndOfFile, ReadInterrupted, LoopEnds, vars, writer, Own
<1>15. CASE CloseReader
  <2>1. \A s \in 1..Sessions : Of(fifo'[s], s)
    BY <1>5, <1>15 DEF CloseReader, Emptied, Places
  <2> QED
    BY <1>1, <1>2, <1>15, <2>1 DEF CloseReader, writer, Own
<1> QED
  BY <1>6, <1>7, <1>8, <1>9, <1>10, <1>11, <1>12, <1>13, <1>14, <1>15
     DEF Next, WriterStep, ReaderStep, ReadStep

\* As long as no close was left without its flush, no byte written to one pipe gets
\* into another, although writer and reader keep one stream object over all of them.
THEOREM PipesApart == Spec => []OwnPipe
<1>1. Init => Own
  BY DEF Init, Own, Of
<1>2. Types /\ Own => OwnPipe
  BY DEF Types, TypeOK, Own, OwnPipe, Of, ToSet
<1> QED
  BY <1>1, <1>2, AlwaysTypes, OwnStep, PTL DEF Spec

-----------------------------------------------------------------------------
(* A sequence of sequences as one                                          *)

\* z is x and y.
Joined(x, y, z) == z = x \o y

\* z is x, y and w.
Whole(x, y, w, z) == z = (x \o y) \o w

\* Three parts, joined in two steps.
LEMMA JoinThree ==
    ASSUME NEW x, NEW y, NEW w, NEW a, NEW z, Joined(x, y, a), Joined(a, w, z)
    PROVE  Whole(x, y, w, z)
BY DEF Joined, Whole

\* More is joined to the second part.
LEMMA JoinMore ==
    ASSUME NEW B, NEW a \in Seq(B), NEW q \in Seq(B), NEW e \in Seq(B), NEW x, NEW y,
           Joined(a, q, x), Joined(x, e, y)
    PROVE  Joined(a, q \o e, y)
BY ConcatAssociative DEF Joined

\* Member s of f is a piece between p and q, which are empty when the members before it,
\* or behind it, are.
Pieces(f, g, n, s, p, q) ==
    /\ Whole(p, f[s], q, FlattenSeq(f)) /\ Whole(p, g[s], q, FlattenSeq(g))
    /\ (\A i \in 1..n : i < s => f[i] = <<>>) => p = <<>>
    /\ (\A i \in 1..n : i > s => f[i] = <<>>) => q = <<>>

\* p comes before member s of both, and is empty when the members before it are.
Leading(f, g, n, s, p, x, y) ==
    /\ Joined(p, f[s], x) /\ Joined(p, g[s], y)
    /\ (\A i \in 1..n : i < s => f[i] = <<>>) => p = <<>>

\* Two sequences that differ in one member have the other pieces in common.
LEMMA FlatPieces ==
    ASSUME NEW B, NEW n \in Nat \ {0}, NEW f \in [1..n -> Seq(B)], NEW g \in [1..n -> Seq(B)],
           NEW s \in 1..n, \A i \in 1..n : i # s => g[i] = f[i]
    PROVE  \E p, q \in Seq(B) : Pieces(f, g, n, s, p, q)
<1>1. PICK F : IsFlat(F, f, n, B) /\ FlattenSeq(f) = F[n]
  BY FlatSteps
<1>2. PICK G : IsFlat(G, g, n, B) /\ FlattenSeq(g) = G[n]
  BY FlatSteps
<1>3. /\ F \in [1..n -> Seq(B)] /\ F[1] = f[1]
      /\ \A i \in 2..n : F[i] = F[i - 1] \o f[i]
      /\ G \in [1..n -> Seq(B)] /\ G[1] = g[1]
      /\ \A i \in 2..n : G[i] = G[i - 1] \o g[i]
  BY <1>1, <1>2 DEF IsFlat
<1>4. \A x \in Seq(B) : <<>> \in Seq(B) /\ <<>> \o x = x /\ x \o <<>> = x
  BY ConcatEmptySeq, EmptySeq
<1>5. \A k \in Nat : k + 1 \in 1..n /\ k # 0 =>
        k \in 1..n /\ F[k + 1] = F[k] \o f[k + 1] /\ G[k + 1] = G[k] \o g[k + 1]
  <2> SUFFICES ASSUME NEW k \in Nat, k + 1 \in 1..n, k # 0
               PROVE  k \in 1..n /\ F[k + 1] = F[k] \o f[k + 1] /\ G[k + 1] = G[k] \o g[k + 1]
    OBVIOUS
  <2> PICK j \in 2..n : j = k + 1
    OBVIOUS
  <2>1. j - 1 = k /\ k \in 1..n
    OBVIOUS
  <2>2. F[j] = F[j - 1] \o f[j] /\ G[j] = G[j - 1] \o g[j]
    BY <1>3
  <2> QED BY <2>1, <2>2, Zenon
<1> DEFINE Before(k) == (\A i \in 1..k : f[i] = <<>>) => F[k] = <<>>
           Same == {k \in Nat : k \in 1..n /\ k < s => G[k] = F[k] /\ Before(k)}
<1>6. \A k \in 1..n : k < s => G[k] = F[k] /\ Before(k)
  <2>1. 0 \in Same
    OBVIOUS
  <2>2. ASSUME NEW k \in Nat, k \in Same PROVE k + 1 \in Same
    <3> SUFFICES ASSUME k + 1 \in 1..n, k + 1 < s
                 PROVE  G[k + 1] = F[k + 1] /\ Before(k + 1)
      BY SMTT(30)
    <3>1. g[k + 1] = f[k + 1] /\ f[k + 1] \in Seq(B)
      OBVIOUS
    <3>2. CASE k = 0
      BY <1>3, <3>1, <3>2
    <3>3. CASE k # 0
      <4>1. k \in 1..n /\ F[k + 1] = F[k] \o f[k + 1] /\ G[k + 1] = G[k] \o g[k + 1]
        BY <1>5, <3>3
      <4>2. G[k] = F[k] /\ Before(k)
        BY <2>2, <4>1
      <4>3. ASSUME \A i \in 1..(k + 1) : f[i] = <<>> PROVE F[k + 1] = <<>>
        <5>1. F[k] = <<>> /\ f[k + 1] = <<>>
          <6>1. \A i \in 1..k : i \in 1..(k + 1)
            OBVIOUS
          <6> QED BY <4>2, <4>3, <6>1, SMTT(30)
        <5> QED BY <1>4, <4>1, <5>1
      <4> QED BY <3>1, <4>1, <4>2, <4>3
    <3> QED BY <3>2, <3>3
  <2>3. \A k \in Nat : k \in Same
    <3> HIDE DEF Same
    <3> QED BY <2>1, <2>2, NaturalInduction
  <2> HIDE DEF Before
  <2> QED BY <2>3
<1> DEFINE Behind(k, q) == (\A i \in 1..k : i > s => f[i] = <<>>) => q = <<>>
           Rest(k, q) == /\ Joined(F[s], q, F[k]) /\ Joined(G[s], q, G[k])
                         /\ Behind(k, q)
           Both == {k \in Nat : s + k <= n => \E q \in Seq(B) : Rest(s + k, q)}
<1>7. F[s] \in Seq(B) /\ G[s] \in Seq(B)
  BY <1>3
<1>8. 0 \in Both
  <2>1. Rest(s, <<>>)
    BY <1>4, <1>7 DEF Joined
  <2>2. s + 0 = s /\ <<>> \in Seq(B)
    BY <1>4
  <2> HIDE DEF Rest
  <2> QED BY <2>1, <2>2
<1>9. ASSUME NEW k \in Nat, k \in Both PROVE k + 1 \in Both
  <2> SUFFICES ASSUME s + (k + 1) <= n PROVE \E q \in Seq(B) : Rest(s + (k + 1), q)
    <3> HIDE DEF Rest
    <3> QED OBVIOUS
  <2> PICK m \in Nat : m = s + k /\ m + 1 \in 1..n /\ m # 0 /\ m + 1 > s /\ m + 1 = s + (k + 1)
    OBVIOUS
  <2>1. PICK q \in Seq(B) : Rest(m, q)
    <3> HIDE DEF Rest
    <3> QED BY <1>9
  <2>2. PICK e \in Seq(B) : f[m + 1] = e /\ g[m + 1] = e
    OBVIOUS
  <2>3. F[m + 1] = F[m] \o e /\ G[m + 1] = G[m] \o e
    BY <1>5, <2>2
  <2>4. Joined(F[s], q \o e, F[m + 1]) /\ Joined(G[s], q \o e, G[m + 1])
    <3>1. q \in Seq(B) /\ Joined(F[s], q, F[m]) /\ Joined(G[s], q, G[m])
      BY <2>1
    <3>2. Joined(F[m], e, F[m + 1]) /\ Joined(G[m], e, G[m + 1])
      BY <2>3 DEF Joined
    <3> QED BY <1>7, <2>2, <3>1, <3>2, JoinMore
  <2>5. q \o e \in Seq(B)
    BY <2>1, <2>2, ConcatProperties
  <2>6. Behind(m + 1, q \o e)
    <3> SUFFICES ASSUME \A i \in 1..(m + 1) : i > s => f[i] = <<>> PROVE q \o e = <<>>
      OBVIOUS
    <3>1. q = <<>>
      <4>1. \A i \in 1..m : i \in 1..(m + 1)
        OBVIOUS
      <4>2. Behind(m, q)
        BY <2>1
      <4> QED BY <4>1, <4>2
    <3>2. e = <<>>
      BY <2>2
    <3> QED BY <1>4, <3>1, <3>2
  <2>7. Rest(m + 1, q \o e)
    BY <2>4, <2>6
  <2> HIDE DEF Rest
  <2> QED BY <2>5, <2>7
<1>10. \A k \in Nat : k \in Both
  <2> HIDE DEF Both
  <2> QED BY <1>8, <1>9, NaturalInduction
<1>11. PICK q \in Seq(B) : Rest(n, q)
  <2>1. PICK k \in Nat : s + k = n
    <3>1. n - s \in Nat /\ s + (n - s) = n
      OBVIOUS
    <3> QED BY <3>1
  <2> HIDE DEF Rest
  <2>2. s + k <= n => \E q \in Seq(B) : Rest(s + k, q)
    BY <1>10
  <2>3. \E q \in Seq(B) : Rest(s + k, q)
    BY <2>1, <2>2
  <2> QED BY <2>1, <2>3
<1>12. PICK p \in Seq(B) : Leading(f, g, n, s, p, F[s], G[s])
  <2>1. f[s] \in Seq(B) /\ g[s] \in Seq(B)
    OBVIOUS
  <2>2. CASE s = 1
    <3>1. Leading(f, g, n, s, <<>>, F[s], G[s])
      BY <1>3, <1>4, <2>1, <2>2 DEF Joined, Leading
    <3> QED BY <1>4, <3>1
  <2>3. CASE s # 1
    <3> PICK j \in Nat : j + 1 = s /\ j # 0 /\ j < s /\ j \in 1..n
      <4>1. s - 1 \in Nat /\ s - 1 + 1 = s /\ s - 1 # 0 /\ s - 1 < s /\ s - 1 \in 1..n
        BY <2>3
      <4> QED BY <4>1
    <3>1. F[s] = F[j] \o f[s] /\ G[s] = G[j] \o g[s] /\ G[j] = F[j]
      BY <1>5, <1>6
    <3>2. (\A i \in 1..n : i < s => f[i] = <<>>) => F[j] = <<>>
      <4>1. \A i \in 1..j : i \in 1..n /\ i < s
        OBVIOUS
      <4> QED BY <1>6, <4>1
    <3>3. F[j] \in Seq(B)
      BY <1>3
    <3>4. Leading(f, g, n, s, F[j], F[s], G[s])
      BY <3>1, <3>2 DEF Joined, Leading
    <3> QED BY <3>3, <3>4
  <2> QED BY <2>2, <2>3
<1>13. Joined(F[s], q, F[n]) /\ Joined(G[s], q, G[n]) /\ Behind(n, q)
  BY <1>11
<1>14. Joined(p, f[s], F[s]) /\ Joined(p, g[s], G[s])
  BY <1>12 DEF Leading
<1>15. Whole(p, f[s], q, F[n])
  BY <1>13, <1>14, JoinThree
<1>16. Whole(p, g[s], q, G[n])
  BY <1>13, <1>14, JoinThree
<1>17. Whole(p, f[s], q, FlattenSeq(f)) /\ Whole(p, g[s], q, FlattenSeq(g))
  BY <1>1, <1>2, <1>15, <1>16
<1>18. (\A i \in 1..n : i < s => f[i] = <<>>) => p = <<>>
  BY <1>12 DEF Leading
<1>19. Pieces(f, g, n, s, p, q)
  BY <1>13, <1>17, <1>18 DEF Pieces
<1> QED BY <1>11, <1>12, <1>19
-----------------------------------------------------------------------------
(* The steps of a channel of lines                                         *)

\* x and y.
Cat(x, y) == x \o y

\* Joining sequences, and the empty one.
LEMMA CatLaws ==
    ASSUME NEW B
    PROVE  /\ <<>> \in Seq(B)
           /\ \A x, y \in Seq(B) : Cat(x, y) \in Seq(B)
           /\ \A x \in Seq(B) : Cat(<<>>, x) = x /\ Cat(x, <<>>) = x
           /\ \A x, y, z \in Seq(B) : Cat(Cat(x, y), z) = Cat(x, Cat(y, z))
<1>1. \A x, y \in Seq(B) : Cat(x, y) \in Seq(B)
  BY ConcatProperties DEF Cat
<1>2. \A x \in Seq(B) : Cat(<<>>, x) = x /\ Cat(x, <<>>) = x
  BY ConcatEmptySeq DEF Cat
<1>3. \A x, y, z \in Seq(B) : Cat(Cat(x, y), z) = Cat(x, Cat(y, z))
  BY ConcatAssociative DEF Cat
<1> QED BY <1>1, <1>2, <1>3, EmptySeq

\* The two parts of a sequence that is joined from them.
LEMMA CatParts ==
    ASSUME NEW B, NEW x \in Seq(B), NEW y \in Seq(B)
    PROVE  /\ Len(Cat(x, y)) = Len(x) + Len(y)
           /\ \A i \in 1..Len(x) : Cat(x, y)[i] = x[i]
           /\ SubSeq(Cat(x, y), 1, Len(x)) = x
           /\ SubSeq(Cat(x, y), Len(x) + 1, Len(Cat(x, y))) = y
<1>1. /\ Len(Cat(x, y)) = Len(x) + Len(y)
      /\ \A i \in 1..(Len(x) + Len(y)) :
           Cat(x, y)[i] = IF i <= Len(x) THEN x[i] ELSE y[i - Len(x)]
  BY ConcatProperties DEF Cat
<1>2. Cat(x, y) \in Seq(B)
  BY CatLaws
<1>3. Len(x) \in Nat /\ Len(y) \in Nat
  OBVIOUS
<1> PICK z \in Seq(B) : z = Cat(x, y)
  BY <1>2
<1>4. /\ Len(z) = Len(x) + Len(y)
      /\ \A i \in 1..(Len(x) + Len(y)) : z[i] = IF i <= Len(x) THEN x[i] ELSE y[i - Len(x)]
  BY <1>1
<1>5. SubSeq(z, 1, Len(x)) = x
  BY <1>3, <1>4
<1>6. SubSeq(z, Len(x) + 1, Len(z)) = y
  BY <1>3, <1>4
<1>7. \A i \in 1..Len(x) : z[i] = x[i]
  BY <1>3, <1>4
<1> QED BY <1>4, <1>5, <1>6, <1>7

\* A sequence is its first part and the rest.
LEMMA SplitAt ==
    ASSUME NEW B, NEW f \in Seq(B), NEW n \in 0..Len(f)
    PROVE  /\ f = Cat(SubSeq(f, 1, n), SubSeq(f, n + 1, Len(f)))
           /\ SubSeq(f, 1, n) \in Seq(B) /\ SubSeq(f, n + 1, Len(f)) \in Seq(B)
<1>1. 1 \in 1..(Len(f) + 1) /\ n \in (1 - 1)..Len(f) /\ Len(f) \in n..Len(f)
  OBVIOUS
<1>2. SubSeq(f, 1, n) \o SubSeq(f, n + 1, Len(f)) = SubSeq(f, 1, Len(f))
  BY <1>1, ConcatAdjacentSubSeq
<1>3. SubSeq(f, 1, Len(f)) = f
  BY SubSeqFull
<1>4. SubSeq(f, 1, n) \in Seq(B) /\ SubSeq(f, n + 1, Len(f)) \in Seq(B)
  OBVIOUS
<1> QED BY <1>2, <1>3, <1>4 DEF Cat

\* The bytes from the one place to the other of q are gone from r.
Lost(q, r) == \E i \in 0..Len(q) : \E j \in i..Len(q) :
                 r = SubSeq(q, 1, i) \o SubSeq(q, j + 1, Len(q))

\* Losing a part is losing the bytes from one place to another.
LEMMA LosePart ==
    ASSUME NEW B, NEW a \in Seq(B), NEW m \in Seq(B), NEW b \in Seq(B)
    PROVE  Lost(Cat(a, Cat(m, b)), Cat(a, b))
<1>1. Cat(m, b) \in Seq(B) /\ Cat(a, m) \in Seq(B) /\ Cat(a, Cat(m, b)) \in Seq(B)
      /\ Cat(a, Cat(m, b)) = Cat(Cat(a, m), b)
  BY CatLaws
<1>1a. PICK t \in Seq(B) : t = Cat(m, b)
  BY <1>1
<1>1b. PICK c \in Seq(B) : c = Cat(a, m)
  BY <1>1
<1>1c. PICK q \in Seq(B) : q = Cat(a, Cat(m, b))
  BY <1>1
<1>1d. q = Cat(a, t) /\ q = Cat(c, b)
  BY <1>1, <1>1a, <1>1b, <1>1c
<1>2. SubSeq(q, 1, Len(a)) = a /\ Len(q) = Len(a) + (Len(m) + Len(b))
  <2>1. SubSeq(Cat(a, t), 1, Len(a)) = a /\ Len(Cat(a, t)) = Len(a) + Len(t)
    BY CatParts
  <2>2. Len(t) = Len(m) + Len(b)
    BY <1>1a, CatParts
  <2> QED BY <1>1d, <2>1, <2>2
<1>3. SubSeq(q, Len(c) + 1, Len(q)) = b /\ Len(c) = Len(a) + Len(m)
  <2>1. SubSeq(Cat(c, b), Len(c) + 1, Len(Cat(c, b))) = b
    BY CatParts
  <2>2. Len(c) = Len(a) + Len(m)
    BY <1>1b, CatParts
  <2> QED BY <1>1d, <2>1, <2>2
<1>4. Len(a) \in 0..Len(q) /\ Len(a) + Len(m) \in Len(a)..Len(q)
  <2>1. Len(a) \in Nat /\ Len(m) \in Nat /\ Len(b) \in Nat
    OBVIOUS
  <2> QED BY <1>2, <2>1
<1>5. Cat(a, b) = SubSeq(q, 1, Len(a)) \o SubSeq(q, Len(a) + Len(m) + 1, Len(q))
  BY <1>2, <1>3 DEF Cat
<1> QED BY <1>4, <1>5, <1>1c DEF Lost

\* The first line of q, with or without its newline, is delivered behind ls.
Delivered(q, r, ls, ms, drops, isCut) == \E n \in 1..Len(q) :
    /\ \A i \in 1..(n - 1) : ~IsEnd(q[i])
    /\ IsEnd(q[n]) \/ (~drops /\ (n = Len(q) \/ isCut))
    /\ ms = Append(ls, SubSeq(q, 1, n))
    /\ r = SubSeq(q, n + 1, Len(q))

\* A first line without a newline is gone.
Dropped(q, r) == \E n \in 1..Len(q) :
    /\ \A i \in 1..(n - 1) : ~IsEnd(q[i])
    /\ ~IsEnd(q[n])
    /\ r = SubSeq(q, n + 1, Len(q))

\* One more byte.
Accepted(q, r) == r # <<>> /\ r = Append(q, r[Len(r)])

\* A line at the most: no newline before the last byte.
OneLine(a) == a # <<>> /\ \A i \in 1..(Len(a) - 1) : ~IsEnd(a[i])

\* There is no newline in a.
NoEnds(a) == \A i \in 1..Len(a) : ~IsEnd(a[i])

\* The places of a in a joined sequence.
LEMMA FirstPart ==
    ASSUME NEW B, NEW a \in Seq(B), NEW b \in Seq(B), NEW q, q = Cat(a, b), OneLine(a)
    PROVE  /\ Len(a) \in 1..Len(q)
           /\ \A i \in 1..(Len(a) - 1) : ~IsEnd(q[i])
           /\ q[Len(a)] = a[Len(a)]
           /\ SubSeq(q, 1, Len(a)) = a
           /\ SubSeq(q, Len(a) + 1, Len(q)) = b
           /\ b = <<>> => Len(a) = Len(q)
<1>1. /\ Len(q) = Len(a) + Len(b)
      /\ \A i \in 1..Len(a) : q[i] = a[i]
      /\ SubSeq(q, 1, Len(a)) = a
      /\ SubSeq(q, Len(a) + 1, Len(q)) = b
  BY CatParts, SMTT(30)
<1>2. Len(a) \in Nat \ {0} /\ Len(b) \in Nat
  BY EmptySeq DEF OneLine
<1>3. Len(a) \in 1..Len(q) /\ Len(a) \in 1..Len(a) /\ \A i \in 1..(Len(a) - 1) : i \in 1..Len(a)
  BY <1>1, <1>2
<1>4. \A i \in 1..(Len(a) - 1) : ~IsEnd(a[i])
  BY DEF OneLine
<1>5. \A i \in 1..(Len(a) - 1) : ~IsEnd(q[i])
  BY <1>1, <1>3, <1>4
<1>6. b = <<>> => Len(b) = 0
  OBVIOUS
<1>7. b = <<>> => Len(a) = Len(q)
  <2>1. Len(q) = Len(a) + Len(b)
    BY <1>1
  <2> QED BY <1>2, <1>6, <2>1
<1>8. q[Len(a)] = a[Len(a)]
  BY <1>1, <1>3
<1> HIDE DEF IsEnd
<1> QED BY <1>1, <1>3, <1>5, <1>7, <1>8

\* The first part is delivered.
LEMMA DeliverPart ==
    ASSUME NEW B, NEW a \in Seq(B), NEW b \in Seq(B), NEW ls, NEW drops, NEW isCut, OneLine(a),
           IsEnd(a[Len(a)]) \/ (~drops /\ (b = <<>> \/ isCut))
    PROVE  Delivered(Cat(a, b), b, ls, Append(ls, a), drops, isCut)
<1> PICK q : q = Cat(a, b)
  OBVIOUS
<1>1. /\ Len(a) \in 1..Len(q)
      /\ \A i \in 1..(Len(a) - 1) : ~IsEnd(q[i])
      /\ q[Len(a)] = a[Len(a)]
      /\ SubSeq(q, 1, Len(a)) = a
      /\ SubSeq(q, Len(a) + 1, Len(q)) = b
      /\ b = <<>> => Len(a) = Len(q)
  BY FirstPart
<1>2. IsEnd(q[Len(a)]) \/ (~drops /\ (Len(a) = Len(q) \/ isCut))
  BY <1>1
<1> HIDE DEF IsEnd
<1>3. Delivered(q, b, ls, Append(ls, a), drops, isCut)
  BY <1>1, <1>2 DEF Delivered
<1> QED BY <1>3

\* The first part is dropped.
LEMMA DropPart ==
    ASSUME NEW B, NEW a \in Seq(B), NEW b \in Seq(B), a # <<>>, NoEnds(a)
    PROVE  Dropped(Cat(a, b), b)
<1> PICK q : q = Cat(a, b)
  OBVIOUS
<1>1. Len(a) \in 1..Len(a) /\ \A i \in 1..(Len(a) - 1) : i \in 1..Len(a)
  BY EmptySeq
<1>2. OneLine(a) /\ ~IsEnd(a[Len(a)])
  BY <1>1 DEF OneLine, NoEnds
<1>3. /\ Len(a) \in 1..Len(q)
      /\ \A i \in 1..(Len(a) - 1) : ~IsEnd(q[i])
      /\ q[Len(a)] = a[Len(a)]
      /\ SubSeq(q, Len(a) + 1, Len(q)) = b
  BY <1>2, FirstPart
<1>4. Dropped(q, b)
  BY <1>2, <1>3 DEF Dropped
<1> QED BY <1>4

\* A byte is accepted at the end.
LEMMA AcceptByte ==
    ASSUME NEW B, NEW q \in Seq(B), NEW e \in B
    PROVE  Accepted(q, Cat(q, <<e>>))
<1>1. <<e>> \in Seq(B) /\ Len(<<e>>) = 1
  OBVIOUS
<1>2. Cat(q, <<e>>) = Append(q, e)
  BY <1>1, AppendIsConcat DEF Cat
<1>3. Append(q, e) # <<>> /\ Append(q, e)[Len(Append(q, e))] = e
  BY AppendProperties
<1> QED BY <1>2, <1>3 DEF Accepted

-----------------------------------------------------------------------------
(* What the steps of writer and reader do to the queue                     *)

\* The queue: line, get area, the pipes before, at and behind the one at hand, put area.
Chain(l, g, p, f, q, u) == Cat(l, Cat(g, Cat(p, Cat(f, Cat(q, u)))))

\* A flush moves the put area to the end of the last pipe.
LEMMA ChainFlush ==
    ASSUME NEW B, NEW l \in Seq(B), NEW g \in Seq(B), NEW p \in Seq(B), NEW f \in Seq(B),
           NEW u \in Seq(B)
    PROVE  Chain(l, g, p, Cat(f, u), <<>>, <<>>) = Chain(l, g, p, f, <<>>, u)
<1>1. /\ <<>> \in Seq(B) /\ Cat(f, u) \in Seq(B)
      /\ Cat(<<>>, u) = u /\ Cat(<<>>, <<>>) = <<>> /\ Cat(Cat(f, u), <<>>) = Cat(f, u)
  BY CatLaws, ZenonT(30)
<1>2. Chain(l, g, p, Cat(f, u), <<>>, <<>>) = Cat(l, Cat(g, Cat(p, Cat(Cat(f, u), Cat(<<>>, <<>>)))))
  BY <1>1 DEF Chain
<1>3. Chain(l, g, p, f, <<>>, u) = Cat(l, Cat(g, Cat(p, Cat(f, Cat(<<>>, u)))))
  BY <1>1 DEF Chain
<1> QED BY <1>1, <1>2, <1>3, Zenon

\* What is behind the put area is behind the chain.
AtEnd(l, g, p, f, q, u, e) == Chain(l, g, p, f, q, Cat(u, e)) = Cat(Chain(l, g, p, f, q, u), e)

\* A byte is put at its end.
LEMMA ChainPut ==
    ASSUME NEW B, NEW l \in Seq(B), NEW g \in Seq(B), NEW p \in Seq(B), NEW f \in Seq(B),
           NEW q \in Seq(B), NEW u \in Seq(B), NEW e \in Seq(B)
    PROVE  AtEnd(l, g, p, f, q, u, e)
<1>1. /\ \A x, y \in Seq(B) : Cat(x, y) \in Seq(B)
      /\ \A x, y, z \in Seq(B) : Cat(Cat(x, y), z) = Cat(x, Cat(y, z))
  BY CatLaws
<1>2. PICK a \in Seq(B) : a = Cat(q, u)
  BY <1>1
<1>3. PICK b \in Seq(B) : b = Cat(f, a)
  BY <1>1
<1>4. PICK c \in Seq(B) : c = Cat(p, b)
  BY <1>1
<1>5. PICK d \in Seq(B) : d = Cat(g, c)
  BY <1>1
<1>6. Cat(q, Cat(u, e)) = Cat(a, e)
  BY <1>1, <1>2
<1>7. Cat(f, Cat(a, e)) = Cat(b, e)
  BY <1>1, <1>3
<1>8. Cat(p, Cat(b, e)) = Cat(c, e)
  BY <1>1, <1>4
<1>9. Cat(g, Cat(c, e)) = Cat(d, e)
  BY <1>1, <1>5
<1>10. Cat(l, Cat(d, e)) = Cat(Cat(l, d), e)
  BY <1>1
<1>11. Chain(l, g, p, f, q, Cat(u, e)) = Cat(Cat(l, d), e)
  BY <1>6, <1>7, <1>8, <1>9, <1>10 DEF Chain
<1>12. Chain(l, g, p, f, q, u) = Cat(l, d)
  BY <1>2, <1>3, <1>4, <1>5 DEF Chain
<1> QED BY <1>11, <1>12 DEF AtEnd

\* A read moves the beginning of the first pipe to the empty get area.
LEMMA ChainRead ==
    ASSUME NEW B, NEW l \in Seq(B), NEW a \in Seq(B), NEW b \in Seq(B), NEW q \in Seq(B),
           NEW u \in Seq(B)
    PROVE  Chain(l, a, <<>>, b, q, u) = Chain(l, <<>>, <<>>, Cat(a, b), q, u)
<1>1. /\ <<>> \in Seq(B) /\ \A x, y \in Seq(B) : Cat(x, y) \in Seq(B)
      /\ \A x \in Seq(B) : Cat(<<>>, x) = x
      /\ \A x, y, z \in Seq(B) : Cat(Cat(x, y), z) = Cat(x, Cat(y, z))
  BY CatLaws
<1>2. PICK t \in Seq(B) : t = Cat(q, u)
  BY <1>1
<1>3. Chain(l, a, <<>>, b, q, u) = Cat(l, Cat(a, Cat(<<>>, Cat(b, t))))
  BY <1>1, <1>2 DEF Chain
<1>4. Chain(l, <<>>, <<>>, Cat(a, b), q, u) = Cat(l, Cat(<<>>, Cat(<<>>, Cat(Cat(a, b), t))))
  BY <1>1, <1>2 DEF Chain
<1>5. Cat(<<>>, Cat(b, t)) = Cat(b, t)
  BY <1>1
<1>6. Cat(<<>>, Cat(<<>>, Cat(Cat(a, b), t))) = Cat(Cat(a, b), t)
  BY <1>1
<1>7. Cat(Cat(a, b), t) = Cat(a, Cat(b, t))
  BY <1>1
<1> QED BY <1>3, <1>4, <1>5, <1>6, <1>7, Zenon

\* The line may end later, and is the beginning of the chain.
Grows(l, a, b, p, f, q, u) == Chain(l, Cat(a, b), p, f, q, u) = Chain(Cat(l, a), b, p, f, q, u)
Leads(l, b, p, f, q, u) == Chain(l, b, p, f, q, u) = Cat(l, Chain(<<>>, b, p, f, q, u))

\* The line grows by the beginning of the get area, and what follows stays.
LEMMA ChainGrows ==
    ASSUME NEW B, NEW l \in Seq(B), NEW a \in Seq(B), NEW b \in Seq(B), NEW p \in Seq(B),
           NEW f \in Seq(B), NEW q \in Seq(B), NEW u \in Seq(B)
    PROVE  Grows(l, a, b, p, f, q, u)
<1>1. /\ \A x, y \in Seq(B) : Cat(x, y) \in Seq(B)
      /\ \A x, y, z \in Seq(B) : Cat(Cat(x, y), z) = Cat(x, Cat(y, z))
  BY CatLaws
<1>2. PICK t \in Seq(B) : t = Cat(p, Cat(f, Cat(q, u)))
  BY <1>1
<1>3. Cat(a, b) \in Seq(B) /\ Cat(l, a) \in Seq(B) /\ Cat(b, t) \in Seq(B)
  BY <1>1
<1>4. Chain(l, Cat(a, b), p, f, q, u) = Cat(l, Cat(Cat(a, b), t))
  BY <1>2, <1>3 DEF Chain
<1>5. Chain(Cat(l, a), b, p, f, q, u) = Cat(Cat(l, a), Cat(b, t))
  BY <1>2, <1>3 DEF Chain
<1>6. Cat(Cat(a, b), t) = Cat(a, Cat(b, t)) /\ Cat(Cat(l, a), Cat(b, t)) = Cat(l, Cat(a, Cat(b, t)))
  BY <1>1, <1>3
<1> QED BY <1>4, <1>5, <1>6, Zenon DEF Grows

\* The line is the beginning.
LEMMA ChainLeads ==
    ASSUME NEW B, NEW l \in Seq(B), NEW b \in Seq(B), NEW p \in Seq(B), NEW f \in Seq(B),
           NEW q \in Seq(B), NEW u \in Seq(B)
    PROVE  Leads(l, b, p, f, q, u)
<1>1. /\ \A x, y \in Seq(B) : Cat(x, y) \in Seq(B)
      /\ \A x \in Seq(B) : Cat(<<>>, x) = x
  BY CatLaws
<1>2. PICK t \in Seq(B) : t = Cat(b, Cat(p, Cat(f, Cat(q, u))))
  BY <1>1
<1>3. Chain(l, b, p, f, q, u) = Cat(l, t)
  BY <1>2 DEF Chain
<1>4. Chain(<<>>, b, p, f, q, u) = Cat(<<>>, t)
  BY <1>2 DEF Chain
<1>5. Cat(<<>>, t) = t
  BY <1>1
<1> QED BY <1>3, <1>4, <1>5, Zenon DEF Leads

\* A pipe is lost from the middle.
LEMMA ChainLosePipe ==
    ASSUME NEW B, NEW l \in Seq(B), NEW g \in Seq(B), NEW p \in Seq(B), NEW f \in Seq(B),
           NEW q \in Seq(B), NEW u \in Seq(B)
    PROVE  Lost(Chain(l, g, p, f, q, u), Chain(l, g, p, <<>>, q, u))
<1>1. /\ \A x, y \in Seq(B) : Cat(x, y) \in Seq(B)
      /\ \A x \in Seq(B) : Cat(<<>>, x) = x
      /\ \A x, y, z \in Seq(B) : Cat(Cat(x, y), z) = Cat(x, Cat(y, z))
  BY CatLaws
<1>2. PICK b \in Seq(B) : b = Cat(q, u)
  BY <1>1
<1>3. PICK d \in Seq(B) : d = Cat(g, p)
  BY <1>1
<1>4. PICK a \in Seq(B) : a = Cat(l, d)
  BY <1>1
<1>5. ASSUME NEW t \in Seq(B) PROVE Cat(l, Cat(g, Cat(p, t))) = Cat(a, t)
  <2>1. Cat(g, Cat(p, t)) = Cat(d, t)
    BY <1>1, <1>3
  <2>2. Cat(l, Cat(d, t)) = Cat(a, t)
    BY <1>1, <1>4
  <2> QED BY <2>1, <2>2
<1>6. Chain(l, g, p, f, q, u) = Cat(a, Cat(f, b))
  <2>1. Cat(f, b) \in Seq(B)
    BY <1>1
  <2> QED BY <1>2, <1>5, <2>1 DEF Chain
<1>7. Chain(l, g, p, <<>>, q, u) = Cat(a, b)
  <2>1. Cat(<<>>, b) = b
    BY <1>1
  <2> QED BY <1>2, <1>5, <2>1 DEF Chain
<1>8. Lost(Cat(a, Cat(f, b)), Cat(a, b))
  BY LosePart
<1> QED BY <1>6, <1>7, <1>8

\* The last pipe is lost with the put area.
LEMMA ChainLoseEnd ==
    ASSUME NEW B, NEW l \in Seq(B), NEW g \in Seq(B), NEW p \in Seq(B), NEW f \in Seq(B),
           NEW u \in Seq(B)
    PROVE  Lost(Chain(l, g, p, f, <<>>, u), Chain(l, g, p, <<>>, <<>>, <<>>))
<1>1. <<>> \in Seq(B) /\ Cat(f, u) \in Seq(B)
  BY CatLaws
<1>2. Lost(Chain(l, g, p, Cat(f, u), <<>>, <<>>), Chain(l, g, p, <<>>, <<>>, <<>>))
  BY <1>1, ChainLosePipe
<1>3. Chain(l, g, p, Cat(f, u), <<>>, <<>>) = Chain(l, g, p, f, <<>>, u)
  BY ChainFlush
<1> QED BY <1>2, <1>3

\* Line and get area are lost.
LEMMA ChainLoseFront ==
    ASSUME NEW B, NEW l \in Seq(B), NEW g \in Seq(B), NEW p \in Seq(B), NEW f \in Seq(B),
           NEW q \in Seq(B), NEW u \in Seq(B)
    PROVE  Lost(Chain(l, g, p, f, q, u), Chain(<<>>, <<>>, p, f, q, u))
<1>1. /\ <<>> \in Seq(B) /\ \A x, y \in Seq(B) : Cat(x, y) \in Seq(B)
      /\ \A x \in Seq(B) : Cat(<<>>, x) = x
      /\ \A x, y, z \in Seq(B) : Cat(Cat(x, y), z) = Cat(x, Cat(y, z))
  BY CatLaws
<1>2. PICK b \in Seq(B) : b = Cat(p, Cat(f, Cat(q, u)))
  BY <1>1
<1>3. PICK m \in Seq(B) : m = Cat(l, g)
  BY <1>1
<1>4. Chain(l, g, p, f, q, u) = Cat(<<>>, Cat(m, b))
  <2>1. Cat(l, Cat(g, b)) = Cat(m, b)
    BY <1>1, <1>3
  <2>2. Cat(<<>>, Cat(m, b)) = Cat(m, b)
    BY <1>1
  <2> QED BY <1>2, <2>1, <2>2 DEF Chain
<1>5. Chain(<<>>, <<>>, p, f, q, u) = Cat(<<>>, b)
  <2>1. Cat(<<>>, Cat(<<>>, b)) = Cat(<<>>, b)
    BY <1>1
  <2> QED BY <1>2, <2>1 DEF Chain
<1>6. Lost(Cat(<<>>, Cat(m, b)), Cat(<<>>, b))
  BY <1>1, LosePart
<1> QED BY <1>4, <1>5, <1>6

\* They are lost with the first pipe.
LEMMA ChainLoseFirst ==
    ASSUME NEW B, NEW l \in Seq(B), NEW g \in Seq(B), NEW f \in Seq(B),
           NEW q \in Seq(B), NEW u \in Seq(B)
    PROVE  Lost(Chain(l, g, <<>>, f, q, u), Chain(<<>>, <<>>, <<>>, <<>>, q, u))
<1>1. /\ <<>> \in Seq(B) /\ \A x, y \in Seq(B) : Cat(x, y) \in Seq(B)
      /\ \A x \in Seq(B) : Cat(x, <<>>) = x
  BY CatLaws
<1>2. Cat(g, f) \in Seq(B)
  BY <1>1
<1>3. Chain(l, Cat(g, f), <<>>, <<>>, q, u) = Chain(l, g, <<>>, f, q, u)
  <2>1. \A x, y, z \in Seq(B) : Cat(Cat(x, y), z) = Cat(x, Cat(y, z))
    BY CatLaws
  <2>2. \A x \in Seq(B) : Cat(<<>>, x) = x
    BY CatLaws
  <2>3. PICK t \in Seq(B) : t = Cat(q, u)
    BY <1>1
  <2>4. Cat(Cat(g, f), Cat(<<>>, Cat(<<>>, t))) = Cat(Cat(g, f), t)
    BY <2>2
  <2>5. Cat(Cat(g, f), t) = Cat(g, Cat(f, t))
    BY <2>1
  <2>6. Cat(f, t) = Cat(<<>>, Cat(f, t))
    BY <1>1, <2>2
  <2> QED BY <2>3, <2>4, <2>5, <2>6 DEF Chain
<1>4. Lost(Chain(l, Cat(g, f), <<>>, <<>>, q, u), Chain(<<>>, <<>>, <<>>, <<>>, q, u))
  BY <1>1, <1>2, ChainLoseFront
<1> QED BY <1>3, <1>4

\* The queue.
Queued(l, g, F, u) == Cat(Cat(Cat(l, g), FlattenSeq(F)), u)

\* The pipes before s, or behind it, are empty.
ClearBefore(F, n, s) == \A i \in 1..n : i < s => F[i] = <<>>
ClearBehind(F, n, s) == \A i \in 1..n : i > s => F[i] = <<>>

\* The queue is line, get area, p, pipe s, q and put area.
Sides(F, s, B, p, q) ==
    \A l, g, u \in Seq(B) : /\ Queued(l, g, F, u) = Chain(l, g, p, F[s], q, u)
                            /\ Queued(l, g, F, u) \in Seq(B)

\* It is so when the pipes are p, pipe s and q.
LEMMA SideOf ==
    ASSUME NEW B, NEW p \in Seq(B), NEW f \in Seq(B), NEW q \in Seq(B), NEW F, NEW s,
           F[s] = f, FlattenSeq(F) = Cat(Cat(p, f), q)
    PROVE  Sides(F, s, B, p, q)
<1> SUFFICES ASSUME NEW l \in Seq(B), NEW g \in Seq(B), NEW u \in Seq(B)
             PROVE  /\ Queued(l, g, F, u) = Chain(l, g, p, f, q, u)
                    /\ Queued(l, g, F, u) \in Seq(B)
  BY DEF Sides
<1>1. /\ \A x, y \in Seq(B) : Cat(x, y) \in Seq(B)
      /\ \A x, y, z \in Seq(B) : Cat(Cat(x, y), z) = Cat(x, Cat(y, z))
  BY CatLaws
<1>2. PICK qu \in Seq(B) : qu = Cat(q, u)
  BY <1>1
<1>3. PICK fqu \in Seq(B) : fqu = Cat(f, qu)
  BY <1>1
<1>4. PICK r \in Seq(B) : r = Cat(p, fqu)
  BY <1>1
<1>5. Cat(Cat(Cat(p, f), q), u) = r
  <2>1. Cat(p, f) \in Seq(B)
    BY <1>1
  <2>2. Cat(Cat(Cat(p, f), q), u) = Cat(Cat(p, f), qu)
    BY <1>1, <1>2, <2>1
  <2>3. Cat(Cat(p, f), qu) = Cat(p, fqu)
    BY <1>1, <1>3
  <2> QED BY <1>4, <2>2, <2>3
<1>6. Cat(Cat(p, f), q) \in Seq(B) /\ Cat(l, g) \in Seq(B)
  BY <1>1
<1>7. Cat(Cat(Cat(l, g), Cat(Cat(p, f), q)), u) = Cat(Cat(l, g), r)
  BY <1>1, <1>5, <1>6
<1>8. Cat(Cat(l, g), r) = Cat(l, Cat(g, r)) /\ Cat(l, Cat(g, r)) \in Seq(B)
  BY <1>1
<1>9. Queued(l, g, F, u) = Cat(Cat(l, g), r)
  BY <1>7 DEF Queued
<1>10. Chain(l, g, p, f, q, u) = Cat(l, Cat(g, r))
  BY <1>2, <1>3, <1>4 DEF Chain
<1> QED BY <1>8, <1>9, <1>10

\* At most member s is changed, and the queue only there.
Differ(F, G, n, s) == \A i \in 1..n : i # s => G[i] = F[i]
Apart(F, G, n, s, B) ==
    \E p, q \in Seq(B) : /\ Sides(F, s, B, p, q) /\ Sides(G, s, B, p, q)
                         /\ ClearBefore(F, n, s) => p = <<>>
                         /\ ClearBehind(F, n, s) => q = <<>>

\* What is before and what is behind a pipe stays while the pipe changes.
LEMMA QueueSides ==
    ASSUME NEW B, NEW n \in Nat \ {0}, NEW F \in [1..n -> Seq(B)], NEW G \in [1..n -> Seq(B)],
           NEW s \in 1..n, Differ(F, G, n, s)
    PROVE  Apart(F, G, n, s, B)
<1>1. PICK p, q \in Seq(B) : Pieces(F, G, n, s, p, q)
  BY FlatPieces DEF Differ
<1>2. F[s] \in Seq(B) /\ G[s] \in Seq(B)
  OBVIOUS
<1>3. FlattenSeq(F) = Cat(Cat(p, F[s]), q) /\ FlattenSeq(G) = Cat(Cat(p, G[s]), q)
  BY <1>1 DEF Pieces, Whole, Cat
<1>4. Sides(F, s, B, p, q) /\ Sides(G, s, B, p, q)
  BY <1>2, <1>3, SideOf
<1>5. (ClearBefore(F, n, s) => p = <<>>) /\ (ClearBehind(F, n, s) => q = <<>>)
  BY <1>1 DEF Pieces, ClearBefore, ClearBehind
<1> QED BY <1>4, <1>5 DEF Apart

-----------------------------------------------------------------------------
(* The buffers of a party that is not in a pipe                            *)

\* The line being read has no newline.
Unfinished == line \in Seq(Bytes) /\ NoEnds(line)

\* What is in a pipe is there because a party has it open; the writer is not behind.
Held == \A s \in 1..Sessions : fifo[s] # <<>> => s <= wn /\ (WriterHas(s) \/ ReaderHas(s))

\* Of two parties in a pipe the reader does not leave first, unless it fails.
Together ==
    /\ wpc = "open" => wn <= rn /\ (ReaderHas(wn) \/ failed)
    /\ wpc = "dead" => failed

\* Between two pipes the put area is empty, unless a close could not flush.
Flushed == wpc \in {"closed", "opening"} => put = <<>> \/ stuck

\* A reader that met the end of the file, and did not fail, has read it all.
ReadAll ==
    /\ rpc = "opening" => ~rend
    /\ rpc = "open" /\ rend /\ ~failed => fifo[rn] = <<>> /\ get = <<>> /\ ~WriterHas(rn) /\ rn <= wn

Kept == Unfinished /\ Held /\ Together /\ Flushed /\ ReadAll

\* A step changes no pipe but s.
Only(s) == \A i \in 1..Sessions : i # s => fifo'[i] = fifo[i]

\* A write is to the pipe that is open, and the put area fits into one.
LEMMA SyncedWhole ==
    ASSUME Types, wn \in 1..Sessions, Synced
    PROVE  /\ Only(wn) /\ ReaderHas(wn)
           /\ fifo'[wn] = Cat(fifo[wn], put) /\ put # <<>>
<1> USE Sizes DEF Types, TypeOK
<1>1. PICK n \in Writable : fifo' = [fifo EXCEPT ![wn] = @ \o SubSeq(put, 1, n)]
  BY DEF Synced
<1>2. n \in 1..Len(put) /\ put \in Seq(Bytes)
  BY <1>1 DEF Writable
<1>3. n = Len(put)
  <2>1. Len(put) <= PipeBuf
    BY DEF BufferSize
  <2>2. n = Len(put) \/ Len(put) > PipeBuf
    BY <1>1 DEF Writable
  <2> QED BY <1>2, <2>1, <2>2
<1>4. SubSeq(put, 1, Len(put)) = put
  BY <1>2
<1>5. fifo'[wn] = fifo[wn] \o put
  BY <1>1, <1>3, <1>4
<1>6. Only(wn)
  BY <1>1 DEF Only
<1>7. put # <<>>
  BY <1>2
<1> QED BY <1>5, <1>6, <1>7 DEF Synced, Cat

\* A pipe is emptied, or nothing happens.
LEMMA EmptiedOnly ==
    ASSUME Types, NEW s \in 1..Sessions, NEW kept \in BOOLEAN, fifo' = Emptied(s, kept)
    PROVE  /\ Only(s) /\ (kept => fifo' = fifo) /\ (~kept => fifo'[s] = <<>>)
BY DEF Emptied, Only, Types, TypeOK

\* A read takes a part of the pipe, and leaves the rest.
LEMMA ReadPart ==
    ASSUME Types, Places, Underflow
    PROVE  /\ Only(rn) /\ rn \in 1..Sessions
           /\ get' \in Seq(Bytes) /\ fifo'[rn] \in Seq(Bytes)
           /\ fifo[rn] = Cat(get', fifo'[rn])
<1> DEFINE n == IF Len(fifo[rn]) < BufferSize THEN Len(fifo[rn]) ELSE BufferSize
<1>1. rn \in 1..Sessions /\ fifo[rn] \in Seq(Bytes) /\ n \in 0..Len(fifo[rn])
  BY Sizes DEF Underflow, Reading, Places, Types, TypeOK, BufferSize
<1>2. get' = SubSeq(fifo[rn], 1, n) /\ fifo' = [fifo EXCEPT ![rn] = SubSeq(@, n + 1, Len(@))]
  BY DEF Underflow
<1>3. Only(rn) /\ fifo'[rn] = SubSeq(fifo[rn], n + 1, Len(fifo[rn]))
  BY <1>1, <1>2 DEF Only, Types, TypeOK
<1> HIDE DEF n
<1>4. PICK f \in Seq(Bytes) : f = fifo[rn]
  BY <1>1
<1>5. n \in 0..Len(f)
  BY <1>1, <1>4
<1>6. /\ f = Cat(SubSeq(f, 1, n), SubSeq(f, n + 1, Len(f)))
      /\ SubSeq(f, 1, n) \in Seq(Bytes) /\ SubSeq(f, n + 1, Len(f)) \in Seq(Bytes)
  BY <1>5, SplitAt
<1> QED BY <1>1, <1>2, <1>3, <1>4, <1>6

\* Two parts of a line that have no newline have none together.
LEMMA NoEndsCat ==
    ASSUME NEW B, NEW a \in Seq(B), NEW b \in Seq(B), NoEnds(a), NoEnds(b)
    PROVE  NoEnds(Cat(a, b))
<1>1. /\ Len(Cat(a, b)) = Len(a) + Len(b)
      /\ \A i \in 1..(Len(a) + Len(b)) :
           Cat(a, b)[i] = IF i <= Len(a) THEN a[i] ELSE b[i - Len(a)]
  BY ConcatProperties DEF Cat
<1>2. Len(a) \in Nat /\ Len(b) \in Nat
  OBVIOUS
<1>3. \A i \in 1..(Len(a) + Len(b)) : /\ i <= Len(a) => i \in 1..Len(a)
                                      /\ ~(i <= Len(a)) => i - Len(a) \in 1..Len(b)
  BY <1>2
<1> QED BY <1>1, <1>3 DEF NoEnds

\* A part without a newline, and one with a newline at its end, are a line.
LEMMA LineCat ==
    ASSUME NEW B, NEW a \in Seq(B), NEW b \in Seq(B), NoEnds(a), OneLine(b), IsEnd(b[Len(b)])
    PROVE  OneLine(Cat(a, b)) /\ IsEnd(Cat(a, b)[Len(Cat(a, b))])
<1>1. /\ Len(Cat(a, b)) = Len(a) + Len(b)
      /\ \A i \in 1..(Len(a) + Len(b)) :
           Cat(a, b)[i] = IF i <= Len(a) THEN a[i] ELSE b[i - Len(a)]
  BY ConcatProperties DEF Cat
<1>2. Len(a) \in Nat /\ Len(b) \in Nat \ {0}
  BY EmptySeq DEF OneLine
<1>3. \A i \in 1..(Len(a) + Len(b) - 1) :
        /\ i \in 1..(Len(a) + Len(b))
        /\ i <= Len(a) => i \in 1..Len(a)
        /\ ~(i <= Len(a)) => i - Len(a) \in 1..(Len(b) - 1)
  BY <1>2
<1>4. /\ Len(a) + Len(b) \in 1..(Len(a) + Len(b)) /\ ~(Len(a) + Len(b) <= Len(a))
      /\ Len(a) + Len(b) - Len(a) = Len(b)
  BY <1>2
<1> HIDE DEF IsEnd
<1>5. \A i \in 1..(Len(a) + Len(b) - 1) : ~IsEnd(Cat(a, b)[i])
  BY <1>1, <1>3 DEF NoEnds, OneLine
<1>6. IsEnd(Cat(a, b)[Len(a) + Len(b)])
  BY <1>1, <1>4
<1>7. Cat(a, b) # <<>>
  <2>1. Len(Cat(a, b)) # 0
    BY <1>1, <1>2
  <2> QED BY <2>1, EmptySeq
<1> QED BY <1>1, <1>5, <1>6, <1>7 DEF OneLine

\* The line grows by all there is in the get area.
Continues ==
    /\ line' = Cat(line, get) /\ get' = <<>> /\ lines' = lines
    /\ line' \in Seq(Bytes) /\ NoEnds(line')

\* The line ends with a, the beginning of the get area.
Completes(a) ==
    /\ get = Cat(a, get') /\ line' = <<>> /\ lines' = Append(lines, Cat(line, a))
    /\ OneLine(Cat(line, a)) /\ IsEnd(Cat(line, a)[Len(Cat(line, a))])

\* getline() does the one or the other.
LEMMA ConsumeParts ==
    ASSUME Types, Unfinished, Consume
    PROVE  Continues \/ \E a \in Seq(Bytes) : Completes(a)
<1> DEFINE ends == {i \in DOMAIN get : IsEnd(get[i])}
<1>1. get \in Seq(Bytes) /\ line \in Seq(Bytes) /\ NoEnds(line) /\ DOMAIN get = 1..Len(get)
  BY DEF Types, TypeOK, Unfinished
<1>2. CASE ends = {}
  <2>1. line' = line \o get /\ get' = <<>> /\ lines' = lines
    BY <1>2 DEF Consume
  <2>2. NoEnds(get)
    BY <1>1, <1>2 DEF NoEnds
  <2>3. NoEnds(Cat(line, get))
    BY <1>1, <2>2, NoEndsCat
  <2>4. Cat(line, get) \in Seq(Bytes)
    BY <1>1, CatLaws
  <2>5. line' = Cat(line, get)
    BY <2>1 DEF Cat
  <2> QED BY <2>1, <2>3, <2>4, <2>5 DEF Continues
<1>3. ASSUME NEW i \in ends, \A m \in ends : i <= m,
             lines' = Append(lines, line \o SubSeq(get, 1, i)), line' = <<>>,
             get' = SubSeq(get, i + 1, Len(get))
      PROVE  \E a \in Seq(Bytes) : Completes(a)
  <2>1. i \in 0..Len(get) /\ i \in 1..Len(get) /\ IsEnd(get[i])
    BY <1>1
  <2>2. \A m \in 1..(i - 1) : m \in 1..Len(get) /\ ~(i <= m)
    BY <2>1
  <2>3. \A m \in 1..(i - 1) : ~IsEnd(get[m])
    BY <1>1, <1>3, <2>2
  <2>4. /\ get = Cat(SubSeq(get, 1, i), SubSeq(get, i + 1, Len(get)))
        /\ SubSeq(get, 1, i) \in Seq(Bytes)
    BY <1>1, <2>1, SplitAt
  <2>5. PICK a \in Seq(Bytes) : a = SubSeq(get, 1, i)
    BY <2>4
  <2>6. Len(a) = i /\ a # <<>> /\ \A m \in 1..i : a[m] = get[m]
    BY <1>1, <2>1, <2>5
  <2>7. OneLine(a) /\ IsEnd(a[Len(a)])
    <3>1. i \in 1..i /\ \A m \in 1..(i - 1) : m \in 1..i
      BY <2>1
    <3> HIDE DEF IsEnd
    <3> QED BY <2>1, <2>3, <2>6, <3>1 DEF OneLine
  <2>8. OneLine(Cat(line, a)) /\ IsEnd(Cat(line, a)[Len(Cat(line, a))])
    BY <1>1, <2>7, LineCat
  <2>9. get = Cat(a, get') /\ lines' = Append(lines, Cat(line, a))
    BY <1>3, <2>4, <2>5 DEF Cat
  <2> QED BY <1>3, <2>8, <2>9 DEF Completes
<1> QED BY <1>2, <1>3 DEF Consume

\* All is empty at the start.
LEMMA InitKept == Init => Kept
<1> SUFFICES ASSUME Init PROVE Kept
  OBVIOUS
<1>1. Unfinished
  BY EmptySeq DEF Init, Unfinished, NoEnds
<1>2. Held /\ Together /\ Flushed /\ ReadAll
  BY DEF Init, Held, Together, Flushed, ReadAll
<1> QED BY <1>1, <1>2 DEF Kept

\* The writer's steps keep the buffers.
LEMMA KeptWriter == ASSUME Types, Places, Kept, WriterStep PROVE Kept'
<1> USE DEF Kept
<1>0. wn \in 0..Sessions /\ rn \in 0..Sessions /\ Sessions \in Nat
  BY Sizes DEF Types, TypeOK
<1>1. Unfinished'
  BY DEF Unfinished, NoEnds, WriterStep, OpenWriter, WriterOpenFails, PutByte, Flush, Spoil,
         CloseWriter, DieWriting, reader
<1>2. CASE OpenWriter \/ WriterOpenFails
  <2>1. Held'
    BY <1>0, <1>2 DEF OpenWriter, WriterOpenFails, Held, WriterHas, ReaderHas, reader
  <2>2. Together' /\ Flushed'
    BY <1>0, <1>2 DEF OpenWriter, WriterOpenFails, Together, Flushed, ReaderHas
  <2>3. ReadAll'
    BY <1>0, <1>2 DEF OpenWriter, WriterOpenFails, ReadAll, WriterHas, reader
  <2> QED BY <1>1, <2>1, <2>2, <2>3
<1>3. ASSUME UNCHANGED <<wpc, wn, reader, failed>>, wpc = "open", Only(wn) PROVE Kept'
  <2>1. wn \in 1..Sessions
    BY <1>3 DEF Places
  <2>2. Held'
    BY <1>0, <1>3, <2>1 DEF Held, WriterHas, ReaderHas, Only, reader
  <2>3. Together' /\ Flushed'
    BY <1>3 DEF Together, Flushed, ReaderHas, reader
  <2>4. ReadAll'
    BY <1>3, <2>1 DEF ReadAll, WriterHas, Only, Places, reader
  <2> QED BY <1>1, <2>2, <2>3, <2>4
<1>4. wpc = "open" => wn \in 1..Sessions
  BY DEF Places
<1>5. UNCHANGED fifo => Only(wn)
  BY DEF Only
<1>6. CASE PutByte \/ Flush \/ Spoil
  <2>1. Only(wn)
    BY <1>4, <1>5, <1>6, SyncedWhole DEF PutByte, Flush, Spoil, SyncFails
  <2> QED BY <1>3, <1>6, <2>1 DEF PutByte, Flush, Spoil
<1>7. CASE CloseWriter \/ DieWriting
  <2>1. wn \in 1..Sessions /\ wpc = "open" /\ UNCHANGED <<wn, reader>> /\ wpc' \in {"closed", "dead"}
    BY <1>4, <1>7 DEF CloseWriter, DieWriting
  <2>2. ReaderHas(wn) \in BOOLEAN
    BY DEF ReaderHas
  <2>3. Only(wn) /\ (fifo'[wn] # <<>> => ReaderHas(wn))
    <3>1. CASE CloseWriter
      BY <1>5, <2>1, <2>2, <3>1, SyncedWhole, EmptiedOnly DEF CloseWriter, SyncFails
    <3>2. CASE DieWriting
      BY <2>1, <3>2, EmptiedOnly DEF DieWriting
    <3> QED BY <1>7, <3>1, <3>2
  <2>4. Held'
    BY <2>1, <2>3 DEF Held, WriterHas, ReaderHas, Only, reader, Kept
  <2>5. Together' /\ Flushed'
    BY <1>7, <2>1 DEF CloseWriter, DieWriting, Together, Flushed
  <2>6. ReadAll'
    BY <1>7, <2>1, <2>3 DEF CloseWriter, DieWriting, ReadAll, WriterHas, Only, Places, reader
  <2> QED BY <1>1, <2>4, <2>5, <2>6
<1> QED BY <1>2, <1>6, <1>7 DEF WriterStep

\* So do the reader's.
LEMMA KeptReader == ASSUME Types, Places, Kept, ReaderStep PROVE Kept'
<1> USE DEF Kept
<1>0. wn \in 0..Sessions /\ rn \in 0..Sessions /\ Sessions \in Nat
  BY Sizes DEF Types, TypeOK
<1>1. <<>> \in Seq(Bytes) /\ NoEnds(<<>>)
  BY EmptySeq DEF NoEnds
<1>2. CASE OpenReader \/ ReaderOpenFails
  <2>1. Unfinished'
    BY <1>2 DEF OpenReader, ReaderOpenFails, Unfinished, NoEnds
  <2>2. Held'
    BY <1>2 DEF OpenReader, ReaderOpenFails, Held, WriterHas, ReaderHas, writer
  <2>3. Together' /\ Flushed'
    BY <1>0, <1>2 DEF OpenReader, ReaderOpenFails, Together, Flushed, ReaderHas, writer
  <2>4. ReadAll'
    BY <1>2 DEF OpenReader, ReaderOpenFails, ReadAll
  <2> QED BY <2>1, <2>2, <2>3, <2>4
<1>3. CASE Underflow
  <2>1. Only(rn) /\ fifo[rn] # <<>>
    BY <1>3, ReadPart DEF Underflow
  <2>2. Unfinished'
    BY <1>3 DEF Underflow, Unfinished, NoEnds
  <2>3. Held'
    BY <1>3, <2>1 DEF Underflow, Held, WriterHas, ReaderHas, Only, writer
  <2>4. Together' /\ Flushed' /\ ReadAll'
    BY <1>3 DEF Underflow, Reading, Together, Flushed, ReadAll, ReaderHas, writer
  <2> QED BY <2>2, <2>3, <2>4
<1>4. CASE Consume
  <2>1. Unfinished'
    BY <1>1, <1>4, ConsumeParts DEF Unfinished, Continues, Completes
  <2>2. Held' /\ Together' /\ Flushed' /\ ReadAll'
    BY <1>4 DEF Consume, Held, WriterHas, ReaderHas, Together, Flushed, ReadAll, writer
  <2> QED BY <2>1, <2>2
<1>5. CASE EndOfFile \/ ReadInterrupted
  <2>1. Unfinished'
    BY <1>1, <1>5 DEF EndOfFile, ReadInterrupted, LoopEnds, Unfinished, NoEnds
  <2>2. Held' /\ Flushed'
    BY <1>5 DEF EndOfFile, ReadInterrupted, LoopEnds, Held, WriterHas, ReaderHas, Flushed, writer
  <2>3. Together'
    BY <1>5 DEF EndOfFile, ReadInterrupted, LoopEnds, Together, ReaderHas, writer
  <2>4. ReadAll'
    <3>1. /\ rpc' = "open" /\ rn' = rn /\ wn' = wn /\ wpc' = wpc /\ fifo' = fifo /\ get' = get
          /\ fifo[rn] = <<>> /\ get = <<>>
      BY <1>5 DEF EndOfFile, ReadInterrupted, LoopEnds, Reading, writer
    <3>2. ~failed' => ~WriterHas(rn)
      BY <1>5 DEF EndOfFile, ReadInterrupted
    <3>3. ~failed' => ~(wn < rn)
      BY <1>5 DEF EndOfFile, ReadInterrupted
    <3>4. ~(wn < rn) => rn <= wn
      BY <1>0
    <3> QED BY <3>1, <3>2, <3>3, <3>4 DEF ReadAll, WriterHas
  <2> QED BY <2>1, <2>2, <2>3, <2>4
<1>6. CASE CloseReader
  <2>1. rn \in 1..Sessions /\ WriterHas(rn) \in BOOLEAN
    BY <1>6 DEF CloseReader, Places, WriterHas
  <2>2. Only(rn) /\ (fifo'[rn] # <<>> => WriterHas(rn) /\ fifo' = fifo)
    BY <1>6, <2>1, EmptiedOnly DEF CloseReader
  <2>3. Unfinished'
    BY <1>1, <1>6 DEF CloseReader, Unfinished
  <2>4. Held'
    BY <1>6, <2>1, <2>2 DEF CloseReader, Held, WriterHas, ReaderHas, Only, writer
  <2>5. Together' /\ Flushed' /\ ReadAll'
    BY <1>6 DEF CloseReader, Together, Flushed, ReadAll, ReaderHas, WriterHas, writer
  <2> QED BY <2>3, <2>4, <2>5
<1> QED BY <1>2, <1>3, <1>4, <1>5, <1>6 DEF ReaderStep, ReadStep

\* Every step keeps them.
LEMMA KeptStep == Types /\ Places /\ Kept /\ [Next]_vars => Kept'
<1>1. Kept /\ UNCHANGED vars => Kept'
  BY DEF Kept, Unfinished, NoEnds, Held, WriterHas, ReaderHas, Together, Flushed, ReadAll, vars, writer, reader
<1> QED BY <1>1, KeptWriter, KeptReader DEF Next

-----------------------------------------------------------------------------
(* Every step is one of the channel of lines                               *)

\* What is accepted and not yet delivered.
Queue == Queued(line, get, fifo, put)

\* A step of the channel from the one queue to the other.
ChannelStep(q, r) ==
    \/ Accepted(q, r) /\ lines' = lines
    \/ Delivered(q, r, lines, lines', async, failed' \/ stuck')
    \/ async /\ Dropped(q, r) /\ lines' = lines
    \/ failed' /\ Lost(q, r) /\ lines' = lines
    \/ r = q /\ lines' = lines

\* What no step takes back.
Lasting == (failed => failed') /\ (stuck => stuck') /\ async' = async

\* Such a step is the abstract specification's.
LEMMA ChannelNext ==
    ASSUME ChannelStep(Queue, Queue'), Lasting
    PROVE  Channel!Next
<1>1. (failed => failed') /\ (failed \/ stuck => (failed \/ stuck)') /\ async' = async
  BY DEF Lasting
<1>2. /\ Queue = line \o get \o FlattenSeq(fifo) \o put
      /\ Queue' = (line \o get \o FlattenSeq(fifo) \o put)'
  BY DEF Queue, Queued, Cat
<1>3. CASE Accepted(Queue, Queue') /\ lines' = lines
  <2>1. Channel!Accept
    BY <1>2, <1>3 DEF Channel!Accept, Accepted
  <2> QED BY <1>1, <2>1 DEF Channel!Next
<1>4. CASE Delivered(Queue, Queue', lines, lines', async, failed' \/ stuck')
  <2>1. Channel!Deliver
    BY <1>2, <1>4 DEF Channel!Deliver, Channel!Unbroken, Delivered
  <2> QED BY <1>1, <2>1 DEF Channel!Next
<1>5. CASE async /\ Dropped(Queue, Queue') /\ lines' = lines
  <2>1. Channel!DropUnfinished
    BY <1>2, <1>5 DEF Channel!DropUnfinished, Channel!Unbroken, Dropped
  <2> QED BY <1>1, <2>1 DEF Channel!Next
<1>6. CASE failed' /\ Lost(Queue, Queue') /\ lines' = lines
  <2>1. Channel!Lose
    BY <1>2, <1>6 DEF Channel!Lose, Lost
  <2> QED BY <1>1, <2>1 DEF Channel!Next
<1>7. CASE Queue' = Queue /\ lines' = lines
  <2>1. Channel!Cut
    BY <1>2, <1>7 DEF Channel!Cut
  <2> QED BY <1>1, <2>1 DEF Channel!Next
<1> QED BY <1>3, <1>4, <1>5, <1>6, <1>7 DEF ChannelStep

\* A step that changes one pipe changes the queue at one place.
LEMMA StepSides ==
    ASSUME Types, Types', NEW s \in 1..Sessions, Only(s)
    PROVE  Apart(fifo, fifo', Sessions, s, Bytes)
<1>1. fifo \in [1..Sessions -> Seq(Bytes)] /\ fifo' \in [1..Sessions -> Seq(Bytes)]
  BY DEF Types, TypeOK
<1>2. \A i \in 1..Sessions : i # s => fifo'[i] = fifo[i]
  BY DEF Only
<1>3. PICK n \in Nat \ {0} : n = Sessions
  BY Sizes
<1> DEFINE F == fifo
           G == fifo'
<1>4. F \in [1..n -> Seq(Bytes)] /\ G \in [1..n -> Seq(Bytes)] /\ s \in 1..n
  BY <1>1, <1>3
<1>5. Differ(F, G, n, s)
  BY <1>2, <1>3 DEF Differ
<1> HIDE DEF F, G
<1>6. Apart(F, G, n, s, Bytes)
  BY <1>4, <1>5, QueueSides
<1> QED BY <1>3, <1>6 DEF F, G

\* The writer's pipe is the last with something in it, the reader's the first.
LEMMA Clear ==
    ASSUME Types, Held
    PROVE  /\ ClearBehind(fifo, Sessions, wn)
           /\ \A s \in 1..Sessions : ReaderHas(s) /\ fifo[s] # <<>> => ClearBefore(fifo, Sessions, s)
<1>1. wn \in 0..Sessions /\ rn \in 0..Sessions /\ Sessions \in Nat
  BY Sizes DEF Types, TypeOK
<1> QED BY <1>1 DEF Held, ClearBehind, ClearBefore, WriterHas, ReaderHas

\* The queue before and after a step that changes pipe s, between p and q.
At(s, p, q) ==
    /\ Queue = Chain(line, get, p, fifo[s], q, put)
    /\ Queue' = Chain(line', get', p, fifo'[s], q, put')
    /\ ClearBefore(fifo, Sessions, s) => p = <<>>
    /\ ClearBehind(fifo, Sessions, s) => q = <<>>

\* The parts of the queue are sequences.
LEMMA Parts ==
    ASSUME Types, Unfinished
    PROVE  /\ line \in Seq(Bytes) /\ get \in Seq(Bytes) /\ put \in Seq(Bytes)
           /\ \A s \in 1..Sessions : fifo[s] \in Seq(Bytes)
BY DEF Types, TypeOK, Unfinished

\* There is such a p and q.
LEMMA Place ==
    ASSUME Types, Types', Unfinished, Unfinished', NEW s \in 1..Sessions, Only(s)
    PROVE  \E p, q \in Seq(Bytes) : At(s, p, q)
<1>1. PICK p, q \in Seq(Bytes) :
            /\ Sides(fifo, s, Bytes, p, q) /\ Sides(fifo', s, Bytes, p, q)
            /\ ClearBefore(fifo, Sessions, s) => p = <<>>
            /\ ClearBehind(fifo, Sessions, s) => q = <<>>
  <2>1. Apart(fifo, fifo', Sessions, s, Bytes)
    BY StepSides
  <2> QED BY <2>1 DEF Apart
<1>2. line \in Seq(Bytes) /\ get \in Seq(Bytes) /\ put \in Seq(Bytes)
  BY Parts
<1>3. line' \in Seq(Bytes) /\ get' \in Seq(Bytes) /\ put' \in Seq(Bytes)
  BY DEF Types, TypeOK, Unfinished
<1>4. Queue = Chain(line, get, p, fifo[s], q, put)
  BY <1>1, <1>2 DEF Sides, Queue
<1>5. Queue' = Chain(line', get', p, fifo'[s], q, put')
  BY <1>1, <1>3 DEF Sides, Queue
<1> QED BY <1>1, <1>4, <1>5 DEF At

\* The queue is a sequence.
LEMMA QueueType ==
    ASSUME Types, Unfinished
    PROVE  Queue \in Seq(Bytes)
<1>1. PICK s \in 1..Sessions : s = 1
  BY Sizes
<1>2. fifo \in [1..Sessions -> Seq(Bytes)] /\ Differ(fifo, fifo, Sessions, s)
  BY DEF Types, TypeOK, Differ
<1>3. Apart(fifo, fifo, Sessions, s, Bytes)
  BY <1>2, Sizes, QueueSides
<1>4. PICK p, q \in Seq(Bytes) : Sides(fifo, s, Bytes, p, q)
  BY <1>3 DEF Apart
<1> QED BY <1>4, Parts DEF Sides, Queue

\* It stays one.
LEMMA QueueTypeNext ==
    ASSUME Types', Unfinished'
    PROVE  Queue' \in Seq(Bytes)
<1>1. PICK s \in 1..Sessions : s = 1
  BY Sizes
<1>2. fifo' \in [1..Sessions -> Seq(Bytes)] /\ Differ(fifo', fifo', Sessions, s)
  BY DEF Types, TypeOK, Differ
<1>3. Apart(fifo', fifo', Sessions, s, Bytes)
  BY <1>2, Sizes, QueueSides
<1>4. PICK p, q \in Seq(Bytes) : Sides(fifo', s, Bytes, p, q)
  BY <1>3 DEF Apart
<1>5. line' \in Seq(Bytes) /\ get' \in Seq(Bytes) /\ put' \in Seq(Bytes)
  BY DEF Types, TypeOK, Unfinished
<1> QED BY <1>4, <1>5 DEF Sides, Queue

\* A flush does nothing to the queue.
LEMMA FlushSame ==
    ASSUME Types, Types', Kept, Unfinished', wn \in 1..Sessions, Synced, put' = <<>>,
           UNCHANGED <<line, get>>
    PROVE  Queue' = Queue
<1>1. Only(wn) /\ fifo'[wn] = Cat(fifo[wn], put)
  BY SyncedWhole
<1>2. PICK p, q \in Seq(Bytes) : At(wn, p, q)
  BY <1>1, Place DEF Kept
<1>3. q = <<>>
  BY <1>2, Clear DEF At, Kept
<1>4. Queue = Chain(line, get, p, fifo[wn], <<>>, put)
  BY <1>2, <1>3 DEF At
<1>5. Queue' = Chain(line, get, p, Cat(fifo[wn], put), <<>>, <<>>)
  BY <1>1, <1>2, <1>3 DEF At
<1>6. line \in Seq(Bytes) /\ get \in Seq(Bytes) /\ put \in Seq(Bytes) /\ fifo[wn] \in Seq(Bytes)
  BY Parts DEF Kept
<1>7. Chain(line, get, p, Cat(fifo[wn], put), <<>>, <<>>) = Chain(line, get, p, fifo[wn], <<>>, put)
  BY <1>6, ChainFlush
<1> QED BY <1>4, <1>5, <1>7

\* The stream takes a byte.
LEMMA PutMaps ==
    ASSUME Types, Types', Places, Kept, Unfinished', PutByte
    PROVE  Accepted(Queue, Queue')
<1>1. wn \in 1..Sessions /\ line' = line /\ get' = get
  BY DEF PutByte, Places, reader
<1>2. PICK e \in Bytes : e = Byte(wn, next)
  BY <1>1, PutTypes DEF PutByte
<1>3. <<e>> \in Seq(Bytes)
  OBVIOUS
<1>4. line \in Seq(Bytes) /\ get \in Seq(Bytes) /\ put \in Seq(Bytes) /\ fifo[wn] \in Seq(Bytes)
  BY <1>1, Parts DEF Kept
<1>5. Accepted(Queue, Cat(Queue, <<e>>))
  BY AcceptByte, QueueType DEF Kept
<1>6. CASE put' = Append(put, Byte(wn, next)) /\ UNCHANGED fifo
  <2>1. Only(wn)
    BY <1>6 DEF Only
  <2>2. PICK p, q \in Seq(Bytes) : At(wn, p, q)
    BY <1>1, <2>1, Place DEF Kept
  <2>3. put' = Cat(put, <<e>>)
    BY <1>2, <1>4, <1>6, AppendIsConcat DEF Cat
  <2>4. Queue' = Chain(line, get, p, fifo[wn], q, Cat(put, <<e>>))
    BY <1>1, <1>6, <2>2, <2>3 DEF At
  <2>5. AtEnd(line, get, p, fifo[wn], q, put, <<e>>)
    BY <1>3, <1>4, ChainPut
  <2>6. Queue = Chain(line, get, p, fifo[wn], q, put)
    BY <2>2 DEF At
  <2> QED BY <1>5, <2>4, <2>5, <2>6 DEF AtEnd
<1>7. CASE Synced /\ put' = <<Byte(wn, next)>>
  <2>1. Only(wn) /\ fifo'[wn] = Cat(fifo[wn], put)
    BY <1>1, <1>7, SyncedWhole
  <2>2. PICK p, q \in Seq(Bytes) : At(wn, p, q)
    BY <1>1, <2>1, Place DEF Kept
  <2>3. q = <<>>
    BY <2>2, Clear DEF At, Kept
  <2>4. PICK x \in Seq(Bytes) : x = Cat(fifo[wn], put)
    BY <1>4, CatLaws
  <2>5. <<>> \in Seq(Bytes) /\ put' = Cat(<<>>, <<e>>)
    BY <1>2, <1>3, <1>7, CatLaws
  <2>6. Queue' = Chain(line, get, p, x, <<>>, Cat(<<>>, <<e>>))
    BY <1>1, <2>1, <2>2, <2>3, <2>4, <2>5 DEF At
  <2>7. AtEnd(line, get, p, x, <<>>, <<>>, <<e>>)
    BY <1>3, <1>4, <2>5, ChainPut
  <2>8. Chain(line, get, p, Cat(fifo[wn], put), <<>>, <<>>) = Chain(line, get, p, fifo[wn], <<>>, put)
    BY <1>4, ChainFlush
  <2>9. Queue = Chain(line, get, p, fifo[wn], <<>>, put)
    BY <2>2, <2>3 DEF At
  <2> QED BY <1>5, <2>4, <2>6, <2>7, <2>8, <2>9 DEF AtEnd
<1> QED BY <1>6, <1>7 DEF PutByte

\* A pipe is gone with what was in it.
LEMMA PipeLost ==
    ASSUME Types, Types', Unfinished, Unfinished', NEW s \in 1..Sessions, Only(s),
           fifo'[s] = <<>>, UNCHANGED <<line, get, put>>
    PROVE  Lost(Queue, Queue')
<1>1. PICK p, q \in Seq(Bytes) : At(s, p, q)
  BY Place
<1>2. line \in Seq(Bytes) /\ get \in Seq(Bytes) /\ put \in Seq(Bytes) /\ fifo[s] \in Seq(Bytes)
  BY Parts
<1>3. Lost(Chain(line, get, p, fifo[s], q, put), Chain(line, get, p, <<>>, q, put))
  BY <1>2, ChainLosePipe
<1>4. Queue = Chain(line, get, p, fifo[s], q, put)
  BY <1>1 DEF At
<1>5. Queue' = Chain(line, get, p, <<>>, q, put)
  BY <1>1 DEF At
<1> QED BY <1>3, <1>4, <1>5

\* A writer that dies takes its pipe and its put area with it.
LEMMA DieMaps ==
    ASSUME Types, Types', Places, Kept, Unfinished', DieWriting
    PROVE  Lost(Queue, Queue')
<1>1. wn \in 1..Sessions /\ line' = line /\ get' = get /\ put' = <<>>
  BY DEF DieWriting, Places, reader
<1>2. Only(wn) /\ fifo'[wn] = <<>>
  BY <1>1, EmptiedOnly DEF DieWriting
<1>3. PICK p, q \in Seq(Bytes) : At(wn, p, q)
  BY <1>1, <1>2, Place DEF Kept
<1>4. q = <<>>
  BY <1>3, Clear DEF At, Kept
<1>5. line \in Seq(Bytes) /\ get \in Seq(Bytes) /\ put \in Seq(Bytes) /\ fifo[wn] \in Seq(Bytes)
  BY <1>1, Parts DEF Kept
<1>6. Lost(Chain(line, get, p, fifo[wn], <<>>, put), Chain(line, get, p, <<>>, <<>>, <<>>))
  BY <1>5, ChainLoseEnd
<1>7. Queue = Chain(line, get, p, fifo[wn], <<>>, put)
  BY <1>3, <1>4 DEF At
<1>8. Queue' = Chain(line, get, p, <<>>, <<>>, <<>>)
  BY <1>1, <1>2, <1>3, <1>4 DEF At
<1> QED BY <1>6, <1>7, <1>8

\* A step that leaves the four parts leaves the queue.
LEMMA QueueSame == UNCHANGED <<line, get, fifo, put>> => Queue' = Queue
BY DEF Queue

\* The writer's steps are steps of the channel.
LEMMA WriterMaps ==
    ASSUME Types, Types', Places, Kept, Unfinished', WriterStep
    PROVE  ChannelStep(Queue, Queue') /\ Lasting
<1>1. Lasting
  <2>1. CASE OpenWriter \/ WriterOpenFails \/ PutByte \/ Flush \/ Spoil
    BY <2>1 DEF OpenWriter, WriterOpenFails, PutByte, Flush, Spoil, Lasting
  <2>2. CASE CloseWriter
    BY <2>2 DEF CloseWriter, Lasting
  <2>3. CASE DieWriting
    BY <2>3 DEF DieWriting, Lasting
  <2> QED BY <2>1, <2>2, <2>3 DEF WriterStep
<1>2. lines' = lines /\ line' = line /\ get' = get
  BY DEF WriterStep, OpenWriter, WriterOpenFails, PutByte, Flush, Spoil, CloseWriter, DieWriting, reader
<1>3. wpc = "open" => wn \in 1..Sessions
  BY DEF Places
<1>4. CASE OpenWriter \/ WriterOpenFails \/ Spoil
  BY <1>1, <1>2, <1>4, QueueSame DEF OpenWriter, WriterOpenFails, Spoil, SyncFails, ChannelStep
<1>5. CASE PutByte
  BY <1>1, <1>2, <1>5, PutMaps DEF ChannelStep
<1>6. CASE Flush
  <2>1. Queue' = Queue
    BY <1>2, <1>3, <1>6, FlushSame DEF Flush
  <2> QED BY <1>1, <1>2, <2>1 DEF ChannelStep
<1>7. CASE CloseWriter
  <2>1. CASE Synced /\ put' = <<>>
    <3>1. Queue' = Queue
      BY <1>2, <1>3, <1>7, <2>1, FlushSame DEF CloseWriter
    <3> QED BY <1>1, <1>2, <3>1 DEF ChannelStep
  <2>2. CASE fifo' = Emptied(wn, ReaderHas(wn)) /\ UNCHANGED <<put, stuck>>
    <3>1. ReaderHas(wn) \in BOOLEAN /\ wn \in 1..Sessions
      BY <1>3, <1>7 DEF CloseWriter, ReaderHas
    <3>2. CASE ReaderHas(wn)
      <4>1. Queue' = Queue
        BY <1>2, <2>2, <3>1, <3>2, EmptiedOnly, QueueSame
      <4> QED BY <1>1, <1>2, <4>1 DEF ChannelStep
    <3>3. CASE ~ReaderHas(wn)
      <4>1. Only(wn) /\ fifo'[wn] = <<>>
        BY <2>2, <3>1, <3>3, EmptiedOnly
      <4>2. Lost(Queue, Queue')
        BY <1>2, <2>2, <3>1, <4>1, PipeLost DEF Kept
      <4>3. failed'
        BY <1>7, <3>3 DEF CloseWriter, Kept, Together
      <4> QED BY <1>1, <1>2, <4>2, <4>3 DEF ChannelStep
    <3> QED BY <3>2, <3>3
  <2>3. CASE SyncFails /\ UNCHANGED put
    <3>1. Queue' = Queue
      BY <1>2, <2>3, QueueSame DEF SyncFails
    <3> QED BY <1>1, <1>2, <3>1 DEF ChannelStep
  <2> QED BY <1>7, <2>1, <2>2, <2>3 DEF CloseWriter
<1>8. CASE DieWriting
  <2>1. Lost(Queue, Queue') /\ failed'
    BY <1>8, DieMaps DEF DieWriting
  <2> QED BY <1>1, <1>2, <2>1 DEF ChannelStep
<1> QED BY <1>4, <1>5, <1>6, <1>7, <1>8 DEF WriterStep

\* What the line is, is the beginning of the queue.
LEMMA LineFirst ==
    ASSUME Types, Types', Unfinished, Unfinished', NEW s \in 1..Sessions, UNCHANGED <<get, fifo, put>>,
           line' = <<>>
    PROVE  Queue = Cat(line, Queue')
<1>1. Only(s)
  BY DEF Only
<1>2. PICK p, q \in Seq(Bytes) : At(s, p, q)
  BY <1>1, Place
<1>3. line \in Seq(Bytes) /\ get \in Seq(Bytes) /\ put \in Seq(Bytes) /\ fifo[s] \in Seq(Bytes)
  BY Parts
<1>4. Queue = Chain(line, get, p, fifo[s], q, put)
  BY <1>2 DEF At
<1>5. Queue' = Chain(<<>>, get, p, fifo[s], q, put)
  BY <1>2 DEF At
<1>6. Leads(line, get, p, fifo[s], q, put)
  BY <1>3, ChainLeads
<1> QED BY <1>4, <1>5, <1>6 DEF Leads

\* A read does nothing to the queue.
LEMMA ReadSame ==
    ASSUME Types, Types', Places, Kept, Unfinished', Underflow
    PROVE  Queue' = Queue
<1>1. /\ rn \in 1..Sessions /\ Only(rn) /\ get' \in Seq(Bytes) /\ fifo'[rn] \in Seq(Bytes)
      /\ fifo[rn] = Cat(get', fifo'[rn])
  BY ReadPart
<1>2. ReaderHas(rn) /\ fifo[rn] # <<>> /\ get = <<>> /\ line' = line /\ put' = put
  BY DEF Underflow, Reading, ReaderHas, writer
<1>3. PICK p, q \in Seq(Bytes) : At(rn, p, q)
  BY <1>1, Place DEF Kept
<1>4. p = <<>>
  BY <1>1, <1>2, <1>3, Clear DEF At, Kept
<1>5. Queue = Chain(line, <<>>, <<>>, Cat(get', fifo'[rn]), q, put)
  BY <1>1, <1>2, <1>3, <1>4 DEF At
<1>6. Queue' = Chain(line, get', <<>>, fifo'[rn], q, put)
  BY <1>2, <1>3, <1>4 DEF At
<1>7. line \in Seq(Bytes) /\ put \in Seq(Bytes)
  BY Parts DEF Kept
<1>8. Chain(line, get', <<>>, fifo'[rn], q, put) = Chain(line, <<>>, <<>>, Cat(get', fifo'[rn]), q, put)
  BY <1>1, <1>7, ChainRead
<1> QED BY <1>5, <1>6, <1>8

\* Taking from the get area does nothing to the queue, or delivers its first line.
LEMMA ConsumeMaps ==
    ASSUME Types, Types', Places, Kept, Unfinished', Consume
    PROVE  ChannelStep(Queue, Queue')
<1>1. rn \in 1..Sessions /\ Only(rn) /\ fifo' = fifo /\ put' = put
  BY DEF Consume, Places, Only, writer
<1>2. PICK p, q \in Seq(Bytes) : At(rn, p, q)
  BY <1>1, Place DEF Kept
<1>3. /\ line \in Seq(Bytes) /\ get \in Seq(Bytes) /\ put \in Seq(Bytes) /\ fifo[rn] \in Seq(Bytes)
      /\ get' \in Seq(Bytes)
  BY <1>1, Parts DEF Kept, Types, TypeOK
<1>4. Queue = Chain(line, get, p, fifo[rn], q, put)
  BY <1>2 DEF At
<1>5. Queue' = Chain(line', get', p, fifo[rn], q, put)
  BY <1>1, <1>2 DEF At
<1>6. CASE Continues
  <2>1. line' = Cat(line, get) /\ get' = <<>> /\ lines' = lines
    BY <1>6 DEF Continues
  <2>2. <<>> \in Seq(Bytes) /\ Cat(get, <<>>) = get
    BY <1>3, CatLaws
  <2>3. Grows(line, get, <<>>, p, fifo[rn], q, put)
    BY <1>3, <2>2, ChainGrows
  <2>4. Queue' = Queue
    BY <1>4, <1>5, <2>1, <2>2, <2>3 DEF Grows
  <2> QED BY <2>1, <2>4 DEF ChannelStep
<1>7. ASSUME NEW a \in Seq(Bytes), Completes(a) PROVE ChannelStep(Queue, Queue')
  <2>1. /\ get = Cat(a, get') /\ line' = <<>> /\ lines' = Append(lines, Cat(line, a))
        /\ OneLine(Cat(line, a)) /\ IsEnd(Cat(line, a)[Len(Cat(line, a))])
    BY <1>7 DEF Completes
  <2>2. PICK t \in Seq(Bytes) : t = Cat(line, a)
    BY <1>3, CatLaws
  <2>3. Grows(line, a, get', p, fifo[rn], q, put)
    BY <1>3, ChainGrows
  <2>4. Leads(t, get', p, fifo[rn], q, put)
    BY <1>3, ChainLeads
  <2>5. Queue = Cat(t, Queue')
    BY <1>4, <1>5, <2>1, <2>2, <2>3, <2>4 DEF Grows, Leads
  <2>6. PICK r \in Seq(Bytes) : r = Queue'
    <3>1. Queue' \in Seq(Bytes)
      BY QueueTypeNext
    <3> QED BY <3>1
  <2>7. OneLine(t) /\ IsEnd(t[Len(t)]) /\ lines' = Append(lines, t)
    BY <2>1, <2>2
  <2> HIDE DEF IsEnd
  <2>8. Delivered(Cat(t, r), r, lines, Append(lines, t), async, failed' \/ stuck')
    BY <2>7, DeliverPart
  <2> QED BY <2>5, <2>6, <2>7, <2>8 DEF ChannelStep
<1>8. Continues \/ \E a \in Seq(Bytes) : Completes(a)
  BY ConsumeParts DEF Kept
<1> QED BY <1>6, <1>7, <1>8

\* At the end of a pipe whose parties did not fail, nothing is behind the line.
LEMMA AllRead ==
    ASSUME Types, Types', Places, Kept, Unfinished', EndOfFile, ~failed', ~stuck, line' = <<>>
    PROVE  Queue' = <<>>
<1>1. /\ rn \in 1..Sessions /\ rpc = "open" /\ fifo' = fifo /\ get' = <<>> /\ put' = put
      /\ get = <<>> /\ fifo[rn] = <<>> /\ ~WriterHas(rn) /\ ~failed /\ ~(wn < rn)
  BY DEF EndOfFile, LoopEnds, Reading, Places, writer
<1>2. wn \in 0..Sessions /\ rn \in 0..Sessions /\ rn <= wn
  BY <1>1 DEF Types, TypeOK
<1>3. wpc # "open" /\ wpc # "dead"
  BY <1>1, <1>2 DEF Kept, Together, WriterHas
<1>4. put = <<>>
  BY <1>3 DEF Types, TypeOK, Kept, Flushed
<1>5. \A s \in 1..Sessions : fifo[s] = <<>>
  BY <1>1, <1>3 DEF Kept, Held, WriterHas, ReaderHas
<1>6. Only(rn)
  BY <1>1 DEF Only
<1>7. PICK p, q \in Seq(Bytes) : At(rn, p, q)
  BY <1>1, <1>6, Place DEF Kept
<1>8. p = <<>> /\ q = <<>>
  BY <1>5, <1>7 DEF At, ClearBefore, ClearBehind
<1>9. Queue' = Chain(<<>>, <<>>, <<>>, <<>>, <<>>, <<>>)
  BY <1>1, <1>4, <1>7, <1>8 DEF At
<1>10. Cat(<<>>, <<>>) = <<>>
  BY CatLaws
<1> QED BY <1>9, <1>10, Zenon DEF Chain

\* The end of the file delivers an unfinished line, or leaves it to the asynchronous reader.
LEMMA EndMaps ==
    ASSUME Types, Types', Places, Kept, Unfinished', EndOfFile \/ ReadInterrupted
    PROVE  ChannelStep(Queue, Queue')
<1>1. rn \in 1..Sessions /\ UNCHANGED <<get, fifo, put, stuck>>
  BY DEF EndOfFile, ReadInterrupted, LoopEnds, Reading, Places, writer
<1>2. CASE async \/ line = <<>>
  <2>1. line' = line /\ lines' = lines
    BY <1>2 DEF EndOfFile, ReadInterrupted, LoopEnds
  <2>2. Queue' = Queue
    BY <1>1, <2>1, QueueSame
  <2> QED BY <2>1, <2>2 DEF ChannelStep
<1>3. CASE ~(async \/ line = <<>>)
  <2>1. lines' = Append(lines, line) /\ line' = <<>>
    BY <1>3 DEF EndOfFile, ReadInterrupted, LoopEnds
  <2>2. Queue = Cat(line, Queue')
    BY <1>1, <2>1, LineFirst DEF Kept
  <2>3. line \in Seq(Bytes) /\ Queue' \in Seq(Bytes)
    BY QueueTypeNext DEF Kept, Unfinished
  <2>4. OneLine(line)
    <3>1. \A i \in 1..(Len(line) - 1) : i \in 1..Len(line)
      BY <2>3
    <3> QED BY <1>3, <3>1 DEF Kept, Unfinished, NoEnds, OneLine
  <2>5. Queue' = <<>> \/ failed' \/ stuck'
    <3>1. CASE EndOfFile /\ ~failed' /\ ~stuck
      BY <2>1, <3>1, AllRead
    <3>2. CASE ReadInterrupted
      BY <3>2 DEF ReadInterrupted
    <3> QED BY <1>1, <3>1, <3>2
  <2>6. PICK l, r \in Seq(Bytes) : l = line /\ r = Queue'
    BY <2>3
  <2>7. OneLine(l) /\ ~async /\ (r = <<>> \/ (failed' \/ stuck'))
    BY <1>3, <2>4, <2>5, <2>6
  <2>8. Delivered(Cat(l, r), r, lines, Append(lines, l), async, failed' \/ stuck')
    BY <2>7, DeliverPart
  <2> QED BY <2>1, <2>2, <2>6, <2>8 DEF ChannelStep
<1> QED BY <1>2, <1>3

\* A reader that leaves takes its line with it; one that fails, what was in the pipe, too.
LEMMA CloseMaps ==
    ASSUME Types, Types', Places, Kept, Unfinished', CloseReader
    PROVE  ChannelStep(Queue, Queue')
<1>1. /\ rn \in 1..Sessions /\ ReaderHas(rn) /\ rpc = "open"
      /\ line' = <<>> /\ lines' = lines /\ put' = put
      /\ line = <<>> \/ async
      /\ get' = IF async THEN <<>> ELSE get
      /\ WriterHas(rn) \in BOOLEAN
  BY DEF CloseReader, Places, ReaderHas, WriterHas, writer
<1>2. /\ Only(rn) /\ (WriterHas(rn) => fifo' = fifo) /\ (~WriterHas(rn) => fifo'[rn] = <<>>)
  BY <1>1, EmptiedOnly DEF CloseReader
<1>3. PICK p, q \in Seq(Bytes) : At(rn, p, q)
  BY <1>1, <1>2, Place DEF Kept
<1>4. line \in Seq(Bytes) /\ get \in Seq(Bytes) /\ put \in Seq(Bytes) /\ fifo[rn] \in Seq(Bytes)
  BY <1>1, Parts DEF Kept
<1>5. CASE ~failed'
  <2>1. fifo[rn] = <<>> /\ get = <<>> /\ ~failed /\ rend
    BY <1>1, <1>5 DEF CloseReader, Kept, ReadAll
  <2>2. fifo' = fifo
    BY <2>1 DEF CloseReader, Emptied, Types, TypeOK
  <2>3. get' = get
    BY <1>1, <2>1
  <2>4. CASE line = <<>>
    <3>1. Queue' = Queue
      BY <1>1, <2>2, <2>3, <2>4, QueueSame
    <3> QED BY <1>1, <3>1 DEF ChannelStep
  <2>5. CASE line # <<>>
    <3>1. Queue = Cat(line, Queue')
      BY <1>1, <2>2, <2>3, LineFirst DEF Kept
    <3>2. PICK l, r \in Seq(Bytes) : l = line /\ r = Queue'
      BY <1>4, QueueTypeNext
    <3>3. l # <<>> /\ NoEnds(l)
      BY <2>5, <3>2 DEF Kept, Unfinished
    <3>4. Dropped(Cat(l, r), r)
      BY <3>3, DropPart
    <3> QED BY <1>1, <2>5, <3>1, <3>2, <3>4 DEF ChannelStep
  <2> QED BY <2>4, <2>5
<1>6. CASE failed'
  <2>1. Queue = Chain(line, get, p, fifo[rn], q, put)
    BY <1>3 DEF At
  <2>2. CASE async
    <3>1. Queue' = Chain(<<>>, <<>>, p, fifo'[rn], q, put)
      BY <1>1, <1>3, <2>2 DEF At
    <3>2. Lost(Queue, Queue')
      <4>1. CASE fifo'[rn] = fifo[rn]
        <5>1. Lost(Chain(line, get, p, fifo[rn], q, put), Chain(<<>>, <<>>, p, fifo[rn], q, put))
          BY <1>4, ChainLoseFront
        <5> QED BY <2>1, <3>1, <4>1, <5>1
      <4>2. CASE fifo'[rn] # fifo[rn]
        <5>1. fifo'[rn] = <<>> /\ fifo[rn] # <<>>
          BY <1>1, <1>2, <4>2
        <5>2. p = <<>>
          BY <1>1, <1>3, <5>1, Clear DEF At, Kept
        <5>3. Lost(Chain(line, get, <<>>, fifo[rn], q, put), Chain(<<>>, <<>>, <<>>, <<>>, q, put))
          BY <1>4, ChainLoseFirst
        <5> QED BY <2>1, <3>1, <5>1, <5>2, <5>3
      <4> QED BY <4>1, <4>2
    <3> QED BY <1>1, <1>6, <3>2 DEF ChannelStep
  <2>3. CASE ~async
    <3>1. line' = line /\ get' = get
      BY <1>1, <2>3
    <3>2. CASE WriterHas(rn)
      <4>1. Queue' = Queue
        BY <1>1, <1>2, <3>1, <3>2, QueueSame
      <4> QED BY <1>1, <4>1 DEF ChannelStep
    <3>3. CASE ~WriterHas(rn)
      <4>1. Lost(Queue, Queue')
        BY <1>1, <1>2, <3>1, <3>3, PipeLost DEF Kept
      <4> QED BY <1>1, <1>6, <4>1 DEF ChannelStep
    <3> QED BY <3>2, <3>3
  <2> QED BY <2>2, <2>3
<1> QED BY <1>5, <1>6

\* The reader's steps are steps of the channel.
LEMMA ReaderMaps ==
    ASSUME Types, Types', Places, Kept, Unfinished', ReaderStep
    PROVE  ChannelStep(Queue, Queue') /\ Lasting
<1>1. Lasting
  <2>1. CASE OpenReader \/ ReaderOpenFails \/ Underflow \/ Consume
    BY <2>1 DEF OpenReader, ReaderOpenFails, Underflow, Consume, Lasting
  <2>2. CASE EndOfFile \/ ReadInterrupted
    <3>1. failed => failed'
      BY <2>2, Zenon DEF EndOfFile, ReadInterrupted
    <3>2. stuck' = stuck /\ async' = async
      BY <2>2 DEF EndOfFile, ReadInterrupted, LoopEnds
    <3> QED BY <3>1, <3>2 DEF Lasting
  <2>3. CASE CloseReader
    BY <2>3 DEF CloseReader, Lasting
  <2> QED BY <2>1, <2>2, <2>3 DEF ReaderStep, ReadStep
<1>2. CASE OpenReader \/ ReaderOpenFails
  <2>1. Queue' = Queue /\ lines' = lines
    BY <1>2, QueueSame DEF OpenReader, ReaderOpenFails, writer
  <2> QED BY <1>1, <2>1 DEF ChannelStep
<1>3. CASE Underflow
  <2>1. Queue' = Queue /\ lines' = lines
    BY <1>3, ReadSame DEF Underflow
  <2> QED BY <1>1, <2>1 DEF ChannelStep
<1>4. CASE Consume
  BY <1>1, <1>4, ConsumeMaps
<1>5. CASE EndOfFile \/ ReadInterrupted
  BY <1>1, <1>5, EndMaps
<1>6. CASE CloseReader
  BY <1>1, <1>6, CloseMaps
<1> QED BY <1>2, <1>3, <1>4, <1>5, <1>6 DEF ReaderStep, ReadStep

\* Writer, kernel and reader together are a channel of lines: what the writer's streams
\* accepted is delivered in its order and cut where the newlines are, through full
\* buffers, partial reads and any number of pipes; bytes are lost only when a party
\* fails, or behind the last newline of a pipe that is read asynchronously.
THEOREM ChannelImplemented == Spec => ImplementsLineChannel
<1>1. Init => Channel!Init
  <2> SUFFICES ASSUME Init PROVE Channel!Init
    OBVIOUS
  <2>1. PICK n \in Nat \ {0} : n = Sessions
    BY Sizes
  <2>2. Queue = <<>>
    <3>1. fifo \in [1..Sessions -> Seq(Bytes)] /\ \A s \in 1..Sessions : fifo[s] = <<>>
      BY EmptySeq DEF Init
    <3>2. PICK s \in 1..Sessions : s = 1
      BY Sizes
    <3>3. Apart(fifo, fifo, Sessions, s, Bytes)
      BY <3>1, Sizes, QueueSides DEF Differ
    <3>4. PICK p, q \in Seq(Bytes) : /\ Sides(fifo, s, Bytes, p, q)
                                     /\ ClearBefore(fifo, Sessions, s) => p = <<>>
                                     /\ ClearBehind(fifo, Sessions, s) => q = <<>>
      BY <3>3 DEF Apart
    <3>5. p = <<>> /\ q = <<>>
      BY <3>1, <3>4 DEF ClearBefore, ClearBehind
    <3>6. Queue = Chain(<<>>, <<>>, <<>>, <<>>, <<>>, <<>>)
      BY <3>1, <3>4, <3>5, EmptySeq, ZenonT(30) DEF Sides, Queue, Init
    <3>7. Cat(<<>>, <<>>) = <<>>
      BY CatLaws
    <3> QED BY <3>6, <3>7, Zenon DEF Chain
  <2>3. Queue = line \o get \o FlattenSeq(fifo) \o put
    BY DEF Queue, Queued, Cat
  <2> QED BY <2>2, <2>3 DEF Channel!Init, Init
<1>2. Types /\ Places /\ Kept /\ Types' /\ Kept' /\ [Next]_vars => [Channel!Next]_(Channel!vars)
  <2> SUFFICES ASSUME Types, Places, Kept, Types', Kept', [Next]_vars
               PROVE  [Channel!Next]_(Channel!vars)
    OBVIOUS
  <2>1. Unfinished'
    BY DEF Kept
  <2>2. CASE Next
    <3>1. ChannelStep(Queue, Queue') /\ Lasting
      BY <2>1, <2>2, WriterMaps, ReaderMaps DEF Next
    <3>2. Channel!Next
      BY <3>1, ChannelNext
    <3> QED BY <3>2
  <2>3. CASE UNCHANGED vars
    BY <2>3 DEF vars, writer, reader, Channel!vars
  <2> QED BY <2>2, <2>3
<1>3. Init => Kept
  BY InitKept
<1>4. Types /\ Places /\ Kept /\ [Next]_vars => Kept'
  BY KeptStep
<1> QED BY <1>1, <1>2, <1>3, <1>4, AlwaysTypes, PTL DEF Spec, ImplementsLineChannel, Channel!Spec
=============================================================================

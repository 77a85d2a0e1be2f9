------------------------- MODULE SensorSessionProofs -------------------------
(***************************************************************************)
(* Theorems about SensorSession, for every number of chunks and packets:    *)
(* the stream may be cut anywhere and read in the wrong place, and recv    *)
(* may fail any number of times.                                           *)
(***************************************************************************)
EXTENDS SensorSession, SequenceTheorems, TLAPS

-----------------------------------------------------------------------------
(* Facts about the stream *)

\* A packet has a first cell, its size, and two more unless it is empty.
LEMMA CellsOfPacket ==
    ASSUME NEW kind \in Kinds, NEW k \in 1..MaxPackets
    PROVE  /\ CellsOf(kind, k) \in Seq(Cell)
           /\ CellsOf(kind, k)[1] = [is |-> "size", of |-> k]
           /\ kind = "empty" => Len(CellsOf(kind, k)) = 1
           /\ kind # "empty" => /\ Len(CellsOf(kind, k)) = 3
                                /\ CellsOf(kind, k)[2] = [is |-> "head", of |-> k]
                                /\ CellsOf(kind, k)[3] = [is |-> "data", of |-> k]
<1>1. /\ [is |-> "size", of |-> k] \in Cell /\ [is |-> "head", of |-> k] \in Cell
      /\ [is |-> "data", of |-> k] \in Cell
  BY DEF Cell
<1>2. CASE kind = "empty"
  BY <1>1, <1>2 DEF CellsOf
<1>3. CASE kind # "empty"
  <2> DEFINE first == <<[is |-> "size", of |-> k]>>
             rest == <<[is |-> "head", of |-> k], [is |-> "data", of |-> k]>>
  <2>1. CellsOf(kind, k) = first \o rest
    BY <1>3 DEF CellsOf
  <2>2. first \in Seq(Cell) /\ rest \in Seq(Cell) /\ Len(first) = 1 /\ Len(rest) = 2
    BY <1>1
  <2>3. /\ first[1] = [is |-> "size", of |-> k]
        /\ rest[1] = [is |-> "head", of |-> k] /\ rest[2] = [is |-> "data", of |-> k]
    OBVIOUS
  <2> HIDE DEF first, rest
  <2> QED
    BY <1>3, <2>1, <2>2, <2>3, ConcatProperties
<1> QED
  BY <1>2, <1>3

\* Where a cell stands in all that the sensor sends.
Place(c) == 3 * c.of + (IF c.is = "size" THEN 0 ELSE IF c.is = "head" THEN 1 ELSE 2)

\* The cells of packet k stand one after the other.
LEMMA PlacesOfPacket ==
    ASSUME NEW kind \in Kinds, NEW k \in 1..MaxPackets
    PROVE  /\ Len(CellsOf(kind, k)) \in 1..3
           /\ \A i \in 1..Len(CellsOf(kind, k)) :
                 CellsOf(kind, k)[i].of = k /\ Place(CellsOf(kind, k)[i]) = 3 * k + i - 1
<1> DEFINE new == CellsOf(kind, k)
<1>1. /\ k \in Nat /\ new[1] = [is |-> "size", of |-> k]
      /\ kind = "empty" => Len(new) = 1
      /\ kind # "empty" => /\ Len(new) = 3
                           /\ new[2] = [is |-> "head", of |-> k] /\ new[3] = [is |-> "data", of |-> k]
  BY CellsOfPacket, SessionAssumption
<1> HIDE DEF new
<1>2. new[1].of = k /\ Place(new[1]) = 3 * k
  BY <1>1 DEF Place
<1>3. CASE kind = "empty"
  <2>1. Len(new) = 1 /\ \A i \in 1..1 : i = 1
    BY <1>1, <1>3
  <2> QED
    BY <1>1, <1>2, <2>1 DEF new
<1>4. CASE kind # "empty"
  <2>1. Len(new) = 3 /\ \A i \in 1..3 : i = 1 \/ i = 2 \/ i = 3
    BY <1>1, <1>4
  <2>2. /\ new[2].of = k /\ Place(new[2]) = 3 * k + 1
        /\ new[3].of = k /\ Place(new[3]) = 3 * k + 2
    BY <1>1, <1>4 DEF Place
  <2>3. \A i \in 1..3 : new[i].of = k /\ Place(new[i]) = 3 * k + i - 1
    BY <1>1, <1>2, <2>1, <2>2
  <2> QED
    BY <2>1, <2>3 DEF new
<1> QED
  BY <1>3, <1>4

\* What recv returns of a stream that is not empty; nothing if it asked for nothing.
LEMMA ReceivedCells ==
    ASSUME TypeOK, wire # <<>>, NEW size_ \in 1..2, NEW n \in Received(size_)
    PROVE  n \in 1..Len(wire) /\ n <= size_
  BY DEF Received, TypeOK

\* The stream without its first n cells.
LEMMA RestOfWire ==
    ASSUME TypeOK, NEW n \in 1..Len(wire), Receive(n)
    PROVE  /\ wire' \in Seq(Cell) /\ Len(wire') = Len(wire) - n
           /\ \A i \in 1..Len(wire') : i + n \in 1..Len(wire) /\ wire'[i] = wire[i + n]
<1>1. wire \in Seq(Cell) /\ Len(wire) \in Nat
  BY DEF TypeOK
<1>2. wire' = SubSeq(wire, n + 1, Len(wire))
  BY DEF Receive
<1> QED
  BY <1>1, <1>2

\* The first cell belongs to a packet that may be sent.
LEMMA HeadOfWire ==
    ASSUME TypeOK, wire # <<>>
    PROVE  /\ Head(wire) = wire[1] /\ wire[1] \in Cell /\ Len(wire) \in Nat \ {0}
           /\ wire[1].of \in 1..MaxPackets /\ wire[1].is \in {"size", "head", "data"}
<1>1. Head(wire) = wire[1] /\ wire[1] \in Cell /\ Len(wire) \in Nat \ {0}
  BY DEF TypeOK
<1> QED
  BY <1>1 DEF Cell

\* A size the program reads is the packet's or, out of step, any at all.
LEMMA SizeRead ==
    ASSUME TypeOK, wire # <<>>, NEW v \in SizesRead
    PROVE  /\ v \in 0..TooLarge
           /\ wire[1].is = "size" /\ sent[wire[1].of] # "large" =>
                 v = IF sent[wire[1].of] = "empty" THEN 0 ELSE 2
<1>1. \A kind : SizeOf(kind) \in 0..TooLarge
  BY DEF SizeOf, TooLarge
<1>2. \A kind : kind # "large" => SizeOf(kind) = IF kind = "empty" THEN 0 ELSE 2
  BY Zenon DEF SizeOf
<1> QED
  BY <1>1, <1>2, HeadOfWire DEF SizesRead

-----------------------------------------------------------------------------
(* Type correctness: the program closes the connection only on its way out,
   and never reads a chunk that does not exist.                              *)

TypeInv ==
    /\ TypeOK
    /\ pc # "returned" => closes = 0
    /\ pc = "connect" => chunk = 1
    /\ pc \in {"chunk_size", "chunk_body"} => chunk <= chunks
    /\ pc = "body" => size > 0

\* A program that has not connected yet.
LEMMA InitType == Init => TypeInv
<1> SUFFICES ASSUME Init PROVE TypeInv
  OBVIOUS
<1>1. <<>> \in Seq(Kinds) /\ <<>> \in Seq(Cell) /\ <<>> \in Seq(Execution) /\ Len(<<>>) = 0
  BY EmptySeq
<1>2. chunks \in 0..(MaxChunks + 1)
  BY SessionAssumption DEF Init
<1>3. /\ mode \in {"local", "remote"} /\ whole \in BOOLEAN /\ open \in BOOLEAN
      /\ connected \in BOOLEAN /\ closes = 0 /\ pc = "connect" /\ chunk = 1 /\ size = 0
      /\ reset \in BOOLEAN /\ failed \in BOOLEAN /\ intact = 0
  BY DEF Init
<1>4. sent = <<>> /\ wire = <<>> /\ executed = <<>>
  BY DEF Init
<1>5. sent \in Seq(Kinds) /\ Len(sent) <= MaxPackets /\ wire \in Seq(Cell) /\ executed \in Seq(Execution)
  BY <1>1, <1>4, SessionAssumption
<1> QED
  BY <1>2, <1>3, <1>5, SessionAssumption DEF TypeInv, TypeOK, TooLarge

\* Every step of the program, the sensor and the network keeps the types.
LEMMA NextType == TypeInv /\ [Next]_vars => TypeInv'
<1> SUFFICES ASSUME TypeInv, [Next]_vars PROVE TypeInv'
  OBVIOUS
<1> USE SessionAssumption DEF TooLarge
<1>1. ASSUME NEW kind \in Kinds, SensorSends(kind) PROVE TypeInv'
  <2>1. sent' \in Seq(Kinds) /\ Len(sent') = Len(sent) + 1 /\ Len(sent') \in 1..MaxPackets
    BY <1>1 DEF SensorSends, TypeInv, TypeOK
  <2>2. wire' \in Seq(Cell)
    BY <1>1, <2>1, CellsOfPacket, ConcatProperties DEF SensorSends, TypeInv, TypeOK
  <2> QED
    BY <1>1, <2>1, <2>2 DEF SensorSends, TypeInv, TypeOK, conn
<1>2. CASE SensorCloses
  BY <1>2 DEF SensorCloses, TypeInv, TypeOK, conn
<1>3. CASE ConnectionBreaks
  BY <1>3, EmptySeq DEF ConnectionBreaks, TypeInv, TypeOK, conn
<1>4. CASE Connect
  <2>1. chunk = 1 /\ NextChunk(1) \in {"first_size", "chunk_size"}
        /\ (NextChunk(1) = "chunk_size" => chunk <= chunks)
    BY <1>4 DEF Connect, NextChunk, TypeInv, TypeOK
  <2> QED
    BY <1>4, <2>1 DEF Connect, sensor, TypeInv, TypeOK
<1>5. CASE FileUnreadable
  BY <1>5 DEF FileUnreadable, NextChunk, ReturnClosing, conn, sensor, TypeInv, TypeOK
<1>6. CASE SendFails
  BY <1>6 DEF SendFails, ReturnClosing, conn, sensor, TypeInv, TypeOK
<1>7. CASE SendSize
  BY <1>7 DEF SendSize, conn, sensor, TypeInv, TypeOK
<1>8. CASE SendBody
  BY <1>8 DEF SendBody, NextChunk, conn, sensor, TypeInv, TypeOK
<1>9. CASE RecvFails
  BY <1>9 DEF RecvFails, AtFirst, AtAwait, ReturnClosing, conn, sensor, TypeInv, TypeOK
<1>10. CASE RecvEnds
  BY <1>10 DEF RecvEnds, AtFirst, AtAwait, ReturnClosing, conn, sensor, TypeInv, TypeOK
<1>11. ASSUME wire # <<>>, Receive(1), NEW v \in SizesRead
       PROVE  v \in 0..3 /\ wire' \in Seq(Cell)
  BY <1>11, SizeRead, HeadOfWire, RestOfWire DEF TypeInv
<1>12. CASE RecvFirstSize
  BY <1>11, <1>12 DEF RecvFirstSize, ReturnClosing, conn, TypeInv, TypeOK
<1>13. ASSUME wire # <<>>, size > 0, NEW n \in Received(size), Receive(n)
       PROVE  wire' \in Seq(Cell) /\ n \in Nat
  <2>1. size \in 1..2 /\ TypeOK
    BY <1>13 DEF TypeInv, TypeOK
  <2>2. n \in 1..Len(wire) /\ Len(wire) \in Nat
    BY <1>13, <2>1, ReceivedCells, HeadOfWire
  <2> QED
    BY <1>13, <2>1, <2>2, RestOfWire
<1>14. CASE RecvFirstBody
  <2>1. wire' \in Seq(Cell)
    BY <1>13, <1>14 DEF RecvFirstBody, TypeInv, TypeOK
  <2> QED
    BY <1>14, <2>1 DEF RecvFirstBody, ReturnClosing, conn, TypeInv, TypeOK
<1>15. CASE RecvSize
  BY <1>11, <1>15 DEF RecvSize, conn, TypeInv, TypeOK
<1>16. CASE RecvBody
  <2>1. PICK n \in Received(size) :
          /\ Receive(n)
          /\ IF HasHeader /\ Kind \in Executable
             THEN executed' = Append(executed, [of |-> Head(wire).of, complete |-> Whole(n)])
             ELSE UNCHANGED executed
    BY <1>16 DEF RecvBody
  <2>2. pc = "body" /\ size > 0 /\ wire # <<>> /\ TypeOK
    BY <1>16 DEF RecvBody, TypeInv
  <2>3. wire' \in Seq(Cell) /\ [of |-> Head(wire).of, complete |-> Whole(n)] \in Execution
    BY <1>13, <2>1, <2>2, HeadOfWire DEF Execution, Whole
  <2>4. executed' \in Seq(Execution)
    <3>1. executed \in Seq(Execution)
      BY <2>2 DEF TypeOK
    <3>2. CASE HasHeader /\ Kind \in Executable
      <4> DEFINE new == [of |-> Head(wire).of, complete |-> Whole(n)]
      <4>1. executed' = Append(executed, new) /\ new \in Execution
        BY <2>1, <2>3, <3>2
      <4> HIDE DEF new
      <4> QED
        BY <3>1, <4>1, AppendProperties
    <3>3. CASE ~(HasHeader /\ Kind \in Executable)
      BY <2>1, <3>1, <3>3
    <3> QED
      BY <3>2, <3>3
  <2> QED
    BY <1>16, <2>3, <2>4 DEF RecvBody, ReturnClosing, conn, TypeInv, TypeOK
<1>17. CASE Interrupt
  BY <1>17 DEF Interrupt, AtAwait, conn, sensor, TypeInv, TypeOK
<1>18. CASE UNCHANGED vars
  BY <1>18 DEF vars, TypeInv, TypeOK
<1>19. CASE RecvCrashes
  <2>1. wire' \in Seq(Cell)
    BY <1>13, <1>19 DEF RecvCrashes
  <2> QED
    BY <1>19, <2>1 DEF RecvCrashes, conn, TypeInv, TypeOK
<1> QED
  BY <1>19, <1>1, <1>2, <1>3, <1>4, <1>5, <1>6, <1>7, <1>8, <1>9, <1>10, <1>12, <1>14, <1>15, <1>16,
     <1>17, <1>18 DEF Next, Program, GetsOn

\* The session keeps its types: indices within the file and the packets, sizes that
\* fit the buffer, and the connection closed at most twice.
THEOREM TypeCorrect == Spec => []TypeOK
<1>1. TypeInv => TypeOK
  BY DEF TypeInv
<1> QED
  BY <1>1, InitType, NextType, PTL DEF Spec

\* The invariant behind it, for the proofs below.
LEMMA TypeInvCorrect == Spec => []TypeInv
  BY InitType, NextType, PTL DEF Spec

-----------------------------------------------------------------------------
(* Leaving *)

\* Every way out of run, with a chunk half sent, at a failed recv, at a bad answer
\* or at the end of the trace, closes the connection.
THEOREM ClosedCorrect == Spec => []ClosedOnReturn
<1>1. Init => ClosedOnReturn
  BY DEF Init, ClosedOnReturn
<1>2. TypeInv /\ ClosedOnReturn /\ [Next]_vars => ClosedOnReturn'
  <2> SUFFICES ASSUME TypeInv, ClosedOnReturn, [Next]_vars, pc' = "returned", connected'
               PROVE  closes' > 0
    BY DEF ClosedOnReturn
  <2>1. CASE pc = "returned"
    BY <2>1 DEF ClosedOnReturn, Next, Program, GetsOn, vars, conn, sensor, SensorSends, SensorCloses,
                ConnectionBreaks, Connect, FileUnreadable, NextChunk, SendFails, SendSize, SendBody,
                RecvFails, RecvEnds, RecvFirstSize, RecvFirstBody, RecvSize, RecvBody, RecvCrashes, Interrupt,
                AtFirst, AtAwait
  <2>2. CASE pc # "returned"
    <3>1. \/ closes' = closes + 1 \/ closes' = closes + 2
      BY <2>2 DEF Next, Program, GetsOn, vars, conn, sensor, SensorSends, SensorCloses, ConnectionBreaks,
                  Connect, FileUnreadable, NextChunk, SendFails, SendSize, SendBody, RecvFails,
                  RecvEnds, RecvFirstSize, RecvFirstBody, RecvSize, RecvBody, RecvCrashes, Interrupt,
                  ReturnClosing
    <3> QED
      BY <2>2, <3>1 DEF TypeInv, TypeOK
  <2> QED
    BY <2>1, <2>2
<1> QED
  BY <1>1, <1>2, TypeInvCorrect, PTL DEF Spec

-----------------------------------------------------------------------------
(* The submission *)

\* No packet of the submission is cut off: with two digits of four at most, the
\* reversed size is no smaller than the size.
LEMMA SwappedIsEnough == \A n \in PacketSizes : Swapped(n) >= n
<1>1. Swapped(1) >= 1
  BY DEF Swapped
<1>2. Swapped(2) >= 2
  BY DEF Swapped
<1>3. Swapped(3) >= 3
  BY DEF Swapped
<1>4. \A n \in PacketSizes : n = 1 \/ n = 2 \/ n = 3
  BY DEF PacketSizes
<1> QED
  BY <1>1, <1>2, <1>3, <1>4, Zenon

\* The inductive invariant: what has been sent was sent whole, and the answer is
\* awaited behind the last chunk.
SubmitInv ==
    /\ intact = chunk - 1
    /\ AtFirst \/ AtAwait => chunk = chunks + 1

\* The chunks are announced with their sizes, and sent with other ones; all the same
\* the sensor has all of each of them before its answer is awaited.
THEOREM SubmittedCorrect == Spec => []SubmittedWhole
<1>1. Init => SubmitInv
  BY DEF Init, SubmitInv, AtFirst, AtAwait
<1>2. TypeInv /\ SubmitInv /\ [Next]_vars => SubmitInv'
  <2> SUFFICES ASSUME TypeInv, SubmitInv, [Next]_vars PROVE SubmitInv'
    OBVIOUS
  <2>1. chunk \in Nat /\ chunks \in Nat /\ chunk <= chunks + 1 /\ intact \in Nat
    BY SessionAssumption DEF TypeInv, TypeOK
  <2>2. CASE Connect
    <3>1. /\ pc = "connect" /\ chunk = 1 /\ UNCHANGED <<chunks, chunk, intact>>
          /\ pc' \in {"returned", "chunk_size"} \/ (pc' = "first_size" /\ 1 > chunks)
      BY <2>2 DEF Connect, NextChunk, TypeInv
    <3> QED
      BY <2>1, <3>1 DEF SubmitInv, AtFirst, AtAwait
  <2>3. CASE SendBody
    <3>1. /\ chunk <= chunks /\ chunk' = chunk + 1 /\ chunks' = chunks
          /\ pc' = "chunk_size" \/ (pc' = "first_size" /\ chunk + 1 > chunks)
      BY <2>3 DEF SendBody, NextChunk, conn, TypeInv
    <3>2. intact' = intact + 1
      BY <2>3, SwappedIsEnough, Zenon DEF SendBody
    <3> QED
      BY <2>1, <3>1, <3>2 DEF SubmitInv, AtFirst, AtAwait
  <2>4. CASE ~Connect /\ ~SendBody
    <3>1. UNCHANGED <<chunk, intact, chunks>> /\ (AtFirst' \/ AtAwait' => AtFirst \/ AtAwait)
      BY <2>4 DEF Next, Program, GetsOn, vars, conn, sensor, SensorSends, SensorCloses,
                  ConnectionBreaks, FileUnreadable, SendFails, SendSize, RecvFails, RecvEnds,
                  RecvFirstSize, RecvFirstBody, RecvSize, RecvBody, RecvCrashes, Interrupt,
                  ReturnClosing, AtFirst, AtAwait
    <3> QED
      BY <2>1, <3>1 DEF SubmitInv
  <2> QED
    BY <2>2, <2>3, <2>4
<1>3. TypeInv /\ SubmitInv => SubmittedWhole
  <2>1. TypeInv => chunk \in Nat /\ chunks \in Nat
    BY SessionAssumption DEF TypeInv, TypeOK
  <2> QED
    BY <2>1 DEF SubmitInv, SubmittedWhole
<1> QED
  BY <1>1, <1>2, <1>3, TypeInvCorrect, PTL DEF Spec

-----------------------------------------------------------------------------
(* The stream: what any step does to it *)

\* The cells of a new packet go behind those that wait, and come after them.
LEMMA SentCells ==
    ASSUME TypeOK, NEW kind \in Kinds, SensorSends(kind)
    PROVE  /\ Len(sent') = Len(sent) + 1 /\ Len(sent) \in Nat /\ sent'[Len(sent')] = kind
           /\ \A k \in 1..Len(sent) : sent'[k] = sent[k]
           /\ Len(wire) \in Nat /\ Len(wire') \in Nat /\ Len(wire') > Len(wire)
           /\ wire' \in Seq(Cell)
           /\ \A i \in 1..Len(wire) : wire'[i] = wire[i]
           /\ \A i \in (Len(wire) + 1)..Len(wire') :
                 wire'[i].of = Len(sent') /\ Place(wire'[i]) = 3 * Len(sent') + i - Len(wire) - 1
           /\ wire'[Len(wire) + 1] = [is |-> "size", of |-> Len(sent')]
           /\ kind = "empty" => Len(wire') = Len(wire) + 1
           /\ kind # "empty" => /\ Len(wire') = Len(wire) + 3
                                /\ wire'[Len(wire) + 2] = [is |-> "head", of |-> Len(sent')]
                                /\ wire'[Len(wire) + 3] = [is |-> "data", of |-> Len(sent')]
<1> DEFINE k == Len(sent')
<1>1. /\ Len(sent') = Len(sent) + 1 /\ Len(sent) \in Nat /\ sent'[Len(sent')] = kind
      /\ \A j \in 1..Len(sent) : sent'[j] = sent[j]
      /\ k \in 1..MaxPackets
  BY SessionAssumption DEF SensorSends, TypeOK
<1>2. wire \in Seq(Cell) /\ CellsOf(kind, k) \in Seq(Cell) /\ wire' = wire \o CellsOf(kind, k)
  BY <1>1, CellsOfPacket DEF SensorSends, TypeOK
<1> DEFINE new == CellsOf(kind, k)
<1>3. /\ Len(new) \in 1..3 /\ new[1] = [is |-> "size", of |-> k]
      /\ \A i \in 1..Len(new) : new[i].of = k /\ Place(new[i]) = 3 * k + i - 1
      /\ kind = "empty" => Len(new) = 1
      /\ kind # "empty" => /\ Len(new) = 3 /\ new[2] = [is |-> "head", of |-> k]
                           /\ new[3] = [is |-> "data", of |-> k]
  BY <1>1, CellsOfPacket, PlacesOfPacket
<1> HIDE DEF k, new
<1>4. /\ wire' \in Seq(Cell) /\ Len(wire') = Len(wire) + Len(new) /\ Len(wire) \in Nat
      /\ \A i \in 1..Len(wire) : wire'[i] = wire[i]
      /\ \A i \in (Len(wire) + 1)..Len(wire') : wire'[i] = new[i - Len(wire)]
  BY <1>2, <1>3, ConcatProperties DEF new
<1>5. ASSUME NEW i \in (Len(wire) + 1)..Len(wire')
      PROVE  wire'[i].of = k /\ Place(wire'[i]) = 3 * k + i - Len(wire) - 1
  <2>1. i - Len(wire) \in 1..Len(new)
    BY <1>3, <1>4
  <2>2. wire'[i].of = k /\ Place(wire'[i]) = 3 * k + (i - Len(wire)) - 1
    BY <1>3, <1>4, <2>1
  <2> QED
    BY <1>1, <1>4, <2>2 DEF k
<1>6. /\ Len(wire') \in Nat /\ Len(wire') > Len(wire) /\ wire'[Len(wire) + 1] = [is |-> "size", of |-> k]
      /\ kind = "empty" => Len(wire') = Len(wire) + 1
      /\ kind # "empty" => /\ Len(wire') = Len(wire) + 3
                           /\ wire'[Len(wire) + 2] = [is |-> "head", of |-> k]
                           /\ wire'[Len(wire) + 3] = [is |-> "data", of |-> k]
  <2>1. /\ Len(new) \in Nat /\ Len(wire) + 1 \in (Len(wire) + 1)..Len(wire')
        /\ kind # "empty" => /\ Len(wire) + 2 \in (Len(wire) + 1)..Len(wire')
                             /\ Len(wire) + 3 \in (Len(wire) + 1)..Len(wire')
        /\ (Len(wire) + 1) - Len(wire) = 1 /\ (Len(wire) + 2) - Len(wire) = 2
        /\ (Len(wire) + 3) - Len(wire) = 3
    BY <1>3, <1>4
  <2>2. wire'[Len(wire) + 1] = new[1] /\ (kind # "empty" => wire'[Len(wire) + 2] = new[2]
                                                          /\ wire'[Len(wire) + 3] = new[3])
    <3>1. wire'[Len(wire) + 1] = new[(Len(wire) + 1) - Len(wire)]
      BY <1>4, <2>1
    <3>2. kind # "empty" => wire'[Len(wire) + 2] = new[(Len(wire) + 2) - Len(wire)]
      BY <1>4, <2>1
    <3>3. kind # "empty" => wire'[Len(wire) + 3] = new[(Len(wire) + 3) - Len(wire)]
      BY <1>4, <2>1
    <3> QED
      BY <2>1, <3>1, <3>2, <3>3
  <2>3. /\ Len(wire') \in Nat /\ Len(wire') > Len(wire)
        /\ kind = "empty" => Len(wire') = Len(wire) + 1
        /\ kind # "empty" => Len(wire') = Len(wire) + 3
    <3>1. Len(wire) \in Nat /\ Len(wire') = Len(wire) + Len(new)
      BY <1>4
    <3>2. /\ Len(new) \in 1..3
          /\ kind = "empty" => Len(new) = 1
          /\ kind # "empty" => Len(new) = 3
      BY <1>3
    <3>3. Len(wire') \in Nat /\ Len(wire') > Len(wire)
      BY <3>1, <3>2
    <3>4. kind = "empty" => Len(wire') = Len(wire) + 1
      BY <3>1, <3>2
    <3>5. kind # "empty" => Len(wire') = Len(wire) + 3
      BY <3>1, <3>2
    <3> QED
      BY <3>3, <3>4, <3>5
  <2> QED
    BY <1>3, <2>2, <2>3
<1> QED
  BY <1>1, <1>4, <1>5, <1>6 DEF k

\* A step leaves the stream alone, adds a packet, loses what waits or receives
\* some of it; only a packet whose header is in place, and which is meant to be,
\* is executed.
LEMMA StreamStep ==
    ASSUME TypeInv, [Next]_vars
    PROVE  \/ UNCHANGED <<sent, wire, executed>>
           \/ \E kind \in Kinds : SensorSends(kind)
           \/ wire' = <<>> /\ ~open' /\ UNCHANGED <<sent, executed>>
           \/ \E n \in 1..Len(wire) :
                 /\ wire # <<>> /\ Receive(n) /\ UNCHANGED sent
                 /\ \/ UNCHANGED executed
                    \/ /\ HasHeader /\ Kind \in Executable
                       /\ \E b \in BOOLEAN :
                             executed' = Append(executed, [of |-> Head(wire).of, complete |-> b])
<1>1. CASE \E kind \in Kinds : SensorSends(kind)
  BY <1>1
<1>2. CASE ConnectionBreaks
  BY <1>2 DEF ConnectionBreaks
<1>3. CASE \/ UNCHANGED vars \/ SensorCloses \/ Connect \/ FileUnreadable \/ SendFails \/ SendSize
           \/ SendBody \/ RecvFails \/ RecvEnds \/ Interrupt
  BY <1>3 DEF vars, sensor, SensorCloses, Connect, FileUnreadable, SendFails, SendSize, SendBody,
              RecvFails, RecvEnds, Interrupt
<1>4. wire # <<>> => 1 \in 1..Len(wire)
  BY HeadOfWire DEF TypeInv
<1>5. CASE RecvFirstSize \/ RecvSize
  BY <1>4, <1>5 DEF RecvFirstSize, RecvSize
<1>6. ASSUME size > 0, wire # <<>>, NEW n \in Received(size) PROVE n \in 1..Len(wire)
  BY <1>6, ReceivedCells DEF TypeInv, TypeOK, TooLarge
<1>7. CASE RecvFirstBody
  BY <1>6, <1>7 DEF RecvFirstBody
<1>8. CASE RecvBody
  BY <1>6, <1>8 DEF RecvBody, TypeInv, Whole
<1>9. CASE RecvCrashes
  BY <1>6, <1>9 DEF RecvCrashes
<1> QED
  BY <1>1, <1>2, <1>3, <1>5, <1>7, <1>8, <1>9 DEF Next, Program, GetsOn

\* A cell's place tells its packet.
LEMMA PlaceOfCell ==
    ASSUME NEW c \in Cell
    PROVE  /\ c.of \in Nat \ {0} /\ Place(c) \in Nat
           /\ 3 * c.of <= Place(c) /\ Place(c) <= 3 * c.of + 2
           /\ c.is = "head" => Place(c) = 3 * c.of + 1
  BY SessionAssumption DEF Cell, Place

-----------------------------------------------------------------------------
(* Order: cells are received in the order they were sent, and the header of  *)
(* every executed packet lies before all that is still to be received.       *)

WireInv ==
    /\ \A i \in 1..Len(wire) : wire[i].of <= Len(sent)
    /\ \A i, j \in 1..Len(wire) : i < j => Place(wire[i]) < Place(wire[j])

BehindInv ==
    \A i \in 1..Len(executed) :
        /\ executed[i].of <= Len(sent)
        /\ \A j \in 1..Len(wire) : 3 * executed[i].of + 1 < Place(wire[j])

OrderInv == WireInv /\ BehindInv /\ ExecutedInOrder

\* What is executed names a packet.
LEMMA ExecutedPacket ==
    ASSUME TypeOK, NEW i \in 1..Len(executed)
    PROVE  executed[i].of \in Nat \ {0} /\ executed[i].of \in 1..MaxPackets
<1>1. executed[i] \in Execution
  BY DEF TypeOK
<1> QED
  BY <1>1, SessionAssumption DEF Execution

\* A new packet is later than all others.
LEMMA SendOrder ==
    ASSUME TypeInv, OrderInv, NEW kind \in Kinds, SensorSends(kind)
    PROVE  OrderInv'
<1>1. executed' = executed /\ TypeOK
  BY DEF SensorSends, TypeInv
<1>2. ASSUME NEW i \in 1..Len(wire)
      PROVE  /\ wire[i] \in Cell /\ Place(wire[i]) \in Nat /\ wire[i].of \in Nat
             /\ Place(wire[i]) < 3 * Len(sent')
  <2>1. wire[i] \in Cell /\ wire[i].of <= Len(sent) /\ Len(sent') = Len(sent) + 1 /\ Len(sent) \in Nat
    BY <1>1, SentCells DEF TypeOK, OrderInv, WireInv
  <2> QED
    BY <2>1, PlaceOfCell
<1>3. WireInv'
  <2>1. ASSUME NEW i \in 1..Len(wire') PROVE wire'[i].of <= Len(sent')
    <3>1. CASE i \in 1..Len(wire)
      <4>1. wire'[i] = wire[i] /\ wire[i].of <= Len(sent) /\ Len(sent') = Len(sent) + 1 /\ Len(sent) \in Nat
        BY <1>1, <3>1, SentCells DEF OrderInv, WireInv
      <4> QED
        BY <1>2, <3>1, <4>1
    <3>2. CASE i \in (Len(wire) + 1)..Len(wire')
      BY <1>1, <3>2, SentCells
    <3> QED
      BY <1>1, <3>1, <3>2, SentCells
  <2>2. ASSUME NEW i \in 1..Len(wire'), NEW j \in 1..Len(wire'), i < j
        PROVE  Place(wire'[i]) < Place(wire'[j])
    <3>1. CASE j \in 1..Len(wire)
      <4>1. i \in 1..Len(wire) /\ wire'[i] = wire[i] /\ wire'[j] = wire[j]
        BY <1>1, <2>2, <3>1, SentCells
      <4> QED
        BY <2>2, <3>1, <4>1 DEF OrderInv, WireInv
    <3>2. CASE j \in (Len(wire) + 1)..Len(wire')
      <4>1. /\ Place(wire'[j]) = 3 * Len(sent') + j - Len(wire) - 1
            /\ Len(sent') \in Nat /\ Len(wire) \in Nat /\ j \in Nat /\ j > Len(wire)
        BY <1>1, <3>2, SentCells
      <4>2. CASE i \in 1..Len(wire)
        <5>1. wire'[i] = wire[i]
          BY <1>1, <4>2, SentCells
        <5> QED
          BY <1>2, <4>1, <4>2, <5>1
      <4>3. CASE i \in (Len(wire) + 1)..Len(wire')
        <5>1. Place(wire'[i]) = 3 * Len(sent') + i - Len(wire) - 1
          BY <1>1, <4>3, SentCells
        <5> QED
          BY <2>2, <4>1, <5>1
      <4> QED
        BY <4>1, <4>2, <4>3
    <3> QED
      BY <1>1, <3>1, <3>2, SentCells
  <2> QED
    BY <2>1, <2>2 DEF WireInv
<1>4. BehindInv'
  <2> SUFFICES ASSUME NEW i \in 1..Len(executed)
               PROVE  /\ executed[i].of <= Len(sent')
                      /\ \A j \in 1..Len(wire') : 3 * executed[i].of + 1 < Place(wire'[j])
    BY <1>1 DEF BehindInv
  <2>1. /\ executed[i].of <= Len(sent) /\ executed[i].of \in Nat
        /\ Len(sent') = Len(sent) + 1 /\ Len(sent) \in Nat
    BY <1>1, ExecutedPacket, SentCells DEF OrderInv, BehindInv
  <2>2. ASSUME NEW j \in 1..Len(wire') PROVE 3 * executed[i].of + 1 < Place(wire'[j])
    <3>1. CASE j \in 1..Len(wire)
      BY <1>1, <3>1, SentCells DEF OrderInv, BehindInv
    <3>2. CASE j \in (Len(wire) + 1)..Len(wire')
      <4>1. /\ Place(wire'[j]) = 3 * Len(sent') + j - Len(wire) - 1
            /\ Len(wire) \in Nat /\ j \in Nat /\ j > Len(wire)
        BY <1>1, <3>2, SentCells
      <4> QED
        BY <2>1, <4>1
    <3> QED
      BY <1>1, <3>1, <3>2, SentCells
  <2> QED
    BY <2>1, <2>2
<1>5. ExecutedInOrder'
  <2>1. \A i \in 1..Len(executed) : sent'[executed[i].of] = sent[executed[i].of]
    BY <1>1, ExecutedPacket, SentCells DEF OrderInv, BehindInv
  <2> QED
    BY <1>1, <2>1 DEF OrderInv, ExecutedInOrder
<1> QED
  BY <1>3, <1>4, <1>5 DEF OrderInv

\* Receiving leaves what comes after, and an executed packet comes before it.
LEMMA ReceiveOrder ==
    ASSUME TypeInv, OrderInv, wire # <<>>, NEW n \in 1..Len(wire), Receive(n), sent' = sent,
           \/ UNCHANGED executed
           \/ /\ HasHeader /\ Kind \in Executable
              /\ \E b \in BOOLEAN :
                    executed' = Append(executed, [of |-> Head(wire).of, complete |-> b])
    PROVE  OrderInv'
<1> DEFINE rest == wire'
<1>1. /\ Len(rest) \in Nat /\ Len(rest) = Len(wire) - n /\ Len(wire) \in Nat \ {0} /\ n \in Nat \ {0}
      /\ \A i \in 1..Len(rest) : i + n \in 1..Len(wire) /\ i + n > 1 /\ rest[i] = wire[i + n]
  BY RestOfWire, HeadOfWire DEF TypeInv
<1>2. wire[1] \in Cell /\ Head(wire) = wire[1]
  BY HeadOfWire DEF TypeInv
<1>3. WireInv'
  <2>1. ASSUME NEW i \in 1..Len(rest), NEW j \in 1..Len(rest), i < j
        PROVE  Place(rest[i]) < Place(rest[j])
    <3>1. i + n < j + n
      BY <1>1, <2>1
    <3> QED
      BY <1>1, <3>1 DEF OrderInv, WireInv
  <2>2. \A i \in 1..Len(rest) : rest[i].of <= Len(sent)
    BY <1>1 DEF OrderInv, WireInv
  <2> QED
    BY <2>1, <2>2 DEF WireInv
<1>4. \A i \in 1..Len(executed) :
         /\ executed[i].of <= Len(sent)
         /\ \A j \in 1..Len(rest) : 3 * executed[i].of + 1 < Place(rest[j])
  BY <1>1 DEF OrderInv, BehindInv
<1>5. CASE UNCHANGED executed
  <2>1. BehindInv'
    BY <1>4, <1>5 DEF BehindInv
  <2>2. ExecutedInOrder'
    BY <1>5 DEF OrderInv, ExecutedInOrder
  <2> QED
    BY <1>3, <2>1, <2>2 DEF OrderInv
<1>6. ASSUME HasHeader, Kind \in Executable, NEW b \in BOOLEAN,
             executed' = Append(executed, [of |-> Head(wire).of, complete |-> b])
      PROVE  OrderInv'
  <2> DEFINE e == [of |-> wire[1].of, complete |-> b]
  <2>1. /\ executed \in Seq(Execution) /\ Len(executed) \in Nat
        /\ executed' = Append(executed, e)
    BY <1>2, <1>6 DEF TypeInv, TypeOK
  <2>2. /\ Len(executed') = Len(executed) + 1 /\ executed'[Len(executed) + 1] = e
        /\ \A i \in 1..Len(executed) : executed'[i] = executed[i]
    BY <2>1, AppendProperties
  <2>3. e.of = wire[1].of /\ wire[1].is = "head" /\ sent[wire[1].of] \in Executable
    BY <1>2, <1>6 DEF HasHeader, Kind
  <2>4. Place(wire[1]) = 3 * wire[1].of + 1 /\ wire[1].of \in Nat \ {0}
    BY <1>2, <2>3, PlaceOfCell
  <2>5. wire[1].of <= Len(sent) /\ \A j \in 1..Len(rest) : 3 * wire[1].of + 1 < Place(rest[j])
    BY <1>1, <2>4 DEF OrderInv, WireInv
  <2>6. \A i \in 1..Len(executed) : executed[i].of < wire[1].of
    <3> SUFFICES ASSUME NEW i \in 1..Len(executed) PROVE executed[i].of < wire[1].of
      OBVIOUS
    <3>1. executed[i].of \in Nat /\ 3 * executed[i].of + 1 < Place(wire[1])
      BY <1>1, ExecutedPacket DEF OrderInv, BehindInv, TypeInv
    <3> QED
      BY <2>4, <3>1
  <2> HIDE DEF e
  <2>7. ASSUME NEW i \in 1..Len(executed') PROVE i \in 1..Len(executed) \/ i = Len(executed) + 1
    BY <2>1, <2>2
  <2>8. BehindInv'
    BY <1>4, <2>2, <2>3, <2>5, <2>7 DEF BehindInv
  <2>9. ExecutedInOrder'
    <3> SUFFICES ASSUME NEW i \in 1..Len(executed')
                 PROVE  /\ sent[executed'[i].of] \in Executable
                        /\ \A j \in 1..(i - 1) : executed'[j].of < executed'[i].of
      BY DEF ExecutedInOrder
    <3>1. CASE i \in 1..Len(executed)
      <4>1. \A j \in 1..(i - 1) : j \in 1..Len(executed)
        BY <2>1, <3>1
      <4> QED
        BY <2>2, <3>1, <4>1 DEF OrderInv, ExecutedInOrder
    <3>2. CASE i = Len(executed) + 1
      <4>1. \A j \in 1..(i - 1) : j \in 1..Len(executed)
        BY <2>1, <3>2
      <4> QED
        BY <2>2, <2>3, <2>6, <3>2, <4>1
    <3> QED
      BY <2>7, <3>1, <3>2
  <2> QED
    BY <1>3, <2>8, <2>9 DEF OrderInv
<1> QED
  BY <1>5, <1>6

\* The order is kept by every step.
LEMMA OrderStep == TypeInv /\ OrderInv /\ [Next]_vars => OrderInv'
<1> SUFFICES ASSUME TypeInv, OrderInv, [Next]_vars PROVE OrderInv'
  OBVIOUS
<1>1. CASE UNCHANGED <<sent, wire, executed>>
  BY <1>1 DEF OrderInv, WireInv, BehindInv, ExecutedInOrder
<1>2. CASE wire' = <<>> /\ ~open' /\ UNCHANGED <<sent, executed>>
  BY <1>2 DEF OrderInv, WireInv, BehindInv, ExecutedInOrder
<1> QED
  BY <1>1, <1>2, StreamStep, SendOrder, ReceiveOrder

\* The stream begins empty.
LEMMA OrderInit == Init => OrderInv
  BY DEF Init, OrderInv, WireInv, BehindInv, ExecutedInOrder

\* However the stream is cut, and wherever the program reads it, no event is executed
\* twice or before one sent earlier, and nothing is executed but what was sent as such.
THEOREM OrderCorrect == Spec => []ExecutedInOrder
<1>1. OrderInv => ExecutedInOrder
  BY DEF OrderInv
<1> QED
  BY <1>1, OrderInit, OrderStep, TypeInvCorrect, PTL DEF Spec

\* The packet a cell belongs to was sent, so TRACE_END in place of an event was sent.
\* Neither garbage nor a failed recv leaves the trace.
THEOREM LeavesCorrect == Spec => LeavesForAReason
<1>1. ASSUME TypeInv, OrderInv, [Next]_vars
      PROVE  AtAwait /\ pc' = "returned" =>
                (~open /\ ~reset) \/ \E k \in 1..Len(sent) : sent[k] = "end"
  <2> SUFFICES ASSUME AtAwait, pc' = "returned", open \/ reset
               PROVE  \E k \in 1..Len(sent) : sent[k] = "end"
    OBVIOUS
  <2>1. RecvBody /\ HasHeader /\ Kind = "end"
    BY <1>1 DEF AtAwait, AtFirst, Next, Program, GetsOn, vars, conn, sensor, SensorSends, SensorCloses,
                ConnectionBreaks, Connect, FileUnreadable, NextChunk, SendFails, SendSize, SendBody,
                RecvFails, RecvEnds, RecvFirstSize, RecvFirstBody, RecvSize, RecvBody, RecvCrashes, Interrupt
  <2>2. /\ wire # <<>> /\ Kind = sent[wire[1].of] /\ Len(sent) \in Nat
        /\ 1 \in 1..Len(wire) /\ wire[1].of \in Nat \ {0}
    <3>1. wire # <<>> /\ TypeOK
      BY <1>1, <2>1 DEF RecvBody, TypeInv
    <3>2. Len(sent) \in Nat
      BY <3>1 DEF TypeOK
    <3>3. Head(wire) = wire[1] /\ 1 \in 1..Len(wire) /\ wire[1].of \in Nat \ {0}
      BY <3>1, HeadOfWire, SessionAssumption
    <3> QED
      BY <3>1, <3>2, <3>3 DEF Kind
  <2>3. wire[1].of \in 1..Len(sent)
    BY <1>1, <2>2 DEF OrderInv, WireInv
  <2> QED
    BY <2>1, <2>2, <2>3
<1> QED
  BY <1>1, OrderInit, OrderStep, TypeInvCorrect, PTL DEF Spec, LeavesForAReason

-----------------------------------------------------------------------------
(* Nothing is lost: what waits is an unbroken rest of all that was sent, and *)
(* a program in step reads each cell for what it is.                         *)

SizeCell(k) == [is |-> "size", of |-> k]
HeadCell(k) == [is |-> "head", of |-> k]
DataCell(k) == [is |-> "data", of |-> k]

\* The cell that follows c when the packets of s are sent.
CellAfter(s, c) ==
    IF c.is = "size" /\ s[c.of] # "empty" THEN HeadCell(c.of)
    ELSE IF c.is = "head" THEN DataCell(c.of) ELSE SizeCell(c.of + 1)

ContiguousInv ==
    wire # <<>> =>
        /\ \A i \in 1..(Len(wire) - 1) : wire[i + 1] = CellAfter(sent, wire[i])
        /\ CellAfter(sent, wire[Len(wire)]) = SizeCell(Len(sent) + 1)

\* Cells of different kinds differ.
LEMMA CellsDiffer ==
    ASSUME NEW j, NEW k
    PROVE  /\ SizeCell(j) # HeadCell(k) /\ SizeCell(j) # DataCell(k)
           /\ SizeCell(j) = SizeCell(k) => j = k
           /\ SizeCell(j).is = "size" /\ HeadCell(j).is = "head" /\ DataCell(j).is = "data"
           /\ SizeCell(j).of = j /\ HeadCell(j).of = j /\ DataCell(j).of = j
  BY DEF SizeCell, HeadCell, DataCell

\* A new packet continues the stream.
LEMMA SendContiguous ==
    ASSUME TypeInv, WireInv, ContiguousInv, NEW kind \in Kinds, SensorSends(kind)
    PROVE  ContiguousInv'
<1> DEFINE k == Len(sent') m == Len(wire)
<1>1. /\ k = Len(sent) + 1 /\ Len(sent) \in Nat /\ k \in Nat /\ sent'[k] = kind
      /\ \A j \in 1..Len(sent) : sent'[j] = sent[j]
      /\ m \in Nat /\ Len(wire') \in Nat /\ Len(wire') > m
      /\ \A i \in 1..m : wire'[i] = wire[i]
      /\ wire'[m + 1] = SizeCell(k)
  BY SentCells DEF TypeInv, SizeCell
<1>2. /\ kind = "empty" => Len(wire') = m + 1
      /\ kind # "empty" => Len(wire') = m + 3
  BY SentCells DEF TypeInv
<1>3. kind # "empty" => wire'[m + 2] = HeadCell(k) /\ wire'[m + 3] = DataCell(k)
  BY SentCells DEF TypeInv, HeadCell, DataCell
<1>4. ASSUME NEW i \in 1..m PROVE CellAfter(sent', wire[i]) = CellAfter(sent, wire[i])
  <2>1. wire[i].of \in 1..Len(sent)
    <3>1. wire[i] \in Cell /\ wire[i].of <= Len(sent)
      BY <1>4 DEF WireInv, TypeInv, TypeOK
    <3> QED
      BY <1>1, <3>1, PlaceOfCell
  <2> QED
    BY <1>1, <2>1 DEF CellAfter
<1>5. m > 0 => CellAfter(sent', wire[m]) = SizeCell(k)
  BY <1>1, <1>4 DEF ContiguousInv
<1>6. CellAfter(sent', SizeCell(k)) = IF kind = "empty" THEN SizeCell(k + 1) ELSE HeadCell(k)
  BY <1>1, CellsDiffer DEF CellAfter
<1>7. CellAfter(sent', HeadCell(k)) = DataCell(k) /\ CellAfter(sent', DataCell(k)) = SizeCell(k + 1)
  BY CellsDiffer DEF CellAfter
<1> HIDE DEF k, m
<1>8. ASSUME NEW i \in 1..(Len(wire') - 1) PROVE wire'[i + 1] = CellAfter(sent', wire'[i])
  <2>1. CASE i < m
    <3>1. i \in 1..m /\ i + 1 \in 1..m /\ i \in 1..(m - 1) /\ m > 0
      BY <1>1, <1>8, <2>1
    <3>2. wire # <<>>
      BY <3>1 DEF m
    <3>3. wire[i + 1] = CellAfter(sent, wire[i])
      BY <3>1, <3>2 DEF ContiguousInv, m
    <3> QED
      BY <1>1, <1>4, <3>1, <3>3
  <2>2. CASE i = m
    BY <1>1, <1>5, <1>8, <2>2
  <2>3. CASE i = m + 1
    <3>1. kind # "empty"
      BY <1>1, <1>2, <1>8, <2>3
    <3>2. i + 1 = m + 2
      BY <1>1, <2>3
    <3> QED
      BY <1>1, <1>3, <1>6, <2>3, <3>1, <3>2
  <2>4. CASE i = m + 2
    <3>1. kind # "empty"
      BY <1>1, <1>2, <1>8, <2>4
    <3>2. i + 1 = m + 3
      BY <1>1, <2>4
    <3> QED
      BY <1>1, <1>3, <1>7, <2>4, <3>1, <3>2
  <2>5. i < m \/ i = m \/ i = m + 1 \/ i = m + 2
    BY <1>1, <1>2, <1>8
  <2> QED
    BY <2>1, <2>2, <2>3, <2>4, <2>5
<1>9. CellAfter(sent', wire'[Len(wire')]) = SizeCell(k + 1)
  BY <1>1, <1>2, <1>3, <1>6, <1>7
<1> QED
  BY <1>8, <1>9 DEF ContiguousInv, k

\* The rest of an unbroken stream is unbroken.
LEMMA ReceiveContiguous ==
    ASSUME TypeInv, ContiguousInv, wire # <<>>, NEW n \in 1..Len(wire), Receive(n), sent' = sent
    PROVE  ContiguousInv'
<1>1. /\ wire' \in Seq(Cell) /\ Len(wire') = Len(wire) - n /\ Len(wire) \in Nat /\ n \in Nat \ {0}
      /\ \A i \in 1..Len(wire') : i + n \in 1..Len(wire) /\ wire'[i] = wire[i + n]
  BY RestOfWire DEF TypeInv, TypeOK
<1> SUFFICES ASSUME wire' # <<>>
             PROVE  /\ \A i \in 1..(Len(wire') - 1) : wire'[i + 1] = CellAfter(sent, wire'[i])
                    /\ CellAfter(sent, wire'[Len(wire')]) = SizeCell(Len(sent) + 1)
  BY DEF ContiguousInv
<1>2. Len(wire') \in Nat \ {0}
  BY <1>1
<1>3. ASSUME NEW i \in 1..(Len(wire') - 1) PROVE wire'[i + 1] = CellAfter(sent, wire'[i])
  <2>1. /\ i \in 1..Len(wire') /\ i + 1 \in 1..Len(wire') /\ i + n \in 1..(Len(wire) - 1)
        /\ (i + 1) + n = (i + n) + 1
    BY <1>1, <1>2
  <2>2. wire[(i + n) + 1] = CellAfter(sent, wire[i + n])
    BY <2>1 DEF ContiguousInv
  <2> QED
    BY <1>1, <2>1, <2>2
<1>4. wire'[Len(wire')] = wire[Len(wire)]
  BY <1>1, <1>2
<1> QED
  BY <1>3, <1>4 DEF ContiguousInv

\* No step breaks the stream but by losing all of it.
LEMMA ContiguousStep == TypeInv /\ OrderInv /\ ContiguousInv /\ [Next]_vars => ContiguousInv'
<1> SUFFICES ASSUME TypeInv, OrderInv, ContiguousInv, [Next]_vars PROVE ContiguousInv'
  OBVIOUS
<1>1. CASE UNCHANGED <<sent, wire, executed>>
  BY <1>1 DEF ContiguousInv
<1>2. CASE wire' = <<>>
  BY <1>2 DEF ContiguousInv
<1> QED
  BY <1>1, <1>2, StreamStep, SendContiguous, ReceiveContiguous DEF OrderInv

\* What the program in step reads next, wherever it is.
AtCell ==
    /\ pc \in {"connect", "chunk_size", "chunk_body", "first_size"} =>
          IF wire = <<>> THEN open => sent = <<>> ELSE wire[1] = SizeCell(1)
    /\ pc = "first_body" /\ size > 0 =>
          size = 2 /\ (IF wire = <<>> THEN ~open ELSE wire[1] = HeadCell(1))
    /\ pc = "size" => (wire # <<>> => wire[1].is = "size")
    /\ pc = "body" => size = 2 /\ (IF wire = <<>> THEN ~open ELSE wire[1].is = "head")

\* The packet the next cell belongs to, or the next packet to be sent.
NextPacket == IF wire = <<>> THEN Len(sent) + 1 ELSE wire[1].of

Executed(k) == \E i \in 1..Len(executed) : executed[i] = [of |-> k, complete |-> TRUE]

\* Every event before the next packet has been executed, unless the connection
\* broke; then still every event before the last one that was.
NothingSkipped ==
    /\ AtAwait /\ (open \/ wire # <<>>) =>
          \A k \in 2..(NextPacket - 1) : sent[k] \in WellFormed => Executed(k)
    /\ \A k \in 2..Len(sent), i \in 1..Len(executed) :
          sent[k] \in WellFormed /\ executed[i].of > k => Executed(k)

StepInv == InStep => AtCell /\ NothingSkipped

\* In step a packet's size says whether its header comes next.
LEMMA AfterSize ==
    ASSUME TypeInv, WireInv, ContiguousInv, wire # <<>>, wire[1].is = "size", Receive(1), sent' = sent
    PROVE  /\ wire[1].of \in 1..Len(sent)
           /\ sent[wire[1].of] = "empty" =>
                 NextPacket' = wire[1].of + 1 /\ (wire' # <<>> => wire'[1].is = "size")
           /\ sent[wire[1].of] # "empty" => wire' # <<>> /\ wire'[1] = HeadCell(wire[1].of)
<1> DEFINE k == wire[1].of
<1>1. /\ Len(wire) \in Nat \ {0} /\ wire[1] \in Cell /\ k \in Nat \ {0} /\ Len(sent) \in Nat
      /\ 1 \in 1..Len(wire)
  BY HeadOfWire, PlaceOfCell DEF TypeInv, TypeOK
<1>2. /\ wire' \in Seq(Cell) /\ Len(wire') = Len(wire) - 1 /\ Len(wire') \in Nat
      /\ \A i \in 1..Len(wire') : wire'[i] = wire[i + 1]
  BY <1>1, RestOfWire DEF TypeInv
<1>3. k \in 1..Len(sent)
  BY <1>1 DEF WireInv
<1>4. CellAfter(sent, wire[1]) = IF sent[k] = "empty" THEN SizeCell(k + 1) ELSE HeadCell(k)
  BY DEF CellAfter
<1>5. CASE Len(wire) = 1
  <2>1. CellAfter(sent, wire[1]) = SizeCell(Len(sent) + 1)
    BY <1>5 DEF ContiguousInv
  <2>2. sent[k] = "empty" /\ k + 1 = Len(sent) + 1
    BY <1>4, <2>1, CellsDiffer
  <2>3. wire' = <<>>
    BY <1>2, <1>5
  <2> QED
    BY <1>3, <2>2, <2>3 DEF NextPacket
<1>6. CASE Len(wire) > 1
  <2>1. 1 \in 1..(Len(wire) - 1) /\ 1 \in 1..Len(wire') /\ 1 + 1 = 2
    BY <1>1, <1>2, <1>6
  <2>2. wire'[1] = wire[2] /\ wire[2] = CellAfter(sent, wire[1]) /\ wire' # <<>>
    BY <1>2, <2>1 DEF ContiguousInv
  <2> QED
    BY <1>3, <1>4, <2>2, CellsDiffer DEF NextPacket
<1>7. Len(wire) = 1 \/ Len(wire) > 1
  <2>1. \A m \in Nat \ {0} : m = 1 \/ m > 1
    OBVIOUS
  <2> QED
    BY <1>1, <2>1
<1> QED
  BY <1>5, <1>6, <1>7

\* In step a packet is received with its data, and the next packet comes next.
LEMMA AfterHead ==
    ASSUME TypeInv, WireInv, ContiguousInv, InStep, wire # <<>>, wire[1].is = "head", size = 2,
           NEW n \in Received(size), Receive(n), sent' = sent
    PROVE  /\ n = 2 /\ wire[1].of \in 1..Len(sent)
           /\ NextPacket' = wire[1].of + 1 /\ (wire' # <<>> => wire'[1].is = "size")
<1> DEFINE k == wire[1].of
<1>1. /\ Len(wire) \in Nat \ {0} /\ wire[1] \in Cell /\ k \in Nat \ {0} /\ Len(sent) \in Nat
      /\ 1 \in 1..Len(wire)
  BY HeadOfWire, PlaceOfCell DEF TypeInv, TypeOK
<1>2. k \in 1..Len(sent)
  BY <1>1 DEF WireInv
<1>3. CellAfter(sent, wire[1]) = DataCell(k) /\ CellAfter(sent, DataCell(k)) = SizeCell(k + 1)
  BY CellsDiffer DEF CellAfter
<1>4. Len(wire) # 1
  <2> SUFFICES ASSUME Len(wire) = 1 PROVE FALSE
    OBVIOUS
  <2>1. CellAfter(sent, wire[1]) = SizeCell(Len(sent) + 1)
    BY DEF ContiguousInv
  <2>2. DataCell(k) # SizeCell(Len(sent) + 1)
    BY CellsDiffer
  <2> QED
    BY <1>3, <2>1, <2>2
<1>0. Len(wire) \in Nat /\ Len(wire) >= 2
  <2>1. Len(wire) \in Nat /\ Len(wire) # 0
    BY <1>1
  <2>2. \A m \in Nat : m # 0 /\ m # 1 => m >= 2
    OBVIOUS
  <2> QED
    BY <1>4, <2>1, <2>2
<1>5. n = 2
  BY <1>0 DEF Received, InStep
<1>6. 1 \in 1..(Len(wire) - 1) /\ 1 + 1 = 2 /\ 2 \in 1..Len(wire)
  BY <1>0
<1>7. wire[2] = DataCell(k)
  BY <1>3, <1>6 DEF ContiguousInv
<1>8. /\ wire' \in Seq(Cell) /\ Len(wire') = Len(wire) - 2 /\ Len(wire') \in Nat
      /\ \A i \in 1..Len(wire') : wire'[i] = wire[i + 2]
  BY <1>5, <1>6, RestOfWire DEF TypeInv
<1>9. CASE Len(wire) = 2
  <2>1. SizeCell(k + 1) = SizeCell(Len(sent) + 1)
    BY <1>3, <1>7, <1>9 DEF ContiguousInv
  <2>2. k + 1 = Len(sent) + 1 /\ wire' = <<>>
    BY <1>8, <1>9, <2>1, CellsDiffer
  <2> QED
    BY <1>2, <1>5, <2>2 DEF NextPacket
<1>10. CASE Len(wire) > 2
  <2>1. 2 \in 1..(Len(wire) - 1) /\ 1 \in 1..Len(wire') /\ 2 + 1 = 3 /\ 1 + 2 = 3
    BY <1>1, <1>8, <1>10
  <2>2. wire'[1] = wire[3] /\ wire[3] = SizeCell(k + 1) /\ wire' # <<>>
    BY <1>3, <1>7, <1>8, <2>1 DEF ContiguousInv
  <2> QED
    BY <1>2, <1>5, <2>2, CellsDiffer DEF NextPacket
<1>11. Len(wire) = 2 \/ Len(wire) > 2
  <2>1. \A m \in Nat : m >= 2 => m = 2 \/ m > 2
    OBVIOUS
  <2> QED
    BY <1>0, <2>1
<1> QED
  BY <1>9, <1>10, <1>11

\* A program that is in step has always been.
LEMMA InStepBefore == ASSUME TypeInv, [Next]_vars, InStep' PROVE InStep /\ ~RecvFails
<1>1. whole' = whole /\ whole /\ ~failed'
  BY DEF InStep, Next, Program, GetsOn, vars, conn, sensor, SensorSends, SensorCloses,
         ConnectionBreaks, Connect, FileUnreadable, SendFails, SendSize, SendBody, RecvFails,
         RecvEnds, RecvFirstSize, RecvFirstBody, RecvSize, RecvBody, RecvCrashes, Interrupt
<1>2. ~RecvFails
  BY <1>1 DEF RecvFails
<1>3. failed' = failed
  BY <1>2 DEF Next, Program, GetsOn, vars, conn, sensor, SensorSends, SensorCloses,
         ConnectionBreaks, Connect, FileUnreadable, SendFails, SendSize, SendBody,
         RecvEnds, RecvFirstSize, RecvFirstBody, RecvSize, RecvBody, RecvCrashes, Interrupt
<1>4. \A k \in 1..Len(sent) : k \in 1..Len(sent') /\ sent'[k] = sent[k]
  <2>1. CASE \E kind \in Kinds : SensorSends(kind)
    BY <2>1, SentCells DEF TypeInv
  <2>2. CASE sent' = sent
    BY <2>2
  <2> QED
    BY <2>1, <2>2, StreamStep
<1> QED
  BY <1>1, <1>2, <1>3, <1>4 DEF InStep

\* A packet more to come changes nothing for those before.
LEMMA SendInStep ==
    ASSUME TypeInv, OrderInv, InStep, AtCell, NothingSkipped, NEW kind \in Kinds, SensorSends(kind)
    PROVE  AtCell' /\ NothingSkipped'
<1>1. /\ Len(sent') = Len(sent) + 1 /\ Len(sent) \in Nat
      /\ \A j \in 1..Len(sent) : sent'[j] = sent[j]
      /\ Len(wire) \in Nat /\ \A i \in 1..Len(wire) : wire'[i] = wire[i]
      /\ wire'[Len(wire) + 1] = SizeCell(Len(sent'))
      /\ Len(wire') \in Nat /\ Len(wire') > Len(wire) /\ wire' \in Seq(Cell)
  BY SentCells DEF TypeInv, SizeCell
<1>2. pc' = pc /\ size' = size /\ executed' = executed /\ open' = open /\ open
  BY DEF SensorSends
<1>3. wire' # <<>> /\ NextPacket' = NextPacket
      /\ wire'[1] = IF wire = <<>> THEN SizeCell(Len(sent) + 1) ELSE wire[1]
  <2>1. CASE wire = <<>>
    <3>1. Len(wire) = 0
      BY <2>1
    <3>2. wire' # <<>> /\ wire'[1] = SizeCell(Len(sent) + 1)
      BY <1>1, <3>1
    <3> QED
      BY <2>1, <3>2, CellsDiffer DEF NextPacket
  <2>2. CASE wire # <<>>
    <3>1. 1 \in 1..Len(wire)
      BY <2>2, HeadOfWire DEF TypeInv
    <3>2. wire' # <<>> /\ wire'[1] = wire[1]
      BY <1>1, <3>1
    <3> QED
      BY <2>2, <3>2 DEF NextPacket
  <2> QED
    BY <2>1, <2>2
<1>4. AtCell'
  <2>1. sent = <<>> => Len(sent) + 1 = 1
    OBVIOUS
  <2> QED
    BY <1>2, <1>3, <2>1, CellsDiffer DEF AtCell
<1>5. ASSUME AtAwait' PROVE \A k \in 2..(NextPacket' - 1) : sent'[k] \in WellFormed => Executed(k)'
  <2>1. NextPacket <= Len(sent) + 1 /\ NextPacket \in Nat
    <3>1. CASE wire # <<>>
      <4>1. wire[1] \in Cell /\ 1 \in 1..Len(wire)
        BY <3>1, HeadOfWire DEF TypeInv
      <4>2. wire[1].of \in Nat /\ wire[1].of <= Len(sent)
        BY <4>1, PlaceOfCell DEF OrderInv, WireInv
      <4> QED
        BY <1>1, <3>1, <4>2 DEF NextPacket
    <3> QED
      BY <1>1, <3>1 DEF NextPacket
  <2>2. \A k \in 2..(NextPacket - 1) : k \in 1..Len(sent)
    BY <1>1, <2>1
  <2>3. AtAwait
    BY <1>2, <1>5 DEF AtAwait
  <2>4. \A k \in 2..(NextPacket - 1) : sent[k] \in WellFormed => Executed(k)
    BY <1>2, <2>3 DEF NothingSkipped
  <2> QED
    BY <1>1, <1>2, <1>3, <2>2, <2>4 DEF Executed
<1>6. ASSUME NEW k \in 2..Len(sent'), NEW i \in 1..Len(executed'),
             sent'[k] \in WellFormed, executed'[i].of > k
      PROVE  Executed(k)'
  <2>1. executed[i].of <= Len(sent) /\ executed[i].of \in Nat
    BY <1>2, ExecutedPacket DEF OrderInv, BehindInv, TypeInv
  <2>2. k \in 2..Len(sent) /\ k \in 1..Len(sent)
    BY <1>1, <1>2, <1>6, <2>1
  <2> QED
    BY <1>1, <1>2, <1>6, <2>2 DEF NothingSkipped, Executed
<1> QED
  BY <1>4, <1>5, <1>6 DEF NothingSkipped

\* A step of the program before the first recv, or on its way out.
LEMMA QuietInStep ==
    ASSUME AtCell, NothingSkipped, UNCHANGED <<sent, wire, open, executed, size>>,
           \/ pc' \in {"returned", "exited"} \/ pc' = pc
           \/ /\ pc \in {"connect", "chunk_size", "chunk_body", "first_size"}
              /\ pc' \in {"connect", "chunk_size", "chunk_body", "first_size"}
    PROVE  AtCell' /\ NothingSkipped'
<1>1. AtCell'
  BY DEF AtCell
<1>2. NextPacket' = NextPacket
  BY DEF NextPacket
<1>3. AtAwait' => AtAwait
  BY DEF AtAwait
<1> QED
  BY <1>1, <1>2, <1>3 DEF NothingSkipped, Executed

\* Reading a size in step.
LEMMA RecvSizeInStep ==
    ASSUME TypeInv, OrderInv, ContiguousInv, InStep, AtCell, NothingSkipped,
           RecvFirstSize \/ RecvSize
    PROVE  AtCell' /\ NothingSkipped'
<1>1. /\ wire # <<>> /\ Receive(1) /\ sent' = sent /\ executed' = executed /\ open' = open
      /\ pc \in {"first_size", "size"}
  BY DEF RecvFirstSize, RecvSize
<1>2. wire[1].is = "size" /\ (pc = "first_size" => wire[1] = SizeCell(1) /\ wire[1].of = 1)
  BY <1>1, CellsDiffer DEF AtCell
<1> DEFINE k == wire[1].of
<1>3. /\ k \in 1..Len(sent)
      /\ sent[k] = "empty" => NextPacket' = k + 1 /\ (wire' # <<>> => wire'[1].is = "size")
      /\ sent[k] # "empty" => wire' # <<>> /\ wire'[1] = HeadCell(k) /\ NextPacket' = k
  BY <1>1, <1>2, AfterSize, CellsDiffer DEF OrderInv, NextPacket
<1>4. \A v \in SizesRead : v = IF sent[k] = "empty" THEN 0 ELSE 2
  <2>1. sent[k] # "large"
    BY <1>3 DEF InStep
  <2> QED
    BY <1>1, <1>2, <2>1, SizeRead DEF TypeInv
<1>5. \/ pc' = "returned"
      \/ pc = "first_size" /\ pc' = "first_body"
      \/ pc = "size" /\ pc' \in {"size", "body"}
  BY DEF RecvFirstSize, RecvSize, ReturnClosing
<1>6. /\ pc' = "first_body" => size' = IF sent[k] = "empty" THEN 0 ELSE 2
      /\ pc' = "body" => size' = 2 /\ sent[k] # "empty"
      /\ pc' = "size" => sent[k] = "empty"
  <2>1. CASE RecvFirstSize
    <3>1. PICK v \in SizesRead : IF v >= TooLarge THEN pc' = "returned" ELSE pc' = "first_body" /\ size' = v
      BY <2>1 DEF RecvFirstSize, ReturnClosing
    <3> QED
      BY <1>4, <3>1
  <2>2. CASE RecvSize
    <3>1. PICK v \in SizesRead : IF v = 0 \/ v >= TooLarge THEN pc' = "size" ELSE pc' = "body" /\ size' = v
      BY <2>2 DEF RecvSize
    <3>2. v = IF sent[k] = "empty" THEN 0 ELSE 2
      BY <1>4
    <3>3. CASE sent[k] = "empty"
      BY <3>1, <3>2, <3>3
    <3>4. CASE sent[k] # "empty"
      <4>1. v = 2
        BY <3>2, <3>4
      <4>2. ~(v = 0 \/ v >= TooLarge)
        BY <4>1 DEF TooLarge
      <4> QED
        BY <3>1, <3>4, <4>1, <4>2
    <3> QED
      BY <3>3, <3>4
  <2> QED
    BY <2>1, <2>2
<1>7. AtCell'
  <2>1. pc' = "first_body" /\ size' > 0 => size' = 2 /\ wire' # <<>> /\ wire'[1] = HeadCell(1)
    BY <1>2, <1>3, <1>5, <1>6
  <2>2. pc' = "size" => (wire' # <<>> => wire'[1].is = "size")
    BY <1>3, <1>6
  <2>3. pc' = "body" => size' = 2 /\ wire' # <<>> /\ wire'[1].is = "head"
    BY <1>3, <1>6, CellsDiffer
  <2>4. pc' \notin {"connect", "chunk_size", "chunk_body", "first_size"}
    BY <1>5
  <2> QED
    BY <2>1, <2>2, <2>3, <2>4 DEF AtCell
<1>8. ASSUME AtAwait' PROVE \A j \in 2..(NextPacket' - 1) : sent[j] \in WellFormed => Executed(j)
  <2>1. pc = "size" /\ AtAwait
    BY <1>5, <1>8 DEF AtAwait
  <2>2. \A j \in 2..(k - 1) : sent[j] \in WellFormed => Executed(j)
    BY <1>1, <2>1 DEF NothingSkipped, NextPacket
  <2>3. sent[k] = "empty" => sent[k] \notin WellFormed
    BY DEF WellFormed
  <2>4. k \in Nat
    BY <1>3
  <2>5. CASE sent[k] = "empty"
    <3>1. \A j \in 2..((k + 1) - 1) : j \in 2..(k - 1) \/ j = k
      BY <2>4
    <3> QED
      BY <1>3, <2>2, <2>3, <2>5, <3>1
  <2>6. CASE sent[k] # "empty"
    BY <1>3, <2>2, <2>6
  <2> QED
    BY <2>5, <2>6
<1>9. /\ AtAwait' => \A j \in 2..(NextPacket' - 1) : sent'[j] \in WellFormed => Executed(j)'
      /\ \A j \in 2..Len(sent'), i \in 1..Len(executed') :
            sent'[j] \in WellFormed /\ executed'[i].of > j => Executed(j)'
  BY <1>1, <1>8 DEF NothingSkipped, Executed
<1> QED
  BY <1>7, <1>9 DEF NothingSkipped

\* Reading a packet in step.
LEMMA RecvBodyInStep ==
    ASSUME TypeInv, OrderInv, ContiguousInv, InStep, AtCell, NothingSkipped, RecvBody
    PROVE  AtCell' /\ NothingSkipped'
<1>0. PICK k : k = wire[1].of
  OBVIOUS
<1>1. /\ pc = "body" /\ wire # <<>> /\ sent' = sent /\ open' = open /\ size' = size
      /\ pc' \in {"size", "returned"}
  BY DEF RecvBody, ReturnClosing
<1>2. size = 2 /\ wire[1].is = "head"
  BY <1>1 DEF AtCell
<1>3. Head(wire) = wire[1] /\ HasHeader /\ Kind = sent[k]
  BY <1>0, <1>1, <1>2, HeadOfWire DEF HasHeader, Kind, TypeInv
<1>4. PICK n \in Received(size) :
         /\ Receive(n)
         /\ IF sent[k] \in Executable
            THEN executed' = Append(executed, [of |-> k, complete |-> n = 2 /\ sent[k] # "long"])
            ELSE executed' = executed
  BY <1>0, <1>3 DEF RecvBody, Whole
<1>5. /\ n = 2 /\ k \in 1..Len(sent)
      /\ NextPacket' = k + 1 /\ (wire' # <<>> => wire'[1].is = "size")
  BY <1>0, <1>1, <1>2, <1>4, AfterHead DEF OrderInv
<1>6. AtCell'
  BY <1>1, <1>5 DEF AtCell
<1>7. /\ executed \in Seq(Execution) /\ Len(executed) \in Nat
      /\ \A i \in 1..Len(executed) : executed[i].of \in Nat
  BY ExecutedPacket DEF TypeInv, TypeOK
<1>8. /\ \A i \in 1..Len(executed) : i \in 1..Len(executed') /\ executed'[i] = executed[i]
      /\ \A i \in 1..Len(executed') : i \in 1..Len(executed) \/ executed'[i].of = k
      /\ sent[k] \in WellFormed => Executed(k)'
  <2> DEFINE e == [of |-> k, complete |-> n = 2 /\ sent[k] # "long"]
  <2>1. e.of = k /\ (sent[k] \in WellFormed => e = [of |-> k, complete |-> TRUE])
    BY <1>5 DEF WellFormed
  <2>2. e \in Execution /\ WellFormed \subseteq Executable
    <3>1. k \in 1..MaxPackets
      BY <1>0, <1>1, HeadOfWire DEF TypeInv
    <3>2. (n = 2 /\ sent[k] # "long") \in BOOLEAN
      BY Zenon
    <3>3. e \in Execution
      BY <3>1, <3>2 DEF Execution
    <3> QED
      BY <3>3 DEF Executable
  <2> HIDE DEF e
  <2>3. CASE sent[k] \in Executable
    <3>1. executed' = Append(executed, e)
      BY <1>4, <2>3, Zenon DEF e
    <3>2. /\ Len(executed') = Len(executed) + 1
          /\ executed'[Len(executed) + 1] = e
          /\ \A i \in 1..Len(executed) : executed'[i] = executed[i]
      BY <1>7, <2>2, <3>1, AppendProperties
    <3>3. \A i \in 1..Len(executed') : i \in 1..Len(executed) \/ i = Len(executed) + 1
      BY <1>7, <3>2
    <3>4. Len(executed) + 1 \in 1..Len(executed') /\ \A i \in 1..Len(executed) : i \in 1..Len(executed')
      BY <1>7, <3>2
    <3>5. sent[k] \in WellFormed => Executed(k)'
      BY <2>1, <3>2, <3>4 DEF Executed
    <3> QED
      BY <2>1, <3>2, <3>3, <3>4, <3>5
  <2>4. CASE sent[k] \notin Executable
    BY <1>4, <2>2, <2>4
  <2> QED
    BY <2>3, <2>4
<1>9. \A j : Executed(j) => Executed(j)'
  BY <1>8 DEF Executed
<1>10. \A j \in 2..k : sent[j] \in WellFormed => Executed(j)'
  <2>1. \A j \in 2..(k - 1) : sent[j] \in WellFormed => Executed(j)
    BY <1>0, <1>1 DEF NothingSkipped, NextPacket, AtAwait
  <2>2. \A j \in 2..k : j \in 2..(k - 1) \/ j = k
    BY <1>5
  <2> QED
    BY <1>8, <1>9, <2>1, <2>2
<1>11. (k + 1) - 1 = k
  BY <1>5
<1>12. ASSUME NEW j \in 2..Len(sent), NEW i \in 1..Len(executed'),
              sent[j] \in WellFormed, executed'[i].of > j
       PROVE  Executed(j)'
  <2>1. CASE i \in 1..Len(executed)
    BY <1>8, <1>9, <1>12, <2>1 DEF NothingSkipped
  <2>2. CASE executed'[i].of = k
    <3>1. j \in 2..k
      BY <1>5, <1>12, <2>2
    <3> QED
      BY <1>10, <1>12, <3>1
  <2> QED
    BY <1>8, <2>1, <2>2
<1> QED
  BY <1>1, <1>5, <1>6, <1>10, <1>11, <1>12 DEF NothingSkipped

\* Reading the answer in step: if it starts the trace, packet 2 is next.
LEMMA RecvFirstBodyInStep ==
    ASSUME TypeInv, OrderInv, ContiguousInv, InStep, AtCell, NothingSkipped, RecvFirstBody
    PROVE  AtCell' /\ NothingSkipped'
<1>1. /\ pc = "first_body" /\ sent' = sent /\ open' = open /\ size' = size /\ executed' = executed
      /\ pc' \in {"size", "returned"}
  BY DEF RecvFirstBody, ReturnClosing
<1>2. \A j \in 2..Len(sent'), i \in 1..Len(executed') :
         sent'[j] \in WellFormed /\ executed'[i].of > j => Executed(j)'
  BY <1>1 DEF NothingSkipped, Executed
<1>3. CASE pc' = "returned"
  BY <1>2, <1>3 DEF AtCell, NothingSkipped, AtAwait
<1>4. CASE pc' = "size"
  <2>1. size > 0 /\ wire # <<>> /\ \E n \in Received(size) : Receive(n)
    BY <1>4 DEF RecvFirstBody, ReturnClosing
  <2>2. size = 2 /\ wire[1] = HeadCell(1) /\ wire[1].is = "head" /\ wire[1].of = 1
    BY <1>1, <2>1, CellsDiffer DEF AtCell
  <2>3. NextPacket' = 1 + 1 /\ (wire' # <<>> => wire'[1].is = "size")
    BY <1>1, <2>1, <2>2, AfterHead DEF OrderInv
  <2>4. \A j \in 2..(NextPacket' - 1) : FALSE
    BY <2>3
  <2> QED
    BY <1>2, <1>4, <2>3, <2>4 DEF AtCell, NothingSkipped
<1> QED
  BY <1>1, <1>3, <1>4

\* A program in step stays where it is in the stream, and skips no event.
LEMMA StepInvStep ==
    TypeInv /\ OrderInv /\ ContiguousInv /\ StepInv /\ [Next]_vars => StepInv'
<1> SUFFICES ASSUME TypeInv, OrderInv, ContiguousInv, StepInv, [Next]_vars, InStep'
             PROVE  AtCell' /\ NothingSkipped'
  BY DEF StepInv
<1>1. InStep /\ ~RecvFails /\ AtCell /\ NothingSkipped
  BY InStepBefore DEF StepInv
<1>2. CASE \E kind \in Kinds : SensorSends(kind)
  BY <1>1, <1>2, SendInStep
<1>3. ASSUME sent' = sent, executed' = executed, pc' = pc, size' = size, ~open',
             wire' = wire \/ wire' = <<>>
      PROVE  AtCell' /\ NothingSkipped'
  <2>1. AtCell'
    BY <1>1, <1>3 DEF AtCell
  <2>2. /\ wire' # <<>> => NextPacket' = NextPacket /\ wire # <<>>
        /\ AtAwait' => AtAwait
    BY <1>3 DEF NextPacket, AtAwait
  <2> QED
    BY <1>1, <1>3, <2>1, <2>2 DEF NothingSkipped, Executed
<1>4. CASE SensorCloses \/ ConnectionBreaks
  BY <1>3, <1>4 DEF SensorCloses, ConnectionBreaks
<1>5. CASE \/ UNCHANGED vars \/ Connect \/ FileUnreadable \/ SendFails \/ SendSize \/ SendBody
           \/ RecvEnds \/ Interrupt
  <2>1. UNCHANGED <<sent, wire, open, executed, size>>
    BY <1>5 DEF vars, sensor, Connect, FileUnreadable, SendFails, SendSize, SendBody, RecvEnds,
                Interrupt
  <2>2. \/ pc' \in {"returned", "exited"} \/ pc' = pc
        \/ /\ pc \in {"connect", "chunk_size", "chunk_body", "first_size"}
           /\ pc' \in {"connect", "chunk_size", "chunk_body", "first_size"}
    BY <1>5 DEF vars, Connect, FileUnreadable, SendFails, SendSize, SendBody, RecvEnds, Interrupt,
                NextChunk, ReturnClosing
  <2> QED
    BY <1>1, <2>1, <2>2, QuietInStep
<1>6. CASE RecvCrashes
  <2>1. /\ sent' = sent /\ executed' = executed /\ pc' = "crashed"
    BY <1>6 DEF RecvCrashes
  <2> QED
    BY <1>1, <2>1 DEF AtCell, NothingSkipped, AtAwait, Executed
<1> QED
  BY <1>1, <1>2, <1>4, <1>5, <1>6, RecvSizeInStep, RecvBodyInStep, RecvFirstBodyInStep
     DEF Next, Program, GetsOn

\* As long as recv returns what it was asked for and no packet is too large, every event
\* sent after the answer is executed with its data, whatever malformed packets, empty
\* packets and answers come between, up to where the connection breaks.
THEOREM DeliveryCorrect == Spec => []NoEventLost
<1>1. Init => ContiguousInv /\ StepInv
  BY DEF Init, ContiguousInv, StepInv, AtCell, NothingSkipped, AtAwait
<1>2. TypeInv /\ OrderInv /\ StepInv => NoEventLost
  <2> SUFFICES ASSUME TypeInv, OrderInv, AtCell, NothingSkipped,
                      NEW k \in 2..Len(sent), sent[k] \in WellFormed, Passed(k)
               PROVE  Executed(k)
    BY DEF StepInv, NoEventLost, Executed
  <2>1. k \in Nat /\ Len(sent) \in Nat
    BY DEF TypeInv, TypeOK
  <2>2. CASE pc = "size" /\ wire = <<>> /\ open
    <3>1. AtAwait /\ k \in 2..(NextPacket - 1)
      BY <2>1, <2>2 DEF AtAwait, NextPacket
    <3> QED
      BY <2>2, <3>1 DEF NothingSkipped
  <2>3. CASE AtAwait /\ wire # <<>> /\ Head(wire).of > k
    <3>1. Head(wire) = wire[1] /\ wire[1].of \in Nat
      BY <2>3, HeadOfWire, PlaceOfCell DEF TypeInv
    <3>2. k \in 2..(NextPacket - 1)
      BY <2>1, <2>3, <3>1 DEF NextPacket
    <3> QED
      BY <2>3, <3>2 DEF NothingSkipped
  <2>4. CASE \E i \in 1..Len(executed) : executed[i].of > k
    BY <2>4 DEF NothingSkipped
  <2> QED
    BY <2>2, <2>3, <2>4 DEF Passed
<1> QED
  BY <1>1, <1>2, OrderInit, OrderStep, ContiguousStep, StepInvStep, TypeInvCorrect, PTL DEF Spec

=============================================================================

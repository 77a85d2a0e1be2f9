--------------------------- MODULE SensorSession ----------------------------
(***************************************************************************)
(* The command line program's session with a sensor (cli/alca.cpp): it     *)
(* submits the file to analyse in chunks, waits for the sensor's answer    *)
(* and then runs the rules on every event packet it receives, until the    *)
(* trace or the connection ends.                                           *)
(*                                                                         *)
(* The connection is a stream of cells: the size that precedes a packet,   *)
(* its header and its data.  recv returns whatever part of the requested   *)
(* cells has arrived, and the program takes it for the whole.  A cell that *)
(* is read in another cell's place has an arbitrary value as a size and no *)
(* valid magic number as a header.  A size or a header arrives in one      *)
(* piece, packets may be cut anywhere else.                                *)
(***************************************************************************)
EXTENDS Naturals, Sequences

CONSTANTS
    MaxChunks,    \* bound: chunks of the file submitted to a remote sensor
    MaxPackets    \* bound: packets the sensor sends

ASSUME SessionAssumption == MaxChunks \in Nat /\ MaxPackets \in Nat

\* What the sensor sends.  start, failed: the answers TRACE_START and
\* SUBMIT_ERROR; end: TRACE_END; tiny: data of less than 8 bytes; foreign: another
\* magic number, or a length of the data above AC_PACKET_MAX_RECV_SIZE; long: an event
\* whose header announces more data than the packet has; empty: size 0; large: a
\* size above AC_PACKET_MAX_RECV_SIZE.
Kinds == {"start", "failed", "event", "end", "tiny", "foreign", "long", "empty", "large"}

\* The data types that await hands to ac_vm_exec, all but TRACE_END, in packets
\* that have the data they announce, and in any.
WellFormed == {"start", "failed", "event"}
Executable == WellFormed \cup {"long"}

TooLarge == 3   \* more than AC_PACKET_MAX_RECV_SIZE
SizeOf(kind) == CASE kind = "empty" -> 0 [] kind = "large" -> TooLarge [] OTHER -> 2

VARIABLES
    mode,       \* "local" or "remote"
    chunks,     \* packets that the submission takes
    whole,      \* recv always returns what was asked for (chosen at the start)
    sent,       \* the kinds of the packets sent by the sensor
    wire,       \* cells of them that have not been received
    open,       \* the sensor has not closed the connection, nor has it broken
    reset,      \* it broke, and every recv fails from then on
    failed,     \* history: a call of recv failed
    pc,         \* where the program is
    chunk,      \* chunk being submitted
    intact,     \* history: chunks of which all bytes were sent
    size,       \* packet_size
    executed,   \* history: events given to ac_vm_exec, and whether complete
    connected,  \* history: conn_connect succeeded
    closes      \* history: calls of conn_close

conn == <<mode, chunks, whole, connected>>
sensor == <<sent, wire, open, reset>>
vars == <<mode, chunks, whole, sent, wire, open, reset, failed, pc, chunk, intact, size,
          executed, connected, closes>>

Cell == [is: {"size", "head", "data"}, of: 1..MaxPackets]
Execution == [of: 1..MaxPackets, complete: BOOLEAN]

Init ==
    /\ mode \in {"local", "remote"}
    /\ chunks \in IF mode = "local" THEN {1} ELSE 0..MaxChunks
    /\ whole \in BOOLEAN
    /\ sent = <<>> /\ wire = <<>> /\ open = TRUE /\ reset = FALSE /\ failed = FALSE
    /\ pc = "connect" /\ chunk = 1 /\ intact = 0 /\ size = 0
    /\ executed = <<>> /\ connected = FALSE /\ closes = 0

-----------------------------------------------------------------------------
(* The sensor and the network *)

CellsOf(kind, k) ==
    <<[is |-> "size", of |-> k]>>
        \o IF kind = "empty" THEN <<>> ELSE <<[is |-> "head", of |-> k], [is |-> "data", of |-> k]>>

AtFirst == pc \in {"first_size", "first_body"}
AtAwait == pc \in {"size", "body"}

SensorSends(kind) ==
    /\ connected /\ open
    /\ Len(sent) < MaxPackets
    /\ sent' = Append(sent, kind)
    /\ wire' = wire \o CellsOf(kind, Len(sent'))
    /\ UNCHANGED <<conn, open, reset, failed, pc, chunk, intact, size, executed, closes>>

SensorCloses ==
    /\ connected /\ open
    /\ open' = FALSE
    /\ UNCHANGED <<conn, sent, wire, reset, failed, pc, chunk, intact, size, executed, closes>>

\* What has not been received is lost.  After that recv returns 0, as on Linux when
\* it has failed once, or fails every time, as on Windows.
ConnectionBreaks ==
    /\ connected /\ open
    /\ open' = FALSE /\ reset' \in BOOLEAN
    /\ wire' = <<>>
    /\ UNCHANGED <<conn, sent, failed, pc, chunk, intact, size, executed, closes>>

-----------------------------------------------------------------------------
(* Submission *)

\* conn_close n times, and run returns.
ReturnClosing(n) == pc' = "returned" /\ closes' = closes + n

NextChunkLate(k) == IF k > chunks + 1 THEN "first_size" ELSE "chunk_size"   \* mutant: <=

NextChunk(k) == IF k > chunks THEN "first_size" ELSE "chunk_size"

Connect ==
    /\ pc = "connect"
    /\ \/ connected' = TRUE /\ pc' = NextChunk(1)
       \/ connected' = FALSE /\ pc' = "returned"
    /\ UNCHANGED <<mode, chunks, whole, sensor, failed, chunk, intact, size, executed, closes>>

\* submit_remote opens the file after it has connected.
FileUnreadable ==
    /\ mode = "remote"
    /\ connected /\ chunk = 1 /\ pc = NextChunk(1)
    /\ ReturnClosing(1)
    /\ UNCHANGED <<conn, sensor, failed, chunk, intact, size, executed>>

SendFailureReturns ==   \* mutant: the socket stays open
    /\ pc \in {"chunk_size", "chunk_body"}
    /\ pc' = "returned"
    /\ UNCHANGED <<conn, sensor, failed, chunk, intact, size, executed, closes>>

\* One of the two sends of a chunk fails.
SendFails ==
    /\ pc \in {"chunk_size", "chunk_body"}
    /\ ReturnClosing(1)
    /\ UNCHANGED <<conn, sensor, failed, chunk, intact, size, executed>>

SendSize ==
    /\ pc = "chunk_size"
    /\ pc' = "chunk_body"
    /\ UNCHANGED <<conn, sensor, failed, chunk, intact, size, executed, closes>>

\* netint on the number of bytes of a packet: the order of its digits is reversed,
\* here four of base 2 instead of four bytes.
Swapped(n) == 8 * (n % 2) + 4 * ((n \div 2) % 2) + 2 * ((n \div 4) % 2) + n \div 8

LargePackets == 1..15   \* mutant: chunks of 64 kB and more

\* BIN_CHUNK and a header: no more than half of the digits.
PacketSizes == 1..3

\* The bytes of packet_size are swapped to announce it, and it is then the length
\* given to send: of a packet of n bytes the sensor gets a part, or all of it and
\* what lies behind it in memory.  Such a length may fail (SendFails).
SendBody ==
    /\ pc = "chunk_body"
    /\ \E n \in PacketSizes : intact' = IF Swapped(n) >= n THEN intact + 1 ELSE intact
    /\ chunk' = chunk + 1
    /\ pc' = NextChunk(chunk + 1)
    /\ UNCHANGED <<conn, sensor, failed, size, executed, closes>>

-----------------------------------------------------------------------------
(* Receiving *)

\* How many of n requested cells recv may return; none while it blocks.
Received(n) ==
    IF Len(wire) >= n THEN IF whole THEN {n} ELSE 1..n
    ELSE IF whole /\ open THEN {} ELSE 1..Len(wire)

\* The values that the next cell may have when it is read as a size.
SizesRead ==
    IF Head(wire).is = "size" THEN {SizeOf(sent[Head(wire).of])} ELSE 0..TooLarge

\* The packet whose header is where the program looks for one.
HasHeader == Head(wire).is = "head"
Kind == sent[Head(wire).of]

Receive(n) == wire' = SubSeq(wire, n + 1, Len(wire))

\* n cells, the first of them a header, have the data that it announces.
Whole(n) == n = 2 /\ Kind # "long"

\* What is read as a header may announce more data than size leaves room for.
ReadsBeyond == ~HasHeader \/ Kind = "long" \/ size = 1

\* recv failed.  run gives up; await starts again with the next size, as often as
\* recv fails.
RecvFails ==
    /\ AtFirst \/ AtAwait
    /\ failed' = TRUE
    /\ IF AtFirst THEN ReturnClosing(1) ELSE pc' = "size" /\ UNCHANGED closes
    /\ UNCHANGED <<conn, sensor, chunk, intact, size, executed>>

EndIsRetried ==   \* mutant: check_recv treats the end as an error
    /\ ~open /\ ~reset /\ wire = <<>>
    /\ \/ AtFirst /\ ReturnClosing(1)
       \/ AtAwait /\ pc' = "size" /\ UNCHANGED closes
    /\ UNCHANGED <<conn, sensor, failed, chunk, intact, size, executed>>

\* recv returned 0: the connection has ended.  await closes the socket and
\* returns to run, which closes it again.
RecvEnds ==
    /\ ~open /\ ~reset /\ wire = <<>>
    /\ \/ AtFirst /\ ReturnClosing(1)
       \/ AtAwait /\ ReturnClosing(2)
    /\ UNCHANGED <<conn, sensor, failed, chunk, intact, size, executed>>

\* run: the size of the answer.
RecvFirstSize ==
    /\ pc = "first_size" /\ wire # <<>>
    /\ Receive(1)
    /\ \E v \in SizesRead :
          IF v >= TooLarge THEN ReturnClosing(1) /\ UNCHANGED size
          ELSE pc' = "first_body" /\ size' = v /\ UNCHANGED closes
    /\ UNCHANGED <<conn, sent, open, reset, failed, chunk, intact, executed>>

\* run: the answer.  Nothing but TRACE_START starts the trace; recv of 0 bytes
\* returns 0, which is taken for the end of the connection.
RecvFirstBody ==
    /\ pc = "first_body"
    /\ \/ size = 0 /\ UNCHANGED wire /\ ReturnClosing(1)
       \/ /\ size > 0 /\ wire # <<>>
          /\ \E n \in Received(size) : Receive(n)
          /\ IF HasHeader /\ Kind = "start" THEN pc' = "size" /\ UNCHANGED closes
             ELSE ReturnClosing(1)
    /\ UNCHANGED <<conn, sent, open, reset, failed, chunk, intact, size, executed>>

\* await: the size of the next packet; 0 and too large a size are passed over.
RecvSize ==
    /\ pc = "size" /\ wire # <<>>
    /\ Receive(1)
    /\ \E v \in SizesRead :
          IF v = 0 \/ v >= TooLarge THEN UNCHANGED <<pc, size>>
          ELSE pc' = "body" /\ size' = v
    /\ UNCHANGED <<conn, sent, open, reset, failed, chunk, intact, executed, closes>>

MalformedReturns ==   \* mutant: a malformed packet ends the loop
    /\ pc = "body" /\ wire # <<>>
    /\ \E n \in Received(size) :
          /\ Receive(n)
          /\ IF HasHeader /\ Kind \in Executable
             THEN /\ executed' = Append(executed, [of |-> Head(wire).of, complete |-> Whole(n)])
                  /\ pc' = "size" /\ UNCHANGED closes
             ELSE ReturnClosing(2) /\ UNCHANGED executed
    /\ UNCHANGED <<conn, sent, open, reset, failed, chunk, intact, size>>

NoEndOfTrace ==   \* mutant: TRACE_END is taken for an event
    /\ pc = "body" /\ wire # <<>>
    /\ \E n \in Received(size) :
          /\ Receive(n)
          /\ IF HasHeader /\ Kind \in Executable \cup {"end"}
             THEN executed' = Append(executed, [of |-> Head(wire).of, complete |-> Whole(n)])
             ELSE UNCHANGED executed
    /\ pc' = "size"
    /\ UNCHANGED <<conn, sent, open, reset, failed, chunk, intact, size, closes>>

MalformedLeavesData ==   \* mutant: the data of a malformed packet stay in the stream
    /\ pc = "body" /\ wire # <<>>
    /\ IF HasHeader /\ Kind \in Executable
       THEN \E n \in Received(size) :
               /\ Receive(n)
               /\ executed' = Append(executed, [of |-> Head(wire).of, complete |-> Whole(n)])
       ELSE Receive(1) /\ UNCHANGED executed
    /\ IF HasHeader /\ Kind = "end" THEN ReturnClosing(2) ELSE pc' = "size" /\ UNCHANGED closes
    /\ UNCHANGED <<conn, sent, open, reset, failed, chunk, intact, size>>

\* await: a packet.  TRACE_END ends the loop, malformed packets are passed
\* over, everything else goes to ac_vm_exec.
RecvBody ==
    /\ pc = "body" /\ wire # <<>>
    /\ \E n \in Received(size) :
          /\ Receive(n)
          /\ IF HasHeader /\ Kind \in Executable
             THEN executed' = Append(executed, [of |-> Head(wire).of, complete |-> Whole(n)])
             ELSE UNCHANGED executed
    /\ IF HasHeader /\ Kind = "end" THEN ReturnClosing(2) ELSE pc' = "size" /\ UNCHANGED closes
    /\ UNCHANGED <<conn, sent, open, reset, failed, chunk, intact, size>>

\* ac_packet_read copies as many bytes as the header says (packet.c:94), those behind
\* the packet too: the data are not the sensor's, or the process dies.
RecvCrashes ==
    /\ pc \in {"first_body", "body"} /\ size > 0 /\ wire # <<>>
    /\ ReadsBeyond
    /\ \E n \in Received(size) : Receive(n)
    /\ pc' = "crashed"
    /\ UNCHANGED <<conn, sent, open, reset, failed, chunk, intact, size, executed, closes>>

\* SIGINT, whose handler is installed before await: the process exits.
Interrupt ==
    /\ AtAwait
    /\ pc' = "exited"
    /\ UNCHANGED <<conn, sensor, failed, chunk, intact, size, executed, closes>>

\* The program gets on: whatever it does but to find that recv failed.
GetsOn ==
    \/ Connect \/ FileUnreadable \/ SendFails \/ SendSize \/ SendBody
    \/ RecvEnds \/ RecvFirstSize \/ RecvFirstBody \/ RecvSize \/ RecvBody \/ RecvCrashes

Program == GetsOn \/ RecvFails

Next ==
    \/ \E kind \in Kinds : SensorSends(kind)
    \/ SensorCloses
    \/ ConnectionBreaks
    \/ Program
    \/ Interrupt

Spec == Init /\ [][Next]_vars

\* The program is a thread that goes on unless recv blocks it, and recv does not
\* fail for ever where it can do anything else.
FairSpec == Spec /\ WF_vars(GetsOn)

-----------------------------------------------------------------------------
TypeOK ==
    /\ mode \in {"local", "remote"} /\ chunks \in 0..(MaxChunks + 1) /\ whole \in BOOLEAN
    /\ sent \in Seq(Kinds) /\ Len(sent) <= MaxPackets
    /\ wire \in Seq(Cell) /\ open \in BOOLEAN /\ reset \in BOOLEAN
    /\ failed \in BOOLEAN
    /\ pc \in {"connect", "chunk_size", "chunk_body", "first_size", "first_body", "size",
               "body", "returned", "exited", "crashed"}
    /\ chunk \in 1..(chunks + 1) /\ intact \in 0..(chunk - 1)
    /\ size \in 0..(TooLarge - 1)
    /\ executed \in Seq(Execution)
    /\ connected \in BOOLEAN /\ closes \in 0..2

\* However the stream is cut, no event runs twice or before an event sent
\* earlier, and nothing runs but a packet that was sent and is no TRACE_END.
ExecutedInOrder ==
    \A i \in 1..Len(executed) :
        /\ sent[executed[i].of] \in Executable
        /\ \A j \in 1..(i - 1) : executed[j].of < executed[i].of

\* The program knows where in the stream the packets begin.
InStep == whole /\ ~failed /\ \A k \in 1..Len(sent) : sent[k] # "large"

\* The packet k has been passed: everything sent has been received, or a later
\* packet is next or has been executed.
Passed(k) ==
    \/ pc = "size" /\ wire = <<>> /\ open
    \/ AtAwait /\ wire # <<>> /\ Head(wire).of > k
    \/ \E i \in 1..Len(executed) : executed[i].of > k

\* While recv returns what is asked for and no packet is too large, malformed
\* packets cost nothing but themselves: every event after the answer is
\* executed, with all its data, unless a malformed one crashed the program.
NoEventLost ==
    InStep => \A k \in 2..Len(sent) : sent[k] \in WellFormed /\ Passed(k) =>
        \E i \in 1..Len(executed) : executed[i] = [of |-> k, complete |-> TRUE]

\* run is left only when the sensor ended the trace or recv told the end of the
\* connection: no garbage and no failed recv, however often, makes it return.
LeavesForAReason ==
    [][AtAwait /\ pc' = "returned" =>
          \/ ~open /\ ~reset
          \/ \E k \in 1..Len(sent) : sent[k] = "end"]_vars

\* The program awaits the sensor's answer only when all bytes of all chunks have
\* been sent.  Each is sent with another number of bytes than it has, which must
\* not be a smaller one.
SubmittedWhole == AtFirst \/ AtAwait => chunk = chunks + 1 /\ intact = chunks

\* Whatever goes wrong, run does not return with the connection open.
ClosedOnReturn == pc = "returned" /\ connected => closes > 0

\* When the connection ends and recv tells it so, the program comes to an end.  A
\* connection that is reset is not among these: await retries for ever.
SessionEnds == ~open /\ ~reset ~> pc \in {"returned", "exited", "crashed"}
=============================================================================

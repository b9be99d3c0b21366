----------------------------- MODULE FrameStream -----------------------------
(***************************************************************************)
(* One direction of a connection (io.rs of oregon-network, frame.rs of     *)
(* oregon-protocol): write_message at one end, read_message at the other   *)
(* and a stream of cells between them, with the deadlines of both.         *)
(*                                                                         *)
(* The n-th message is the frame <<n, 1>>, <<n, 2>>, ... of a header of    *)
(* HeaderCells cells and its payload.  The header's magic, version and     *)
(* type are right exactly when its cells are those of one header in order, *)
(* and the checksum exactly when header and payload are of one frame.      *)
(***************************************************************************)
EXTENDS Integers, SequencesExt

CONSTANTS
  HeaderCells,                          \* FRAME_HEADER_BYTES
  Length,                               \* payload lengths of the messages, in order
  PayloadLimit,                         \* payload_limit
  ReadNoProgress, ReadDeadline, WriteDeadline,
  MaxWire,                              \* cells the stream holds
  MaxErrors                             \* bound: errors on the two ends

VARIABLES
  wire, closed,
  writer,      \* [next: the message to write, left: cells to go, elapsed]
  reader,      \* [on, got: cells received, elapsed, idle]
  delivered,   \* the frames read_message returned
  errors

stream_vars == <<wire, closed, writer, reader, delivered, errors>>

FrameCell(n) == HeaderCells + Length[n]

Frame(n) == [i \in 1..FrameCell(n) |-> <<n, i>>]

NotReading == [on |-> FALSE, got |-> <<>>, elapsed |-> 0, idle |-> 0]

StreamInit ==
  /\ wire = <<>> /\ closed = FALSE
  /\ writer = [next |-> 1, left |-> <<>>, elapsed |-> 0]
  /\ reader = NotReading
  /\ delivered = <<>> /\ errors = 0

-----------------------------------------------------------------------------
(* write_message: build_frame_header refuses a payload over the limit       *)
(* before anything is written.                                              *)
StartWrite ==
  /\ ~closed /\ writer.left = <<>> /\ writer.next \in DOMAIN Length
  /\ writer' = [next |-> writer.next + 1, elapsed |-> 0,
                left |-> IF Length[writer.next] > PayloadLimit THEN <<>>
                         ELSE Frame(writer.next)]
  /\ UNCHANGED <<wire, closed, reader, delivered, errors>>

(* write_all: as much as the stream takes.                                  *)
WriteSome(k) ==
  /\ k <= Len(writer.left) /\ Len(wire) + k <= MaxWire
  /\ wire' = wire \o SubSeq(writer.left, 1, k)
  /\ writer' = [writer EXCEPT !.left = SubSeq(@, k + 1, Len(@))]
  /\ UNCHANGED <<closed, reader, delivered, errors>>

(* The deadline drops what is left of the frame, not what was written.      *)
WriteTimeout ==
  /\ writer.left # <<>> /\ writer.elapsed = WriteDeadline
  /\ errors < MaxErrors
  /\ writer' = [writer EXCEPT !.left = <<>>, !.elapsed = 0]
  /\ errors' = errors + 1
  /\ UNCHANGED <<wire, closed, reader, delivered>>

(* shutdown                                                                 *)
Shutdown ==
  /\ ~closed /\ writer.left = <<>>
  /\ closed' = TRUE
  /\ UNCHANGED <<wire, writer, reader, delivered, errors>>

-----------------------------------------------------------------------------
(* FrameHeader::decode and the magic.                                       *)
header_ok(cells) ==
  \A i \in 1..HeaderCells : cells[i] = <<cells[1][1], i>>


(* verify_frame_payload                                                     *)
frame_ok(cells) == header_ok(cells) /\ cells = Frame(cells[1][1])

(* The cells read_exact_counted waits for: the header, then the payload it  *)
(* declares.                                                                *)
expected(cells) ==
  IF Len(cells) < HeaderCells THEN HeaderCells ELSE FrameCell(cells[1][1])

StartRead ==
  /\ ~reader.on /\ ~(closed /\ wire = <<>>)
  /\ reader' = [NotReading EXCEPT !.on = TRUE]
  /\ UNCHANGED <<wire, closed, writer, delivered, errors>>

(* read_message ends with an error.                                         *)
ReadFails ==
  /\ errors < MaxErrors
  /\ reader' = NotReading
  /\ errors' = errors + 1
  /\ UNCHANGED delivered

(* A read of k cells, and the end of the message if they were the last.     *)
(* Progress resets one timer; the deadline is that of the whole message.    *)
ReadSome(k) ==
  LET got == reader.got \o SubSeq(wire, 1, k)
  IN /\ reader.on /\ k <= Len(wire) /\ Len(got) <= expected(reader.got)
     /\ wire' = SubSeq(wire, k + 1, Len(wire))
     /\ IF Len(got) >= HeaderCells /\ ~header_ok(got)
          THEN ReadFails
        ELSE IF Len(got) < expected(got)
          THEN /\ reader' = [reader EXCEPT !.got = got, !.idle = 0]
               /\ UNCHANGED <<delivered, errors>>
        ELSE IF frame_ok(got)
          THEN /\ delivered' = Append(delivered, got)
               /\ reader' = NotReading
               /\ UNCHANGED errors
        ELSE ReadFails
     /\ UNCHANGED <<closed, writer>>

(* The stream ended within a frame.                                         *)
Truncated ==
  /\ reader.on /\ closed /\ wire = <<>>
  /\ ReadFails
  /\ UNCHANGED <<wire, closed, writer>>

ReadTimeout ==
  /\ reader.on
  /\ reader.elapsed = ReadDeadline \/ reader.idle = ReadNoProgress
  /\ ReadFails
  /\ UNCHANGED <<wire, closed, writer>>

-----------------------------------------------------------------------------
(* A timer that is due fires before time goes on.                           *)
StreamTick ==
  /\ writer.left # <<>> => writer.elapsed < WriteDeadline
  /\ reader.on =>
       reader.elapsed < ReadDeadline /\ reader.idle < ReadNoProgress
  /\ reader.on \/ writer.left # <<>>
  /\ writer' = IF writer.left = <<>> THEN writer
               ELSE [writer EXCEPT !.elapsed = @ + 1]
  /\ reader' = IF ~reader.on THEN reader
               ELSE [reader EXCEPT !.elapsed = @ + 1, !.idle = @ + 1]
  /\ UNCHANGED <<wire, closed, delivered, errors>>

StreamNext ==
  \/ StartWrite \/ WriteTimeout \/ Shutdown
  \/ \E k \in 1..MaxWire : WriteSome(k) \/ ReadSome(k)
  \/ StartRead \/ Truncated \/ ReadTimeout \/ StreamTick

StreamSpec == StreamInit /\ [][StreamNext]_stream_vars

-----------------------------------------------------------------------------
Number(frame) == frame[1][1]


=============================================================================

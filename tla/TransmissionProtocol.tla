------------------------ MODULE TransmissionProtocol ------------------------
(***************************************************************************)
(* The serial line between the master (a PC) and the slave (the board) and *)
(* the library both are linked with, transmission_protocol.c.              *)
(*                                                                         *)
(* Each direction of the line is a sequence of UNITS.  A control frame     *)
(* (frame_t, 12 bytes) is CtlUnits units long and a data frame             *)
(* (data_frame_t, 534 bytes) DataUnits units: the greatest common divisor  *)
(* of the two sizes is 6 bytes, so the real frames are 2 and 89 units.     *)
(* What matters is that a data frame is longer than a control frame and is *)
(* not a whole number of them, so that one missing or one extra frame      *)
(* leaves a reader out of step.                                            *)
(*                                                                         *)
(* CRC-16 is taken to be perfect: a span of the line is accepted as a      *)
(* frame if and only if it is exactly the units of one frame, in order.    *)
(***************************************************************************)
EXTENDS Integers, Sequences, FiniteSets

CONSTANTS
    CtlUnits,    \* length of a control frame on the line
    DataUnits,   \* length of a data frame on the line
    Noise,       \* a unit whose bytes are not the ones that were sent
    Empty,       \* an element of a frame array as calloc left it: data_len is 0
    Hollow,      \* the payload of an intact data frame whose data_len is 0
    MaxLine,     \* bound: units under way in one direction
    FaultKinds,  \* the faults that may happen in this instance
    MaxFaults    \* bound: how many of them happen

\* corrupt*: bytes of a request or a data frame of the master, of a data frame
\*           of the slave, of its answer to RECV or of another answer change;
\* lose*:    bytes are lost;
\* short*:   a read finds only the first bytes of a frame that is arriving;
\* late:     the master gives up although the slave is about to answer;
\* sendTimeout, recvTimeout: the timeout of option -T runs out;
\* reboot:   the board loses power.
AllFaults ==
    {"corruptUp", "corruptData", "corruptRecvReply", "corruptReply",
     "loseUp", "loseDown", "shortUp", "shortDown", "late",
     "sendTimeout", "recvTimeout", "reboot"}

ASSUME LineAssumption ==
    /\ CtlUnits \in Nat \ {0}
    /\ DataUnits \in Nat \ {0}
    /\ CtlUnits < DataUnits
    /\ Hollow # Empty
    /\ MaxLine \in Nat
    /\ MaxFaults \in Nat
    /\ FaultKinds \subseteq AllFaults

VARIABLES
    up,      \* bytes from the master that the slave has not read yet
    down,    \* bytes from the slave that the master has not read yet
    faults   \* faults that have happened so far

lineVars == <<up, down, faults>>

LineInit == up = <<>> /\ down = <<>> /\ faults = 0

-----------------------------------------------------------------------------
(* Frames.                                                                 *)

Types == {"QUERY", "SEND", "RECV"}
Statuses == {"UNRECEIVED", "PROCESSING", "PROCESSED"}

\* n_frame_t is a uint16_t
NFrameMod == 65536

\* frame_t.  The status of a frame that nobody reads is "NONE".
Ctl(address, type, file, n, status) ==
    [kind |-> "ctl", address |-> address, type |-> type, file |-> file,
     n |-> n, status |-> status]

\* data_frame_t, reduced to the identity of its payload
Data(body) == [kind |-> "data", body |-> body]

Size(frame) == IF frame.kind = "ctl" THEN CtlUnits ELSE DataUnits

\* What write_frame and write_data_frame put on the line.
Units(frame) == [i \in 1..Size(frame) |-> <<frame, i>>]

\* Bound: a writer waits while the line is full.
Fits(line, frame) == Len(line) + Size(frame) <= MaxLine

\* One more fault of this kind.
Fault(kind) ==
    /\ kind \in FaultKinds
    /\ faults < MaxFaults
    /\ faults' = faults + 1

-----------------------------------------------------------------------------
(* Reading.                                                                *)

Drop(line, k) == SubSeq(line, k + 1, Len(line))

\* receive_frame: read() returns at most one control frame's worth of what has
\* arrived, and this much is gone from the line whatever becomes of it.
ReadLen(line) == IF Len(line) < CtlUnits THEN Len(line) ELSE CtlUnits

\* receive_frame returns a positive number: the read was not short and its
\* CRC is right.
Intact(line) ==
    /\ Len(line) >= CtlUnits
    /\ line[1] # Noise
    /\ line[1][1].kind = "ctl"
    /\ SubSeq(line, 1, CtlUnits) = Units(line[1][1])

\* The frame an intact read holds.
Head1(line) == line[1][1]

\* A read that came too early and returned only k units of the frame.
ShortRead(line, k) == k \in 1..(ReadLen(line) - 1)

\* receive_data_frames, one pass of the loop over temp[i]: header and CRC of the
\* i-th frame-sized piece of the buffer are right.  The frame's own n_file,
\* n_frame and data_len are not looked at.
Accepted(line, i) ==
    LET from  == (i - 1) * DataUnits
        first == line[from + 1]
    IN  /\ first # Noise
        /\ first[1].kind = "data"
        /\ SubSeq(line, from + 1, from + DataUnits) = Units(first[1])

\* Its payload.
Chunk(line, i) ==
    IF Accepted(line, i) THEN line[(i - 1) * DataUnits + 1][1].body ELSE Empty

\* The element is filled: its data_len is 0, because nothing has come for it or
\* because what came held no data.
Vacant(slot) == slot \in {Empty, Hollow}

\* The read loop ends when the buffer for n frames is full.  An empty buffer
\* (n = 0) still waits in epoll_wait for a first byte that it leaves alone.
BufferFull(line, n) == line # <<>> /\ Len(line) >= n * DataUnits

\* A fill that overwrites frames received earlier (a mutant of Fill).
FillOverwriting(slots, line, n) ==
    [i \in 1..Len(slots) |-> IF i <= n THEN Chunk(line, i) ELSE slots[i]]

\* receive_data_frames: the array after the call.  Data received earlier is
\* kept; a vacant element is taken from its place in the buffer.
Fill(slots, line, n) ==
    [i \in 1..Len(slots) |->
        IF i <= n /\ Vacant(slots[i]) /\ Accepted(line, i)
        THEN Chunk(line, i) ELSE slots[i]]

\* A count that begins with the second frame (a mutant of Missing).
MissingButFirst(slots, line, n) ==
    Cardinality({i \in 2..n : Vacant(slots[i]) /\ ~Accepted(line, i)})

\* receive_data_frames: the number it returns.  What counts is that an intact
\* piece has come, not that there is data in it.
Missing(slots, line, n) ==
    Cardinality({i \in 1..n : Vacant(slots[i]) /\ ~Accepted(line, i)})

\* An array that is one frame short (a mutant of Calloc).
CallocShort(n) == [i \in 1..(n - 1) |-> Empty]

\* calloc(n, sizeof(data_frame_t))
Calloc(n) == [i \in 1..n |-> Empty]

-----------------------------------------------------------------------------
(* What the line does by itself.                                           *)

\* Bytes are changed on the way (a parity error is read as \0).
CorruptUp ==
    /\ Fault("corruptUp")
    /\ \E i \in 1..Len(up) : up' = [up EXCEPT ![i] = Noise]
    /\ UNCHANGED down

CorruptDown ==
    /\ \E i \in 1..Len(down) :
          /\ down[i] # Noise
          /\ Fault(LET frame == down[i][1]
                   IN  IF frame.kind = "data" THEN "corruptData"
                       ELSE IF frame.type = "RECV" THEN "corruptRecvReply"
                       ELSE "corruptReply")
          /\ down' = [down EXCEPT ![i] = Noise]
    /\ UNCHANGED up

\* Bytes are lost (an overrun of a receive buffer).
LoseAt(line, i) == SubSeq(line, 1, i - 1) \o SubSeq(line, i + 1, Len(line))

LoseUp ==
    /\ Fault("loseUp")
    /\ \E i \in 1..Len(up) : up' = LoseAt(up, i)
    /\ UNCHANGED down

LoseDown ==
    /\ Fault("loseDown")
    /\ \E i \in 1..Len(down) : down' = LoseAt(down, i)
    /\ UNCHANGED up

LineStep == CorruptUp \/ CorruptDown \/ LoseUp \/ LoseDown
=============================================================================

------------------------------- MODULE Framing -------------------------------
(***************************************************************************)
(* Data in frames (transmission_protocol.c): a bit stream is cut into      *)
(* frames by data_to_data_frames, and data_frames_to_data puts the data    *)
(* together again.                                                         *)
(***************************************************************************)
EXTENDS Naturals, Sequences

CONSTANTS
    FrameLen,   \* TP_FRAME_DATA_LEN_MAX: 512
    NFrameMod   \* n_frame_t is a uint16_t: 65536

ASSUME FramingAssumption ==
    /\ FrameLen \in Nat \ {0}
    /\ NFrameMod \in Nat \ {0}

\* A frame too many for data that fills its frames (a mutant of FramesFor).
FramesTooMany(len) == len \div FrameLen + 1

\* The number of frames that so many bytes need, a size_t
FramesFor(len) == IF len = 0 THEN 0 ELSE (len - 1) \div FrameLen + 1

\* What an n_frame_t keeps of it: for so many frames there is memory, so many are
\* announced and so many are sent.
NFrame(len) == FramesFor(len) % NFrameMod

\* The data need more frames than an n_frame_t counts.
Outgrown(len) == FramesFor(len) >= NFrameMod

\* The remainder, which is 0 for a last frame that is full (a mutant of LastLen).
LastLenModulo(len) == len % FrameLen

\* The data that are left for the last frame
LastLen(len) == len - (FramesFor(len) - 1) * FrameLen

\* alloc_data_frames and data_to_data_frames, for data that is not empty: the last
\* frame is filled with zeros.  For data that is outgrown data_to_data_frames goes on
\* writing behind the array, which is undefined; what is sent are the frames in it.
DataToDataFrames(bytes) ==
    LET At(i, j) == (i - 1) * FrameLen + j
    IN  [i \in 1..NFrame(Len(bytes)) |->
            [data |-> [j \in 1..FrameLen |->
                          IF At(i, j) <= Len(bytes) THEN bytes[At(i, j)] ELSE 0],
             data_len |-> IF i < FramesFor(Len(bytes)) THEN FrameLen ELSE LastLen(Len(bytes))]]

\* data_frames_to_data: the first data_len bytes of every frame, one after the other
DataFramesToData(frames) ==
    LET upTo[n \in 0..Len(frames)] ==
            IF n = 0 THEN <<>>
            ELSE upTo[n - 1] \o SubSeq(frames[n].data, 1, frames[n].data_len)
    IN  upTo[Len(frames)]
=============================================================================

----------------------------- MODULE FileFraming -----------------------------
(***************************************************************************)
(* fd_to_data_frames (transmission_protocol.c): a file is read into an     *)
(* array of frames that nobody has initialized.  The array has as many     *)
(* frames as an n_frame_t says; what is behind them is not read.           *)
(***************************************************************************)
EXTENDS Framing

CONSTANTS
    MaxFileLen   \* bound: the length of a file

VARIABLES
    content,     \* the content of the file: byte k is k
    dataFrames,  \* data_frames
    turn,        \* i, the counter of the loop, from 1
    lastRead,    \* size: what the last read has returned
    filePc

fileVars == <<content, dataFrames, turn, lastRead, filePc>>

Unset == 0
NewFrame == [data |-> [j \in 1..FrameLen |-> Unset], data_len |-> Unset]

FileInit ==
    /\ \E len \in 0..MaxFileLen : content = [k \in 1..len |-> k]
    /\ dataFrames = [f \in 1..NFrame(Len(content)) |-> NewFrame]
    /\ turn = 1
    /\ lastRead = Unset
    /\ filePc = "read"

\* A turn of the loop
ReadFrame ==
    /\ filePc = "read"
    /\ turn <= Len(dataFrames)
    /\ LET rest == SubSeq(content, (turn - 1) * FrameLen + 1, Len(content))
           n == IF Len(rest) < FrameLen THEN Len(rest) ELSE FrameLen
       IN  /\ lastRead' = n
           /\ dataFrames' = [dataFrames EXCEPT ![turn] =
                 [data |-> [j \in 1..FrameLen |-> IF j <= n THEN rest[j] ELSE @.data[j]],
                  data_len |-> n]]
    /\ turn' = turn + 1
    /\ UNCHANGED <<content, filePc>>

\* The rest of a frame is cleared behind the loop, whose counter hides the i that is
\* used here: it is the first frame.  Without any frame this writes outside the array.
ClearRest ==
    /\ filePc = "read"
    /\ turn > Len(dataFrames)
    /\ IF dataFrames = <<>>
       THEN filePc' = "overrun" /\ UNCHANGED dataFrames
       ELSE /\ filePc' = "done"
            /\ dataFrames' = [dataFrames EXCEPT ![1].data =
                             [j \in 1..FrameLen |-> IF j <= lastRead THEN @[j] ELSE 0]]
    /\ UNCHANGED <<content, turn, lastRead>>

FileNext == ReadFrame \/ ClearRest

FileSpec == FileInit /\ [][FileNext]_fileVars

-----------------------------------------------------------------------------
\* A frame holds the bytes of the file, and zeros behind them ("前 n2 个字节为有效
\* 压缩数据，有效数据不足 512 字节的补零", serial-transmission-protocol.md): put
\* together, the frames give the file.
FileTravels == filePc = "done" => DataFramesToData(dataFrames) = content

\* What the code does of it: a file travels if an n_frame_t can count its frames, and
\* if it fits in one frame or fills its last, so that the wrong frame that is cleared
\* is the right one or nothing is.
FileTravelsWhenFull ==
    filePc = "done" =>
        (FileTravels <=> /\ ~Outgrown(Len(content))
                         /\ Len(content) <= FrameLen \/ Len(content) % FrameLen = 0)
=============================================================================

-------------------------------- MODULE Slave --------------------------------
(***************************************************************************)
(* The slave application, main.c: one thread that reads a request, answers *)
(* it, and for SEND and RECV goes on to receive or to send the data frames.*)
(*                                                                         *)
(* A handler is cut into actions only where it blocks: in                  *)
(* receive_data_frames ("data"), in process_data_frames ("process") and    *)
(* between the data frames it sends ("send").                              *)
(***************************************************************************)
EXTENDS TransmissionProtocol

CONSTANTS
    FileMax,     \* PICTURES_NUMBER_MAX
    DryRun,      \* option -d: the picture itself is the bit stream
    EncFrames    \* frames of an encoded picture when DryRun is FALSE

ASSUME SlaveAssumption ==
    /\ FileMax \in Nat
    /\ DryRun \in BOOLEAN
    /\ EncFrames \in 1..(NFrameMod - 1)

File == 0..(FileMax - 1)

VARIABLES
    sPc,     \* where the slave is blocked
    sReq,    \* input_frame: the request being handled
    infos,   \* data_frame_infos
    bits,    \* bit_streams: the frames the stream was made of, <<>> if len is 0
    sNext    \* the data frame the slave sends next

slaveVars == <<sPc, sReq, infos, bits, sNext>>

NoRequest == Ctl("master", "NONE", 0, 0, "NONE")

\* data_frame_infos is zero at the start: addr is NULL
NoInfo == [alloc |-> FALSE, addr |-> <<>>, len |-> 0, total |-> 0]

SlaveInit ==
    /\ sPc = "wait"
    /\ sReq = NoRequest
    /\ infos = [f \in File |-> NoInfo]
    /\ bits = [f \in File |-> <<>>]
    /\ sNext = 0

-----------------------------------------------------------------------------
(* get_status                                                              *)

\* The tests in the other order (a mutant of GetStatus).
GetStatusReceivedFirst(f) ==
    IF /\ f \in File
       /\ infos[f].total # 0
       /\ infos[f].len = infos[f].total THEN "PROCESSING"
    ELSE IF f \in File /\ bits[f] # <<>> THEN "PROCESSED"
    ELSE "UNRECEIVED"

\* No test for an empty picture (a mutant of GetStatus).
GetStatusEmptyToo(f) ==
    IF f \in File /\ bits[f] # <<>> THEN "PROCESSED"
    ELSE IF f \in File /\ infos[f].alloc /\ infos[f].len = infos[f].total
         THEN "PROCESSING"
    ELSE "UNRECEIVED"

GetStatus(f) ==
    IF f \in File /\ bits[f] # <<>> THEN "PROCESSED"
    ELSE IF /\ f \in File
            /\ infos[f].total # 0
            /\ infos[f].len = infos[f].total THEN "PROCESSING"
    ELSE "UNRECEIVED"

\* Frames of a bit stream: (len - 1) / TP_FRAME_DATA_LEN_MAX + 1.
BitFrames(b) ==
    IF b = <<>> THEN 0
    ELSE IF DryRun THEN Cardinality({i \in 1..Len(b) : b[i] # Hollow})
    ELSE EncFrames

-----------------------------------------------------------------------------
(* The receive loop and the requests.                                      *)

\* send_frame: the frame is written, or (option -T) the line stays unwritable
\* for too long and nothing is.
Replied(frame) ==
    /\ Fits(down, frame)
    /\ down' = down \o Units(frame)
    /\ UNCHANGED faults

ReplyTimedOut == Fault("sendTimeout") /\ UNCHANGED down

\* The loop begins again; it clears input_frame first.
BackToWait == sPc' = "wait" /\ sReq' = NoRequest

\* receive_frame gave nothing usable, or another slave's frame: wait again.
SlaveDiscard ==
    /\ sPc = "wait"
    /\ up # <<>>
    /\ \/ /\ Intact(up) => Head1(up).address # "master"
          /\ up' = Drop(up, ReadLen(up))
          /\ UNCHANGED faults
       \/ /\ Fault("shortUp")
          /\ \E k \in 1..CtlUnits : ShortRead(up, k) /\ up' = Drop(up, k)
    /\ UNCHANGED <<down, slaveVars>>

\* A frame from the master has been read.
FromMaster ==
    /\ sPc = "wait"
    /\ Intact(up)
    /\ Head1(up).address = "master"
    /\ up' = Drop(up, CtlUnits)

Requested(type) == FromMaster /\ Head1(up).type = type

\* case TP_FRAME_TYPE_QUERY
SlaveQuery ==
    /\ Requested("QUERY")
    /\ LET f == Head1(up).file
           n == IF f \in File THEN infos[f].len ELSE 0
       IN  \/ Replied(Ctl("slave", "QUERY", f, n, GetStatus(f)))
           \/ ReplyTimedOut
    /\ UNCHANGED slaveVars

\* case TP_FRAME_TYPE_SEND, n_file out of range: no answer
SlaveRefuseSend ==
    /\ Requested("SEND")
    /\ Head1(up).file \notin File
    /\ UNCHANGED <<down, faults, slaveVars>>

\* default
SlaveUnknown ==
    /\ FromMaster
    /\ Head1(up).type \notin Types
    /\ UNCHANGED <<down, faults, slaveVars>>

\* The picture's buffer when a SEND of n frames begins.  It is allocated once;
\* a processed picture gets a new one.
BufferFor(f, n) ==
    IF infos[f].alloc /\ bits[f] = <<>> THEN infos[f].addr ELSE Calloc(n)

\* case TP_FRAME_TYPE_SEND up to receive_data_frames
SlaveSend ==
    /\ Requested("SEND")
    /\ LET r == Head1(up)
           f == r.file
       IN  /\ f \in File
           /\ \/ /\ Replied(Ctl("slave", "SEND", f, r.n, "NONE"))
                 /\ infos' = [infos EXCEPT ![f].alloc = TRUE,
                                           ![f].addr = BufferFor(f, r.n),
                                           ![f].total = r.n]
                 /\ sReq' = r
                 /\ sPc' = "data"
                 /\ UNCHANGED <<bits, sNext>>
              \/ ReplyTimedOut /\ UNCHANGED slaveVars

\* len counts the missing frames (a mutant of ReceivedLen).
CountsMissing(total, sum) == sum

\* len takes every frame for received (a mutant of ReceivedLen).
CountsTotal(total, sum) == total

\* len = total_len - sum, an n_frame_t
ReceivedLen(total, sum) == (total - sum) % NFrameMod

\* receive_data_frames returned: len = total_len - sum, and the picture is
\* processed if no frame is missing.  A buffer that an earlier, smaller SEND
\* allocated is overrun: what follows is undefined and not modelled further.
SlaveReceiveData ==
    /\ sPc = "data"
    /\ BufferFull(up, sReq.n)
    /\ up' = Drop(up, sReq.n * DataUnits)
    /\ LET f     == sReq.file
           slots == Fill(infos[f].addr, up, sReq.n)
           sum   == Missing(infos[f].addr, up, sReq.n)
       IN  IF sReq.n > Len(infos[f].addr)
           THEN sPc' = "overrun" /\ UNCHANGED <<sReq, infos>>
           ELSE /\ infos' = [infos EXCEPT ![f].addr = slots,
                        ![f].len = ReceivedLen(infos[f].total, sum)]
                /\ IF sum = 0 THEN sPc' = "process" /\ UNCHANGED sReq
                              ELSE BackToWait
    /\ UNCHANGED <<down, faults, bits, sNext>>

\* receive_data_frames ran into the timeout (option -T) before the first byte:
\* it returns -1, which is 65535 as an n_frame_t.
SlaveDataTimeout ==
    /\ sPc = "data"
    /\ up = <<>>
    /\ Fault("recvTimeout")
    /\ infos' = [infos EXCEPT ![sReq.file].len =
            ReceivedLen(infos[sReq.file].total, NFrameMod - 1)]
    /\ BackToWait
    /\ UNCHANGED <<up, down, bits, sNext>>

\* data_frames_to_data: the content of the first n frames, in order, which is
\* of length 0 if no frame holds data.
FramesToData(frames, n) ==
    IF \A i \in 1..n : Vacant(frames[i]) THEN <<>> ELSE SubSeq(frames, 1, n)

Picture == FramesToData(infos[sReq.file].addr, sReq.n)

\* process_data_frames or process_data_frames_dry_run: the stream is made of the
\* frames received.  For no data at all there is no memory of size 0 to map, so
\* pl_write fails and the program exits.
SlaveProcess ==
    /\ sPc = "process"
    /\ IF DryRun \/ Picture # <<>>
       THEN bits' = [bits EXCEPT ![sReq.file] = Picture] /\ BackToWait
       ELSE sPc' = "exited" /\ UNCHANGED <<sReq, bits>>
    /\ UNCHANGED <<lineVars, infos, sNext>>

\* case TP_FRAME_TYPE_RECV, nothing to send
SlaveRefuseRecv ==
    /\ Requested("RECV")
    /\ Head1(up).file \in File => bits[Head1(up).file] = <<>>
    /\ UNCHANGED <<down, faults, slaveVars>>

\* case TP_FRAME_TYPE_RECV up to the first data frame.  A reply that timed out
\* is -1, which is not zero: the data frames are sent all the same.
SlaveRecv ==
    /\ Requested("RECV")
    /\ LET r == Head1(up)
           f == r.file
       IN  /\ f \in File
           /\ bits[f] # <<>>
           /\ \/ Replied(Ctl("slave", "RECV", f, BitFrames(bits[f]), "NONE"))
              \/ ReplyTimedOut
           /\ sReq' = r
    /\ sNext' = 1
    /\ sPc' = "send"
    /\ UNCHANGED <<infos, bits>>

\* The loop ends one frame early (a mutant of LastFrame).
LastButOneFrame(b) == sNext >= BitFrames(b) - 1

LastFrame(b) == sNext >= BitFrames(b)

\* data_to_data_frames: frame i of a stream, with its part of the stream.
StreamFrame(stream, i) == Data(<<stream, i>>)

\* One turn of the loop that sends the stream; a frame whose send times out is
\* skipped.
SlaveSendFrame ==
    /\ sPc = "send"
    /\ LET b == bits[sReq.file]
       IN  /\ Replied(StreamFrame(b, sNext)) \/ ReplyTimedOut
           /\ IF LastFrame(b)
              THEN sNext' = 0 /\ BackToWait
              ELSE sNext' = sNext + 1 /\ UNCHANGED <<sPc, sReq>>
    /\ UNCHANGED <<up, infos, bits>>

SlaveStep ==
    \/ SlaveDiscard \/ SlaveQuery
    \/ SlaveRefuseSend \/ SlaveSend \/ SlaveReceiveData \/ SlaveDataTimeout
    \/ SlaveProcess
    \/ SlaveRefuseRecv \/ SlaveRecv \/ SlaveSendFrame
    \/ SlaveUnknown

\* The board loses power: nothing is kept, nothing unread survives.
SlaveReboot ==
    /\ Fault("reboot")
    /\ up' = <<>>
    /\ BackToWait
    /\ infos' = [f \in File |-> NoInfo]
    /\ bits' = [f \in File |-> <<>>]
    /\ sNext' = 0
    /\ UNCHANGED down

-----------------------------------------------------------------------------
(* What the slave promises whatever its master sends.                      *)

\* The slave answers a query only between two requests, when a picture that is
\* complete (get_status: len == total_len) has been processed too: an answer
\* says PROCESSING only of a picture all of whose frames came without data, to
\* which a dry run gives a bit stream of length 0.
NeverReportsProcessing ==
    sPc = "wait" =>
        \A f \in File : GetStatus(f) = "PROCESSING" =>
            \A i \in 1..infos[f].total : infos[f].addr[i] = Hollow

\* A bit stream is only ever made of frames that were received, with data or
\* without: never of a zeroed element of the buffer, although SEND requests may
\* change n_frame between the passes that fill it.
ProcessedIsComplete ==
    \A f \in File : \A i \in 1..Len(bits[f]) : bits[f][i] # Empty

\* A frame that was accepted stays in its place until the picture has been
\* processed (receive_data_frames skips slots whose data_len is not 0); one
\* without data may give way to another that is accepted, never to nothing.
AcceptedFramesStay ==
    [][\A f \in File : bits[f] = <<>> =>
          \A i \in 1..Len(infos[f].addr) :
              LET slot == infos[f].addr[i]
              IN  /\ ~Vacant(slot) => infos'[f].addr[i] = slot
                  /\ slot = Hollow => infos'[f].addr[i] # Empty]_slaveVars
=============================================================================

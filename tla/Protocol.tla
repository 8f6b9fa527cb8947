------------------------------ MODULE Protocol ------------------------------
(***************************************************************************)
(* Master, slave and the line between them.                                *)
(*                                                                         *)
(* Time: LOOP_PERIOD (1 s) and TIMEOUT (600 s) are long against the line   *)
(* and against the slave's answers, so a timer of the master normally runs *)
(* out only when the slave has nothing left to do (Quiet).  The exceptions *)
(* are the encoding of a picture and the sleep(5) before a bit stream is   *)
(* sent: the master may then ask again although an answer will come.       *)
(***************************************************************************)
EXTENDS Slave, Master

vars == <<lineVars, slaveVars, masterVars>>

\* The slave waits for input that is not there, or does nothing any more.
Quiet ==
    \/ sPc = "wait" /\ up = <<>>
    \/ sPc = "data" /\ ~BufferFull(up, sReq.n)
    \/ sPc = "exited"

Init == LineInit /\ SlaveInit /\ MasterInit

\* The slave is busy for longer than LOOP_PERIOD.
Slow == \/ sPc = "process" /\ ~DryRun
        \/ sPc = "send" /\ sNext = 1

RequestTimeout ==
    /\ MasterTimeout
    /\ \/ Quiet /\ UNCHANGED faults
       \/ Slow /\ Fault("late")

DataTimeout == MasterDataTimeout /\ Quiet

MasterActs ==
    /\ MasterStep \/ RequestTimeout \/ DataTimeout
    /\ UNCHANGED slaveVars

SlaveActs == SlaveStep /\ UNCHANGED masterVars

Disturb ==
    \/ LineStep /\ UNCHANGED <<slaveVars, masterVars>>
    \/ SlaveReboot /\ UNCHANGED masterVars
    \/ MasterRestart /\ UNCHANGED slaveVars

\* The last session is over.
Finished ==
    /\ mPhase = "done"
    /\ session = Len(Sessions)
    /\ UNCHANGED vars

Next == MasterActs \/ SlaveActs \/ Disturb \/ Finished

\* The master reads the rest of a frame that it began to read before.
MasterReadsRest ==
    /\ MasterMismatch
    /\ Len(down) < CtlUnits
    /\ UNCHANGED slaveVars

\* Both programs run on; the faults happen or not.  Bytes that are already
\* there when the master sends a request are read at once, long before the
\* answer can have come: an answer does not overtake this read for ever.
Fairness ==
    /\ WF_vars(MasterActs)
    /\ WF_vars(SlaveActs)
    /\ SF_vars(MasterReadsRest)

Spec == Init /\ [][Next]_vars /\ Fairness

-----------------------------------------------------------------------------
(* Types.                                                                  *)

CtlFrame(address, counts) ==
    [kind : {"ctl"}, address : {address}, type : Types, file : Nat,
     n : counts, status : Statuses \cup {"NONE"}]
DataFrame(bodies) == [kind : {"data"}, body : bodies]

\* frames of a picture, and frames of a bit stream made from a picture
PictureBody == Pictures \X Nat
Slots(bodies) == Seq(bodies \cup {Empty})
StreamBody == Slots(PictureBody) \X Nat

\* n_frame_t
NFrame == 0..(NFrameMod - 1)

MasterFrame == CtlFrame("master", NFrame) \cup DataFrame(PictureBody)
SlaveFrame == CtlFrame("slave", Nat) \cup DataFrame(StreamBody)

\* A unit that has been changed is no unit of the frame that was sent.
ASSUME NoiseAssumption == Noise \notin SlaveFrame \X Nat

\* Neither program sends a data frame without data (data_to_data_frames).
ASSUME DataAssumption == {Empty, Hollow} \cap (PictureBody \cup StreamBody) = {}

Line(frames) == Seq((frames \X Nat) \cup {Noise})

LineTypeOK ==
    /\ up \in Line(MasterFrame)
    /\ down \in Line(SlaveFrame)
    /\ faults \in 0..MaxFaults

SlaveTypeOK ==
    /\ sPc \in {"wait", "data", "process", "send", "overrun", "exited"}
    /\ sReq \in CtlFrame("master", NFrame) \cup {NoRequest}
    /\ infos \in [File -> [alloc : BOOLEAN, addr : Slots(PictureBody),
                           len : NFrame, total : NFrame]]
    /\ bits \in [File -> Slots(PictureBody)]
    /\ sNext \in Nat

MasterTypeOK ==
    /\ session \in 1..Len(Sessions)
    /\ mPhase \in RequestPhases
                    \cup {"open", "upload", "download", "done", "overrun"}
    /\ mAsked \in BOOLEAN
    /\ mFile \in 1..Len(Files)
    /\ nFiles \in [1..Len(Files) -> Nat]
    /\ mCount \in NFrame
    /\ mNext \in Nat
    /\ mGot \in Nat
    /\ mSlots \in Slots(StreamBody)
    /\ saved \in [1..Len(Files) -> Slots(StreamBody)]

\* Every variable holds a value of its type.  In particular only frames of the
\* master travel up and only frames of the slave travel down, and the master's
\* file index stays inside argv.
TypeOK == LineTypeOK /\ SlaveTypeOK /\ MasterTypeOK

-----------------------------------------------------------------------------
(* Properties.                                                             *)

\* The frames of a picture, in order, and of the k-th one.
FramesOf(p) == [i \in 1..FrameCount[p] |-> <<p, i>>]
Whole(k) == FramesOf(Files[k])

\* A picture is received successfully when len == total_len (main.h): its
\* buffer then holds all frames of that picture, each in its own place.  It
\* must hold although a slot accepts any intact frame, and although requests
\* that the slave takes for data push frames out of their places.
ReceivedSuccessfully ==
    \A f \in File :
        /\ infos[f].total > 0
        /\ infos[f].len = infos[f].total
        /\ ~(sPc = "data" /\ sReq.file = f)
        => SubSeq(infos[f].addr, 1, infos[f].total) = Whole(f + 1)

\* What the master saves for a picture is the whole bit stream of this very
\* picture (master.c, "%s has been encoded to %s").
SavedIsRight ==
    \A k \in 1..Len(Files) :
        saved[k] # <<>> =>
            saved[k] = [i \in 1..BitFrames(Whole(k)) |-> <<Whole(k), i>>]

\* No array of frames is written past its end.
NoOverrun == sPc # "overrun" /\ mPhase # "overrun"

\* Master and slave never wait for each other: the master in read(), which no
\* timer ends once a first byte has come, the slave for a request.
NoMutualWait ==
    ~ /\ mPhase = "download"
      /\ down # <<>>
      /\ ~BufferFull(down, mGot)
      /\ Quiet

\* The master's last run ends.
MasterEnds == <>[](mPhase = "done")

\* What the slave tells about a picture that is not complete is the number of
\* frames it has (serial-transmission-protocol.md, table 6-1).
ReportsReceivedFrames ==
    sPc = "wait" =>
        \A f \in File :
            infos[f].len = Cardinality({i \in 1..Len(infos[f].addr) :
                                           infos[f].addr[i] # Empty})

\* An empty file stays unreceived for ever (main.c, get_status), however often
\* the master uploads its no frames.
EmptyStaysUnreceived ==
    \A k \in 1..Len(Files) :
        Files[k] \in Pictures /\ FrameCount[Files[k]] = 0 =>
            GetStatus(k - 1) = "UNRECEIVED"
=============================================================================

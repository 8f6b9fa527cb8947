------------------------------- MODULE Master -------------------------------
(***************************************************************************)
(* The master application, master.c.  Every run of the program (a session) *)
(* uploads its pictures one after the other and then downloads their bit   *)
(* streams.                                                                *)
(*                                                                         *)
(* mPhase is the place in main(): "open" (get_data_frames), the requests   *)
(* "check", "offer" and "confirm" of the upload and "poll" and "fetch" of  *)
(* the download, the data loops "upload" and "download", and "done".       *)
(* mAsked tells the two halves of send_and_receive_frame apart.            *)
(***************************************************************************)
EXTENDS TransmissionProtocol

CONSTANTS
    Pictures,     \* the pictures there are
    Sessions,     \* for every run of the program, its pictures (argv)
    FrameCount,   \* frames of each picture
    Unreadable,   \* a file name that cannot be opened
    Garbage       \* what an element of n_files nobody wrote may hold

ASSUME MasterAssumption ==
    /\ Sessions \in Seq(Seq(Pictures \cup {Unreadable}) \ {<<>>}) \ {<<>>}
    /\ FrameCount \in [Pictures -> 0..(NFrameMod - 1)]
    /\ Garbage \subseteq Nat

VARIABLES
    session,  \* which run of the program this is
    mPhase,   \* the place in main()
    mAsked,   \* a request has been sent and its answer is awaited
    mFile,    \* k + 1
    nFiles,   \* n_files
    mCount,   \* output_frame.n_frame
    mNext,    \* the data frame the master sends next
    mGot,     \* input_frame.n_frame: frames the slave is about to send
    mSlots,   \* input_data_frames
    saved     \* the files written: out_dir/<n_file>.bin

masterVars == <<session, mPhase, mAsked, mFile, nFiles, mCount, mNext, mGot,
                mSlots, saved>>

Files == Sessions[session]

RequestPhases == {"check", "offer", "confirm", "poll", "fetch"}

RequestType ==
    CASE mPhase \in {"check", "confirm", "poll"} -> "QUERY"
      [] mPhase = "offer" -> "SEND"
      [] mPhase = "fetch" -> "RECV"

Request == Ctl("master", RequestType, nFiles[mFile], mCount, "NONE")

MasterInit ==
    /\ session = 1
    /\ mPhase = "open"
    /\ mAsked = FALSE
    /\ mFile = 1
    /\ nFiles = [k \in 1..Len(Files) |-> 0]
    /\ mCount = 0
    /\ mNext = 0
    /\ mGot = 0
    /\ mSlots = <<>>
    /\ saved = [k \in 1..Len(Files) |-> <<>>]

-----------------------------------------------------------------------------
(* main(), the loop "send data"                                            *)

\* One picture too many (a mutant of GoToFile).
GoToFileTooFar(k, phase, after) ==
    IF k <= Len(Files) + 1
    THEN mFile' = k /\ mPhase' = phase
    ELSE mFile' = 1 /\ mPhase' = after

\* The head of either loop: the next picture, or the next part of main().
GoToFile(k, phase, after) ==
    IF k <= Len(Files)
    THEN mFile' = k /\ mPhase' = phase
    ELSE mFile' = 1 /\ mPhase' = after

\* Only the first picture is uploaded (a mutant of NextUpload).
UploadOnlyOne == mFile' = 1 /\ mPhase' = "poll"

NextUpload == GoToFile(mFile + 1, "open", "poll")

\* get_data_frames.  A file that cannot be opened is skipped; n_files[k] then
\* keeps what malloc found there.
MasterOpen ==
    /\ mPhase = "open"
    /\ LET p == Files[mFile]
       IN  IF p = Unreadable
           THEN /\ \E g \in Garbage : nFiles' = [nFiles EXCEPT ![mFile] = g]
                /\ NextUpload
                /\ UNCHANGED mCount
           ELSE /\ nFiles' = [nFiles EXCEPT ![mFile] = mFile - 1]
                /\ mCount' = FrameCount[p]
                /\ mPhase' = "check"
                /\ UNCHANGED mFile
    /\ UNCHANGED <<lineVars, session, mAsked, mNext, mGot, mSlots, saved>>

-----------------------------------------------------------------------------
(* send_and_receive_frame                                                  *)

\* send_frame; when it times out (option -T) the loop begins again.
MasterSend ==
    /\ mPhase \in RequestPhases
    /\ ~mAsked
    /\ \/ /\ Fits(up, Request)
          /\ up' = up \o Units(Request)
          /\ mAsked' = TRUE
          /\ UNCHANGED faults
       \/ Fault("sendTimeout") /\ UNCHANGED <<up, mAsked>>
    /\ UNCHANGED <<down, session, mPhase, mFile, nFiles, mCount, mNext, mGot,
                   mSlots, saved>>

\* The frame read answers the request: address, type and file are right.
Answers(frame) ==
    /\ frame.address = "slave"
    /\ frame.type = RequestType
    /\ frame.file = nFiles[mFile]

Awaiting == mPhase \in RequestPhases /\ mAsked

\* Anything else is dropped and the request is sent again.
MasterMismatch ==
    /\ Awaiting
    /\ down # <<>>
    /\ \/ /\ Intact(down) => ~Answers(Head1(down))
          /\ down' = Drop(down, ReadLen(down))
          /\ UNCHANGED faults
       \/ /\ Fault("shortDown")
          /\ \E k \in 1..CtlUnits : ShortRead(down, k) /\ down' = Drop(down, k)
    /\ mAsked' = FALSE
    /\ UNCHANGED <<up, session, mPhase, mFile, nFiles, mCount, mNext, mGot,
                   mSlots, saved>>

\* Nothing arrived for LOOP_PERIOD.
MasterTimeout ==
    /\ Awaiting
    /\ down = <<>>
    /\ mAsked' = FALSE
    /\ UNCHANGED <<up, down, session, mPhase, mFile, nFiles, mCount, mNext,
                   mGot, mSlots, saved>>

Answered(phase) ==
    /\ mPhase = phase
    /\ mAsked
    /\ Intact(down)
    /\ Answers(Head1(down))
    /\ down' = Drop(down, CtlUnits)
    /\ mAsked' = FALSE

\* query_status before the upload: the picture is uploaded only if the slave
\* does not have it.
MasterChecked ==
    /\ Answered("check")
    /\ IF Head1(down).status = "UNRECEIVED"
       THEN mPhase' = "offer" /\ UNCHANGED mFile
       ELSE NextUpload
    /\ UNCHANGED <<up, faults, session, nFiles, mCount, mNext, mGot, mSlots,
                   saved>>

\* The slave is ready to receive.
MasterOffered ==
    /\ Answered("offer")
    /\ IF mCount = 0 THEN mPhase' = "confirm" /\ UNCHANGED mNext
                     ELSE mPhase' = "upload" /\ mNext' = 1
    /\ UNCHANGED <<up, faults, session, mFile, nFiles, mCount, mGot, mSlots,
                   saved>>

\* get_data_frames: frame i of the picture, with its part of the file.
PictureFrame(k, i) == Data(<<Files[k], i>>)

\* One turn of the loop that sends the picture; a frame whose send times out
\* is skipped.
MasterUpload ==
    /\ mPhase = "upload"
    /\ LET frame == PictureFrame(mFile, mNext)
       IN  \/ Fits(up, frame) /\ up' = up \o Units(frame) /\ UNCHANGED faults
           \/ Fault("sendTimeout") /\ UNCHANGED up
    /\ IF mNext < mCount
       THEN mNext' = mNext + 1 /\ UNCHANGED mPhase
       ELSE mNext' = 0 /\ mPhase' = "confirm"
    /\ UNCHANGED <<down, session, mAsked, mFile, nFiles, mCount, mGot, mSlots,
                   saved>>

\* query_status after the upload: again until the slave has every frame.
MasterConfirmed ==
    /\ Answered("confirm")
    /\ IF Head1(down).status = "UNRECEIVED"
       THEN mPhase' = "offer" /\ UNCHANGED mFile
       ELSE NextUpload
    /\ UNCHANGED <<up, faults, session, nFiles, mCount, mNext, mGot, mSlots,
                   saved>>

-----------------------------------------------------------------------------
(* main(), the loop "receive data"                                         *)

\* Block until the picture is processed; then allocate for the number of
\* frames that the answer to the query holds.
MasterPolled ==
    /\ Answered("poll")
    /\ IF Head1(down).status = "PROCESSED"
       THEN mPhase' = "fetch" /\ mSlots' = Calloc(Head1(down).n)
       ELSE UNCHANGED <<mPhase, mSlots>>
    /\ UNCHANGED <<up, faults, session, mFile, nFiles, mCount, mNext, mGot,
                   saved>>

\* The slave is about to send n frames.
MasterFetched ==
    /\ Answered("fetch")
    /\ mGot' = Head1(down).n
    /\ mPhase' = "download"
    /\ UNCHANGED <<up, faults, session, mFile, nFiles, mCount, mNext, mSlots,
                   saved>>

\* tcflush(fd, TCIFLUSH): what has arrived is dropped, what is still under way
\* is not.
Flushed(line) == {Drop(line, k) : k \in 0..Len(line)}

\* A missing frame is not asked for again (a mutant of AllReceived).
AllButOneReceived == Missing(mSlots, down, mGot) <= 1

\* while (sum > 0)
AllReceived == Missing(mSlots, down, mGot) = 0

\* receive_data_frames returned.  Missing frames are asked for again, a full
\* array is saved.  An array too small for mGot frames is overrun.
MasterReceiveData ==
    /\ mPhase = "download"
    /\ BufferFull(down, mGot)
    /\ LET slots == Fill(mSlots, down, mGot)
       IN  IF mGot > Len(mSlots)
           THEN mPhase' = "overrun" /\ UNCHANGED <<down, mFile, mSlots, saved>>
           ELSE /\ down' \in Flushed(Drop(down, mGot * DataUnits))
                /\ IF AllReceived
                   THEN /\ GoToFile(mFile + 1, "poll", "done")
                        /\ mSlots' = <<>>
                        /\ saved' = [saved EXCEPT ![mFile] =
                                         SubSeq(slots, 1, mGot)]
                   ELSE /\ mPhase' = "fetch"
                        /\ mSlots' = slots
                        /\ UNCHANGED <<mFile, saved>>
    /\ UNCHANGED <<up, faults, session, mAsked, nFiles, mCount, mNext, mGot>>

\* Not one byte arrived for TIMEOUT: 65535 frames count as missing.
MasterDataTimeout ==
    /\ mPhase = "download"
    /\ down = <<>>
    /\ mPhase' = "fetch"
    /\ UNCHANGED <<lineVars, session, mAsked, mFile, nFiles, mCount, mNext,
                   mGot, mSlots, saved>>

-----------------------------------------------------------------------------
\* Every step that waits for nothing but the line.
MasterStep ==
    \/ MasterOpen \/ MasterSend \/ MasterMismatch
    \/ MasterChecked \/ MasterOffered \/ MasterUpload \/ MasterConfirmed
    \/ MasterPolled \/ MasterFetched \/ MasterReceiveData

\* The program is stopped, or has ended, and is run again.  It flushes its
\* input before it sends anything.
MasterRestart ==
    /\ session < Len(Sessions)
    /\ session' = session + 1
    /\ mPhase' = "open"
    /\ mAsked' = FALSE
    /\ mFile' = 1
    /\ nFiles' = [k \in 1..Len(Sessions[session + 1]) |-> 0]
    /\ mCount' = 0
    /\ mNext' = 0
    /\ mGot' = 0
    /\ mSlots' = <<>>
    /\ saved' = [k \in 1..Len(Sessions[session + 1]) |-> <<>>]
    /\ down' \in Flushed(down)
    /\ UNCHANGED <<up, faults>>
=============================================================================

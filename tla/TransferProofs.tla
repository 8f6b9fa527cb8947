--------------------------- MODULE TransferProofs ---------------------------
(***************************************************************************)
(* The whole transfer, upload, encoding and download, of any number of     *)
(* pictures of any size, while bytes are changed on the line, and fewer    *)
(* bytes than a data frame has are lost on the way to the slave: what is   *)
(* received, encoded and saved is right, and the protocol takes no step    *)
(* that the service it implements does not take.                           *)
(***************************************************************************)
EXTENDS ProtocolRefinement, ProtocolProofs

-----------------------------------------------------------------------------
(* The inductive invariant.                                                *)

\* One run of the master with readable pictures that are not empty and that the slave
\* has room for.  Bytes may be changed in all frames but the answers to RECV, a request
\* may arrive in two pieces, and of what the master sends bytes may be lost, but in all
\* fewer than a data frame has.
Ordinary ==
    /\ FaultKinds \subseteq {"corruptUp", "corruptData", "corruptReply", "shortUp", "loseUp"}
    /\ "loseUp" \in FaultKinds => MaxFaults < DataUnits
    /\ Len(Sessions) = 1
    /\ Len(Sessions[1]) <= FileMax
    /\ \A k \in 1..Len(Sessions[1]) :
          Sessions[1][k] # Unreadable /\ FrameCount[Sessions[1][k]] > 0

\* What the master saves for the k-th picture when all goes well
Stream(k) == [i \in 1..BitFrames(Whole(k)) |-> <<Whole(k), i>>]

\* The picture the master is busy with: its number, its frames, those of its stream
Here == mFile - 1
Count == FrameCount[Files[mFile]]
StreamCount == BitFrames(Whole(mFile))

\* What the slave holds of a picture of the session: frames of this picture only,
\* each in its own place; len is total_len exactly when none is missing.
PictureExact(f) ==
    /\ bits[f] \in {<<>>, Whole(f + 1)}
    /\ infos[f].alloc =>
          /\ infos[f].total = FrameCount[Files[f + 1]]
          /\ Len(infos[f].addr) = infos[f].total
    /\ ~infos[f].alloc => infos[f].total = 0 /\ bits[f] = <<>>
    /\ \A i \in 1..Len(infos[f].addr) : infos[f].addr[i] \in {Empty, <<Files[f + 1], i>>}
    /\ bits[f] # <<>> => infos[f].len = infos[f].total
    /\ infos[f].alloc /\ ~(sPc = "data" /\ sReq.file = f) =>
          (infos[f].len = infos[f].total
              <=> \A i \in 1..infos[f].total : infos[f].addr[i] # Empty)

SlaveExact ==
    /\ \A f \in File :
          IF f < Len(Files) THEN PictureExact(f)
                            ELSE infos[f].total = 0 /\ bits[f] = <<>>
    /\ sPc \in {"data", "process"} =>
          sReq.file < Len(Files) /\ bits[sReq.file] = <<>> /\ infos[sReq.file].alloc

UploadPhases == {"open", "check", "offer", "upload", "confirm"}
FetchPhases == {"fetch", "download", "overrun"}

\* The master goes through the pictures in order; none is uploaded that the slave
\* has, and none downloaded before all are encoded.
MasterExact ==
    /\ session = 1
    /\ mPhase \in UploadPhases =>
          /\ \A k \in 1..(mFile - 1) : nFiles[k] = k - 1 /\ bits[k - 1] # <<>>
          /\ \A k \in 1..Len(Files) : saved[k] = <<>>
    /\ mPhase \in UploadPhases \ {"open"} => nFiles[mFile] = Here /\ mCount = Count
    /\ mPhase = "offer" =>
          /\ bits[Here] = <<>>
          /\ infos[Here].alloc => \E i \in 1..Count : infos[Here].addr[i] = Empty
    /\ mPhase \notin UploadPhases =>
          \A k \in 1..Len(Files) : nFiles[k] = k - 1 /\ bits[k - 1] # <<>>
    /\ mPhase \in FetchPhases \cup {"poll"} =>
          \A k \in 1..Len(Files) : saved[k] = IF k < mFile THEN Stream(k) ELSE <<>>
    /\ mPhase \in FetchPhases =>
          /\ Len(mSlots) = Count
          /\ \A i \in 1..Count : mSlots[i] \in {Empty, <<Whole(mFile), i>>}
    /\ mPhase = "done" => \A k \in 1..Len(Files) : saved[k] = Stream(k)

\* The line holds a request, or the rest of one.
Pending(frame) ==
    /\ Len(up) <= CtlUnits
    /\ Len(up) = CtlUnits => up[1] \in {<<frame, 1>>, Noise}

\* The line holds an answer and nothing else.
Carries(frame) == Len(down) = CtlUnits /\ down[1] \in {<<frame, 1>>, Noise}

QueryAnswer == Ctl("slave", "QUERY", Here, infos[Here].len, GetStatus(Here))
SendAnswer == Ctl("slave", "SEND", Here, Count, "NONE")
RecvAnswer == Ctl("slave", "RECV", Here, StreamCount, "NONE")

Idle == sPc = "wait" /\ up = <<>> /\ down = <<>>
Asking == sPc = "wait" /\ Pending(Request) /\ down = <<>>
Told == sPc = "wait" /\ up = <<>> /\ Carries(QueryAnswer)

\* The slave is in receive_data_frames for the master's picture.
Taken == sPc = "data" /\ sReq.file = Here /\ sReq.n = Count
Granted == Taken /\ up = <<>> /\ Carries(SendAnswer)

\* The answer to SEND was lost: the slave takes the requests that follow for data.
Misread ==
    /\ Taken
    /\ down = <<>>
    /\ Len(up) < Count * DataUnits + CtlUnits
    /\ \A i \in 1..Len(up) : up[i] = Noise \/ up[i][1].kind = "ctl"

\* How many units may have been lost so far
Lost == IF "loseUp" \in FaultKinds THEN faults ELSE 0

\* How far unit k of the picture's frame j is before its place when it is the p-th unit
\* of the line
Lead(j, k, p) == (j - 1) * DataUnits + k - p

\* The p-th unit of the line is noise, or part of a request, or it is of one of the n
\* frames of this picture, and not behind its place nor more than so many units before it.
Placed(picture, n, unit, p, lost) ==
    \/ unit = Noise
    \/ unit[1].kind = "ctl"
    \/ \E j \in 1..n, k \in 1..DataUnits :
          unit = <<Data(<<picture, j>>), k>> /\ Lead(j, k, p) \in 0..lost

\* No unit of the picture is further from its place than lost units explain.
Shifted == \A p \in 1..Len(up) : Placed(Files[mFile], Count, up[p], p, Lost)

\* All frames have been sent, and perhaps queries behind them: more than one when units
\* were lost and the slave waits for the rest.
Collecting ==
    /\ Taken
    /\ down = <<>>
    /\ Shifted
    /\ Len(up) <= Count * DataUnits + CtlUnits
    /\ Len(up) = Count * DataUnits + CtlUnits =>
          up[Count * DataUnits + 1] \in {<<Request, 1>>, Noise}
    /\ ~mAsked => Len(up) <= Count * DataUnits

Processing ==
    /\ sPc = "process"
    /\ sReq.file = Here
    /\ sReq.n = Count
    /\ down = <<>>
    /\ IF mAsked THEN Pending(Request) ELSE up = <<>>

\* The first m frames of the stream, behind o units of an answer
Downloaded(o, m) ==
    /\ Len(down) = o + m * DataUnits
    /\ \A j \in 1..m :
          down[o + (j - 1) * DataUnits + 1]
              \in {<<StreamFrame(Whole(mFile), j), 1>>, Noise}

Coming(o) ==
    /\ up = <<>>
    /\ \/ /\ sPc = "send"
          /\ sReq.file = Here
          /\ sNext \in 1..StreamCount
          /\ Downloaded(o, sNext - 1)
       \/ sPc = "wait" /\ Downloaded(o, StreamCount)

\* The answer to RECV, which is not disturbed
Announced == \A i \in 1..CtlUnits : down[i] = <<RecvAnswer, i>>

\* Where the two programs are and what is on the line go together.
LinkExact ==
    /\ mPhase \in {"open", "done"} => ~mAsked /\ Idle
    /\ mPhase = "overrun" => sPc = "wait" /\ up = <<>>
    /\ mPhase \in {"check", "poll"} => IF mAsked THEN Asking \/ Told ELSE Idle
    /\ mPhase = "offer" =>
          IF mAsked THEN Asking \/ Granted \/ Misread
                    ELSE Idle \/ (Misread /\ Len(up) < Count * DataUnits)
    /\ mPhase = "upload" =>
          /\ ~mAsked
          /\ Taken
          /\ down = <<>>
          /\ mNext \in 1..Count
          /\ (mNext - 1) * DataUnits - Len(up) \in 0..Lost
          /\ Shifted
    /\ mPhase = "confirm" =>
          Collecting \/ Processing \/ (IF mAsked THEN Asking \/ Told ELSE Idle)
    /\ mPhase = "fetch" =>
          IF mAsked THEN Asking \/ (Announced /\ Coming(CtlUnits)) ELSE Idle
    /\ mPhase = "download" => ~mAsked /\ mGot = StreamCount /\ Coming(0)

Exact == SlaveExact /\ MasterExact /\ LinkExact

-----------------------------------------------------------------------------
(* Sizes, pictures and lines.                                              *)

\* The faults that do not happen: nobody loses power, no frame is skipped, no timer runs
\* out early.
LEMMA NoOtherFault ==
    ASSUME Ordinary, NEW kind, Fault(kind)
    PROVE  kind \in {"corruptUp", "corruptData", "corruptReply", "shortUp", "loseUp"}
BY DEF Ordinary, Fault

\* Frames have units, and a control frame fewer than a data frame.
LEMMA UnitFacts ==
    /\ CtlUnits \in Nat \ {0}
    /\ DataUnits \in Nat \ {0}
    /\ CtlUnits < DataUnits
BY LineAssumption

\* The pictures of the session: all readable, none empty, each with a slot of the slave.
LEMMA FilesFacts ==
    ASSUME Ordinary, session = 1
    PROVE  /\ Files = Sessions[1]
           /\ Len(Files) \in Nat \ {0}
           /\ \A k \in 1..Len(Files) :
                 /\ Files[k] # Unreadable
                 /\ Files[k] \in Pictures
                 /\ FrameCount[Files[k]] \in NFrame
                 /\ FrameCount[Files[k]] \in Nat \ {0}
                 /\ k - 1 \in File
                 /\ k - 1 < Len(Files)
                 /\ (k - 1) + 1 = k
           /\ \A f \in File : f < Len(Files) => f + 1 \in 1..Len(Files)
<1>1. Files = Sessions[1] /\ 1 \in 1..Len(Sessions)
    BY DEF Files, Ordinary
<1>2. /\ Len(Files) \in Nat \ {0}
      /\ \A k \in 1..Len(Files) : Files[k] \in Pictures \cup {Unreadable}
    BY <1>1, FilesType
<1>3. FileMax \in Nat /\ Len(Files) <= FileMax
    BY <1>1, SlaveAssumption DEF Ordinary
<1>4. ASSUME NEW k \in 1..Len(Files)
      PROVE  /\ Files[k] # Unreadable
             /\ Files[k] \in Pictures
             /\ FrameCount[Files[k]] \in NFrame
             /\ FrameCount[Files[k]] \in Nat \ {0}
    <2>1. Files[k] # Unreadable /\ FrameCount[Files[k]] > 0
        BY <1>1 DEF Ordinary
    <2>2. Files[k] \in Pictures
        BY <1>2, <2>1
    <2>3. FrameCount[Files[k]] \in NFrame
        BY <2>2, MasterAssumption DEF NFrame
    <2> QED
        BY <2>1, <2>2, <2>3 DEF NFrame
<1>5. \A k \in 1..Len(Files) : k - 1 \in File /\ k - 1 < Len(Files) /\ (k - 1) + 1 = k
    BY <1>2, <1>3 DEF File
<1>6. \A f \in File : f < Len(Files) => f + 1 \in 1..Len(Files)
    BY <1>2, <1>3 DEF File
<1> QED
    BY <1>1, <1>2, <1>4, <1>5, <1>6

\* A frame of a picture of the session holds data.
LEMMA SomeData ==
    ASSUME Ordinary, session = 1, NEW k \in 1..Len(Files), NEW i \in Nat
    PROVE  ~Vacant(<<Files[k], i>>)
<1>1. <<Files[k], i>> \in PictureBody
    BY FilesFacts DEF PictureBody
<1> QED
    BY <1>1, DataAssumption DEF Vacant

\* A whole picture is the sequence of its frames, and its stream has frames too.
LEMMA WholeFacts ==
    ASSUME Ordinary, session = 1, NEW k \in 1..Len(Files)
    PROVE  /\ Whole(k) \in Seq(PictureBody)
           /\ Len(Whole(k)) = FrameCount[Files[k]]
           /\ Whole(k) # <<>>
           /\ \A i \in 1..FrameCount[Files[k]] : Whole(k)[i] = <<Files[k], i>>
           /\ BitFrames(Whole(k)) = IF DryRun THEN FrameCount[Files[k]] ELSE EncFrames
           /\ BitFrames(Whole(k)) \in Nat \ {0}
<1>1. Files[k] \in Pictures /\ FrameCount[Files[k]] \in Nat \ {0}
    BY FilesFacts
<1>2. /\ Whole(k) = [i \in 1..FrameCount[Files[k]] |-> <<Files[k], i>>]
      /\ \A i \in 1..FrameCount[Files[k]] : <<Files[k], i>> \in PictureBody
    BY <1>1 DEF Whole, FramesOf, PictureBody
<1>3. Whole(k) \in [1..FrameCount[Files[k]] -> PictureBody]
    BY <1>2
<1>4. Whole(k) \in Seq(PictureBody)
    BY <1>1, <1>3, SeqDef
<1>5. Len(Whole(k)) = FrameCount[Files[k]]
    BY <1>1, <1>2, <1>4, LenProperties
<1>6. Whole(k) # <<>>
    BY <1>1, <1>5, EmptySeq
<1>7. BitFrames(Whole(k)) = IF DryRun THEN FrameCount[Files[k]] ELSE EncFrames
    <2>1. \A i \in 1..FrameCount[Files[k]] : Whole(k)[i] # Hollow
        <3>1. ASSUME NEW i \in 1..FrameCount[Files[k]]
              PROVE  Whole(k)[i] # Hollow
            <4>1. Whole(k)[i] = <<Files[k], i>> /\ <<Files[k], i>> \in PictureBody
                BY <1>2
            <4> QED
                BY <4>1, DataAssumption
        <3> QED
            BY <3>1
    <2>2. {i \in 1..Len(Whole(k)) : Whole(k)[i] # Hollow} = 1..FrameCount[Files[k]]
        <3>1. PICK frames, n : frames = Whole(k) /\ n = FrameCount[Files[k]]
            OBVIOUS
        <3>2. {i \in 1..n : frames[i] # Hollow} = 1..n
            BY <2>1, <3>1
        <3> QED
            BY <1>5, <3>1, <3>2
    <2>3. Cardinality(1..FrameCount[Files[k]]) = FrameCount[Files[k]]
        <3>1. \A n \in Nat : Cardinality(1..n) = n
            BY FS_Interval
        <3> QED
            BY <1>1, <3>1
    <2> QED
        BY <1>6, <2>2, <2>3 DEF BitFrames
<1>8. EncFrames \in Nat \ {0}
    BY SlaveAssumption, NFrameModType
<1> QED
    BY <1>1, <1>2, <1>4, <1>5, <1>6, <1>7, <1>8

\* A line has a length, and is empty when it is 0.
LEMMA LineFacts ==
    ASSUME LineTypeOK
    PROVE  /\ Len(up) \in Nat /\ (up = <<>> <=> Len(up) = 0)
           /\ Len(down) \in Nat /\ (down = <<>> <=> Len(down) = 0)
BY LenProperties, EmptySeq DEF LineTypeOK, Line

\* What is behind the first k units of a line
LEMMA DropFacts ==
    ASSUME NEW S, NEW line \in Seq(S), NEW k \in 0..Len(line)
    PROVE  /\ Drop(line, k) \in Seq(S)
           /\ Len(Drop(line, k)) = Len(line) - k
           /\ \A i \in 1..(Len(line) - k) : Drop(line, k)[i] = line[k + i]
<1>1. Len(line) \in Nat /\ \A i \in (k + 1)..Len(line) : line[i] \in S
    BY LenProperties, ElementOfSeq
<1>2. k + 1 \in Int /\ Len(line) \in Int /\ k \in Int
    BY <1>1
<1>3. /\ SubSeq(line, k + 1, Len(line)) \in Seq(S)
      /\ Len(SubSeq(line, k + 1, Len(line)))
            = IF k + 1 <= Len(line) THEN Len(line) - (k + 1) + 1 ELSE 0
      /\ \A i \in 1..(Len(line) - (k + 1) + 1) :
            SubSeq(line, k + 1, Len(line))[i] = line[(k + 1) + i - 1]
    BY <1>1, <1>2, SubSeqProperties
<1>4. Len(line) - (k + 1) + 1 = Len(line) - k
    BY <1>1, <1>2
<1>5. \A i \in 1..(Len(line) - k) : (k + 1) + i - 1 = k + i
    BY <1>1, <1>2
<1>6. (IF k + 1 <= Len(line) THEN Len(line) - k ELSE 0) = Len(line) - k
    BY <1>1, <1>2
<1> QED
    BY <1>3, <1>4, <1>5, <1>6 DEF Drop

\* A frame behind what was on the line
LEMMA AppendFacts ==
    ASSUME NEW S, NEW line \in Seq(S), NEW frame
    PROVE  /\ Len(line \o Units(frame)) = Len(line) + Size(frame)
           /\ \A i \in 1..Len(line) : (line \o Units(frame))[i] = line[i]
           /\ \A i \in 1..Size(frame) :
                 (line \o Units(frame))[Len(line) + i] = <<frame, i>>
<1>1. Size(frame) \in Nat /\ Len(line) \in Nat
    BY UnitFacts, LenProperties DEF Size
<1>2. /\ Units(frame) = [i \in 1..Size(frame) |-> <<frame, i>>]
      /\ Units(frame) \in [1..Size(frame) -> {frame} \X Nat]
    BY <1>1 DEF Units
<1>3. Units(frame) \in Seq({frame} \X Nat)
    BY <1>1, <1>2, SeqDef
<1>4. Len(Units(frame)) = Size(frame)
    BY <1>1, <1>2, <1>3, LenProperties
<1>5. line \in Seq(S \cup ({frame} \X Nat)) /\ Units(frame) \in Seq(S \cup ({frame} \X Nat))
    BY <1>1, <1>2, <1>3, SeqDef, LenProperties
<1>6. /\ Len(line \o Units(frame)) = Len(line) + Len(Units(frame))
      /\ \A i \in 1..(Len(line) + Len(Units(frame))) :
            (line \o Units(frame))[i] =
                IF i <= Len(line) THEN line[i] ELSE Units(frame)[i - Len(line)]
    BY <1>5, ConcatProperties
<1>7. ASSUME NEW i \in 1..Size(frame)
      PROVE  (line \o Units(frame))[Len(line) + i] = <<frame, i>>
    <2>1. Len(line) + i \in 1..(Len(line) + Len(Units(frame))) /\ ~(Len(line) + i <= Len(line))
          /\ (Len(line) + i) - Len(line) = i
        BY <1>1, <1>4
    <2> QED
        BY <1>2, <1>6, <2>1
<1>8. ASSUME NEW i \in 1..Len(line)
      PROVE  (line \o Units(frame))[i] = line[i]
    <2>1. i \in 1..(Len(line) + Len(Units(frame))) /\ i <= Len(line)
        BY <1>1, <1>4
    <2> QED
        BY <1>6, <2>1
<1> QED
    BY <1>4, <1>6, <1>7, <1>8

\* A frame on an empty line
LEMMA AppendToEmpty ==
    ASSUME NEW line, NEW frame, line = <<>>
    PROVE  /\ Len(line \o Units(frame)) = Size(frame)
           /\ \A i \in 1..Size(frame) : (line \o Units(frame))[i] = <<frame, i>>
<1>1. line \in Seq(Nat) /\ Len(line) = 0
    BY EmptySeq
<1>2. Size(frame) \in Nat
    BY UnitFacts DEF Size
<1>3. ASSUME NEW l \in Seq(Nat), Len(l) = 0
      PROVE  /\ Len(l \o Units(frame)) = Size(frame)
             /\ \A i \in 1..Size(frame) : (l \o Units(frame))[i] = <<frame, i>>
    <2>1. /\ Len(l \o Units(frame)) = Len(l) + Size(frame)
          /\ \A i \in 1..Size(frame) : (l \o Units(frame))[Len(l) + i] = <<frame, i>>
        <3> HIDE <1>3
        <3> QED
            BY AppendFacts
    <2>2. \A i \in 1..Size(frame) : Len(l) + i = i
        BY <1>2, <1>3
    <2> QED
        BY <1>2, <1>3, <2>1, <2>2
<1> QED
    BY <1>1, <1>3

\* Changing a unit into noise
LEMMA CorruptFacts ==
    ASSUME NEW S, NEW line \in Seq(S), NEW i \in 1..Len(line)
    PROVE  /\ Len([line EXCEPT ![i] = Noise]) = Len(line)
           /\ \A j \in 1..Len(line) :
                 [line EXCEPT ![i] = Noise][j] \in {line[j], Noise}
           /\ \A j \in 1..Len(line) :
                 j # i => [line EXCEPT ![i] = Noise][j] = line[j]
<1>1. Len(line) \in Nat /\ line \in [1..Len(line) -> S]
    BY LenProperties
<1>2. [line EXCEPT ![i] = Noise] \in Seq(S \cup {Noise})
    BY <1>1, SeqDef
<1>3. DOMAIN [line EXCEPT ![i] = Noise] = 1..Len(line)
    BY <1>1
<1>4. Len([line EXCEPT ![i] = Noise]) = Len(line)
    BY <1>1, <1>2, <1>3, LenProperties
<1> QED
    BY <1>1, <1>4

\* The place the master is at, in the invariant.
LEMMA Context ==
    ASSUME Ordinary, IInv, Exact
    PROVE  /\ LineTypeOK /\ SlaveTypeOK /\ MasterTypeOK
           /\ session = 1
           /\ mFile \in 1..Len(Files)
           /\ Here \in File /\ Here \in Nat /\ Here < Len(Files) /\ Here + 1 = mFile
           /\ Files[mFile] \in Pictures
           /\ Count \in Nat \ {0} /\ Count \in NFrame
           /\ Whole(mFile) # <<>>
           /\ StreamCount \in Nat \ {0}
           /\ PictureExact(Here)
<1>1. LineTypeOK /\ SlaveTypeOK /\ MasterTypeOK
    BY DEF IInv, SlaveSafe, MasterSafe
<1>2. session = 1 /\ mFile \in 1..Len(Files)
    BY <1>1 DEF Exact, MasterExact, MasterTypeOK
<1>3. /\ Len(Files) \in Nat \ {0} /\ mFile - 1 \in File /\ mFile - 1 < Len(Files)
      /\ (mFile - 1) + 1 = mFile
      /\ Files[mFile] \in Pictures
      /\ FrameCount[Files[mFile]] \in NFrame
      /\ FrameCount[Files[mFile]] \in Nat \ {0}
    BY <1>2, FilesFacts
<1>4. BitFrames(Whole(mFile)) \in Nat \ {0} /\ Whole(mFile) # <<>>
    BY <1>2, WholeFacts
<1>5. mFile - 1 \in Nat
    BY <1>2, <1>3
<1>6. PictureExact(mFile - 1)
    BY <1>3 DEF Exact, SlaveExact
<1> QED
    BY <1>1, <1>2, <1>3, <1>4, <1>5, <1>6 DEF Here, Count, StreamCount

-----------------------------------------------------------------------------
(* What a state of the line and the slave says about the master.           *)

\* A slave that waits with something to read has been asked by the master.
LEMMA WaitingIsAsked ==
    ASSUME Ordinary, IInv, Exact, sPc = "wait", up # <<>>, mPhase # "overrun"
    PROVE  mPhase \in RequestPhases /\ mAsked /\ Asking
<1>1. mPhase \in {"check", "offer", "confirm", "poll", "fetch", "open", "upload",
                  "download", "done"}
    BY Context DEF MasterTypeOK, RequestPhases
<1>2. LinkExact
    BY DEF Exact
<1>3. ~Idle /\ ~Told /\ ~Granted /\ ~Misread /\ ~Taken /\ ~Collecting /\ ~Processing
      /\ ~Coming(0) /\ ~Coming(CtlUnits)
    BY DEF Idle, Told, Granted, Misread, Taken, Collecting, Processing, Coming
<1> QED
    BY <1>1, <1>2, <1>3 DEF LinkExact, RequestPhases

\* A request under way is one of the states the invariant allows.
LEMMA AskingLink ==
    ASSUME mPhase' \in RequestPhases, mAsked', Asking'
    PROVE  LinkExact'
BY DEF LinkExact, RequestPhases

\* So is silence between two requests.
LEMMA IdleLink ==
    ASSUME mPhase' \in RequestPhases \cup {"open", "done"}, mAsked' \in BOOLEAN, Idle',
           mPhase' \in {"open", "done"} => ~mAsked'
    PROVE  LinkExact'
<1>1. mAsked' => Asking'
    BY UnitFacts, EmptySeq DEF Idle, Asking, Pending
<1>2. mPhase' \in RequestPhases \/ mPhase' \in {"open", "done"}
    OBVIOUS
<1> QED
    BY <1>1, <1>2 DEF LinkExact, RequestPhases

\* The answer to a query, unread.
LEMMA ToldLink ==
    ASSUME mPhase' \in {"check", "confirm", "poll"}, mAsked', Told'
    PROVE  LinkExact'
BY DEF LinkExact

\* A frame that reads well at the head of the line is the one the line carries.
LEMMA HeadIs ==
    ASSUME NEW line, NEW frame, Intact(line), line[1] \in {<<frame, 1>>, Noise}
    PROVE  Head1(line) = frame
BY DEF Intact, Head1

\* A request that the slave has read is the master's, whole, and nothing is left.
LEMMA RequestIs ==
    ASSUME Ordinary, IInv, Exact, FromMaster, mPhase # "overrun"
    PROVE  /\ Head1(up) = Request
           /\ mPhase \in RequestPhases /\ mAsked /\ Asking
           /\ up' = <<>>
<1>1. up # <<>> /\ sPc = "wait" /\ Len(up) >= CtlUnits /\ Intact(up)
    BY UnitFacts, EmptySeq DEF FromMaster, Intact
<1>2. mPhase \in RequestPhases /\ mAsked /\ Asking
    BY <1>1, WaitingIsAsked
<1>3. LineTypeOK
    BY Context
<1>4. Len(up) \in Nat /\ up \in Seq((MasterFrame \X Nat) \cup {Noise})
    BY <1>3, LineFacts DEF LineTypeOK, Line
<1>5. Len(up) = CtlUnits /\ up[1] \in {<<Request, 1>>, Noise}
    BY <1>1, <1>2, <1>4, UnitFacts DEF Asking, Pending
<1>6. Head1(up) = Request
    BY <1>1, <1>5, HeadIs
<1>7. Drop(up, CtlUnits) \in Seq((MasterFrame \X Nat) \cup {Noise}) /\ Len(Drop(up, CtlUnits)) = 0
    BY <1>4, <1>5, UnitFacts, DropFacts
<1>8. Drop(up, CtlUnits) = <<>>
    BY <1>7, EmptySeq
<1> QED
    BY <1>2, <1>6, <1>8 DEF FromMaster

\* In "overrun" the slave has nothing to do.
LEMMA OverrunQuiet ==
    ASSUME Ordinary, IInv, Exact, SlaveStep
    PROVE  mPhase # "overrun"
<1> SUFFICES ASSUME mPhase = "overrun" PROVE FALSE
    OBVIOUS
<1>1. sPc = "wait" /\ up = <<>> /\ Len(up) = 0
    BY EmptySeq DEF Exact, LinkExact
<1> QED
    BY <1>1, UnitFacts
       DEF SlaveStep, SlaveDiscard, SlaveQuery, SlaveRefuseSend, SlaveSend, SlaveReceiveData,
           SlaveDataTimeout, SlaveProcess, SlaveRefuseRecv, SlaveRecv,
           SlaveSendFrame, SlaveUnknown, Requested, FromMaster, Intact

-----------------------------------------------------------------------------
(* What does not depend on the line.                                       *)

\* The pictures of the slave stay exact while it does nothing.
LEMMA SlaveExactStays ==
    ASSUME Exact, UNCHANGED <<sPc, sReq, infos, bits, session>>
    PROVE  SlaveExact'
BY DEF Exact, SlaveExact, PictureExact, Whole, FramesOf, Files

\* The master's place stays exact while it, and what the slave holds, do not change.
LEMMA MasterExactStays ==
    ASSUME Exact, UNCHANGED <<masterVars, bits, infos>>
    PROVE  MasterExact'
<1>1. UNCHANGED <<session, mPhase, mAsked, mFile, nFiles, mCount, mNext, mGot, mSlots, saved,
                  bits, infos>>
    BY DEF masterVars
<1>2. Files' = Files
    BY <1>1 DEF Files
<1>3. \A k : Whole(k)' = Whole(k)
    BY <1>2 DEF Whole
<1>4. \A k : Stream(k)' = Stream(k)
    BY <1>3 DEF Stream
<1> QED
    BY <1>1, <1>2, <1>3, <1>4 DEF Exact, MasterExact, Here, Count

\* What the master would ask, and be answered, does not depend on the slave's steps.
LEMMA MasterFixed ==
    ASSUME UNCHANGED masterVars
    PROVE  /\ Files' = Files /\ Here' = Here /\ Count' = Count
           /\ StreamCount' = StreamCount /\ Request' = Request
           /\ SendAnswer' = SendAnswer /\ RecvAnswer' = RecvAnswer
           /\ session' = session /\ mPhase' = mPhase /\ mAsked' = mAsked
           /\ mFile' = mFile /\ mNext' = mNext /\ mGot' = mGot
           /\ \A k : Whole(k)' = Whole(k)
BY DEF masterVars, Files, Here, Count, StreamCount, BitFrames, Request, RequestType, SendAnswer,
       RecvAnswer, Whole, FramesOf

\* The request of the master is about the picture it is busy with.
LEMMA RequestFields ==
    ASSUME Ordinary, IInv, Exact, mPhase \in RequestPhases
    PROVE  /\ Request = Ctl("master", RequestType, Here, mCount, "NONE")
           /\ Request.kind = "ctl" /\ Request.address = "master"
           /\ Request.type = RequestType /\ Request.file = Here /\ Request.n = mCount
           /\ nFiles[mFile] = Here
           /\ RequestType \in Types
<1>1. nFiles[mFile] = Here
    <2>1. CASE mPhase \in UploadPhases \ {"open"}
        BY <2>1 DEF Exact, MasterExact
    <2>2. CASE mPhase \notin UploadPhases
        <3>1. mFile \in 1..Len(Files)
            BY Context
        <3>2. nFiles[mFile] = mFile - 1
            BY <2>2, <3>1 DEF Exact, MasterExact
        <3> QED
            BY <3>2 DEF Here
    <2> QED
        BY <2>1, <2>2 DEF UploadPhases, RequestPhases
<1>2. RequestType \in Types
    BY DEF RequestType, RequestPhases, Types
<1> QED
    BY <1>1, <1>2 DEF Request, Ctl

\* An answer on an empty line
LEMMA ReplyFacts ==
    ASSUME Ordinary, down = <<>>, NEW frame, Replied(frame) \/ ReplyTimedOut,
           frame.kind = "ctl"
    PROVE  /\ Len(down') = CtlUnits
           /\ \A i \in 1..CtlUnits : down'[i] = <<frame, i>>
           /\ down'[1] = <<frame, 1>>
<1>1. Replied(frame)
    BY NoOtherFault DEF ReplyTimedOut
<1>2. down' = down \o Units(frame) /\ Size(frame) = CtlUnits
    BY <1>1 DEF Replied, Size
<1>3. /\ Len(down \o Units(frame)) = Size(frame)
      /\ \A i \in 1..Size(frame) : (down \o Units(frame))[i] = <<frame, i>>
    BY AppendToEmpty
<1>4. 1 \in 1..CtlUnits
    BY UnitFacts
<1> QED
    BY <1>2, <1>3, <1>4

\* A picture that a step does not touch stays exact, unless receive_data_frames leaves it.
LEMMA PictureStays ==
    ASSUME NEW f, PictureExact(f), infos'[f] = infos[f], bits'[f] = bits[f],
           session' = session,
           ~(sPc = "data" /\ sReq.file = f) \/ (sPc' = "data" /\ sReq'.file = f)
    PROVE  PictureExact(f)'
<1>1. Files' = Files
    BY DEF Files
<1>2. Whole(f + 1)' = Whole(f + 1)
    BY <1>1 DEF Whole
<1> QED
    BY <1>1, <1>2 DEF PictureExact

-----------------------------------------------------------------------------
(* The steps of the slave.                                                 *)

\* The rest of a request, or a request with noise, is read and dropped.
LEMMA DiscardExact ==
    ASSUME Ordinary, IInv, Exact, SlaveDiscard, UNCHANGED masterVars
    PROVE  Exact'
<1>1. sPc = "wait" /\ up # <<>> /\ UNCHANGED <<down, sPc, sReq, infos, bits, sNext>>
    BY DEF SlaveDiscard, slaveVars
<1>2. mPhase # "overrun"
    BY OverrunQuiet DEF SlaveStep
<1>3. mPhase \in RequestPhases /\ mAsked /\ Asking
    BY <1>1, <1>2, WaitingIsAsked
<1>4. LineTypeOK
    BY Context
<1>5. Len(up) \in Nat /\ Len(up) # 0 /\ up \in Seq((MasterFrame \X Nat) \cup {Noise})
    BY <1>1, <1>4, LineFacts DEF LineTypeOK, Line
<1>6. Len(up) <= CtlUnits
    BY <1>3 DEF Asking, Pending
<1>7. Len(up') < CtlUnits
    <2>1. CASE (Intact(up) => Head1(up).address # "master") /\ up' = Drop(up, ReadLen(up))
        <3>1. ReadLen(up) = Len(up) /\ Len(up) \in 0..Len(up)
            BY <1>5, <1>6, UnitFacts DEF ReadLen
        <3>2. Len(up') = Len(up) - Len(up)
            BY <1>5, <2>1, <3>1, DropFacts
        <3> QED
            BY <1>5, <3>2, UnitFacts
    <2>2. CASE \E k \in 1..CtlUnits : ShortRead(up, k) /\ up' = Drop(up, k)
        <3>1. PICK k \in 1..CtlUnits : ShortRead(up, k) /\ up' = Drop(up, k)
            BY <2>2
        <3>2. k \in 0..Len(up) /\ k > 0
            BY <1>5, <1>6, <3>1, UnitFacts DEF ShortRead, ReadLen
        <3>3. Len(up') = Len(up) - k
            BY <1>5, <3>1, <3>2, DropFacts
        <3> QED
            BY <1>5, <1>6, <3>2, <3>3, UnitFacts
    <2> QED
        BY <2>1, <2>2 DEF SlaveDiscard
<1>8. Len(up') <= CtlUnits /\ Len(up') # CtlUnits
    <2>1. Len(up') \in Nat
        <3>1. LineTypeOK'
            BY SlaveStepSafe DEF IInv, SlaveSafe, SlaveStep
        <3> QED
            BY <3>1, LenProperties DEF LineTypeOK, Line
    <2> QED
        BY <1>7, <2>1, UnitFacts
<1>9. Asking' /\ mPhase' \in RequestPhases /\ mAsked'
    <2>1. sPc' = "wait" /\ down' = <<>>
        BY <1>1, <1>3 DEF Asking
    <2>2. Pending(Request)'
        BY <1>8 DEF Pending
    <2> QED
        BY <1>3, <2>1, <2>2, MasterFixed DEF Asking
<1>10. LinkExact'
    BY <1>9, AskingLink
<1>11. SlaveExact'
    BY <1>1, MasterFixed, SlaveExactStays
<1>12. MasterExact'
    BY <1>1, MasterExactStays
<1> QED
    BY <1>10, <1>11, <1>12 DEF Exact

\* A query is answered with what the slave has of the master's picture.
LEMMA QueryExact ==
    ASSUME Ordinary, IInv, Exact, SlaveQuery, UNCHANGED masterVars
    PROVE  Exact'
<1>1. /\ FromMaster /\ Head1(up).type = "QUERY"
      /\ UNCHANGED <<sPc, sReq, infos, bits, sNext>>
    BY DEF SlaveQuery, Requested, slaveVars
<1>2. mPhase # "overrun"
    BY OverrunQuiet DEF SlaveStep
<1>3. Head1(up) = Request /\ mPhase \in RequestPhases /\ mAsked /\ Asking /\ up' = <<>>
    BY <1>1, <1>2, RequestIs
<1>4. mPhase \in {"check", "confirm", "poll"} /\ Head1(up).file = Here
    <2>1. RequestType = "QUERY" /\ Request.file = Here
        BY <1>1, <1>3, RequestFields
    <2> QED
        BY <1>3, <2>1 DEF RequestType, RequestPhases
<1>5. Here \in File
    BY Context
<1>6. Replied(QueryAnswer) \/ ReplyTimedOut
    BY <1>4, <1>5 DEF SlaveQuery, QueryAnswer
<1>7. QueryAnswer.kind = "ctl"
    BY DEF QueryAnswer, Ctl
<1>8. Len(down') = CtlUnits /\ down'[1] = <<QueryAnswer, 1>>
    <2>1. down = <<>>
        BY <1>3 DEF Asking
    <2> QED
        BY <1>6, <1>7, <2>1, ReplyFacts
<1>9. QueryAnswer' = QueryAnswer
    BY <1>1, MasterFixed DEF QueryAnswer, GetStatus
<1>10. Told'
    <2>1. Len(down') = CtlUnits /\ down'[1] \in {<<QueryAnswer', 1>>, Noise}
        BY <1>8, <1>9
    <2>2. sPc' = "wait" /\ up' = <<>>
        BY <1>1, <1>3 DEF Asking
    <2> QED
        BY <2>1, <2>2 DEF Told, Carries
<1>11. LinkExact'
    BY <1>3, <1>4, <1>10, MasterFixed, ToldLink
<1>12. SlaveExact'
    BY <1>1, MasterFixed, SlaveExactStays
<1>13. MasterExact'
    BY <1>1, MasterExactStays
<1> QED
    BY <1>11, <1>12, <1>13 DEF Exact

\* What the slave processes is the whole picture.
LEMMA WholePicture ==
    ASSUME Ordinary, IInv, Exact, Processing
    PROVE  FramesToData(infos[Here].addr, Count) = Whole(mFile)
<1>1. sPc = "process" /\ sReq.file = Here /\ sReq.n = Count
    BY DEF Processing
<1>2. Here \in File /\ Here + 1 = mFile /\ Here < Len(Files) /\ mFile \in 1..Len(Files)
      /\ Count \in Nat \ {0} /\ PictureExact(Here) /\ session = 1
    BY Context DEF Exact, MasterExact
<1>3. infos[Here].addr \in Seq(PictureBody \cup {Empty})
    BY <1>2, Context DEF SlaveTypeOK, Slots
<1>4. infos[Here].alloc
    BY <1>1 DEF Exact, SlaveExact
<1>5. Len(infos[Here].addr) = Count
      /\ \A i \in 1..Count : infos[Here].addr[i] \in {Empty, <<Files[mFile], i>>}
    BY <1>2, <1>4 DEF PictureExact, Count
<1>6. \A i \in 1..Count : infos[Here].addr[i] # Empty
    BY <1>1 DEF IInv, SlaveSafe, SlaveInv
<1>7. PICK addr : addr = infos[Here].addr
    OBVIOUS
<1>8. addr \in Seq(PictureBody \cup {Empty}) /\ Len(addr) = Count
      /\ \A i \in 1..Count : addr[i] = <<Files[mFile], i>>
    BY <1>3, <1>5, <1>6, <1>7
<1>9. /\ SubSeq(addr, 1, Count) \in Seq(PictureBody \cup {Empty})
      /\ Len(SubSeq(addr, 1, Count)) = Count
      /\ \A i \in 1..Count : SubSeq(addr, 1, Count)[i] = addr[i]
    <2>1. \A i \in 1..Count : addr[i] \in PictureBody \cup {Empty}
        BY <1>8, ElementOfSeq
    <2>2. 1 \in Int /\ Count \in Int /\ Count - 1 + 1 = Count /\ 1 <= Count
          /\ \A i \in 1..Count : 1 + i - 1 = i
        BY <1>2
    <2>3. /\ SubSeq(addr, 1, Count) \in Seq(PictureBody \cup {Empty})
          /\ Len(SubSeq(addr, 1, Count)) = IF 1 <= Count THEN Count - 1 + 1 ELSE 0
          /\ \A i \in 1..(Count - 1 + 1) : SubSeq(addr, 1, Count)[i] = addr[1 + i - 1]
        BY <2>1, <2>2, SubSeqProperties
    <2> QED
        BY <2>2, <2>3
<1>10. /\ Whole(mFile) \in Seq(PictureBody) /\ Len(Whole(mFile)) = Count
       /\ \A i \in 1..Count : Whole(mFile)[i] = <<Files[mFile], i>>
    BY <1>2, WholeFacts DEF Count
<1>11. Whole(mFile) \in Seq(PictureBody \cup {Empty})
    BY <1>10, SeqDef, LenProperties
<1>12. SubSeq(addr, 1, Count) = Whole(mFile)
    BY <1>8, <1>9, <1>10, <1>11, SeqEqual
<1>13. ~Vacant(addr[1]) /\ 1 \in 1..Count
    <2>1. 1 \in Nat /\ 1 \in 1..Count
        BY <1>2
    <2>2. ~Vacant(<<Files[mFile], 1>>)
        BY <1>2, <2>1, SomeData
    <2> QED
        BY <1>8, <2>1, <2>2
<1>14. FramesToData(addr, Count) = SubSeq(addr, 1, Count)
    BY <1>13 DEF FramesToData
<1> QED
    BY <1>7, <1>12, <1>14

\* What the slave need not do: no request is out of range, of unknown type or for a
\* stream that is not there, no picture is empty, and no timer runs out.
LEMMA NoRefusal ==
    ASSUME Ordinary, IInv, Exact
    PROVE  /\ ~SlaveRefuseSend /\ ~SlaveUnknown /\ ~SlaveRefuseRecv
           /\ ~SlaveDataTimeout /\ ~Exits
<1>1. ASSUME FromMaster, mPhase # "overrun"
      PROVE  Head1(up).file = Here /\ Head1(up).type \in Types
             /\ (Head1(up).type = "RECV" => mPhase = "fetch")
    <2>1. Head1(up) = Request /\ mPhase \in RequestPhases
        BY <1>1, RequestIs
    <2>2. Request.file = Here /\ Request.type = RequestType /\ RequestType \in Types
        BY <2>1, RequestFields
    <2>3. RequestType = "RECV" => mPhase = "fetch"
        BY <2>1 DEF RequestType, RequestPhases
    <2> QED
        BY <2>1, <2>2, <2>3
<1>2. ASSUME SlaveRefuseSend \/ SlaveUnknown \/ SlaveRefuseRecv
      PROVE  FALSE
    <2>1. FromMaster /\ mPhase # "overrun"
        BY <1>2, OverrunQuiet DEF SlaveStep, SlaveRefuseSend, SlaveUnknown, SlaveRefuseRecv, Requested
    <2>2. /\ Head1(up).file \in File /\ Head1(up).type \in Types
          /\ Head1(up).type = "RECV" => mPhase = "fetch" /\ Head1(up).file = mFile - 1
        BY <1>1, <2>1, Context DEF Here
    <2>3. SlaveRefuseRecv /\ mPhase = "fetch" /\ bits[mFile - 1] = <<>>
        BY <1>2, <2>2 DEF SlaveRefuseSend, SlaveUnknown, SlaveRefuseRecv, Requested
    <2>4. mFile \in 1..Len(Files)
        BY Context
    <2> QED
        BY <2>3, <2>4 DEF Exact, MasterExact, UploadPhases
<1>3. ~SlaveDataTimeout
    BY NoOtherFault DEF SlaveDataTimeout
<1>4. ~Exits
    <2> SUFFICES ASSUME Exits PROVE FALSE
        OBVIOUS
    <2>1. sPc = "process" /\ Picture = <<>>
        BY DEF Exits, SlaveProcess
    <2>2. mPhase \in RequestPhases \cup {"open", "upload", "download", "done", "overrun"}
        BY Context DEF MasterTypeOK
    <2>3. Processing
        BY <2>1, <2>2 DEF Exact, LinkExact, RequestPhases, Idle, Asking, Told, Granted, Misread,
                          Taken, Collecting, Coming
    <2>4. Whole(mFile) = <<>>
        BY <2>1, <2>3, WholePicture DEF Picture, Processing
    <2> QED
        BY <2>4, Context
<1> QED
    BY <1>2, <1>3, <1>4

\* The place of the master does not change with a step of the slave that makes no stream.
LEMMA MasterExactKeeps ==
    ASSUME Exact, UNCHANGED masterVars, bits' = bits,
           mPhase = "offer" /\ infos'[Here].alloc =>
               \E i \in 1..Count : infos'[Here].addr[i] = Empty
    PROVE  MasterExact'
<1>1. UNCHANGED <<session, mPhase, mAsked, mFile, nFiles, mCount, mNext, mGot, mSlots, saved,
                  bits>>
    BY DEF masterVars
<1>2. Files' = Files /\ Here' = Here /\ Count' = Count /\ \A k : Whole(k)' = Whole(k)
    BY MasterFixed
<1>3. \A k : Stream(k)' = Stream(k)
    BY <1>2 DEF Stream, BitFrames
<1> QED
    BY <1>1, <1>2, <1>3 DEF Exact, MasterExact

\* A SEND that the slave accepts leaves what it has of the picture.
LEMMA SendExact ==
    ASSUME Ordinary, IInv, Exact, SlaveSend, UNCHANGED masterVars
    PROVE  Exact'
<1>1. FromMaster /\ Head1(up).type = "SEND"
    BY DEF SlaveSend, Requested
<1>2. mPhase # "overrun"
    BY OverrunQuiet DEF SlaveStep
<1>3. Head1(up) = Request /\ mPhase \in RequestPhases /\ mAsked /\ Asking /\ up' = <<>>
    BY <1>1, <1>2, RequestIs
<1>4. Request.type = RequestType /\ Request.file = Here /\ Request.n = mCount
    BY <1>3, RequestFields
<1>5. mPhase = "offer" /\ mCount = Count
    <2>1. RequestType = "SEND"
        BY <1>1, <1>3, <1>4
    <2>2. mPhase = "offer"
        BY <1>3, <2>1 DEF RequestType, RequestPhases
    <2> QED
        BY <2>2 DEF Exact, MasterExact, UploadPhases
<1>6. Head1(up).file = Here /\ Head1(up).n = Count
    BY <1>3, <1>4, <1>5
<1>7. /\ Replied(SendAnswer)
      /\ infos' = [infos EXCEPT ![Here].alloc = TRUE,
                                ![Here].addr = BufferFor(Here, Count),
                                ![Here].total = Count]
      /\ sReq' = Request /\ sPc' = "data" /\ bits' = bits
    <2>1. ~ReplyTimedOut
        BY NoOtherFault DEF ReplyTimedOut
    <2> QED
        BY <1>3, <1>6, <2>1 DEF SlaveSend, SendAnswer
<1>8. Here \in File /\ Here + 1 = mFile /\ Count \in Nat \ {0} /\ PictureExact(Here)
    BY Context
<1>9. infos \in [File -> [alloc : BOOLEAN, addr : Slots(PictureBody), len : NFrame, total : NFrame]]
    BY Context DEF SlaveTypeOK
<1>10. bits[Here] = <<>> /\ (infos[Here].alloc => \E i \in 1..Count : infos[Here].addr[i] = Empty)
    BY <1>5 DEF Exact, MasterExact
<1>11. PICK addr : addr = BufferFor(Here, Count)
    OBVIOUS
<1>12. /\ infos'[Here].alloc = TRUE /\ infos'[Here].addr = addr /\ infos'[Here].total = Count
       /\ \A f \in File \ {Here} : infos'[f] = infos[f]
    BY <1>7, <1>8, <1>9, <1>11
<1>13. /\ Len(addr) = Count
       /\ \A i \in 1..Count : addr[i] \in {Empty, <<Files[mFile], i>>}
       /\ \E i \in 1..Count : addr[i] = Empty
    <2>1. CASE infos[Here].alloc
        <3>1. addr = infos[Here].addr
            BY <1>10, <1>11, <2>1 DEF BufferFor
        <3>2. Len(addr) = Count
            BY <1>8, <2>1, <3>1 DEF PictureExact, Count
        <3>3. \A i \in 1..Len(addr) : addr[i] \in {Empty, <<Files[mFile], i>>}
            BY <1>8, <3>1 DEF PictureExact
        <3> QED
            BY <1>10, <2>1, <3>1, <3>2, <3>3
    <2>2. CASE ~infos[Here].alloc
        <3>1. addr = [i \in 1..Count |-> Empty]
            BY <1>11, <2>2 DEF BufferFor, Calloc
        <3>2. addr \in Seq({Empty}) /\ Len(addr) = Count
            BY <1>8, <3>1, SeqDef, LenProperties
        <3>3. 1 \in 1..Count
            BY <1>8
        <3> QED
            BY <3>1, <3>2, <3>3
    <2> QED
        BY <2>1, <2>2
<1>14. SendAnswer.kind = "ctl" /\ down = <<>>
    BY <1>3 DEF SendAnswer, Ctl, Asking
<1>15. Len(down') = CtlUnits /\ down'[1] = <<SendAnswer, 1>>
    BY <1>7, <1>14, ReplyFacts
<1>16. Granted'
    <2>1. sReq'.file = Here' /\ sReq'.n = Count'
        BY <1>4, <1>5, <1>7, MasterFixed
    <2>2. Len(down') = CtlUnits /\ down'[1] \in {<<SendAnswer', 1>>, Noise}
        BY <1>15, MasterFixed
    <2> QED
        BY <1>3, <1>7, <2>1, <2>2 DEF Granted, Taken, Carries
<1>17. LinkExact'
    BY <1>3, <1>5, <1>16, MasterFixed DEF LinkExact
<1>18. PictureExact(Here)'
    <2>1. Files' = Files /\ Here' = Here /\ Count' = Count
        BY MasterFixed
    <2>2. bits'[Here] = <<>>
        BY <1>7, <1>10
    <2>3. sPc' = "data" /\ sReq'.file = Here
        BY <1>4, <1>7
    <2> QED
        BY <1>8, <1>12, <1>13, <2>1, <2>2, <2>3 DEF PictureExact, Count
<1>19. SlaveExact'
    <2>1. session' = session /\ Files' = Files /\ Here' = Here
        BY MasterFixed
    <2>2. ASSUME NEW f \in File, f # Here, f < Len(Files)
          PROVE  PictureExact(f)'
        <3>1. PictureExact(f) /\ infos'[f] = infos[f] /\ bits'[f] = bits[f]
            BY <1>7, <1>12, <2>2 DEF Exact, SlaveExact
        <3>2. ~(sPc = "data" /\ sReq.file = f)
            BY <1>1 DEF FromMaster
        <3> QED
            BY <2>1, <3>1, <3>2, PictureStays
    <2>3. ASSUME NEW f \in File, ~(f < Len(Files))
          PROVE  infos'[f].total = 0 /\ bits'[f] = <<>>
        <3>1. f # Here
            BY <2>3, Context
        <3> QED
            BY <1>7, <1>12, <2>3, <3>1 DEF Exact, SlaveExact
    <2>4. sReq'.file = Here /\ Here < Len(Files)' /\ bits'[Here] = <<>> /\ infos'[Here].alloc
        BY <1>4, <1>7, <1>10, <1>12, <2>1, Context
    <2>5. \A f \in File : IF f < Len(Files)' THEN PictureExact(f)'
                                             ELSE infos'[f].total = 0 /\ bits'[f] = <<>>
        BY <1>18, <2>1, <2>2, <2>3
    <2> QED
        BY <2>4, <2>5 DEF SlaveExact
<1>20. MasterExact'
    BY <1>7, <1>12, <1>13, MasterExactKeeps
<1> QED
    BY <1>17, <1>19, <1>20 DEF Exact

-----------------------------------------------------------------------------
(* What receive_data_frames makes of a buffer.                             *)

\* Nothing is missing when the count is 0, and only then.
LEMMA GapCount ==
    ASSUME NEW slots, NEW n \in Nat
    PROVE  Gaps(slots, n) = 0 <=> \A i \in 1..n : slots[i] # Empty
<1>1. ASSUME \A i \in 1..n : slots[i] # Empty
      PROVE  Gaps(slots, n) = 0
    <2>1. {i \in 1..n : slots[i] = Empty} = {}
        BY <1>1
    <2> QED
        BY <2>1, FS_EmptySet DEF Gaps
<1> QED
    BY <1>1, GapsProperties

\* len is total_len when nothing is missing, and only then.
LEMMA LenIsTotal ==
    ASSUME NEW total \in NFrame, NEW sum \in NFrame
    PROVE  ReceivedLen(total, sum) = total <=> sum = 0
<1>1. total \in Nat /\ total < NFrameMod /\ NFrameMod \in Nat \ {0}
    BY NFrameModType DEF NFrame
<1>2. (total - 0) % NFrameMod = total
    BY <1>1, SMT
<1> QED
    BY <1>2, ReceivedLenProperties DEF ReceivedLen

\* A piece that begins like a data frame is this frame or nothing.
LEMMA ChunkIs ==
    ASSUME NEW line, NEW i, NEW body,
           \/ line[(i - 1) * DataUnits + 1] = <<Data(body), 1>>
           \/ line[(i - 1) * DataUnits + 1] = Noise
    PROVE  Chunk(line, i) = body \/ Chunk(line, i) = Empty
<1> DEFINE first == line[(i - 1) * DataUnits + 1]
<1>1. CASE first = Noise
    BY <1>1 DEF Chunk, Accepted
<1>2. CASE first = <<Data(body), 1>>
    <2>1. first[1].body = body
        BY <1>2 DEF Data
    <2> QED
        BY <2>1 DEF Chunk
<1> QED
    BY <1>1, <1>2

\* A piece that begins like a control frame, or with noise, is no data frame.
LEMMA ChunkNone ==
    ASSUME NEW line, NEW i,
           \/ line[(i - 1) * DataUnits + 1] = Noise
           \/ line[(i - 1) * DataUnits + 1][1].kind = "ctl"
    PROVE  Chunk(line, i) = Empty
BY DEF Chunk, Accepted

\* The array after the call
LEMMA FillFacts ==
    ASSUME NEW slots, NEW line, NEW n \in Nat, Len(slots) = n
    PROVE  /\ \A i \in 1..n : Fill(slots, line, n)[i] \in {slots[i], Chunk(line, i)}
           /\ \A i \in 1..n : slots[i] = Empty => Fill(slots, line, n)[i] = Chunk(line, i)
           /\ \A i \in 1..n : ~Vacant(slots[i]) => Fill(slots, line, n)[i] = slots[i]
BY DEF Fill, Vacant, Chunk

\* Fewer frames take fewer units.
LEMMA UnitsBefore ==
    ASSUME NEW m \in Nat, NEW n \in Nat, NEW d \in Nat \ {0}
    PROVE  /\ m * d \in Nat
           /\ m < n => m * d + d <= n * d /\ m * d < n * d
           /\ (m + 1) * d = m * d + d
<1>1. m * d \in Nat /\ n * d \in Nat
    BY SMT
<1>2. (m + 1) * d = m * d + d
    BY SMT
<1>3. ASSUME m < n
      PROVE  m * d + d <= n * d
    <2>1. n - (m + 1) \in Nat
        BY <1>3
    <2>2. (n - (m + 1)) * d >= 0
        BY <2>1, SMT
    <2>3. n * d = (m + 1) * d + (n - (m + 1)) * d
        BY SMT
    <2>4. (m + 1) * d \in Nat /\ (n - (m + 1)) * d \in Int
        BY <1>1, <1>2, <2>1, SMT
    <2> QED
        BY <1>1, <1>2, <2>2, <2>3, <2>4
<1> QED
    BY <1>1, <1>2, <1>3

\* Fewer units are lost than a data frame has.
LEMMA LostBound ==
    ASSUME Ordinary, LineTypeOK
    PROVE  Lost \in Nat /\ Lost < DataUnits
<1>1. faults \in Nat /\ faults <= MaxFaults /\ MaxFaults \in Nat /\ DataUnits \in Nat \ {0}
    BY UnitFacts, LineAssumption DEF LineTypeOK
<1>2. "loseUp" \in FaultKinds => MaxFaults < DataUnits
    BY DEF Ordinary
<1> QED
    BY <1>1, <1>2 DEF Lost

\* One more fault is at most one more lost unit.
LEMMA LostGrows ==
    ASSUME faults \in Nat, faults' = faults \/ faults' = faults + 1
    PROVE  Lost \in Nat /\ Lost' \in Nat /\ Lost <= Lost'
           /\ (faults' = faults => Lost' = Lost)
BY DEF Lost

\* A unit stays as close to its place when more units may have been lost.
LEMMA PlacedStays ==
    ASSUME NEW picture, NEW n, NEW unit, NEW p, NEW lost \in Nat, NEW more \in Nat,
           lost <= more, Placed(picture, n, unit, p, lost)
    PROVE  Placed(picture, n, unit, p, more)
<1>1. 0..lost \subseteq 0..more
    OBVIOUS
<1> QED
    BY <1>1 DEF Placed

\* A unit that moves forward over a lost one is one unit further from its place.
LEMMA PlacedAhead ==
    ASSUME NEW picture, NEW n \in Nat, NEW unit, NEW p \in Nat, NEW lost \in Nat,
           Placed(picture, n, unit, p + 1, lost)
    PROVE  Placed(picture, n, unit, p, lost + 1)
<1>1. CASE unit = Noise \/ unit[1].kind = "ctl"
    BY <1>1 DEF Placed
<1>2. CASE \E j \in 1..n, k \in 1..DataUnits :
              unit = <<Data(<<picture, j>>), k>> /\ Lead(j, k, p + 1) \in 0..lost
    <2>1. PICK j \in 1..n, k \in 1..DataUnits :
              unit = <<Data(<<picture, j>>), k>> /\ Lead(j, k, p + 1) \in 0..lost
        BY <1>2
    <2>2. PICK before \in Nat : before = (j - 1) * DataUnits
        <3>1. j - 1 \in Nat
            OBVIOUS
        <3> QED
            BY <3>1, UnitFacts, UnitsBefore
    <2>3. Lead(j, k, p) = before + k - p /\ Lead(j, k, p + 1) = before + k - (p + 1)
        BY <2>2 DEF Lead
    <2>4. Lead(j, k, p) \in 0..(lost + 1)
        BY <2>1, <2>3, UnitFacts
    <2> QED
        BY <2>1, <2>4 DEF Placed
<1> QED
    BY <1>1, <1>2 DEF Placed

\* The first unit of a frame that begins a piece of the buffer is not moved by a whole
\* frame: the frame is the one that belongs there.
LEMMA NoFrameAhead ==
    ASSUME NEW i \in Nat \ {0}, NEW j \in Nat \ {0}, NEW lost \in Nat, lost < DataUnits,
           Lead(j, 1, (i - 1) * DataUnits + 1) \in 0..lost
    PROVE  j = i
<1>1. PICK a \in Nat : a = i - 1
    OBVIOUS
<1>2. PICK b \in Nat : b = j - 1
    OBVIOUS
<1>3. /\ a * DataUnits \in Nat /\ b * DataUnits \in Nat /\ DataUnits \in Nat
      /\ a < b => a * DataUnits + DataUnits <= b * DataUnits
      /\ b < a => b * DataUnits + DataUnits <= a * DataUnits
    BY UnitFacts, UnitsBefore
<1>4. Lead(j, 1, (i - 1) * DataUnits + 1) = b * DataUnits + 1 - (a * DataUnits + 1)
    BY <1>1, <1>2 DEF Lead
<1>5. PICK x \in Nat : x = a * DataUnits
    BY <1>3
<1>6. PICK y \in Nat : y = b * DataUnits
    BY <1>3
<1>7. y + 1 - (x + 1) \in 0..lost
    BY <1>4, <1>5, <1>6
<1>8. ~(a < b) /\ ~(b < a)
    BY <1>3, <1>5, <1>6, <1>7
<1> QED
    BY <1>1, <1>2, <1>8

\* So a piece of the buffer is the frame that belongs there, or nothing.
LEMMA ChunkPlaced ==
    ASSUME NEW picture, NEW n \in Nat, NEW i \in 1..n, NEW line, NEW lost \in Nat,
           lost < DataUnits,
           Placed(picture, n, line[(i - 1) * DataUnits + 1], (i - 1) * DataUnits + 1, lost)
    PROVE  Chunk(line, i) \in {<<picture, i>>, Empty}
<1>1. PICK from \in Nat : from = (i - 1) * DataUnits
    <2>1. i - 1 \in Nat
        OBVIOUS
    <2> QED
        BY <2>1, UnitFacts, UnitsBefore
<1>2. PICK first : first = line[from + 1]
    OBVIOUS
<1>3. CASE first = Noise \/ first[1].kind = "ctl"
    <2>1. Chunk(line, i) = Empty
        BY <1>1, <1>2, <1>3, ChunkNone
    <2> QED
        BY <2>1
<1>4. CASE \E j \in 1..n, k \in 1..DataUnits :
              first = <<Data(<<picture, j>>), k>> /\ Lead(j, k, from + 1) \in 0..lost
    <2>1. PICK j \in 1..n, k \in 1..DataUnits :
              first = <<Data(<<picture, j>>), k>> /\ Lead(j, k, from + 1) \in 0..lost
        BY <1>4
    <2>2. CASE k = 1
        <3>1. j = i
            BY <1>1, <2>1, <2>2, NoFrameAhead
        <3>2. PICK body : body = <<picture, i>>
            OBVIOUS
        <3>3. line[(i - 1) * DataUnits + 1] = <<Data(body), 1>>
            BY <1>1, <1>2, <2>1, <2>2, <3>1, <3>2
        <3>4. Chunk(line, i) = body \/ Chunk(line, i) = Empty
            BY <3>3, ChunkIs
        <3> QED
            BY <3>2, <3>4
    <2>3. CASE k # 1
        <3>1. SubSeq(line, from + 1, from + DataUnits) # Units(first[1])
            <4>1. SubSeq(line, from + 1, from + DataUnits)[1] = first
                <5>1. PICK S : S = {line[q] : q \in (from + 1)..(from + DataUnits)}
                    OBVIOUS
                <5>2. \A q \in (from + 1)..(from + DataUnits) : line[q] \in S
                    BY <5>1
                <5>3. \A q \in 1..((from + DataUnits) - (from + 1) + 1) :
                          SubSeq(line, from + 1, from + DataUnits)[q] = line[(from + 1) + q - 1]
                    <6>1. from + 1 \in Int /\ from + DataUnits \in Int
                        BY UnitFacts
                    <6> QED
                        BY <5>2, <6>1, SubSeqProperties
                <5>4. 1 \in 1..((from + DataUnits) - (from + 1) + 1) /\ (from + 1) + 1 - 1 = from + 1
                    BY UnitFacts
                <5> QED
                    BY <1>2, <5>3, <5>4
            <4>2. Units(first[1])[1] = <<first[1], 1>>
                <5>1. 1 \in 1..Size(first[1])
                    BY UnitFacts DEF Size
                <5> QED
                    BY <5>1 DEF Units
            <4>3. first # <<first[1], 1>>
                BY <2>1, <2>3
            <4> QED
                BY <4>1, <4>2, <4>3
        <3>2. Chunk(line, i) = Empty
            BY <1>1, <1>2, <3>1 DEF Chunk, Accepted
        <3> QED
            BY <3>2
    <2> QED
        BY <2>2, <2>3
<1> QED
    BY <1>1, <1>2, <1>3, <1>4 DEF Placed

\* Where the slave is when its buffer is full: at the picture the master uploads.  Either
\* all frames are there, or the slave has taken requests for them.
LEMMA DataPlace ==
    ASSUME Ordinary, IInv, Exact, sPc = "data", BufferFull(up, sReq.n)
    PROVE  /\ sReq.file = Here /\ sReq.n = Count /\ down = <<>>
           /\ \/ mPhase = "offer" /\ mAsked /\ Misread
              \/ mPhase = "confirm" /\ Collecting
<1>1. ~Idle /\ ~Asking /\ ~Told /\ ~Processing /\ ~Coming(0) /\ ~Coming(CtlUnits)
    BY DEF Idle, Asking, Told, Processing, Coming
<1>2. mPhase \in RequestPhases \cup {"open", "upload", "download", "done", "overrun"}
    BY Context DEF MasterTypeOK
<1>3. LinkExact
    BY DEF Exact
<1>4. mPhase \in {"offer", "upload", "confirm"}
    BY <1>1, <1>2, <1>3 DEF LinkExact, RequestPhases
<1>5. Count \in Nat \ {0} /\ Len(up) \in Nat
    BY Context, LineFacts
<1>6. Len(up) >= sReq.n * DataUnits /\ up # <<>>
    BY DEF BufferFull
<1>7. CASE mPhase = "offer"
    <2>1. Granted \/ Misread
        BY <1>1, <1>3, <1>7 DEF LinkExact
    <2>2. ~Granted
        BY <1>6 DEF Granted
    <2>3. sReq.n = Count /\ sReq.file = Here /\ down = <<>>
        BY <2>1, <2>2 DEF Misread, Taken
    <2>4. mAsked
        <3> SUFFICES ASSUME ~mAsked PROVE FALSE
            OBVIOUS
        <3>1. Len(up) < Count * DataUnits
            BY <1>1, <1>3, <1>7 DEF LinkExact
        <3>2. Count * DataUnits \in Nat
            BY <1>5, UnitFacts, UnitsBefore
        <3> QED
            BY <1>5, <1>6, <2>3, <3>1, <3>2
    <2> QED
        BY <1>7, <2>1, <2>2, <2>3, <2>4
<1>8. CASE mPhase = "upload"
    <2>1. Taken /\ mNext \in 1..Count /\ (mNext - 1) * DataUnits - Len(up) \in 0..Lost
        BY <1>3, <1>8 DEF LinkExact
    <2>2. mNext - 1 \in Nat /\ mNext - 1 < Count
        BY <1>5, <2>1
    <2>3. (mNext - 1) * DataUnits < Count * DataUnits /\ (mNext - 1) * DataUnits \in Nat
          /\ Count * DataUnits \in Nat
        BY <1>5, <2>2, UnitFacts, UnitsBefore
    <2>4. sReq.n = Count
        BY <2>1 DEF Taken
    <2>5. Len(up) <= (mNext - 1) * DataUnits
        <3>1. Lost \in Nat
            BY LostBound, Context
        <3> QED
            BY <1>5, <2>1, <2>3, <3>1
    <2> QED
        BY <1>5, <1>6, <2>3, <2>4, <2>5
<1>9. CASE mPhase = "confirm"
    <2>1. Collecting
        BY <1>1, <1>3, <1>9 DEF LinkExact
    <2> QED
        BY <1>9, <2>1 DEF Collecting, Taken
<1> QED
    BY <1>4, <1>7, <1>8, <1>9

\* receive_data_frames for the master's picture, from a buffer that holds frames of this
\* picture, each in its place, noise, or nothing that could be taken for a frame.
LEMMA ReceiveFills ==
    ASSUME Ordinary, IInv, Exact, SlaveReceiveData, UNCHANGED masterVars,
           sReq.file = Here, sReq.n = Count,
           \A i \in 1..Count : Chunk(up, i) \in {<<Files[mFile], i>>, Empty},
           mPhase = "offer" => \A i \in 1..Count : Chunk(up, i) = Empty
    PROVE  /\ SlaveExact' /\ MasterExact'
           /\ up' = Drop(up, Count * DataUnits) /\ down' = down
           /\ \/ sPc' = "process" /\ sReq' = sReq
              \/ sPc' = "wait" /\ \E i \in 1..Count : infos'[Here].addr[i] = Empty
<1>1. sPc = "data" /\ BufferFull(up, Count) /\ up' = Drop(up, Count * DataUnits) /\ down' = down
      /\ bits' = bits
    BY DEF SlaveReceiveData
<1>2. Here \in File /\ Here + 1 = mFile /\ Here < Len(Files)
      /\ Count \in Nat \ {0} /\ Count \in NFrame /\ PictureExact(Here)
    BY Context
<1>3. infos \in [File -> [alloc : BOOLEAN, addr : Slots(PictureBody), len : NFrame, total : NFrame]]
    BY Context DEF SlaveTypeOK
<1>4. infos[Here].alloc /\ bits[Here] = <<>>
    BY <1>1 DEF Exact, SlaveExact
<1>5. infos[Here].total = Count /\ Len(infos[Here].addr) = Count
      /\ \A i \in 1..Count : infos[Here].addr[i] \in {Empty, <<Files[mFile], i>>}
    BY <1>2, <1>4 DEF PictureExact, Count
<1>6. PICK slots : slots = Fill(infos[Here].addr, up, Count)
    OBVIOUS
<1>7. PICK sum : sum = Missing(infos[Here].addr, up, Count)
    OBVIOUS
<1>8. PICK len : len = ReceivedLen(Count, sum)
    OBVIOUS
<1>9. /\ infos' = [infos EXCEPT ![Here].addr = slots, ![Here].len = len]
      /\ IF sum = 0 THEN sPc' = "process" /\ UNCHANGED sReq
                    ELSE BackToWait
    <2>1. ~(Count > Len(infos[Here].addr))
        BY <1>2, <1>5
    <2> QED
        BY <1>5, <1>6, <1>7, <1>8, <2>1 DEF SlaveReceiveData
<1>10. /\ infos'[Here].alloc = infos[Here].alloc /\ infos'[Here].addr = slots
       /\ infos'[Here].len = len /\ infos'[Here].total = infos[Here].total
       /\ \A f \in File \ {Here} : infos'[f] = infos[f]
    BY <1>2, <1>3, <1>9
<1>11. /\ \A i \in 1..Count : slots[i] \in {infos[Here].addr[i], Chunk(up, i)}
       /\ \A i \in 1..Count : infos[Here].addr[i] = Empty => slots[i] = Chunk(up, i)
    BY <1>2, <1>5, <1>6, FillFacts
<1>12. \A i \in 1..Count : slots[i] \in {Empty, <<Files[mFile], i>>}
    BY <1>5, <1>11
<1>13. Len(slots) = Count /\ sum = Gaps(slots, Count)
    <2>1. infos[Here].addr \in Slots(PictureBody) /\ up \in Line(MasterFrame)
        BY <1>2, <1>3, Context DEF LineTypeOK
    <2>2. Len(slots) = Count
        BY <1>1, <1>2, <1>5, <1>6, <2>1, PictureFillType
    <2>3. Count <= Len(infos[Here].addr)
        BY <1>2, <1>5
    <2>4. Missing(infos[Here].addr, up, Count) = Gaps(Fill(infos[Here].addr, up, Count), Count)
        BY <1>1, <1>2, <2>1, <2>3, PictureGaps
    <2> QED
        BY <1>6, <1>7, <2>2, <2>4
<1>14. sum = 0 <=> \A i \in 1..Count : slots[i] # Empty
    BY <1>2, <1>13, GapCount
<1>15. len = Count <=> sum = 0
    <2>1. sum \in 0..Count
        BY <1>2, <1>7, MissingProperties
    <2>2. sum \in NFrame
        BY <1>2, <2>1, NFrameModType DEF NFrame
    <2> QED
        BY <1>2, <1>8, <2>2, LenIsTotal
<1>16. sPc' \in {"process", "wait"} /\ session' = session
    BY <1>9, MasterFixed DEF BackToWait
<1>17. Files' = Files /\ Here' = Here /\ Count' = Count
    BY MasterFixed
<1>18. PictureExact(Here)'
    <2>1. infos'[Here].total = Count /\ bits'[Here] = <<>> /\ infos'[Here].alloc
        BY <1>1, <1>4, <1>5, <1>10
    <2> QED
        BY <1>2, <1>10, <1>12, <1>13, <1>14, <1>15, <1>16, <1>17, <2>1 DEF PictureExact, Count
<1>19. SlaveExact'
    <2>1. ASSUME NEW f \in File, f # Here, f < Len(Files)
          PROVE  PictureExact(f)'
        <3>1. PictureExact(f) /\ infos'[f] = infos[f] /\ bits'[f] = bits[f]
            BY <1>1, <1>10, <2>1 DEF Exact, SlaveExact
        <3>2. ~(sPc = "data" /\ sReq.file = f)
            BY <2>1
        <3> QED
            BY <1>16, <3>1, <3>2, PictureStays
    <2>2. ASSUME NEW f \in File, ~(f < Len(Files))
          PROVE  infos'[f].total = 0 /\ bits'[f] = <<>>
        <3>1. f # Here
            BY <1>2, <2>2
        <3> QED
            BY <1>1, <1>10, <2>2, <3>1 DEF Exact, SlaveExact
    <2>3. \A f \in File : IF f < Len(Files)' THEN PictureExact(f)'
                                             ELSE infos'[f].total = 0 /\ bits'[f] = <<>>
        BY <1>17, <1>18, <2>1, <2>2
    <2>4. sPc' \in {"data", "process"} =>
              sReq'.file < Len(Files)' /\ bits'[sReq'.file] = <<>> /\ infos'[sReq'.file].alloc
        <3>1. CASE sum = 0
            BY <1>1, <1>2, <1>4, <1>9, <1>10, <1>17, <3>1
        <3>2. CASE sum # 0
            BY <1>9, <3>2 DEF BackToWait
        <3> QED
            BY <3>1, <3>2
    <2> QED
        BY <2>3, <2>4 DEF SlaveExact
<1>20. MasterExact'
    <2>1. ASSUME mPhase = "offer"
          PROVE  \E i \in 1..Count : slots[i] = Empty
        <3>1. PICK i \in 1..Count : infos[Here].addr[i] = Empty
            BY <1>4, <2>1 DEF Exact, MasterExact
        <3>2. slots[i] = Empty
            BY <1>11, <2>1, <3>1
        <3> QED
            BY <3>2
    <2> QED
        BY <1>1, <1>10, <2>1, MasterExactKeeps
<1>21. \/ sPc' = "process" /\ sReq' = sReq
       \/ sPc' = "wait" /\ \E i \in 1..Count : infos'[Here].addr[i] = Empty
    <2>1. CASE sum = 0
        BY <1>9, <2>1
    <2>2. CASE sum # 0
        BY <1>9, <1>10, <1>14, <2>2 DEF BackToWait
    <2> QED
        BY <2>1, <2>2
<1> QED
    BY <1>1, <1>19, <1>20, <1>21

\* The units that the first n data frames take are read, and what is behind them is not.
LEMMA BufferRead ==
    ASSUME Ordinary, IInv, Exact, NEW n \in Nat, Len(up) >= n * DataUnits,
           up' = Drop(up, n * DataUnits)
    PROVE  /\ Len(up') = Len(up) - n * DataUnits
           /\ Len(up) \in Nat /\ Len(up') \in Nat /\ n * DataUnits \in Nat
           /\ (up' = <<>> <=> Len(up') = 0)
           /\ \A i \in 1..(Len(up) - n * DataUnits) : up'[i] = up[n * DataUnits + i]
<1>1. up \in Seq((MasterFrame \X Nat) \cup {Noise}) /\ Len(up) \in Nat
    BY Context, LineFacts DEF LineTypeOK, Line
<1>2. n * DataUnits \in 0..Len(up)
    BY <1>1, UnitFacts, UnitsBefore
<1>3. PICK k \in 0..Len(up) : k = n * DataUnits
    BY <1>2
<1>4. /\ Drop(up, k) \in Seq((MasterFrame \X Nat) \cup {Noise})
      /\ Len(Drop(up, k)) = Len(up) - k
      /\ \A i \in 1..(Len(up) - k) : Drop(up, k)[i] = up[k + i]
    BY <1>1, DropFacts
<1>5. up' \in Seq((MasterFrame \X Nat) \cup {Noise})
    BY <1>3, <1>4
<1>6. Len(up') \in Nat /\ (up' = <<>> <=> Len(up') = 0)
    BY <1>5, LenProperties, EmptySeq
<1> QED
    BY <1>1, <1>2, <1>3, <1>4, <1>6

\* The slave takes requests for data: it finds no frame, and reads on for requests.
LEMMA MisreadExact ==
    ASSUME Ordinary, IInv, Exact, SlaveReceiveData, UNCHANGED masterVars,
           mPhase = "offer", mAsked, Misread
    PROVE  Exact'
<1>1. sReq.file = Here /\ sReq.n = Count /\ Count \in Nat \ {0} /\ down = <<>>
    BY Context DEF Misread, Taken
<1>2. Len(up) >= Count * DataUnits
    BY <1>1 DEF SlaveReceiveData, BufferFull
<1>3. Count * DataUnits \in Nat /\ Len(up) \in Nat
    BY <1>1, UnitFacts, UnitsBefore, LineFacts, Context
<1>4. ASSUME NEW i \in 1..Count
      PROVE  Chunk(up, i) = Empty
    <2>1. (i - 1) * DataUnits + 1 \in 1..(Count * DataUnits)
        BY <1>1, UnitFacts, ChunkInside
    <2>2. (i - 1) * DataUnits + 1 \in 1..Len(up)
        BY <1>2, <1>3, <2>1
    <2>3. up[(i - 1) * DataUnits + 1] = Noise \/ up[(i - 1) * DataUnits + 1][1].kind = "ctl"
        BY <2>2 DEF Misread
    <2> QED
        BY <2>3, ChunkNone
<1>5. /\ SlaveExact' /\ MasterExact'
      /\ up' = Drop(up, Count * DataUnits) /\ down' = down
    BY <1>1, <1>4, ReceiveFills
<1>6. sPc' = "wait"
    <2>1. /\ \/ sPc' = "process" /\ sReq' = sReq
             \/ sPc' = "wait"
          /\ infos'[Here].alloc => \E i \in 1..Count : infos'[Here].addr[i] = Empty
        <3>1. Here' = Here /\ Count' = Count /\ mPhase' = mPhase
            BY MasterFixed
        <3> QED
            BY <1>1, <1>4, <1>5, <3>1, ReceiveFills DEF MasterExact
    <2>2. sPc' # "process"
        <3> SUFFICES ASSUME sPc' = "process" PROVE FALSE
            OBVIOUS
        <3>1. SlaveSafe'
            BY SlaveStepSafe DEF IInv, SlaveStep
        <3>2. sReq' = sReq
            BY <1>5, <2>1
        <3>3. infos'[Here].alloc
            BY <1>1, <1>5, <3>2 DEF SlaveExact
        <3>4. /\ infos'[Here].total = Count
              /\ \A i \in 1..Count : infos'[Here].addr[i] # Empty
            BY <1>1, <3>1, <3>2 DEF SlaveSafe, SlaveInv
        <3> QED
            BY <2>1, <3>3, <3>4
    <2> QED
        BY <2>1, <2>2
<1>7. /\ Len(up') = Len(up) - Count * DataUnits
      /\ Len(up') \in Nat
    BY <1>1, <1>2, <1>5, BufferRead
<1>8. Len(up') < CtlUnits
    <2>1. Len(up) < Count * DataUnits + CtlUnits
        BY DEF Misread
    <2> QED
        BY <1>3, <1>7, <2>1, UnitFacts
<1>9. Asking'
    <2>1. Pending(Request)'
        BY <1>7, <1>8, UnitFacts DEF Pending
    <2> QED
        BY <1>1, <1>5, <1>6, <2>1 DEF Asking
<1>10. LinkExact'
    <2>1. mPhase' \in RequestPhases /\ mAsked'
        BY MasterFixed DEF RequestPhases
    <2> QED
        BY <1>9, <2>1, AskingLink
<1> QED
    BY <1>5, <1>10 DEF Exact

\* The buffer is full: the picture is complete, or a frame with noise, or one that is not
\* in its place, is missing.
LEMMA CollectExact ==
    ASSUME Ordinary, IInv, Exact, SlaveReceiveData, UNCHANGED masterVars,
           mPhase = "confirm", Collecting
    PROVE  Exact'
<1>1. /\ sReq.file = Here /\ sReq.n = Count /\ Count \in Nat \ {0} /\ down = <<>>
      /\ Shifted
    BY Context DEF Collecting, Taken
<1>2. Len(up) >= Count * DataUnits
    BY <1>1 DEF SlaveReceiveData, BufferFull
<1>3. Count * DataUnits \in Nat /\ Len(up) \in Nat
    BY <1>1, UnitFacts, UnitsBefore, LineFacts, Context
<1>4. ASSUME NEW i \in 1..Count
      PROVE  Chunk(up, i) \in {<<Files[mFile], i>>, Empty}
    <2>1. Lost \in Nat /\ Lost < DataUnits
        BY LostBound, Context
    <2>2. (i - 1) * DataUnits + 1 \in 1..Len(up)
        <3>1. (i - 1) * DataUnits + 1 \in 1..(Count * DataUnits)
            BY <1>1, UnitFacts, ChunkInside
        <3> QED
            BY <1>2, <1>3, <3>1
    <2>3. Placed(Files[mFile], Count, up[(i - 1) * DataUnits + 1], (i - 1) * DataUnits + 1, Lost)
        BY <1>1, <2>2 DEF Shifted
    <2> QED
        BY <1>1, <2>1, <2>3, ChunkPlaced
<1>5. /\ SlaveExact' /\ MasterExact'
      /\ up' = Drop(up, Count * DataUnits) /\ down' = down
      /\ \/ sPc' = "process" /\ sReq' = sReq
         \/ sPc' = "wait"
    BY <1>1, <1>4, ReceiveFills
<1>6. /\ Len(up') = Len(up) - Count * DataUnits
      /\ (up' = <<>> <=> Len(up') = 0)
      /\ \A i \in 1..(Len(up) - Count * DataUnits) : up'[i] = up[Count * DataUnits + i]
    BY <1>1, <1>2, <1>5, BufferRead
<1>7. IF mAsked THEN Pending(Request)' ELSE up' = <<>>
    <2>1. ASSUME ~mAsked
          PROVE  up' = <<>>
        <3>1. Len(up) <= Count * DataUnits
            BY <2>1 DEF Collecting
        <3> QED
            BY <1>2, <1>3, <1>6, <3>1
    <2>2. ASSUME mAsked
          PROVE  Pending(Request)'
        <3>1. /\ Len(up) <= Count * DataUnits + CtlUnits
              /\ Len(up) = Count * DataUnits + CtlUnits =>
                    up[Count * DataUnits + 1] \in {<<Request, 1>>, Noise}
            BY DEF Collecting
        <3>2. Len(up') <= CtlUnits
            BY <1>3, <1>6, <3>1, UnitFacts
        <3>3. ASSUME Len(up') = CtlUnits
              PROVE  up'[1] \in {<<Request', 1>>, Noise}
            <4>1. Len(up) = Count * DataUnits + CtlUnits /\ 1 \in 1..(Len(up) - Count * DataUnits)
                BY <1>3, <1>6, <3>3, UnitFacts
            <4> QED
                BY <1>6, <3>1, <4>1, MasterFixed
        <3> QED
            BY <3>2, <3>3 DEF Pending
    <2> QED
        BY <2>1, <2>2
<1>8. mPhase' = "confirm" /\ mAsked' = mAsked /\ Here' = Here /\ Count' = Count /\ mAsked \in BOOLEAN
    BY MasterFixed, Context DEF MasterTypeOK
<1>9. LinkExact'
    <2>1. CASE sPc' = "process" /\ sReq' = sReq
        <3>1. Processing'
            BY <1>1, <1>5, <1>7, <1>8, <2>1 DEF Processing
        <3> QED
            BY <1>8, <3>1 DEF LinkExact
    <2>2. CASE sPc' = "wait" /\ mAsked
        <3>1. Asking'
            BY <1>1, <1>5, <1>7, <2>2 DEF Asking
        <3> QED
            BY <1>8, <2>2, <3>1 DEF LinkExact
    <2>3. CASE sPc' = "wait" /\ ~mAsked
        <3>1. Idle'
            BY <1>1, <1>5, <1>7, <2>3 DEF Idle
        <3> QED
            BY <1>8, <2>3, <3>1 DEF LinkExact
    <2> QED
        BY <1>5, <1>8, <2>1, <2>2, <2>3
<1> QED
    BY <1>5, <1>9 DEF Exact

\* The slave processes only the picture that the master waits for.
LEMMA ProcessPlace ==
    ASSUME Ordinary, IInv, Exact, sPc = "process"
    PROVE  mPhase = "confirm" /\ Processing
<1>1. mPhase \in RequestPhases \cup {"open", "upload", "download", "done", "overrun"}
    BY Context DEF MasterTypeOK
<1>2. ~Idle /\ ~Asking /\ ~Told /\ ~Granted /\ ~Misread /\ ~Taken /\ ~Collecting
      /\ ~Coming(0) /\ ~Coming(CtlUnits)
    BY DEF Idle, Asking, Told, Granted, Misread, Taken, Collecting, Coming
<1> QED
    BY <1>1, <1>2 DEF Exact, LinkExact, RequestPhases

\* The stream is made of the whole picture.
LEMMA ProcessExact ==
    ASSUME Ordinary, IInv, Exact, Encodes, UNCHANGED masterVars
    PROVE  /\ Exact'
           /\ bits[Here] = <<>>
           /\ bits' = [bits EXCEPT ![Here] = Whole(mFile)]
           /\ mPhase \in UploadPhases
<1>1. mPhase = "confirm" /\ Processing
    BY ProcessPlace DEF Encodes, SlaveProcess
<1>2. sPc = "process" /\ sReq.file = Here /\ sReq.n = Count /\ down = <<>>
    BY <1>1 DEF Processing
<1>3. /\ bits' = [bits EXCEPT ![Here] = FramesToData(infos[Here].addr, Count)]
      /\ sPc' = "wait" /\ infos' = infos /\ up' = up /\ down' = down
    BY <1>2 DEF Encodes, SlaveProcess, BackToWait, Picture, lineVars
<1>4. Here \in File /\ Here + 1 = mFile /\ Here < Len(Files) /\ mFile \in 1..Len(Files)
      /\ Count \in Nat \ {0} /\ Count \in NFrame /\ PictureExact(Here)
    BY Context
<1>5. /\ infos \in [File -> [alloc : BOOLEAN, addr : Slots(PictureBody), len : NFrame, total : NFrame]]
      /\ bits \in [File -> Slots(PictureBody)]
    BY Context DEF SlaveTypeOK
<1>6. infos[Here].alloc /\ bits[Here] = <<>>
    BY <1>2 DEF Exact, SlaveExact
<1>7. infos[Here].total = Count /\ Len(infos[Here].addr) = Count
      /\ \A i \in 1..Count : infos[Here].addr[i] \in {Empty, <<Files[mFile], i>>}
    BY <1>4, <1>6 DEF PictureExact, Count
<1>8. \A i \in 1..Count : infos[Here].addr[i] # Empty
    BY <1>2 DEF IInv, SlaveSafe, SlaveInv
<1>9. infos[Here].len = infos[Here].total
    BY <1>2, <1>4, <1>6, <1>7, <1>8 DEF PictureExact
<1>10. FramesToData(infos[Here].addr, Count) = Whole(mFile)
    BY <1>1, WholePicture
<1>11. /\ bits' = [bits EXCEPT ![Here] = Whole(mFile)]
       /\ bits'[Here] = Whole(mFile)
       /\ \A f \in File \ {Here} : bits'[f] = bits[f]
    BY <1>3, <1>4, <1>5, <1>10
<1>12. Files' = Files /\ Here' = Here /\ Count' = Count /\ session' = session
       /\ mAsked' = mAsked /\ mPhase' = mPhase /\ Request' = Request
       /\ \A k : Whole(k)' = Whole(k)
    BY MasterFixed
<1>13. PictureExact(Here)'
    <2>1. bits'[Here] \in {<<>>, Whole(Here + 1)'}
        BY <1>4, <1>11, <1>12
    <2> QED
        BY <1>3, <1>4, <1>6, <1>7, <1>8, <1>9, <1>12, <2>1 DEF PictureExact, Count
<1>14. SlaveExact'
    <2>1. ASSUME NEW f \in File, f # Here, f < Len(Files)
          PROVE  PictureExact(f)'
        <3>1. PictureExact(f) /\ infos'[f] = infos[f] /\ bits'[f] = bits[f]
            BY <1>3, <1>11, <2>1 DEF Exact, SlaveExact
        <3> QED
            BY <1>2, <1>12, <3>1, PictureStays
    <2>2. ASSUME NEW f \in File, ~(f < Len(Files))
          PROVE  infos'[f].total = 0 /\ bits'[f] = <<>>
        <3>1. f # Here
            BY <1>4, <2>2
        <3> QED
            BY <1>3, <1>11, <2>2, <3>1 DEF Exact, SlaveExact
    <2>3. \A f \in File : IF f < Len(Files)' THEN PictureExact(f)'
                                             ELSE infos'[f].total = 0 /\ bits'[f] = <<>>
        BY <1>12, <1>13, <2>1, <2>2
    <2> QED
        BY <1>3, <2>3 DEF SlaveExact
<1>15. MasterExact'
    <2>1. Whole(mFile) # <<>>
        BY Context
    <2>2. UNCHANGED <<session, mPhase, mFile, nFiles, mCount, saved>>
        BY DEF masterVars
    <2>3. session = 1 /\ (\A k \in 1..(mFile - 1) : nFiles[k] = k - 1 /\ bits[k - 1] # <<>>)
          /\ (\A k \in 1..Len(Files) : saved[k] = <<>>)
          /\ nFiles[mFile] = Here /\ mCount = Count
        BY <1>1 DEF Exact, MasterExact, UploadPhases
    <2>4. ASSUME NEW k \in 1..(mFile - 1)
          PROVE  bits'[k - 1] # <<>>
        <3>1. bits[k - 1] # <<>>
            BY <2>3
        <3>2. k \in 1..Len(Files) /\ session = 1
            BY <1>4, Context, FilesFacts
        <3>3. k - 1 \in File
            BY <3>2, FilesFacts
        <3> QED
            BY <1>11, <2>1, <3>1, <3>3
    <2> QED
        BY <1>1, <1>12, <2>2, <2>3, <2>4 DEF MasterExact, UploadPhases, FetchPhases
<1>16. LinkExact'
    <2>1. CASE mAsked
        <3>1. Pending(Request)'
            BY <1>1, <1>3, <1>12, <2>1 DEF Processing, Pending
        <3>2. Asking'
            BY <1>2, <1>3, <3>1 DEF Asking
        <3> QED
            BY <1>1, <1>12, <2>1, <3>2 DEF LinkExact
    <2>2. CASE ~mAsked
        <3>1. Idle'
            BY <1>1, <1>2, <1>3, <2>2 DEF Processing, Idle
        <3> QED
            BY <1>1, <1>12, <2>2, <3>1 DEF LinkExact
    <2> QED
        BY <2>1, <2>2
<1> QED
    BY <1>1, <1>6, <1>11, <1>14, <1>15, <1>16 DEF Exact, UploadPhases

\* The pictures of the slave stay exact while it does anything else.
LEMMA SlaveExactMoves ==
    ASSUME Exact, infos' = infos, bits' = bits, session' = session,
           sPc # "data", sPc' \notin {"data", "process"}
    PROVE  SlaveExact'
<1>1. Files' = Files
    BY DEF Files
<1>2. ASSUME NEW f \in File, f < Len(Files)
      PROVE  PictureExact(f)'
    <2>1. PictureExact(f) /\ infos'[f] = infos[f] /\ bits'[f] = bits[f]
        BY <1>2 DEF Exact, SlaveExact
    <2> QED
        BY <2>1, PictureStays
<1>3. \A f \in File : ~(f < Len(Files)) => infos'[f].total = 0 /\ bits'[f] = <<>>
    BY DEF Exact, SlaveExact
<1>4. \A f \in File : IF f < Len(Files)' THEN PictureExact(f)'
                                         ELSE infos'[f].total = 0 /\ bits'[f] = <<>>
    BY <1>1, <1>2, <1>3
<1> QED
    BY <1>4 DEF SlaveExact

\* The stream of the picture that is downloaded is there.
LEMMA StreamThere ==
    ASSUME Ordinary, IInv, Exact, mPhase \notin UploadPhases
    PROVE  bits[Here] = Whole(mFile)
<1>1. mFile \in 1..Len(Files) /\ Here + 1 = mFile /\ PictureExact(Here)
    BY Context
<1>2. bits[mFile - 1] # <<>>
    BY <1>1 DEF Exact, MasterExact
<1> QED
    BY <1>1, <1>2 DEF PictureExact, Here

\* A RECV is answered with the number of frames of the stream.
LEMMA RecvExact ==
    ASSUME Ordinary, IInv, Exact, SlaveRecv, UNCHANGED masterVars
    PROVE  Exact'
<1>1. FromMaster /\ Head1(up).type = "RECV" /\ sPc = "wait"
    BY DEF SlaveRecv, Requested, FromMaster
<1>2. mPhase # "overrun"
    BY OverrunQuiet DEF SlaveStep
<1>3. Head1(up) = Request /\ mPhase \in RequestPhases /\ mAsked /\ Asking /\ up' = <<>>
    BY <1>1, <1>2, RequestIs
<1>4. Request.type = RequestType /\ Request.file = Here
    BY <1>3, RequestFields
<1>5. mPhase = "fetch"
    BY <1>1, <1>3, <1>4 DEF RequestType, RequestPhases
<1>6. bits[Here] = Whole(mFile)
    BY <1>5, StreamThere DEF UploadPhases
<1>7. /\ Replied(RecvAnswer) \/ ReplyTimedOut
      /\ sReq' = Request /\ sNext' = 1 /\ sPc' = "send" /\ infos' = infos /\ bits' = bits
    BY <1>3, <1>4, <1>6 DEF SlaveRecv, RecvAnswer, StreamCount
<1>8. RecvAnswer.kind = "ctl" /\ down = <<>>
    BY <1>3 DEF RecvAnswer, Ctl, Asking
<1>9. Len(down') = CtlUnits /\ \A i \in 1..CtlUnits : down'[i] = <<RecvAnswer, i>>
    BY <1>7, <1>8, ReplyFacts
<1>10. /\ StreamCount' = StreamCount /\ Here' = Here /\ RecvAnswer' = RecvAnswer
       /\ mPhase' = mPhase /\ mAsked' = mAsked /\ session' = session
    BY MasterFixed
<1>11. Announced'
    BY <1>9, <1>10 DEF Announced
<1>12. Coming(CtlUnits)'
    <2>1. StreamCount \in Nat \ {0}
        BY Context
    <2>2. sNext' \in 1..StreamCount' /\ sNext' - 1 = 0
        BY <1>7, <1>10, <2>1
    <2>3. Len(down') = CtlUnits + (sNext' - 1) * DataUnits
        <3>1. (sNext' - 1) * DataUnits = 0
            BY <2>2, UnitFacts
        <3> QED
            BY <1>9, <3>1, UnitFacts
    <2>4. Downloaded(CtlUnits, sNext - 1)'
        <3>1. \A j : j \notin 1..(sNext' - 1)
            BY <2>2
        <3> QED
            BY <2>3, <3>1 DEF Downloaded
    <2>5. sReq'.file = Here'
        BY <1>4, <1>7, <1>10
    <2> QED
        BY <1>3, <1>7, <2>2, <2>4, <2>5 DEF Coming
<1>13. LinkExact'
    BY <1>3, <1>5, <1>10, <1>11, <1>12 DEF LinkExact
<1>14. SlaveExact'
    BY <1>1, <1>7, <1>10, SlaveExactMoves
<1>15. MasterExact'
    BY <1>5, <1>7, MasterExactKeeps
<1> QED
    BY <1>13, <1>14, <1>15 DEF Exact

\* One more frame of the stream is on the line.
LEMMA DownloadGrows ==
    ASSUME LineTypeOK, NEW o \in Nat, NEW m \in Nat, Downloaded(o, m),
           down' = down \o Units(StreamFrame(Whole(mFile), m + 1))
    PROVE  /\ Len(down') = o + (m + 1) * DataUnits
           /\ \A i \in 1..Len(down) : down'[i] = down[i]
           /\ \A j \in 1..(m + 1) :
                 \/ down'[o + (j - 1) * DataUnits + 1] = <<StreamFrame(Whole(mFile), j), 1>>
                 \/ down'[o + (j - 1) * DataUnits + 1] = Noise
<1>1. down \in Seq((SlaveFrame \X Nat) \cup {Noise}) /\ Len(down) \in Nat
    BY LineFacts DEF LineTypeOK, Line
<1>2. PICK frame : frame = StreamFrame(Whole(mFile), m + 1)
    OBVIOUS
<1>3. Size(frame) = DataUnits
    BY <1>2 DEF Size, StreamFrame, Data
<1>4. DataUnits \in Nat \ {0} /\ m * DataUnits \in Nat /\ (m + 1) * DataUnits = m * DataUnits + DataUnits
    BY UnitFacts, UnitsBefore
<1>5. Len(down) = o + m * DataUnits
    BY DEF Downloaded
<1>6. /\ Len(down \o Units(frame)) = Len(down) + DataUnits
      /\ \A i \in 1..Len(down) : (down \o Units(frame))[i] = down[i]
      /\ \A i \in 1..DataUnits : (down \o Units(frame))[Len(down) + i] = <<frame, i>>
    <2>1. /\ Len(down \o Units(frame)) = Len(down) + Size(frame)
          /\ \A i \in 1..Len(down) : (down \o Units(frame))[i] = down[i]
          /\ \A i \in 1..Size(frame) : (down \o Units(frame))[Len(down) + i] = <<frame, i>>
        BY <1>1, AppendFacts
    <2> QED
        BY <1>3, <2>1
<1>7. /\ Len(down') = Len(down) + DataUnits
      /\ \A i \in 1..Len(down) : down'[i] = down[i]
      /\ down'[Len(down) + 1] = <<frame, 1>>
    <2>1. 1 \in 1..DataUnits
        BY <1>4
    <2> QED
        BY <1>2, <1>6, <2>1
<1>8. Len(down') = o + (m + 1) * DataUnits
    BY <1>4, <1>5, <1>7
<1>9. ASSUME NEW j \in 1..(m + 1)
      PROVE  \/ down'[o + (j - 1) * DataUnits + 1] = <<StreamFrame(Whole(mFile), j), 1>>
             \/ down'[o + (j - 1) * DataUnits + 1] = Noise
    <2>1. CASE j = m + 1
        <3>1. j - 1 = m
            BY <2>1
        <3>2. down'[o + m * DataUnits + 1] = <<frame, 1>>
            BY <1>5, <1>7
        <3> QED
            BY <1>2, <2>1, <3>1, <3>2
    <2>2. CASE j # m + 1
        <3>1. j \in 1..m
            BY <2>2
        <3>2. PICK p : p = (j - 1) * DataUnits + 1
            OBVIOUS
        <3>3. p \in 1..(m * DataUnits)
            BY <1>4, <3>1, <3>2, ChunkInside
        <3>4. o + p \in 1..Len(down)
            BY <1>4, <1>5, <3>3
        <3>5. down'[o + p] = down[o + p]
            BY <1>7, <3>4
        <3>6. o + p = o + (j - 1) * DataUnits + 1
            <4>1. (j - 1) * DataUnits \in Int
                BY <1>4, <3>1, SMT
            <4> QED
                BY <3>2, <4>1
        <3>7. down[o + (j - 1) * DataUnits + 1] \in {<<StreamFrame(Whole(mFile), j), 1>>, Noise}
            BY <3>1 DEF Downloaded
        <3> QED
            BY <3>5, <3>6, <3>7
    <2> QED
        BY <2>1, <2>2
<1> QED
    BY <1>7, <1>8, <1>9

\* The slave sends the next frame of the stream.
LEMMA SendFrameExact ==
    ASSUME Ordinary, IInv, Exact, SlaveSendFrame, UNCHANGED masterVars
    PROVE  Exact'
<1>1. sPc = "send" /\ up' = up /\ infos' = infos /\ bits' = bits
    BY DEF SlaveSendFrame
<1>2. mPhase \in RequestPhases \cup {"open", "upload", "download", "done", "overrun"}
    BY Context DEF MasterTypeOK
<1>3. ~Idle /\ ~Asking /\ ~Told /\ ~Granted /\ ~Misread /\ ~Taken /\ ~Collecting /\ ~Processing
    BY <1>1 DEF Idle, Asking, Told, Granted, Misread, Taken, Collecting, Processing
<1>4. \/ mPhase = "fetch" /\ mAsked /\ Announced /\ Coming(CtlUnits)
      \/ mPhase = "download" /\ ~mAsked /\ mGot = StreamCount /\ Coming(0)
    BY <1>1, <1>2, <1>3 DEF Exact, LinkExact, RequestPhases
<1>5. PICK o \in Nat : /\ Coming(o)
                       /\ \/ mPhase = "fetch" /\ mAsked /\ Announced /\ o = CtlUnits
                          \/ mPhase = "download" /\ ~mAsked /\ mGot = StreamCount /\ o = 0
    BY <1>4, UnitFacts
<1>6. /\ up = <<>> /\ sReq.file = Here /\ sNext \in 1..StreamCount /\ Downloaded(o, sNext - 1)
    BY <1>1, <1>5 DEF Coming
<1>7. StreamCount \in Nat \ {0} /\ LineTypeOK
    BY Context
<1>8. PICK m \in Nat : m = sNext - 1
    BY <1>6, <1>7
<1>9. sNext = m + 1 /\ m + 1 <= StreamCount
    BY <1>6, <1>7, <1>8
<1>10. bits[Here] = Whole(mFile)
    BY <1>5, StreamThere DEF UploadPhases
<1>11. down' = down \o Units(StreamFrame(Whole(mFile), m + 1))
    <2>1. ~ReplyTimedOut
        BY NoOtherFault DEF ReplyTimedOut
    <2> QED
        BY <1>6, <1>9, <1>10, <2>1 DEF SlaveSendFrame, Replied
<1>12. /\ Len(down') = o + (m + 1) * DataUnits
       /\ \A i \in 1..Len(down) : down'[i] = down[i]
       /\ \A j \in 1..(m + 1) :
             \/ down'[o + (j - 1) * DataUnits + 1] = <<StreamFrame(Whole(mFile), j), 1>>
             \/ down'[o + (j - 1) * DataUnits + 1] = Noise
    BY <1>6, <1>7, <1>8, <1>11, DownloadGrows
<1>13. /\ StreamCount' = StreamCount /\ Here' = Here /\ RecvAnswer' = RecvAnswer
       /\ mPhase' = mPhase /\ mAsked' = mAsked /\ session' = session /\ mGot' = mGot
       /\ mFile' = mFile /\ Whole(mFile)' = Whole(mFile)
    <2>1. \A k : Whole(k)' = Whole(k)
        BY MasterFixed
    <2>2. mFile' = mFile
        BY MasterFixed
    <2>3. Whole(mFile)' = Whole(mFile)
        BY <2>1, <2>2 DEF Whole, Files
    <2> QED
        BY <2>2, <2>3, MasterFixed
<1>14. IF m + 1 = StreamCount THEN sPc' = "wait"
                              ELSE sPc' = "send" /\ sReq' = sReq /\ sNext' = m + 2
    <2>1. LastFrame(bits[sReq.file]) <=> m + 1 = StreamCount
        BY <1>6, <1>7, <1>9, <1>10 DEF LastFrame, StreamCount
    <2> QED
        BY <1>9, <2>1 DEF SlaveSendFrame, BackToWait
<1>15. Coming(o)'
    <2>1. CASE m + 1 = StreamCount
        <3>1. Downloaded(o, StreamCount)'
            BY <1>12, <1>13, <2>1 DEF Downloaded
        <3> QED
            BY <1>1, <1>6, <1>13, <1>14, <2>1, <3>1 DEF Coming
    <2>2. CASE m + 1 # StreamCount
        <3>1. sNext' \in 1..StreamCount' /\ sNext' - 1 = m + 1
            BY <1>7, <1>9, <1>13, <1>14, <2>2
        <3>2. Downloaded(o, sNext - 1)'
            BY <1>12, <1>13, <3>1 DEF Downloaded
        <3> QED
            BY <1>1, <1>6, <1>13, <1>14, <2>2, <3>1, <3>2 DEF Coming
    <2> QED
        BY <2>1, <2>2
<1>16. mPhase = "fetch" => Announced'
    <2> SUFFICES ASSUME mPhase = "fetch" PROVE Announced'
        OBVIOUS
    <2>1. Announced /\ o = CtlUnits
        BY <1>5
    <2>2. Len(down) = o + m * DataUnits
        BY <1>6, <1>8 DEF Downloaded
    <2>3. m * DataUnits \in Nat
        BY UnitFacts, UnitsBefore
    <2>4. \A i \in 1..CtlUnits : i \in 1..Len(down)
        BY <2>1, <2>2, <2>3, UnitFacts
    <2> QED
        BY <1>12, <1>13, <2>1, <2>4 DEF Announced
<1>17. LinkExact'
    BY <1>5, <1>13, <1>15, <1>16 DEF LinkExact
<1>18. SlaveExact'
    BY <1>1, <1>13, <1>14, SlaveExactMoves
<1>19. MasterExact'
    BY <1>1, <1>5, MasterExactKeeps
<1> QED
    BY <1>17, <1>18, <1>19 DEF Exact

\* Every step of the slave.
LEMMA SlaveExactStep ==
    ASSUME Ordinary, IInv, Exact, SlaveActs
    PROVE  Exact'
<1>1. UNCHANGED masterVars /\ SlaveStep
    BY DEF SlaveActs
<1>2. CASE SlaveDiscard
    BY <1>1, <1>2, DiscardExact
<1>3. CASE SlaveQuery
    BY <1>1, <1>3, QueryExact
<1>4. CASE SlaveSend
    BY <1>1, <1>4, SendExact
<1>5. CASE SlaveReceiveData
    <2>1. \/ mPhase = "offer" /\ mAsked /\ Misread
          \/ mPhase = "confirm" /\ Collecting
        BY <1>5, DataPlace DEF SlaveReceiveData
    <2> QED
        BY <1>1, <1>5, <2>1, MisreadExact, CollectExact
<1>6. CASE Encodes
    BY <1>1, <1>6, ProcessExact
<1>7. CASE SlaveRecv
    BY <1>1, <1>7, RecvExact
<1>8. CASE SlaveSendFrame
    BY <1>1, <1>8, SendFrameExact
<1> QED
    BY <1>1, <1>2, <1>3, <1>4, <1>5, <1>6, <1>7, <1>8, ProcessCases, NoRefusal DEF SlaveStep

-----------------------------------------------------------------------------
(* What the line does.                                                     *)

\* Noise in place of some units moves neither program.
LEMMA NoiseLink ==
    ASSUME Ordinary, IInv, Exact, UNCHANGED <<slaveVars, masterVars>>,
           Len(up') = Len(up), (up' = <<>> <=> up = <<>>),
           Len(down') = Len(down), (down' = <<>> <=> down = <<>>),
           \A i \in 1..Len(up) : up'[i] = up[i] \/ up'[i] = Noise,
           \A i \in 1..Len(down) : down'[i] = down[i] \/ down'[i] = Noise,
           mPhase = "fetch" /\ Announced /\ Coming(CtlUnits) => Announced',
           faults' = faults \/ faults' = faults + 1
    PROVE  LinkExact'
<1>1. UNCHANGED <<sPc, sReq, infos, bits, sNext>>
    BY DEF slaveVars
<1>2. /\ Here' = Here /\ Count' = Count /\ Request' = Request /\ SendAnswer' = SendAnswer
      /\ StreamCount' = StreamCount /\ mFile' = mFile /\ mPhase' = mPhase /\ mAsked' = mAsked
      /\ mNext' = mNext /\ mGot' = mGot /\ \A k : Whole(k)' = Whole(k)
      /\ Files' = Files
    BY MasterFixed
<1>3. QueryAnswer' = QueryAnswer
    BY <1>1, <1>2 DEF QueryAnswer, GetStatus
<1>4. Len(up) \in Nat /\ Len(down) \in Nat /\ Count \in Nat \ {0} /\ StreamCount \in Nat \ {0}
      /\ CtlUnits \in Nat \ {0} /\ DataUnits \in Nat \ {0}
    BY Context, LineFacts, UnitFacts
<1>5. Pending(Request) => Pending(Request)'
    BY <1>2, <1>4 DEF Pending
<1>6. ASSUME NEW frame, Carries(frame)
      PROVE  Len(down') = CtlUnits /\ down'[1] \in {<<frame, 1>>, Noise}
    BY <1>4, <1>6 DEF Carries
<1>7. (Idle => Idle') /\ (Asking => Asking')
    BY <1>1, <1>5 DEF Idle, Asking
<1>8. Told => Told'
    <2> SUFFICES ASSUME Told PROVE Told'
        OBVIOUS
    <2>1. Len(down') = CtlUnits /\ down'[1] \in {<<QueryAnswer', 1>>, Noise}
        BY <1>3, <1>6 DEF Told
    <2> QED
        BY <1>1, <2>1 DEF Told, Carries
<1>9. Taken => Taken'
    BY <1>1, <1>2 DEF Taken
<1>10. Granted => Granted'
    <2> SUFFICES ASSUME Granted PROVE Granted'
        OBVIOUS
    <2>1. Len(down') = CtlUnits /\ down'[1] \in {<<SendAnswer', 1>>, Noise}
        BY <1>2, <1>6 DEF Granted
    <2> QED
        BY <1>9, <2>1 DEF Granted, Carries
<1>11. Misread => Misread'
    <2> SUFFICES ASSUME Misread PROVE Misread'
        OBVIOUS
    <2>1. \A i \in 1..Len(up') : up'[i] = Noise \/ up'[i][1].kind = "ctl"
        BY DEF Misread
    <2>2. Len(up') < Count' * DataUnits + CtlUnits
        BY <1>2 DEF Misread
    <2> QED
        BY <1>9, <2>1, <2>2 DEF Misread
<1>12. Lost \in Nat /\ Lost' \in Nat /\ Lost <= Lost'
    <2>1. faults \in Nat
        BY Context DEF LineTypeOK
    <2> QED
        BY <2>1, LostGrows
<1>13. Shifted => Shifted'
    <2> SUFFICES ASSUME Shifted, NEW p \in 1..Len(up)
                 PROVE  Placed(Files[mFile], Count, up'[p], p, Lost')
        BY <1>2 DEF Shifted
    <2>1. Placed(Files[mFile], Count, up[p], p, Lost')
        BY <1>12, PlacedStays DEF Shifted
    <2>2. up'[p] = up[p] \/ up'[p] = Noise
        OBVIOUS
    <2>3. CASE up'[p] = Noise
        BY <2>3 DEF Placed
    <2> QED
        BY <2>1, <2>2, <2>3
<1>14. Collecting => Collecting'
    <2> SUFFICES ASSUME Collecting PROVE Collecting'
        OBVIOUS
    <2>1. Count * DataUnits \in Nat
        BY <1>4, UnitsBefore
    <2>2. Len(up) = Count * DataUnits + CtlUnits =>
              up'[Count * DataUnits + 1] \in {<<Request, 1>>, Noise}
        <3> SUFFICES ASSUME Len(up) = Count * DataUnits + CtlUnits
                     PROVE  up'[Count * DataUnits + 1] \in {<<Request, 1>>, Noise}
            OBVIOUS
        <3>1. up[Count * DataUnits + 1] \in {<<Request, 1>>, Noise}
            BY DEF Collecting
        <3>2. Count * DataUnits + 1 \in 1..Len(up)
            BY <1>4, <2>1
        <3> QED
            BY <3>1, <3>2
    <2>3. /\ Len(up') <= Count * DataUnits + CtlUnits
          /\ ~mAsked => Len(up') <= Count * DataUnits
        BY DEF Collecting
    <2>4. Taken' /\ down' = <<>> /\ Shifted'
        BY <1>9, <1>13 DEF Collecting
    <2> QED
        BY <1>2, <2>2, <2>3, <2>4 DEF Collecting
<1>15. Processing => Processing'
    BY <1>1, <1>2, <1>5 DEF Processing
<1>16. ASSUME NEW o \in Nat, NEW m \in Nat, Downloaded(o, m)
       PROVE  /\ Len(down') = o + m * DataUnits
              /\ \A j \in 1..m :
                    down'[o + (j - 1) * DataUnits + 1]
                        \in {<<StreamFrame(Whole(mFile), j), 1>>, Noise}
    <2>1. Len(down) = o + m * DataUnits
        BY <1>16 DEF Downloaded
    <2>2. ASSUME NEW j \in 1..m
          PROVE  down'[o + (j - 1) * DataUnits + 1] \in {<<StreamFrame(Whole(mFile), j), 1>>, Noise}
        <3>1. PICK p : p = (j - 1) * DataUnits + 1
            OBVIOUS
        <3>2. p \in 1..(m * DataUnits) /\ m * DataUnits \in Nat
            BY <1>4, <3>1, ChunkInside, UnitsBefore
        <3>3. o + p \in 1..Len(down)
            BY <2>1, <3>2
        <3>4. o + p = o + (j - 1) * DataUnits + 1
            <4>1. j - 1 \in Nat /\ (j - 1) * DataUnits \in Nat
                BY <1>4, UnitsBefore
            <4> QED
                BY <3>1, <4>1
        <3>5. down[o + p] \in {<<StreamFrame(Whole(mFile), j), 1>>, Noise}
            BY <1>16, <3>4 DEF Downloaded
        <3>6. down'[o + p] \in {<<StreamFrame(Whole(mFile), j), 1>>, Noise}
            BY <3>3, <3>5
        <3> QED
            BY <3>4, <3>6
    <2> QED
        BY <2>1, <2>2
<1>17. ASSUME NEW o \in Nat, Coming(o)
       PROVE  Coming(o)'
    <2>1. Whole(mFile)' = Whole(mFile)
        BY <1>2 DEF Whole
    <2>2. CASE sPc = "send" /\ sReq.file = Here /\ sNext \in 1..StreamCount
               /\ Downloaded(o, sNext - 1)
        <3>1. sNext - 1 \in Nat
            BY <1>4, <2>2
        <3>2. Downloaded(o, sNext - 1)'
            BY <1>1, <1>16, <2>1, <2>2, <3>1 DEF Downloaded
        <3> QED
            BY <1>1, <1>2, <1>17, <2>2, <3>2 DEF Coming
    <2>3. CASE sPc = "wait" /\ Downloaded(o, StreamCount)
        <3>1. Downloaded(o, StreamCount)'
            BY <1>2, <1>4, <1>16, <2>1, <2>3 DEF Downloaded
        <3> QED
            BY <1>1, <1>17, <2>3, <3>1 DEF Coming
    <2> QED
        BY <1>17, <2>2, <2>3 DEF Coming
<1>18. mPhase = "upload" =>
          /\ Taken' /\ down' = <<>> /\ mNext' \in 1..Count'
          /\ (mNext' - 1) * DataUnits - Len(up') \in 0..Lost' /\ Shifted'
    <2> SUFFICES ASSUME mPhase = "upload"
                 PROVE  /\ Taken' /\ down' = <<>> /\ mNext' \in 1..Count'
                        /\ (mNext' - 1) * DataUnits - Len(up') \in 0..Lost' /\ Shifted'
        OBVIOUS
    <2>1. /\ Taken /\ down = <<>> /\ mNext \in 1..Count
          /\ (mNext - 1) * DataUnits - Len(up) \in 0..Lost /\ Shifted
        BY DEF Exact, LinkExact
    <2>2. 0..Lost \subseteq 0..Lost'
        BY <1>12
    <2>3. (mNext - 1) * DataUnits - Len(up) \in 0..Lost'
        BY <2>1, <2>2
    <2> QED
        BY <1>2, <1>9, <1>13, <2>1, <2>3
<1>19. (Coming(0) => Coming(0)') /\ (Coming(CtlUnits) => Coming(CtlUnits)')
    <2>1. Coming(0) => Coming(0)'
        BY <1>17
    <2>2. ASSUME Coming(CtlUnits) PROVE Coming(CtlUnits)'
        BY <1>4, <1>17, <2>2
    <2> QED
        BY <2>1, <2>2
<1>20. LinkExact
    BY DEF Exact
<1>21. (mPhase \in {"open", "done"} => ~mAsked /\ Idle')
       /\ (mPhase = "overrun" => sPc' = "wait" /\ up' = <<>>)
       /\ (mPhase \in {"check", "poll"} => IF mAsked THEN Asking' \/ Told' ELSE Idle')
    BY <1>1, <1>7, <1>8, <1>20 DEF LinkExact
<1>22. mPhase = "offer" =>
          IF mAsked THEN Asking' \/ Granted' \/ Misread'
                    ELSE Idle' \/ (Misread' /\ Len(up') < Count * DataUnits)
    BY <1>7, <1>10, <1>11, <1>20 DEF LinkExact
<1>23. mPhase = "confirm" =>
          Collecting' \/ Processing' \/ (IF mAsked THEN Asking' \/ Told' ELSE Idle')
    BY <1>7, <1>8, <1>15, <1>20, <1>14 DEF LinkExact
<1>24. mPhase = "fetch" => IF mAsked THEN Asking' \/ (Announced' /\ Coming(CtlUnits)') ELSE Idle'
    BY <1>7, <1>19, <1>20 DEF LinkExact
<1>25. mPhase = "download" => ~mAsked /\ mGot = StreamCount /\ Coming(0)'
    BY <1>19, <1>20 DEF LinkExact
<1>26. mPhase = "upload" => ~mAsked
    BY <1>20 DEF LinkExact
<1> QED
    BY <1>2, <1>18, <1>21, <1>22, <1>23, <1>24, <1>25, <1>26 DEF LinkExact

\* Noise changes neither the length of a line nor the other units.
LEMMA NoiseFacts ==
    ASSUME NEW S, NEW line \in Seq(S), NEW i \in 1..Len(line), NEW other,
           other = [line EXCEPT ![i] = Noise]
    PROVE  /\ Len(other) = Len(line)
           /\ (other = <<>> <=> line = <<>>)
           /\ \A j \in 1..Len(line) : other[j] = line[j] \/ other[j] = Noise
           /\ \A j \in 1..Len(line) : j # i => other[j] = line[j]
<1>1. /\ Len([line EXCEPT ![i] = Noise]) = Len(line)
      /\ \A j \in 1..Len(line) : [line EXCEPT ![i] = Noise][j] \in {line[j], Noise}
      /\ \A j \in 1..Len(line) : j # i => [line EXCEPT ![i] = Noise][j] = line[j]
    BY CorruptFacts
<1>2. other \in Seq(S \cup {Noise})
    BY ExceptSeq, SeqDef, LenProperties
<1> QED
    BY <1>1, <1>2, EmptySeq, LenProperties

\* Bytes change on the way to the slave.
LEMMA CorruptUpExact ==
    ASSUME Ordinary, IInv, Exact, CorruptUp, UNCHANGED <<slaveVars, masterVars>>
    PROVE  Exact'
<1>1. PICK i \in 1..Len(up) : up' = [up EXCEPT ![i] = Noise]
    BY DEF CorruptUp
<1>2. up \in Seq((MasterFrame \X Nat) \cup {Noise}) /\ down' = down
    BY Context DEF LineTypeOK, Line, CorruptUp
<1>3. /\ Len(up') = Len(up) /\ (up' = <<>> <=> up = <<>>)
      /\ \A j \in 1..Len(up) : up'[j] = up[j] \/ up'[j] = Noise
    BY <1>1, <1>2, NoiseFacts
<1>4. Announced => Announced'
    BY <1>2, MasterFixed DEF Announced
<1>5. LinkExact'
    <2>1. faults' = faults + 1
        BY DEF CorruptUp, Fault
    <2> QED
        BY <1>2, <1>3, <1>4, <2>1, NoiseLink
<1>6. SlaveExact' /\ MasterExact'
    BY SlaveExactStays, MasterExactStays, MasterFixed DEF slaveVars
<1> QED
    BY <1>5, <1>6 DEF Exact

\* What is left of a line when its i-th unit is lost
LEMMA LoseFacts ==
    ASSUME NEW S, NEW line \in Seq(S), NEW i \in 1..Len(line)
    PROVE  /\ LoseAt(line, i) \in Seq(S)
           /\ Len(LoseAt(line, i)) = Len(line) - 1
           /\ \A p \in 1..(Len(line) - 1) :
                 LoseAt(line, i)[p] = IF p < i THEN line[p] ELSE line[p + 1]
<1>1. Len(line) \in Nat /\ \A q \in 1..Len(line) : line[q] \in S
    BY LenProperties, ElementOfSeq
<1>2. PICK a \in Seq(S) :
          /\ a = SubSeq(line, 1, i - 1)
          /\ Len(a) = i - 1
          /\ \A p \in 1..(i - 1) : a[p] = line[p]
    <2>1. i - 1 \in Int /\ \A q \in 1..(i - 1) : line[q] \in S
        BY <1>1
    <2>2. /\ SubSeq(line, 1, i - 1) \in Seq(S)
          /\ Len(SubSeq(line, 1, i - 1)) = IF 1 <= i - 1 THEN (i - 1) - 1 + 1 ELSE 0
          /\ \A p \in 1..((i - 1) - 1 + 1) : SubSeq(line, 1, i - 1)[p] = line[1 + p - 1]
        BY <2>1, SubSeqProperties
    <2>3. /\ (IF 1 <= i - 1 THEN (i - 1) - 1 + 1 ELSE 0) = i - 1
          /\ (i - 1) - 1 + 1 = i - 1
          /\ \A p \in 1..(i - 1) : 1 + p - 1 = p
        BY <1>1
    <2> QED
        BY <2>2, <2>3
<1>3. PICK b \in Seq(S) :
          /\ b = SubSeq(line, i + 1, Len(line))
          /\ Len(b) = Len(line) - i
          /\ \A p \in 1..(Len(line) - i) : b[p] = line[i + p]
    <2>1. i \in 0..Len(line)
        BY <1>1
    <2>2. /\ Drop(line, i) \in Seq(S)
          /\ Len(Drop(line, i)) = Len(line) - i
          /\ \A p \in 1..(Len(line) - i) : Drop(line, i)[p] = line[i + p]
        BY <2>1, DropFacts
    <2>3. Drop(line, i) = SubSeq(line, i + 1, Len(line))
        BY DEF Drop
    <2> QED
        BY <2>2, <2>3
<1>4. /\ a \o b \in Seq(S)
      /\ Len(a \o b) = Len(a) + Len(b)
      /\ \A p \in 1..(Len(a) + Len(b)) :
            (a \o b)[p] = IF p <= Len(a) THEN a[p] ELSE b[p - Len(a)]
    BY ConcatProperties
<1>5. LoseAt(line, i) = a \o b
    BY <1>2, <1>3 DEF LoseAt
<1>6. Len(a) + Len(b) = Len(line) - 1
    <2>1. Len(a) = i - 1 /\ Len(b) = Len(line) - i /\ i \in Nat
        BY <1>1, <1>2, <1>3
    <2> QED
        BY <1>1, <2>1
<1>7. ASSUME NEW p \in 1..(Len(line) - 1)
      PROVE  (a \o b)[p] = IF p < i THEN line[p] ELSE line[p + 1]
    <2>1. CASE p < i
        <3>1. p \in 1..(i - 1) /\ p <= Len(a)
            BY <1>1, <1>2, <2>1
        <3> QED
            BY <1>2, <1>4, <1>6, <2>1, <3>1
    <2>2. CASE ~(p < i)
        <3>1. ~(p <= Len(a)) /\ p - Len(a) \in 1..(Len(line) - i) /\ i + (p - Len(a)) = p + 1
            BY <1>1, <1>2, <2>2
        <3> QED
            BY <1>3, <1>4, <1>6, <2>2, <3>1
    <2> QED
        BY <2>1, <2>2
<1> QED
    BY <1>4, <1>5, <1>6, <1>7

\* Where the two programs can be while there is something for the slave to read
LEMMA UnreadPlace ==
    ASSUME Ordinary, IInv, Exact, up # <<>>
    PROVE  \/ mPhase \in RequestPhases /\ mAsked /\ Asking
           \/ mPhase = "offer" /\ Misread /\ (mAsked \/ Len(up) < Count * DataUnits)
           \/ mPhase = "upload"
           \/ mPhase = "confirm" /\ Collecting
           \/ mPhase = "confirm" /\ mAsked /\ Processing
<1>1. mPhase \in RequestPhases \cup {"open", "upload", "download", "done", "overrun"}
    BY Context DEF MasterTypeOK
<1>2. ~Idle /\ ~Told /\ ~Granted /\ ~Coming(0) /\ ~Coming(CtlUnits)
    BY DEF Idle, Told, Granted, Coming
<1>3. Processing => mAsked
    BY DEF Processing
<1>4. LinkExact
    BY DEF Exact
<1> QED
    BY <1>1, <1>2, <1>3, <1>4 DEF LinkExact, RequestPhases

\* Bytes are lost on the way to the slave: what is behind them moves forward.
LEMMA LoseUpExact ==
    ASSUME Ordinary, IInv, Exact, LoseUp, UNCHANGED <<slaveVars, masterVars>>
    PROVE  Exact'
<1>1. PICK i \in 1..Len(up) : up' = LoseAt(up, i)
    BY DEF LoseUp
<1>2. /\ up \in Seq((MasterFrame \X Nat) \cup {Noise}) /\ down' = down /\ Len(up) \in Nat
      /\ faults \in Nat /\ faults' = faults + 1 /\ "loseUp" \in FaultKinds
    BY Context, LineFacts DEF LineTypeOK, Line, LoseUp, Fault
<1>3. /\ Len(up') = Len(up) - 1
      /\ \A p \in 1..(Len(up) - 1) : up'[p] = IF p < i THEN up[p] ELSE up[p + 1]
    BY <1>1, <1>2, LoseFacts
<1>4. Lost \in Nat /\ Lost' = Lost + 1
    BY <1>2 DEF Lost
<1>5. up # <<>>
    BY <1>1, EmptySeq
<1>6. /\ Here' = Here /\ Count' = Count /\ Request' = Request /\ mFile' = mFile
      /\ mPhase' = mPhase /\ mAsked' = mAsked /\ mNext' = mNext /\ Files' = Files
    BY MasterFixed
<1>7. UNCHANGED <<sPc, sReq, infos, bits, sNext>>
    BY DEF slaveVars
<1>8. Count \in Nat \ {0} /\ CtlUnits \in Nat \ {0} /\ DataUnits \in Nat \ {0}
      /\ Count * DataUnits \in Nat
    <2>1. Count \in Nat \ {0} /\ DataUnits \in Nat \ {0}
        BY Context, UnitFacts
    <2> QED
        BY <2>1, UnitFacts, UnitsBefore
<1>9. Taken => Taken'
    BY <1>6, <1>7 DEF Taken
<1>10. Pending(Request) => Pending(Request)'
    <2> SUFFICES ASSUME Len(up) <= CtlUnits
                 PROVE  Len(up') <= CtlUnits /\ Len(up') # CtlUnits
        BY <1>6 DEF Pending
    <2> QED
        BY <1>2, <1>3, <1>8
<1>11. Shifted => Shifted'
    <2> SUFFICES ASSUME Shifted, NEW p \in 1..(Len(up) - 1)
                 PROVE  Placed(Files[mFile], Count, up'[p], p, Lost + 1)
        BY <1>3, <1>4, <1>6 DEF Shifted
    <2>1. p \in Nat /\ p \in 1..Len(up) /\ p + 1 \in 1..Len(up) /\ Lost + 1 \in Nat /\ Lost <= Lost + 1
        BY <1>2, <1>4
    <2>2. CASE p < i
        <3>1. Placed(Files[mFile], Count, up[p], p, Lost)
            BY <2>1 DEF Shifted
        <3>2. Placed(Files[mFile], Count, up[p], p, Lost + 1)
            BY <1>4, <2>1, <3>1, PlacedStays
        <3> QED
            BY <1>3, <2>2, <3>2
    <2>3. CASE ~(p < i)
        <3>1. Placed(Files[mFile], Count, up[p + 1], p + 1, Lost)
            BY <2>1 DEF Shifted
        <3>2. Placed(Files[mFile], Count, up[p + 1], p, Lost + 1)
            BY <1>4, <1>8, <2>1, <3>1, PlacedAhead
        <3> QED
            BY <1>3, <2>3, <3>2
    <2> QED
        BY <2>2, <2>3
<1>12. LinkExact'
    <2>1. CASE mPhase \in RequestPhases /\ mAsked /\ Asking
        <3>1. Asking'
            BY <1>2, <1>7, <1>10, <2>1 DEF Asking
        <3> QED
            BY <1>6, <2>1, <3>1, AskingLink
    <2>2. CASE mPhase = "offer" /\ Misread /\ (mAsked \/ Len(up) < Count * DataUnits)
        <3>1. ASSUME NEW p \in 1..(Len(up) - 1)
              PROVE  up'[p] = Noise \/ up'[p][1].kind = "ctl"
            <4>1. p \in 1..Len(up) /\ p + 1 \in 1..Len(up)
                BY <1>2
            <4>2. \A q \in 1..Len(up) : up[q] = Noise \/ up[q][1].kind = "ctl"
                BY <2>2 DEF Misread
            <4>3. up'[p] = up[p] \/ up'[p] = up[p + 1]
                BY <1>3
            <4> QED
                BY <4>1, <4>2, <4>3
        <3>2. /\ Len(up') < Count * DataUnits + CtlUnits
              /\ mAsked \/ Len(up') < Count * DataUnits
            BY <1>2, <1>3, <1>8, <2>2 DEF Misread
        <3>3. Misread'
            BY <1>2, <1>3, <1>6, <1>9, <2>2, <3>1, <3>2 DEF Misread
        <3> QED
            BY <1>6, <2>2, <3>2, <3>3, Context DEF LinkExact, MasterTypeOK
    <2>3. CASE mPhase = "upload"
        <3>1. /\ ~mAsked /\ Taken /\ down = <<>> /\ mNext \in 1..Count
              /\ (mNext - 1) * DataUnits - Len(up) \in 0..Lost /\ Shifted
            BY <2>3 DEF Exact, LinkExact
        <3>2. PICK sent \in Nat : sent = (mNext - 1) * DataUnits
            <4>1. mNext - 1 \in Nat
                BY <1>8, <3>1
            <4> QED
                BY <1>8, <4>1, UnitsBefore
        <3>3. sent - Len(up') \in 0..(Lost + 1)
            BY <1>2, <1>3, <1>4, <3>1, <3>2
        <3>4. (mNext' - 1) * DataUnits - Len(up') \in 0..Lost'
            BY <1>4, <1>6, <3>2, <3>3
        <3> QED
            BY <1>2, <1>6, <1>9, <1>11, <2>3, <3>1, <3>4 DEF LinkExact
    <2>4. CASE mPhase = "confirm" /\ Collecting
        <3>1. /\ Taken' /\ down' = <<>> /\ Shifted'
            BY <1>2, <1>9, <1>11, <2>4 DEF Collecting
        <3>2. /\ Len(up') <= Count * DataUnits + CtlUnits
              /\ Len(up') # Count * DataUnits + CtlUnits
              /\ ~mAsked => Len(up') <= Count * DataUnits
            BY <1>2, <1>3, <1>8, <2>4 DEF Collecting
        <3>3. Collecting'
            BY <1>6, <3>1, <3>2 DEF Collecting
        <3> QED
            BY <1>6, <2>4, <3>3 DEF LinkExact
    <2>5. CASE mPhase = "confirm" /\ mAsked /\ Processing
        <3>1. Processing'
            BY <1>2, <1>6, <1>7, <1>10, <2>5 DEF Processing
        <3> QED
            BY <1>6, <2>5, <3>1 DEF LinkExact
    <2> QED
        BY <1>5, <2>1, <2>2, <2>3, <2>4, <2>5, UnreadPlace
<1>13. SlaveExact' /\ MasterExact'
    BY SlaveExactStays, MasterExactStays, MasterFixed DEF slaveVars
<1> QED
    BY <1>12, <1>13 DEF Exact

\* Bytes change on the way to the master, but not in the answer to RECV.
LEMMA CorruptDownExact ==
    ASSUME Ordinary, IInv, Exact, CorruptDown, UNCHANGED <<slaveVars, masterVars>>
    PROVE  Exact'
<1>1. PICK i \in 1..Len(down) :
          /\ down[i] # Noise
          /\ Fault(LET frame == down[i][1]
                   IN  IF frame.kind = "data" THEN "corruptData"
                       ELSE IF frame.type = "RECV" THEN "corruptRecvReply"
                       ELSE "corruptReply")
          /\ down' = [down EXCEPT ![i] = Noise]
    BY DEF CorruptDown
<1>2. down \in Seq((SlaveFrame \X Nat) \cup {Noise}) /\ up' = up /\ Len(down) \in Nat
    BY Context, LineFacts DEF LineTypeOK, Line, CorruptDown
<1>3. /\ Len(down') = Len(down) /\ (down' = <<>> <=> down = <<>>)
      /\ \A j \in 1..Len(down) : down'[j] = down[j] \/ down'[j] = Noise
      /\ \A j \in 1..Len(down) : j # i => down'[j] = down[j]
    BY <1>1, <1>2, NoiseFacts
<1>4. ASSUME Announced, Coming(CtlUnits)
      PROVE  Announced'
    <2>1. i \notin 1..CtlUnits
        <3> SUFFICES ASSUME i \in 1..CtlUnits PROVE FALSE
            OBVIOUS
        <3>1. down[i][1] = RecvAnswer
            BY <1>4 DEF Announced
        <3>2. RecvAnswer.kind = "ctl" /\ RecvAnswer.type = "RECV"
            BY DEF RecvAnswer, Ctl
        <3>3. Fault("corruptRecvReply")
            BY <1>1, <3>1, <3>2
        <3> QED
            BY <3>3, NoOtherFault
    <2>2. \E m \in Nat : Len(down) = CtlUnits + m * DataUnits
        <3>1. StreamCount \in Nat \ {0}
            BY Context
        <3>2. (sNext \in 1..StreamCount /\ Downloaded(CtlUnits, sNext - 1))
              \/ Downloaded(CtlUnits, StreamCount)
            BY <1>4 DEF Coming
        <3>3. sNext \in 1..StreamCount => sNext - 1 \in Nat
            BY <3>1
        <3> QED
            BY <3>1, <3>2, <3>3 DEF Downloaded
    <2>3. PICK m \in Nat : Len(down) = CtlUnits + m * DataUnits
        BY <2>2
    <2>4. m * DataUnits \in Nat
        BY UnitFacts, UnitsBefore
    <2>5. \A j \in 1..CtlUnits : j \in 1..Len(down) /\ j # i
        BY <2>1, <2>3, <2>4, UnitFacts
    <2> QED
        BY <1>3, <1>4, <2>5, MasterFixed DEF Announced
<1>5. LinkExact'
    <2>1. faults' = faults + 1
        BY DEF CorruptDown, Fault
    <2> QED
        BY <1>2, <1>3, <1>4, <2>1, NoiseLink
<1>6. SlaveExact' /\ MasterExact'
    BY SlaveExactStays, MasterExactStays, MasterFixed DEF slaveVars
<1> QED
    BY <1>5, <1>6 DEF Exact

\* Nothing else disturbs the two programs.
LEMMA DisturbExact ==
    ASSUME Ordinary, IInv, Exact, Disturb
    PROVE  Exact'
<1>1. ~LoseDown /\ ~SlaveReboot
    BY NoOtherFault DEF LoseDown, SlaveReboot
<1>2. ~MasterRestart
    BY DEF MasterRestart, Ordinary, Exact, MasterExact
<1>3. (CorruptUp \/ CorruptDown \/ LoseUp) /\ UNCHANGED <<slaveVars, masterVars>>
    BY <1>1, <1>2 DEF Disturb, LineStep
<1> QED
    BY <1>3, CorruptUpExact, CorruptDownExact, LoseUpExact

-----------------------------------------------------------------------------
(* The steps of the master.                                                *)

\* A step of the master leaves the slave's pictures alone.
LEMMA SlaveExactUntouched ==
    ASSUME Exact, UNCHANGED <<slaveVars, session>>
    PROVE  /\ SlaveExact'
           /\ UNCHANGED <<sPc, sReq, infos, bits, sNext>>
           /\ Files' = Files /\ \A k : Whole(k)' = Whole(k)
<1>1. UNCHANGED <<sPc, sReq, infos, bits, sNext, session>>
    BY DEF slaveVars
<1> QED
    BY <1>1, SlaveExactStays DEF Files, Whole

\* The master's place stays exact while it only asks again.
LEMMA MasterExactAsks ==
    ASSUME Exact, UNCHANGED <<session, mPhase, mFile, nFiles, mCount, mSlots, saved, bits, infos>>
    PROVE  /\ MasterExact' /\ Here' = Here /\ Count' = Count /\ StreamCount' = StreamCount
           /\ Request' = Request /\ mPhase' = mPhase
<1>1. Files' = Files
    BY DEF Files
<1>2. \A k : Whole(k)' = Whole(k)
    BY <1>1 DEF Whole
<1>3. \A k : Stream(k)' = Stream(k)
    BY <1>2 DEF Stream
<1>4. Here' = Here /\ Count' = Count /\ StreamCount' = StreamCount /\ Request' = Request
    BY <1>1, <1>2 DEF Here, Count, StreamCount, BitFrames, Request, RequestType
<1> QED
    BY <1>1, <1>2, <1>3, <1>4 DEF Exact, MasterExact

\* A picture is read.
LEMMA OpenExact ==
    ASSUME Ordinary, IInv, Exact, MasterOpen, UNCHANGED slaveVars
    PROVE  Exact'
<1>1. mPhase = "open" /\ UNCHANGED <<up, down, session, mAsked, mNext, mGot, mSlots, saved>>
    BY DEF MasterOpen, lineVars
<1>2. session = 1 /\ mFile \in 1..Len(Files) /\ MasterTypeOK
    BY Context
<1>3. Files[mFile] # Unreadable
    BY <1>2, FilesFacts
<1>4. /\ nFiles' = [nFiles EXCEPT ![mFile] = mFile - 1]
      /\ mCount' = FrameCount[Files[mFile]]
      /\ mPhase' = "check" /\ mFile' = mFile
    BY <1>3 DEF MasterOpen
<1>5. SlaveExact' /\ UNCHANGED <<sPc, sReq, infos, bits, sNext>> /\ Files' = Files
    BY <1>1, SlaveExactUntouched
<1>6. /\ \A k \in 1..(mFile - 1) : nFiles[k] = k - 1 /\ bits[k - 1] # <<>>
      /\ \A k \in 1..Len(Files) : saved[k] = <<>>
    BY <1>1 DEF Exact, MasterExact, UploadPhases
<1>7. nFiles'[mFile] = mFile - 1 /\ \A k \in 1..(mFile - 1) : nFiles'[k] = nFiles[k]
    <2>1. nFiles \in [1..Len(Files) -> Nat] /\ Len(Files) \in Nat
        BY <1>2, FilesFacts DEF MasterTypeOK
    <2>2. \A k \in 1..(mFile - 1) : k \in 1..Len(Files) /\ k # mFile
        BY <1>2, <2>1
    <2> QED
        BY <1>2, <1>4, <2>1, <2>2
<1>8. MasterExact'
    BY <1>1, <1>2, <1>4, <1>5, <1>6, <1>7 DEF MasterExact, UploadPhases, FetchPhases, Here, Count
<1>9. Idle' /\ ~mAsked'
    BY <1>1, <1>5 DEF Exact, LinkExact, Idle
<1>10. LinkExact'
    BY <1>4, <1>9 DEF LinkExact
<1> QED
    BY <1>5, <1>8, <1>10 DEF Exact

\* A request, on an empty line or behind what the slave takes for data
LEMMA AskFacts ==
    ASSUME Ordinary, IInv, Exact, mPhase \in RequestPhases, up' = up \o Units(Request)
    PROVE  /\ Len(up') = Len(up) + CtlUnits
           /\ \A i \in 1..Len(up) : up'[i] = up[i]
           /\ \A i \in 1..CtlUnits : up'[Len(up) + i] = <<Request, i>>
<1>1. up \in Seq((MasterFrame \X Nat) \cup {Noise})
    BY Context DEF LineTypeOK, Line
<1>2. Size(Request) = CtlUnits
    BY RequestFields DEF Size
<1>3. PICK frame : frame = Request
    OBVIOUS
<1>4. /\ Len(up \o Units(frame)) = Len(up) + Size(frame)
      /\ \A i \in 1..Len(up) : (up \o Units(frame))[i] = up[i]
      /\ \A i \in 1..Size(frame) : (up \o Units(frame))[Len(up) + i] = <<frame, i>>
    BY <1>1, AppendFacts
<1> QED
    BY <1>2, <1>3, <1>4

\* A request on an empty line
LEMMA AskIdle ==
    ASSUME Ordinary, IInv, Exact, mPhase \in RequestPhases, up = <<>>, up' = up \o Units(Request)
    PROVE  Len(up') = CtlUnits /\ up'[1] = <<Request, 1>>
<1>1. Len(up) = 0
    BY EmptySeq
<1>2. PICK n \in Nat : n = Len(up)
    BY <1>1
<1>3. /\ Len(up') = n + CtlUnits
      /\ \A i \in 1..CtlUnits : up'[n + i] = <<Request, i>>
    BY <1>2, AskFacts
<1>4. 1 \in 1..CtlUnits /\ n = 0 /\ n + 1 = 1 /\ n + CtlUnits = CtlUnits
    BY <1>1, <1>2, UnitFacts
<1> QED
    BY <1>3, <1>4

\* A request is sent.
LEMMA SendRequestExact ==
    ASSUME Ordinary, IInv, Exact, MasterSend, UNCHANGED slaveVars
    PROVE  Exact'
<1>1. /\ mPhase \in RequestPhases /\ ~mAsked /\ down' = down
      /\ UNCHANGED <<session, mPhase, mFile, nFiles, mCount, mNext, mGot, mSlots, saved>>
    BY DEF MasterSend
<1>2. up' = up \o Units(Request) /\ mAsked' = TRUE /\ faults' = faults
    BY NoOtherFault DEF MasterSend
<1>3. SlaveExact' /\ UNCHANGED <<sPc, sReq, infos, bits, sNext>>
    BY <1>1, SlaveExactUntouched
<1>4. /\ MasterExact' /\ Here' = Here /\ Count' = Count /\ Request' = Request /\ mPhase' = mPhase
    BY <1>1, <1>3, MasterExactAsks
<1>5. ASSUME up = <<>>
      PROVE  Pending(Request)'
    <2>1. Len(up') = CtlUnits /\ up'[1] = <<Request', 1>>
        BY <1>1, <1>2, <1>4, <1>5, AskIdle
    <2> QED
        BY <2>1, UnitFacts DEF Pending
<1>6. Idle => Asking'
    BY <1>1, <1>3, <1>5 DEF Idle, Asking
<1>7. /\ Len(up') = Len(up) + CtlUnits
      /\ \A i \in 1..Len(up) : up'[i] = up[i]
      /\ \A i \in 1..CtlUnits : up'[Len(up) + i] = <<Request, i>>
    BY <1>1, <1>2, AskFacts
<1>8. Len(up) \in Nat /\ CtlUnits \in Nat \ {0} /\ DataUnits \in Nat \ {0} /\ Count \in Nat \ {0}
    BY Context, LineFacts, UnitFacts
<1>9. Count * DataUnits \in Nat
    BY <1>8, UnitsBefore
<1>10. Misread /\ Len(up) < Count * DataUnits => Misread'
    <2> SUFFICES ASSUME Misread, Len(up) < Count * DataUnits
                 PROVE  Misread'
        OBVIOUS
    <2>1. Taken' /\ down' = <<>>
        BY <1>1, <1>3, <1>4 DEF Misread, Taken
    <2>2. Len(up') < Count' * DataUnits + CtlUnits
        BY <1>4, <1>7, <1>8, <1>9
    <2>3. ASSUME NEW i \in 1..Len(up')
          PROVE  up'[i] = Noise \/ up'[i][1].kind = "ctl"
        <3>1. CASE i \in 1..Len(up)
            BY <1>7, <3>1 DEF Misread
        <3>2. CASE i \notin 1..Len(up)
            <4>1. PICK j \in 1..CtlUnits : i = Len(up) + j
                <5>1. i - Len(up) \in 1..CtlUnits /\ i = Len(up) + (i - Len(up))
                    BY <1>7, <1>8, <3>2
                <5> QED
                    BY <5>1
            <4>2. up'[i] = <<Request, j>>
                BY <1>7, <4>1
            <4> QED
                BY <1>1, <4>2, RequestFields
        <3> QED
            BY <3>1, <3>2
    <2> QED
        BY <2>1, <2>2, <2>3 DEF Misread
<1>11. Collecting => Collecting'
    <2> SUFFICES ASSUME Collecting PROVE Collecting'
        OBVIOUS
    <2>1. Len(up) <= Count * DataUnits /\ Taken /\ down = <<>> /\ Shifted
        BY <1>1 DEF Collecting
    <2>2. Taken' /\ down' = <<>>
        BY <1>1, <1>3, <1>4, <2>1 DEF Taken
    <2>3. Len(up') <= Count' * DataUnits + CtlUnits
        BY <1>4, <1>7, <1>8, <1>9, <2>1
    <2>4. Len(up') = Count' * DataUnits + CtlUnits => up'[Count' * DataUnits + 1] = <<Request', 1>>
        <3> SUFFICES ASSUME Len(up') = Count' * DataUnits + CtlUnits
                     PROVE  up'[Count' * DataUnits + 1] = <<Request', 1>>
            OBVIOUS
        <3>1. Len(up) = Count * DataUnits /\ 1 \in 1..CtlUnits
            BY <1>4, <1>7, <1>8, <1>9
        <3> QED
            BY <1>4, <1>7, <3>1
    <2>5. Shifted'
        <3>1. Files' = Files /\ mFile' = mFile /\ Lost' = Lost
            BY <1>1, <1>2 DEF Files, Lost
        <3>2. ASSUME NEW p \in 1..Len(up')
              PROVE  Placed(Files[mFile], Count, up'[p], p, Lost)
            <4>1. CASE p \in 1..Len(up)
                BY <1>7, <2>1, <4>1 DEF Shifted
            <4>2. CASE p \notin 1..Len(up)
                <5>1. p - Len(up) \in 1..CtlUnits /\ p = Len(up) + (p - Len(up))
                    BY <1>7, <1>8, <4>2
                <5>2. up'[p] = <<Request, p - Len(up)>>
                    BY <1>7, <5>1
                <5>3. Request.kind = "ctl"
                    BY <1>1, RequestFields
                <5> QED
                    BY <5>2, <5>3 DEF Placed
            <4> QED
                BY <4>1, <4>2
        <3> QED
            BY <1>4, <3>1, <3>2 DEF Shifted
    <2> QED
        BY <1>2, <2>2, <2>3, <2>4, <2>5 DEF Collecting
<1>12. Processing => Processing'
    <2> SUFFICES ASSUME Processing PROVE Processing'
        OBVIOUS
    <2>1. up = <<>>
        BY <1>1 DEF Processing
    <2> QED
        BY <1>1, <1>2, <1>3, <1>4, <1>5, <2>1 DEF Processing
<1>13. LinkExact
    BY DEF Exact
<1>14. mPhase \in {"check", "poll", "fetch"} => Idle
    BY <1>1, <1>13 DEF LinkExact
<1>15. mPhase = "offer" => Idle \/ (Misread /\ Len(up) < Count * DataUnits)
    BY <1>1, <1>13 DEF LinkExact
<1>16. mPhase = "confirm" => Collecting \/ Processing \/ Idle
    BY <1>1, <1>13 DEF LinkExact
<1>17. LinkExact'
    <2>1. CASE mPhase \in {"check", "poll", "fetch"}
        BY <1>2, <1>4, <1>6, <1>14, <2>1 DEF LinkExact
    <2>2. CASE mPhase = "offer"
        BY <1>2, <1>4, <1>6, <1>10, <1>15, <2>2 DEF LinkExact
    <2>3. CASE mPhase = "confirm"
        BY <1>2, <1>4, <1>6, <1>11, <1>12, <1>16, <2>3 DEF LinkExact
    <2> QED
        BY <1>1, <2>1, <2>2, <2>3 DEF RequestPhases
<1> QED
    BY <1>3, <1>4, <1>17 DEF Exact

\* An intact read while a query or an offer waits for its answer is this answer.
LEMMA AnswerUnread ==
    ASSUME Ordinary, IInv, Exact, mPhase \in RequestPhases, mAsked, down # <<>>
    PROVE  /\ mPhase \in {"check", "confirm", "poll"} => Told
           /\ mPhase = "offer" => Granted
           /\ mPhase = "fetch" => Announced /\ Coming(CtlUnits)
BY DEF Exact, LinkExact, Idle, Asking, Misread, Collecting, Processing, RequestPhases

\* The answer to RECV reads well: it is not disturbed.
LEMMA AnnouncedReads ==
    ASSUME Ordinary, IInv, Exact, mPhase = "fetch", Announced, Coming(CtlUnits)
    PROVE  /\ Intact(down) /\ Head1(down) = RecvAnswer /\ Answers(RecvAnswer)
           /\ Len(down) \in Nat /\ Len(down) >= CtlUnits
<1>1. StreamCount \in Nat \ {0} /\ Here \in Nat /\ CtlUnits \in Nat \ {0} /\ DataUnits \in Nat \ {0}
    BY Context, UnitFacts
<1>2. RecvAnswer \in SlaveFrame /\ RecvAnswer.kind = "ctl"
      /\ RecvAnswer.address = "slave" /\ RecvAnswer.type = "RECV" /\ RecvAnswer.file = Here
    BY <1>1 DEF RecvAnswer, Ctl, SlaveFrame, CtlFrame, Types, Statuses
<1>3. down[1] = <<RecvAnswer, 1>>
    BY <1>1 DEF Announced
<1>4. down[1] # Noise /\ Head1(down) = RecvAnswer
    <2>1. down[1] \in SlaveFrame \X Nat
        BY <1>2, <1>3
    <2> QED
        BY <1>3, <2>1, NoiseAssumption DEF Head1
<1>5. Len(down) \in Nat /\ Len(down) >= CtlUnits
    <2>1. PICK m \in Nat : Len(down) = CtlUnits + m * DataUnits
        <3>1. (sNext \in 1..StreamCount /\ Downloaded(CtlUnits, sNext - 1))
              \/ Downloaded(CtlUnits, StreamCount)
            BY DEF Coming
        <3>2. sNext \in 1..StreamCount => sNext - 1 \in Nat
            BY <1>1
        <3> QED
            BY <1>1, <3>1, <3>2 DEF Downloaded
    <2>2. m * DataUnits \in Nat
        BY <1>1, UnitsBefore
    <2> QED
        BY <1>1, <2>1, <2>2
<1>6. SubSeq(down, 1, CtlUnits) = Units(RecvAnswer)
    <2>1. down \in Seq((SlaveFrame \X Nat) \cup {Noise})
        BY Context DEF LineTypeOK, Line
    <2>2. \A i \in 1..CtlUnits : down[i] \in (SlaveFrame \X Nat) \cup {Noise}
        BY <1>1, <1>5, <2>1, ElementOfSeq
    <2>3. 1 \in Int /\ CtlUnits \in Int /\ CtlUnits - 1 + 1 = CtlUnits /\ 1 <= CtlUnits
          /\ \A i \in 1..CtlUnits : 1 + i - 1 = i
        BY <1>1
    <2>4. /\ SubSeq(down, 1, CtlUnits) \in Seq((SlaveFrame \X Nat) \cup {Noise})
          /\ Len(SubSeq(down, 1, CtlUnits)) = IF 1 <= CtlUnits THEN CtlUnits - 1 + 1 ELSE 0
          /\ \A i \in 1..(CtlUnits - 1 + 1) : SubSeq(down, 1, CtlUnits)[i] = down[1 + i - 1]
        BY <2>2, <2>3, SubSeqProperties
    <2>5. /\ Len(SubSeq(down, 1, CtlUnits)) = CtlUnits
          /\ \A i \in 1..CtlUnits : SubSeq(down, 1, CtlUnits)[i] = <<RecvAnswer, i>>
        BY <2>3, <2>4 DEF Announced
    <2>6. PICK frame : frame = RecvAnswer
        OBVIOUS
    <2>7. Units(frame) = [i \in 1..CtlUnits |-> <<frame, i>>] /\ frame \in SlaveFrame
        BY <1>2, <2>6 DEF Units, Size
    <2>8. Units(frame) \in Seq((SlaveFrame \X Nat) \cup {Noise}) /\ Len(Units(frame)) = CtlUnits
        <3>1. Units(frame) \in [1..CtlUnits -> (SlaveFrame \X Nat) \cup {Noise}]
            BY <1>1, <2>7
        <3>2. Units(frame) \in Seq((SlaveFrame \X Nat) \cup {Noise})
            BY <1>1, <3>1, SeqDef
        <3> QED
            BY <1>1, <2>7, <3>2, LenProperties
    <2>9. SubSeq(down, 1, CtlUnits) = Units(frame)
        BY <2>4, <2>5, <2>6, <2>7, <2>8, SeqEqual
    <2> QED
        BY <2>6, <2>9
<1>7. Intact(down)
    BY <1>2, <1>3, <1>4, <1>5, <1>6 DEF Intact, Head1
<1>8. Answers(RecvAnswer)
    <2>1. RequestType = "RECV"
        BY DEF RequestType
    <2>2. nFiles[mFile] = Here
        BY RequestFields DEF RequestPhases
    <2> QED
        BY <1>2, <2>1, <2>2 DEF Answers
<1> QED
    BY <1>4, <1>5, <1>7, <1>8

\* An answer that fills the line is gone when it has been read.
LEMMA AnswerGone ==
    ASSUME LineTypeOK, Len(down) = CtlUnits
    PROVE  Drop(down, CtlUnits) = <<>> /\ ReadLen(down) = CtlUnits /\ down # <<>>
<1>1. down \in Seq((SlaveFrame \X Nat) \cup {Noise}) /\ CtlUnits \in Nat \ {0}
    BY UnitFacts DEF LineTypeOK, Line
<1>2. CtlUnits \in 0..Len(down)
    BY <1>1
<1>3. Drop(down, CtlUnits) \in Seq((SlaveFrame \X Nat) \cup {Noise})
      /\ Len(Drop(down, CtlUnits)) = Len(down) - CtlUnits
    BY <1>1, <1>2, DropFacts
<1>4. Len(Drop(down, CtlUnits)) = 0
    BY <1>1, <1>3
<1> QED
    BY <1>1, <1>3, <1>4, EmptySeq DEF ReadLen

\* An answer with noise is read and dropped, and the request sent again.
LEMMA MismatchExact ==
    ASSUME Ordinary, IInv, Exact, MasterMismatch, UNCHANGED slaveVars
    PROVE  Exact'
<1>1. /\ mPhase \in RequestPhases /\ mAsked /\ down # <<>> /\ up' = up /\ mAsked' = FALSE
      /\ UNCHANGED <<session, mPhase, mFile, nFiles, mCount, mNext, mGot, mSlots, saved>>
    BY DEF MasterMismatch, Awaiting
<1>2. /\ Intact(down) => ~Answers(Head1(down))
      /\ down' = Drop(down, ReadLen(down))
    BY NoOtherFault DEF MasterMismatch
<1>3. mPhase # "fetch"
    BY <1>1, <1>2, AnswerUnread, AnnouncedReads
<1>4. SlaveExact' /\ UNCHANGED <<sPc, sReq, infos, bits, sNext>>
    BY <1>1, SlaveExactUntouched
<1>5. /\ MasterExact' /\ Here' = Here /\ Count' = Count /\ mPhase' = mPhase
    BY <1>1, <1>4, MasterExactAsks
<1>6. Told \/ (mPhase = "offer" /\ Granted)
    BY <1>1, <1>3, AnswerUnread DEF RequestPhases
<1>7. down' = <<>>
    <2>1. Len(down) = CtlUnits /\ LineTypeOK
        BY <1>6, Context DEF Told, Granted, Carries
    <2> QED
        BY <1>2, <2>1, AnswerGone
<1>8. CASE mPhase \in {"check", "confirm", "poll"}
    <2>1. Told
        BY <1>1, <1>8, AnswerUnread
    <2>2. Idle'
        BY <1>1, <1>4, <1>7, <2>1 DEF Told, Idle
    <2>3. LinkExact'
        BY <1>1, <1>5, <1>8, <2>2 DEF LinkExact
    <2> QED
        BY <1>4, <1>5, <2>3 DEF Exact
<1>9. CASE mPhase = "offer"
    <2>1. Granted
        BY <1>1, <1>9, AnswerUnread
    <2>2. Taken' /\ up' = <<>> /\ Len(up') = 0
        BY <1>1, <1>4, <1>5, <2>1, EmptySeq DEF Granted, Taken
    <2>3. Count * DataUnits \in Nat /\ 0 < Count * DataUnits /\ 0 < Count * DataUnits + CtlUnits
        <3>1. Count \in Nat /\ DataUnits \in Nat \ {0} /\ CtlUnits \in Nat \ {0} /\ 0 < Count
            BY Context, UnitFacts
        <3>2. 0 * DataUnits < Count * DataUnits /\ 0 * DataUnits \in Nat /\ Count * DataUnits \in Nat
            BY <3>1, UnitsBefore
        <3> QED
            BY <3>1, <3>2
    <2>4. Misread' /\ Len(up') < Count' * DataUnits
        BY <1>5, <1>7, <2>2, <2>3 DEF Misread
    <2>5. LinkExact'
        BY <1>1, <1>5, <1>9, <2>4 DEF LinkExact
    <2> QED
        BY <1>4, <1>5, <2>5 DEF Exact
<1> QED
    BY <1>1, <1>3, <1>8, <1>9 DEF RequestPhases

\* Nobody answers: the request is sent again.
LEMMA RequestTimeoutExact ==
    ASSUME Ordinary, IInv, Exact, RequestTimeout, UNCHANGED slaveVars
    PROVE  Exact'
<1>1. /\ mPhase \in RequestPhases /\ mAsked /\ down = <<>> /\ up' = up /\ down' = down
      /\ mAsked' = FALSE
      /\ UNCHANGED <<session, mPhase, mFile, nFiles, mCount, mNext, mGot, mSlots, saved>>
    BY DEF RequestTimeout, MasterTimeout, Awaiting
<1>2. Quiet /\ faults' = faults
    BY NoOtherFault DEF RequestTimeout
<1>3. SlaveExact' /\ UNCHANGED <<sPc, sReq, infos, bits, sNext>>
    BY <1>1, SlaveExactUntouched
<1>4. /\ MasterExact' /\ Here' = Here /\ Count' = Count /\ mPhase' = mPhase
    BY <1>1, <1>3, MasterExactAsks
<1>5. ~Told /\ ~Granted
    BY <1>1, Context, AnswerGone DEF Told, Granted, Carries
<1>6. mPhase = "fetch" => ~(Announced /\ Coming(CtlUnits))
    <2> SUFFICES ASSUME mPhase = "fetch", Announced, Coming(CtlUnits) PROVE FALSE
        OBVIOUS
    <2>1. Len(down) \in Nat /\ Len(down) >= CtlUnits
        BY AnnouncedReads
    <2> QED
        BY <1>1, <2>1, UnitFacts, EmptySeq
<1>7. LinkExact
    BY DEF Exact
<1>8. CASE sPc = "wait" /\ up = <<>>
    <2>1. Idle'
        BY <1>1, <1>3, <1>8 DEF Idle
    <2>2. LinkExact'
        BY <1>1, <1>4, <2>1, IdleLink
    <2> QED
        BY <1>3, <1>4, <2>2 DEF Exact
<1>9. CASE sPc = "data" /\ ~BufferFull(up, sReq.n)
    <2>1. ~Idle /\ ~Asking /\ ~Processing
        BY <1>9 DEF Idle, Asking, Processing
    <2>2. \/ mPhase = "offer" /\ Misread
          \/ mPhase = "confirm" /\ Collecting
        BY <1>1, <1>5, <1>6, <1>7, <2>1 DEF LinkExact, RequestPhases
    <2>3. Count * DataUnits \in Nat /\ 0 < Count * DataUnits /\ Len(up) \in Nat
          /\ (up = <<>> <=> Len(up) = 0) /\ CtlUnits \in Nat \ {0}
        <3>1. Count \in Nat /\ DataUnits \in Nat \ {0} /\ 0 < Count
            BY Context, UnitFacts
        <3>2. 0 * DataUnits < Count * DataUnits /\ 0 * DataUnits \in Nat /\ Count * DataUnits \in Nat
            BY <3>1, UnitsBefore
        <3> QED
            BY <3>1, <3>2, Context, LineFacts, UnitFacts
    <2>4. sReq.n = Count
        BY <2>2 DEF Misread, Collecting, Taken
    <2>5. Len(up) < Count * DataUnits
        BY <1>9, <2>3, <2>4 DEF BufferFull
    <2>6. ASSUME mPhase = "offer", Misread
          PROVE  LinkExact'
        <3>1. Misread' /\ Len(up') < Count' * DataUnits
            BY <1>1, <1>3, <1>4, <2>5, <2>6 DEF Misread, Taken
        <3> QED
            BY <1>1, <1>4, <2>6, <3>1 DEF LinkExact
    <2>7. ASSUME mPhase = "confirm", Collecting
          PROVE  LinkExact'
        <3>1. Files' = Files /\ mFile' = mFile /\ Lost' = Lost /\ Count' = Count
            BY <1>1, <1>2, <1>4 DEF Files, Lost
        <3>2. Shifted'
            BY <1>1, <2>7, <3>1 DEF Collecting, Shifted
        <3>3. Taken' /\ down' = <<>>
            BY <1>1, <1>3, <1>4, <2>7 DEF Collecting, Taken
        <3>4. /\ Len(up') <= Count * DataUnits /\ Len(up') <= Count * DataUnits + CtlUnits
              /\ Len(up') # Count * DataUnits + CtlUnits
            BY <1>1, <2>3, <2>5
        <3>5. Collecting'
            BY <3>1, <3>2, <3>3, <3>4 DEF Collecting
        <3> QED
            BY <1>4, <2>7, <3>5 DEF LinkExact
    <2>8. LinkExact'
        BY <2>2, <2>6, <2>7
    <2> QED
        BY <1>3, <1>4, <2>8 DEF Exact
<1>10. CASE sPc = "exited"
    <2>1. ~Idle /\ ~Asking /\ ~Processing /\ ~Misread /\ ~Collecting
        BY <1>10 DEF Idle, Asking, Processing, Misread, Collecting, Taken
    <2> QED
        BY <1>1, <1>5, <1>6, <1>7, <2>1 DEF LinkExact, RequestPhases
<1> QED
    BY <1>2, <1>8, <1>9, <1>10 DEF Quiet

\* The stream has been sent when the slave waits again: the master does not wait in vain.
LEMMA NoDataTimeout ==
    ASSUME Ordinary, IInv, Exact, mPhase = "download"
    PROVE  ~(down = <<>> /\ Quiet)
<1> SUFFICES ASSUME down = <<>>, Quiet PROVE FALSE
    OBVIOUS
<1>1. Coming(0) /\ up = <<>>
    BY DEF Exact, LinkExact, Coming
<1>2. sPc = "wait" /\ Downloaded(0, StreamCount)
    BY <1>1 DEF Coming, Quiet
<1>3. Len(down) = 0 + StreamCount * DataUnits /\ Len(down) = 0
    BY <1>2, EmptySeq DEF Downloaded
<1>4. StreamCount \in Nat /\ 0 < StreamCount /\ DataUnits \in Nat \ {0}
    BY Context, UnitFacts
<1>5. 0 * DataUnits < StreamCount * DataUnits /\ 0 * DataUnits \in Nat /\ StreamCount * DataUnits \in Nat
    BY <1>4, UnitsBefore
<1> QED
    BY <1>3, <1>5

\* The answer to a query, when it reads well.
LEMMA QueryAnswered ==
    ASSUME Ordinary, IInv, Exact, mPhase \in {"check", "confirm", "poll"}, mAsked, Intact(down)
    PROVE  /\ Told /\ Head1(down) = QueryAnswer /\ Drop(down, CtlUnits) = <<>>
           /\ QueryAnswer.status = GetStatus(Here) /\ QueryAnswer.n = infos[Here].len
<1>1. down # <<>>
    <2>1. Len(down) >= CtlUnits
        BY DEF Intact
    <2> QED
        BY <2>1, UnitFacts, EmptySeq
<1>2. Told
    BY <1>1, AnswerUnread DEF RequestPhases
<1>3. Len(down) = CtlUnits /\ down[1] \in {<<QueryAnswer, 1>>, Noise} /\ LineTypeOK
    BY <1>2, Context DEF Told, Carries
<1>4. Head1(down) = QueryAnswer
    BY <1>3, HeadIs
<1> QED
    BY <1>2, <1>3, <1>4, AnswerGone DEF QueryAnswer, Ctl

\* The status of the master's picture while the slave waits
LEMMA StatusFacts ==
    ASSUME Ordinary, IInv, Exact, sPc = "wait"
    PROVE  /\ GetStatus(Here) = "UNRECEIVED" =>
                 /\ bits[Here] = <<>>
                 /\ infos[Here].alloc => \E i \in 1..Count : infos[Here].addr[i] = Empty
           /\ GetStatus(Here) # "UNRECEIVED" => bits[Here] # <<>>
           /\ bits[Here] # <<>> => GetStatus(Here) = "PROCESSED" /\ infos[Here].len = Count
<1>1. Here \in File /\ PictureExact(Here) /\ Count \in Nat \ {0} /\ Here + 1 = mFile
    BY Context
<1>2. ~Complete(Here)
    BY <1>1 DEF IInv, SlaveSafe, SlaveInv
<1>3. infos[Here].alloc => infos[Here].total = Count
    BY <1>1 DEF PictureExact, Count
<1>7. infos[Here].alloc => ~NothingIn(Here)
    <2>1. 1 \in 1..Count /\ mFile \in 1..Len(Files)
        BY <1>1, Context
    <2>2. infos[Here].alloc => Len(infos[Here].addr) = Count
        BY <1>1, <1>3 DEF PictureExact
    <2>3. infos[Here].alloc => infos[Here].addr[1] \in {Empty, <<Files[mFile], 1>>}
        BY <1>1, <2>1, <2>2 DEF PictureExact
    <2>4. Hollow \notin {Empty, <<Files[mFile], 1>>}
        BY <2>1, SomeData, LineAssumption DEF Exact, MasterExact, Vacant
    <2> QED
        BY <1>3, <2>1, <2>3, <2>4 DEF NothingIn
<1>4. ASSUME infos[Here].alloc, bits[Here] = <<>>
      PROVE  \E i \in 1..Count : infos[Here].addr[i] = Empty
    <2>1. infos[Here].len # infos[Here].total
        BY <1>1, <1>2, <1>3, <1>4, <1>7 DEF Complete
    <2> QED
        BY <1>1, <1>3, <1>4, <2>1 DEF PictureExact
<1>5. ASSUME bits[Here] # <<>>
      PROVE  GetStatus(Here) = "PROCESSED" /\ infos[Here].len = Count
    <2>1. infos[Here].alloc /\ infos[Here].len = infos[Here].total
        BY <1>1, <1>5 DEF PictureExact
    <2> QED
        BY <1>1, <1>3, <1>5, <2>1 DEF GetStatus
<1>6. GetStatus(Here) # "UNRECEIVED" => bits[Here] # <<>>
    <2>1. ~infos[Here].alloc => infos[Here].total = 0
        BY <1>1 DEF PictureExact
    <2> QED
        BY <1>2, <1>7, <2>1 DEF GetStatus, Complete
<1> QED
    BY <1>4, <1>5, <1>6

\* The next picture, or the first one that is downloaded
LEMMA NextUploadExact ==
    ASSUME Ordinary, IInv, Exact, mPhase \in {"check", "confirm"}, bits[Here] # <<>>, NextUpload,
           UNCHANGED <<slaveVars, session, nFiles, mCount, mNext, mGot, mSlots, saved>>
    PROVE  MasterExact' /\ mPhase' \in {"open", "poll"}
<1>1. session = 1 /\ mFile \in 1..Len(Files) /\ Len(Files) \in Nat
    BY Context, FilesFacts
<1>2. Files' = Files /\ bits' = bits
    BY DEF Files, slaveVars
<1>3. /\ \A k \in 1..(mFile - 1) : nFiles[k] = k - 1 /\ bits[k - 1] # <<>>
      /\ \A k \in 1..Len(Files) : saved[k] = <<>>
      /\ nFiles[mFile] = mFile - 1 /\ bits[mFile - 1] # <<>>
    BY DEF Exact, MasterExact, UploadPhases, Here
<1>4. \A k \in 1..mFile : nFiles[k] = k - 1 /\ bits[k - 1] # <<>>
    <2> SUFFICES ASSUME NEW k \in 1..mFile PROVE nFiles[k] = k - 1 /\ bits[k - 1] # <<>>
        OBVIOUS
    <2>1. k = mFile \/ k \in 1..(mFile - 1)
        BY <1>1
    <2> QED
        BY <1>3, <2>1
<1>5. CASE mFile + 1 <= Len(Files)
    <2>1. mFile' = mFile + 1 /\ mPhase' = "open"
        BY <1>5 DEF NextUpload, GoToFile
    <2>2. 1..(mFile' - 1) = 1..mFile
        BY <1>1, <2>1
    <2> QED
        BY <1>1, <1>2, <1>3, <1>4, <2>1, <2>2 DEF MasterExact, UploadPhases, FetchPhases
<1>6. CASE ~(mFile + 1 <= Len(Files))
    <2>1. mFile' = 1 /\ mPhase' = "poll"
        BY <1>6 DEF NextUpload, GoToFile
    <2>2. mFile = Len(Files)
        BY <1>1, <1>6
    <2>3. \A k \in 1..Len(Files) : ~(k < 1)
        BY <1>1
    <2> QED
        BY <1>1, <1>2, <1>3, <1>4, <2>1, <2>2, <2>3 DEF MasterExact, UploadPhases, FetchPhases
<1> QED
    BY <1>5, <1>6

\* The slave has the picture, or it is offered.
LEMMA UploadQueryExact ==
    ASSUME Ordinary, IInv, Exact, MasterChecked \/ MasterConfirmed, UNCHANGED slaveVars
    PROVE  Exact'
<1>1. /\ mPhase \in {"check", "confirm"} /\ mAsked /\ Intact(down)
      /\ down' = Drop(down, CtlUnits) /\ mAsked' = FALSE /\ up' = up
      /\ UNCHANGED <<session, nFiles, mCount, mNext, mGot, mSlots, saved>>
      /\ IF Head1(down).status = "UNRECEIVED" THEN mPhase' = "offer" /\ UNCHANGED mFile
                                              ELSE NextUpload
    BY DEF MasterChecked, MasterConfirmed, Answered
<1>2. /\ Told /\ Head1(down) = QueryAnswer /\ down' = <<>>
      /\ QueryAnswer.status = GetStatus(Here)
    BY <1>1, QueryAnswered
<1>3. sPc = "wait" /\ up = <<>>
    BY <1>2 DEF Told
<1>4. SlaveExact' /\ UNCHANGED <<sPc, sReq, infos, bits, sNext>> /\ Files' = Files
    BY <1>1, SlaveExactUntouched
<1>5. Idle' /\ ~mAsked'
    BY <1>1, <1>2, <1>3, <1>4 DEF Idle
<1>6. CASE GetStatus(Here) = "UNRECEIVED"
    <2>1. mPhase' = "offer" /\ mFile' = mFile
        BY <1>1, <1>2, <1>6
    <2>2. /\ bits[Here] = <<>>
          /\ infos[Here].alloc => \E i \in 1..Count : infos[Here].addr[i] = Empty
        BY <1>3, <1>6, StatusFacts
    <2>3. Here' = Here /\ Count' = Count
        BY <1>4, <2>1 DEF Here, Count
    <2>4. /\ session = 1 /\ nFiles[mFile] = Here /\ mCount = Count
          /\ \A k \in 1..(mFile - 1) : nFiles[k] = k - 1 /\ bits[k - 1] # <<>>
          /\ \A k \in 1..Len(Files) : saved[k] = <<>>
        BY <1>1 DEF Exact, MasterExact, UploadPhases
    <2>5. MasterExact'
        BY <1>1, <1>4, <2>1, <2>2, <2>3, <2>4 DEF MasterExact, UploadPhases, FetchPhases
    <2>6. LinkExact'
        BY <1>5, <2>1 DEF LinkExact
    <2> QED
        BY <1>4, <2>5, <2>6 DEF Exact
<1>7. CASE GetStatus(Here) # "UNRECEIVED"
    <2>1. bits[Here] # <<>>
        BY <1>3, <1>7, StatusFacts
    <2>2. MasterExact' /\ mPhase' \in {"open", "poll"}
        BY <1>1, <1>2, <1>7, <2>1, NextUploadExact
    <2>3. LinkExact'
        BY <1>5, <2>2 DEF LinkExact
    <2> QED
        BY <1>4, <2>2, <2>3 DEF Exact
<1> QED
    BY <1>6, <1>7

\* The slave takes the picture.
LEMMA OfferedExact ==
    ASSUME Ordinary, IInv, Exact, MasterOffered, UNCHANGED slaveVars
    PROVE  Exact'
<1>1. /\ mPhase = "offer" /\ mAsked /\ Intact(down)
      /\ down' = Drop(down, CtlUnits) /\ mAsked' = FALSE /\ up' = up
      /\ UNCHANGED <<faults, session, mFile, nFiles, mCount, mGot, mSlots, saved>>
    BY DEF MasterOffered, Answered
<1>2. down # <<>>
    <2>1. Len(down) >= CtlUnits
        BY <1>1 DEF Intact
    <2> QED
        BY <2>1, UnitFacts, EmptySeq
<1>3. Granted
    BY <1>1, <1>2, AnswerUnread DEF RequestPhases
<1>4. mCount = Count /\ Count \in Nat \ {0}
    BY <1>1, Context DEF Exact, MasterExact, UploadPhases
<1>5. mPhase' = "upload" /\ mNext' = 1
    BY <1>4 DEF MasterOffered
<1>6. down' = <<>>
    <2>1. Len(down) = CtlUnits /\ LineTypeOK
        BY <1>3, Context DEF Granted, Carries
    <2> QED
        BY <1>1, <2>1, AnswerGone
<1>7. SlaveExact' /\ UNCHANGED <<sPc, sReq, infos, bits, sNext>> /\ Files' = Files
    BY <1>1, SlaveExactUntouched
<1>8. Here' = Here /\ Count' = Count
    BY <1>1, <1>7 DEF Here, Count
<1>9. MasterExact'
    BY <1>1, <1>5, <1>7, <1>8 DEF Exact, MasterExact, UploadPhases, FetchPhases
<1>10. LinkExact'
    <2>1. Taken' /\ up' = <<>> /\ Len(up') = 0
        BY <1>1, <1>3, <1>7, <1>8, EmptySeq DEF Granted, Taken
    <2>2. mNext' \in 1..Count' /\ mNext' - 1 = 0
        BY <1>4, <1>5, <1>8
    <2>3. (mNext' - 1) * DataUnits = 0
        BY <2>2, UnitFacts
    <2>4. Shifted'
        <3>1. \A p : p \notin 1..Len(up')
            BY <2>1
        <3> QED
            BY <3>1 DEF Shifted
    <2>5. (mNext' - 1) * DataUnits - Len(up') \in 0..Lost'
        <3>1. Lost' \in Nat
            BY <1>1, LostBound, Context DEF Lost
        <3> QED
            BY <2>1, <2>3, <3>1
    <2> QED
        BY <1>1, <1>5, <1>6, <2>1, <2>2, <2>4, <2>5 DEF LinkExact
<1> QED
    BY <1>7, <1>9, <1>10 DEF Exact

\* One more frame of the picture is on the line, as far before its place as units are
\* missing there.
LEMMA UploadGrows ==
    ASSUME LineTypeOK, Count \in Nat, Lost \in Nat, NEW m \in Nat, m + 1 <= Count,
           Shifted, m * DataUnits - Len(up) \in 0..Lost,
           up' = up \o Units(PictureFrame(mFile, m + 1))
    PROVE  /\ (m + 1) * DataUnits - Len(up') \in 0..Lost
           /\ \A p \in 1..Len(up') : Placed(Files[mFile], Count, up'[p], p, Lost)
<1>1. up \in Seq((MasterFrame \X Nat) \cup {Noise}) /\ Len(up) \in Nat
    BY LineFacts DEF LineTypeOK, Line
<1>2. PICK frame : frame = PictureFrame(mFile, m + 1)
    OBVIOUS
<1>3. Size(frame) = DataUnits /\ frame = Data(<<Files[mFile], m + 1>>)
    BY <1>2 DEF Size, PictureFrame, Data
<1>4. DataUnits \in Nat \ {0} /\ m * DataUnits \in Nat /\ (m + 1) * DataUnits = m * DataUnits + DataUnits
    BY UnitFacts, UnitsBefore
<1>5. /\ Len(up') = Len(up) + DataUnits
      /\ \A i \in 1..Len(up) : up'[i] = up[i]
      /\ \A i \in 1..DataUnits : up'[Len(up) + i] = <<frame, i>>
    <2>1. /\ Len(up \o Units(frame)) = Len(up) + Size(frame)
          /\ \A i \in 1..Len(up) : (up \o Units(frame))[i] = up[i]
          /\ \A i \in 1..Size(frame) : (up \o Units(frame))[Len(up) + i] = <<frame, i>>
        BY <1>1, AppendFacts
    <2> QED
        BY <1>2, <1>3, <2>1
<1>6. (m + 1) * DataUnits - Len(up') \in 0..Lost
    BY <1>1, <1>4, <1>5
<1>7. ASSUME NEW p \in 1..Len(up')
      PROVE  Placed(Files[mFile], Count, up'[p], p, Lost)
    <2>1. CASE p \in 1..Len(up)
        BY <1>5, <2>1 DEF Shifted
    <2>2. CASE p \notin 1..Len(up)
        <3>1. PICK k \in 1..DataUnits : p = Len(up) + k
            <4>1. p - Len(up) \in 1..DataUnits /\ p = Len(up) + (p - Len(up))
                BY <1>1, <1>4, <1>5, <2>2
            <4> QED
                BY <4>1
        <3>2. up'[p] = <<Data(<<Files[mFile], m + 1>>), k>>
            BY <1>3, <1>5, <3>1
        <3>3. Lead(m + 1, k, p) = m * DataUnits - Len(up)
            <4>1. (m + 1) - 1 = m
                OBVIOUS
            <4>2. Lead(m + 1, k, p) = m * DataUnits + k - p
                BY <4>1 DEF Lead
            <4> QED
                BY <1>1, <1>4, <3>1, <4>2
        <3>4. m + 1 \in 1..Count
            OBVIOUS
        <3> QED
            BY <3>2, <3>3, <3>4 DEF Placed
    <2> QED
        BY <2>1, <2>2
<1> QED
    BY <1>6, <1>7

\* The master sends the next frame of the picture.
LEMMA UploadExact ==
    ASSUME Ordinary, IInv, Exact, MasterUpload, UNCHANGED slaveVars
    PROVE  Exact'
<1>1. /\ mPhase = "upload" /\ down' = down
      /\ UNCHANGED <<session, mAsked, mFile, nFiles, mCount, mGot, mSlots, saved>>
    BY DEF MasterUpload
<1>2. /\ ~mAsked /\ Taken /\ down = <<>> /\ mNext \in 1..Count
      /\ (mNext - 1) * DataUnits - Len(up) \in 0..Lost /\ Shifted
    BY <1>1 DEF Exact, LinkExact
<1>3. mCount = Count /\ Count \in Nat \ {0} /\ LineTypeOK /\ Lost \in Nat
    BY <1>1, Context, LostBound DEF Exact, MasterExact, UploadPhases
<1>4. PICK m \in Nat : m = mNext - 1 /\ mNext = m + 1
    BY <1>2, <1>3
<1>5. up' = up \o Units(PictureFrame(mFile, m + 1)) /\ faults' = faults
    <2>1. up' = up \o Units(PictureFrame(mFile, mNext)) /\ faults' = faults
        BY NoOtherFault DEF MasterUpload
    <2> QED
        BY <1>4, <2>1
<1>6. /\ (m + 1) * DataUnits - Len(up') \in 0..Lost
      /\ \A p \in 1..Len(up') : Placed(Files[mFile], Count, up'[p], p, Lost)
    <2>1. m + 1 <= Count
        BY <1>2, <1>4
    <2> QED
        BY <1>2, <1>3, <1>4, <1>5, <2>1, UploadGrows
<1>7. SlaveExact' /\ UNCHANGED <<sPc, sReq, infos, bits, sNext>> /\ Files' = Files
    BY <1>1, SlaveExactUntouched
<1>8. Here' = Here /\ Count' = Count /\ Lost' = Lost
    BY <1>1, <1>5, <1>7 DEF Here, Count, Lost
<1>9. Taken' /\ down' = <<>> /\ ~mAsked'
    BY <1>1, <1>2, <1>7, <1>8 DEF Taken
<1>10. Shifted'
    BY <1>1, <1>6, <1>7, <1>8 DEF Shifted
<1>11. CASE mNext < mCount
    <2>1. mNext' = m + 2 /\ mPhase' = "upload"
        BY <1>1, <1>4, <1>11 DEF MasterUpload
    <2>2. mNext' \in 1..Count' /\ mNext' - 1 = m + 1
        BY <1>3, <1>4, <1>8, <1>11, <2>1
    <2>3. LinkExact'
        BY <1>6, <1>8, <1>9, <1>10, <2>1, <2>2 DEF LinkExact
    <2>4. MasterExact'
        BY <1>1, <1>7, <1>8, <2>1 DEF Exact, MasterExact, UploadPhases, FetchPhases
    <2> QED
        BY <1>7, <2>3, <2>4 DEF Exact
<1>12. CASE ~(mNext < mCount)
    <2>1. mPhase' = "confirm"
        BY <1>1, <1>12 DEF MasterUpload
    <2>2. m + 1 = Count
        BY <1>2, <1>3, <1>4, <1>12
    <2>3. /\ Len(up') <= Count * DataUnits /\ Len(up') <= Count * DataUnits + CtlUnits
          /\ Len(up') # Count * DataUnits + CtlUnits
        <3>1. Count * DataUnits - Len(up') \in 0..Lost /\ Count * DataUnits \in Nat
            BY <1>3, <1>6, <2>2, UnitFacts, UnitsBefore
        <3>2. Len(up') \in Nat
            <4>1. up \in Seq((MasterFrame \X Nat) \cup {Noise})
                BY <1>3 DEF LineTypeOK, Line
            <4>2. PICK frame : frame = PictureFrame(mFile, m + 1)
                OBVIOUS
            <4>3. Len(up') = Len(up) + Size(frame) /\ Size(frame) \in Nat /\ Len(up) \in Nat
                BY <1>5, <4>1, <4>2, AppendFacts, LenProperties, UnitFacts DEF Size
            <4> QED
                BY <4>3
        <3> QED
            BY <1>3, <3>1, <3>2, UnitFacts
    <2>4. Collecting'
        BY <1>8, <1>9, <1>10, <2>3 DEF Collecting
    <2>5. LinkExact'
        BY <2>1, <2>4 DEF LinkExact
    <2>6. MasterExact'
        BY <1>1, <1>7, <1>8, <2>1 DEF Exact, MasterExact, UploadPhases, FetchPhases
    <2> QED
        BY <1>7, <2>5, <2>6 DEF Exact
<1> QED
    BY <1>11, <1>12

\* The picture is encoded: its stream is asked for.
LEMMA PolledExact ==
    ASSUME Ordinary, IInv, Exact, MasterPolled, UNCHANGED slaveVars
    PROVE  Exact'
<1>1. /\ mPhase = "poll" /\ mAsked /\ Intact(down)
      /\ down' = Drop(down, CtlUnits) /\ mAsked' = FALSE /\ up' = up
      /\ UNCHANGED <<session, nFiles, mCount, mFile, mNext, mGot, saved>>
    BY DEF MasterPolled, Answered
<1>2. /\ Told /\ Head1(down) = QueryAnswer /\ down' = <<>>
      /\ QueryAnswer.status = GetStatus(Here) /\ QueryAnswer.n = infos[Here].len
    BY <1>1, QueryAnswered
<1>3. sPc = "wait" /\ up = <<>>
    BY <1>2 DEF Told
<1>4. SlaveExact' /\ UNCHANGED <<sPc, sReq, infos, bits, sNext>> /\ Files' = Files
      /\ \A k : Whole(k)' = Whole(k)
    BY <1>1, SlaveExactUntouched
<1>5. bits[Here] # <<>>
    <2>1. bits[Here] = Whole(mFile)
        BY <1>1, StreamThere DEF UploadPhases
    <2> QED
        BY <2>1, Context
<1>6. GetStatus(Here) = "PROCESSED" /\ infos[Here].len = Count
    BY <1>3, <1>5, StatusFacts
<1>7. mPhase' = "fetch" /\ mSlots' = Calloc(Count)
    BY <1>1, <1>2, <1>6 DEF MasterPolled
<1>8. Len(mSlots') = Count /\ \A i \in 1..Count : mSlots'[i] = Empty
    <2>1. Count \in Nat
        BY Context
    <2>2. Calloc(Count) = [i \in 1..Count |-> Empty]
        BY DEF Calloc
    <2>3. Calloc(Count) \in Seq({Empty}) /\ Len(Calloc(Count)) = Count
        BY <2>1, <2>2, SeqDef, LenProperties
    <2> QED
        BY <1>7, <2>2, <2>3
<1>9. Here' = Here /\ Count' = Count
    BY <1>1, <1>4 DEF Here, Count
<1>10. \A k : Stream(k)' = Stream(k)
    BY <1>4 DEF Stream
<1>11. MasterExact'
    BY <1>1, <1>4, <1>7, <1>8, <1>9, <1>10 DEF Exact, MasterExact, UploadPhases, FetchPhases
<1>12. Idle' /\ ~mAsked'
    BY <1>1, <1>2, <1>3, <1>4 DEF Idle
<1>13. LinkExact'
    BY <1>7, <1>12 DEF LinkExact
<1> QED
    BY <1>4, <1>11, <1>13 DEF Exact

\* The stream behind an answer that has been read
LEMMA DownloadMoves ==
    ASSUME LineTypeOK, NEW m \in Nat, Downloaded(CtlUnits, m), down' = Drop(down, CtlUnits)
    PROVE  /\ Len(down') = 0 + m * DataUnits
           /\ \A j \in 1..m :
                 down'[0 + (j - 1) * DataUnits + 1] \in {<<StreamFrame(Whole(mFile), j), 1>>, Noise}
<1>1. down \in Seq((SlaveFrame \X Nat) \cup {Noise}) /\ Len(down) \in Nat
    BY LineFacts DEF LineTypeOK, Line
<1>2. Len(down) = CtlUnits + m * DataUnits /\ m * DataUnits \in Nat /\ CtlUnits \in 0..Len(down)
      /\ CtlUnits \in Nat /\ DataUnits \in Nat \ {0}
    <2>1. Len(down) = CtlUnits + m * DataUnits
        BY DEF Downloaded
    <2>2. m * DataUnits \in Nat /\ CtlUnits \in Nat /\ DataUnits \in Nat \ {0}
        BY UnitFacts, UnitsBefore
    <2> QED
        BY <2>1, <2>2
<1>3. /\ Len(down') = Len(down) - CtlUnits
      /\ \A i \in 1..(Len(down) - CtlUnits) : down'[i] = down[CtlUnits + i]
    <2>1. PICK line : line = down
        OBVIOUS
    <2>2. /\ Len(Drop(line, CtlUnits)) = Len(line) - CtlUnits
          /\ \A i \in 1..(Len(line) - CtlUnits) : Drop(line, CtlUnits)[i] = line[CtlUnits + i]
        BY <1>1, <1>2, <2>1, DropFacts
    <2> QED
        BY <2>1, <2>2
<1>4. ASSUME NEW j \in 1..m
      PROVE  down'[0 + (j - 1) * DataUnits + 1] \in {<<StreamFrame(Whole(mFile), j), 1>>, Noise}
    <2>1. PICK p : p = (j - 1) * DataUnits + 1
        OBVIOUS
    <2>2. p \in 1..(m * DataUnits)
        BY <1>2, <2>1, ChunkInside
    <2>3. down'[p] = down[CtlUnits + p]
        BY <1>2, <1>3, <2>2
    <2>4. (j - 1) * DataUnits \in Nat
        BY <1>2, UnitsBefore
    <2>5. 0 + (j - 1) * DataUnits + 1 = p /\ CtlUnits + p = CtlUnits + (j - 1) * DataUnits + 1
        BY <1>2, <2>1, <2>4
    <2>6. down[CtlUnits + p] \in {<<StreamFrame(Whole(mFile), j), 1>>, Noise}
        BY <2>5 DEF Downloaded
    <2> QED
        BY <2>3, <2>5, <2>6
<1>5. Len(down') = 0 + m * DataUnits
    BY <1>2, <1>3
<1> QED
    BY <1>4, <1>5

\* The stream is coming.
LEMMA FetchedExact ==
    ASSUME Ordinary, IInv, Exact, MasterFetched, UNCHANGED slaveVars
    PROVE  Exact'
<1>1. /\ mPhase = "fetch" /\ mAsked /\ Intact(down)
      /\ down' = Drop(down, CtlUnits) /\ mAsked' = FALSE /\ up' = up
      /\ mGot' = Head1(down).n /\ mPhase' = "download"
      /\ UNCHANGED <<session, nFiles, mCount, mFile, mNext, mSlots, saved>>
    BY DEF MasterFetched, Answered
<1>2. down # <<>>
    <2>1. Len(down) >= CtlUnits
        BY <1>1 DEF Intact
    <2> QED
        BY <2>1, UnitFacts, EmptySeq
<1>3. Announced /\ Coming(CtlUnits)
    BY <1>1, <1>2, AnswerUnread DEF RequestPhases
<1>4. mGot' = StreamCount
    <2>1. Head1(down) = RecvAnswer
        BY <1>1, <1>3, AnnouncedReads
    <2> QED
        BY <1>1, <2>1 DEF RecvAnswer, Ctl
<1>5. SlaveExact' /\ UNCHANGED <<sPc, sReq, infos, bits, sNext>> /\ Files' = Files
      /\ \A k : Whole(k)' = Whole(k)
    BY <1>1, SlaveExactUntouched
<1>6. Here' = Here /\ Count' = Count /\ StreamCount' = StreamCount /\ mFile' = mFile
      /\ Whole(mFile)' = Whole(mFile)
    BY <1>1, <1>5 DEF Here, Count, StreamCount, BitFrames, Whole
<1>7. \A k : Stream(k)' = Stream(k)
    BY <1>5 DEF Stream
<1>8. MasterExact'
    BY <1>1, <1>5, <1>6, <1>7 DEF Exact, MasterExact, UploadPhases, FetchPhases
<1>9. LineTypeOK /\ StreamCount \in Nat \ {0}
    BY Context
<1>10. Coming(0)'
    <2>1. CASE sPc = "send" /\ sReq.file = Here /\ sNext \in 1..StreamCount
               /\ Downloaded(CtlUnits, sNext - 1)
        <3>1. PICK m \in Nat : m = sNext - 1
            BY <1>9, <2>1
        <3>2. /\ Len(down') = 0 + m * DataUnits
              /\ \A j \in 1..m :
                    down'[0 + (j - 1) * DataUnits + 1]
                        \in {<<StreamFrame(Whole(mFile), j), 1>>, Noise}
            BY <1>1, <1>9, <2>1, <3>1, DownloadMoves
        <3>3. Downloaded(0, sNext - 1)'
            BY <1>5, <1>6, <3>1, <3>2 DEF Downloaded
        <3> QED
            BY <1>1, <1>3, <1>5, <1>6, <2>1, <3>3 DEF Coming
    <2>2. CASE sPc = "wait" /\ Downloaded(CtlUnits, StreamCount)
        <3>1. PICK m \in Nat : m = StreamCount
            BY <1>9
        <3>2. /\ Len(down') = 0 + m * DataUnits
              /\ \A j \in 1..m :
                    down'[0 + (j - 1) * DataUnits + 1]
                        \in {<<StreamFrame(Whole(mFile), j), 1>>, Noise}
            BY <1>1, <1>9, <2>2, <3>1, DownloadMoves
        <3>3. Downloaded(0, StreamCount)'
            BY <1>6, <3>1, <3>2 DEF Downloaded
        <3> QED
            BY <1>1, <1>3, <1>5, <2>2, <3>3 DEF Coming
    <2> QED
        BY <1>3, <2>1, <2>2 DEF Coming
<1>11. LinkExact'
    BY <1>1, <1>4, <1>6, <1>10 DEF LinkExact
<1> QED
    BY <1>5, <1>8, <1>11 DEF Exact

\* The master's buffer is full when the whole stream has been sent.
LEMMA StreamArrived ==
    ASSUME Ordinary, IInv, Exact, mPhase = "download", BufferFull(down, mGot)
    PROVE  /\ mGot = StreamCount /\ ~mAsked /\ up = <<>> /\ sPc = "wait"
           /\ Downloaded(0, StreamCount) /\ Len(down) = StreamCount * DataUnits
<1>1. ~mAsked /\ mGot = StreamCount /\ Coming(0)
    BY DEF Exact, LinkExact
<1>2. StreamCount \in Nat \ {0} /\ DataUnits \in Nat \ {0} /\ StreamCount * DataUnits \in Nat
      /\ Len(down) \in Nat
    BY Context, LineFacts, UnitFacts, UnitsBefore
<1>3. Len(down) >= StreamCount * DataUnits
    BY <1>1 DEF BufferFull
<1>4. ~(sNext \in 1..StreamCount /\ Downloaded(0, sNext - 1))
    <2> SUFFICES ASSUME sNext \in 1..StreamCount, Downloaded(0, sNext - 1) PROVE FALSE
        OBVIOUS
    <2>1. PICK m \in Nat : m = sNext - 1 /\ m < StreamCount
        BY <1>2
    <2>2. Len(down) = 0 + m * DataUnits
        BY <2>1 DEF Downloaded
    <2>3. m * DataUnits < StreamCount * DataUnits /\ m * DataUnits \in Nat
        BY <1>2, <2>1, UnitsBefore
    <2> QED
        BY <1>2, <1>3, <2>2, <2>3
<1>5. sPc = "wait" /\ Downloaded(0, StreamCount) /\ up = <<>>
    BY <1>1, <1>4 DEF Coming
<1>6. Len(down) = 0 + StreamCount * DataUnits
    BY <1>5 DEF Downloaded
<1> QED
    BY <1>1, <1>2, <1>5, <1>6

\* What the master has received of the stream
LEMMA StreamReceived ==
    ASSUME Ordinary, IInv, Exact, mPhase = "download", BufferFull(down, mGot),
           ~(mGot > Len(mSlots)), NEW slots, slots = Fill(mSlots, down, mGot)
    PROVE  /\ slots \in Slots(StreamBody) /\ Len(slots) = Count
           /\ \A i \in 1..Count : slots[i] \in {Empty, <<Whole(mFile), i>>}
           /\ AllReceived => SubSeq(slots, 1, mGot) = Stream(mFile)
<1>1. mGot = StreamCount /\ Downloaded(0, StreamCount)
    BY StreamArrived
<1>2. StreamCount \in Nat \ {0} /\ Count \in Nat /\ Whole(mFile) # <<>>
      /\ mSlots \in Slots(StreamBody) /\ down \in Line(SlaveFrame)
    BY Context DEF MasterTypeOK, LineTypeOK
<1>3. Len(mSlots) = Count /\ \A i \in 1..Count : mSlots[i] \in {Empty, <<Whole(mFile), i>>}
    BY DEF Exact, MasterExact, FetchPhases
<1>4. StreamCount <= Count
    BY <1>1, <1>2, <1>3
<1>5. slots \in Slots(StreamBody) /\ Len(slots) = Count
    BY <1>1, <1>2, <1>3, StreamFillType
<1>6. ASSUME NEW i \in 1..StreamCount
      PROVE  Chunk(down, i) \in {<<Whole(mFile), i>>, Empty}
    <2>1. PICK body : body = <<Whole(mFile), i>>
        OBVIOUS
    <2>2. down[0 + (i - 1) * DataUnits + 1] \in {<<Data(body), 1>>, Noise}
        BY <1>1, <2>1 DEF Downloaded, StreamFrame
    <2>3. 0 + (i - 1) * DataUnits + 1 = (i - 1) * DataUnits + 1
        <3>1. i - 1 \in Nat
            BY <1>2
        <3>2. (i - 1) * DataUnits \in Nat
            BY <3>1, UnitFacts, UnitsBefore
        <3> QED
            BY <3>2
    <2>4. \/ down[(i - 1) * DataUnits + 1] = <<Data(body), 1>>
          \/ down[(i - 1) * DataUnits + 1] = Noise
        BY <2>2, <2>3
    <2>5. Chunk(down, i) = body \/ Chunk(down, i) = Empty
        BY <2>4, ChunkIs
    <2> QED
        BY <2>1, <2>5
<1>7. \A i \in 1..Count : slots[i] \in {Empty, <<Whole(mFile), i>>}
    <2> SUFFICES ASSUME NEW i \in 1..Count
                 PROVE  slots[i] \in {Empty, <<Whole(mFile), i>>}
        OBVIOUS
    <2>1. slots[i] \in {mSlots[i], Chunk(down, i)} /\ (~(i <= StreamCount) => slots[i] = mSlots[i])
        BY <1>1, <1>3 DEF Fill
    <2>2. i <= StreamCount => i \in 1..StreamCount
        BY <1>2
    <2> QED
        BY <1>3, <1>6, <2>1, <2>2
<1>8. ASSUME AllReceived
      PROVE  SubSeq(slots, 1, mGot) = Stream(mFile)
    <2>1. \A i \in 1..StreamCount : slots[i] # Empty
        <3>1. StreamCount <= Len(mSlots) /\ BufferFull(down, StreamCount)
            BY <1>1, <1>3, <1>4
        <3>2. Missing(mSlots, down, StreamCount) = Gaps(Fill(mSlots, down, StreamCount), StreamCount)
            BY <1>2, <3>1, StreamGaps
        <3> QED
            BY <1>1, <1>2, <1>8, <3>2, GapCount DEF AllReceived
    <2>2. \A i \in 1..StreamCount : i \in 1..Count
        BY <1>2, <1>4
    <2>3. \A i \in 1..StreamCount : slots[i] = <<Whole(mFile), i>>
        BY <1>7, <2>1, <2>2
    <2>4. Stream(mFile) = [i \in 1..StreamCount |-> <<Whole(mFile), i>>]
        BY DEF Stream, StreamCount
    <2>5. slots \in Seq(StreamBody \cup {Empty})
        BY <1>5 DEF Slots
    <2>6. \A i \in 1..StreamCount : slots[i] \in StreamBody \cup {Empty}
        BY <1>2, <1>5, <2>2, <2>5, ElementOfSeq
    <2>7. 1 \in Int /\ StreamCount \in Int /\ StreamCount - 1 + 1 = StreamCount /\ 1 <= StreamCount
          /\ \A i \in 1..StreamCount : 1 + i - 1 = i
        BY <1>2
    <2>8. /\ SubSeq(slots, 1, StreamCount) \in Seq(StreamBody \cup {Empty})
          /\ Len(SubSeq(slots, 1, StreamCount))
                = IF 1 <= StreamCount THEN StreamCount - 1 + 1 ELSE 0
          /\ \A i \in 1..(StreamCount - 1 + 1) : SubSeq(slots, 1, StreamCount)[i] = slots[1 + i - 1]
        BY <2>6, <2>7, SubSeqProperties
    <2>9. /\ Len(SubSeq(slots, 1, StreamCount)) = StreamCount
          /\ \A i \in 1..StreamCount : SubSeq(slots, 1, StreamCount)[i] = <<Whole(mFile), i>>
        BY <2>3, <2>7, <2>8
    <2>10. Stream(mFile) \in Seq(StreamBody \cup {Empty}) /\ Len(Stream(mFile)) = StreamCount
           /\ \A i \in 1..StreamCount : Stream(mFile)[i] = <<Whole(mFile), i>>
        <3>1. \A i \in 1..StreamCount : <<Whole(mFile), i>> \in StreamBody \cup {Empty}
            BY <2>3, <2>6
        <3>2. Stream(mFile) \in [1..StreamCount -> StreamBody \cup {Empty}]
            BY <2>4, <3>1
        <3>3. Stream(mFile) \in Seq(StreamBody \cup {Empty})
            BY <1>2, <3>2, SeqDef
        <3>4. DOMAIN Stream(mFile) = 1..StreamCount
            BY <2>4
        <3>5. Len(Stream(mFile)) = StreamCount
            BY <1>2, <3>3, <3>4, LenProperties
        <3> QED
            BY <2>4, <3>3, <3>5
    <2>11. SubSeq(slots, 1, StreamCount) = Stream(mFile)
        BY <2>8, <2>9, <2>10, SeqEqual, ZenonT(40)
    <2> QED
        BY <1>1, <2>11
<1> QED
    BY <1>5, <1>7, <1>8

\* Nothing is left of a line that has been read to its end, flushed or not.
LEMMA FlushedEmpty ==
    ASSUME NEW S, NEW line \in Seq(S), NEW other, other \in Flushed(Drop(line, Len(line)))
    PROVE  other = <<>>
<1>1. Len(line) \in Nat /\ Len(line) \in 0..Len(line)
    BY LenProperties
<1>2. PICK rest : rest = Drop(line, Len(line))
    OBVIOUS
<1>3. rest \in Seq(S) /\ Len(rest) = 0
    <2>1. /\ Drop(line, Len(line)) \in Seq(S)
          /\ Len(Drop(line, Len(line))) = Len(line) - Len(line)
        BY <1>1, DropFacts
    <2> QED
        BY <1>1, <1>2, <2>1
<1>4. PICK k \in 0..Len(rest) : other = Drop(rest, k)
    BY <1>2 DEF Flushed
<1>5. k = 0 /\ k \in 0..Len(rest)
    BY <1>3, <1>4
<1>6. other \in Seq(S) /\ Len(other) = Len(rest) - k
    BY <1>3, <1>4, DropFacts
<1> QED
    BY <1>3, <1>5, <1>6, EmptySeq

\* The next stream, or the end
LEMMA SavedExact ==
    ASSUME Ordinary, IInv, Exact, mPhase = "download", GoToFile(mFile + 1, "poll", "done"),
           saved' = [saved EXCEPT ![mFile] = Stream(mFile)],
           UNCHANGED <<slaveVars, session, nFiles, mCount>>
    PROVE  MasterExact' /\ mPhase' \in {"poll", "done"}
<1>1. session = 1 /\ mFile \in 1..Len(Files) /\ Len(Files) \in Nat /\ MasterTypeOK
    BY Context, FilesFacts
<1>2. Files' = Files /\ bits' = bits
    BY DEF Files, slaveVars
<1>3. \A k : Stream(k)' = Stream(k)
    BY <1>2 DEF Stream, Whole
<1>4. /\ \A k \in 1..Len(Files) : nFiles[k] = k - 1 /\ bits[k - 1] # <<>>
      /\ \A k \in 1..Len(Files) : saved[k] = IF k < mFile THEN Stream(k) ELSE <<>>
    BY DEF Exact, MasterExact, UploadPhases, FetchPhases
<1>5. \A k \in 1..Len(Files) : saved'[k] = IF k < mFile + 1 THEN Stream(k) ELSE <<>>
    <2> SUFFICES ASSUME NEW k \in 1..Len(Files)
                 PROVE  saved'[k] = IF k < mFile + 1 THEN Stream(k) ELSE <<>>
        OBVIOUS
    <2>1. DOMAIN saved = 1..Len(Files)
        BY <1>1 DEF MasterTypeOK
    <2>2. CASE k = mFile
        <3>1. saved'[k] = Stream(mFile)
            BY <2>1, <2>2
        <3> QED
            BY <1>1, <2>2, <3>1
    <2>3. CASE k # mFile
        <3>1. saved'[k] = saved[k]
            BY <2>1, <2>3
        <3>2. k < mFile + 1 <=> k < mFile
            BY <1>1, <2>3
        <3> QED
            BY <1>4, <3>1, <3>2
    <2> QED
        BY <2>2, <2>3
<1>6. CASE mFile + 1 <= Len(Files)
    <2>1. mFile' = mFile + 1 /\ mPhase' = "poll"
        BY <1>6 DEF GoToFile
    <2> QED
        BY <1>1, <1>2, <1>3, <1>4, <1>5, <2>1 DEF MasterExact, UploadPhases, FetchPhases
<1>7. CASE ~(mFile + 1 <= Len(Files))
    <2>1. mFile' = 1 /\ mPhase' = "done"
        BY <1>7 DEF GoToFile
    <2>2. \A k \in 1..Len(Files) : k < mFile + 1
        BY <1>1, <1>7
    <2>3. \A k \in 1..Len(Files) : saved'[k] = Stream(k)
        BY <1>5, <2>2
    <2> QED
        BY <1>1, <1>2, <1>3, <1>4, <2>1, <2>3 DEF MasterExact, UploadPhases, FetchPhases
<1> QED
    BY <1>6, <1>7

\* The master's buffer is full: the stream is saved, or asked for again.
LEMMA MasterReceiveExact ==
    ASSUME Ordinary, IInv, Exact, MasterReceiveData, UNCHANGED slaveVars
    PROVE  /\ Exact'
           /\ \/ saved' = saved
              \/ saved' = [saved EXCEPT ![mFile] = Stream(mFile)]
<1>1. /\ mPhase = "download" /\ BufferFull(down, mGot)
      /\ up' = up /\ UNCHANGED <<session, mAsked, nFiles, mCount, mNext, mGot>>
    BY DEF MasterReceiveData
<1>2. /\ mGot = StreamCount /\ ~mAsked /\ up = <<>> /\ sPc = "wait"
      /\ Len(down) = StreamCount * DataUnits
    BY <1>1, StreamArrived
<1>3. SlaveExact' /\ UNCHANGED <<sPc, sReq, infos, bits, sNext>> /\ Files' = Files
      /\ \A k : Whole(k)' = Whole(k)
    BY <1>1, SlaveExactUntouched
<1>4. \A k : Stream(k)' = Stream(k)
    BY <1>3 DEF Stream
<1>5. CASE mGot > Len(mSlots)
    <2>1. mPhase' = "overrun" /\ UNCHANGED <<down, mFile, mSlots, saved>>
        BY <1>5 DEF MasterReceiveData
    <2>2. Here' = Here /\ Count' = Count /\ Whole(mFile)' = Whole(mFile)
        BY <1>3, <2>1 DEF Here, Count, Whole
    <2>3. MasterExact'
        BY <1>1, <1>3, <1>4, <2>1, <2>2 DEF Exact, MasterExact, UploadPhases, FetchPhases
    <2>4. LinkExact'
        BY <1>1, <1>2, <1>3, <2>1 DEF LinkExact
    <2> QED
        BY <1>3, <2>1, <2>3, <2>4 DEF Exact
<1>6. CASE ~(mGot > Len(mSlots))
    <2>1. PICK slots : slots = Fill(mSlots, down, mGot)
        OBVIOUS
    <2>2. /\ down' \in Flushed(Drop(down, mGot * DataUnits))
          /\ IF AllReceived
             THEN /\ GoToFile(mFile + 1, "poll", "done")
                  /\ mSlots' = <<>>
                  /\ saved' = [saved EXCEPT ![mFile] = SubSeq(slots, 1, mGot)]
             ELSE /\ mPhase' = "fetch"
                  /\ mSlots' = slots
                  /\ UNCHANGED <<mFile, saved>>
        BY <1>6, <2>1 DEF MasterReceiveData
    <2>3. /\ slots \in Slots(StreamBody) /\ Len(slots) = Count
          /\ \A i \in 1..Count : slots[i] \in {Empty, <<Whole(mFile), i>>}
          /\ AllReceived => SubSeq(slots, 1, mGot) = Stream(mFile)
        BY <1>1, <1>6, <2>1, StreamReceived
    <2>4. down' = <<>>
        <3>1. down \in Seq((SlaveFrame \X Nat) \cup {Noise})
            BY Context DEF LineTypeOK, Line
        <3>2. down' \in Flushed(Drop(down, Len(down)))
            BY <1>2, <2>2
        <3>3. PICK line : line = down
            OBVIOUS
        <3>4. PICK other : other = down'
            OBVIOUS
        <3>5. other \in Flushed(Drop(line, Len(line))) /\ line \in Seq((SlaveFrame \X Nat) \cup {Noise})
            BY <3>1, <3>2, <3>3, <3>4
        <3>6. other = <<>>
            BY <3>5, FlushedEmpty
        <3> QED
            BY <3>4, <3>6
    <2>5. Idle' /\ ~mAsked'
        BY <1>1, <1>2, <1>3, <2>4 DEF Idle
    <2>6. CASE AllReceived
        <3>1. saved' = [saved EXCEPT ![mFile] = Stream(mFile)] /\ GoToFile(mFile + 1, "poll", "done")
            BY <2>2, <2>3, <2>6
        <3>2. MasterExact' /\ mPhase' \in {"poll", "done"}
            BY <1>1, <3>1, SavedExact
        <3>3. LinkExact'
            BY <2>5, <3>2 DEF LinkExact
        <3> QED
            BY <1>3, <3>1, <3>2, <3>3 DEF Exact
    <2>7. CASE ~AllReceived
        <3>1. mPhase' = "fetch" /\ mSlots' = slots /\ UNCHANGED <<mFile, saved>>
            BY <2>2, <2>7
        <3>2. Here' = Here /\ Count' = Count /\ Whole(mFile)' = Whole(mFile)
            BY <1>3, <3>1 DEF Here, Count, Whole
        <3>3. MasterExact'
            BY <1>1, <1>3, <1>4, <2>3, <3>1, <3>2
               DEF Exact, MasterExact, UploadPhases, FetchPhases
        <3>4. LinkExact'
            BY <2>5, <3>1 DEF LinkExact
        <3> QED
            BY <1>3, <3>1, <3>3, <3>4 DEF Exact
    <2> QED
        BY <2>6, <2>7
<1> QED
    BY <1>5, <1>6

\* Every step of the master.
LEMMA MasterExactStep ==
    ASSUME Ordinary, IInv, Exact, MasterActs
    PROVE  Exact'
<1>1. UNCHANGED slaveVars /\ (MasterStep \/ RequestTimeout \/ DataTimeout)
    BY DEF MasterActs
<1>2. CASE MasterOpen
    BY <1>1, <1>2, OpenExact
<1>3. CASE MasterSend
    BY <1>1, <1>3, SendRequestExact
<1>4. CASE MasterMismatch
    BY <1>1, <1>4, MismatchExact
<1>5. CASE MasterChecked \/ MasterConfirmed
    BY <1>1, <1>5, UploadQueryExact
<1>6. CASE MasterOffered
    BY <1>1, <1>6, OfferedExact
<1>7. CASE MasterUpload
    BY <1>1, <1>7, UploadExact
<1>8. CASE MasterPolled
    BY <1>1, <1>8, PolledExact
<1>9. CASE MasterFetched
    BY <1>1, <1>9, FetchedExact
<1>10. CASE MasterReceiveData
    BY <1>1, <1>10, MasterReceiveExact
<1>11. CASE RequestTimeout
    BY <1>1, <1>11, RequestTimeoutExact
<1>12. CASE DataTimeout
    <2>1. mPhase = "download" /\ down = <<>> /\ Quiet
        BY <1>12 DEF DataTimeout, MasterDataTimeout
    <2> QED
        BY <2>1, NoDataTimeout
<1> QED
    BY <1>1, <1>2, <1>3, <1>4, <1>5, <1>6, <1>7, <1>8, <1>9, <1>10, <1>11, <1>12 DEF MasterStep

-----------------------------------------------------------------------------
(* The whole system.                                                       *)

\* The invariant holds at the start.
LEMMA InitExact ==
    ASSUME Ordinary, Init
    PROVE  Exact
<1>1. /\ session = 1 /\ mPhase = "open" /\ mAsked = FALSE /\ mFile = 1
      /\ nFiles = [k \in 1..Len(Files) |-> 0] /\ saved = [k \in 1..Len(Files) |-> <<>>]
      /\ up = <<>> /\ down = <<>> /\ sPc = "wait"
      /\ infos = [f \in File |-> NoInfo] /\ bits = [f \in File |-> <<>>]
    BY DEF Init, MasterInit, LineInit, SlaveInit
<1>2. Len(Files) \in Nat
    BY <1>1, FilesFacts
<1>3. ASSUME NEW f \in File
      PROVE  /\ bits[f] = <<>> /\ infos[f].alloc = FALSE
             /\ infos[f].total = 0 /\ Len(infos[f].addr) = 0
    <2>1. infos[f] = NoInfo /\ bits[f] = <<>>
        BY <1>1
    <2>2. NoInfo.alloc = FALSE /\ NoInfo.total = 0 /\ NoInfo.addr = <<>>
        BY DEF NoInfo
    <2>3. Len(NoInfo.addr) = 0
        BY <2>2, EmptySeq
    <2> QED
        BY <2>1, <2>2, <2>3
<1>4. ASSUME NEW f \in File
      PROVE  PictureExact(f)
    <2>1. ~infos[f].alloc /\ infos[f].total = 0 /\ bits[f] = <<>> /\ Len(infos[f].addr) = 0
        BY <1>3
    <2>2. \A i \in 1..Len(infos[f].addr) : FALSE
        BY <2>1
    <2> QED
        BY <2>1, <2>2 DEF PictureExact
<1>5. SlaveExact
    BY <1>1, <1>3, <1>4 DEF SlaveExact
<1>6. MasterExact
    <2>1. \A k : k \notin 1..(mFile - 1)
        BY <1>1
    <2> QED
        BY <1>1, <1>2, <2>1 DEF MasterExact, UploadPhases, FetchPhases
<1>7. LinkExact
    BY <1>1 DEF LinkExact, Idle
<1> QED
    BY <1>5, <1>6, <1>7 DEF Exact

\* Every step keeps it.
LEMMA NextExact ==
    ASSUME Ordinary, IInv, Exact, [Next]_vars
    PROVE  Exact'
<1>1. CASE UNCHANGED vars
    <2>1. UNCHANGED <<lineVars, slaveVars, masterVars>>
        BY <1>1 DEF vars
    <2>2. UNCHANGED <<up, down, faults, sPc, sReq, infos, bits, sNext, session>>
        BY <2>1 DEF lineVars, slaveVars, masterVars
    <2>3. SlaveExact' /\ MasterExact'
        BY <2>1, <2>2, SlaveExactStays, MasterExactStays
    <2>4. LinkExact'
        <3>1. Announced => Announced'
            BY <2>1, <2>2, MasterFixed DEF Announced
        <3> QED
            BY <2>1, <2>2, <3>1, NoiseLink
    <2> QED
        BY <2>3, <2>4 DEF Exact
<1>2. CASE MasterActs
    BY <1>2, MasterExactStep
<1>3. CASE SlaveActs
    BY <1>3, SlaveExactStep
<1>4. CASE Disturb
    BY <1>4, DisturbExact
<1>5. CASE Finished
    BY <1>1, <1>5 DEF Finished
<1> QED
    BY <1>1, <1>2, <1>3, <1>4, <1>5 DEF Next

-----------------------------------------------------------------------------
(* What the transfer promises.                                             *)

\* Under the ordinary faults the invariant holds for ever.
THEOREM ExactSafety ==
    ASSUME Ordinary
    PROVE  Spec => [](IInv /\ Exact)
<1>1. Init => IInv /\ Exact
    BY InitSafe, InitExact
<1>2. IInv /\ Exact /\ [Next]_vars => IInv' /\ Exact'
    BY NextSafe, NextExact
<1> QED
    BY <1>1, <1>2, PTL DEF Spec

\* A picture that the slave counts as complete (len == total_len) is the master's picture,
\* frame by frame, however many frames arrived with noise and were sent again, and although
\* the slave may take requests for data, or find frames that lost bytes have moved.
THEOREM PicturesReceived ==
    ASSUME Ordinary
    PROVE  Spec => []ReceivedSuccessfully
<1>1. ASSUME IInv, Exact, NEW f \in File, infos[f].total > 0, infos[f].len = infos[f].total,
             ~(sPc = "data" /\ sReq.file = f)
      PROVE  SubSeq(infos[f].addr, 1, infos[f].total) = Whole(f + 1)
    <2>1. /\ session = 1
          /\ infos \in [File -> [alloc : BOOLEAN, addr : Slots(PictureBody),
                                 len : NFrame, total : NFrame]]
        BY <1>1, Context DEF SlaveTypeOK
    <2>2. f < Len(Files) /\ PictureExact(f)
        BY <1>1, <2>1 DEF Exact, SlaveExact, NFrame
    <2>3. f + 1 \in 1..Len(Files)
        BY <2>1, <2>2, FilesFacts
    <2>4. PICK n : n = infos[f].total
        OBVIOUS
    <2>5. n = FrameCount[Files[f + 1]] /\ n \in Nat \ {0}
        BY <1>1, <2>1, <2>2, <2>3, <2>4, FilesFacts DEF PictureExact
    <2>6. infos[f].alloc
        BY <1>1, <2>2, <2>4, <2>5 DEF PictureExact
    <2>7. PICK addr : addr = infos[f].addr
        OBVIOUS
    <2>8. /\ addr \in Seq(PictureBody \cup {Empty})
          /\ Len(addr) = n
          /\ \A i \in 1..n : addr[i] = <<Files[f + 1], i>>
        <3>1. addr \in Slots(PictureBody)
            BY <2>1, <2>7
        <3>2. Len(addr) = n
            BY <2>2, <2>4, <2>6, <2>7 DEF PictureExact
        <3>3. \A i \in 1..n : addr[i] # Empty
            BY <1>1, <2>2, <2>4, <2>6, <2>7 DEF PictureExact
        <3>4. \A i \in 1..n : addr[i] \in {Empty, <<Files[f + 1], i>>}
            BY <2>2, <2>7, <3>2 DEF PictureExact
        <3> QED
            BY <3>1, <3>2, <3>3, <3>4 DEF Slots
    <2>9. /\ SubSeq(addr, 1, n) \in Seq(PictureBody \cup {Empty})
          /\ Len(SubSeq(addr, 1, n)) = n
          /\ \A i \in 1..n : SubSeq(addr, 1, n)[i] = addr[i]
        <3>1. \A i \in 1..n : addr[i] \in PictureBody \cup {Empty}
            BY <2>8, ElementOfSeq
        <3>2. 1 \in Int /\ n \in Int /\ n - 1 + 1 = n /\ 1 <= n /\ \A i \in 1..n : 1 + i - 1 = i
            BY <2>5
        <3>3. /\ SubSeq(addr, 1, n) \in Seq(PictureBody \cup {Empty})
              /\ Len(SubSeq(addr, 1, n)) = IF 1 <= n THEN n - 1 + 1 ELSE 0
              /\ \A i \in 1..(n - 1 + 1) : SubSeq(addr, 1, n)[i] = addr[1 + i - 1]
            BY <3>1, <3>2, SubSeqProperties
        <3> QED
            BY <3>2, <3>3
    <2>10. /\ Whole(f + 1) \in Seq(PictureBody) /\ Len(Whole(f + 1)) = n
           /\ \A i \in 1..n : Whole(f + 1)[i] = <<Files[f + 1], i>>
        BY <2>1, <2>3, <2>5, WholeFacts
    <2>11. Whole(f + 1) \in Seq(PictureBody \cup {Empty})
        BY <2>10, SeqDef, LenProperties
    <2>12. SubSeq(addr, 1, n) = Whole(f + 1)
        BY <2>8, <2>9, <2>10, <2>11, SeqEqual
    <2> QED
        BY <2>4, <2>7, <2>12
<1>2. IInv /\ Exact => ReceivedSuccessfully
    BY <1>1 DEF ReceivedSuccessfully
<1> QED
    BY <1>2, ExactSafety, PTL

\* Every file that the master writes holds the stream made of the whole of that picture.
THEOREM StreamsSaved ==
    ASSUME Ordinary
    PROVE  Spec => []SavedIsRight
<1>1. ASSUME IInv, Exact, NEW k \in 1..Len(Files), saved[k] # <<>>
      PROVE  saved[k] = Stream(k)
    <2>1. mPhase \in RequestPhases \cup {"open", "upload", "download", "done", "overrun"}
        BY <1>1, Context DEF MasterTypeOK
    <2>2. mPhase \notin UploadPhases
        BY <1>1 DEF Exact, MasterExact
    <2>3. CASE mPhase \in FetchPhases \cup {"poll"}
        BY <1>1, <2>3 DEF Exact, MasterExact
    <2>4. CASE mPhase = "done"
        BY <1>1, <2>4 DEF Exact, MasterExact
    <2> QED
        BY <2>1, <2>2, <2>3, <2>4 DEF RequestPhases, UploadPhases, FetchPhases
<1>2. IInv /\ Exact => SavedIsRight
    BY <1>1 DEF SavedIsRight, Stream
<1> QED
    BY <1>2, ExactSafety, PTL

\* The master never waits in read() for bytes of a slave that waits for a request: when the
\* slave has nothing left to do, the whole stream is there.
THEOREM NoDeadlock ==
    ASSUME Ordinary
    PROVE  Spec => []NoMutualWait
<1>1. ASSUME IInv, Exact, mPhase = "download", down # <<>>, Quiet
      PROVE  BufferFull(down, mGot)
    <2>1. mGot = StreamCount /\ Coming(0)
        BY <1>1 DEF Exact, LinkExact
    <2>2. sPc = "wait" /\ Downloaded(0, StreamCount)
        BY <1>1, <2>1 DEF Coming, Quiet
    <2>3. StreamCount \in Nat \ {0} /\ StreamCount * DataUnits \in Nat
        BY <1>1, Context, UnitFacts, UnitsBefore
    <2>4. Len(down) = 0 + StreamCount * DataUnits
        BY <2>2 DEF Downloaded
    <2> QED
        BY <1>1, <2>1, <2>3, <2>4 DEF BufferFull
<1>2. IInv /\ Exact => NoMutualWait
    BY <1>1 DEF NoMutualWait
<1> QED
    BY <1>2, ExactSafety, PTL

\* The streams have no more frames than their pictures: the picture itself is the stream, or
\* encoding makes it shorter.
Compact == DryRun \/ \A k \in 1..Len(Sessions[1]) : EncFrames <= FrameCount[Sessions[1][k]]

\* The stream that is coming fits into the array that the master has allocated.
LEMMA StreamFitsArray ==
    ASSUME Ordinary, Compact, IInv, Exact, mPhase = "download", BufferFull(down, mGot)
    PROVE  ~(mGot > Len(mSlots))
<1>1. mGot = StreamCount
    BY StreamArrived
<1>2. Len(mSlots) = Count
    BY DEF Exact, MasterExact, FetchPhases
<1>3. session = 1 /\ mFile \in 1..Len(Files) /\ Count \in Nat
    BY Context
<1>4. Files = Sessions[1]
    BY <1>3, FilesFacts
<1>5. StreamCount = IF DryRun THEN Count ELSE EncFrames
    BY <1>3, WholeFacts DEF StreamCount, Count
<1>6. ~DryRun => EncFrames <= Count
    BY <1>3, <1>4 DEF Compact, Count
<1>7. EncFrames \in Nat
    BY SlaveAssumption, NFrameModType
<1> QED
    BY <1>1, <1>2, <1>3, <1>5, <1>6, <1>7

\* No step of the master, or of anything else, leads to an overrun.
LEMMA MasterStaysInside ==
    ASSUME Ordinary, Compact, IInv, Exact, mPhase # "overrun", [Next]_vars
    PROVE  mPhase' # "overrun"
<1>1. CASE MasterReceiveData
    <2>1. mPhase = "download" /\ ~(mGot > Len(mSlots))
        BY <1>1, StreamFitsArray DEF MasterReceiveData
    <2>2. GoToFile(mFile + 1, "poll", "done") \/ mPhase' = "fetch"
        BY <1>1, <2>1 DEF MasterReceiveData
    <2> QED
        BY <2>2 DEF GoToFile
<1>2. CASE MasterOpen \/ MasterChecked \/ MasterConfirmed
    BY <1>2 DEF MasterOpen, MasterChecked, MasterConfirmed, NextUpload, GoToFile
<1>3. CASE MasterSend \/ MasterMismatch \/ MasterTimeout \/ MasterDataTimeout
    BY <1>3 DEF MasterSend, MasterMismatch, MasterTimeout, MasterDataTimeout
<1>4. CASE MasterOffered \/ MasterUpload \/ MasterPolled \/ MasterFetched
    BY <1>4 DEF MasterOffered, MasterUpload, MasterPolled, MasterFetched
<1>5. CASE UNCHANGED masterVars
    BY <1>5 DEF masterVars
<1>6. CASE MasterRestart
    BY <1>6 DEF MasterRestart
<1>7. CASE MasterActs
    BY <1>1, <1>2, <1>3, <1>4, <1>7 DEF MasterActs, MasterStep, RequestTimeout, DataTimeout
<1> QED
    BY <1>5, <1>6, <1>7 DEF Next, SlaveActs, Disturb, Finished, vars

\* The slave is never beyond its arrays, and never gives up.
LEMMA SlaveStaysInside ==
    ASSUME Ordinary, IInv, Exact
    PROVE  sPc \in {"wait", "data", "process", "send"}
<1>1. mPhase \in RequestPhases \cup {"open", "upload", "download", "done", "overrun"}
    BY Context DEF MasterTypeOK
<1>2. /\ Idle => sPc = "wait"
      /\ Asking => sPc = "wait"
      /\ Told => sPc = "wait"
      /\ Granted => sPc = "data"
      /\ Misread => sPc = "data"
      /\ Collecting => sPc = "data"
      /\ Processing => sPc = "process"
      /\ \A o : Coming(o) => sPc \in {"wait", "send"}
    BY DEF Idle, Asking, Told, Granted, Misread, Collecting, Processing, Taken, Coming
<1>3. CASE mPhase \in {"open", "done", "overrun", "check", "poll"}
    BY <1>2, <1>3 DEF Exact, LinkExact
<1>4. CASE mPhase = "offer"
    BY <1>2, <1>4 DEF Exact, LinkExact
<1>5. CASE mPhase = "upload"
    BY <1>5 DEF Exact, LinkExact, Taken
<1>6. CASE mPhase = "confirm"
    BY <1>2, <1>6 DEF Exact, LinkExact
<1>7. CASE mPhase \in {"fetch", "download"}
    BY <1>2, <1>7 DEF Exact, LinkExact
<1> QED
    BY <1>1, <1>3, <1>4, <1>5, <1>6, <1>7 DEF RequestPhases

\* Neither program writes past the end of an array of frames, although the master allocates
\* for as many frames as the picture has and receives as many as the stream has.
THEOREM ArraysHold ==
    ASSUME Ordinary, Compact
    PROVE  Spec => []NoOverrun
<1> DEFINE Inside == IInv /\ Exact /\ mPhase # "overrun"
<1>1. Init => Inside
    BY InitSafe, InitExact DEF Init, MasterInit
<1>2. Inside /\ [Next]_vars => Inside'
    BY NextSafe, NextExact, MasterStaysInside
<1>3. Inside => NoOverrun
    BY SlaveStaysInside DEF NoOverrun
<1> QED
    BY <1>1, <1>2, <1>3, PTL DEF Spec

-----------------------------------------------------------------------------
(* Every step is a step of the service, or is not seen.                    *)

\* What has been encoded, as the service sees it
Encoded == [k \in 1..Len(Files) |-> bits[k - 1]]

\* What the service is asked for: the pictures of the session, whole.
LEMMA ServicePictures ==
    ASSUME Ordinary, session = 1
    PROVE  /\ Service!Index = 1..Len(Files)
           /\ \A k \in 1..Len(Files) :
                 [j \in 1..Len(Sessions[1]) |-> FramesOf(Sessions[1][j])][k] = Whole(k)
<1>1. Files = Sessions[1] /\ Len(Files) \in Nat
    BY FilesFacts
<1>2. PICK originals : originals = [j \in 1..Len(Sessions[1]) |-> FramesOf(Sessions[1][j])]
    OBVIOUS
<1>3. PICK S : S = {FramesOf(Sessions[1][j]) : j \in 1..Len(Sessions[1])}
    OBVIOUS
<1>4. originals \in [1..Len(Files) -> S]
    BY <1>1, <1>2, <1>3
<1>5. Len(originals) = Len(Files)
    BY <1>1, <1>4, SeqDef, LenProperties
<1>6. Service!Index = 1..Len(Files)
    BY <1>2, <1>5 DEF Service!Index
<1>7. \A k \in 1..Len(Files) : originals[k] = Whole(k)
    BY <1>1, <1>2 DEF Whole
<1> QED
    BY <1>2, <1>6, <1>7

\* Nothing is encoded or delivered at the start.
LEMMA InitService ==
    ASSUME Ordinary, Init
    PROVE  Service!Init
<1>1. /\ session = 1 /\ bits = [f \in File |-> <<>>]
      /\ saved = [k \in 1..Len(Files) |-> <<>>]
    BY DEF Init, MasterInit, SlaveInit
<1>2. Service!Index = 1..Len(Files)
    BY <1>1, ServicePictures
<1>3. \A k \in 1..Len(Files) : k - 1 \in File
    BY <1>1, FilesFacts
<1>4. [k \in 1..Len(Files) |-> bits[k - 1]] = [k \in 1..Len(Files) |-> <<>>]
    BY <1>1, <1>3
<1> QED
    BY <1>1, <1>2, <1>4 DEF Service!Init

\* The slave makes the stream of a picture: the service encodes it, once and in order.
LEMMA ProcessEncodes ==
    ASSUME Ordinary, IInv, Exact, Encodes, UNCHANGED masterVars
    PROVE  Service!Next
<1>1. /\ bits[Here] = <<>> /\ bits' = [bits EXCEPT ![Here] = Whole(mFile)]
      /\ mPhase \in UploadPhases
    BY ProcessExact
<1>2. /\ session = 1 /\ mFile \in 1..Len(Files) /\ Here \in File /\ Here = mFile - 1
      /\ bits \in [File -> Slots(PictureBody)]
    BY Context DEF SlaveTypeOK, Here
<1>3. /\ Service!Index = 1..Len(Files)
      /\ [j \in 1..Len(Sessions[1]) |-> FramesOf(Sessions[1][j])][mFile] = Whole(mFile)
    BY <1>2, ServicePictures
<1>4. Files' = Files /\ saved' = saved
    BY DEF masterVars, Files
<1>5. \A j \in 1..(mFile - 1) : Encoded[j] # <<>>
    <2>1. Len(Files) \in Nat
        BY <1>2, FilesFacts
    <2>2. \A j \in 1..(mFile - 1) : bits[j - 1] # <<>>
        BY <1>1 DEF Exact, MasterExact
    <2>3. \A j \in 1..(mFile - 1) : j \in 1..Len(Files)
        BY <1>2, <2>1
    <2> QED
        BY <2>2, <2>3 DEF Encoded
<1>6. Encoded[mFile] = <<>>
    BY <1>1, <1>2 DEF Encoded
<1>7. [k \in 1..Len(Files)' |-> bits'[k - 1]] = [Encoded EXCEPT ![mFile] = Whole(mFile)]
    <2>1. ASSUME NEW k \in 1..Len(Files)
          PROVE  bits'[k - 1] = [Encoded EXCEPT ![mFile] = Whole(mFile)][k]
        <3>1. k - 1 \in File
            BY <1>2, <2>1, FilesFacts
        <3>2. CASE k = mFile
            BY <1>1, <1>2, <3>1, <3>2 DEF Encoded
        <3>3. CASE k # mFile
            <4>1. k - 1 # Here
                BY <1>2, <3>3
            <4>2. bits'[k - 1] = bits[k - 1]
                BY <1>1, <1>2, <3>1, <4>1
            <4> QED
                BY <2>1, <3>3, <4>2 DEF Encoded
        <3> QED
            BY <3>2, <3>3
    <2> QED
        BY <1>4, <2>1 DEF Encoded
<1>8. PICK f \in Service!Index : f = mFile
    BY <1>2, <1>3
<1>9. Service!Encode(f)
    BY <1>3, <1>4, <1>5, <1>6, <1>7, <1>8 DEF Service!Encode, Encoded
<1> QED
    BY <1>9 DEF Service!Next

\* The master saves a stream: the service delivers it, once and in order.
LEMMA SaveDelivers ==
    ASSUME Ordinary, IInv, Exact, mPhase = "download", UNCHANGED <<slaveVars, session>>,
           saved' = [saved EXCEPT ![mFile] = Stream(mFile)]
    PROVE  Service!Next
<1>1. session = 1 /\ mFile \in 1..Len(Files) /\ Len(Files) \in Nat
    BY Context, FilesFacts
<1>2. Service!Index = 1..Len(Files)
    BY <1>1, ServicePictures
<1>3. /\ \A k \in 1..Len(Files) : nFiles[k] = k - 1 /\ bits[k - 1] # <<>>
      /\ \A k \in 1..Len(Files) : saved[k] = IF k < mFile THEN Stream(k) ELSE <<>>
    BY DEF Exact, MasterExact, UploadPhases, FetchPhases
<1>4. saved[mFile] = <<>>
    BY <1>1, <1>3
<1>5. \A j \in 1..Len(Files) : Encoded[j] # <<>>
    BY <1>3 DEF Encoded
<1>6. \A j \in 1..(mFile - 1) : saved[j] # <<>>
    <2> SUFFICES ASSUME NEW j \in 1..(mFile - 1) PROVE saved[j] # <<>>
        OBVIOUS
    <2>1. j \in 1..Len(Files) /\ j < mFile
        BY <1>1
    <2>2. PICK n : n = BitFrames(Whole(j))
        OBVIOUS
    <2>3. n \in Nat \ {0}
        BY <1>1, <2>1, <2>2, WholeFacts
    <2>4. Stream(j) = [i \in 1..n |-> <<Whole(j), i>>] /\ 1 \in 1..n
        BY <2>2, <2>3 DEF Stream
    <2>5. Stream(j) \in [1..n -> {Whole(j)} \X (1..n)]
        BY <2>4
    <2>6. Stream(j) \in Seq({Whole(j)} \X (1..n)) /\ Len(Stream(j)) = n
        BY <2>3, <2>5, SeqDef, LenProperties
    <2>7. Stream(j) # <<>>
        BY <2>3, <2>6, EmptySeq
    <2> QED
        BY <1>3, <2>1, <2>7
<1>7. UNCHANGED Encoded
    BY DEF Encoded, Files, slaveVars
<1>8. Encoded[mFile] = Whole(mFile)
    <2>1. bits[Here] = Whole(mFile)
        BY StreamThere DEF UploadPhases
    <2> QED
        BY <1>1, <2>1 DEF Encoded, Here
<1>9. Service!Deliver(mFile)
    BY <1>2, <1>4, <1>5, <1>6, <1>7, <1>8 DEF Service!Deliver, Encoded, Stream
<1> QED
    BY <1>1, <1>2, <1>9 DEF Service!Next

\* Every other step changes neither what is encoded nor what is saved.
LEMMA StepServes ==
    ASSUME Ordinary, IInv, Exact, [Next]_vars
    PROVE  Service!Next \/ UNCHANGED <<Encoded, saved>>
<1>1. ASSUME UNCHANGED <<bits, session, saved>>
      PROVE  UNCHANGED <<Encoded, saved>>
    BY <1>1 DEF Encoded, Files
<1>2. CASE SlaveActs
    <2>1. CASE Encodes
        BY <1>2, <2>1, ProcessEncodes DEF SlaveActs
    <2>2. CASE ~Encodes
        <3>1. UNCHANGED <<session, saved>>
            BY <1>2 DEF SlaveActs, masterVars
        <3>2. UNCHANGED bits
            BY <1>2, <2>2, ProcessCases
              DEF SlaveActs, SlaveStep, SlaveDiscard, SlaveQuery, SlaveRefuseSend,
                  SlaveSend, SlaveReceiveData, SlaveDataTimeout, Exits, SlaveProcess, SlaveRefuseRecv,
                  SlaveRecv, SlaveSendFrame, SlaveUnknown, slaveVars
        <3> QED
            BY <1>1, <3>1, <3>2
    <2> QED
        BY <2>1, <2>2
<1>3. CASE MasterActs
    <2>1. UNCHANGED <<slaveVars, bits>>
        BY <1>3 DEF MasterActs, slaveVars
    <2>2. CASE MasterReceiveData
        <3>1. mPhase = "download" /\ session' = session
            BY <2>2 DEF MasterReceiveData
        <3>2. saved' = saved \/ saved' = [saved EXCEPT ![mFile] = Stream(mFile)]
            BY <2>1, <2>2, MasterReceiveExact
        <3>3. CASE saved' = saved
            BY <1>1, <2>1, <3>1, <3>3
        <3>4. CASE saved' = [saved EXCEPT ![mFile] = Stream(mFile)]
            BY <2>1, <3>1, <3>4, SaveDelivers
        <3> QED
            BY <3>2, <3>3, <3>4
    <2>3. CASE ~MasterReceiveData
        <3>1. UNCHANGED <<session, saved>>
            BY <1>3, <2>3 DEF MasterActs, MasterStep, MasterOpen, MasterSend, MasterMismatch,
                  MasterChecked, MasterOffered, MasterUpload, MasterConfirmed, MasterPolled,
                  MasterFetched, RequestTimeout, MasterTimeout, DataTimeout, MasterDataTimeout
        <3> QED
            BY <1>1, <2>1, <3>1
    <2> QED
        BY <2>2, <2>3
<1>4. CASE Disturb
    <2>1. Len(Sessions) = 1 /\ session = 1
        BY Context DEF Ordinary
    <2>2. ~MasterRestart
        BY <2>1 DEF MasterRestart
    <2>3. ~SlaveReboot
        BY NoOtherFault DEF SlaveReboot
    <2>4. UNCHANGED <<slaveVars, masterVars>>
        BY <1>4, <2>2, <2>3 DEF Disturb
    <2> QED
        BY <1>1, <2>4 DEF slaveVars, masterVars
<1>5. CASE UNCHANGED vars
    BY <1>1, <1>5 DEF vars, slaveVars, masterVars
<1> QED
    BY <1>2, <1>3, <1>4, <1>5 DEF Next, Finished

\* The protocol implements the service, but for its fairness: the initial states are
\* initial states of it, and every step encodes the next picture, delivers the next stream,
\* or is not seen.
THEOREM ServiceSteps ==
    ASSUME Ordinary
    PROVE  Spec => Service!Init /\ [][Service!Next]_<<Encoded, saved>>
<1>1. Init => Service!Init
    BY InitService
<1>2. IInv /\ Exact /\ [Next]_vars => [Service!Next]_<<Encoded, saved>>
    BY StepServes
<1> QED
    BY <1>1, <1>2, ExactSafety, PTL DEF Spec
=============================================================================

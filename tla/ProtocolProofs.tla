--------------------------- MODULE ProtocolProofs ---------------------------
(***************************************************************************)
(* Safety of Protocol for all pictures, sessions, frame sizes and numbers  *)
(* of faults.                                                              *)
(***************************************************************************)
EXTENDS Protocol, SlaveOpen, SequenceTheorems, FiniteSetTheorems, TLAPS

-----------------------------------------------------------------------------
(* The line.                                                               *)

\* What Drop leaves of a sequence is a sequence over the same set.
LEMMA DropType ==
    ASSUME NEW S, NEW line \in Seq(S), NEW k \in Nat
    PROVE  Drop(line, k) \in Seq(S)
<1>1. Len(line) \in Nat /\ \A i \in (k + 1)..Len(line) : line[i] \in S
    BY LenProperties, ElementOfSeq
<1>2. k + 1 \in Int /\ Len(line) \in Int
    BY <1>1
<1> QED
    BY <1>1, <1>2, SubSeqProperties DEF Drop

\* The units of a frame are a piece of a line that carries such frames.
LEMMA UnitsType ==
    ASSUME NEW S, NEW frame \in S
    PROVE  Units(frame) \in Line(S)
<1>1. Size(frame) \in Nat
    BY LineAssumption DEF Size
<1>2. Units(frame) \in [1..Size(frame) -> (S \X Nat) \cup {Noise}]
    BY <1>1 DEF Units
<1> QED
    BY <1>1, <1>2, SeqDef DEF Line

\* A frame is appended to a line.
LEMMA AppendType ==
    ASSUME NEW S, NEW line \in Line(S), NEW frame \in S
    PROVE  line \o Units(frame) \in Line(S)
BY UnitsType, ConcatProperties DEF Line

\* An intact read of a line returns one of the frames the line carries, and the
\* first unit of the line belongs to it.
LEMMA IntactType ==
    ASSUME NEW S, NEW line \in Line(S), Intact(line)
    PROVE  Head1(line) \in S /\ Head1(line).kind = "ctl"
<1>1. Len(line) \in Nat /\ 1 \in 1..Len(line)
    BY LineAssumption, LenProperties DEF Intact, Line
<1>2. line[1] \in (S \X Nat) \cup {Noise}
    BY <1>1, ElementOfSeq DEF Line
<1>3. line[1] \in S \X Nat
    BY <1>2 DEF Intact
<1> QED
    BY <1>3 DEF Head1, Intact

\* A read never returns more than there is.
LEMMA ReadLenType ==
    ASSUME NEW S, NEW line \in Line(S)
    PROVE  ReadLen(line) \in Nat
BY LineAssumption, LenProperties DEF ReadLen, Line

\* Changing a unit into noise keeps the type of the line.
LEMMA CorruptType ==
    ASSUME NEW S, NEW line \in Line(S), NEW i \in 1..Len(line)
    PROVE  [line EXCEPT ![i] = Noise] \in Line(S)
BY ExceptSeq DEF Line

\* Losing a unit keeps the type of the line.
LEMMA LoseType ==
    ASSUME NEW S, NEW line \in Line(S), NEW i \in 1..Len(line)
    PROVE  LoseAt(line, i) \in Line(S)
<1> DEFINE U == (S \X Nat) \cup {Noise}
<1>1. Len(line) \in Nat /\ \A j \in 1..Len(line) : line[j] \in U
    BY LenProperties, ElementOfSeq DEF Line
<1>2. SubSeq(line, 1, i - 1) \in Seq(U)
    BY <1>1, SubSeqProperties
<1>3. SubSeq(line, i + 1, Len(line)) \in Seq(U)
    BY <1>1, SubSeqProperties
<1> QED
    BY <1>2, <1>3, ConcatProperties DEF LoseAt, Line

-----------------------------------------------------------------------------
(* Arrays of frames.                                                       *)

\* calloc returns an array of the size asked for.
LEMMA CallocType ==
    ASSUME NEW S, NEW n \in Nat
    PROVE  Calloc(n) \in Slots(S)
<1>1. Calloc(n) \in [1..n -> S \cup {Empty}]
    BY DEF Calloc
<1> QED
    BY <1>1, SeqDef DEF Slots

\* The i-th of the n frames that a full buffer holds begins inside the buffer.
LEMMA ChunkInside ==
    ASSUME NEW n \in Nat, NEW i \in 1..n, NEW d \in Nat \ {0}
    PROVE  (i - 1) * d + 1 \in 1..(n * d)
<1>1. (i - 1) * d >= 0
    BY SMT
<1>2. (n - i) * d >= 0
    BY SMT
<1>3. n * d = (i - 1) * d + d + (n - i) * d
    BY SMT
<1> QED
    BY <1>1, <1>2, <1>3, SMT

\* A piece of a full buffer is the payload of a data frame of the line, or
\* counts as missing.
LEMMA ChunkType ==
    ASSUME NEW S, NEW B, NEW line \in Line(S),
           \A frame \in S : frame.kind = "data" => frame.body \in B,
           NEW n \in Nat, BufferFull(line, n), NEW i \in 1..n
    PROVE  /\ Chunk(line, i) \in B \cup {Empty}
           /\ Accepted(line, i) => Chunk(line, i) \in B
<1> DEFINE from == (i - 1) * DataUnits
           first == line[from + 1]
<1>1. Len(line) \in Nat
    BY LenProperties DEF Line
<1>2. from + 1 \in 1..(n * DataUnits)
    BY ChunkInside, LineAssumption
<1>3. n * DataUnits \in Nat
    BY LineAssumption, SMT
<1>4. from + 1 \in 1..Len(line)
    BY <1>1, <1>2, <1>3 DEF BufferFull
<1>5. first \in (S \X Nat) \cup {Noise}
    BY <1>4, ElementOfSeq DEF Line
<1>6. CASE first # Noise /\ first[1].kind = "data"
    <2>1. first[1] \in S
        BY <1>5, <1>6
    <2>2. first[1].body \in B
        BY <1>6, <2>1
    <2> QED
        BY <2>2 DEF Chunk
<1>7. CASE ~(first # Noise /\ first[1].kind = "data")
    BY <1>7 DEF Chunk, Accepted
<1> QED
    BY <1>6, <1>7

\* receive_data_frames keeps the size of the array and the type of its elements.
LEMMA FillType ==
    ASSUME NEW S, NEW B, NEW line \in Line(S),
           \A frame \in S : frame.kind = "data" => frame.body \in B,
           NEW n \in Nat, BufferFull(line, n),
           NEW slots \in Slots(B)
    PROVE  /\ Fill(slots, line, n) \in Slots(B)
           /\ Len(Fill(slots, line, n)) = Len(slots)
<1>1. Len(slots) \in Nat /\ \A i \in 1..Len(slots) : slots[i] \in B \cup {Empty}
    BY LenProperties, ElementOfSeq DEF Slots
<1>2. \A i \in 1..Len(slots) :
          i <= n => Chunk(line, i) \in B \cup {Empty}
    <2> SUFFICES ASSUME NEW i \in 1..Len(slots), i <= n
                 PROVE  Chunk(line, i) \in B \cup {Empty}
        OBVIOUS
    <2>1. i \in 1..n
        BY <1>1
    <2> QED
        BY <2>1, ChunkType
<1>3. Fill(slots, line, n) \in [1..Len(slots) -> B \cup {Empty}]
    BY <1>1, <1>2 DEF Fill
<1>4. Fill(slots, line, n) \in Slots(B)
    BY <1>1, <1>3, SeqDef DEF Slots
<1>5. DOMAIN Fill(slots, line, n) = 1..Len(slots)
    BY DEF Fill
<1> QED
    BY <1>1, <1>4, <1>5, LenProperties DEF Slots

\* The same for the slave, which receives pictures, ...
LEMMA PictureFillType ==
    ASSUME NEW line \in Line(MasterFrame), NEW n \in Nat, BufferFull(line, n),
           NEW slots \in Slots(PictureBody)
    PROVE  /\ Fill(slots, line, n) \in Slots(PictureBody)
           /\ Len(Fill(slots, line, n)) = Len(slots)
<1>1. \A frame \in MasterFrame : frame.kind = "data" => frame.body \in PictureBody
    BY DEF MasterFrame, CtlFrame, DataFrame
<1> QED
    BY <1>1, FillType

\* ... and for the master, which receives bit streams.
LEMMA StreamFillType ==
    ASSUME NEW line \in Line(SlaveFrame), NEW n \in Nat, BufferFull(line, n),
           NEW slots \in Slots(StreamBody)
    PROVE  /\ Fill(slots, line, n) \in Slots(StreamBody)
           /\ Len(Fill(slots, line, n)) = Len(slots)
<1>1. \A frame \in SlaveFrame : frame.kind = "data" => frame.body \in StreamBody
    BY DEF SlaveFrame, CtlFrame, DataFrame
<1> QED
    BY <1>1, FillType

\* receive_data_frames keeps the data that are there, ...
LEMMA FillKeeps ==
    ASSUME NEW slots, NEW line, NEW n,
           NEW i \in 1..Len(slots), ~Vacant(slots[i])
    PROVE  Fill(slots, line, n)[i] = slots[i]
BY DEF Fill

\* ... and does not take back a frame without data.
LEMMA FillNeverEmpties ==
    ASSUME NEW S, NEW B, NEW line \in Line(S), Empty \notin B,
           \A frame \in S : frame.kind = "data" => frame.body \in B,
           NEW n \in Nat, BufferFull(line, n),
           NEW slots, NEW i \in 1..Len(slots), slots[i] # Empty
    PROVE  Fill(slots, line, n)[i] # Empty
<1>1. CASE i <= n /\ Accepted(line, i)
    <2>1. i \in 1..n
        BY <1>1
    <2>2. Chunk(line, i) \in B
        BY <1>1, <2>1, ChunkType
    <2> QED
        BY <2>2 DEF Fill
<1>2. CASE ~(i <= n /\ Accepted(line, i))
    BY <1>2 DEF Fill
<1> QED
    BY <1>1, <1>2

\* The number receive_data_frames returns: at most n, and 0 only if every element
\* without data has got an intact frame.
LEMMA MissingProperties ==
    ASSUME NEW slots, NEW line, NEW n \in Nat
    PROVE  /\ Missing(slots, line, n) \in 0..n
           /\ Missing(slots, line, n) = 0 =>
                 \A i \in 1..n : Vacant(slots[i]) => Accepted(line, i)
<1> DEFINE M == {i \in 1..n : Vacant(slots[i]) /\ ~Accepted(line, i)}
<1>1. IsFiniteSet(1..n) /\ Cardinality(1..n) = n
    BY FS_Interval
<1>2. M \subseteq 1..n
    OBVIOUS
<1>3. IsFiniteSet(M) /\ Cardinality(M) <= n
    BY <1>1, <1>2, FS_Subset
<1>4. Cardinality(M) \in Nat
    BY <1>3, FS_CardinalityType
<1>5. Cardinality(M) = 0 => M = {}
    BY <1>3, FS_EmptySet
<1> QED
    BY <1>3, <1>4, <1>5 DEF Missing

\* When it returns 0, no element of the array is left as calloc made it.
LEMMA FilledUp ==
    ASSUME NEW S, NEW B, NEW line \in Line(S), Empty \notin B,
           \A frame \in S : frame.kind = "data" => frame.body \in B,
           NEW n \in Nat, BufferFull(line, n),
           NEW slots \in Slots(B), n <= Len(slots), Missing(slots, line, n) = 0
    PROVE  \A i \in 1..n : Fill(slots, line, n)[i] # Empty
<1> SUFFICES ASSUME NEW i \in 1..n PROVE Fill(slots, line, n)[i] # Empty
    OBVIOUS
<1>1. i \in 1..Len(slots)
    BY LenProperties DEF Slots
<1>2. CASE Vacant(slots[i])
    <2>1. Accepted(line, i)
        BY <1>2, MissingProperties
    <2>2. Chunk(line, i) \in B
        BY <2>1, ChunkType
    <2> QED
        BY <1>1, <1>2, <2>1, <2>2 DEF Fill
<1>3. CASE ~Vacant(slots[i])
    BY <1>1, <1>3 DEF Fill, Vacant
<1> QED
    BY <1>2, <1>3

\* The elements of an array that nothing has come for
Gaps(slots, n) == Cardinality({i \in 1..n : slots[i] = Empty})

\* There are at most n of them, and none only if every element has got a frame.
LEMMA GapsProperties ==
    ASSUME NEW slots, NEW n \in Nat
    PROVE  /\ Gaps(slots, n) \in 0..n
           /\ Gaps(slots, n) = 0 => \A i \in 1..n : slots[i] # Empty
<1> DEFINE M == {i \in 1..n : slots[i] = Empty}
<1>1. IsFiniteSet(1..n) /\ Cardinality(1..n) = n
    BY FS_Interval
<1>2. M \subseteq 1..n
    OBVIOUS
<1>3. IsFiniteSet(M) /\ Cardinality(M) <= n
    BY <1>1, <1>2, FS_Subset
<1>4. Cardinality(M) \in Nat
    BY <1>3, FS_CardinalityType
<1>5. Cardinality(M) = 0 => M = {}
    BY <1>3, FS_EmptySet
<1> QED
    BY <1>3, <1>4, <1>5 DEF Gaps

\* Where every data frame holds data, the number receive_data_frames returns is the
\* number of gaps it leaves.
LEMMA MissingIsGaps ==
    ASSUME NEW S, NEW B, NEW line \in Line(S), Empty \notin B, Hollow \notin B,
           \A frame \in S : frame.kind = "data" => frame.body \in B,
           NEW n \in Nat, BufferFull(line, n),
           NEW slots \in Slots(B), n <= Len(slots)
    PROVE  Missing(slots, line, n) = Gaps(Fill(slots, line, n), n)
<1>1. ASSUME NEW i \in 1..n
      PROVE  Vacant(slots[i]) /\ ~Accepted(line, i) <=> Fill(slots, line, n)[i] = Empty
    <2>1. i \in 1..Len(slots)
        BY LenProperties DEF Slots
    <2>2. slots[i] \in B \cup {Empty}
        BY <2>1, ElementOfSeq DEF Slots
    <2>3. Vacant(slots[i]) <=> slots[i] = Empty
        BY <2>2 DEF Vacant
    <2>4. Accepted(line, i) => Chunk(line, i) # Empty
        BY ChunkType
    <2>5. Fill(slots, line, n)[i] = IF Vacant(slots[i]) /\ Accepted(line, i)
                                    THEN Chunk(line, i) ELSE slots[i]
        BY <2>1 DEF Fill
    <2> QED
        BY <2>3, <2>4, <2>5
<1>2. {i \in 1..n : Vacant(slots[i]) /\ ~Accepted(line, i)}
        = {i \in 1..n : Fill(slots, line, n)[i] = Empty}
    BY <1>1
<1> QED
    BY <1>2 DEF Missing, Gaps

\* The same for the slave, which receives pictures, ...
LEMMA PictureGaps ==
    ASSUME NEW line \in Line(MasterFrame), NEW n \in Nat, BufferFull(line, n),
           NEW slots \in Slots(PictureBody), n <= Len(slots)
    PROVE  Missing(slots, line, n) = Gaps(Fill(slots, line, n), n)
<1>1. \A frame \in MasterFrame : frame.kind = "data" => frame.body \in PictureBody
    BY DEF MasterFrame, CtlFrame, DataFrame
<1>2. Empty \notin PictureBody /\ Hollow \notin PictureBody
    BY DataAssumption
<1> QED
    BY <1>1, <1>2, MissingIsGaps

\* ... and for the master, which receives bit streams.
LEMMA StreamGaps ==
    ASSUME NEW line \in Line(SlaveFrame), NEW n \in Nat, BufferFull(line, n),
           NEW slots \in Slots(StreamBody), n <= Len(slots)
    PROVE  Missing(slots, line, n) = Gaps(Fill(slots, line, n), n)
<1>1. \A frame \in SlaveFrame : frame.kind = "data" => frame.body \in StreamBody
    BY DEF SlaveFrame, CtlFrame, DataFrame
<1>2. Empty \notin StreamBody /\ Hollow \notin StreamBody
    BY DataAssumption
<1> QED
    BY <1>1, <1>2, MissingIsGaps

\* n_frame_t has at least one value.
LEMMA NFrameModType == NFrameMod \in Nat \ {0}
BY DEF NFrameMod

\* Subtraction of unsigned integers of any width.
LEMMA UnsignedMinus ==
    ASSUME NEW m \in Nat \ {0}, NEW a \in 0..(m - 1), NEW b \in 0..(m - 1)
    PROVE  /\ (a - b) % m \in 0..(m - 1)
           /\ (a - b) % m = a => b = 0
BY SMT

\* len = total_len - sum is an n_frame_t, and len is total_len only if sum is 0:
\* neither a missing frame nor the -1 of a timeout makes a picture complete.
LEMMA ReceivedLenProperties ==
    ASSUME NEW total \in NFrame, NEW sum \in NFrame
    PROVE  /\ ReceivedLen(total, sum) \in NFrame
           /\ ReceivedLen(total, sum) = total => sum = 0
BY NFrameModType, UnsignedMinus DEF ReceivedLen, NFrame

-----------------------------------------------------------------------------
(* The inductive invariant.                                                *)

\* All frames of the slave's picture f came without data.
NothingIn(f) ==
    /\ infos[f].total <= Len(infos[f].addr)
    /\ \A i \in 1..infos[f].total : infos[f].addr[i] = Hollow

\* Picture f counts as complete and holds data, but has no bit stream yet.
Complete(f) ==
    /\ infos[f].total # 0
    /\ infos[f].len = infos[f].total
    /\ bits[f] = <<>>
    /\ ~NothingIn(f)

\* While the slave handles a SEND, total_len is what the request says, and
\* what it is about to process has no gap.  Only the picture being handled can
\* be complete without a bit stream.
SlaveInv ==
    /\ sPc \in {"data", "process", "send"} => sReq.file \in File
    /\ sPc \in {"data", "process"} => infos[sReq.file].total = sReq.n
    /\ sPc = "process" =>
          /\ sReq.n <= Len(infos[sReq.file].addr)
          /\ \A i \in 1..sReq.n : infos[sReq.file].addr[i] # Empty
    /\ \A f \in File :
          Complete(f) => /\ sPc \in {"data", "process", "overrun"}
                         /\ sReq.file = f

\* An array that was never allocated (addr is NULL) has no elements.
AllocInv == \A f \in File : infos[f].alloc \/ infos[f].addr = <<>>

\* Any program may be at the other end of the slave's line: it sends frames of the set
\* F, in which the data frames carry elements of the set B.
Sendable(F, B) ==
    /\ Empty \notin B
    /\ \A frame \in F :
          /\ frame.kind = "ctl" => frame.file \in Nat /\ frame.n \in NFrame
          /\ frame.kind = "data" => frame.body \in B

Requests(F) == {frame \in F : frame.kind = "ctl"}
Replies(B) == CtlFrame("slave", Nat) \cup DataFrame(Slots(B) \X Nat)

LineHas(F, B) ==
    /\ up \in Line(F)
    /\ down \in Line(Replies(B))
    /\ faults \in 0..MaxFaults

SlaveHas(F, B) ==
    /\ sPc \in {"wait", "data", "process", "send", "overrun", "exited"}
    /\ sReq \in Requests(F) \cup {NoRequest}
    /\ infos \in [File -> [alloc : BOOLEAN, addr : Slots(B),
                           len : NFrame, total : NFrame]]
    /\ bits \in [File -> Slots(B)]
    /\ sNext \in Nat

SlaveHolds(F, B) ==
    /\ LineHas(F, B)
    /\ SlaveHas(F, B)
    /\ SlaveInv
    /\ AllocInv
    /\ ProcessedIsComplete

\* The same when the master of this repository is there.
SlaveSafe ==
    /\ LineTypeOK
    /\ SlaveTypeOK
    /\ SlaveInv
    /\ AllocInv
    /\ ProcessedIsComplete

\* A picture that cannot be opened is never offered.
MasterInv ==
    mPhase \in {"check", "offer", "upload", "confirm"} =>
        Files[mFile] # Unreadable

MasterSafe ==
    /\ LineTypeOK
    /\ MasterTypeOK
    /\ MasterInv

IInv == SlaveSafe /\ MasterSafe

-----------------------------------------------------------------------------
(* The steps of the slave.                                                 *)

\* One more fault stays within the bound.
LEMMA FaultType ==
    ASSUME faults \in 0..MaxFaults, NEW kind, Fault(kind)
    PROVE  faults' \in 0..MaxFaults
BY LineAssumption DEF Fault

\* A request that was read is a control frame of those that may be sent.
LEMMA RequestRead ==
    ASSUME NEW F, NEW B, Sendable(F, B), LineHas(F, B), FromMaster
    PROVE  /\ up' \in Line(F)
           /\ Head1(up) \in Requests(F)
           /\ Head1(up).file \in Nat /\ Head1(up).n \in NFrame
<1>1. CtlUnits \in Nat
    BY LineAssumption
<1>2. up' \in Line(F)
    BY <1>1, DropType DEF LineHas, FromMaster, Line
<1>3. Head1(up) \in F /\ Head1(up).kind = "ctl"
    BY IntactType DEF LineHas, FromMaster
<1> QED
    BY <1>2, <1>3 DEF Requests, Sendable

\* send_frame and send_data_frame put a frame of the slave on the line or none.
LEMMA ReplyType ==
    ASSUME NEW F, NEW B, Sendable(F, B), LineHas(F, B), NEW frame \in Replies(B),
           Replied(frame) \/ ReplyTimedOut
    PROVE  down' \in Line(Replies(B)) /\ faults' \in 0..MaxFaults
<1>1. CASE Replied(frame)
    BY <1>1, AppendType DEF LineHas, Replied
<1>2. CASE ReplyTimedOut
    BY <1>2, FaultType DEF LineHas, ReplyTimedOut
<1> QED
    BY <1>1, <1>2

\* A frame that is discarded changes nothing but the line.
LEMMA DiscardHolds ==
    ASSUME NEW F, NEW B, Sendable(F, B), SlaveHolds(F, B), SlaveDiscard
    PROVE  SlaveHolds(F, B)'
<1>1. ReadLen(up) \in Nat
    BY ReadLenType DEF SlaveHolds, LineHas
<1>2. up' \in Line(F) /\ faults' \in 0..MaxFaults
    <2>1. CASE up' = Drop(up, ReadLen(up)) /\ UNCHANGED faults
        BY <1>1, <2>1, DropType DEF SlaveHolds, LineHas, Line
    <2>2. CASE /\ Fault("shortUp")
               /\ \E k \in 1..CtlUnits : ShortRead(up, k) /\ up' = Drop(up, k)
        <3>1. faults' \in 0..MaxFaults
            BY <2>2, FaultType DEF SlaveHolds, LineHas
        <3>2. PICK k \in 1..CtlUnits : up' = Drop(up, k)
            BY <2>2
        <3>3. k \in Nat
            BY LineAssumption
        <3>4. up' \in Line(F)
            BY <3>2, <3>3, DropType DEF SlaveHolds, LineHas, Line
        <3> QED
            BY <3>1, <3>4
    <2> QED
        BY <2>1, <2>2 DEF SlaveDiscard
<1>3. LineHas(F, B)'
    BY <1>2 DEF SlaveDiscard, SlaveHolds, LineHas
<1> QED
    BY <1>3 DEF SlaveDiscard, SlaveHolds, slaveVars, SlaveHas, SlaveInv, AllocInv,
                ProcessedIsComplete, Complete, NothingIn

\* The requests that leave the slave's own state alone.
LEMMA NoStateHolds ==
    ASSUME NEW F, NEW B, Sendable(F, B), SlaveHolds(F, B),
           SlaveQuery \/ SlaveRefuseSend \/ SlaveRefuseRecv \/ SlaveUnknown
    PROVE  SlaveHolds(F, B)'
<1>1. LineHas(F, B)
    BY DEF SlaveHolds
<1>2. FromMaster /\ UNCHANGED slaveVars
    BY DEF SlaveQuery, SlaveRefuseSend, SlaveRefuseRecv, SlaveUnknown, Requested
<1>3. down' \in Line(Replies(B)) /\ faults' \in 0..MaxFaults
    <2>1. CASE SlaveQuery
        <3> DEFINE r == Head1(up)
                   f == r.file
                   n == IF f \in File THEN infos[f].len ELSE 0
                   reply == Ctl("slave", "QUERY", f, n, GetStatus(f))
        <3>1. f \in Nat
            BY <1>1, <1>2, RequestRead
        <3>2. n \in Nat
            BY DEF SlaveHolds, SlaveHas, NFrame
        <3>3. GetStatus(f) \in Statuses
            BY DEF GetStatus, Statuses
        <3>4. reply \in Replies(B)
            BY <3>1, <3>2, <3>3 DEF Replies, CtlFrame, Ctl, Types
        <3>5. Replied(reply) \/ ReplyTimedOut
            BY <2>1 DEF SlaveQuery
        <3> QED
            BY <1>1, <3>4, <3>5, ReplyType
    <2>2. CASE UNCHANGED <<down, faults>>
        BY <1>1, <2>2 DEF LineHas
    <2> QED
        BY <2>1, <2>2 DEF SlaveRefuseSend, SlaveRefuseRecv, SlaveUnknown
<1>4. LineHas(F, B)'
    BY <1>1, <1>2, <1>3, RequestRead DEF LineHas
<1> QED
    BY <1>2, <1>4 DEF SlaveHolds, slaveVars, SlaveHas, SlaveInv, AllocInv,
                      ProcessedIsComplete, Complete, NothingIn

\* A picture may only become complete, or change, while it is being handled.
LEMMA SendHolds ==
    ASSUME NEW F, NEW B, Sendable(F, B), SlaveHolds(F, B), SlaveSend
    PROVE  SlaveHolds(F, B)'
<1> DEFINE r == Head1(up)
           f == r.file
           reply == Ctl("slave", "SEND", f, r.n, "NONE")
<1>1. LineHas(F, B) /\ FromMaster /\ sPc = "wait"
    BY DEF SlaveHolds, SlaveSend, Requested, FromMaster
<1>2. /\ r \in Requests(F) /\ up' \in Line(F)
      /\ r.file \in Nat /\ r.n \in NFrame
    BY <1>1, RequestRead
<1>3. f \in File /\ f \in Nat /\ r.n \in NFrame /\ r.n \in Nat
    BY <1>2 DEF SlaveSend, NFrame
<1>4. reply \in Replies(B)
    BY <1>3 DEF Replies, CtlFrame, Ctl, Types
<1>5. LineHas(F, B)'
    BY <1>1, <1>2, <1>4, ReplyType DEF SlaveSend, LineHas
<1>6. CASE UNCHANGED slaveVars
    BY <1>5, <1>6 DEF SlaveHolds, slaveVars, SlaveHas, SlaveInv, AllocInv,
                      ProcessedIsComplete, Complete, NothingIn
<1>7. CASE /\ infos' = [infos EXCEPT ![f].alloc = TRUE,
                                     ![f].addr = BufferFor(f, r.n),
                                     ![f].total = r.n]
           /\ sReq' = r
           /\ sPc' = "data"
           /\ UNCHANGED <<bits, sNext>>
    <2>1. BufferFor(f, r.n) \in Slots(B)
        BY <1>3, CallocType DEF BufferFor, SlaveHolds, SlaveHas
    <2>2. SlaveHas(F, B)'
        <3>1. infos \in [File -> [alloc : BOOLEAN, addr : Slots(B),
                                  len : NFrame, total : NFrame]]
            BY DEF SlaveHolds, SlaveHas
        <3>2. infos' \in [File -> [alloc : BOOLEAN, addr : Slots(B),
                                   len : NFrame, total : NFrame]]
            <4>1. PICK addr \in Slots(B), total \in NFrame :
                      addr = BufferFor(f, r.n) /\ total = r.n
                BY <1>3, <2>1
            <4>2. infos' = [infos EXCEPT ![f].alloc = TRUE, ![f].addr = addr, ![f].total = total]
                BY <1>7, <4>1
            <4> HIDE DEF f
            <4> DEFINE info == [infos[f] EXCEPT !.alloc = TRUE, !.addr = addr, !.total = total]
            <4>3. infos' = [infos EXCEPT ![f] = info]
                BY <1>3, <3>1, <4>2
            <4>4. info \in [alloc : BOOLEAN, addr : Slots(B),
                            len : NFrame, total : NFrame]
                BY <1>3, <3>1
            <4> HIDE DEF info
            <4> QED
                BY <3>1, <4>3, <4>4
        <3>3. sPc' = "data" /\ sReq' \in Requests(F) /\ UNCHANGED <<bits, sNext>>
            BY <1>2, <1>7
        <3> QED
            BY <3>2, <3>3 DEF SlaveHolds, SlaveHas
    <2>3. \A g \in File : ~Complete(g)
        BY <1>1 DEF SlaveHolds, SlaveInv
    <2>4. \A g \in File \ {f} : ~Complete(g)'
        BY <1>3, <1>7, <2>3 DEF Complete, NothingIn, SlaveHolds, SlaveHas
    <2>5. infos'[f].total = r.n
        BY <1>3, <1>7 DEF SlaveHolds, SlaveHas
    <2>6. SlaveInv'
        BY <1>3, <1>7, <2>4, <2>5 DEF SlaveInv
    <2>7. ProcessedIsComplete'
        BY <1>7 DEF SlaveHolds, ProcessedIsComplete
    <2>8. AllocInv'
        <3>1. infos'[f].alloc = TRUE
            BY <1>3, <1>7 DEF SlaveHolds, SlaveHas
        <3>2. \A g \in File \ {f} : infos'[g] = infos[g]
            BY <1>7 DEF SlaveHolds, SlaveHas
        <3> QED
            BY <3>1, <3>2 DEF SlaveHolds, AllocInv
    <2> QED
        BY <1>5, <2>2, <2>6, <2>7, <2>8 DEF SlaveHolds
<1> QED
    BY <1>6, <1>7 DEF SlaveSend

\* receive_data_frames leaves the picture incomplete, or without a gap.
LEMMA ReceiveDataHolds ==
    ASSUME NEW F, NEW B, Sendable(F, B), SlaveHolds(F, B), SlaveReceiveData
    PROVE  SlaveHolds(F, B)'
<1> DEFINE f == sReq.file
           n == sReq.n
           slots == Fill(infos[f].addr, up, n)
           sum == Missing(infos[f].addr, up, n)
           len == ReceivedLen(infos[f].total, sum)
<1>1. f \in File /\ infos[f].total = n /\ sPc = "data"
    BY DEF SlaveHolds, SlaveInv, SlaveReceiveData
<1>2. n \in NFrame /\ n \in Nat
    <2>1. NoRequest.n \in NFrame
        BY NFrameModType DEF NoRequest, Ctl, NFrame
    <2>2. n \in NFrame
        BY <2>1 DEF SlaveHolds, SlaveHas, Requests, Sendable
    <2> QED
        BY <2>2 DEF NFrame
<1>3. infos[f] \in [alloc : BOOLEAN, addr : Slots(B),
                    len : NFrame, total : NFrame]
    BY <1>1 DEF SlaveHolds, SlaveHas
<1>4. n * DataUnits \in Nat
    BY <1>2, LineAssumption, SMT
<1>5. LineHas(F, B)'
    <2>1. up' = Drop(up, n * DataUnits) /\ UNCHANGED <<down, faults>>
        BY DEF SlaveReceiveData
    <2> QED
        BY <1>4, <2>1, DropType DEF SlaveHolds, LineHas, Line
<1>6. ProcessedIsComplete'
    BY DEF SlaveHolds, ProcessedIsComplete, SlaveReceiveData
<1>7. CASE n > Len(infos[f].addr)
    <2>1. sPc' = "overrun" /\ UNCHANGED <<sReq, infos, bits, sNext>>
        BY <1>7 DEF SlaveReceiveData
    <2>2. SlaveHas(F, B)'
        BY <2>1 DEF SlaveHolds, SlaveHas
    <2>3. SlaveInv'
        BY <1>1, <2>1 DEF SlaveHolds, SlaveInv, Complete, NothingIn
    <2> QED
        BY <1>5, <1>6, <2>1, <2>2, <2>3 DEF SlaveHolds, AllocInv
<1>8. CASE ~(n > Len(infos[f].addr))
    <2>1. /\ infos' = [infos EXCEPT ![f].addr = slots, ![f].len = len]
          /\ IF sum = 0 THEN sPc' = "process" /\ UNCHANGED sReq
                        ELSE BackToWait
          /\ UNCHANGED <<bits, sNext>>
        BY <1>8 DEF SlaveReceiveData
    <2>2. BufferFull(up, n) /\ up \in Line(F)
        BY DEF SlaveReceiveData, SlaveHolds, LineHas
    <2>3. slots \in Slots(B) /\ Len(slots) = Len(infos[f].addr)
        BY <1>2, <1>3, <2>2, FillType DEF Sendable
    <2>4. sum \in 0..n /\ (sum = 0 => \A i \in 1..n : slots[i] # Empty)
        <3>1. sum \in 0..n
            BY <1>2, MissingProperties
        <3>2. n <= Len(infos[f].addr) /\ infos[f].addr \in Slots(B)
            BY <1>2, <1>3, <1>8, LenProperties DEF Slots
        <3>3. ASSUME sum = 0 PROVE \A i \in 1..n : slots[i] # Empty
            BY <1>2, <2>2, <3>2, <3>3, FilledUp DEF Sendable
        <3> QED
            BY <3>1, <3>3
    <2>5. sum \in NFrame
        BY <1>2, <2>4, NFrameModType DEF NFrame
    <2>6. len \in NFrame /\ (len = infos[f].total => sum = 0)
        BY <1>3, <2>5, ReceivedLenProperties
    <2>7. SlaveHas(F, B)'
        <3>1. infos' \in [File -> [alloc : BOOLEAN, addr : Slots(B),
                                   len : NFrame, total : NFrame]]
            BY <1>1, <1>3, <2>1, <2>3, <2>6 DEF SlaveHolds, SlaveHas
        <3>2. sPc' \in {"process", "wait"} /\ sReq' \in {sReq, NoRequest}
            BY <2>1 DEF BackToWait
        <3> QED
            BY <2>1, <3>1, <3>2 DEF SlaveHolds, SlaveHas
    <2>8. /\ infos'[f].addr = slots /\ infos'[f].len = len
          /\ infos'[f].total = infos[f].total
          /\ infos'[f].alloc = infos[f].alloc
          /\ \A g \in File \ {f} : infos'[g] = infos[g]
        BY <1>1, <1>3, <2>1 DEF SlaveHolds, SlaveHas
    <2>9. \A g \in File : Complete(g)' => g = f /\ sum = 0
        <3> HIDE DEF len, slots, sum, f
        <3>1. ASSUME NEW g \in File, g = f, Complete(g)'
              PROVE  sum = 0
            <4>1. infos'[g].len = infos'[g].total
                BY <3>1 DEF Complete, NothingIn
            <4> QED
                BY <2>6, <2>8, <3>1, <4>1
        <3>2. \A g \in File \ {f} : Complete(g)' => Complete(g)
            BY <2>1, <2>8 DEF Complete, NothingIn
        <3>3. \A g \in File \ {f} : ~Complete(g)
            BY DEF SlaveHolds, SlaveInv, f
        <3> QED
            BY <3>1, <3>2, <3>3
    <2>10. n <= Len(slots)
        <3>1. Len(infos[f].addr) \in Nat
            BY <1>3, LenProperties DEF Slots
        <3> QED
            BY <1>2, <1>8, <2>3, <3>1
    <2>11. SlaveInv'
        <3>1. CASE sum = 0
            BY <1>1, <2>1, <2>4, <2>8, <2>9, <2>10, <3>1 DEF SlaveInv
        <3>2. CASE sum # 0
            BY <2>1, <2>9, <3>2 DEF SlaveInv, BackToWait
        <3> QED
            BY <3>1, <3>2
    <2>12. AllocInv'
        <3>1. infos[f].addr = <<>> => slots = <<>>
            BY <2>3, EmptySeq DEF Slots
        <3> QED
            BY <2>8, <3>1 DEF SlaveHolds, AllocInv
    <2> QED
        BY <1>5, <1>6, <2>7, <2>11, <2>12 DEF SlaveHolds
<1> QED
    BY <1>7, <1>8

\* The -1 of a timeout makes no picture complete.
LEMMA DataTimeoutHolds ==
    ASSUME NEW F, NEW B, Sendable(F, B), SlaveHolds(F, B), SlaveDataTimeout
    PROVE  SlaveHolds(F, B)'
<1> DEFINE f == sReq.file
           len == ReceivedLen(infos[f].total, NFrameMod - 1)
<1>1. f \in File /\ sPc = "data"
    BY DEF SlaveHolds, SlaveInv, SlaveDataTimeout
<1>2. infos[f] \in [alloc : BOOLEAN, addr : Slots(B),
                    len : NFrame, total : NFrame]
    BY <1>1 DEF SlaveHolds, SlaveHas
<1>3. NFrameMod - 1 \in NFrame /\ NFrameMod - 1 # 0
    BY DEF NFrame, NFrameMod
<1>4. len \in NFrame /\ len # infos[f].total
    BY <1>2, <1>3, ReceivedLenProperties
<1>5. LineHas(F, B)'
    BY FaultType DEF SlaveHolds, LineHas, SlaveDataTimeout
<1>6. /\ infos'[f].len = len /\ infos'[f].total = infos[f].total
      /\ infos'[f].alloc = infos[f].alloc /\ infos'[f].addr = infos[f].addr
      /\ \A g \in File \ {f} : infos'[g] = infos[g]
    BY <1>1, <1>2 DEF SlaveHolds, SlaveHas, SlaveDataTimeout
<1>7. SlaveHas(F, B)'
    BY <1>1, <1>2, <1>4 DEF SlaveHolds, SlaveHas, SlaveDataTimeout, BackToWait
<1>8. \A g \in File : ~Complete(g)'
    BY <1>1, <1>4, <1>6 DEF SlaveDataTimeout, Complete, NothingIn, SlaveHolds, SlaveInv
<1>9. SlaveInv'
    BY <1>8 DEF SlaveDataTimeout, SlaveInv, BackToWait
<1>10. AllocInv'
    BY <1>6 DEF SlaveHolds, AllocInv
<1> QED
    BY <1>5, <1>7, <1>9, <1>10 DEF SlaveHolds, SlaveDataTimeout, ProcessedIsComplete

\* The content of n frames of an array: nothing if no frame holds data, or else the
\* frames themselves.
LEMMA ContentType ==
    ASSUME NEW B, NEW addr \in Slots(B), NEW n \in Nat, n <= Len(addr)
    PROVE  /\ FramesToData(addr, n) \in Slots(B)
           /\ \/ FramesToData(addr, n) = <<>> /\ \A i \in 1..n : Vacant(addr[i])
              \/ /\ Len(FramesToData(addr, n)) = n /\ n # 0
                 /\ FramesToData(addr, n) = SubSeq(addr, 1, n)
                 /\ \A i \in 1..n : FramesToData(addr, n)[i] = addr[i]
<1>1. Len(addr) \in Nat /\ \A i \in 1..Len(addr) : addr[i] \in B \cup {Empty}
    BY LenProperties, ElementOfSeq DEF Slots
<1>2. \A i \in 1..n : addr[i] \in B \cup {Empty}
    BY <1>1
<1>3. /\ SubSeq(addr, 1, n) \in Slots(B)
      /\ Len(SubSeq(addr, 1, n)) = n
      /\ \A i \in 1..n : SubSeq(addr, 1, n)[i] = addr[i]
    BY <1>2, SubSeqProperties DEF Slots
<1>4. CASE \A i \in 1..n : Vacant(addr[i])
    BY <1>4, EmptySeq DEF FramesToData, Slots
<1>5. CASE ~\A i \in 1..n : Vacant(addr[i])
    <2>1. n # 0
        BY <1>5
    <2>2. FramesToData(addr, n) = SubSeq(addr, 1, n)
        BY <1>5 DEF FramesToData
    <2> QED
        BY <1>3, <2>1, <2>2
<1> QED
    BY <1>4, <1>5

\* The two ways process_data_frames ends
Encodes == SlaveProcess /\ (DryRun \/ Picture # <<>>)
Exits == SlaveProcess /\ ~(DryRun \/ Picture # <<>>)

\* It has no other.
LEMMA ProcessCases == SlaveProcess => Encodes \/ Exits
BY DEF Encodes, Exits

\* The bit stream is made of frames that were received, and a picture that holds
\* data gets one.
LEMMA ProcessHolds ==
    ASSUME NEW F, NEW B, Sendable(F, B), SlaveHolds(F, B), Encodes
    PROVE  SlaveHolds(F, B)'
<1> DEFINE f == sReq.file
           n == sReq.n
           addr == infos[f].addr
           stream == FramesToData(addr, n)
<1>1. /\ f \in File /\ infos[f].total = n /\ n <= Len(addr)
      /\ \A i \in 1..n : addr[i] # Empty
    BY DEF SlaveHolds, SlaveInv, Encodes, SlaveProcess
<1>2. addr \in Slots(B) /\ n \in Nat
    BY <1>1 DEF SlaveHolds, SlaveHas, NFrame
<1>3. /\ stream \in Slots(B)
      /\ \/ stream = <<>> /\ \A i \in 1..n : addr[i] = Hollow
         \/ Len(stream) = n /\ n # 0 /\ \A i \in 1..n : stream[i] = addr[i]
    BY <1>1, <1>2, ContentType DEF Vacant
<1>5. /\ bits' = [bits EXCEPT ![f] = stream]
      /\ BackToWait
      /\ UNCHANGED <<up, down, faults, infos, sNext>>
    BY DEF Encodes, SlaveProcess, Picture, lineVars
<1> HIDE DEF stream
<1>6. LineHas(F, B)'
    BY <1>5 DEF SlaveHolds, LineHas
<1>7. SlaveHas(F, B)'
    BY <1>3, <1>5 DEF SlaveHolds, SlaveHas, BackToWait
<1>8. bits'[f] = stream /\ \A g \in File \ {f} : bits'[g] = bits[g]
    BY <1>1, <1>5 DEF SlaveHolds, SlaveHas
<1>10. ProcessedIsComplete'
    <2>1. \A i \in 1..Len(bits'[f]) : bits'[f][i] # Empty
        BY <1>1, <1>3, <1>8, EmptySeq
    <2>2. \A g \in File \ {f} : \A i \in 1..Len(bits'[g]) : bits'[g][i] # Empty
        BY <1>8 DEF SlaveHolds, ProcessedIsComplete
    <2> HIDE DEF f
    <2> QED
        BY <2>1, <2>2 DEF ProcessedIsComplete
<1>11. \A g \in File : ~Complete(g)'
    <2>1. infos'[f] = infos[f]
        BY <1>5
    <2> HIDE DEF f
    <2>2. \A g \in File : (g = f /\ stream = <<>>) => NothingIn(g)'
        BY <1>1, <1>3, <2>1, EmptySeq DEF NothingIn, f
    <2>4. \A g \in File : g = f => bits'[g] = stream
        BY <1>8
    <2>5. \A g \in File : g = f => ~Complete(g)'
        BY <2>2, <2>4 DEF Complete
    <2>3. \A g \in File \ {f} : ~Complete(g)'
        BY <1>5, <1>8 DEF Complete, NothingIn, SlaveHolds, SlaveInv, f
    <2> QED
        BY <2>3, <2>5
<1>12. SlaveInv'
    BY <1>5, <1>11 DEF SlaveInv, BackToWait
<1> QED
    BY <1>5, <1>6, <1>7, <1>10, <1>12 DEF SlaveHolds, AllocInv

\* The program exits on a picture without data.
LEMMA ExitHolds ==
    ASSUME NEW F, NEW B, Sendable(F, B), SlaveHolds(F, B), Exits
    PROVE  SlaveHolds(F, B)'
<1> DEFINE f == sReq.file
           n == sReq.n
           addr == infos[f].addr
<1>1. /\ sPc = "process" /\ FramesToData(addr, n) = <<>> /\ sPc' = "exited"
      /\ UNCHANGED <<up, down, faults, sReq, infos, bits, sNext>>
    BY DEF Exits, SlaveProcess, Picture, lineVars
<1>2. LineHas(F, B)' /\ SlaveHas(F, B)'
    BY <1>1 DEF SlaveHolds, LineHas, SlaveHas
<1>3. \A g \in File : ~Complete(g)
    <2>1. /\ f \in File /\ infos[f].total = n /\ n <= Len(addr)
          /\ \A i \in 1..n : addr[i] # Empty
        BY <1>1 DEF SlaveHolds, SlaveInv
    <2>2. addr \in Slots(B) /\ n \in Nat
        BY <2>1 DEF SlaveHolds, SlaveHas, NFrame
    <2>3. \A i \in 1..n : addr[i] = Hollow
        BY <1>1, <2>1, <2>2, ContentType, EmptySeq DEF Vacant
    <2>4. NothingIn(f)
        BY <2>1, <2>3 DEF NothingIn
    <2> QED
        BY <1>1, <2>4 DEF SlaveHolds, SlaveInv, Complete
<1>4. SlaveInv'
    BY <1>1, <1>3 DEF SlaveInv, Complete, NothingIn
<1> QED
    BY <1>1, <1>2, <1>4 DEF SlaveHolds, AllocInv, ProcessedIsComplete

\* The number of frames of a bit stream.
LEMMA BitFramesType ==
    ASSUME NEW S, NEW b \in Seq(S)
    PROVE  BitFrames(b) \in Nat
<1> DEFINE D == {i \in 1..Len(b) : b[i] # Hollow}
<1>1. IsFiniteSet(1..Len(b)) /\ D \subseteq 1..Len(b)
    BY LenProperties, FS_Interval
<1>2. Cardinality(D) \in Nat
    BY <1>1, FS_Subset, FS_CardinalityType
<1> QED
    BY <1>2, SlaveAssumption, NFrameModType DEF BitFrames

\* A RECV that finds a bit stream answers with a control frame of the slave.
LEMMA RecvHolds ==
    ASSUME NEW F, NEW B, Sendable(F, B), SlaveHolds(F, B), SlaveRecv
    PROVE  SlaveHolds(F, B)'
<1> DEFINE r == Head1(up)
           f == r.file
           reply == Ctl("slave", "RECV", f, BitFrames(bits[f]), "NONE")
<1>1. LineHas(F, B) /\ FromMaster /\ sPc = "wait"
    BY DEF SlaveHolds, SlaveRecv, Requested, FromMaster
<1>2. r \in Requests(F) /\ up' \in Line(F) /\ f \in Nat
    BY <1>1, RequestRead
<1>3. /\ f \in File
      /\ Replied(reply) \/ ReplyTimedOut
      /\ sReq' = r /\ sNext' = 1 /\ sPc' = "send"
      /\ UNCHANGED <<infos, bits>>
    BY DEF SlaveRecv
<1>4. BitFrames(bits[f]) \in Nat
    BY <1>3, BitFramesType DEF SlaveHolds, SlaveHas, Slots
<1>5. reply \in Replies(B)
    BY <1>2, <1>4 DEF Replies, CtlFrame, Ctl, Types
<1>6. LineHas(F, B)'
    BY <1>1, <1>2, <1>3, <1>5, ReplyType DEF LineHas
<1>7. SlaveHas(F, B)'
    BY <1>2, <1>3 DEF SlaveHolds, SlaveHas
<1>8. SlaveInv'
    BY <1>1, <1>3 DEF SlaveHolds, SlaveInv, Complete, NothingIn
<1> QED
    BY <1>3, <1>6, <1>7, <1>8 DEF SlaveHolds, ProcessedIsComplete, AllocInv

\* The frames of a bit stream are data frames of the slave.
LEMMA SendFrameHolds ==
    ASSUME NEW F, NEW B, Sendable(F, B), SlaveHolds(F, B), SlaveSendFrame
    PROVE  SlaveHolds(F, B)'
<1> DEFINE b == bits[sReq.file]
           frame == StreamFrame(b, sNext)
<1>1. LineHas(F, B) /\ sPc = "send" /\ sReq.file \in File
    BY DEF SlaveHolds, SlaveInv, SlaveSendFrame
<1>2. /\ Replied(frame) \/ ReplyTimedOut
      /\ UNCHANGED <<up, infos, bits>>
      /\ \/ sNext' = 0 /\ BackToWait
         \/ sNext' = sNext + 1 /\ UNCHANGED <<sPc, sReq>>
    BY DEF SlaveSendFrame
<1>3. frame \in Replies(B)
    BY <1>1 DEF SlaveHolds, SlaveHas, StreamFrame, Data, Replies, DataFrame
<1>4. LineHas(F, B)'
    BY <1>1, <1>2, <1>3, ReplyType DEF LineHas
<1>5. SlaveHas(F, B)'
    BY <1>2 DEF SlaveHolds, SlaveHas, BackToWait
<1>6. SlaveInv'
    BY <1>1, <1>2 DEF SlaveHolds, SlaveInv, Complete, NothingIn, BackToWait
<1> QED
    BY <1>2, <1>4, <1>5, <1>6 DEF SlaveHolds, ProcessedIsComplete, AllocInv

\* Every step of the slave keeps SlaveHolds.
LEMMA SlaveStepHolds ==
    ASSUME NEW F, NEW B, Sendable(F, B), SlaveHolds(F, B), SlaveStep
    PROVE  SlaveHolds(F, B)'
BY DiscardHolds, NoStateHolds, SendHolds, ReceiveDataHolds, DataTimeoutHolds,
   ProcessCases, ProcessHolds, ExitHolds, RecvHolds, SendFrameHolds DEF SlaveStep

\* The slave's initial state, which is also the state after a reboot.
LEMMA SlaveInitHolds ==
    ASSUME NEW F, NEW B, SlaveInit, LineHas(F, B)
    PROVE  SlaveHolds(F, B)
<1>1. 0 \in NFrame
    BY NFrameModType DEF NFrame
<1>2. <<>> \in Slots(B) /\ Len(<<>>) = 0
    BY EmptySeq DEF Slots
<1>3. SlaveHas(F, B)
    BY <1>1, <1>2 DEF SlaveInit, SlaveHas, NoInfo
<1>4. SlaveInv
    BY DEF SlaveInit, SlaveInv, NoInfo, Complete, NothingIn
<1>5. ProcessedIsComplete
    BY <1>2 DEF SlaveInit, ProcessedIsComplete
<1>6. AllocInv
    BY DEF SlaveInit, AllocInv, NoInfo
<1> QED
    BY <1>3, <1>4, <1>5, <1>6 DEF SlaveHolds

\* A reboot of the board.
LEMMA RebootHolds ==
    ASSUME NEW F, NEW B, Sendable(F, B), SlaveHolds(F, B), SlaveReboot
    PROVE  SlaveHolds(F, B)'
<1>1. <<>> \in Line(F)
    BY EmptySeq DEF Line
<1>2. LineHas(F, B)'
    BY <1>1, FaultType DEF SlaveHolds, LineHas, SlaveReboot
<1>3. SlaveInit'
    BY DEF SlaveReboot, SlaveInit, BackToWait
<1>4. 0 \in NFrame
    BY NFrameModType DEF NFrame
<1>5. <<>> \in Slots(B) /\ Len(<<>>) = 0
    BY EmptySeq DEF Slots
<1>6. SlaveHas(F, B)'
    BY <1>3, <1>4, <1>5 DEF SlaveInit, SlaveHas, NoInfo
<1>7. SlaveInv'
    BY <1>3 DEF SlaveInit, SlaveInv, NoInfo, Complete, NothingIn
<1>8. ProcessedIsComplete'
    BY <1>3, <1>5 DEF SlaveInit, ProcessedIsComplete
<1>9. AllocInv'
    BY <1>3 DEF SlaveInit, AllocInv, NoInfo
<1> QED
    BY <1>2, <1>6, <1>7, <1>8, <1>9 DEF SlaveHolds

\* What the line does by itself keeps its type.
LEMMA LineStepHas ==
    ASSUME NEW F, NEW B, LineHas(F, B), LineStep
    PROVE  LineHas(F, B)'
<1>1. CASE CorruptUp
    BY <1>1, FaultType, CorruptType DEF CorruptUp, LineHas
<1>2. CASE CorruptDown
    <2>1. PICK i \in 1..Len(down) : down' = [down EXCEPT ![i] = Noise]
        BY <1>2 DEF CorruptDown
    <2>2. faults' \in 0..MaxFaults
        BY <1>2, FaultType DEF CorruptDown, LineHas
    <2> QED
        BY <1>2, <2>1, <2>2, CorruptType DEF CorruptDown, LineHas
<1>3. CASE LoseUp
    BY <1>3, FaultType, LoseType DEF LoseUp, LineHas
<1>4. CASE LoseDown
    BY <1>4, FaultType, LoseType DEF LoseDown, LineHas
<1> QED
    BY <1>1, <1>2, <1>3, <1>4 DEF LineStep

\* The frames of this master are such frames, and its line and its slave are of these
\* types, before a step and after it.
LEMMA MasterSends ==
    /\ Sendable(MasterFrame, PictureBody)
    /\ LineTypeOK <=> LineHas(MasterFrame, PictureBody)
    /\ LineTypeOK' <=> LineHas(MasterFrame, PictureBody)'
    /\ SlaveSafe <=> SlaveHolds(MasterFrame, PictureBody)
    /\ SlaveSafe' <=> SlaveHolds(MasterFrame, PictureBody)'
<1>1. Sendable(MasterFrame, PictureBody)
    BY DataAssumption DEF Sendable, MasterFrame, CtlFrame, DataFrame
<1>2. Requests(MasterFrame) = CtlFrame("master", NFrame)
    BY DEF Requests, MasterFrame, CtlFrame, DataFrame
<1>3. Replies(PictureBody) = SlaveFrame
    BY DEF Replies, SlaveFrame, StreamBody
<1>4. /\ LineTypeOK <=> LineHas(MasterFrame, PictureBody)
      /\ LineTypeOK' <=> LineHas(MasterFrame, PictureBody)'
    BY <1>3, Zenon DEF LineTypeOK, LineHas
<1>5. /\ SlaveTypeOK <=> SlaveHas(MasterFrame, PictureBody)
      /\ SlaveTypeOK' <=> SlaveHas(MasterFrame, PictureBody)'
    BY <1>2, Zenon DEF SlaveTypeOK, SlaveHas
<1> QED
    BY <1>1, <1>4, <1>5, Zenon DEF SlaveSafe, SlaveHolds

\* Every step of the slave keeps SlaveSafe.
LEMMA SlaveStepSafe ==
    ASSUME SlaveSafe, SlaveStep
    PROVE  SlaveSafe'
BY MasterSends, SlaveStepHolds, Zenon

\* The initial state of the slave is safe.
LEMMA SlaveInitSafe ==
    ASSUME SlaveInit, LineTypeOK
    PROVE  SlaveSafe
BY MasterSends, SlaveInitHolds, Zenon

\* A reboot of the board keeps it safe.
LEMMA RebootSafe ==
    ASSUME SlaveSafe, SlaveReboot
    PROVE  SlaveSafe'
BY MasterSends, RebootHolds, Zenon

\* What the line does by itself keeps its type.
LEMMA LineStepType ==
    ASSUME LineTypeOK, LineStep
    PROVE  LineTypeOK'
BY MasterSends, LineStepHas, Zenon

-----------------------------------------------------------------------------
(* The steps of the master.                                                *)

\* Every session has at least one picture.
LEMMA FilesType ==
    ASSUME NEW s \in 1..Len(Sessions)
    PROVE  /\ Len(Sessions[s]) \in Nat \ {0}
           /\ 1 \in 1..Len(Sessions[s])
           /\ \A k \in 1..Len(Sessions[s]) :
                 Sessions[s][k] \in Pictures \cup {Unreadable}
<1>1. Sessions[s] \in Seq(Pictures \cup {Unreadable}) /\ Sessions[s] # <<>>
    BY MasterAssumption, ElementOfSeq
<1>2. Len(Sessions[s]) \in Nat \ {0}
    BY <1>1, EmptySeq
<1> QED
    BY <1>1, <1>2, ElementOfSeq

\* The head of a loop leaves the file index inside argv.
LEMMA GoToFileType ==
    ASSUME MasterTypeOK, NEW phase, NEW after,
           GoToFile(mFile + 1, phase, after), session' = session
    PROVE  mFile' \in 1..Len(Files)' /\ mPhase' \in {phase, after}
<1>1. Len(Files) \in Nat \ {0} /\ Len(Files)' = Len(Files)
    BY FilesType DEF MasterTypeOK, Files
<1> QED
    BY <1>1 DEF MasterTypeOK, GoToFile

\* get_data_frames: a picture that was opened has a number of frames.
LEMMA OpenSafe ==
    ASSUME MasterSafe, MasterOpen
    PROVE  MasterSafe'
<1> DEFINE p == Files[mFile]
<1>1. /\ mPhase = "open"
      /\ UNCHANGED <<up, down, faults, session, mAsked, mNext, mGot, mSlots, saved>>
    BY DEF MasterOpen, lineVars
<1>2. Files' = Files /\ p \in Pictures \cup {Unreadable}
    BY <1>1, FilesType DEF MasterSafe, MasterTypeOK, Files
<1>3. LineTypeOK'
    BY <1>1, <1>2 DEF MasterSafe, LineTypeOK
<1>4. CASE p = Unreadable
    <2>1. PICK g \in Garbage : nFiles' = [nFiles EXCEPT ![mFile] = g]
        BY <1>4 DEF MasterOpen
    <2>2. g \in Nat
        BY MasterAssumption
    <2>3. nFiles' \in [1..Len(Files)' -> Nat]
        BY <1>2, <2>1, <2>2 DEF MasterSafe, MasterTypeOK
    <2>4. mFile' \in 1..Len(Files)' /\ mPhase' \in {"open", "poll"}
        BY <1>1, <1>4, GoToFileType DEF MasterSafe, MasterOpen, NextUpload
    <2>5. mCount' = mCount
        BY <1>4 DEF MasterOpen
    <2>6. MasterTypeOK'
        BY <1>1, <1>2, <2>3, <2>4, <2>5 DEF MasterSafe, MasterTypeOK, RequestPhases
    <2>7. MasterInv'
        BY <2>4 DEF MasterInv
    <2> QED
        BY <1>3, <2>6, <2>7 DEF MasterSafe
<1>5. CASE p # Unreadable
    <2>1. /\ nFiles' = [nFiles EXCEPT ![mFile] = mFile - 1]
          /\ mCount' = FrameCount[p]
          /\ mPhase' = "check"
          /\ mFile' = mFile
        BY <1>5 DEF MasterOpen
    <2>2. mFile \in Nat /\ mFile - 1 \in Nat
        BY DEF MasterSafe, MasterTypeOK
    <2>3. nFiles' \in [1..Len(Files)' -> Nat]
        BY <1>2, <2>1, <2>2 DEF MasterSafe, MasterTypeOK
    <2>4. mCount' \in NFrame
        BY <1>2, <1>5, <2>1, MasterAssumption DEF NFrame
    <2>5. MasterTypeOK'
        BY <1>1, <1>2, <2>1, <2>3, <2>4 DEF MasterSafe, MasterTypeOK, RequestPhases
    <2>6. MasterInv'
        BY <1>2, <1>5, <2>1 DEF MasterInv
    <2> QED
        BY <1>3, <2>5, <2>6 DEF MasterSafe
<1> QED
    BY <1>4, <1>5

\* A step that only changes the line and mAsked.
LEMMA AskedSafe ==
    ASSUME MasterSafe, LineTypeOK', mAsked' \in BOOLEAN,
           UNCHANGED <<session, mPhase, mFile, nFiles, mCount, mNext, mGot,
                       mSlots, saved>>
    PROVE  MasterSafe'
<1>1. Files' = Files
    BY DEF Files
<1>2. MasterTypeOK'
    BY <1>1 DEF MasterSafe, MasterTypeOK
<1> QED
    BY <1>1, <1>2 DEF MasterSafe, MasterInv

\* A request is a control frame of the master.
LEMMA SendRequestSafe ==
    ASSUME MasterSafe, MasterSend
    PROVE  MasterSafe'
<1>1. Request \in MasterFrame
    <2>1. nFiles[mFile] \in Nat /\ mCount \in NFrame
        BY DEF MasterSafe, MasterTypeOK
    <2>2. RequestType \in Types
        BY DEF MasterSend, RequestPhases, RequestType, Types
    <2> QED
        BY <2>1, <2>2 DEF Request, Ctl, CtlFrame, MasterFrame
<1>2. LineTypeOK
    BY DEF MasterSafe
<1>3. up' \in Line(MasterFrame) /\ faults' \in 0..MaxFaults /\ mAsked' \in BOOLEAN
    <2>1. CASE up' = up \o Units(Request) /\ mAsked' = TRUE /\ UNCHANGED faults
        BY <1>1, <1>2, <2>1, AppendType DEF LineTypeOK
    <2>2. CASE Fault("sendTimeout") /\ UNCHANGED <<up, mAsked>>
        BY <1>2, <2>2, FaultType DEF LineTypeOK, MasterSafe, MasterTypeOK
    <2> QED
        BY <2>1, <2>2 DEF MasterSend
<1>4. LineTypeOK'
    BY <1>2, <1>3 DEF LineTypeOK, MasterSend
<1> QED
    BY <1>3, <1>4, AskedSafe DEF MasterSend

\* A frame that is no answer is dropped.
LEMMA MismatchSafe ==
    ASSUME MasterSafe, MasterMismatch
    PROVE  MasterSafe'
<1>1. LineTypeOK /\ ReadLen(down) \in Nat
    BY ReadLenType DEF MasterSafe, LineTypeOK
<1>2. down' \in Line(SlaveFrame) /\ faults' \in 0..MaxFaults
    <2>1. CASE down' = Drop(down, ReadLen(down)) /\ UNCHANGED faults
        BY <1>1, <2>1, DropType DEF LineTypeOK, Line
    <2>2. CASE /\ Fault("shortDown")
               /\ \E k \in 1..CtlUnits : ShortRead(down, k) /\ down' = Drop(down, k)
        <3>1. faults' \in 0..MaxFaults
            BY <1>1, <2>2, FaultType DEF LineTypeOK
        <3>2. PICK k \in 1..CtlUnits : down' = Drop(down, k)
            BY <2>2
        <3>3. k \in Nat
            BY LineAssumption
        <3>4. down' \in Line(SlaveFrame)
            BY <1>1, <3>2, <3>3, DropType DEF LineTypeOK, Line
        <3> QED
            BY <3>1, <3>4
    <2> QED
        BY <2>1, <2>2 DEF MasterMismatch
<1>3. LineTypeOK' /\ mAsked' = FALSE
    BY <1>1, <1>2 DEF LineTypeOK, MasterMismatch
<1> QED
    BY <1>3, AskedSafe DEF MasterMismatch

\* An answer is a control frame of the slave.
LEMMA AnswerRead ==
    ASSUME LineTypeOK, NEW phase, Answered(phase), UNCHANGED <<up, faults>>
    PROVE  /\ LineTypeOK'
           /\ Head1(down) \in CtlFrame("slave", Nat)
           /\ mPhase = phase /\ mAsked' = FALSE
<1>1. CtlUnits \in Nat
    BY LineAssumption
<1>2. down' \in Line(SlaveFrame)
    BY <1>1, DropType DEF LineTypeOK, Answered, Line
<1>3. Head1(down) \in SlaveFrame /\ Head1(down).kind = "ctl"
    BY IntactType DEF LineTypeOK, Answered
<1>4. Head1(down) \in CtlFrame("slave", Nat)
    BY <1>3 DEF SlaveFrame, DataFrame
<1> QED
    BY <1>2, <1>4 DEF LineTypeOK, Answered

\* An answer to a query before or after an upload.
LEMMA UploadQuerySafe ==
    ASSUME MasterSafe, MasterChecked \/ MasterConfirmed
    PROVE  MasterSafe'
<1>1. /\ Answered("check") \/ Answered("confirm")
      /\ \/ mPhase' = "offer" /\ UNCHANGED mFile
         \/ NextUpload
      /\ UNCHANGED <<up, faults, session, nFiles, mCount, mNext, mGot, mSlots,
                     saved>>
    BY DEF MasterChecked, MasterConfirmed
<1>2. LineTypeOK' /\ mPhase \in {"check", "confirm"} /\ mAsked' = FALSE
    BY <1>1, AnswerRead DEF MasterSafe
<1>3. Files' = Files
    BY <1>1 DEF Files
<1>4. /\ mFile' \in 1..Len(Files)'
      /\ mPhase' \in {"open", "poll"} \/ (mPhase' = "offer" /\ mFile' = mFile)
    BY <1>1, <1>3, GoToFileType DEF MasterSafe, MasterTypeOK, NextUpload
<1>5. MasterTypeOK'
    BY <1>1, <1>2, <1>3, <1>4 DEF MasterSafe, MasterTypeOK, RequestPhases
<1>6. MasterInv'
    BY <1>2, <1>3, <1>4 DEF MasterSafe, MasterInv
<1> QED
    BY <1>1, <1>2, <1>3, <1>5, <1>6 DEF MasterSafe

\* The answer to SEND.
LEMMA OfferedSafe ==
    ASSUME MasterSafe, MasterOffered
    PROVE  MasterSafe'
<1>1. LineTypeOK' /\ mPhase = "offer" /\ mAsked' = FALSE
    BY AnswerRead DEF MasterSafe, MasterOffered
<1>2. Files' = Files
    BY DEF Files, MasterOffered
<1>3. mPhase' \in {"confirm", "upload"} /\ mNext' \in Nat
    BY DEF MasterSafe, MasterTypeOK, MasterOffered
<1>4. MasterTypeOK'
    BY <1>1, <1>2, <1>3 DEF MasterOffered, MasterSafe, MasterTypeOK, RequestPhases
<1>5. MasterInv'
    BY <1>1, <1>2 DEF MasterOffered, MasterSafe, MasterInv
<1> QED
    BY <1>1, <1>2, <1>4, <1>5 DEF MasterOffered, MasterSafe

\* What the master uploads are data frames of a picture.
LEMMA UploadSafe ==
    ASSUME MasterSafe, MasterUpload
    PROVE  MasterSafe'
<1> DEFINE frame == PictureFrame(mFile, mNext)
<1>1. LineTypeOK /\ mPhase = "upload" /\ Files' = Files
    BY DEF MasterSafe, MasterUpload, Files
<1>2. Files[mFile] \in Pictures /\ mNext \in Nat
    BY <1>1, FilesType DEF MasterSafe, MasterTypeOK, MasterInv, Files
<1>3. frame \in MasterFrame
    BY <1>2 DEF PictureFrame, Data, MasterFrame, DataFrame, PictureBody
<1>4. up' \in Line(MasterFrame) /\ faults' \in 0..MaxFaults
    <2>1. CASE up' = up \o Units(frame) /\ UNCHANGED faults
        BY <1>1, <1>3, <2>1, AppendType DEF LineTypeOK
    <2>2. CASE Fault("sendTimeout") /\ UNCHANGED up
        BY <1>1, <2>2, FaultType DEF LineTypeOK
    <2> QED
        BY <2>1, <2>2 DEF MasterUpload
<1>5. LineTypeOK'
    BY <1>1, <1>4 DEF LineTypeOK, MasterUpload
<1>6. /\ mNext' \in Nat /\ mPhase' \in {"upload", "confirm"}
      /\ UNCHANGED <<session, mAsked, mFile, nFiles, mCount, mGot, mSlots, saved>>
    BY <1>1, <1>2 DEF MasterUpload
<1>7. MasterTypeOK'
    BY <1>1, <1>6 DEF MasterSafe, MasterTypeOK, RequestPhases
<1>8. MasterInv'
    BY <1>1, <1>6 DEF MasterSafe, MasterInv
<1> QED
    BY <1>1, <1>5, <1>6, <1>7, <1>8 DEF MasterSafe

\* An answer to a query or to RECV in the download.
LEMMA DownloadAnswerSafe ==
    ASSUME MasterSafe, MasterPolled \/ MasterFetched
    PROVE  MasterSafe'
<1>1. /\ Answered("poll") \/ Answered("fetch")
      /\ UNCHANGED <<up, faults, session, mFile, nFiles, mCount, mNext, saved>>
    BY DEF MasterPolled, MasterFetched
<1>2. /\ LineTypeOK' /\ mAsked' = FALSE
      /\ Head1(down) \in CtlFrame("slave", Nat)
      /\ mPhase \in {"poll", "fetch"}
    BY <1>1, AnswerRead DEF MasterSafe
<1>3. Head1(down).n \in Nat
    BY <1>2 DEF CtlFrame
<1>4. Calloc(Head1(down).n) \in Slots(StreamBody)
    BY <1>3, CallocType
<1>5. mSlots' \in Slots(StreamBody) /\ mGot' \in Nat
    BY <1>3, <1>4 DEF MasterPolled, MasterFetched, MasterSafe, MasterTypeOK
<1>6. mPhase' \in {"poll", "fetch", "download"}
    BY <1>2 DEF MasterPolled, MasterFetched
<1>7. Files' = Files
    BY <1>1 DEF Files
<1>8. MasterTypeOK'
    BY <1>1, <1>2, <1>5, <1>6, <1>7 DEF MasterSafe, MasterTypeOK, RequestPhases
<1> QED
    BY <1>1, <1>2, <1>6, <1>7, <1>8 DEF MasterSafe, MasterInv

\* tcflush leaves the end of a line.
LEMMA FlushedType ==
    ASSUME NEW S, NEW line \in Line(S), NEW rest \in Flushed(line)
    PROVE  rest \in Line(S)
<1>1. Len(line) \in Nat
    BY LenProperties DEF Line
<1>2. PICK k \in 0..Len(line) : rest = Drop(line, k)
    BY DEF Flushed
<1> QED
    BY <1>1, <1>2, DropType DEF Line

\* receive_data_frames of the master, which saves a full array or asks again.
LEMMA MasterReceiveSafe ==
    ASSUME MasterSafe, MasterReceiveData
    PROVE  MasterSafe'
<1> DEFINE slots == Fill(mSlots, down, mGot)
           rest == Drop(down, mGot * DataUnits)
           stream == SubSeq(slots, 1, mGot)
<1>1. /\ mPhase = "download" /\ BufferFull(down, mGot)
      /\ UNCHANGED <<up, faults, session, mAsked, nFiles, mCount, mNext, mGot>>
    BY DEF MasterReceiveData
<1>2. /\ mGot \in Nat /\ mSlots \in Slots(StreamBody)
      /\ down \in Line(SlaveFrame) /\ Files' = Files
    BY <1>1 DEF MasterSafe, MasterTypeOK, LineTypeOK, Files
<1>3. CASE mGot > Len(mSlots)
    <2>1. mPhase' = "overrun" /\ UNCHANGED <<down, mFile, mSlots, saved>>
        BY <1>3 DEF MasterReceiveData
    <2>2. LineTypeOK'
        BY <1>1, <2>1 DEF MasterSafe, LineTypeOK
    <2>3. MasterTypeOK'
        BY <1>1, <1>2, <2>1 DEF MasterSafe, MasterTypeOK
    <2> QED
        BY <1>2, <2>1, <2>2, <2>3 DEF MasterSafe, MasterInv
<1>4. CASE ~(mGot > Len(mSlots))
    <2>1. slots \in Slots(StreamBody) /\ Len(slots) = Len(mSlots)
        BY <1>1, <1>2, StreamFillType
    <2>2. /\ Len(slots) \in Nat /\ mGot <= Len(slots)
          /\ \A i \in 1..Len(slots) : slots[i] \in StreamBody \cup {Empty}
        BY <1>2, <1>4, <2>1, LenProperties, ElementOfSeq DEF Slots
    <2>3. LineTypeOK'
        <3>1. mGot * DataUnits \in Nat
            BY <1>2, LineAssumption, SMT
        <3>2. rest \in Line(SlaveFrame)
            BY <1>2, <3>1, DropType DEF Line
        <3>3. down' \in Flushed(rest)
            BY <1>4 DEF MasterReceiveData
        <3>4. down' \in Line(SlaveFrame)
            BY <3>2, <3>3, FlushedType
        <3> QED
            BY <1>1, <3>4 DEF MasterSafe, LineTypeOK
    <2>4. CASE AllReceived
        <3>1. /\ GoToFile(mFile + 1, "poll", "done")
              /\ mSlots' = <<>>
              /\ saved' = [saved EXCEPT ![mFile] = stream]
            BY <1>4, <2>4 DEF MasterReceiveData
        <3>2. mFile' \in 1..Len(Files)' /\ mPhase' \in {"poll", "done"}
            BY <1>1, <3>1, GoToFileType DEF MasterSafe
        <3>3. /\ stream \in Slots(StreamBody)
              /\ Len(stream) = mGot
              /\ \A i \in 1..mGot : stream[i] = slots[i]
            <4>1. \A i \in 1..mGot : slots[i] \in StreamBody \cup {Empty}
                BY <1>2, <2>2
            <4> QED
                BY <1>2, <4>1, SubSeqProperties DEF Slots
        <3>5. <<>> \in Slots(StreamBody)
            BY EmptySeq DEF Slots
        <3>6. saved' \in [1..Len(Files)' -> Slots(StreamBody)]
            BY <1>2, <3>1, <3>3 DEF MasterSafe, MasterTypeOK
        <3>7. MasterTypeOK'
            BY <1>1, <1>2, <3>1, <3>2, <3>5, <3>6
                DEF MasterSafe, MasterTypeOK, RequestPhases
        <3> QED
            BY <2>3, <3>2, <3>7 DEF MasterSafe, MasterInv
    <2>5. CASE ~AllReceived
        <3>1. mPhase' = "fetch" /\ mSlots' = slots /\ UNCHANGED <<mFile, saved>>
            BY <1>4, <2>5 DEF MasterReceiveData
        <3>2. MasterTypeOK'
            BY <1>1, <1>2, <2>1, <3>1 DEF MasterSafe, MasterTypeOK, RequestPhases
        <3> QED
            BY <1>2, <2>3, <3>1, <3>2 DEF MasterSafe, MasterInv
    <2> QED
        BY <2>4, <2>5
<1> QED
    BY <1>3, <1>4

\* The timers of the master.
LEMMA MasterTimersSafe ==
    ASSUME MasterSafe, RequestTimeout \/ DataTimeout
    PROVE  MasterSafe'
<1>1. CASE RequestTimeout
    <2>1. faults' \in 0..MaxFaults
        BY <1>1, FaultType DEF RequestTimeout, MasterSafe, LineTypeOK
    <2>2. LineTypeOK'
        BY <1>1, <2>1 DEF RequestTimeout, MasterTimeout, MasterSafe, LineTypeOK
    <2> QED
        BY <1>1, <2>2, AskedSafe DEF RequestTimeout, MasterTimeout
<1>2. CASE DataTimeout
    <2>1. /\ mPhase' = "fetch"
          /\ UNCHANGED <<up, down, faults, session, mAsked, mFile, nFiles,
                         mCount, mNext, mGot, mSlots, saved>>
        BY <1>2 DEF DataTimeout, MasterDataTimeout, lineVars
    <2>2. Files' = Files
        BY <2>1 DEF Files
    <2>3. MasterTypeOK'
        BY <2>1, <2>2 DEF MasterSafe, MasterTypeOK, RequestPhases
    <2> QED
        BY <2>1, <2>2, <2>3
            DEF MasterSafe, LineTypeOK, MasterInv
<1> QED
    BY <1>1, <1>2

\* Every step of the master keeps MasterSafe.
LEMMA MasterStepSafe ==
    ASSUME MasterSafe, MasterStep \/ RequestTimeout \/ DataTimeout
    PROVE  MasterSafe'
BY OpenSafe, SendRequestSafe, MismatchSafe, UploadQuerySafe, OfferedSafe,
   UploadSafe, DownloadAnswerSafe, MasterReceiveSafe, MasterTimersSafe
   DEF MasterStep

\* The master is run again.
LEMMA RestartSafe ==
    ASSUME MasterSafe, MasterRestart
    PROVE  MasterSafe'
<1>1. session' \in 1..Len(Sessions) /\ Files' = Sessions[session + 1]
    <2>1. Len(Sessions) \in Nat
        BY MasterAssumption, LenProperties
    <2> QED
        BY <2>1 DEF MasterRestart, MasterSafe, MasterTypeOK, Files
<1>2. 1 \in 1..Len(Files)'
    BY <1>1, FilesType DEF Files
<1>3. 0 \in NFrame /\ <<>> \in Slots(StreamBody) /\ Len(<<>>) = 0
    BY NFrameModType, EmptySeq DEF NFrame, Slots
<1>4. LineTypeOK'
    BY FlushedType DEF MasterRestart, MasterSafe, LineTypeOK
<1>5. MasterTypeOK'
    BY <1>1, <1>2, <1>3 DEF MasterRestart, MasterTypeOK
<1>6. MasterInv'
    BY <1>1, <1>3 DEF MasterRestart, MasterInv
<1> QED
    BY <1>4, <1>5, <1>6 DEF MasterSafe

-----------------------------------------------------------------------------
(* The theorems.                                                           *)

\* The slave's part does not depend on the master's variables, ...
LEMMA SlaveUntouched ==
    ASSUME SlaveSafe, LineTypeOK', UNCHANGED slaveVars
    PROVE  SlaveSafe'
BY DEF SlaveSafe, slaveVars, SlaveTypeOK, SlaveInv, AllocInv, ProcessedIsComplete, Complete, NothingIn

\* ... and the master's not on the slave's.
LEMMA MasterUntouched ==
    ASSUME MasterSafe, LineTypeOK', UNCHANGED masterVars
    PROVE  MasterSafe'
<1>1. UNCHANGED <<session, mPhase, mAsked, mFile, nFiles, mCount, mNext, mGot,
                  mSlots, saved>>
    BY DEF masterVars
<1> QED
    BY <1>1, AskedSafe DEF MasterSafe, MasterTypeOK

\* The invariant holds at the start.
LEMMA InitSafe == Init => IInv
<1> SUFFICES ASSUME Init PROVE IInv
    OBVIOUS
<1>1. LineTypeOK
    BY EmptySeq, LineAssumption DEF Init, LineInit, LineTypeOK, Line
<1>2. SlaveSafe
    BY <1>1, SlaveInitSafe DEF Init
<1>3. MasterSafe
    <2>1. 1 \in 1..Len(Sessions)
        BY MasterAssumption, EmptySeq
    <2>2. 1 \in 1..Len(Files)
        BY <2>1, FilesType DEF Init, MasterInit, Files
    <2>3. 0 \in NFrame /\ <<>> \in Slots(StreamBody) /\ Len(<<>>) = 0
        BY NFrameModType, EmptySeq DEF NFrame, Slots
    <2>4. MasterTypeOK
        BY <2>1, <2>2, <2>3 DEF Init, MasterInit, MasterTypeOK
    <2>5. MasterInv
        BY <2>3 DEF Init, MasterInit, MasterInv
    <2> QED
        BY <1>1, <2>4, <2>5 DEF MasterSafe
<1> QED
    BY <1>2, <1>3 DEF IInv

\* Every step keeps the invariant.
LEMMA NextSafe == IInv /\ [Next]_vars => IInv'
<1> SUFFICES ASSUME IInv, [Next]_vars PROVE IInv'
    OBVIOUS
<1>1. SlaveSafe /\ MasterSafe /\ LineTypeOK
    BY DEF IInv, SlaveSafe
<1>2. CASE MasterActs
    <2>1. MasterSafe'
        BY <1>1, <1>2, MasterStepSafe DEF MasterActs
    <2>2. LineTypeOK'
        BY <2>1 DEF MasterSafe
    <2> QED
        BY <1>1, <1>2, <2>1, <2>2, SlaveUntouched DEF MasterActs, IInv
<1>3. CASE SlaveActs
    <2>1. SlaveSafe'
        BY <1>1, <1>3, SlaveStepSafe DEF SlaveActs
    <2>2. LineTypeOK'
        BY <2>1 DEF SlaveSafe
    <2> QED
        BY <1>1, <1>3, <2>1, <2>2, MasterUntouched DEF SlaveActs, IInv
<1>4. CASE LineStep /\ UNCHANGED <<slaveVars, masterVars>>
    <2>1. LineTypeOK'
        BY <1>1, <1>4, LineStepType
    <2> QED
        BY <1>1, <1>4, <2>1, SlaveUntouched, MasterUntouched DEF IInv
<1>5. CASE SlaveReboot /\ UNCHANGED masterVars
    <2>1. SlaveSafe'
        BY <1>1, <1>5, RebootSafe
    <2>2. LineTypeOK'
        BY <2>1 DEF SlaveSafe
    <2> QED
        BY <1>1, <1>5, <2>1, <2>2, MasterUntouched DEF IInv
<1>6. CASE MasterRestart /\ UNCHANGED slaveVars
    <2>1. MasterSafe'
        BY <1>1, <1>6, RestartSafe
    <2>2. LineTypeOK'
        BY <2>1 DEF MasterSafe
    <2> QED
        BY <1>1, <1>6, <2>1, <2>2, SlaveUntouched DEF IInv
<1>7. CASE UNCHANGED vars
    <2>1. UNCHANGED slaveVars /\ UNCHANGED masterVars /\ UNCHANGED lineVars
        BY <1>7 DEF vars
    <2>2. LineTypeOK'
        BY <1>1, <2>1 DEF lineVars, LineTypeOK
    <2> QED
        BY <1>1, <2>1, <2>2, SlaveUntouched, MasterUntouched DEF IInv
<1> QED
    BY <1>2, <1>3, <1>4, <1>5, <1>6, <1>7 DEF Next, Disturb, Finished

\* The inductive invariant.
THEOREM Safety == Spec => []IInv
BY InitSafe, NextSafe, PTL DEF Spec

\* Every variable keeps its type, whatever the faults.
THEOREM TypeCorrect == Spec => []TypeOK
<1>1. IInv => TypeOK
    BY DEF IInv, SlaveSafe, MasterSafe, TypeOK
<1> QED
    BY <1>1, Safety, PTL

\* The slave never answers a query of this master with PROCESSING: between two requests
\* no picture is complete and unprocessed (main.c, get_status), for every frame that the
\* master sends holds data.
THEOREM NoProcessingReply ==
    Spec => [](sPc = "wait" => \A f \in File : GetStatus(f) # "PROCESSING")
<1>1. IInv => (sPc = "wait" => \A f \in File : GetStatus(f) # "PROCESSING")
    <2> SUFFICES ASSUME IInv, sPc = "wait", NEW f \in File, GetStatus(f) = "PROCESSING"
                 PROVE  FALSE
        OBVIOUS
    <2>1. infos[f].total # 0 /\ infos[f].len = infos[f].total /\ bits[f] = <<>>
        BY DEF GetStatus
    <2>2. NothingIn(f)
        BY <2>1 DEF IInv, SlaveSafe, SlaveInv, Complete
    <2>3. infos[f].addr \in Slots(PictureBody) /\ infos[f].total \in Nat
        BY DEF IInv, SlaveSafe, SlaveTypeOK, NFrame
    <2>4. 1 \in 1..infos[f].total /\ 1 \in 1..Len(infos[f].addr)
        BY <2>1, <2>2, <2>3, LenProperties DEF NothingIn, Slots
    <2>5. Hollow \in PictureBody \cup {Empty}
        BY <2>2, <2>3, <2>4, ElementOfSeq DEF NothingIn, Slots
    <2> QED
        BY <2>5, DataAssumption, LineAssumption
<1> QED
    BY <1>1, Safety, PTL

\* The slave encodes no picture that has a gap (main.c, process_data_frames).
THEOREM NoGapProcessed == Spec => []ProcessedIsComplete
<1>1. IInv => ProcessedIsComplete
    BY DEF IInv, SlaveSafe
<1> QED
    BY <1>1, Safety, PTL

-----------------------------------------------------------------------------
\* What AcceptedFramesStay says of one step.
FramesStay ==
    \A f \in File : bits[f] = <<>> =>
        \A i \in 1..Len(infos[f].addr) :
            LET slot == infos[f].addr[i]
            IN  /\ ~Vacant(slot) => infos'[f].addr[i] = slot
                /\ slot = Hollow => infos'[f].addr[i] # Empty

\* It holds of a step that leaves the arrays as they are.
LEMMA SameFramesStay ==
    ASSUME \A f \in File : bits[f] = <<>> =>
               \A i \in 1..Len(infos[f].addr) : infos'[f].addr[i] = infos[f].addr[i]
    PROVE  FramesStay
BY LineAssumption DEF FramesStay

\* A SEND keeps the array of a picture that is not processed.
LEMMA SendKeeps ==
    ASSUME NEW F, NEW B, SlaveHolds(F, B), SlaveSend
    PROVE  FramesStay
<1> DEFINE r == Head1(up)
<1>1. CASE UNCHANGED infos
    BY <1>1, SameFramesStay
<1>2. CASE infos' = [infos EXCEPT ![r.file].alloc = TRUE,
                                  ![r.file].addr = BufferFor(r.file, r.n),
                                  ![r.file].total = r.n]
    <2> SUFFICES ASSUME NEW f \in File, bits[f] = <<>>,
                        NEW i \in 1..Len(infos[f].addr)
                 PROVE  infos'[f].addr[i] = infos[f].addr[i]
        BY SameFramesStay
    <2>1. CASE f # r.file
        BY <1>2, <2>1 DEF SlaveHolds, SlaveHas
    <2>2. CASE f = r.file
        <3>1. infos'[f].addr = BufferFor(f, r.n)
            BY <1>2, <2>2 DEF SlaveHolds, SlaveHas
        <3>2. infos[f].addr # <<>>
            BY EmptySeq
        <3>3. infos[f].alloc
            BY <3>2 DEF SlaveHolds, AllocInv
        <3> QED
            BY <3>1, <3>3 DEF BufferFor
    <2> QED
        BY <2>1, <2>2
<1> QED
    BY <1>1, <1>2 DEF SlaveSend, slaveVars

\* receive_data_frames writes to elements without data only, and leaves none of them
\* emptier than it was.
LEMMA ReceiveKeeps ==
    ASSUME NEW F, NEW B, Sendable(F, B), SlaveHolds(F, B), SlaveReceiveData
    PROVE  FramesStay
<1> DEFINE g == sReq.file
           n == sReq.n
           slots == Fill(infos[g].addr, up, n)
<1>1. CASE UNCHANGED infos
    BY <1>1, SameFramesStay
<1>2. CASE \E len : infos' = [infos EXCEPT ![g].addr = slots, ![g].len = len]
    <2>1. n \in Nat
        BY NFrameModType DEF SlaveHolds, SlaveHas, Requests, Sendable, NoRequest, Ctl, NFrame
    <2>2. BufferFull(up, n) /\ up \in Line(F)
        BY DEF SlaveReceiveData, SlaveHolds, LineHas
    <2>3. ASSUME NEW f \in File, NEW i \in 1..Len(infos[f].addr)
          PROVE  /\ ~Vacant(infos[f].addr[i]) => infos'[f].addr[i] = infos[f].addr[i]
                 /\ infos[f].addr[i] # Empty => infos'[f].addr[i] # Empty
        <3>1. CASE f # g
            BY <1>2, <2>3, <3>1 DEF SlaveHolds, SlaveHas
        <3>2. CASE f = g
            <4>1. infos'[f].addr = slots
                BY <1>2, <2>3, <3>2 DEF SlaveHolds, SlaveHas
            <4>2. ASSUME ~Vacant(infos[f].addr[i]) PROVE slots[i] = infos[f].addr[i]
                BY <2>3, <3>2, <4>2, FillKeeps
            <4>3. ASSUME infos[f].addr[i] # Empty PROVE slots[i] # Empty
                BY <2>1, <2>2, <2>3, <3>2, <4>3, FillNeverEmpties DEF Sendable
            <4> HIDE DEF slots
            <4> QED
                BY <4>1, <4>2, <4>3
        <3> QED
            BY <3>1, <3>2
    <2> QED
        BY <2>3, LineAssumption DEF FramesStay
<1> QED
    BY <1>1, <1>2 DEF SlaveReceiveData

\* The other steps of the slave leave the arrays alone.
LEMMA SlaveStepKeeps ==
    ASSUME NEW F, NEW B, Sendable(F, B), SlaveHolds(F, B), SlaveStep
    PROVE  FramesStay
<1>1. CASE SlaveSend
    BY <1>1, SendKeeps
<1>2. CASE SlaveReceiveData
    BY <1>2, ReceiveKeeps
<1>3. CASE SlaveDataTimeout
    <2>1. \A f \in File : infos'[f].addr = infos[f].addr
        BY <1>3 DEF SlaveDataTimeout, SlaveHolds, SlaveHas
    <2> QED
        BY <2>1, SameFramesStay
<1>4. CASE UNCHANGED infos
    BY <1>4, SameFramesStay
<1> QED
    BY <1>1, <1>2, <1>3, <1>4
        DEF SlaveStep, SlaveDiscard, SlaveQuery, SlaveRefuseSend, SlaveProcess,
            SlaveRefuseRecv, SlaveRecv, SlaveSendFrame, SlaveUnknown, slaveVars

\* As long as the board keeps its power, a frame that was accepted stays in its
\* place until the picture has been processed.
THEOREM FramesAreKept ==
    ASSUME "reboot" \notin FaultKinds
    PROVE  Spec => AcceptedFramesStay
<1>1. IInv /\ [Next]_vars => [FramesStay]_slaveVars
    <2> SUFFICES ASSUME IInv, [Next]_vars PROVE [FramesStay]_slaveVars
        OBVIOUS
    <2>1. CASE SlaveActs
        <3>1. SlaveHolds(MasterFrame, PictureBody) /\ SlaveStep /\ Sendable(MasterFrame, PictureBody)
            BY <2>1, MasterSends DEF IInv, SlaveActs
        <3> QED
            BY <3>1, SlaveStepKeeps
    <2>2. CASE SlaveReboot
        BY <2>2 DEF SlaveReboot, Fault
    <2>3. CASE UNCHANGED slaveVars
        BY <2>3
    <2> QED
        BY <2>1, <2>2, <2>3 DEF Next, MasterActs, Disturb, Finished, vars
<1>2. [][FramesStay]_slaveVars => AcceptedFramesStay
    BY PTL DEF AcceptedFramesStay, FramesStay
<1> QED
    BY <1>1, <1>2, Safety, PTL DEF Spec

-----------------------------------------------------------------------------
(* Any program at the other end of the line.                               *)

AnyBody == {frame.body : frame \in {g \in AnyFrame : g.kind = "data"}}
AnyHolds == SlaveHolds(AnyFrame, AnyBody)

\* Its frames can be sent.
LEMMA AnySends == Sendable(AnyFrame, AnyBody)
<1>0. Empty \notin AnyBody
    BY AnyFrameAssumption DEF AnyBody
<1> SUFFICES ASSUME NEW frame \in AnyFrame
             PROVE  /\ frame.kind = "ctl" => frame.file \in Nat /\ frame.n \in NFrame
                    /\ frame.kind = "data" => frame.body \in AnyBody
    BY <1>0 DEF Sendable
<1>1. frame.kind = "ctl" => frame.file \in Nat /\ frame.n \in NFrame
    BY AnyFrameAssumption DEF NFrame
<1>2. frame.kind = "data" => frame.body \in AnyBody
    BY DEF AnyBody
<1> QED
    BY <1>1, <1>2

\* What does not concern the slave leaves it alone.
LEMMA SlaveHoldsStill ==
    ASSUME NEW F, NEW B, SlaveHolds(F, B), LineHas(F, B)', UNCHANGED slaveVars
    PROVE  SlaveHolds(F, B)'
BY DEF SlaveHolds, slaveVars, SlaveHas, SlaveInv, AllocInv, ProcessedIsComplete, Complete, NothingIn

\* The invariant holds at the start, ...
LEMMA OpenInitHolds == OpenInit => AnyHolds
<1> SUFFICES ASSUME OpenInit PROVE AnyHolds
    OBVIOUS
<1>1. LineHas(AnyFrame, AnyBody)
    BY EmptySeq, LineAssumption DEF OpenInit, LineInit, LineHas, Line
<1> QED
    BY <1>1, SlaveInitHolds DEF OpenInit, AnyHolds

\* ... and every step keeps it: the slave's, the line's and the other program's.
LEMMA OpenNextHolds == AnyHolds /\ [OpenNext]_openVars => AnyHolds'
<1> SUFFICES ASSUME AnyHolds, [OpenNext]_openVars PROVE AnyHolds'
    OBVIOUS
<1>1. SlaveHolds(AnyFrame, AnyBody) /\ LineHas(AnyFrame, AnyBody)
    BY DEF AnyHolds, SlaveHolds
<1>2. CASE SlaveStep
    BY <1>1, <1>2, AnySends, SlaveStepHolds DEF AnyHolds
<1>3. CASE LineStep /\ UNCHANGED slaveVars
    BY <1>1, <1>3, LineStepHas, SlaveHoldsStill DEF AnyHolds
<1>4. CASE EnvSend
    <2>1. PICK frame \in AnyFrame : up' = up \o Units(frame)
        BY <1>4 DEF EnvSend
    <2>2. up' \in Line(AnyFrame)
        BY <1>1, <2>1, AppendType DEF LineHas
    <2>3. LineHas(AnyFrame, AnyBody)'
        BY <1>1, <1>4, <2>2 DEF EnvSend, LineHas
    <2> QED
        BY <1>1, <1>4, <2>3, SlaveHoldsStill DEF EnvSend, AnyHolds
<1>5. CASE EnvRead
    <2>1. LineHas(AnyFrame, AnyBody)'
        BY <1>1, <1>5, EmptySeq DEF EnvRead, LineHas, Line
    <2> QED
        BY <1>1, <1>5, <2>1, SlaveHoldsStill DEF EnvRead, AnyHolds
<1>6. CASE UNCHANGED openVars
    <2>1. UNCHANGED slaveVars /\ LineHas(AnyFrame, AnyBody)'
        BY <1>1, <1>6 DEF openVars, lineVars, LineHas
    <2> QED
        BY <1>1, <2>1, SlaveHoldsStill DEF AnyHolds
<1> QED
    BY <1>2, <1>3, <1>4, <1>5, <1>6 DEF OpenNext

\* Whatever frames another program sends, with data or without, in whatever order, the
\* slave answers a query with PROCESSING only of a picture all of whose frames came
\* without data (main.c, get_status): it answers between two requests only, and has then
\* encoded every other picture that is complete.
THEOREM AnyMasterNoProcessing == OpenSpec => []NeverReportsProcessing
<1>1. AnyHolds => NeverReportsProcessing
    <2> SUFFICES ASSUME AnyHolds, sPc = "wait", NEW f \in File, GetStatus(f) = "PROCESSING"
                 PROVE  \A i \in 1..infos[f].total : infos[f].addr[i] = Hollow
        BY DEF NeverReportsProcessing
    <2>1. infos[f].total # 0 /\ infos[f].len = infos[f].total /\ bits[f] = <<>>
        BY DEF GetStatus
    <2>2. NothingIn(f)
        BY <2>1 DEF AnyHolds, SlaveHolds, SlaveInv, Complete
    <2> QED
        BY <2>2 DEF NothingIn
<1> QED
    BY <1>1, OpenInitHolds, OpenNextHolds, PTL DEF OpenSpec

\* No sequence of requests makes the slave encode a picture that has a gap, not even one
\* that changes n_frame between the passes of receive_data_frames.
THEOREM AnyMasterNoGap == OpenSpec => []ProcessedIsComplete
<1>1. AnyHolds => ProcessedIsComplete
    BY DEF AnyHolds, SlaveHolds
<1> QED
    BY <1>1, OpenInitHolds, OpenNextHolds, PTL DEF OpenSpec

\* No sequence of requests makes the slave lose or replace data that it has accepted and
\* not yet encoded; a frame without data is replaced by another that is accepted only
\* (receive_data_frames, data_len).
THEOREM AnyMasterFramesKept == OpenSpec => AcceptedFramesStay
<1>1. AnyHolds /\ [OpenNext]_openVars => [FramesStay]_slaveVars
    <2> SUFFICES ASSUME AnyHolds, [OpenNext]_openVars PROVE [FramesStay]_slaveVars
        OBVIOUS
    <2>1. CASE SlaveStep
        BY <2>1, AnySends, SlaveStepKeeps DEF AnyHolds
    <2>2. CASE UNCHANGED slaveVars
        BY <2>2
    <2> QED
        BY <2>1, <2>2 DEF OpenNext, EnvSend, EnvRead, openVars
<1>2. [][FramesStay]_slaveVars => AcceptedFramesStay
    BY PTL DEF AcceptedFramesStay, FramesStay
<1> QED
    BY <1>1, <1>2, OpenInitHolds, OpenNextHolds, PTL DEF OpenSpec

-----------------------------------------------------------------------------
(* The numbers of frames.                                                  *)

\* How many frames the sessions may announce for picture f
Counts(f) ==
    {FrameCount[Sessions[s][f + 1]] :
        s \in {t \in 1..Len(Sessions) : f < Len(Sessions[t]) /\ Sessions[t][f + 1] \in Pictures}}

\* All sessions upload as many frames for a picture, or there is only one.  Otherwise
\* a buffer is overrun (Slave, SlaveReceiveData).
SameCounts == \A f \in File : \A m, n \in Counts(f) : m = n

\* The frames that the master may send
CountedFrame ==
    {frame \in MasterFrame :
        frame.kind = "ctl" /\ frame.type = "SEND" => frame.n \in Counts(frame.file)}

\* The master offers as many frames as its picture has.
MasterCounts ==
    mPhase \in {"check", "offer", "upload", "confirm"} =>
        nFiles[mFile] = mFile - 1 /\ mCount = FrameCount[Files[mFile]]

\* The slave's array of picture f has as many elements as the picture has frames.
PictureCounts(f) ==
    /\ infos[f].alloc => infos[f].total \in Counts(f) /\ Len(infos[f].addr) = infos[f].total
    /\ ~infos[f].alloc => infos[f] = NoInfo /\ bits[f] = <<>>
    /\ bits[f] # <<>> => infos[f].total # 0

SlaveCounts ==
    /\ \A f \in File : PictureCounts(f)
    /\ sPc \in {"data", "process"} => infos[sReq.file].alloc
    /\ sPc # "overrun"

CountInv == up \in Line(CountedFrame) /\ MasterCounts /\ SlaveCounts

\* The frames an array holds
Received(addr) == {i \in 1..Len(addr) : addr[i] # Empty}

\* len is their number, but while the slave receives more of them.
LenInv ==
    \A f \in File :
        ~(sPc = "data" /\ sReq.file = f) => infos[f].len = Cardinality(Received(infos[f].addr))

\* A picture that the master opens has one of these numbers of frames.
LEMMA CountOffered ==
    ASSUME MasterTypeOK, Files[mFile] \in Pictures
    PROVE  FrameCount[Files[mFile]] \in Counts(mFile - 1)
<1>1. session \in 1..Len(Sessions) /\ mFile \in 1..Len(Sessions[session])
      /\ Len(Sessions[session]) \in Nat
    BY FilesType DEF MasterTypeOK, Files
<1>2. mFile - 1 < Len(Sessions[session]) /\ (mFile - 1) + 1 = mFile
    BY <1>1
<1> QED
    BY <1>1, <1>2 DEF Counts, Files

\* What the master sends
LEMMA RequestCounted ==
    ASSUME MasterSafe, MasterCounts, mPhase \in RequestPhases
    PROVE  Request \in CountedFrame
<1>1. nFiles[mFile] \in Nat /\ mCount \in NFrame /\ MasterTypeOK
    BY DEF MasterSafe, MasterTypeOK
<1>2. RequestType \in Types /\ (RequestType = "SEND" => mPhase = "offer")
    BY DEF RequestPhases, RequestType, Types
<1>3. Request \in MasterFrame
    BY <1>1, <1>2 DEF Request, Ctl, CtlFrame, MasterFrame
<1>4. /\ Request.type = RequestType /\ Request.n = mCount /\ Request.file = nFiles[mFile]
    BY DEF Request, Ctl
<1>5. ASSUME mPhase = "offer" PROVE mCount \in Counts(nFiles[mFile])
    <2>1. Files[mFile] \in Pictures
        BY <1>1, <1>5, FilesType DEF MasterSafe, MasterInv, MasterTypeOK, Files
    <2> QED
        BY <1>1, <1>5, <2>1, CountOffered DEF MasterCounts
<1> QED
    BY <1>2, <1>3, <1>4, <1>5 DEF CountedFrame

\* A frame of a picture
LEMMA PictureCounted ==
    ASSUME MasterSafe, mPhase = "upload"
    PROVE  PictureFrame(mFile, mNext) \in CountedFrame
<1>1. Files[mFile] \in Pictures /\ mNext \in Nat
    BY FilesType DEF MasterSafe, MasterTypeOK, MasterInv, Files
<1>2. PictureFrame(mFile, mNext) \in MasterFrame
    BY <1>1 DEF PictureFrame, Data, MasterFrame, DataFrame, PictureBody
<1>3. PictureFrame(mFile, mNext).kind = "data"
    BY DEF PictureFrame, Data
<1> QED
    BY <1>2, <1>3 DEF CountedFrame

\* The line never carries another number.
LEMMA LineCounted ==
    ASSUME IInv, CountInv, [Next]_vars
    PROVE  up' \in Line(CountedFrame)
<1>1. up \in Line(CountedFrame) /\ LineTypeOK /\ SlaveSafe /\ MasterSafe /\ MasterCounts
    BY DEF IInv, SlaveSafe, CountInv
<1>2. ASSUME NEW k \in Nat, up' = Drop(up, k) PROVE up' \in Line(CountedFrame)
    BY <1>1, <1>2, DropType DEF Line
<1>3. CASE MasterActs
    <2>1. CASE MasterSend
        BY <1>1, <2>1, RequestCounted, AppendType DEF MasterSend
    <2>2. CASE MasterUpload
        BY <1>1, <2>2, PictureCounted, AppendType DEF MasterUpload
    <2>3. CASE UNCHANGED up
        BY <1>1, <2>3
    <2> QED
        BY <1>3, <2>1, <2>2, <2>3
            DEF MasterActs, MasterStep, MasterOpen, MasterMismatch, MasterChecked,
                MasterOffered, MasterConfirmed, MasterPolled, MasterFetched,
                MasterReceiveData, RequestTimeout, MasterTimeout, DataTimeout,
                MasterDataTimeout, lineVars
<1>4. CASE SlaveActs
    <2>1. CASE SlaveDiscard
        <3>1. ReadLen(up) \in Nat /\ \A k \in 1..CtlUnits : k \in Nat
            BY <1>1, ReadLenType, LineAssumption
        <3>2. \/ up' = Drop(up, ReadLen(up))
              \/ \E k \in 1..CtlUnits : up' = Drop(up, k)
            BY <2>1 DEF SlaveDiscard
        <3> QED
            BY <1>2, <3>1, <3>2
    <2>2. CASE FromMaster
        BY <1>2, <2>2, LineAssumption DEF FromMaster
    <2>3. CASE SlaveReceiveData
        <3>1. sReq.n \in Nat
            BY <1>1 DEF SlaveSafe, SlaveTypeOK, CtlFrame, NFrame, NoRequest, Ctl
        <3>2. sReq.n * DataUnits \in Nat
            BY <3>1, LineAssumption, SMT
        <3> QED
            BY <1>2, <2>3, <3>2 DEF SlaveReceiveData
    <2>4. CASE UNCHANGED up
        BY <1>1, <2>4
    <2> QED
        BY <1>4, <2>1, <2>2, <2>3, <2>4
            DEF SlaveActs, SlaveStep, SlaveQuery, SlaveRefuseSend, SlaveSend,
                SlaveRefuseRecv, SlaveRecv, SlaveUnknown, Requested, SlaveDataTimeout,
                SlaveProcess, SlaveSendFrame, lineVars
<1>5. CASE LineStep
    <2>1. CASE CorruptUp
        BY <1>1, <2>1, CorruptType DEF CorruptUp
    <2>2. CASE LoseUp
        BY <1>1, <2>2, LoseType DEF LoseUp
    <2> QED
        BY <1>1, <1>5, <2>1, <2>2 DEF LineStep, CorruptDown, LoseDown
<1>6. CASE SlaveReboot
    BY <1>6, EmptySeq DEF SlaveReboot, Line
<1>7. CASE MasterRestart \/ UNCHANGED vars
    BY <1>1, <1>7 DEF MasterRestart, vars, lineVars
<1> QED
    BY <1>3, <1>4, <1>5, <1>6, <1>7 DEF Next, Disturb, Finished

\* Nor does the master.
LEMMA MasterCounted ==
    ASSUME IInv, CountInv, [Next]_vars
    PROVE  MasterCounts'
<1>1. MasterSafe /\ MasterTypeOK /\ MasterCounts
    BY DEF IInv, MasterSafe, CountInv
<1>2. CASE MasterOpen
    <2>1. nFiles \in [1..Len(Files) -> Nat] /\ mFile \in 1..Len(Files) /\ Len(Files) \in Nat
          /\ Files' = Files
        BY <1>1, <1>2, FilesType DEF MasterTypeOK, MasterOpen, Files
    <2>2. CASE Files[mFile] = Unreadable
        BY <1>2, <2>2 DEF MasterOpen, NextUpload, GoToFile, MasterCounts
    <2>3. CASE Files[mFile] # Unreadable
        BY <1>2, <2>1, <2>3 DEF MasterOpen, MasterCounts
    <2> QED
        BY <2>2, <2>3
<1>3. CASE MasterRestart
    BY <1>3 DEF MasterRestart, MasterCounts
<1>4. CASE MasterChecked \/ MasterConfirmed
    <2>1. /\ mPhase \in {"check", "confirm"}
          /\ UNCHANGED <<session, nFiles, mCount>>
          /\ \/ mPhase' = "offer" /\ UNCHANGED mFile
             \/ mPhase' \in {"open", "poll"}
        BY <1>4 DEF MasterChecked, MasterConfirmed, Answered, NextUpload, GoToFile
    <2> QED
        BY <1>1, <2>1 DEF MasterCounts, Files
<1>5. CASE MasterPolled \/ MasterFetched \/ MasterReceiveData \/ DataTimeout
    <2>1. mPhase' \in {"poll", "fetch", "download", "overrun", "done"}
        BY <1>5 DEF MasterPolled, MasterFetched, MasterReceiveData, DataTimeout,
                    MasterDataTimeout, Answered, GoToFile
    <2> QED
        BY <2>1 DEF MasterCounts
<1>6. CASE MasterOffered \/ MasterUpload
    <2>1. /\ mPhase \in {"offer", "upload"}
          /\ UNCHANGED <<session, mFile, nFiles, mCount>>
        BY <1>6 DEF MasterOffered, MasterUpload, Answered
    <2> QED
        BY <1>1, <2>1 DEF MasterCounts, Files
<1>7. CASE UNCHANGED <<session, mPhase, mFile, nFiles, mCount>>
    BY <1>1, <1>7 DEF MasterCounts, Files
<1> QED
    BY <1>2, <1>3, <1>4, <1>5, <1>6, <1>7
        DEF Next, MasterActs, SlaveActs, Disturb, Finished, MasterStep, MasterSend,
            MasterMismatch, RequestTimeout, MasterTimeout, masterVars, vars

\* A SEND that finds an array for as many frames keeps it, or gets an array for them.
LEMMA SendCounted ==
    ASSUME SameCounts, SlaveSafe, CountInv, SlaveSend
    PROVE  SlaveCounts'
<1> DEFINE r == Head1(up)
<1>1. SlaveCounts /\ SlaveTypeOK /\ AllocInv /\ sPc = "wait"
    BY DEF CountInv, SlaveSafe, SlaveSend, Requested, FromMaster
<1>0. PICK f \in File : f = Head1(up).file
    BY DEF SlaveSend
<1>2. r \in CountedFrame /\ r.kind = "ctl" /\ r.type = "SEND" /\ r.file = f
    <2>1. Intact(up) /\ r.type = "SEND"
        BY DEF SlaveSend, Requested, FromMaster
    <2> QED
        BY <1>0, <2>1, IntactType DEF CountInv
<1>3. r.n \in Counts(f) /\ r.n \in Nat
    <2>1. r \in CtlFrame("master", NFrame)
        BY <1>2 DEF CountedFrame, MasterFrame, DataFrame
    <2> QED
        BY <1>2, <2>1 DEF CountedFrame, CtlFrame, NFrame
<1>4. CASE UNCHANGED slaveVars
    BY <1>1, <1>4 DEF SlaveCounts, PictureCounts, slaveVars
<1>5. CASE /\ infos' = [infos EXCEPT ![f].alloc = TRUE,
                                     ![f].addr = BufferFor(f, r.n),
                                     ![f].total = r.n]
           /\ sReq' = r
           /\ sPc' = "data"
           /\ UNCHANGED <<bits, sNext>>
    <2>1. /\ infos'[f].alloc = TRUE /\ infos'[f].total = r.n
          /\ infos'[f].addr = BufferFor(f, r.n)
          /\ \A g \in File \ {f} : infos'[g] = infos[g]
        BY <1>1, <1>2, <1>5 DEF SlaveTypeOK
    <2>2. PictureCounts(f)
        BY <1>1, <1>2 DEF SlaveCounts
    <2>3. Len(BufferFor(f, r.n)) = r.n
        <3>1. CASE infos[f].alloc /\ bits[f] = <<>>
            <4>1. infos[f].total = r.n
                BY <1>2, <1>3, <2>2, <3>1 DEF PictureCounts, SameCounts
            <4> QED
                BY <2>2, <3>1, <4>1 DEF PictureCounts, BufferFor
        <3>2. CASE ~(infos[f].alloc /\ bits[f] = <<>>)
            <4>1. BufferFor(f, r.n) = Calloc(r.n)
                BY <3>2 DEF BufferFor
            <4>2. Calloc(r.n) \in Slots({}) /\ DOMAIN Calloc(r.n) = 1..r.n
                BY <1>3, CallocType DEF Calloc
            <4> QED
                BY <1>3, <4>1, <4>2, LenProperties DEF Slots
        <3> QED
            BY <3>1, <3>2
    <2>4. bits[f] # <<>> => r.n # 0
        <3>1. bits[f] # <<>> => infos[f].alloc /\ infos[f].total # 0
            BY <2>2 DEF PictureCounts
        <3>2. infos[f].alloc => infos[f].total = r.n
            BY <1>2, <1>3, <2>2 DEF PictureCounts, SameCounts
        <3> QED
            BY <3>1, <3>2
    <2>5. PictureCounts(f)'
        BY <1>3, <1>5, <2>1, <2>3, <2>4 DEF PictureCounts
    <2>6. \A g \in File \ {f} : PictureCounts(g)'
        BY <1>1, <1>5, <2>1 DEF PictureCounts, SlaveCounts
    <2>7. \A g \in File : PictureCounts(g)'
        BY <2>5, <2>6
    <2> QED
        BY <1>0, <1>5, <2>1, <2>7 DEF SlaveCounts
<1> QED
    BY <1>0, <1>4, <1>5 DEF SlaveSend

\* The array that is filled is large enough, and keeps its size.
LEMMA ReceiveCounted ==
    ASSUME SlaveSafe, CountInv, SlaveReceiveData
    PROVE  SlaveCounts'
<1>0. PICK f \in File : f = sReq.file
    BY DEF SlaveSafe, SlaveInv, SlaveReceiveData
<1> DEFINE n == sReq.n
           slots == Fill(infos[f].addr, up, n)
           len == ReceivedLen(infos[f].total, Missing(infos[f].addr, up, n))
<1>1. infos[f].total = n /\ sPc = "data" /\ SlaveTypeOK /\ SlaveCounts
    BY <1>0 DEF SlaveSafe, SlaveInv, SlaveReceiveData, CountInv
<1>2. PictureCounts(f) /\ infos[f].alloc /\ Len(infos[f].addr) = n
    BY <1>0, <1>1 DEF SlaveCounts, PictureCounts
<1>3. n \in Nat
    BY <1>1 DEF SlaveTypeOK, NFrame
<1>4. /\ infos' = [infos EXCEPT ![f].addr = slots, ![f].len = len]
      /\ (sPc' = "process" /\ UNCHANGED sReq) \/ BackToWait
      /\ UNCHANGED bits
    BY <1>0, <1>2, <1>3 DEF SlaveReceiveData
<1>5. Len(slots) = n
    <2>1. BufferFull(up, n) /\ up \in Line(MasterFrame) /\ infos[f].addr \in Slots(PictureBody)
        BY <1>1 DEF SlaveReceiveData, SlaveSafe, LineTypeOK, SlaveTypeOK
    <2> QED
        BY <1>2, <1>3, <2>1, PictureFillType
<1>6. /\ infos'[f].addr = slots /\ infos'[f].total = n /\ infos'[f].alloc
      /\ \A g \in File \ {f} : infos'[g] = infos[g]
    BY <1>1, <1>2, <1>4 DEF SlaveTypeOK
<1>7. PictureCounts(f)'
    BY <1>1, <1>2, <1>4, <1>5, <1>6 DEF PictureCounts
<1>8. \A g \in File \ {f} : PictureCounts(g)'
    BY <1>1, <1>4, <1>6 DEF PictureCounts, SlaveCounts
<1>9. \A g \in File : PictureCounts(g)'
    BY <1>7, <1>8
<1> QED
    BY <1>0, <1>4, <1>6, <1>9 DEF SlaveCounts, BackToWait

\* Only a picture of at least one frame gets a bit stream.
LEMMA ProcessCounted ==
    ASSUME SlaveSafe, CountInv, Encodes
    PROVE  SlaveCounts'
<1>0. PICK f \in File : f = sReq.file
    BY DEF SlaveSafe, SlaveInv, Encodes, SlaveProcess
<1> DEFINE n == sReq.n
<1>1. infos[f].total = n /\ sPc = "process" /\ SlaveTypeOK /\ SlaveCounts
    BY <1>0 DEF SlaveSafe, SlaveInv, Encodes, SlaveProcess, CountInv
<1>2. PictureCounts(f) /\ infos[f].alloc
    BY <1>0, <1>1 DEF SlaveCounts
<1>3. /\ bits' = [bits EXCEPT ![f] = FramesToData(infos[f].addr, n)]
      /\ sPc' = "wait" /\ infos' = infos
    BY <1>0 DEF Encodes, SlaveProcess, Picture, BackToWait
<1>4. n = 0 => FramesToData(infos[f].addr, n) = <<>>
    BY DEF FramesToData
<1>5. bits'[f] = FramesToData(infos[f].addr, n) /\ \A g \in File \ {f} : bits'[g] = bits[g]
    BY <1>1, <1>3 DEF SlaveTypeOK
<1>6. PictureCounts(f)'
    BY <1>1, <1>2, <1>3, <1>4, <1>5 DEF PictureCounts
<1>7. \A g \in File \ {f} : PictureCounts(g)'
    BY <1>1, <1>3, <1>5 DEF PictureCounts, SlaveCounts
<1>8. \A g \in File : PictureCounts(g)'
    BY <1>6, <1>7
<1> QED
    BY <1>3, <1>8 DEF SlaveCounts

\* The slave's arrays keep their sizes.
LEMMA SlaveCounted ==
    ASSUME SameCounts, IInv, CountInv, [Next]_vars
    PROVE  SlaveCounts'
<1>1. SlaveSafe /\ SlaveTypeOK /\ SlaveCounts
    BY DEF IInv, SlaveSafe, CountInv
<1>2. CASE SlaveSend
    BY <1>1, <1>2, SendCounted
<1>3. CASE SlaveReceiveData
    BY <1>1, <1>3, ReceiveCounted
<1>4. CASE Encodes
    BY <1>1, <1>4, ProcessCounted
<1>5. CASE SlaveDataTimeout
    <2>0. PICK f \in File : f = sReq.file
        BY <1>1, <1>5 DEF SlaveSafe, SlaveInv, SlaveDataTimeout
    <2>2. /\ \A g \in File :
                /\ infos'[g].alloc = infos[g].alloc
                /\ infos'[g].total = infos[g].total
                /\ infos'[g].addr = infos[g].addr
          /\ \A g \in File \ {f} : infos'[g] = infos[g]
          /\ sPc' = "wait" /\ bits' = bits
        BY <1>1, <1>5, <2>0 DEF SlaveDataTimeout, BackToWait, SlaveTypeOK
    <2>3. infos[f].alloc
        BY <1>1, <1>5, <2>0 DEF SlaveDataTimeout, SlaveCounts
    <2>4. \A g \in File \ {f} : PictureCounts(g)'
        BY <1>1, <2>2 DEF PictureCounts, SlaveCounts
    <2>5. PictureCounts(f)'
        BY <1>1, <2>2, <2>3 DEF PictureCounts, SlaveCounts
    <2> QED
        BY <2>2, <2>4, <2>5 DEF SlaveCounts
<1>6. CASE SlaveReboot
    BY <1>6 DEF SlaveReboot, BackToWait, SlaveCounts, PictureCounts, NoInfo
<1>7. CASE /\ UNCHANGED <<infos, bits>>
           /\ \/ sPc' \in {"wait", "send", "exited"}
              \/ UNCHANGED <<sPc, sReq>>
    BY <1>1, <1>7 DEF SlaveCounts, PictureCounts
<1> QED
    BY <1>2, <1>3, <1>4, <1>5, <1>6, <1>7, ProcessCases
        DEF Next, MasterActs, SlaveActs, Disturb, Finished, SlaveStep, SlaveDiscard,
            SlaveQuery, SlaveRefuseSend, Exits, SlaveProcess, SlaveRefuseRecv, SlaveRecv,
            SlaveSendFrame, SlaveUnknown, BackToWait, slaveVars, vars

\* The numbers of frames stay what they are, whatever the faults.
LEMMA CountsKept ==
    ASSUME SameCounts
    PROVE  Spec => [](IInv /\ CountInv)
<1>1. Init => IInv /\ CountInv
    <2> SUFFICES ASSUME Init PROVE CountInv
        BY InitSafe
    <2>1. up = <<>> /\ mPhase = "open" /\ sPc = "wait"
          /\ infos = [f \in File |-> NoInfo] /\ bits = [f \in File |-> <<>>]
        BY DEF Init, LineInit, SlaveInit, MasterInit
    <2>2. up \in Line(CountedFrame)
        BY <2>1, EmptySeq DEF Line
    <2>3. SlaveCounts
        BY <2>1 DEF SlaveCounts, PictureCounts, NoInfo
    <2> QED
        BY <2>1, <2>2, <2>3 DEF CountInv, MasterCounts
<1>2. IInv /\ CountInv /\ [Next]_vars => IInv' /\ CountInv'
    BY NextSafe, LineCounted, MasterCounted, SlaveCounted DEF CountInv
<1> QED
    BY <1>1, <1>2, PTL DEF Spec

\* The slave writes no frame outside an array, whatever the faults, if the sessions
\* agree on the numbers of frames (main.c allocates a picture's buffer once).
THEOREM SlaveBuffersHold ==
    ASSUME SameCounts
    PROVE  Spec => [](sPc # "overrun")
<1>1. CountInv => sPc # "overrun"
    BY DEF CountInv, SlaveCounts
<1> QED
    BY <1>1, CountsKept, PTL

\* An empty file is never taken for a received picture, whatever the faults and however
\* often it is uploaded (main.c, get_status).
THEOREM EmptyUnreceived ==
    ASSUME SameCounts
    PROVE  Spec => []EmptyStaysUnreceived
<1>1. IInv /\ CountInv => EmptyStaysUnreceived
    <2> SUFFICES ASSUME IInv, CountInv,
                        NEW k \in 1..Len(Files), Files[k] \in Pictures, FrameCount[Files[k]] = 0
                 PROVE  GetStatus(k - 1) = "UNRECEIVED"
        BY DEF EmptyStaysUnreceived
    <2>1. 0 \in Counts(k - 1)
        <3>1. session \in 1..Len(Sessions) /\ k \in 1..Len(Sessions[session])
              /\ Len(Sessions[session]) \in Nat
            BY FilesType DEF IInv, MasterSafe, MasterTypeOK, Files
        <3>2. k - 1 < Len(Sessions[session]) /\ (k - 1) + 1 = k
            BY <3>1
        <3> QED
            BY <3>1, <3>2 DEF Counts, Files
    <2>2. ASSUME k - 1 \in File PROVE bits[k - 1] = <<>> /\ infos[k - 1].total = 0
        <3>1. PictureCounts(k - 1)
            BY <2>2 DEF CountInv, SlaveCounts
        <3> QED
            BY <2>1, <2>2, <3>1 DEF PictureCounts, SameCounts, NoInfo
    <2> QED
        BY <2>2 DEF GetStatus
<1> QED
    BY <1>1, CountsKept, PTL

-----------------------------------------------------------------------------
(* The frames received.                                                    *)

\* An element is received or missing.
LEMMA ReceivedOrMissing ==
    ASSUME NEW addr, NEW n \in Nat, Len(addr) = n
    PROVE  /\ Gaps(addr, n) \in 0..n
           /\ Cardinality(Received(addr)) = n - Gaps(addr, n)
<1> DEFINE M == {i \in 1..n : addr[i] = Empty}
<1>1. IsFiniteSet(1..n) /\ Cardinality(1..n) = n
    BY FS_Interval
<1>2. Received(addr) = (1..n) \ M /\ (1..n) \cap M = M
    BY DEF Received
<1>3. Cardinality((1..n) \ M) = Cardinality(1..n) - Cardinality((1..n) \cap M)
    <2> HIDE DEF M
    <2> QED
        BY <1>1, FS_Difference
<1>4. Gaps(addr, n) = Cardinality(M)
    BY DEF Gaps
<1> QED
    BY <1>1, <1>2, <1>3, <1>4, GapsProperties

\* len is the number of frames received.
LEMMA LenCounts ==
    ASSUME NEW total \in NFrame, NEW sum \in 0..total
    PROVE  ReceivedLen(total, sum) = total - sum
<1>1. NFrameMod \in Nat \ {0} /\ total \in Nat /\ total < NFrameMod
    BY NFrameModType DEF NFrame
<1>2. \A m \in Nat \ {0} : \A d \in 0..(m - 1) : d % m = d
    BY SMT
<1>3. total - sum \in 0..(NFrameMod - 1)
    BY <1>1
<1> QED
    BY <1>1, <1>2, <1>3 DEF ReceivedLen

\* When receive_data_frames has returned, len is the number of frames received.
LEMMA LenKept ==
    ASSUME "recvTimeout" \notin FaultKinds, IInv, CountInv, CountInv', LenInv, [Next]_vars
    PROVE  LenInv'
<1>1. SlaveSafe /\ SlaveTypeOK /\ SlaveCounts
    BY DEF IInv, SlaveSafe, CountInv
<1>2. CASE SlaveSend
    <2> DEFINE f == Head1(up).file
    <2>1. CASE UNCHANGED slaveVars
        BY <2>1 DEF LenInv, slaveVars
    <2>2. CASE /\ infos' = [infos EXCEPT ![f].alloc = TRUE,
                                         ![f].addr = BufferFor(f, Head1(up).n),
                                         ![f].total = Head1(up).n]
               /\ sReq' = Head1(up)
               /\ sPc' = "data"
        <3>1. sPc = "wait" /\ \A g \in File \ {f} : infos'[g] = infos[g]
            BY <1>1, <1>2, <2>2 DEF SlaveTypeOK, SlaveSend, Requested, FromMaster
        <3> QED
            BY <2>2, <3>1 DEF LenInv
    <2> QED
        BY <1>2, <2>1, <2>2 DEF SlaveSend
<1>3. CASE SlaveReceiveData
    <2> DEFINE f == sReq.file
               n == sReq.n
               slots == Fill(infos[f].addr, up, n)
               len == ReceivedLen(infos[f].total, Missing(infos[f].addr, up, n))
    <2>1. f \in File /\ infos[f].total = n /\ infos[f].alloc /\ sPc = "data"
        BY <1>1, <1>3 DEF SlaveSafe, SlaveInv, SlaveReceiveData, SlaveCounts
    <2>2. Len(infos[f].addr) = n /\ n \in NFrame /\ n \in Nat /\ infos[f].addr \in Slots(PictureBody)
        BY <1>1, <2>1 DEF SlaveCounts, PictureCounts, SlaveTypeOK, NFrame
    <2>3. infos' = [infos EXCEPT ![f].addr = slots, ![f].len = len]
        BY <1>3, <2>2 DEF SlaveReceiveData
    <2>4. Len(slots) = n /\ Missing(infos[f].addr, up, n) = Gaps(slots, n)
        <3>1. BufferFull(up, n) /\ up \in Line(MasterFrame)
            BY <1>1, <1>3 DEF SlaveReceiveData, SlaveSafe, LineTypeOK
        <3> QED
            BY <2>2, <3>1, PictureFillType, PictureGaps
    <2>5. /\ infos'[f].addr = slots /\ infos'[f].len = len
          /\ \A g \in File \ {f} : infos'[g] = infos[g]
        BY <1>1, <2>1, <2>3 DEF SlaveTypeOK
    <2>6. len = Cardinality(Received(slots))
        <3> HIDE DEF slots
        <3>1. Gaps(slots, n) \in 0..n /\ Cardinality(Received(slots)) = n - Gaps(slots, n)
            BY <2>2, <2>4, ReceivedOrMissing
        <3> QED
            BY <2>1, <2>2, <2>4, <3>1, LenCounts
    <2>7. infos'[f].len = Cardinality(Received(infos'[f].addr))
        BY <2>5, <2>6
    <2>8. \A g \in File \ {f} : infos'[g].len = Cardinality(Received(infos'[g].addr))
        BY <2>1, <2>5 DEF LenInv
    <2> HIDE DEF f
    <2> QED
        BY <2>7, <2>8 DEF LenInv
<1>4. CASE SlaveReboot
    <2>1. \A f \in File : infos'[f].len = 0 /\ infos'[f].addr = <<>>
        BY <1>4 DEF SlaveReboot, NoInfo
    <2>2. Cardinality(Received(<<>>)) = 0
        BY EmptySeq, FS_EmptySet DEF Received
    <2> QED
        BY <2>1, <2>2 DEF LenInv
<1>5. CASE UNCHANGED infos /\ (UNCHANGED <<sPc, sReq>> \/ sPc # "data")
    BY <1>5 DEF LenInv
<1>6. CASE SlaveDataTimeout
    BY <1>6 DEF SlaveDataTimeout, Fault
<1>7. CASE \/ SlaveDiscard \/ SlaveQuery \/ SlaveRefuseSend \/ SlaveRefuseRecv \/ SlaveUnknown
           \/ MasterActs \/ (Disturb /\ ~SlaveReboot) \/ Finished \/ UNCHANGED vars
    <2>1. UNCHANGED slaveVars
        BY <1>7 DEF SlaveDiscard, SlaveQuery, SlaveRefuseSend, SlaveRefuseRecv, SlaveUnknown,
                    MasterActs, Disturb, Finished, vars
    <2> QED
        BY <1>5, <2>1 DEF slaveVars
<1>8. CASE SlaveProcess \/ SlaveRecv \/ SlaveSendFrame
    <2>1. UNCHANGED infos /\ sPc # "data"
        BY <1>8 DEF SlaveProcess, SlaveRecv, SlaveSendFrame, Requested, FromMaster
    <2> QED
        BY <1>5, <2>1
<1> QED
    BY <1>2, <1>3, <1>4, <1>6, <1>7, <1>8 DEF Next, SlaveActs, Disturb, SlaveStep

\* What the slave answers to a query is the number of frames that it has, whatever the
\* faults but the timeout of option -T, whose -1 is counted (main.c, len = total_len -
\* sum).
THEOREM ReceivedFramesReported ==
    ASSUME SameCounts, "recvTimeout" \notin FaultKinds
    PROVE  Spec => []ReportsReceivedFrames
<1>1. Init => LenInv
    <2> SUFFICES ASSUME Init PROVE LenInv
        OBVIOUS
    <2>1. \A f \in File : infos[f].len = 0 /\ infos[f].addr = <<>>
        BY DEF Init, SlaveInit, NoInfo
    <2>2. Cardinality(Received(<<>>)) = 0
        BY EmptySeq, FS_EmptySet DEF Received
    <2> QED
        BY <2>1, <2>2 DEF LenInv
<1>2. IInv /\ CountInv /\ CountInv' /\ LenInv /\ [Next]_vars => LenInv'
    BY LenKept
<1>3. LenInv => ReportsReceivedFrames
    BY DEF LenInv, ReportsReceivedFrames, Received
<1> QED
    BY <1>1, <1>2, <1>3, CountsKept, PTL DEF Spec
=============================================================================

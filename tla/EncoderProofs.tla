---------------------------- MODULE EncoderProofs ----------------------------
(***************************************************************************)
(* Safety of Encoder for pictures, bursts and memories of any size and any *)
(* number of faults.                                                       *)
(***************************************************************************)
EXTENDS Encoder, NumberLemmas, SequenceTheorems, TLAPS

-----------------------------------------------------------------------------
(* The inductive invariant.                                                *)

\* The device has nothing left to do.
Quiet == dma = NoBurst /\ ~acc.running

\* An interrupt that completes something has been raised and not been taken.
Pending == irqReg \in Completing /\ ~inIrq

Transferring == kPc \in {"burst", "wait"}

\* Which ioctls the caller can be in
CallerFollows ==
    /\ uPc \in {"init", "start", "get", "code", "done", "exit"} => kPc \in {"idle", "stray"}
    /\ kPc = "get" => uPc = "trans"
    /\ uPc = "trans" => kPc \in {"idle", "get", "stray"}

\* Every wait has been long enough.
OnTime == Without({"timeout"})

\* When the device works, when an interrupt may be pending, and what a completion that
\* has been signalled says
DeviceFollows ==
    OnTime =>
        /\ dma # NoBurst => kPc = "wait"
        /\ acc.running => kPc = "get" \/ (kPc = "idle" /\ uPc = "get")
        /\ Pending => Quiet
        /\ signalled /\ kPc \in {"wait", "get"} => Quiet /\ ~Pending
        /\ kPc = "burst" \/ (kPc = "idle" /\ uPc # "get") => ~Pending
        /\ kPc = "idle" /\ Pending => "early" \in hwFaults
        /\ kPc = "stray" => uPc \notin {"init", "start", "code", "done", "exit"}

\* Whose completion it is
CompletionOwned ==
    Without({"other", "timeout"}) =>
        /\ kPc = "stray" => "early" \in hwFaults
        /\ kPc \in {"wait", "get"} => comp = "own"

\* The locals of the loop over bursts
XferFits ==
    /\ Transferring => xfer.dir \in {"toPL", "toPS"}
    /\ xfer.ps = xfer.pl
    /\ xfer.rem > 0 => /\ xfer.data = Align * BurstSize
                       /\ xfer.beats = BurstSize
                       /\ xfer.ps + xfer.rem = xfer.size
                       /\ \E q \in 0..xfer.ps : xfer.ps = Align * q
    /\ xfer.rem = 0 => xfer.size <= xfer.ps

\* The burst the ioctl waits for is the last one of the transfer so far.
BurstFits ==
    /\ dma # NoBurst => /\ dma.dir # "none"
                        /\ dma.events \in {Events(dma.dir), Tail(Events(dma.dir))}
    /\ kPc = "wait" /\ dma # NoBurst =>
          /\ dma.dir = xfer.dir /\ dma.area = xfer.area /\ dma.chan = xfer.chan
          /\ dma.ps + dma.beats * Align = xfer.ps
    /\ BurstsStayInside
    /\ dma.ps = dma.pl

Inv == TypeOK /\ CallerFollows /\ DeviceFollows /\ CompletionOwned /\ XferFits /\ BurstFits

-----------------------------------------------------------------------------
(* What the memories hold.                                                 *)

\* Byte i of the transfer's area has arrived.
Arrived(i) == IF xfer.dir = "toPL"
              THEN plMem[xfer.area][i] = psMem[xfer.chan][xfer.area][i]
              ELSE psMem[xfer.chan][xfer.area][i] = plMem[xfer.area][i]

\* What has been handed to the device is there, but for the burst under way.
BytesArrive ==
    Transferring /\ Without({"stall"}) =>
        \A i \in Offset : i < xfer.ps => Arrived(i) \/ (dma # NoBurst /\ dma.ps <= i)

\* The transfer that is over when the caller makes its next call
Transfers ==
    /\ Transferring =>
         /\ uPc \in {"write", "config", "entropy", "next"}
         /\ uPc = "write" => xfer.dir = "toPL" /\ xfer.area = "weights" /\ chan = 1
                             /\ xfer.chan = chan /\ xfer.size = WeightSize
         /\ uPc = "config" => xfer.dir = "toPL" /\ xfer.area = "picture"
                              /\ xfer.chan = chan /\ xfer.size = PictureSize(chan)
         /\ uPc = "entropy" => xfer.dir = "toPS" /\ xfer.area = "trans"
                               /\ xfer.chan = chan /\ xfer.size = reg.trans
         /\ uPc = "next" => xfer.dir = "toPS" /\ xfer.area = "entropy"
                            /\ xfer.chan = chan /\ xfer.size = reg.entropy

\* The inputs stay in PS memory.
InputsKept ==
    /\ \A k \in Channel : \A i \in 0..(PictureSize(k) - 1) : psMem[k]["picture"][i] = k
    /\ \A i \in 0..(WeightSize - 1) : psMem[1]["weights"][i] = Weight

WeightsMoved == \A i \in 0..(WeightSize - 1) : plMem["weights"][i] = Weight

\* The weights are in PL memory once they have been written, and their address is the
\* one that was configured: for the first channel in any case.
WeightsKept ==
    /\ uPc = "init" => chan = 1
    /\ Without({"stall", "nofile"}) /\ kPc # "stray" =>
          (uPc = "init" \/ (uPc = "write" /\ Transferring) \/ WeightsMoved)
    /\ uPc # "init" /\ Without({"stack"}) => reg.weight = "weights"
    /\ uPc \in {"write", "config"} /\ chan = 1 => reg.weight = "weights"
    /\ uPc \in {"start", "get", "trans"} /\ (chan = 1 \/ Without({"stack"})) =>
          acc.weight = "weights"

PictureMoved == \A i \in 0..(PictureSize(chan) - 1) : plMem["picture"][i] = chan

Computed(area, n) == \A i \in 0..(n - 1) : plMem[area][i] = chan

Read(k, area, n) == \A i \in 0..(n - 1) : psMem[k][area][i] = k

\* Nothing has happened that spoils the results of channel k.
Sound(k) == Without({"stall", "hang", "nofile"}) /\ (k = 1 \/ Without({"stack"}))

\* The data of one channel, from call to call
ChannelFollows ==
    Sound(chan) /\ kPc # "stray" =>
        LET n == PictureSize(chan) IN
        /\ uPc = "config" /\ kPc = "idle" => PictureMoved
        /\ uPc \in {"start", "get", "trans"} => PictureMoved /\ acc.picture = n
        /\ (uPc \in {"get", "trans"} /\ ~acc.running) \/ uPc \in {"entropy", "next"} =>
              Computed("trans", n) /\ Computed("entropy", Ratio * n)
        /\ uPc \in {"get", "trans"} /\ ~acc.running => acc.trans = n /\ acc.entropy = Ratio * n
        /\ uPc \in {"entropy", "next"} \/ (uPc = "trans" /\ kPc = "idle") =>
              reg.trans = n /\ reg.entropy = Ratio * n
        /\ (uPc = "entropy" /\ kPc = "idle") \/ uPc = "next" => Read(chan, "trans", n)
        /\ uPc = "next" /\ kPc = "idle" => Read(chan, "entropy", Ratio * n)

\* The channels that are done
ChannelsKept ==
    \A k \in Channel :
        Sound(k) /\ (k < chan \/ uPc \in {"code", "done"}) =>
            Read(k, "trans", PictureSize(k)) /\ Read(k, "entropy", Ratio * PictureSize(k))

DataInv ==
    OnTime =>
        /\ BytesArrive
        /\ Transfers
        /\ InputsKept
        /\ WeightsKept
        /\ ChannelFollows
        /\ ChannelsKept

-----------------------------------------------------------------------------
(* Whole beats.                                                            *)

\* The number of bytes rounded up is the only multiple of a beat in its reach.
LEMMA AlignUpIs ==
    ASSUME NEW n \in Nat, NEW q \in Nat, n <= Align * q, Align * q < n + Align
    PROVE  AlignUp(n) = Align * q
<1> DEFINE m == n \div Align
           r == n % Align
<1>1. n = Align * m + r /\ m \in Nat /\ r \in 0..(Align - 1) /\ Align \in Nat \ {0}
    BY DivMod, AxiAssumption
<1>2. AlignUp(n) = IF r # 0 THEN n + (Align - r) ELSE n
    BY DEF AlignUp
<1> HIDE DEF m, r
<1>3. CASE r = 0
    <2>1. m = q
        BY <1>1, <1>3, SameMultiple
    <2> QED
        BY <1>1, <1>2, <1>3, <2>1
<1>4. CASE r # 0
    <2> DEFINE k == m + 1
    <2>1. Align * k = Align * m + Align /\ k \in Nat
        BY <1>1
    <2> HIDE DEF k
    <2>2. Align * k < Align * q + Align /\ Align * q < Align * k + Align
        BY <1>1, <1>4, <2>1
    <2>3. k = q
        BY <1>1, <2>1, <2>2, SameMultiple
    <2> QED
        BY <1>1, <1>2, <1>4, <2>1, <2>3
<1> QED
    BY <1>3, <1>4

\* Rounding up gives whole beats, and less than one more.
LEMMA AlignUpHas ==
    ASSUME NEW n \in Nat
    PROVE  /\ AlignUp(n) \in Nat /\ n <= AlignUp(n) /\ AlignUp(n) < n + Align
           /\ \E q \in Nat : AlignUp(n) = Align * q
<1> DEFINE m == n \div Align
           r == n % Align
<1>1. n = Align * m + r /\ m \in Nat /\ r \in 0..(Align - 1) /\ Align \in Nat \ {0}
    BY DivMod, AxiAssumption
<1>2. AlignUp(n) = IF r # 0 THEN n + (Align - r) ELSE n
    BY DEF AlignUp
<1> HIDE DEF m, r
<1>3. CASE r = 0
    BY <1>1, <1>2, <1>3
<1>4. CASE r # 0
    <2> DEFINE k == m + 1
    <2>1. Align * k = Align * m + Align /\ k \in Nat
        BY <1>1
    <2> HIDE DEF k
    <2>2. AlignUp(n) = Align * k
        BY <1>1, <1>2, <1>4, <2>1
    <2> QED
        BY <1>1, <1>2, <1>4, <2>1, <2>2
<1> QED
    BY <1>3, <1>4

\* Whole beats in front do not matter to the rounding.
LEMMA AlignUpSum ==
    ASSUME NEW n \in Nat, NEW q \in Nat
    PROVE  AlignUp(Align * q + n) = Align * q + AlignUp(n)
<1>1. PICK p \in Nat : AlignUp(n) = Align * p
    BY AlignUpHas
<1>2. n <= AlignUp(n) /\ AlignUp(n) < n + Align /\ Align \in Nat
    BY AlignUpHas, AxiAssumption
<1>3. Align * (q + p) = Align * q + Align * p /\ Align * q \in Nat /\ q + p \in Nat
    BY <1>2
<1>4. Align * q + n <= Align * (q + p) /\ Align * (q + p) < Align * q + n + Align
    BY <1>1, <1>2, <1>3
<1> QED
    BY <1>1, <1>2, <1>3, <1>4, AlignUpIs

\* The last burst has at least one beat and no more than a full one.
LEMMA LastBurstFits ==
    ASSUME NEW n \in Nat \ {0}, n < Align * BurstSize
    PROVE  /\ AlignUp(n) \div Align \in 1..BurstSize
           /\ (AlignUp(n) \div Align) * Align = AlignUp(n)
<1>1. PICK q \in Nat : AlignUp(n) = Align * q
    BY AlignUpHas
<1>2. n <= AlignUp(n) /\ AlignUp(n) < n + Align /\ Align \in Nat \ {0} /\ BurstSize \in Nat
    BY AlignUpHas, AxiAssumption
<1>3. AlignUp(n) \div Align = q
    BY <1>1, <1>2, DivMultiple
<1>4. q # 0
    BY <1>1, <1>2
<1>5. q <= BurstSize
    <2>1. SUFFICES ASSUME q >= BurstSize + 1 PROVE FALSE
        BY <1>2
    <2>2. Align * q >= Align * (BurstSize + 1)
        BY <1>2, <2>1
    <2>3. Align * (BurstSize + 1) = Align * BurstSize + Align
        BY <1>2
    <2>4. Align * BurstSize \in Nat /\ Align * q \in Nat
        BY <1>2
    <2> QED
        BY <1>1, <1>2, <2>2, <2>3, <2>4
<1> QED
    BY <1>1, <1>2, <1>3, <1>4, <1>5

\* The interrupts of the two ends of a burst
LEMMA EventsFacts ==
    ASSUME NEW dir \in {"toPL", "toPS"}
    PROVE  /\ Events(dir) \in Seq(CompletingBothEnds) /\ Len(Events(dir)) = 2
           /\ Head(Events(dir)) \in CompletingBothEnds \ Completing
           /\ Tail(Events(dir)) \in Seq(CompletingBothEnds) /\ Len(Tail(Events(dir))) = 1
           /\ Head(Tail(Events(dir))) \in CompletingBothEnds
<1>1. CASE dir = "toPL"
    BY <1>1 DEF Events, CompletingBothEnds, Completing
<1>2. CASE dir = "toPS"
    BY <1>2 DEF Events, CompletingBothEnds, Completing
<1> QED
    BY <1>1, <1>2

-----------------------------------------------------------------------------
(* Types.                                                                  *)

\* A copy of bytes within a memory is a memory, if both places are the same.
LEMMA CopiedType ==
    ASSUME NEW old \in Memory, NEW new \in Memory, NEW to \in Nat, NEW n \in Nat
    PROVE  /\ Copied(old, to, new, to, n) \in Memory
           /\ \A i \in Offset : Copied(old, to, new, to, n)[i] =
                                   IF i >= to /\ i < to + n THEN new[i] ELSE old[i]
<1>1. \A i \in Offset : i \in Int /\ i - to + to = i
    BY AxiAssumption DEF Offset
<1> QED
    BY <1>1 DEF Copied, Memory

\* The accelerator writes a tag.
LEMMA WrittenType ==
    ASSUME NEW old \in Memory, NEW n, NEW tag \in 0..Weight
    PROVE  Written(old, n, tag) \in Memory
BY DEF Written, Memory

\* The tag is one of the channels, the one of the weights, or none.
LEMMA ResultType ==
    ASSUME plMem \in [Area -> Memory], NEW n
    PROVE  ResultOf(n) \in 0..Weight
<1>1. 0 \in Offset
    BY AxiAssumption DEF Offset
<1>2. plMem["picture"][0] \in 0..Weight
    BY <1>1 DEF Area, Memory
<1> QED
    BY <1>2 DEF ResultOf, Weight

\* A fault is one that can happen.
LEMMA HwFaultFacts ==
    ASSUME NEW kind, hwFaults \subseteq HwFaults, HwFault(kind)
    PROVE  hwFaults' \subseteq HwFaults /\ hwFaults \subseteq hwFaults' /\ kind \in hwFaults'
BY DEF HwFault, Faulty

\* Raising an interrupt
LEMMA RaiseFacts ==
    ASSUME NEW event, hwFaults \subseteq HwFaults, Raise(event)
    PROVE  irqReg' = event /\ hwFaults' \subseteq HwFaults /\ hwFaults \subseteq hwFaults'
BY HwFaultFacts DEF Raise

\* The fields of the records the type invariant speaks of
LEMMA TypeFacts ==
    ASSUME TypeOK
    PROVE  /\ xfer.dir \in {"none", "toPL", "toPS"} /\ xfer.area \in Area /\ xfer.chan \in Channel
           /\ xfer.size \in Nat /\ xfer.rem \in Nat /\ xfer.beats \in Nat /\ xfer.data \in Nat
           /\ xfer.ps \in Nat /\ xfer.pl \in Nat
           /\ dma.dir \in {"none", "toPL", "toPS"} /\ dma.area \in Area /\ dma.chan \in Channel
           /\ dma.ps \in Nat /\ dma.pl \in Nat /\ dma.beats \in Nat
           /\ dma.events \in Seq(CompletingBothEnds)
           /\ acc.running \in BOOLEAN /\ acc.weight \in {"weights", "other"}
           /\ acc.picture \in Nat /\ acc.trans \in Nat /\ acc.entropy \in Nat
           /\ reg.weight \in {"weights", "other"} /\ reg.trans \in Nat /\ reg.entropy \in Nat
           /\ uLen \in Nat /\ \A k \in Channel : PictureSize(k) \in Nat
           /\ Align \in Nat \ {0} /\ BurstSize \in Nat \ {0} /\ Ratio \in Nat \ {0}
           /\ WeightSize \in Nat \ {0}
<1>1. uLen \in Nat
    BY EncoderAssumption DEF TypeOK
<1>2. \A k \in Channel : PictureSize(k) \in Nat
    BY <1>1 DEF PictureSize
<1> QED
    BY <1>1, <1>2, AxiAssumption DEF TypeOK, Transfer, Burst, Accelerator, Registers

\* The buffers before the first call
LEMMA InitInv == Init => Inv
<1> SUFFICES ASSUME Init PROVE Inv
    OBVIOUS
<1>1. TypeOK
    <2>1. psMem \in [Channel -> [Area -> Memory]]
        <3>1. \A k \in Channel, a \in Area, i \in Offset :
                  (CASE a = "picture" /\ i < PictureSize(k) -> k
                     [] a = "weights" /\ i < WeightSize -> Weight
                     [] OTHER -> 0) \in 0..Weight
            BY DEF Channel, Weight
        <3> QED
            BY <3>1 DEF Init, Memory
    <2>2. plMem \in [Area -> Memory]
        BY DEF Init, AxiInit, Memory, Weight
    <2>3. xfer = NoTransfer /\ dma = NoBurst /\ <<>> \in Seq(CompletingBothEnds)
        BY DEF Init, AxiInit
    <2>4. gmm \in [Channel -> Seq({Unset} \cup Nat)] /\ lens \in [Channel -> [trans : Nat, entropy : Nat]]
        BY DEF Init
    <2>5. xfer \in Transfer /\ dma \in Burst
        BY <2>3 DEF NoTransfer, NoBurst, Area, Channel, Transfer, Burst
    <2>6. acc \in Accelerator /\ reg \in Registers
        BY DEF Init, AxiInit, Accelerator, Registers
    <2>7. chan \in Channel
        BY DEF Init, Channel
    <2> QED
        BY <2>1, <2>2, <2>4, <2>5, <2>6, <2>7 DEF Init, AxiInit, TypeOK
<1>2. CallerFollows /\ CompletionOwned
    BY DEF Init, AxiInit, CallerFollows, CompletionOwned
<1>3. DeviceFollows
    BY DEF Init, AxiInit, DeviceFollows, Pending, Completing
<1>4. XferFits
    BY DEF Init, AxiInit, XferFits, Transferring, NoTransfer
<1>5. BurstFits
    BY DEF Init, AxiInit, BurstFits, BurstsStayInside, NoBurst
<1> QED
    BY <1>1, <1>2, <1>3, <1>4, <1>5 DEF Inv

\* A transfer is prepared.
LEMMA BeginFacts ==
    ASSUME Inv, NEW dir \in {"toPL", "toPS"}, NEW area \in Area, NEW k \in Channel, NEW size \in Nat,
           BeginTransfer(dir, area, k, size)
    PROVE  /\ kPc = "idle" /\ kPc' = "burst"
           /\ xfer'.dir = dir /\ xfer'.area = area /\ xfer'.chan = k /\ xfer'.size = size
           /\ xfer'.ps = 0
           /\ xfer' \in Transfer
           /\ XferFits'
<1>1. Align \in Nat /\ BurstSize \in Nat /\ Align * BurstSize \in Nat
    BY AxiAssumption
<1>2. xfer' = [dir |-> dir, area |-> area, chan |-> k, size |-> size, rem |-> size,
               beats |-> BurstSize, data |-> Align * BurstSize, ps |-> 0, pl |-> 0]
    BY DEF BeginTransfer
<1>3. 0 = Align * 0 /\ 0 \in 0..0
    BY <1>1
<1> QED
    BY <1>1, <1>2, <1>3 DEF BeginTransfer, XferFits, Transferring, Transfer

\* Nothing happens, or only Finished.
LEMMA StutterInv ==
    ASSUME Inv, UNCHANGED vars
    PROVE  Inv'
<1>1. TypeOK'
    <2>1. UNCHANGED <<kPc, xfer, comp, signalled, irqReg, inIrq, dma, acc, reg, plMem, psMem,
                      hwFaults, uPc, chan, uLen, lens, gmm>>
        BY DEF vars, axiVars, callerVars
    <2> QED
        BY <2>1 DEF Inv, TypeOK
<1>2. CallerFollows' /\ DeviceFollows' /\ CompletionOwned'
    BY DEF Inv, vars, axiVars, callerVars, CallerFollows, DeviceFollows, CompletionOwned,
           Quiet, Pending, OnTime, Without
<1>3. XferFits' /\ BurstFits'
    BY DEF Inv, vars, axiVars, callerVars, XferFits, BurstFits, Transferring, BurstsStayInside
<1> QED
    BY <1>1, <1>2, <1>3 DEF Inv

-----------------------------------------------------------------------------
(* The steps of the caller.                                                *)

\* The pieces of the invariant that only speak of where the caller and the ioctl are
LEMMA CallStarts ==
    ASSUME Inv, uPc \in {"init", "write", "trans", "entropy"},
           UNCHANGED <<deviceRest, chan, uLen, lens, gmm>>,
           reg' \in Registers, hwFaults \subseteq hwFaults', hwFaults' \subseteq HwFaults,
           \/ /\ kPc = "idle" /\ kPc' = "burst" /\ uPc' \in {"write", "config", "entropy", "next"}
              /\ xfer' \in Transfer /\ XferFits'
           \/ UNCHANGED <<kPc, xfer>> /\ kPc = "idle" /\ uPc' = "exit"
           \/ UNCHANGED <<kPc, xfer>> /\ uPc = "init" /\ uPc' = "write"
    PROVE  Inv'
<1>1. /\ UNCHANGED <<comp, signalled, irqReg, inIrq, dma, acc, plMem, psMem>>
      /\ OnTime' => OnTime
      /\ OnTime => dma = NoBurst /\ ~acc.running /\ ~Pending /\ kPc = "idle"
      /\ kPc \in {"idle", "stray"}
    BY DEF Inv, CallerFollows, DeviceFollows, deviceRest, OnTime, Without
<1>2. TypeOK'
    BY <1>1 DEF Inv, TypeOK
<1>3. CallerFollows'
    BY <1>1 DEF CallerFollows
<1>4. DeviceFollows'
    BY <1>1 DEF DeviceFollows, Pending, Quiet
<1>5. CompletionOwned'
    BY <1>1 DEF Inv, CompletionOwned, Without
<1>6. XferFits'
    BY DEF Inv, XferFits, Transferring
<1>7. BurstFits'
    BY <1>1 DEF Inv, BurstFits, BurstsStayInside
<1> QED
    BY <1>2, <1>3, <1>4, <1>5, <1>6, <1>7 DEF Inv

\* pl_write and pl_read, whether or not they get to their ioctl
LEMMA CallInv ==
    ASSUME Inv, PlInit \/ Write \/ ReadTrans \/ ReadEntropy
    PROVE  Inv'
<1>1. /\ hwFaults \subseteq HwFaults /\ chan \in Channel /\ reg \in Registers
      /\ reg.trans \in Nat /\ reg.entropy \in Nat /\ PictureSize(chan) \in Nat
      /\ WeightSize \in Nat
    BY TypeFacts DEF Inv, TypeOK
<1>2. {"weights", "picture", "trans", "entropy"} \subseteq Area
    BY DEF Area
<1>3. CASE PlInit
    <2>1. reg' \in Registers
        BY <1>1, <1>3 DEF PlInit, Registers
    <2>2. CASE BeginTransfer("toPL", "weights", chan, WeightSize) /\ UNCHANGED hwFaults
        <3>1. kPc = "idle" /\ kPc' = "burst" /\ xfer' \in Transfer /\ XferFits'
            BY <1>1, <1>2, <2>2, BeginFacts
        <3> QED
            BY <1>1, <1>3, <2>1, <2>2, <3>1, CallStarts DEF PlInit
    <2>3. CASE HwFault("nofile") /\ UNCHANGED <<kPc, xfer>>
        <3> QED
            BY <1>1, <1>3, <2>1, <2>3, CallStarts, HwFaultFacts DEF PlInit
    <2> QED
        BY <1>3, <2>2, <2>3 DEF PlInit
<1>4. ASSUME NEW dir \in {"toPL", "toPS"}, NEW area \in Area, NEW size \in Nat,
             NEW next \in {"config", "entropy", "next"}, PlIo(dir, area, size, next),
             uPc \in {"write", "trans", "entropy"},
             UNCHANGED <<deviceRest, reg, chan, uLen, lens, gmm>>
      PROVE  Inv'
    <2>1. BeginTransfer(dir, area, chan, size) /\ uPc' = next /\ UNCHANGED hwFaults
        BY <1>4 DEF PlIo
    <2>2. kPc = "idle" /\ kPc' = "burst" /\ xfer' \in Transfer /\ XferFits'
        BY <1>1, <2>1, BeginFacts
    <2> QED
        BY <1>1, <1>4, <2>1, <2>2, CallStarts
<1>5. ASSUME NEW size, NoMemory(size), uPc \in {"write", "trans", "entropy"},
             UNCHANGED <<deviceRest, reg, chan, uLen, lens, gmm>>
      PROVE  Inv'
    <2>1. kPc = "idle" /\ UNCHANGED <<kPc, xfer>> /\ uPc' = "exit"
        BY <1>5 DEF NoMemory
    <2>2. hwFaults \subseteq hwFaults' /\ hwFaults' \subseteq HwFaults
        BY <1>1, <1>5, HwFaultFacts DEF NoMemory
    <2> QED
        BY <1>1, <1>5, <2>1, <2>2, CallStarts
<1>6. CASE Write
    BY <1>1, <1>2, <1>4, <1>5, <1>6 DEF Write, PlWrite
<1>7. CASE ReadTrans
    BY <1>1, <1>2, <1>4, <1>5, <1>7 DEF ReadTrans, PlRead
<1>8. CASE ReadEntropy
    BY <1>1, <1>2, <1>4, <1>5, <1>8 DEF ReadEntropy, PlRead
<1> QED
    BY <1>3, <1>6, <1>7, <1>8

\* The ioctls of the accelerator that only write registers or begin to wait
LEMMA AcceleratorCallInv ==
    ASSUME Inv, Config \/ Start \/ Get
    PROVE  Inv'
<1>1. /\ kPc = "idle" /\ Align \in Nat
      /\ OnTime => dma = NoBurst
      /\ acc.running \in BOOLEAN
      /\ UNCHANGED <<xfer, irqReg, inIrq, dma, reg, plMem, psMem, hwFaults, chan, uLen, lens, gmm>>
    BY TypeFacts DEF Config, AccConfig, Start, AccStart, Get, AccGet, Inv, DeviceFollows
<1>2. TypeOK'
    <2>1. acc' \in Accelerator
        <3>1. PictureSize(chan) \in Nat /\ reg.weight \in {"weights", "other"}
            BY TypeFacts DEF Inv, TypeOK
        <3> QED
            BY <3>1 DEF Config, AccConfig, Start, AccStart, Get, AccGet, Inv, TypeOK, Accelerator
    <2>2. /\ kPc' \in {"idle", "get"} /\ comp' \in {comp, "own"} /\ signalled' \in BOOLEAN
          /\ uPc' \in {"start", "get", "trans"}
        BY DEF Config, AccConfig, Start, AccStart, Get, AccGet, Inv, TypeOK
    <2> QED
        BY <1>1, <2>1, <2>2 DEF Inv, TypeOK
<1>3. XferFits' /\ BurstFits'
    <2>1. ~Transferring'
        BY DEF Config, AccConfig, Start, AccStart, Get, AccGet, Transferring
    <2> QED
        BY <1>1, <2>1 DEF Inv, XferFits, BurstFits, BurstsStayInside, Transferring
<1>4. CASE Config
    <2>1. /\ uPc = "config" /\ uPc' = "start" /\ UNCHANGED <<kPc, comp, signalled>>
          /\ acc' = [acc EXCEPT !.weight = reg.weight, !.picture = PictureSize(chan)]
        BY <1>4 DEF Config, AccConfig
    <2>2. acc'.running = acc.running
        BY <2>1 DEF Inv, TypeOK, Accelerator
    <2> QED
        BY <1>1, <1>2, <1>3, <2>1, <2>2
           DEF Inv, CallerFollows, DeviceFollows, CompletionOwned, Pending, Quiet, OnTime, Without
<1>5. CASE Start
    <2>1. /\ uPc = "start" /\ uPc' = "get" /\ UNCHANGED <<kPc, comp, signalled>>
          /\ OnTime => ~Pending
        BY <1>1, <1>5 DEF Start, AccStart, Inv, DeviceFollows
    <2> QED
        BY <1>1, <1>2, <1>3, <2>1
           DEF Inv, CallerFollows, DeviceFollows, CompletionOwned, Pending, OnTime, Without
<1>6. CASE Get
    <2>1. /\ uPc = "get" /\ uPc' = "trans" /\ kPc' = "get" /\ comp' = "own" /\ signalled' = FALSE
          /\ UNCHANGED acc
        BY <1>6 DEF Get, AccGet
    <2> QED
        BY <1>1, <1>2, <1>3, <2>1
           DEF Inv, CallerFollows, DeviceFollows, CompletionOwned, Pending, Quiet, OnTime, Without
<1> QED
    BY <1>4, <1>5, <1>6

\* EntropyToGmm makes a sequence.
LEMMA GmmType ==
    ASSUME NEW n \in Nat
    PROVE  EntropyToGmm(n) \in Seq({Unset} \cup Nat)
<1>1. EntropyToGmm(n) \in [1..n -> {Unset} \cup Nat]
    BY DEF EntropyToGmm
<1> QED
    BY <1>1, SeqDef

\* The end of a channel, and of all
LEMMA ChannelEndInv ==
    ASSUME Inv, NextChannel \/ Code
    PROVE  Inv'
<1>1. /\ UNCHANGED <<axiVars, uLen>>
      /\ uPc \in {"next", "code"} /\ uPc' \in {"write", "code", "done", "exit"}
      /\ uPc = "next" => kPc = "idle"
      /\ kPc \in {"idle", "stray"}
    BY DEF NextChannel, Code, Inv, CallerFollows
<1>2. UNCHANGED <<kPc, xfer, comp, signalled, irqReg, inIrq, dma, acc, reg, plMem, psMem, hwFaults>>
    BY <1>1 DEF axiVars
<1>3. TypeOK'
    <2>1. chan' \in Channel
        BY DEF NextChannel, Code, Inv, TypeOK, Channel
    <2>2. lens' \in [Channel -> [trans : Nat, entropy : Nat]]
        <3>1. reg.trans \div 2 \in Nat /\ reg.entropy \div 2 \in Nat
            <4>1. \A n \in Nat : n \div 2 \in Nat
                OBVIOUS
            <4> QED
                BY <4>1, TypeFacts DEF Inv
        <3>2. CASE lens' = lens
            BY <3>2 DEF Inv, TypeOK
        <3>3. CASE lens' = [lens EXCEPT ![chan] = [trans |-> reg.trans \div 2,
                                                entropy |-> reg.entropy \div 2]]
            <4>1. [trans |-> reg.trans \div 2, entropy |-> reg.entropy \div 2]
                      \in [trans : Nat, entropy : Nat]
                BY <3>1
            <4> QED
                BY <3>3, <4>1 DEF Inv, TypeOK
        <3> QED
            BY <3>2, <3>3 DEF NextChannel, Code
    <2>3. gmm' \in [Channel -> Seq({Unset} \cup Nat)]
        <3>1. \A k \in Channel : GmmLen(k) \in Nat
            <4> SUFFICES ASSUME NEW k \in Channel PROVE GmmLen(k) \in Nat
                OBVIOUS
            <4>1. lens[k].entropy \in Nat /\ Ratio \in Nat \ {0}
                <5>1. lens[k] \in [trans : Nat, entropy : Nat]
                    BY DEF Inv, TypeOK
                <5> QED
                    BY <5>1, AxiAssumption
            <4>2. \A e \in Nat, d \in Nat \ {0} : e \div d \in Nat
                BY DivMod
            <4> QED
                BY <4>1, <4>2 DEF GmmLen
        <3>2. \A k \in Channel : EntropyToGmm(GmmLen(k)) \in Seq({Unset} \cup Nat)
            BY <3>1, GmmType
        <3>3. CASE gmm' = gmm
            BY <3>3 DEF Inv, TypeOK
        <3>4. CASE gmm' = [k \in Channel |-> EntropyToGmm(GmmLen(k))]
            BY <3>2, <3>4
        <3> QED
            BY <3>3, <3>4 DEF NextChannel, Code
    <2> QED
        BY <1>1, <1>2, <2>1, <2>2, <2>3 DEF Inv, TypeOK
<1>4. CallerFollows'
    BY <1>1, <1>2 DEF CallerFollows
<1>5. DeviceFollows' /\ CompletionOwned'
    BY <1>1, <1>2 DEF Inv, DeviceFollows, CompletionOwned, Pending, Quiet, OnTime, Without
<1>6. XferFits' /\ BurstFits'
    BY <1>1, <1>2 DEF Inv, XferFits, BurstFits, BurstsStayInside, Transferring
<1> QED
    BY <1>3, <1>4, <1>5, <1>6 DEF Inv

-----------------------------------------------------------------------------
(* The steps of the driver.                                                *)

\* The sizes of a burst and what is left after it
LEMMA BurstSizes ==
    ASSUME Inv, StartBurst
    PROVE  \E n \in Nat \ {0}, beats \in 1..BurstSize, rem \in Nat :
              /\ xfer' = [xfer EXCEPT !.ps = xfer.ps + n, !.pl = xfer.pl + n, !.data = n,
                                      !.rem = rem, !.beats = beats]
              /\ dma' = BurstRegisters(beats)
              /\ beats * Align = n
              /\ xfer.ps + n <= AlignUp(xfer.size)
              /\ rem > 0 => /\ n = Align * BurstSize /\ beats = BurstSize
                            /\ xfer.ps + n + rem = xfer.size
                            /\ \E q \in 0..(xfer.ps + n) : xfer.ps + n = Align * q
              /\ rem = 0 => xfer.size <= xfer.ps + n
<1>1. /\ Align \in Nat \ {0} /\ BurstSize \in Nat \ {0}
      /\ xfer.rem \in Nat \ {0} /\ xfer.ps \in Nat /\ xfer.size \in Nat /\ xfer \in Transfer
    BY TypeFacts, SMTT(30) DEF StartBurst, Inv, TypeOK
<1>2. /\ xfer.data = Align * BurstSize /\ xfer.beats = BurstSize
      /\ xfer.ps + xfer.rem = xfer.size
    BY <1>1 DEF Inv, XferFits
<1>3. PICK q \in Nat : xfer.ps = Align * q
    BY <1>1 DEF Inv, XferFits
<1> DEFINE full == Align * BurstSize
<1>4. full \in Nat \ {0} /\ BurstSize * Align = full
    BY <1>1
<1>5. CASE LastBurst
    <2> DEFINE n == AlignUp(xfer.rem)
               beats == n \div Align
    <2>1. n \in Nat \ {0} /\ xfer.rem <= n
        <3>1. n \in Nat /\ xfer.rem <= n
            BY <1>1, AlignUpHas
        <3> HIDE DEF n
        <3> QED
            BY <1>1, <3>1
    <2>2. beats \in 1..BurstSize /\ beats * Align = n
        BY <1>1, <1>2, <1>5, LastBurstFits DEF LastBurst
    <2>3. AlignUp(xfer.size) = xfer.ps + n
        <3>1. AlignUp(Align * q + xfer.rem) = Align * q + AlignUp(xfer.rem)
            BY <1>1, AlignUpSum
        <3> QED
            BY <1>2, <1>3, <3>1
    <2>4. xfer' = [xfer EXCEPT !.ps = xfer.ps + n, !.pl = xfer.pl + n, !.data = n,
                               !.rem = n - n, !.beats = beats]
        BY <1>1, <1>5 DEF StartBurst, Advance, Transfer
    <2>5. dma' = BurstRegisters(beats)
        BY <1>5 DEF StartBurst
    <2> HIDE DEF n, beats
    <2>6. n - n = 0 /\ xfer.size <= xfer.ps + n /\ xfer.ps + n <= AlignUp(xfer.size)
        BY <1>1, <1>2, <2>1, <2>3
    <2>7. xfer' = [xfer EXCEPT !.ps = xfer.ps + n, !.pl = xfer.pl + n, !.data = n,
                               !.rem = 0, !.beats = beats]
        BY <2>4, <2>6
    <2>8. ~(0 > 0) /\ 0 \in Nat
        OBVIOUS
    <2> QED
        BY <2>1, <2>2, <2>5, <2>6, <2>7, <2>8
<1>6. CASE ~LastBurst
    <2> DEFINE rem == xfer.rem - full
               p == q + BurstSize
    <2>1. rem \in Nat /\ p \in Nat
        BY <1>1, <1>2, <1>4, <1>6 DEF LastBurst
    <2>2. xfer' = [xfer EXCEPT !.ps = xfer.ps + full, !.pl = xfer.pl + full, !.data = full,
                               !.rem = rem, !.beats = BurstSize]
        BY <1>1, <1>2, <1>6 DEF StartBurst, Advance, Transfer
    <2>3. dma' = BurstRegisters(BurstSize)
        BY <1>2, <1>6 DEF StartBurst
    <2>4. xfer.ps + full + rem = xfer.size
        BY <1>1, <1>2, <1>4
    <2>5. xfer.size <= AlignUp(xfer.size)
        BY <1>1, AlignUpHas
    <2>6. AlignUp(xfer.size) \in Nat
        BY <1>1, AlignUpHas
    <2>7. xfer.ps + full = Align * p
        BY <1>1, <1>3
    <2> HIDE DEF p
    <2>8. p \in 0..(xfer.ps + full)
        <3>1. Align * p >= p
            BY <1>1, <2>1
        <3> QED
            BY <2>1, <2>7, <3>1
    <2> HIDE DEF full, rem
    <2>9. xfer.ps + full <= AlignUp(xfer.size) /\ (rem = 0 => xfer.size <= xfer.ps + full)
        BY <1>1, <1>4, <2>1, <2>4, <2>5, <2>6
    <2>10. BurstSize \in 1..BurstSize
        BY <1>1
    <2> QED
        BY <1>1, <1>4, <2>1, <2>2, <2>3, <2>4, <2>7, <2>8, <2>9, <2>10 DEF full
<1> QED
    BY <1>5, <1>6

\* A burst is started.
LEMMA StartBurstInv ==
    ASSUME Inv, StartBurst, UNCHANGED callerVars
    PROVE  Inv'
<1>1. /\ kPc = "burst" /\ kPc' = "wait" /\ comp' = "own" /\ signalled' = FALSE
      /\ UNCHANGED <<irqReg, inIrq, acc, reg, plMem, psMem, hwFaults, uPc, chan, uLen, lens, gmm>>
    BY DEF StartBurst, callerVars
<1>2. PICK n \in Nat \ {0}, beats \in 1..BurstSize, rem \in Nat :
          /\ xfer' = [xfer EXCEPT !.ps = xfer.ps + n, !.pl = xfer.pl + n, !.data = n,
                                  !.rem = rem, !.beats = beats]
          /\ dma' = BurstRegisters(beats)
          /\ beats * Align = n
          /\ xfer.ps + n <= AlignUp(xfer.size)
          /\ rem > 0 => /\ n = Align * BurstSize /\ beats = BurstSize
                        /\ xfer.ps + n + rem = xfer.size
                        /\ \E q \in 0..(xfer.ps + n) : xfer.ps + n = Align * q
          /\ rem = 0 => xfer.size <= xfer.ps + n
    BY BurstSizes
<1>3. /\ xfer \in Transfer /\ xfer.dir \in {"toPL", "toPS"} /\ xfer.ps = xfer.pl
      /\ xfer.ps \in Nat /\ xfer.area \in Area /\ xfer.chan \in Channel
      /\ beats \in Nat \ {0} /\ BurstSize \in Nat
    BY <1>1, TypeFacts DEF Inv, TypeOK, XferFits, Transferring
<1>4. /\ xfer' \in Transfer
      /\ xfer'.dir = xfer.dir /\ xfer'.area = xfer.area /\ xfer'.chan = xfer.chan
      /\ xfer'.size = xfer.size /\ xfer'.ps = xfer.ps + n /\ xfer'.pl = xfer'.ps
      /\ xfer'.data = n /\ xfer'.rem = rem /\ xfer'.beats = beats
    <2>1. xfer' = [xfer EXCEPT !.ps = xfer.ps + n, !.pl = xfer.pl + n, !.data = n,
                               !.rem = rem, !.beats = beats]
        BY <1>2
    <2> DEFINE p == xfer.ps + n
    <2>2. xfer' = [xfer EXCEPT !.ps = p, !.pl = p, !.data = n, !.rem = rem, !.beats = beats]
        BY <1>3, <2>1
    <2>3. p \in Nat /\ beats \in Nat
        BY <1>3
    <2> HIDE DEF p
    <2>4. /\ xfer' \in Transfer
          /\ xfer'.dir = xfer.dir /\ xfer'.area = xfer.area /\ xfer'.chan = xfer.chan
          /\ xfer'.size = xfer.size /\ xfer'.ps = p /\ xfer'.pl = p
          /\ xfer'.data = n /\ xfer'.rem = rem /\ xfer'.beats = beats
        BY <1>3, <2>2, <2>3 DEF Transfer
    <2> QED
        BY <2>4 DEF p
<1>5. /\ dma' \in Burst /\ dma' # NoBurst
      /\ dma'.dir = xfer.dir /\ dma'.area = xfer.area /\ dma'.chan = xfer.chan
      /\ dma'.ps = xfer.ps /\ dma'.pl = xfer.ps /\ dma'.beats = beats
      /\ dma'.events = Events(xfer.dir)
    <2>1. Events(xfer.dir) \in Seq(CompletingBothEnds)
        BY <1>3, EventsFacts
    <2> QED
        BY <1>2, <1>3, <2>1 DEF BurstRegisters, Burst, NoBurst
<1>6. TypeOK'
    BY <1>1, <1>4, <1>5 DEF Inv, TypeOK
<1>7. CallerFollows'
    BY <1>1 DEF Inv, CallerFollows
<1>8. DeviceFollows' /\ CompletionOwned'
    BY <1>1 DEF Inv, DeviceFollows, CompletionOwned, Pending, Quiet, OnTime, Without
<1>9. XferFits'
    BY <1>2, <1>3, <1>4 DEF XferFits
<1>10. BurstFits'
    BY <1>2, <1>3, <1>4, <1>5 DEF BurstFits, BurstsStayInside
<1> QED
    BY <1>6, <1>7, <1>8, <1>9, <1>10 DEF Inv

\* The faults of a step
LEMMA FaultyFacts ==
    ASSUME NEW kinds, hwFaults \subseteq HwFaults, Faulty(kinds)
    PROVE  hwFaults' \subseteq HwFaults /\ hwFaults \subseteq hwFaults' /\ kinds \subseteq hwFaults'
BY DEF Faulty

\* A wait that is long enough ends only when the device has nothing left to do.
LEMMA WaitEndsQuiet ==
    ASSUME Inv, EndWait \/ EndTransfer \/ EndGet, OnTime'
    PROVE  OnTime /\ dma = NoBurst /\ ~acc.running /\ ~Pending
<1>1. OnTime
    BY FaultyFacts DEF EndWait, EndTransfer, EndGet, OnTime, Without, Inv, TypeOK
<1>2. CASE kPc \in {"wait", "get"}
    <2>1. WaitOver \subseteq hwFaults'
        <3>1. hwFaults \subseteq HwFaults
            BY DEF Inv, TypeOK
        <3>2. CASE EndWait
            BY <3>1, <3>2, FaultyFacts DEF EndWait
        <3>3. CASE EndGet
            <4>1. PICK more : Faulty(WaitOver \cup more)
                BY <3>3 DEF EndGet
            <4>2. WaitOver \cup more \subseteq hwFaults'
                BY <3>1, <4>1, FaultyFacts
            <4> QED
                BY <4>2
        <3> QED
            BY <1>2, <3>2, <3>3 DEF EndTransfer
    <2>2. signalled \/ DeviceSilent
        BY <2>1 DEF WaitOver, OnTime, Without
    <2> QED
        BY <1>1, <1>2, <2>2 DEF DeviceSilent, Pending, Completing, Inv, DeviceFollows, Quiet
<1>3. CASE kPc = "burst"
    BY <1>1, <1>3 DEF Inv, DeviceFollows
<1> QED
    BY <1>1, <1>2, <1>3 DEF EndWait, EndTransfer, EndGet

\* A wait is over, or the ioctl.
LEMMA WaitEndsInv ==
    ASSUME Inv, EndWait \/ EndTransfer \/ EndGet, UNCHANGED callerVars
    PROVE  Inv'
<1>1. UNCHANGED <<xfer, signalled, irqReg, inIrq, dma, acc, plMem, psMem>>
    BY DEF EndWait, EndTransfer, EndGet
<1>2. OnTime' => OnTime /\ dma = NoBurst /\ ~acc.running /\ ~Pending
    BY WaitEndsQuiet
<1>3. /\ kPc \in {"wait", "burst", "get"} /\ kPc' \in {"burst", "idle"}
      /\ kPc' = "burst" => kPc = "wait"
      /\ kPc = "get" => kPc' = "idle"
      /\ comp' \in {"own", "other", "gone"}
    BY DEF EndWait, EndTransfer, EndGet, OwnGone, Inv, TypeOK
<1>4. reg' \in Registers /\ hwFaults \subseteq hwFaults' /\ hwFaults' \subseteq HwFaults
    <2>1. CASE EndWait \/ EndTransfer
        BY <2>1, FaultyFacts DEF EndWait, EndTransfer, Inv, TypeOK
    <2>2. CASE EndGet
        <3>1. PICK left \in {acc.weight, "other"} :
                  /\ reg' = Results(left)
                  /\ Faulty(WaitOver \cup IF left = acc.weight THEN {} ELSE {"stack"})
            BY <2>2 DEF EndGet
        <3>2. acc.weight \in {"weights", "other"} /\ acc.trans \in Nat /\ acc.entropy \in Nat
              /\ hwFaults \subseteq HwFaults
            BY TypeFacts DEF Inv, TypeOK
        <3> QED
            BY <3>1, <3>2, FaultyFacts DEF Results, Registers
    <2> QED
        BY <2>1, <2>2
<1>5. UNCHANGED <<uPc, chan, uLen, lens, gmm>>
    BY DEF callerVars
<1>6. TypeOK'
    BY <1>1, <1>3, <1>4, <1>5 DEF Inv, TypeOK
<1>7. CallerFollows'
    BY <1>3, <1>5 DEF Inv, CallerFollows
<1>8. DeviceFollows'
    BY <1>1, <1>2, <1>3 DEF DeviceFollows, Pending, Quiet
<1>9. CompletionOwned'
    BY <1>3, <1>4 DEF Inv, CompletionOwned, Without
<1>10. XferFits' /\ BurstFits'
    BY <1>1, <1>3 DEF Inv, XferFits, BurstFits, BurstsStayInside, Transferring, EndTransfer
<1> QED
    BY <1>6, <1>7, <1>8, <1>9, <1>10 DEF Inv

-----------------------------------------------------------------------------
(* The steps of the device and of another program.                         *)

\* An end of a burst
LEMMA DmaEventInv ==
    ASSUME Inv, DmaEvent, UNCHANGED callerVars
    PROVE  Inv'
<1>1. /\ dma # NoBurst /\ Raise(Head(dma.events))
      /\ OnTime => kPc = "wait"
      /\ UNCHANGED <<kPc, xfer, comp, signalled, inIrq, acc, reg, uPc, chan, uLen, lens, gmm>>
    BY DEF DmaEvent, Inv, DeviceFollows, callerVars
<1>2. /\ dma \in Burst /\ dma.dir \in {"toPL", "toPS"} /\ dma.area \in Area /\ dma.chan \in Channel
      /\ dma.ps \in Nat /\ dma.pl = dma.ps /\ dma.beats \in Nat /\ dma.beats * Align \in Nat
      /\ dma.events \in {Events(dma.dir), Tail(Events(dma.dir))}
    <2>1. /\ dma \in Burst /\ dma.dir \in {"none", "toPL", "toPS"} /\ dma.area \in Area
          /\ dma.chan \in Channel /\ dma.ps \in Nat /\ dma.beats \in Nat /\ Align \in Nat
        BY TypeFacts DEF Inv, TypeOK
    <2>2. \A b \in Nat : b * Align \in Nat
        BY <2>1
    <2> QED
        BY <1>1, <2>1, <2>2 DEF Inv, BurstFits
<1>3. OnTime => ~signalled /\ ~Pending /\ ~acc.running
    BY <1>1 DEF Inv, DeviceFollows, Quiet, Pending, TypeOK
<1>4. hwFaults' \subseteq HwFaults /\ hwFaults \subseteq hwFaults' /\ irqReg' = Head(dma.events)
      /\ (OnTime' => OnTime)
    BY <1>1, RaiseFacts DEF Inv, TypeOK, OnTime, Without
<1>5. CallerFollows' /\ CompletionOwned' /\ XferFits'
    BY <1>1, <1>4 DEF Inv, CallerFollows, CompletionOwned, XferFits, Transferring, Without
<1>6. CASE dma.events = Events(dma.dir)
    <2>1. /\ Len(dma.events) = 2 /\ Head(dma.events) \in CompletingBothEnds \ Completing
          /\ Tail(dma.events) \in Seq(CompletingBothEnds)
        BY <1>2, <1>6, EventsFacts
    <2>2. dma' = [dma EXCEPT !.events = Tail(dma.events)] /\ UNCHANGED <<plMem, psMem>>
        BY <2>1 DEF DmaEvent
    <2>3. /\ dma' \in Burst /\ dma'.dir = dma.dir /\ dma'.area = dma.area /\ dma'.chan = dma.chan
          /\ dma'.ps = dma.ps /\ dma'.pl = dma.pl /\ dma'.beats = dma.beats
          /\ dma'.events = Tail(dma.events) /\ dma' # NoBurst
        BY <1>2, <2>1, <2>2 DEF Burst, NoBurst
    <2>4. TypeOK'
        BY <1>1, <1>4, <2>1, <2>2, <2>3 DEF Inv, TypeOK
    <2>5. DeviceFollows'
        BY <1>1, <1>3, <1>4, <2>1 DEF DeviceFollows, Pending
    <2>6. BurstFits'
        BY <1>1, <1>2, <1>6, <2>3 DEF Inv, BurstFits, BurstsStayInside
    <2> QED
        BY <1>5, <2>4, <2>5, <2>6 DEF Inv
<1>7. CASE dma.events = Tail(Events(dma.dir))
    <2>1. Len(dma.events) = 1 /\ Head(dma.events) \in CompletingBothEnds
        BY <1>2, <1>7, EventsFacts
    <2>2. dma' = NoBurst
        <3>1. CASE dma.dir = "toPL"
            BY <2>1, <3>1 DEF DmaEvent
        <3>2. CASE dma.dir = "toPS"
            BY <2>1, <3>2 DEF DmaEvent
        <3> QED
            BY <1>2, <3>1, <3>2
    <2>3. plMem' \in [Area -> Memory] /\ psMem' \in [Channel -> [Area -> Memory]]
        <3>1. plMem[dma.area] \in Memory /\ psMem[dma.chan][dma.area] \in Memory
            BY <1>2 DEF Inv, TypeOK
        <3>2. CASE dma.dir = "toPL"
            <4> DEFINE m == Copied(plMem[dma.area], dma.ps, psMem[dma.chan][dma.area], dma.ps,
                                   dma.beats * Align)
            <4>1. m \in Memory
                BY <1>2, <3>1, CopiedType
            <4>2. plMem' = [plMem EXCEPT ![dma.area] = m] /\ UNCHANGED psMem
                BY <1>2, <2>1, <3>2 DEF DmaEvent
            <4> HIDE DEF m
            <4> QED
                BY <4>1, <4>2 DEF Inv, TypeOK
        <3>3. CASE dma.dir = "toPS"
            <4> DEFINE m == Copied(psMem[dma.chan][dma.area], dma.ps, plMem[dma.area], dma.ps,
                                   dma.beats * Align)
            <4>1. m \in Memory
                BY <1>2, <3>1, CopiedType
            <4>2. psMem' = [psMem EXCEPT ![dma.chan][dma.area] = m] /\ UNCHANGED plMem
                BY <1>2, <2>1, <3>3 DEF DmaEvent
            <4> HIDE DEF m
            <4> QED
                BY <1>2, <4>1, <4>2 DEF Inv, TypeOK
        <3> QED
            BY <1>2, <3>2, <3>3
    <2>4. NoBurst \in Burst
        BY DEF NoBurst, Burst, Area, Channel
    <2>5. TypeOK'
        BY <1>1, <1>4, <2>1, <2>2, <2>3, <2>4 DEF Inv, TypeOK
    <2>6. DeviceFollows'
        BY <1>1, <1>3, <1>4, <2>2 DEF DeviceFollows, Quiet
    <2>7. BurstFits'
        BY <2>2 DEF BurstFits, BurstsStayInside, NoBurst
    <2> QED
        BY <1>5, <2>5, <2>6, <2>7 DEF Inv
<1> QED
    BY <1>2, <1>6, <1>7

\* The accelerator finishes.
LEMMA AccDoneInv ==
    ASSUME Inv, AccDone, UNCHANGED callerVars
    PROVE  Inv'
<1>1. /\ acc.running
      /\ UNCHANGED <<kPc, xfer, comp, signalled, inIrq, dma, reg, psMem, uPc, chan, uLen, lens, gmm>>
    BY DEF AccDone, callerVars
<1>2. /\ hwFaults' \subseteq HwFaults /\ hwFaults \subseteq hwFaults'
      /\ irqReg' = "NETWORK_ACC_DONE"
      /\ OnTime' => OnTime /\ (kPc # "get" => "early" \in hwFaults')
    BY RaiseFacts, HwFaultFacts DEF AccDone, Inv, TypeOK, OnTime, Without
<1>3. acc' \in Accelerator /\ ~acc'.running
    <2>1. acc.picture \in Nat /\ Ratio * acc.picture \in Nat
        <3>1. acc.picture \in Nat
            BY TypeFacts DEF Inv
        <3>2. \A n \in Nat : Ratio * n \in Nat
            BY AxiAssumption
        <3> QED
            BY <3>1, <3>2
    <2> QED
        BY <2>1 DEF AccDone, Inv, TypeOK, Accelerator
<1>4. plMem' \in [Area -> Memory]
    <2> DEFINE n == acc.picture
               t == Written(plMem["trans"], n, ResultOf(n))
               e == Written(plMem["entropy"], Ratio * n, ResultOf(n))
    <2>1. plMem["trans"] \in Memory /\ plMem["entropy"] \in Memory
        BY DEF Inv, TypeOK, Area
    <2>2. t \in Memory /\ e \in Memory
        BY <2>1, WrittenType, ResultType DEF Inv, TypeOK
    <2>3. plMem' = [plMem EXCEPT !["trans"] = t, !["entropy"] = e]
        BY DEF AccDone
    <2> HIDE DEF t, e
    <2> QED
        BY <2>2, <2>3 DEF Inv, TypeOK
<1>5. OnTime => /\ kPc = "get" \/ (kPc = "idle" /\ uPc = "get")
                /\ dma = NoBurst /\ ~(signalled /\ kPc = "get")
    BY <1>1 DEF Inv, DeviceFollows, Quiet
<1>6. TypeOK'
    BY <1>1, <1>2, <1>3, <1>4 DEF Inv, TypeOK, CompletingBothEnds
<1>7. CallerFollows' /\ CompletionOwned' /\ XferFits' /\ BurstFits'
    BY <1>1, <1>2 DEF Inv, CallerFollows, CompletionOwned, XferFits, Transferring, BurstFits,
                      BurstsStayInside, Without
<1>8. DeviceFollows'
    BY <1>1, <1>2, <1>3, <1>5 DEF DeviceFollows, Quiet
<1> QED
    BY <1>6, <1>7, <1>8 DEF Inv

\* The interrupt handler
LEMMA HandlerInv ==
    ASSUME Inv, IrqHandler \/ CleanIrq, UNCHANGED callerVars
    PROVE  Inv'
<1>1. UNCHANGED <<xfer, comp, dma, acc, reg, plMem, psMem, hwFaults, uPc, chan, uLen, lens, gmm>>
    BY DEF IrqHandler, CleanIrq, callerVars
<1>2. /\ ~Pending' /\ inIrq' \in BOOLEAN
      /\ irqReg' \in {irqReg, "none"}
    BY DEF IrqHandler, CleanIrq, Pending, Completing
<1>3. /\ kPc' \in {kPc, "stray"} /\ signalled' \in {signalled, TRUE}
      /\ kPc' # kPc \/ signalled' # signalled => Pending
      /\ kPc' # kPc => comp = "gone"
    BY DEF IrqHandler, CleanIrq, Pending, Inv, TypeOK
<1>4. OnTime' => OnTime /\ (Pending => Quiet)
    BY <1>1 DEF Inv, DeviceFollows, OnTime, Without
<1>5. OnTime /\ kPc' # kPc => kPc \in {"wait", "get"} \/ (kPc = "idle" /\ uPc = "get")
    BY <1>3 DEF Inv, DeviceFollows, TypeOK
<1>6. TypeOK'
    <2>1. TypeOK
        BY DEF Inv
    <2>2. /\ kPc' \in {"idle", "burst", "wait", "get", "stray"} /\ signalled' \in BOOLEAN
          /\ irqReg' \in {"none"} \cup CompletingBothEnds
        BY <1>2, <1>3, <2>1 DEF TypeOK
    <2> QED
        BY <1>1, <1>2, <2>1, <2>2 DEF TypeOK
<1>7. CallerFollows'
    BY <1>1, <1>3, <1>5 DEF Inv, CallerFollows
<1>8. DeviceFollows'
    BY <1>1, <1>2, <1>3, <1>4, <1>5 DEF Inv, CallerFollows, DeviceFollows, Quiet
<1>9. CompletionOwned'
    BY <1>1, <1>3, <1>5 DEF Inv, CompletionOwned, DeviceFollows, OnTime, Without
<1>10. XferFits' /\ BurstFits'
    BY <1>1, <1>3 DEF Inv, XferFits, BurstFits, BurstsStayInside, Transferring
<1> QED
    BY <1>6, <1>7, <1>8, <1>9, <1>10 DEF Inv

\* What does not end, and another program
LEMMA FaultInv ==
    ASSUME Inv, Stall \/ Hang \/ OtherGet \/ OtherReturns, UNCHANGED callerVars
    PROVE  Inv'
<1>1. /\ UNCHANGED <<kPc, xfer, signalled, irqReg, inIrq, reg, plMem, psMem, uPc, chan, uLen, lens, gmm>>
      /\ comp' # comp => "other" \in hwFaults' \/ comp = "other"
      /\ comp' \in {"own", "other", "gone"}
    BY HwFaultFacts DEF Stall, Hang, OtherGet, OtherReturns, callerVars, Inv, TypeOK
<1>2. hwFaults' \subseteq HwFaults /\ hwFaults \subseteq hwFaults'
    BY HwFaultFacts DEF Stall, Hang, OtherGet, OtherReturns, Inv, TypeOK
<1>3. dma' \in {dma, NoBurst} /\ NoBurst \in Burst
    BY DEF Stall, Hang, OtherGet, OtherReturns, NoBurst, Burst, Area, Channel
<1>4. acc' \in Accelerator /\ (acc'.running => acc.running)
    BY DEF Stall, Hang, OtherGet, OtherReturns, Inv, TypeOK, Accelerator
<1>5. TypeOK'
    BY <1>1, <1>2, <1>3, <1>4 DEF Inv, TypeOK
<1>6. CallerFollows' /\ XferFits'
    BY <1>1 DEF Inv, CallerFollows, XferFits, Transferring
<1>7. DeviceFollows'
    BY <1>1, <1>2, <1>3, <1>4 DEF Inv, DeviceFollows, Quiet, Pending, OnTime, Without
<1>8. CompletionOwned'
    BY <1>1, <1>2 DEF Inv, CompletionOwned, Without
<1>9. BurstFits'
    BY <1>1, <1>3 DEF Inv, BurstFits, BurstsStayInside, NoBurst
<1> QED
    BY <1>5, <1>6, <1>7, <1>8, <1>9 DEF Inv

-----------------------------------------------------------------------------
(* The theorems about the driver.                                          *)

\* No step breaks the invariant.
LEMMA NextInv == Inv /\ [Next]_vars => Inv'
<1> SUFFICES ASSUME Inv, [Next]_vars
             PROVE  Inv'
    OBVIOUS
<1>1. CASE CallerStep
    BY <1>1, CallInv, AcceleratorCallInv, ChannelEndInv DEF CallerStep
<1>2. CASE DriverStep /\ UNCHANGED callerVars
    BY <1>2, StartBurstInv, WaitEndsInv DEF DriverStep
<1>3. CASE DeviceStep /\ UNCHANGED callerVars
    BY <1>3, DmaEventInv, AccDoneInv, HandlerInv DEF DeviceStep
<1>4. CASE (Stall \/ Hang \/ OtherGet \/ OtherReturns) /\ UNCHANGED callerVars
    BY <1>4, FaultInv
<1>5. CASE UNCHANGED vars
    BY <1>5, StutterInv
<1> QED
    BY <1>1, <1>2, <1>3, <1>4, <1>5 DEF Next, Finished

\* The invariant of the driver holds in every reachable state.  As long as every wait is
\* long enough, a burst is under way only while the ioctl waits for it, and an interrupt
\* that completes something is pending only when the device has nothing left to do.
THEOREM Safety == Spec => []Inv
<1>1. Init => Inv
    BY InitInv
<1>2. Inv /\ [Next]_vars => Inv'
    BY NextInv
<1> QED
    BY <1>1, <1>2, PTL DEF Spec

\* Every variable keeps its type, for all sizes of pictures, bursts and memories.
THEOREM TypeCorrect == Spec => []TypeOK
<1>1. Inv => TypeOK
    BY DEF Inv
<1> QED
    BY <1>1, Safety, PTL

\* No burst of psddr_to_plddr or plddr_to_psddr leaves the buffer rounded up to whole
\* beats, is empty or longer than a full one, whatever the sizes are.
THEOREM BurstsInside == Spec => []BurstsStayInside
<1>1. Inv => BurstsStayInside
    BY DEF Inv, BurstFits
<1> QED
    BY <1>1, Safety, PTL

\* As long as every wait is long enough and no other program waits too, the interrupt
\* handler completes a completion that is gone only if the accelerator ends between
\* NETWORK_ACC_START and NETWORK_ACC_GET: at any other moment at which nobody waits the
\* device has nothing under way that could still interrupt.
THEOREM CompletionsLive == Spec => []NoStrayCompletion
<1>1. Inv => NoStrayCompletion
    <2> SUFFICES ASSUME Inv, Without({"other", "timeout"})
                 PROVE  /\ kPc = "stray" => "early" \in hwFaults
                        /\ comp = "gone" /\ uPc # "get" /\ kPc # "stray" =>
                              Quiet /\ ~Pending
        BY DEF NoStrayCompletion, Quiet, Pending
    <2>1. OnTime
        BY DEF OnTime, Without
    <2>2. kPc = "stray" => "early" \in hwFaults
        BY DEF Inv, CompletionOwned
    <2>3. ASSUME comp = "gone", uPc # "get", kPc # "stray"
          PROVE  Quiet /\ ~Pending
        <3>1. kPc \in {"idle", "burst"}
            BY <2>3 DEF Inv, TypeOK, CompletionOwned
        <3> QED
            BY <2>1, <2>3, <3>1 DEF Inv, DeviceFollows, Quiet
    <2> QED
        BY <2>2, <2>3
<1> QED
    BY <1>1, Safety, PTL

-----------------------------------------------------------------------------
(* The data: the steps that move none.                                     *)

\* A byte of the pictures and of the results has a place in the memories.
LEMMA SizesFit ==
    ASSUME TypeOK, NEW k \in Channel
    PROVE  /\ 0..(PictureSize(k) - 1) \subseteq Offset
           /\ 0..(Ratio * PictureSize(k) - 1) \subseteq Offset
           /\ 0..(WeightSize - 1) \subseteq Offset
<1> DEFINE n == PictureSize(k)
<1>1. /\ uLen \in Nat /\ AlignUp(8 * uLen) <= MemMax /\ AlignUp(8 * uLen * Ratio) <= MemMax
      /\ Ratio \in Nat \ {0} /\ MemMax \in Nat /\ WeightSize \in 1..MemMax
    BY EncoderAssumption, AxiAssumption DEF TypeOK
<1>2. 8 * uLen \in Nat /\ 8 * uLen * Ratio \in Nat
    BY <1>1
<1>3. 8 * uLen <= MemMax /\ 8 * uLen * Ratio <= MemMax
    <2>1. /\ 8 * uLen <= AlignUp(8 * uLen) /\ AlignUp(8 * uLen) \in Nat
          /\ 8 * uLen * Ratio <= AlignUp(8 * uLen * Ratio) /\ AlignUp(8 * uLen * Ratio) \in Nat
        BY <1>2, AlignUpHas
    <2> QED
        BY <1>1, <1>2, <2>1
<1>4. n \in Nat /\ n <= 8 * uLen
    BY <1>1 DEF PictureSize
<1>5. Ratio * n <= 8 * uLen * Ratio /\ Ratio * n \in Nat
    <2>1. CASE n = 8 * uLen
        BY <1>1, <2>1
    <2>2. CASE n = 2 * uLen
        <3>1. Ratio * n = 2 * (uLen * Ratio) /\ 8 * uLen * Ratio = 8 * (uLen * Ratio)
              /\ uLen * Ratio \in Nat
            BY <1>1, <2>2
        <3> QED
            BY <3>1
    <2> QED
        BY <2>1, <2>2 DEF PictureSize
<1> HIDE DEF n
<1>6. n <= MemMax /\ Ratio * n <= MemMax
    BY <1>1, <1>2, <1>3, <1>4, <1>5
<1> QED
    BY <1>1, <1>4, <1>5, <1>6 DEF Offset, n

\* The faults only grow.
LEMMA WithoutFacts ==
    ASSUME NEW kinds, hwFaults \subseteq hwFaults', Without(kinds)'
    PROVE  Without(kinds)
BY DEF Without

\* So does what spoils the results of a channel.
LEMMA SoundFacts ==
    ASSUME NEW k, hwFaults \subseteq hwFaults', Sound(k)'
    PROVE  Sound(k)
BY DEF Sound, Without

\* A wait or a handler ends or goes astray: the data stays where it is.
LEMMA DataStays ==
    ASSUME Inv, DataInv, OnTime, OnTime',
           UNCHANGED <<xfer, dma, acc, reg, plMem, psMem, uPc, chan, uLen, lens, gmm>>,
           hwFaults \subseteq hwFaults',
           \/ kPc' \in {kPc, "stray"}
           \/ kPc = "wait" /\ kPc' = "burst"
    PROVE  DataInv'
<1>1. /\ Transferring' => Transferring
      /\ kPc' # "stray" => kPc # "stray" /\ (Transferring => Transferring') /\ (kPc' = "idle" => kPc = "idle")
    BY DEF Transferring
<1>2. (\A kinds : Without(kinds)' => Without(kinds)) /\ \A k : Sound(k)' => Sound(k)
    BY WithoutFacts, SoundFacts
<1>3. \A k : PictureSize(k)' = PictureSize(k)
    BY DEF PictureSize
<1>4. BytesArrive'
    BY <1>1, <1>2 DEF DataInv, BytesArrive, Arrived, Without
<1>5. Transfers'
    BY <1>1, <1>3 DEF DataInv, Transfers
<1>6. InputsKept'
    BY <1>3 DEF DataInv, InputsKept
<1>7. WeightsKept'
    BY <1>1, <1>2 DEF DataInv, WeightsKept, WeightsMoved, Without
<1>8. ChannelFollows'
    <2> SUFFICES ASSUME Sound(chan)', kPc' # "stray"
                 PROVE  ChannelFollows'
        BY DEF ChannelFollows
    <2>1. Sound(chan) /\ kPc # "stray" /\ (kPc' = "idle" => kPc = "idle")
        BY <1>1, <1>2
    <2> QED
        BY <1>3, <2>1 DEF DataInv, ChannelFollows, PictureMoved, Computed, Read
<1>9. ChannelsKept'
    BY <1>2, <1>3 DEF DataInv, ChannelsKept, Read, Without
<1> QED
    BY <1>4, <1>5, <1>6, <1>7, <1>8, <1>9 DEF DataInv

-----------------------------------------------------------------------------
(* The data: transfers.                                                    *)

\* The ioctl of a transfer returns: all of it has arrived.
LEMMA EndTransferData ==
    ASSUME Inv, DataInv, OnTime, OnTime', EndTransfer, UNCHANGED callerVars
    PROVE  DataInv'
<1>1. /\ kPc = "burst" /\ kPc' = "idle" /\ xfer.rem = 0
      /\ UNCHANGED <<xfer, dma, acc, reg, plMem, psMem, hwFaults, uPc, chan, uLen, lens, gmm>>
    BY DEF EndTransfer, callerVars
<1>2. dma = NoBurst /\ Transferring /\ ~Transferring' /\ xfer.size <= xfer.ps
      /\ uPc \in {"write", "config", "entropy", "next"}
    BY <1>1, WaitEndsQuiet DEF Transferring, Inv, XferFits, DataInv, Transfers
<1>3. \A k : PictureSize(k)' = PictureSize(k)
    BY <1>1 DEF PictureSize
<1>4. (\A kinds : Without(kinds)' => Without(kinds)) /\ \A k : Sound(k)' => Sound(k)
    BY <1>1, WithoutFacts, SoundFacts
<1>5. ASSUME Without({"stall"}), NEW i \in Offset, i < xfer.size
      PROVE  Arrived(i)
    <2>1. i < xfer.ps
        <3>1. i \in Int /\ xfer.size \in Nat /\ xfer.ps \in Nat
            BY TypeFacts, AxiAssumption DEF Inv, Offset
        <3> QED
            BY <1>2, <1>5, <3>1
    <2> QED
        BY <1>2, <1>5, <2>1 DEF DataInv, BytesArrive
<1>6. BytesArrive' /\ Transfers'
    BY <1>2 DEF BytesArrive, Transfers
<1>7. InputsKept'
    BY <1>1, <1>3 DEF DataInv, InputsKept
<1>8. WeightsKept'
    <2>1. ASSUME uPc = "write", Without({"stall"})
          PROVE  WeightsMoved
        <3>1. xfer.dir = "toPL" /\ xfer.area = "weights" /\ xfer.chan = 1 /\ xfer.size = WeightSize
            BY <1>2, <2>1 DEF DataInv, Transfers
        <3> SUFFICES ASSUME NEW i \in 0..(WeightSize - 1)
                     PROVE  plMem["weights"][i] = Weight
            BY DEF WeightsMoved
        <3>2. i \in Offset /\ i < WeightSize
            BY AxiAssumption DEF Offset
        <3>3. Arrived(i)
            BY <1>5, <2>1, <3>1, <3>2
        <3> QED
            BY <3>1, <3>3 DEF Arrived, DataInv, InputsKept
    <2>2. Without({"stall", "nofile"}) => Without({"stall"})
        BY DEF Without
    <2> QED
        BY <1>1, <1>2, <1>4, <2>1, <2>2 DEF DataInv, WeightsKept, WeightsMoved
<1>9. ChannelFollows'
    <2> SUFFICES ASSUME Sound(chan)
                 PROVE  ChannelFollows'
        BY <1>1 DEF ChannelFollows, Sound, Without
    <2> DEFINE n == PictureSize(chan)
    <2>1. Without({"stall"})
        BY DEF Sound, Without
    <2>2. chan \in Channel
        BY DEF Inv, TypeOK
    <2>2a. /\ \A i \in 0..(n - 1) : i \in Offset /\ i < n
           /\ \A i \in 0..(Ratio * n - 1) : i \in Offset /\ i < Ratio * n
        <3>1. n \in Nat /\ Ratio \in Nat
            BY <2>2, TypeFacts DEF Inv
        <3>2. 0..(n - 1) \subseteq Offset /\ 0..(Ratio * n - 1) \subseteq Offset
            BY <2>2, SizesFit DEF Inv
        <3> HIDE DEF n
        <3>3. Ratio * n \in Nat
            BY <3>1
        <3> QED
            BY <3>1, <3>2, <3>3
    <2>3. ASSUME uPc = "config" PROVE PictureMoved
        <3>1. xfer.dir = "toPL" /\ xfer.area = "picture" /\ xfer.chan = chan /\ xfer.size = n
            BY <1>2, <2>3 DEF DataInv, Transfers
        <3> SUFFICES ASSUME NEW i \in 0..(n - 1)
                     PROVE  plMem["picture"][i] = chan
            BY DEF PictureMoved
        <3>2. i \in Offset /\ i < n
            BY <2>2a
        <3>3. Arrived(i)
            BY <1>5, <2>1, <3>1, <3>2
        <3> QED
            BY <2>2, <3>1, <3>3 DEF Arrived, DataInv, InputsKept
    <2>4. ASSUME uPc \in {"entropy", "next"}
          PROVE  /\ Computed("trans", n) /\ Computed("entropy", Ratio * n)
                 /\ reg.trans = n /\ reg.entropy = Ratio * n
        BY <1>1, <2>4 DEF DataInv, ChannelFollows
    <2>5. ASSUME uPc = "entropy" PROVE Read(chan, "trans", n)
        <3>0. Computed("trans", n) /\ reg.trans = n
            BY <2>4, <2>5
        <3>1. xfer.dir = "toPS" /\ xfer.area = "trans" /\ xfer.chan = chan /\ xfer.size = n
            BY <1>2, <2>5, <3>0 DEF DataInv, Transfers
        <3> SUFFICES ASSUME NEW i \in 0..(n - 1)
                     PROVE  psMem[chan]["trans"][i] = chan
            BY DEF Read
        <3>2. i \in Offset /\ i < n
            BY <2>2a
        <3>3. Arrived(i)
            BY <1>5, <2>1, <3>1, <3>2
        <3> QED
            BY <3>0, <3>1, <3>3 DEF Arrived, Computed
    <2>6. ASSUME uPc = "next" PROVE Read(chan, "entropy", Ratio * n)
        <3>0. Computed("entropy", Ratio * n) /\ reg.entropy = Ratio * n
            BY <2>4, <2>6
        <3>1. xfer.dir = "toPS" /\ xfer.area = "entropy" /\ xfer.chan = chan /\ xfer.size = Ratio * n
            BY <1>2, <2>6, <3>0 DEF DataInv, Transfers
        <3> SUFFICES ASSUME NEW i \in 0..(Ratio * n - 1)
                     PROVE  psMem[chan]["entropy"][i] = chan
            BY DEF Read
        <3>2. i \in Offset /\ i < Ratio * n
            BY <2>2a
        <3>3. Arrived(i)
            BY <1>5, <2>1, <3>1, <3>2
        <3> QED
            BY <3>0, <3>1, <3>3 DEF Arrived, Computed
    <2>7. uPc = "next" => Read(chan, "trans", n)
        BY <1>1 DEF DataInv, ChannelFollows
    <2> QED
        BY <1>1, <1>2, <1>3, <2>3, <2>4, <2>5, <2>6, <2>7
           DEF ChannelFollows, PictureMoved, Computed, Read
<1>10. ChannelsKept'
    BY <1>1, <1>3, <1>4 DEF DataInv, ChannelsKept, Read
<1> QED
    BY <1>6, <1>7, <1>8, <1>9, <1>10 DEF DataInv

\* A burst is handed to the device: what was handed over before has arrived.
LEMMA StartBurstData ==
    ASSUME Inv, DataInv, OnTime, OnTime', StartBurst, UNCHANGED callerVars
    PROVE  DataInv'
<1>1. /\ kPc = "burst" /\ kPc' = "wait"
      /\ UNCHANGED <<acc, reg, plMem, psMem, hwFaults, uPc, chan, uLen, lens, gmm>>
    BY DEF StartBurst, callerVars
<1>2. dma = NoBurst /\ Transferring /\ Transferring'
    BY <1>1 DEF Inv, DeviceFollows, Transferring
<1>3. PICK n \in Nat, beats \in 1..BurstSize, rem \in Nat :
          /\ xfer' = [xfer EXCEPT !.ps = xfer.ps + n, !.pl = xfer.pl + n, !.data = n,
                                  !.rem = rem, !.beats = beats]
          /\ dma' = BurstRegisters(beats)
    BY BurstSizes
<1>4. /\ xfer'.dir = xfer.dir /\ xfer'.area = xfer.area /\ xfer'.chan = xfer.chan
      /\ xfer'.size = xfer.size /\ dma'.ps = xfer.ps /\ xfer.ps \in Nat
      /\ dma'.dir = xfer.dir /\ xfer.dir # "none"
    <2>1. xfer \in Transfer /\ xfer.ps \in Nat /\ xfer.dir # "none"
        BY <1>2, TypeFacts DEF Inv, TypeOK, XferFits
    <2> QED
        BY <1>3, <2>1 DEF Transfer, BurstRegisters
<1>5. dma' # NoBurst
    BY <1>4 DEF NoBurst
<1>6. \A k : PictureSize(k)' = PictureSize(k)
    BY <1>1 DEF PictureSize
<1>7. BytesArrive'
    <2> SUFFICES ASSUME Without({"stall"}), NEW i \in Offset
                 PROVE  Arrived(i)' \/ dma'.ps <= i
        BY <1>1, <1>5 DEF BytesArrive, Without
    <2>1. CASE i < xfer.ps
        BY <1>1, <1>2, <1>4, <2>1 DEF DataInv, BytesArrive, Arrived
    <2>2. CASE ~(i < xfer.ps)
        BY <1>4, <2>2, AxiAssumption DEF Offset
    <2> QED
        BY <2>1, <2>2
<1>8. Transfers'
    BY <1>1, <1>2, <1>4, <1>6 DEF DataInv, Transfers
<1>9. InputsKept' /\ WeightsKept'
    BY <1>1, <1>2, <1>6 DEF DataInv, InputsKept, WeightsKept, WeightsMoved, Without
<1>10. ChannelFollows' /\ ChannelsKept'
    BY <1>1, <1>6 DEF DataInv, ChannelFollows, ChannelsKept, PictureMoved, Computed, Read, Sound, Without
<1> QED
    BY <1>7, <1>8, <1>9, <1>10 DEF DataInv

\* What an end of a burst does to the memories: nothing, or the burst is over and its
\* bytes have been copied.
LEMMA DmaEventEffect ==
    ASSUME Inv, OnTime, DmaEvent
    PROVE  \/ dma' # NoBurst /\ dma'.ps = dma.ps /\ UNCHANGED <<plMem, psMem>>
           \/ /\ dma' = NoBurst /\ xfer.dir = "toPL" /\ UNCHANGED psMem
              /\ \A a \in Area, i \in Offset :
                    plMem'[a][i] = IF a = xfer.area /\ dma.ps <= i /\ i < xfer.ps
                                   THEN psMem[xfer.chan][a][i] ELSE plMem[a][i]
           \/ /\ dma' = NoBurst /\ xfer.dir = "toPS" /\ UNCHANGED plMem
              /\ \A k \in Channel, a \in Area, i \in Offset :
                    psMem'[k][a][i] = IF k = xfer.chan /\ a = xfer.area /\ dma.ps <= i /\ i < xfer.ps
                                      THEN plMem[a][i] ELSE psMem[k][a][i]
<1> DEFINE n == dma.beats * Align
           area == xfer.area
           k == xfer.chan
<1>1. /\ dma # NoBurst /\ dma.dir \in {"toPL", "toPS"} /\ dma.dir = xfer.dir
      /\ dma.area = area /\ dma.chan = k /\ dma.pl = dma.ps
      /\ dma.events \in {Events(dma.dir), Tail(Events(dma.dir))}
      /\ dma.ps + n = xfer.ps
    BY TypeFacts DEF DmaEvent, Inv, DeviceFollows, BurstFits
<1>2. area \in Area /\ k \in Channel /\ dma.ps \in Nat /\ n \in Nat /\ xfer.ps \in Nat
    <2>1. dma.beats \in Nat /\ Align \in Nat /\ xfer.area \in Area /\ xfer.chan \in Channel
          /\ dma.ps \in Nat /\ xfer.ps \in Nat
        BY TypeFacts DEF Inv
    <2> QED
        BY <2>1
<1>3. plMem \in [Area -> Memory] /\ psMem \in [Channel -> [Area -> Memory]] /\ dma \in Burst
    BY DEF Inv, TypeOK
<1>4. plMem[area] \in Memory /\ psMem[k][area] \in Memory
    BY <1>2, <1>3
<1>5. CASE dma.events = Events(dma.dir)
    <2>1. Len(dma.events) = 2 /\ Tail(dma.events) \in Seq(CompletingBothEnds)
        BY <1>1, <1>5, EventsFacts
    <2>2. dma' = [dma EXCEPT !.events = Tail(dma.events)] /\ UNCHANGED <<plMem, psMem>>
        BY <2>1 DEF DmaEvent
    <2>3. dma'.dir = dma.dir /\ dma'.ps = dma.ps
        BY <1>3, <2>2 DEF Burst
    <2> QED
        BY <1>1, <2>2, <2>3 DEF NoBurst
<1>6. CASE dma.events = Tail(Events(dma.dir))
    <2>1. Len(dma.events) = 1
        BY <1>1, <1>6, EventsFacts
    <2>2. CASE dma.dir = "toPL"
        <3> DEFINE m == Copied(plMem[area], dma.ps, psMem[k][area], dma.ps, n)
        <3>1. dma' = NoBurst /\ plMem' = [plMem EXCEPT ![area] = m] /\ UNCHANGED psMem
            BY <1>1, <2>1, <2>2 DEF DmaEvent
        <3> HIDE DEF n, area, k
        <3>2. \A i \in Offset : m[i] = IF i >= dma.ps /\ i < dma.ps + n
                                       THEN psMem[k][area][i] ELSE plMem[area][i]
            <4>1. PICK old \in Memory, new \in Memory : old = plMem[area] /\ new = psMem[k][area]
                BY <1>4
            <4>2. PICK to \in Nat, c \in Nat : to = dma.ps /\ c = n
                BY <1>2
            <4>3. \A i \in Offset : Copied(old, to, new, to, c)[i]
                                       = IF i >= to /\ i < to + c THEN new[i] ELSE old[i]
                BY CopiedType
            <4> QED
                BY <4>1, <4>2, <4>3
        <3>3. \A i \in Offset : i \in Int
            BY AxiAssumption DEF Offset
        <3> HIDE DEF m
        <3>4. \A a \in Area, i \in Offset :
                  plMem'[a][i] = IF a = area /\ dma.ps <= i /\ i < xfer.ps
                                 THEN psMem[k][a][i] ELSE plMem[a][i]
            BY <1>1, <1>2, <1>3, <3>1, <3>2, <3>3
        <3> QED
            BY <1>1, <2>2, <3>1, <3>4 DEF area, k
    <2>3. CASE dma.dir = "toPS"
        <3> DEFINE m == Copied(psMem[k][area], dma.ps, plMem[area], dma.ps, n)
        <3>1. dma' = NoBurst /\ psMem' = [psMem EXCEPT ![k][area] = m] /\ UNCHANGED plMem
            BY <1>1, <2>1, <2>3 DEF DmaEvent
        <3> HIDE DEF n, area, k
        <3>2. \A i \in Offset : m[i] = IF i >= dma.ps /\ i < dma.ps + n
                                       THEN plMem[area][i] ELSE psMem[k][area][i]
            <4>1. PICK old \in Memory, new \in Memory : old = psMem[k][area] /\ new = plMem[area]
                BY <1>4
            <4>2. PICK to \in Nat, c \in Nat : to = dma.ps /\ c = n
                BY <1>2
            <4>3. \A i \in Offset : Copied(old, to, new, to, c)[i]
                                       = IF i >= to /\ i < to + c THEN new[i] ELSE old[i]
                BY CopiedType
            <4> QED
                BY <4>1, <4>2, <4>3
        <3>3. \A i \in Offset : i \in Int
            BY AxiAssumption DEF Offset
        <3> HIDE DEF m
        <3>4. \A j \in Channel, a \in Area, i \in Offset :
                  psMem'[j][a][i] = IF j = k /\ a = area /\ dma.ps <= i /\ i < xfer.ps
                                    THEN plMem[a][i] ELSE psMem[j][a][i]
            BY <1>1, <1>2, <1>3, <3>1, <3>2, <3>3
        <3> QED
            BY <1>1, <2>3, <3>1, <3>4 DEF area, k
    <2> QED
        BY <1>1, <2>2, <2>3
<1> QED
    BY <1>1, <1>5, <1>6

\* A burst moves the bytes of the transfer's area and no others.
LEMMA DmaEventData ==
    ASSUME Inv, DataInv, OnTime, OnTime', DmaEvent, UNCHANGED callerVars
    PROVE  DataInv'
<1>1. /\ dma # NoBurst /\ kPc = "wait"
      /\ UNCHANGED <<kPc, xfer, acc, reg, uPc, chan, uLen, lens, gmm>>
    BY DEF DmaEvent, Inv, DeviceFollows, callerVars
<1>2. /\ Transferring /\ Transferring' /\ uPc \in {"write", "config", "entropy", "next"}
      /\ xfer.chan = chan /\ chan \in Channel /\ xfer.area \in Area
      /\ xfer.ps \in Nat /\ dma.ps \in Nat /\ \A i \in Offset : i \in Int
      /\ uPc = "write" => xfer.dir = "toPL" /\ xfer.area = "weights"
      /\ uPc = "config" => xfer.dir = "toPL" /\ xfer.area = "picture"
      /\ uPc = "entropy" => xfer.dir = "toPS" /\ xfer.area = "trans"
      /\ uPc = "next" => xfer.dir = "toPS" /\ xfer.area = "entropy"
    BY <1>1, TypeFacts, AxiAssumption, SMTT(30) DEF Transferring, DataInv, Transfers, Inv, Offset
<1>3. \A k : PictureSize(k)' = PictureSize(k)
    BY <1>1 DEF PictureSize
<1>4. hwFaults \subseteq hwFaults' /\ (\A kinds : Without(kinds)' => Without(kinds))
      /\ \A k : Sound(k)' => Sound(k)
    <2>1. hwFaults \subseteq hwFaults'
        BY RaiseFacts DEF DmaEvent, Inv, TypeOK
    <2> QED
        BY <2>1, WithoutFacts, SoundFacts
<1>5. Transfers'
    BY <1>1, <1>3 DEF DataInv, Transfers, Transferring
<1>6. 0..(PictureSize(chan) - 1) \subseteq Offset /\ 0..(WeightSize - 1) \subseteq Offset
      /\ \A k \in Channel : 0..(PictureSize(k) - 1) \subseteq Offset
                            /\ 0..(Ratio * PictureSize(k) - 1) \subseteq Offset
    BY <1>2, SizesFit DEF Inv
<1> DEFINE moved(i) == dma.ps <= i /\ i < xfer.ps
<1>7. CASE dma' # NoBurst /\ dma'.ps = dma.ps /\ UNCHANGED <<plMem, psMem>>
    <2>1. BytesArrive'
        BY <1>1, <1>2, <1>4, <1>7 DEF DataInv, BytesArrive, Arrived
    <2>2. InputsKept' /\ WeightsKept'
        BY <1>1, <1>2, <1>3, <1>4, <1>7 DEF DataInv, InputsKept, WeightsKept, WeightsMoved
    <2>3. ChannelFollows' /\ ChannelsKept'
        BY <1>1, <1>3, <1>4, <1>7 DEF DataInv, ChannelFollows, ChannelsKept, PictureMoved, Computed, Read
    <2> QED
        BY <1>5, <2>1, <2>2, <2>3 DEF DataInv
<1>8. CASE /\ dma' = NoBurst /\ xfer.dir = "toPL" /\ UNCHANGED psMem
           /\ \A a \in Area, i \in Offset :
                 plMem'[a][i] = IF a = xfer.area /\ moved(i)
                                THEN psMem[xfer.chan][a][i] ELSE plMem[a][i]
    <2>1. BytesArrive'
        <3> SUFFICES ASSUME Without({"stall"}), NEW i \in Offset, i < xfer.ps
                     PROVE  plMem'[xfer.area][i] = psMem'[xfer.chan][xfer.area][i]
            BY <1>1, <1>4, <1>8 DEF BytesArrive, Arrived
        <3>1. Arrived(i) \/ dma.ps <= i
            BY <1>2 DEF DataInv, BytesArrive
        <3> QED
            BY <1>2, <1>8, <3>1 DEF Arrived
    <2>2. InputsKept'
        BY <1>1, <1>3, <1>8 DEF DataInv, InputsKept
    <2>3. WeightsKept'
        <3>1. uPc = "config" /\ WeightsMoved => WeightsMoved'
            BY <1>2, <1>6, <1>8 DEF WeightsMoved, Area
        <3>2. uPc \in {"write", "config"}
            BY <1>2, <1>8
        <3> QED
            BY <1>1, <1>2, <1>4, <3>1, <3>2 DEF DataInv, WeightsKept
    <2>4. uPc \in {"write", "config"}
        BY <1>2, <1>8
    <2>5. ChannelFollows'
        BY <1>1, <2>4 DEF ChannelFollows
    <2>6. ChannelsKept'
        BY <1>1, <1>3, <1>4, <1>8 DEF DataInv, ChannelsKept, Read
    <2> QED
        BY <1>5, <2>1, <2>2, <2>3, <2>5, <2>6 DEF DataInv
<1>9. CASE /\ dma' = NoBurst /\ xfer.dir = "toPS" /\ UNCHANGED plMem
           /\ \A k \in Channel, a \in Area, i \in Offset :
                 psMem'[k][a][i] = IF k = xfer.chan /\ a = xfer.area /\ moved(i)
                                   THEN plMem[a][i] ELSE psMem[k][a][i]
    <2>0. uPc \in {"entropy", "next"} /\ xfer.area \in {"trans", "entropy"}
        BY <1>2, <1>9
    <2>1. BytesArrive'
        <3> SUFFICES ASSUME Without({"stall"}), NEW i \in Offset, i < xfer.ps
                     PROVE  psMem'[xfer.chan][xfer.area][i] = plMem'[xfer.area][i]
            BY <1>1, <1>4, <1>9 DEF BytesArrive, Arrived
        <3>1. Arrived(i) \/ dma.ps <= i
            BY <1>2 DEF DataInv, BytesArrive
        <3> QED
            BY <1>2, <1>9, <3>1 DEF Arrived
    <2>2. InputsKept'
        <3>1. \A k \in Channel, i \in Offset : psMem'[k]["picture"][i] = psMem[k]["picture"][i]
                                               /\ psMem'[k]["weights"][i] = psMem[k]["weights"][i]
            BY <1>9, <2>0 DEF Area
        <3>2. 1 \in Channel
            BY DEF Channel
        <3> QED
            BY <1>1, <1>3, <1>6, <3>1, <3>2 DEF DataInv, InputsKept
    <2>3. WeightsKept'
        BY <1>1, <1>2, <1>4, <1>9 DEF DataInv, WeightsKept, WeightsMoved
    <2>4. ChannelFollows'
        <3> SUFFICES ASSUME Sound(chan)
                     PROVE  ChannelFollows'
            BY <1>1, <1>4 DEF ChannelFollows, Sound
        <3> DEFINE n == PictureSize(chan)
        <3>1. /\ Computed("trans", n) /\ Computed("entropy", Ratio * n)
              /\ reg.trans = n /\ reg.entropy = Ratio * n
              /\ uPc = "next" => Read(chan, "trans", n)
            BY <1>1, <2>0 DEF DataInv, ChannelFollows
        <3>2. uPc = "next" => Read(chan, "trans", n)'
            <4> SUFFICES ASSUME uPc = "next", NEW i \in 0..(n - 1)
                         PROVE  psMem'[chan]["trans"][i] = chan
                BY <1>1, <1>3 DEF Read
            <4>1. xfer.area = "entropy" /\ i \in Offset
                BY <1>2, <1>6
            <4>2. psMem'[chan]["trans"][i] = psMem[chan]["trans"][i]
                BY <1>2, <1>9, <4>1 DEF Area
            <4> QED
                BY <3>1, <4>2 DEF Read
        <3> QED
            BY <1>1, <1>3, <1>9, <2>0, <3>1, <3>2 DEF ChannelFollows, PictureMoved, Computed, Read
    <2>5. ChannelsKept'
        <3> SUFFICES ASSUME NEW k \in Channel, Sound(k), k < chan
                     PROVE  /\ \A i \in 0..(PictureSize(k) - 1) : psMem'[k]["trans"][i] = k
                            /\ \A i \in 0..(Ratio * PictureSize(k) - 1) : psMem'[k]["entropy"][i] = k
            BY <1>1, <1>3, <1>4, <2>0 DEF ChannelsKept, Read
        <3>1. k # xfer.chan
            BY <1>2 DEF Channel
        <3>2. \A i \in Offset : psMem'[k]["trans"][i] = psMem[k]["trans"][i]
                                /\ psMem'[k]["entropy"][i] = psMem[k]["entropy"][i]
            BY <1>9, <3>1 DEF Area
        <3>3. Read(k, "trans", PictureSize(k)) /\ Read(k, "entropy", Ratio * PictureSize(k))
            BY DEF DataInv, ChannelsKept
        <3> QED
            BY <1>6, <3>2, <3>3 DEF Read
    <2> QED
        BY <1>5, <2>1, <2>2, <2>3, <2>4, <2>5 DEF DataInv
<1> QED
    BY <1>7, <1>8, <1>9, DmaEventEffect

-----------------------------------------------------------------------------
(* The data: the accelerator and the faults.                               *)

\* NETWORK_ACC_GET returns: the caller has the sizes of the results, and the address of
\* the weights if it was still on the stack.
LEMMA EndGetData ==
    ASSUME Inv, DataInv, OnTime, OnTime', EndGet, UNCHANGED callerVars
    PROVE  DataInv'
<1>1. /\ kPc = "get" /\ kPc' = "idle" /\ uPc = "trans" /\ ~acc.running
      /\ UNCHANGED <<xfer, dma, acc, plMem, psMem, uPc, chan, uLen, lens, gmm>>
    BY WaitEndsQuiet DEF EndGet, callerVars, Inv, CallerFollows
<1>2. PICK left \in {acc.weight, "other"} :
          /\ reg' = Results(left)
          /\ Faulty(WaitOver \cup IF left = acc.weight THEN {} ELSE {"stack"})
    BY DEF EndGet
<1>3. /\ hwFaults \subseteq hwFaults'
      /\ left # acc.weight => "stack" \in hwFaults'
      /\ reg'.weight = left /\ reg'.trans = acc.trans /\ reg'.entropy = acc.entropy
    <2>1. hwFaults \subseteq HwFaults
        BY DEF Inv, TypeOK
    <2>2. left # acc.weight => Faulty(WaitOver \cup {"stack"})
        BY <1>2
    <2>3. left # acc.weight => WaitOver \cup {"stack"} \subseteq hwFaults'
        BY <2>1, <2>2, FaultyFacts
    <2>4. hwFaults \subseteq hwFaults'
        BY <1>2, <2>1, FaultyFacts
    <2> QED
        BY <1>2, <2>3, <2>4 DEF Results
<1>4. (\A kinds : Without(kinds)' => Without(kinds)) /\ \A k : Sound(k)' => Sound(k)
    BY <1>3, WithoutFacts, SoundFacts
<1>5. \A k : PictureSize(k)' = PictureSize(k)
    BY <1>1 DEF PictureSize
<1>6. BytesArrive' /\ Transfers' /\ InputsKept'
    BY <1>1, <1>5 DEF DataInv, BytesArrive, Transfers, InputsKept, Transferring
<1>7. WeightsKept'
    <2>1. Without({"stack"})' => left = acc.weight
        BY <1>3 DEF Without
    <2>2. ~Transferring
        BY <1>1 DEF Transferring
    <2> QED
        BY <1>1, <1>3, <1>4, <2>1, <2>2 DEF DataInv, WeightsKept, WeightsMoved
<1>8. ChannelFollows' /\ ChannelsKept'
    BY <1>1, <1>3, <1>4, <1>5 DEF DataInv, ChannelFollows, ChannelsKept, PictureMoved, Computed, Read
<1> QED
    BY <1>6, <1>7, <1>8 DEF DataInv

\* The accelerator is done: both results have been computed from the channel's picture.
LEMMA AccDoneData ==
    ASSUME Inv, DataInv, OnTime, OnTime', AccDone, UNCHANGED callerVars
    PROVE  DataInv'
<1> DEFINE n == PictureSize(chan)
           done == acc.picture
           t == Written(plMem["trans"], done, ResultOf(done))
           e == Written(plMem["entropy"], Ratio * done, ResultOf(done))
<1>1. /\ acc.running /\ uPc \in {"get", "trans"} /\ ~Transferring /\ ~Transferring'
      /\ kPc = "get" \/ uPc = "get"
      /\ UNCHANGED <<kPc, xfer, dma, reg, psMem, uPc, chan, uLen, lens, gmm>>
      /\ chan \in Channel /\ n \in Nat /\ Ratio \in Nat
    BY TypeFacts DEF AccDone, callerVars, Inv, TypeOK, DeviceFollows, CallerFollows, Transferring
<1>2. hwFaults \subseteq hwFaults' /\ (\A kinds : Without(kinds)' => Without(kinds))
      /\ \A k : Sound(k)' => Sound(k)
    <2>1. hwFaults \subseteq hwFaults'
        BY RaiseFacts, HwFaultFacts DEF AccDone, Inv, TypeOK
    <2> QED
        BY <2>1, WithoutFacts, SoundFacts
<1>3. \A k : PictureSize(k)' = PictureSize(k)
    BY <1>1 DEF PictureSize
<1>4. /\ acc'.weight = acc.weight /\ acc'.picture = done
      /\ acc'.trans = done /\ acc'.entropy = Ratio * done
    BY DEF AccDone, Inv, TypeOK, Accelerator
<1>5. /\ plMem'["trans"] = t /\ plMem'["entropy"] = e
      /\ plMem'["weights"] = plMem["weights"] /\ plMem'["picture"] = plMem["picture"]
    BY DEF AccDone, Inv, TypeOK, Area
<1>6. BytesArrive' /\ Transfers' /\ InputsKept'
    BY <1>1, <1>3 DEF DataInv, BytesArrive, Transfers, InputsKept
<1>7. WeightsKept'
    BY <1>1, <1>2, <1>4, <1>5 DEF DataInv, WeightsKept, WeightsMoved
<1>8. ChannelsKept'
    BY <1>1, <1>2, <1>3 DEF DataInv, ChannelsKept, Read
<1>9. ChannelFollows'
    <2> SUFFICES ASSUME Sound(chan), kPc # "stray"
                 PROVE  ChannelFollows'
        BY <1>1, <1>2 DEF ChannelFollows
    <2>1. PictureMoved /\ done = n
        BY <1>1 DEF DataInv, ChannelFollows
    <2>2. n # 0 => ResultOf(done) = chan
        <3>1. acc.weight = "weights" /\ WeightsMoved
            <4>1. Without({"stall", "nofile"}) /\ (chan = 1 \/ Without({"stack"}))
                BY DEF Sound, Without
            <4> QED
                BY <1>1, <4>1 DEF DataInv, WeightsKept
        <3>2. n # 0 => plMem["picture"][0] = chan
            <4>1. n # 0 => 0 \in 0..(n - 1)
                BY <1>1
            <4> QED
                BY <2>1, <4>1 DEF PictureMoved
        <3> QED
            BY <2>1, <3>1, <3>2 DEF ResultOf, WeightsInPlace, WeightsMoved, PictureMoved
    <2>3. \A i \in 0..(n - 1) : n # 0 /\ i < n /\ i \in Offset
        <3>1. 0..(n - 1) \subseteq Offset
            BY <1>1, SizesFit DEF Inv
        <3> HIDE DEF n
        <3> QED
            BY <1>1, <3>1
    <2>4. \A i \in 0..(Ratio * n - 1) : n # 0 /\ i < Ratio * n /\ i \in Offset
        <3>1. 0..(Ratio * n - 1) \subseteq Offset
            BY <1>1, SizesFit DEF Inv
        <3> HIDE DEF n
        <3>2. Ratio * n \in Nat /\ (n = 0 => Ratio * n = 0)
            BY <1>1
        <3> QED
            BY <3>1, <3>2
    <2>5. Computed("trans", n)' /\ Computed("entropy", Ratio * n)'
        <3>1. ASSUME NEW i \in 0..(n - 1) PROVE plMem'["trans"][i] = chan
            BY <1>5, <2>1, <2>2, <2>3 DEF Written
        <3>2. ASSUME NEW i \in 0..(Ratio * n - 1) PROVE plMem'["entropy"][i] = chan
            BY <1>5, <2>1, <2>2, <2>4 DEF Written
        <3> QED
            BY <1>1, <1>3, <3>1, <3>2 DEF Computed
    <2> QED
        BY <1>1, <1>3, <1>4, <1>5, <2>1, <2>5 DEF ChannelFollows, PictureMoved
<1> QED
    BY <1>6, <1>7, <1>8, <1>9 DEF DataInv

\* After a burst or a run of the accelerator that does not end nothing is promised.
LEMMA StallHangData ==
    ASSUME Inv, DataInv, OnTime, OnTime', Stall \/ Hang, UNCHANGED callerVars
    PROVE  DataInv'
<1>1. /\ UNCHANGED <<kPc, xfer, reg, plMem, psMem, uPc, chan, uLen, lens, gmm>>
      /\ hwFaults \subseteq hwFaults'
    BY HwFaultFacts DEF Stall, Hang, callerVars, Inv, TypeOK
<1>2. (\A kinds : Without(kinds)' => Without(kinds)) /\ \A k : Sound(k)' => Sound(k)
    BY <1>1, WithoutFacts, SoundFacts
<1>3. \A k : PictureSize(k)' = PictureSize(k)
    BY <1>1 DEF PictureSize
<1>4. (\A k : ~Sound(k)') /\ acc'.weight = acc.weight
    BY HwFaultFacts DEF Stall, Hang, Sound, Without, Inv, TypeOK, Accelerator
<1>5. BytesArrive'
    <2>1. Stall => ~Without({"stall"})'
        BY HwFaultFacts DEF Stall, Without, Inv, TypeOK
    <2>2. Hang => UNCHANGED dma
        BY DEF Hang
    <2> QED
        BY <1>1, <1>2, <2>1, <2>2 DEF DataInv, BytesArrive, Arrived, Transferring
<1>6. Transfers' /\ InputsKept'
    BY <1>1, <1>3 DEF DataInv, Transfers, InputsKept, Transferring
<1>7. WeightsKept'
    BY <1>1, <1>2, <1>4 DEF DataInv, WeightsKept, WeightsMoved, Transferring
<1>8. ChannelFollows' /\ ChannelsKept'
    BY <1>4 DEF ChannelFollows, ChannelsKept
<1> QED
    BY <1>5, <1>6, <1>7, <1>8 DEF DataInv

-----------------------------------------------------------------------------
(* The data: the caller.                                                   *)

\* A transfer begins, or the program ends: nothing has been moved by it yet.
LEMMA CallData ==
    ASSUME Inv, DataInv, OnTime, OnTime', PlInit \/ Write \/ ReadTrans \/ ReadEntropy
    PROVE  DataInv'
<1>1. /\ kPc = "idle" /\ UNCHANGED <<dma, acc, plMem, psMem, chan, uLen, lens, gmm>>
      /\ ~acc.running /\ ~Transferring /\ kPc' \in {"idle", "burst"}
    BY DEF PlInit, Write, ReadTrans, ReadEntropy, PlWrite, PlRead, PlIo, NoMemory, BeginTransfer,
           deviceRest, Inv, CallerFollows, DeviceFollows, Transferring
<1>2. hwFaults \subseteq hwFaults' /\ (\A kinds : Without(kinds)' => Without(kinds))
      /\ \A k : Sound(k)' => Sound(k)
    <2>1. hwFaults \subseteq hwFaults'
        BY HwFaultFacts
           DEF PlInit, Write, ReadTrans, ReadEntropy, PlWrite, PlRead, PlIo, NoMemory, Inv, TypeOK
    <2> QED
        BY <2>1, WithoutFacts, SoundFacts
<1>3. \A k : PictureSize(k)' = PictureSize(k)
    BY <1>1 DEF PictureSize
<1>4. InputsKept'
    BY <1>1, <1>3 DEF DataInv, InputsKept
<1>5. BytesArrive'
    <2>1. Transferring' => xfer'.ps = 0
        BY <1>1 DEF PlInit, Write, ReadTrans, ReadEntropy, PlWrite, PlRead, PlIo, NoMemory,
                    BeginTransfer, Transferring
    <2> QED
        BY <2>1, AxiAssumption DEF BytesArrive, Offset
<1>6. CASE PlInit
    <2>1. uPc = "init" /\ uPc' = "write" /\ chan = 1 /\ reg'.weight = "weights"
        BY <1>6 DEF PlInit, DataInv, WeightsKept, Inv, TypeOK, Registers
    <2>2. Transfers'
        BY <1>1, <1>6, <2>1 DEF PlInit, Transfers, Transferring, BeginTransfer
    <2>3. WeightsKept'
        <3>1. Transferring' \/ ~Without({"stall", "nofile"})'
            <4>1. CASE BeginTransfer("toPL", "weights", chan, WeightSize)
                BY <4>1 DEF BeginTransfer, Transferring
            <4>2. CASE HwFault("nofile")
                BY <4>2, HwFaultFacts DEF Without, Inv, TypeOK
            <4> QED
                BY <1>6, <4>1, <4>2 DEF PlInit
        <3> QED
            BY <2>1, <3>1 DEF WeightsKept
    <2>4. ChannelFollows'
        BY <2>1 DEF ChannelFollows
    <2>5. ChannelsKept'
        BY <1>1, <1>2, <1>3, <2>1 DEF DataInv, ChannelsKept, Read
    <2> QED
        BY <1>4, <1>5, <2>2, <2>3, <2>4, <2>5 DEF DataInv
<1>7. CASE Write \/ ReadTrans \/ ReadEntropy
    <2>1. UNCHANGED reg /\ uPc \in {"write", "trans", "entropy"}
          /\ uPc' \in {"config", "entropy", "next", "exit"}
          /\ (uPc' = "config" => uPc = "write")
        BY <1>7 DEF Write, ReadTrans, ReadEntropy, PlWrite, PlRead, PlIo, NoMemory
    <2>2. Transfers'
        BY <1>1, <1>3, <1>7, <2>1 DEF Write, ReadTrans, ReadEntropy, PlWrite, PlRead, PlIo, NoMemory,
                    BeginTransfer, Transfers, Transferring
    <2>3. WeightsKept'
        BY <1>1, <1>2, <2>1 DEF DataInv, WeightsKept, WeightsMoved
    <2>4. ChannelsKept'
        BY <1>1, <1>2, <1>3, <2>1 DEF DataInv, ChannelsKept, Read
    <2>5. ChannelFollows'
        <3> SUFFICES ASSUME Sound(chan)
                     PROVE  ChannelFollows'
            BY <1>1, <1>2 DEF ChannelFollows, Sound
        <3>1. \/ uPc = "write" /\ uPc' = "config" /\ kPc' = "burst"
              \/ uPc = "trans" /\ uPc' = "entropy" /\ kPc' = "burst"
              \/ uPc = "entropy" /\ uPc' = "next" /\ kPc' = "burst"
              \/ uPc' = "exit"
            BY <1>7 DEF Write, ReadTrans, ReadEntropy, PlWrite, PlRead, PlIo, NoMemory, BeginTransfer
        <3> QED
            BY <1>1, <1>3, <2>1, <3>1 DEF DataInv, ChannelFollows, Computed, Read
    <2> QED
        BY <1>4, <1>5, <2>2, <2>3, <2>4, <2>5 DEF DataInv
<1> QED
    BY <1>6, <1>7

\* The accelerator is configured and started for the picture that has been written.
LEMMA AcceleratorCallData ==
    ASSUME Inv, DataInv, OnTime, OnTime', Config \/ Start \/ Get
    PROVE  DataInv'
<1>1. /\ kPc = "idle" /\ kPc' \in {"idle", "get"}
      /\ UNCHANGED <<xfer, dma, reg, plMem, psMem, hwFaults, chan, uLen, lens, gmm>>
    BY DEF Config, AccConfig, Start, AccStart, Get, AccGet
<1>2. (\A kinds : Without(kinds)' => Without(kinds)) /\ \A k : Sound(k)' => Sound(k)
    BY <1>1 DEF Without, Sound
<1>3. \A k : PictureSize(k)' = PictureSize(k)
    BY <1>1 DEF PictureSize
<1>4. BytesArrive' /\ Transfers' /\ InputsKept'
    BY <1>1, <1>3 DEF DataInv, BytesArrive, Transfers, InputsKept, Transferring
<1>5. /\ uPc \in {"config", "start", "get"} /\ uPc' \in {"start", "get", "trans"} /\ ~Transferring
    BY <1>1 DEF Config, Start, Get, Transferring
<1>6. ChannelsKept'
    BY <1>1, <1>2, <1>3, <1>5 DEF DataInv, ChannelsKept, Read
<1>7. CASE Config
    <2>1. /\ uPc = "config" /\ uPc' = "start"
          /\ acc'.weight = reg.weight /\ acc'.picture = PictureSize(chan)
        BY <1>7 DEF Config, AccConfig, Inv, TypeOK, Accelerator
    <2>2. WeightsKept'
        BY <1>1, <1>2, <1>5, <2>1 DEF DataInv, WeightsKept, WeightsMoved
    <2>3. ChannelFollows'
        BY <1>1, <1>2, <1>3, <2>1 DEF DataInv, ChannelFollows, PictureMoved
    <2> QED
        BY <1>4, <1>6, <2>2, <2>3 DEF DataInv
<1>8. CASE Start
    <2>1. /\ uPc = "start" /\ uPc' = "get" /\ acc'.running = TRUE
          /\ acc'.weight = acc.weight /\ acc'.picture = acc.picture
        BY <1>8 DEF Start, AccStart, Inv, TypeOK, Accelerator
    <2>2. WeightsKept'
        BY <1>1, <1>2, <1>5, <2>1 DEF DataInv, WeightsKept, WeightsMoved
    <2>3. ChannelFollows'
        BY <1>1, <1>2, <1>3, <2>1 DEF DataInv, ChannelFollows, PictureMoved
    <2> QED
        BY <1>4, <1>6, <2>2, <2>3 DEF DataInv
<1>9. CASE Get
    <2>1. uPc = "get" /\ uPc' = "trans" /\ kPc' = "get" /\ UNCHANGED acc
        BY <1>9 DEF Get, AccGet
    <2>2. WeightsKept'
        BY <1>1, <1>2, <1>5, <2>1 DEF DataInv, WeightsKept, WeightsMoved
    <2>3. ChannelFollows'
        BY <1>1, <1>2, <1>3, <2>1 DEF DataInv, ChannelFollows, PictureMoved, Computed
    <2> QED
        BY <1>4, <1>6, <2>2, <2>3 DEF DataInv
<1> QED
    BY <1>7, <1>8, <1>9

\* The channel whose results have been read stays as it is.
LEMMA ChannelEndData ==
    ASSUME Inv, DataInv, OnTime, OnTime', NextChannel \/ Code
    PROVE  DataInv'
<1>1. /\ UNCHANGED <<axiVars, uLen>>
      /\ uPc \in {"next", "code"} /\ uPc' \in {"write", "code", "done", "exit"}
      /\ kPc = "idle"
    BY DEF NextChannel, Code, Inv, CallerFollows, DeviceFollows, TypeOK
<1>2. UNCHANGED <<kPc, xfer, dma, acc, reg, plMem, psMem, hwFaults, uLen>> /\ ~Transferring
    BY <1>1 DEF axiVars, Transferring
<1>3. (\A kinds : Without(kinds)' => Without(kinds)) /\ \A k : Sound(k)' => Sound(k)
    BY <1>2 DEF Without, Sound
<1>4. \A k : PictureSize(k)' = PictureSize(k)
    BY <1>2 DEF PictureSize
<1>5. BytesArrive' /\ Transfers' /\ InputsKept'
    BY <1>2, <1>4 DEF DataInv, BytesArrive, Transfers, InputsKept, Transferring
<1>6. WeightsKept' /\ ChannelFollows'
    <2>1. uPc' = "write" => chan' # 1
        BY DEF NextChannel, Code, Inv, TypeOK, Channel
    <2> QED
        BY <1>1, <1>2, <1>3, <2>1 DEF DataInv, WeightsKept, WeightsMoved, ChannelFollows
<1>7. ChannelsKept'
    <2> SUFFICES ASSUME NEW k \in Channel, Sound(k),
                        k < chan' \/ uPc' \in {"code", "done"}
                 PROVE  Read(k, "trans", PictureSize(k)) /\ Read(k, "entropy", Ratio * PictureSize(k))
        BY <1>2, <1>3, <1>4 DEF ChannelsKept, Read
    <2>1. CASE k < chan \/ uPc = "code"
        BY <2>1 DEF DataInv, ChannelsKept
    <2>2. CASE k = chan /\ uPc = "next"
        BY <1>1, <2>2 DEF DataInv, ChannelFollows
    <2>3. \/ k < chan \/ uPc = "code"
          \/ k = chan /\ uPc = "next"
        BY DEF NextChannel, Code, Inv, TypeOK, Channel
    <2> QED
        BY <2>1, <2>2, <2>3
<1> QED
    BY <1>5, <1>6, <1>7 DEF DataInv

-----------------------------------------------------------------------------
(* The theorems about the data.                                            *)

\* The buffers are filled before the first call.
LEMMA InitData == Init => DataInv
<1> SUFFICES ASSUME Init PROVE DataInv
    OBVIOUS
<1>1. kPc = "idle" /\ uPc = "init" /\ chan = 1 /\ ~Transferring
    BY DEF Init, AxiInit, Transferring
<1>2. BytesArrive /\ Transfers /\ WeightsKept /\ ChannelFollows
    BY <1>1 DEF BytesArrive, Transfers, WeightsKept, ChannelFollows
<1>3. ChannelsKept
    BY <1>1 DEF ChannelsKept, Channel
<1>4. InputsKept
    <2>1. TypeOK
        BY InitInv DEF Inv
    <2>2. \A k \in Channel : /\ 0..(PictureSize(k) - 1) \subseteq Offset
                             /\ \A i \in 0..(PictureSize(k) - 1) : i < PictureSize(k)
        <3>1. \A n \in Nat : \A i \in 0..(n - 1) : i < n
            OBVIOUS
        <3>2. \A k \in Channel : PictureSize(k) \in Nat
            BY <2>1, TypeFacts
        <3> QED
            BY <2>1, <3>1, <3>2, SizesFit
    <2>3. 0..(WeightSize - 1) \subseteq Offset /\ \A i \in 0..(WeightSize - 1) : i < WeightSize
        BY AxiAssumption DEF Offset
    <2>4. psMem = [k \in Channel |-> [a \in Area |-> [i \in Offset |->
                       CASE a = "picture" /\ i < PictureSize(k) -> k
                         [] a = "weights" /\ i < WeightSize -> Weight
                         [] OTHER -> 0]]]
        BY DEF Init
    <2>5. ASSUME NEW k \in Channel, NEW i \in 0..(PictureSize(k) - 1)
          PROVE  psMem[k]["picture"][i] = k
        <3>1. i \in Offset /\ i < PictureSize(k) /\ "picture" \in Area
            BY <2>2, <2>5 DEF Area
        <3> QED
            BY <2>4, <3>1
    <2>6. ASSUME NEW i \in 0..(WeightSize - 1)
          PROVE  psMem[1]["weights"][i] = Weight
        <3>1. i \in Offset /\ i < WeightSize /\ "weights" \in Area /\ 1 \in Channel
            BY <2>3, <2>6 DEF Area, Channel
        <3> QED
            BY <2>4, <3>1
    <2> QED
        BY <2>5, <2>6 DEF InputsKept
<1> QED
    BY <1>2, <1>3, <1>4 DEF DataInv

\* What has gone wrong stays so.
LEMMA FaultsGrow ==
    ASSUME Inv, [Next]_vars
    PROVE  hwFaults \subseteq hwFaults'
<1>1. CASE CallerStep
    BY <1>1, HwFaultFacts
       DEF CallerStep, PlInit, Write, Config, AccConfig, Start, AccStart, Get, AccGet, ReadTrans,
           ReadEntropy, PlWrite, PlRead, PlIo, NoMemory, NextChannel, Code, axiVars, Inv, TypeOK
<1>2. CASE DriverStep
    BY <1>2, FaultyFacts DEF DriverStep, StartBurst, EndWait, EndTransfer, EndGet, Inv, TypeOK
<1>3. CASE DeviceStep
    BY <1>3, RaiseFacts, HwFaultFacts
       DEF DeviceStep, DmaEvent, AccDone, IrqHandler, CleanIrq, Inv, TypeOK
<1>4. CASE Stall \/ Hang \/ OtherGet \/ OtherReturns
    BY <1>4, HwFaultFacts DEF Stall, Hang, OtherGet, OtherReturns, Inv, TypeOK
<1>5. CASE UNCHANGED vars
    BY <1>5 DEF vars, axiVars
<1> QED
    BY <1>1, <1>2, <1>3, <1>4, <1>5 DEF Next, Finished

\* No step loses data.
LEMMA NextData == Inv /\ DataInv /\ [Next]_vars => DataInv'
<1> SUFFICES ASSUME Inv, DataInv, [Next]_vars, OnTime'
             PROVE  DataInv'
    BY DEF DataInv
<1>0. OnTime /\ hwFaults \subseteq hwFaults'
    BY FaultsGrow DEF OnTime, Without
<1>1. CASE CallerStep
    <2>1. CASE PlInit \/ Write \/ ReadTrans \/ ReadEntropy
        BY <1>0, <2>1, CallData
    <2>2. CASE Config \/ Start \/ Get
        BY <1>0, <2>2, AcceleratorCallData
    <2>3. CASE NextChannel \/ Code
        BY <1>0, <2>3, ChannelEndData
    <2> QED
        BY <1>1, <2>1, <2>2, <2>3 DEF CallerStep
<1>2. CASE EndWait /\ UNCHANGED callerVars
    BY <1>0, <1>2, DataStays DEF EndWait, callerVars
<1>3. CASE (StartBurst \/ EndTransfer \/ EndGet) /\ UNCHANGED callerVars
    BY <1>0, <1>3, StartBurstData, EndTransferData, EndGetData
<1>4. CASE (IrqHandler \/ CleanIrq) /\ UNCHANGED callerVars
    <2>1. kPc' \in {kPc, "stray"}
        BY <1>4 DEF IrqHandler, CleanIrq, Inv, TypeOK
    <2> QED
        BY <1>0, <1>4, <2>1, DataStays DEF IrqHandler, CleanIrq, callerVars
<1>5. CASE (DmaEvent \/ AccDone) /\ UNCHANGED callerVars
    BY <1>0, <1>5, DmaEventData, AccDoneData
<1>6. CASE (Stall \/ Hang) /\ UNCHANGED callerVars
    BY <1>0, <1>6, StallHangData
<1>7. CASE (OtherGet \/ OtherReturns) /\ UNCHANGED callerVars
    BY <1>0, <1>7, DataStays DEF OtherGet, OtherReturns, callerVars
<1>8. CASE UNCHANGED vars
    BY <1>0, <1>8, DataStays DEF vars, axiVars, callerVars
<1> QED
    BY <1>1, <1>2, <1>3, <1>4, <1>5, <1>6, <1>7, <1>8 DEF Next, Finished, DriverStep, DeviceStep

\* Both halves of the invariant hold in every reachable state: besides what Safety says,
\* what the memories hold at every point between the caller's calls.
THEOREM DataSafety == Spec => [](Inv /\ DataInv)
<1>1. Init => Inv /\ DataInv
    BY InitInv, InitData
<1>2. (Inv /\ DataInv) /\ [Next]_vars => (Inv /\ DataInv)'
    BY NextInv, NextData
<1> QED
    BY <1>1, <1>2, PTL DEF Spec

\* What process_data_frames has read for a channel was computed from this channel's
\* picture and is complete, for pictures and bursts of any size, although the areas of
\* the PL memory and the registers are used again for every channel.
THEOREM ResultsRight == Spec => []ResultsAreRight
<1>1. Inv /\ DataInv => ResultsAreRight
    BY DEF DataInv, ChannelsKept, Read, ResultsAreRight, Sound, OnTime, Without
<1> QED
    BY <1>1, DataSafety, PTL
=============================================================================

------------------------------- MODULE Encoder -------------------------------
(***************************************************************************)
(* The slave's use of the accelerator: pl_init, process_data_frames        *)
(* (main.c) and the calls of axitangxi.c they make.  The weights are       *)
(* written to PL memory.  Then the yuv channels are encoded one after the  *)
(* other: the channel is written to PL memory, the accelerator is          *)
(* configured and started, and the two results are read back.              *)
(***************************************************************************)
EXTENDS AxiTangxi

CONSTANTS
    ULens      \* the lengths of the u channel to try, in pixels

ASSUME EncoderAssumption ==
    ULens \subseteq {n \in Nat : AlignUp(8 * n) <= MemMax
                                 /\ AlignUp(8 * n * Ratio) <= MemMax}

VARIABLES
    uPc,     \* the next call of pl_init or process_data_frames
    chan,    \* k + 1
    uLen,    \* u_len
    lens,    \* trans[k].len and entropy[k].len
    gmm      \* for every element of a channel's array of gmm_t the index of the
             \* first of the parameters it was made from

callerVars == <<uPc, chan, uLen, lens, gmm>>
vars == <<axiVars, callerVars>>

Unset == -1

\* sizeof(int16_t) times the pixels: the luma channel has four times as many.
PictureSize(k) == IF k = 1 THEN 8 * uLen ELSE 2 * uLen

\* The buffers hold what is read from the file or the frames before they are used.
Init ==
    /\ AxiInit
    /\ uLen \in ULens
    /\ psMem = [k \in Channel |-> [a \in Area |-> [i \in Offset |->
                    CASE a = "picture" /\ i < PictureSize(k) -> k
                      [] a = "weights" /\ i < WeightSize -> Weight
                      [] OTHER -> 0]]]
    /\ uPc = "init"
    /\ chan = 1
    /\ lens = [k \in Channel |-> [trans |-> 0, entropy |-> 0]]
    /\ gmm = [k \in Channel |-> <<>>]

deviceRest == <<comp, signalled, irqReg, inIrq, dma, acc, plMem, psMem>>

\* pl_init: pl_config writes the weights.  It returns -2, and not the -1 that
\* pl_init looks for, if the file cannot be read or there is no memory for it.
PlInit ==
    /\ uPc = "init"
    /\ reg' = [reg EXCEPT !.weight = "weights"]
    /\ \/ BeginTransfer("toPL", "weights", chan, WeightSize)
          /\ UNCHANGED hwFaults
       \/ HwFault("nofile") /\ UNCHANGED <<kPc, xfer>>
    /\ uPc' = "write"
    /\ UNCHANGED <<deviceRest, chan, uLen, lens, gmm>>

\* pl_io that gets to its ioctl
PlIo(dir, area, size, next) ==
    /\ size > 0
    /\ BeginTransfer(dir, area, chan, size)
    /\ uPc' = next
    /\ UNCHANGED hwFaults

\* pl_write
PlWrite(area, size, next) == PlIo("toPL", area, size, next)

\* pl_read
PlRead(area, size, next) == PlIo("toPS", area, size, next)

\* There is no memory to map: the program ends.
NoMemory(size) ==
    /\ kPc = "idle"
    /\ IF size = 0 THEN UNCHANGED hwFaults ELSE HwFault("nomem")
    /\ uPc' = "exit"
    /\ UNCHANGED <<kPc, xfer>>

\* pl_write of the picture.  The buffers of all channels are mapped and filled
\* before the first one is written.
Write ==
    /\ uPc = "write"
    /\ \/ PlWrite("picture", PictureSize(chan), "config")
       \/ chan = 1 /\ NoMemory(PictureSize(chan))
    /\ UNCHANGED <<deviceRest, reg, chan, uLen, lens, gmm>>

\* pl_run, NETWORK_ACC_CONFIG; the picture's buffer has been unmapped.
Config ==
    /\ uPc = "config"
    /\ AccConfig(PictureSize(chan))
    /\ uPc' = "start"
    /\ UNCHANGED <<chan, uLen, lens, gmm>>

\* pl_run, NETWORK_ACC_START
Start ==
    /\ uPc = "start"
    /\ AccStart
    /\ uPc' = "get"
    /\ UNCHANGED <<chan, uLen, lens, gmm>>

\* pl_get, NETWORK_ACC_GET
Get ==
    /\ uPc = "get"
    /\ AccGet
    /\ uPc' = "trans"
    /\ UNCHANGED <<chan, uLen, lens, gmm>>

\* pl_get, pl_read of the transform coefficients
ReadTrans ==
    /\ uPc = "trans"
    /\ \/ PlRead("trans", reg.trans, "entropy")
       \/ NoMemory(reg.trans)
    /\ UNCHANGED <<deviceRest, reg, chan, uLen, lens, gmm>>

\* As many bytes as there are coefficients (a mutant of ReadEntropy).
ReadEntropyShort ==
    /\ uPc = "entropy"
    /\ PlRead("entropy", reg.trans, "next")
    /\ UNCHANGED <<deviceRest, reg, chan, uLen, lens, gmm>>

\* pl_get, pl_read of the entropy parameters
ReadEntropy ==
    /\ uPc = "entropy"
    /\ \/ PlRead("entropy", reg.entropy, "next")
       \/ NoMemory(reg.entropy)
    /\ UNCHANGED <<deviceRest, reg, chan, uLen, lens, gmm>>

\* The end of the loop over the channels: lengths in words of 16 bits.
NextChannel ==
    /\ uPc = "next"
    /\ kPc = "idle"
    /\ lens' = [lens EXCEPT ![chan] = [trans |-> reg.trans \div 2,
                                      entropy |-> reg.entropy \div 2]]
    /\ IF chan < 3 THEN chan' = chan + 1 /\ uPc' = "write"
                   ELSE uPc' = "code" /\ UNCHANGED chan
    /\ UNCHANGED <<axiVars, uLen, gmm>>

\* entropy_to_gmm: the index of gmm advances with the one of the parameters.
EntropyToGmm(len) ==
    [i \in 1..len |-> IF (i - 1) % Ratio = 0 THEN i - 1 ELSE Unset]

\* The number of gmm_t of a channel.
GmmLen(k) == lens[k].entropy \div Ratio

\* The rest of process_data_frames: the assertion and the entropy coding.
Code ==
    /\ uPc = "code"
    /\ IF \A k \in Channel : GmmLen(k) = lens[k].trans
       THEN uPc' = "done" /\ gmm' = [k \in Channel |-> EntropyToGmm(GmmLen(k))]
       ELSE uPc' = "exit" /\ UNCHANGED gmm
    /\ UNCHANGED <<axiVars, chan, uLen, lens>>

CallerStep ==
    \/ PlInit \/ Write \/ Config \/ Start \/ Get \/ ReadTrans \/ ReadEntropy
    \/ NextChannel \/ Code

\* Nothing is left to do, or the kernel has gone astray.
Finished == (uPc \in {"done", "exit"} \/ kPc = "stray") /\ UNCHANGED vars

Next ==
    \/ CallerStep
    \/ (DriverStep \/ DeviceStep \/ Stall \/ Hang \/ OtherGet \/ OtherReturns)
          /\ UNCHANGED callerVars
    \/ Finished

\* The caller and the driver run on, the device reacts, interrupts are served.
Fairness ==
    /\ WF_vars(CallerStep)
    /\ WF_vars(DriverStep /\ UNCHANGED callerVars)
    /\ WF_vars(DeviceStep /\ UNCHANGED callerVars)

Spec == Init /\ [][Next]_vars /\ Fairness

-----------------------------------------------------------------------------
Memory == [Offset -> 0..Weight]
Transfer == [dir : {"none", "toPL", "toPS"}, area : Area, chan : Channel, size : Nat,
             rem : Nat, beats : Nat, data : Nat, ps : Nat, pl : Nat]
Burst == [dir : {"none", "toPL", "toPS"}, area : Area, chan : Channel, ps : Nat, pl : Nat,
          beats : Nat, events : Seq(CompletingBothEnds)]
Accelerator == [running : BOOLEAN, weight : {"weights", "other"}, picture : Nat,
                trans : Nat, entropy : Nat]
Registers == [weight : {"weights", "other"}, trans : Nat, entropy : Nat]

TypeOK ==
    /\ kPc \in {"idle", "burst", "wait", "get", "stray"}
    /\ xfer \in Transfer
    /\ comp \in {"own", "other", "gone"}
    /\ signalled \in BOOLEAN
    /\ irqReg \in {"none"} \cup CompletingBothEnds
    /\ inIrq \in BOOLEAN
    /\ dma \in Burst
    /\ acc \in Accelerator
    /\ reg \in Registers
    /\ plMem \in [Area -> Memory]
    /\ psMem \in [Channel -> [Area -> Memory]]
    /\ hwFaults \subseteq HwFaults
    /\ uPc \in {"init", "write", "config", "start", "get", "trans", "entropy", "next",
                "code", "done", "exit"}
    /\ chan \in Channel
    /\ uLen \in ULens
    /\ lens \in [Channel -> [trans : Nat, entropy : Nat]]
    /\ gmm \in [Channel -> Seq({Unset} \cup Nat)]

\* None of these faults has happened.
Without(kinds) == hwFaults \cap kinds = {}

\* What was read for a channel was computed from the picture of this channel
\* and is complete, although the areas of the PL memory are used again for every
\* channel, although the accelerator may be done before anybody waits for it,
\* clean_irq may clear an interrupt nobody has read, and another program may take
\* the place of the slave's completion.  It needs every burst and run to end in time
\* and weights; for the first channel it does not matter that NETWORK_ACC_GET
\* overwrites the address of the weights.
ResultsAreRight ==
    Without({"stall", "hang", "timeout", "nofile"}) =>
        \A k \in Channel :
            (k < chan \/ uPc \in {"code", "done"}) /\ (k = 1 \/ Without({"stack"})) =>
                /\ \A i \in 0..(PictureSize(k) - 1) : psMem[k]["trans"][i] = k
                /\ \A i \in 0..(Ratio * PictureSize(k) - 1) :
                      psMem[k]["entropy"][i] = k

\* The burst the driver waits for is not empty (the register takes beats - 1), reads
\* and writes at the same distance from both ends, and stays inside the buffer
\* rounded up to whole beats, whether the bursts before it ended in time or not.
BurstsStayInside ==
    kPc = "wait" /\ dma # NoBurst =>
        /\ dma.beats \in 1..BurstSize
        /\ dma.ps = dma.pl
        /\ dma.ps + dma.beats * Align <= AlignUp(xfer.size)

\* The interrupt handler finds the completion that it is meant for, although a
\* completion is gone as soon as the call that waits for it returns.  As long as every
\* burst and run ends in time and no other program waits for the accelerator, there is
\* one moment for it to be gone too soon: between NETWORK_ACC_START and
\* NETWORK_ACC_GET, if the accelerator is done by then.  At any other moment at which
\* nobody waits the device has nothing under way and no interrupt is left to serve.
NoStrayCompletion ==
    Without({"other", "timeout"}) =>
        /\ kPc = "stray" => "early" \in hwFaults
        /\ comp = "gone" /\ uPc # "get" /\ kPc # "stray" =>
              /\ dma = NoBurst
              /\ ~acc.running
              /\ irqReg \in Completing => inIrq

\* Every coefficient is coded with its own parameters: entropy_to_gmm does not
\* compute, "output = input" (transmission_protocol.c).
CodedWithOwnParameters ==
    uPc = "done" =>
        \A k \in Channel : \A i \in 1..Len(gmm[k]) : gmm[k][i] = Ratio * (i - 1)

\* No call waits for ever, whatever the device does, and process_data_frames comes to
\* its end: the program gives up only if there is nothing to encode, no memory, or an
\* accelerator that does not end in time (or the kernel has gone astray).
EncoderStops ==
    <>(\/ uPc = "done"
       \/ uPc = "exit" /\ (uLen = 0 \/ ~Without({"nomem", "hang", "timeout"}))
       \/ kPc = "stray")
=============================================================================

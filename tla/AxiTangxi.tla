------------------------------ MODULE AxiTangxi ------------------------------
(***************************************************************************)
(* The kernel driver of the network accelerator (axi_tangxi.c and          *)
(* axitangxi_dev.c) and the device as the driver uses it.                  *)
(*                                                                         *)
(* A transfer between PS memory and PL memory is cut into bursts; the      *)
(* driver starts a burst by writing four registers and sleeps on a         *)
(* completion that lies on its own stack, to which the global              *)
(* axitangxi_irq_data.comp points.  The interrupt handler reads the task   *)
(* number from one register, completes what comp points to, and clears the *)
(* register.                                                               *)
(*                                                                         *)
(* The content of a memory is, for every byte, the yuv channel the byte    *)
(* belongs to or was computed from, Weight for a byte of the weights, or 0 *)
(* for anything else.                                                      *)
(***************************************************************************)
EXTENDS Integers, Sequences, FiniteSets

CONSTANTS
    Align,        \* ADDR_ALIGN_BASE_16: bytes of one beat
    BurstSize,    \* BURST_SIZE: beats of a full burst
    Ratio,        \* entropy parameters per coefficient
    WeightSize,   \* bytes of the weights
    MemMax,       \* bound: bytes of every memory area
    HwFaults,     \* "stall": a burst never ends; "hang": a run of the
                  \* accelerator never ends; "timeout": a burst or a run ends, but
                  \* only after AXI_TANGXI_TIMEOUT;
                  \* "early": the accelerator ends before anybody waits for it;
                  \* "nomem": mmap fails; "nofile": the weights cannot be read;
                  \* "stack": an uninitialized variable holds something else;
                  \* "overlap": the device raises an interrupt before the one
                  \* before it has been cleared; "other": another program waits
                  \* for the accelerator
    MaxHwFaults   \* bound: how many of them happen, each once

ASSUME AxiAssumption ==
    /\ Align \in Nat \ {0}
    /\ BurstSize \in Nat \ {0}
    /\ Ratio \in Nat \ {0}
    /\ MemMax \in Nat
    /\ WeightSize \in 1..MemMax
    /\ HwFaults \subseteq {"stall", "hang", "timeout", "early", "nomem", "nofile",
                           "stack", "overlap", "other"}
    /\ MaxHwFaults \in Nat

Channel == 1..3
Weight == 4
Area == {"weights", "picture", "trans", "entropy"}
Offset == 0..(MemMax - 1)

VARIABLES
    kPc,       \* where the ioctl is: "idle" (none), "burst", "wait", "get"
    xfer,      \* locals of axitangxi_psddr_plddr and axitangxi_plddr_psddr
    comp,      \* where axitangxi_irq_data.comp points to: the completion of the
               \* "own" or the "other" program's ioctl, or one that is "gone"
    signalled, \* comp->done of the own one
    irqReg,    \* the register pl_irq_task_num
    inIrq,     \* irq_handler is between get_irq and clean_irq
    dma,       \* device: the burst under way
    acc,       \* device: the registers and the state of the accelerator
    reg,       \* the caller's network_acc_reg
    plMem,     \* the areas of the PL memory
    psMem,     \* for every channel the PS copy of the areas
    hwFaults   \* the kinds of faults that have happened so far

axiVars == <<kPc, xfer, comp, signalled, irqReg, inIrq, dma, acc, reg, plMem,
             psMem, hwFaults>>

NoTransfer == [dir |-> "none", area |-> "picture", chan |-> 1, size |-> 0,
               rem |-> 0, beats |-> 0, data |-> 0, ps |-> 0, pl |-> 0]

NoBurst == [dir |-> "none", area |-> "picture", chan |-> 1, ps |-> 0, pl |-> 0,
            beats |-> 0, events |-> <<>>]

AxiInit ==
    /\ kPc = "idle"
    /\ xfer = NoTransfer
    /\ comp = "gone"
    /\ signalled = FALSE
    /\ irqReg = "none"
    /\ inIrq = FALSE
    /\ dma = NoBurst
    /\ acc = [running |-> FALSE, weight |-> "other", picture |-> 0, trans |-> 0,
              entropy |-> 0]
    /\ reg = [weight |-> "other", trans |-> 0, entropy |-> 0]
    /\ plMem = [a \in Area |-> [i \in Offset |-> 0]]
    /\ hwFaults = {}

\* Faults of these kinds happen with the step; none of them for {}.
Faulty(kinds) ==
    /\ kinds \subseteq HwFaults \ hwFaults
    /\ Cardinality(hwFaults \cup kinds) <= MaxHwFaults
    /\ hwFaults' = hwFaults \cup kinds

HwFault(kind) == Faulty({kind})

-----------------------------------------------------------------------------
(* The ioctls PSDDR_TO_PLDDR and PLDDR_TO_PSDDR.                           *)

\* init_trans and the head of psddr_to_plddr or plddr_to_psddr.
BeginTransfer(dir, area, chan, size) ==
    /\ kPc = "idle"
    /\ xfer' = [dir |-> dir, area |-> area, chan |-> chan, size |-> size,
                rem |-> size, beats |-> BurstSize, data |-> Align * BurstSize,
                ps |-> 0, pl |-> 0]
    /\ kPc' = "burst"

\* A burst of whole beats: the last one is rounded down (a mutant of AlignUp).
AlignDown(n) == n - (n % Align)

AlignUp(n) == IF n % Align # 0 THEN n + (Align - (n % Align)) ELSE n

\* Both addresses advance by the bytes of the burst.
Advance(n) == [xfer EXCEPT !.ps = @ + n, !.pl = @ + n, !.data = n]

\* The device raises one interrupt for either end of a burst.
Events(dir) ==
    IF dir = "toPL" THEN <<"MM2S_PS_DONE", "S2MM_PL_DONE">>
                    ELSE <<"MM2S_PL_DONE", "S2MM_PS_DONE">>

\* Every burst is a full one (a mutant of LastBurst).
NeverLast == FALSE

\* What remains is less than a full burst.
LastBurst == xfer.rem < xfer.data

\* mm2s_ps_data_s2mm_pl or s2mm_ps_data_mm2s_pl: the addresses and the size of a
\* burst are written, which starts it, in the place of one that is still under way.
BurstRegisters(beats) ==
    [dir |-> xfer.dir, area |-> xfer.area, chan |-> xfer.chan, ps |-> xfer.ps,
     pl |-> xfer.pl, beats |-> beats, events |-> Events(xfer.dir)]

\* One turn of the loop up to the wait: a new completion, and a burst.
StartBurst ==
    /\ kPc = "burst"
    /\ xfer.rem > 0
    /\ comp' = "own"
    /\ signalled' = FALSE
    /\ LET rem   == IF LastBurst THEN AlignUp(xfer.rem) ELSE xfer.rem
           data  == IF LastBurst THEN rem ELSE xfer.data
           beats == IF LastBurst THEN rem \div Align ELSE xfer.beats
       IN  /\ xfer' = [Advance(data) EXCEPT !.rem = rem - data, !.beats = beats]
           /\ dma' = BurstRegisters(beats)
    /\ kPc' = "wait"
    /\ UNCHANGED <<irqReg, inIrq, acc, reg, plMem, psMem, hwFaults>>

\* The device will signal nothing any more.
DeviceSilent == irqReg = "none" /\ ~inIrq /\ dma = NoBurst /\ ~acc.running

\* wait_for_completion_timeout returns when it is signalled or AXI_TANGXI_TIMEOUT is
\* over, whatever the device does by then.  The time is long: that it is over while
\* the device would still signal something is a fault.
WaitOver == IF signalled \/ DeviceSilent THEN {} ELSE {"timeout"}

\* A burst is over.  That it timed out is logged and has no consequence.
EndWait ==
    /\ kPc = "wait"
    /\ Faulty(WaitOver)
    /\ kPc' = "burst"
    /\ UNCHANGED <<xfer, comp, signalled, irqReg, inIrq, dma, acc, reg, plMem, psMem>>

\* The completion was on the stack of the ioctl that returns.
OwnGone == IF comp = "own" THEN "gone" ELSE comp

\* The ioctl returns 0.
EndTransfer ==
    /\ kPc = "burst"
    /\ xfer.rem = 0
    /\ kPc' = "idle"
    /\ comp' = OwnGone
    /\ UNCHANGED <<xfer, signalled, irqReg, inIrq, dma, acc, reg, plMem, psMem,
                   hwFaults>>

-----------------------------------------------------------------------------
(* The ioctls of the accelerator.                                          *)

\* NETWORK_ACC_CONFIG: acc_config
AccConfig(size) ==
    /\ kPc = "idle"
    /\ acc' = [acc EXCEPT !.weight = reg.weight, !.picture = size]
    /\ UNCHANGED <<kPc, xfer, comp, signalled, irqReg, inIrq, dma, reg, plMem, psMem,
                   hwFaults>>

\* The control register is not written (a mutant of AccStart).
AccStartForgotten == kPc = "idle" /\ UNCHANGED axiVars

\* NETWORK_ACC_START: acc_start
AccStart ==
    /\ kPc = "idle"
    /\ acc' = [acc EXCEPT !.running = TRUE]
    /\ UNCHANGED <<kPc, xfer, comp, signalled, irqReg, inIrq, dma, reg, plMem, psMem,
                   hwFaults>>

\* NETWORK_ACC_GET: acc_complete up to the wait
AccGet ==
    /\ kPc = "idle"
    /\ comp' = "own"
    /\ signalled' = FALSE
    /\ kPc' = "get"
    /\ UNCHANGED <<xfer, irqReg, inIrq, dma, acc, reg, plMem, psMem, hwFaults>>

\* acc_get_trans_size, acc_get_entropy_size and the addresses: what the result
\* registers hold, beside an address of the weights.
Results(weight) == [weight |-> weight, trans |-> acc.trans, entropy |-> acc.entropy]

\* acc_complete returns; axitangxi_ioctl does not look at what it returned,
\* reads the result registers into iargs and copies all of iargs to the caller:
\* with the results goes an address of the weights that nobody has set.  It is
\* the one NETWORK_ACC_CONFIG left on the stack, or something else.
EndGet ==
    /\ kPc = "get"
    /\ kPc' = "idle"
    /\ comp' = OwnGone
    /\ \E left \in {acc.weight, "other"} :
          /\ reg' = Results(left)
          /\ Faulty(WaitOver \cup IF left = acc.weight THEN {} ELSE {"stack"})
    /\ UNCHANGED <<xfer, signalled, irqReg, inIrq, dma, acc, plMem, psMem>>

-----------------------------------------------------------------------------
(* Interrupts.                                                             *)

\* Completion at either end of a burst (a mutant of Completing).
CompletingBothEnds == {"MM2S_PS_DONE", "MM2S_PL_DONE", "S2MM_PS_DONE",
                       "S2MM_PL_DONE", "NETWORK_ACC_DONE"}

\* The task numbers for which irq_handler calls complete().
Completing == {"S2MM_PS_DONE", "S2MM_PL_DONE", "NETWORK_ACC_DONE"}

\* irq_handler up to the work.  To complete something that is no longer there
\* writes to a part of a stack that has another use by now: it has no effect, or
\* the kernel is astray ("stray") and is not followed further.
IrqHandler ==
    /\ irqReg # "none"
    /\ ~inIrq
    /\ inIrq' = TRUE
    /\ IF irqReg \in Completing
       THEN CASE comp = "own"   -> signalled' = TRUE /\ UNCHANGED kPc
              [] comp = "other" -> UNCHANGED <<kPc, signalled>>
              [] comp = "gone"  -> kPc' \in {kPc, "stray"} /\ UNCHANGED signalled
       ELSE UNCHANGED <<kPc, signalled>>
    /\ UNCHANGED <<xfer, comp, irqReg, dma, acc, reg, plMem, psMem, hwFaults>>

\* clean_irq clears the register, whatever it holds by now.
CleanIrq ==
    /\ inIrq
    /\ inIrq' = FALSE
    /\ irqReg' = "none"
    /\ UNCHANGED <<kPc, xfer, comp, signalled, dma, acc, reg, plMem, psMem, hwFaults>>

\* Another program calls NETWORK_ACC_GET: comp is one for all.
OtherGet ==
    /\ HwFault("other")
    /\ comp' = "other"
    /\ UNCHANGED <<kPc, xfer, signalled, irqReg, inIrq, dma, acc, reg, plMem, psMem>>

\* Its ioctl returns, after an interrupt or the timeout.
OtherReturns ==
    /\ comp = "other"
    /\ comp' = "gone"
    /\ UNCHANGED <<kPc, xfer, signalled, irqReg, inIrq, dma, acc, reg, plMem, psMem,
                   hwFaults>>

-----------------------------------------------------------------------------
(* The device, as far as the driver knows it.  It raises an interrupt when *)
(* the register has been cleared, or, a fault, already before.             *)

Raise(event) ==
    /\ irqReg' = event
    /\ IF irqReg = "none" THEN UNCHANGED hwFaults ELSE HwFault("overlap")

\* The bytes [from, from + n) of one memory copied to [to, to + n) of another.
Copied(old, to, new, from, n) ==
    [i \in Offset |-> IF i >= to /\ i < to + n THEN new[i - to + from] ELSE old[i]]

\* An end of the burst has been reached; after the second one the data is there.
DmaEvent ==
    /\ dma # NoBurst
    /\ Raise(Head(dma.events))
    /\ LET n == dma.beats * Align
       IN  CASE Len(dma.events) = 2 ->
                   /\ dma' = [dma EXCEPT !.events = Tail(@)]
                   /\ UNCHANGED <<plMem, psMem>>
             [] Len(dma.events) = 1 /\ dma.dir = "toPL" ->
                   /\ dma' = NoBurst
                   /\ plMem' = [plMem EXCEPT ![dma.area] = Copied(@, dma.pl,
                                    psMem[dma.chan][dma.area], dma.ps, n)]
                   /\ UNCHANGED psMem
             [] Len(dma.events) = 1 /\ dma.dir = "toPS" ->
                   /\ dma' = NoBurst
                   /\ psMem' = [psMem EXCEPT ![dma.chan][dma.area] = Copied(@,
                                    dma.ps, plMem[dma.area], dma.pl, n)]
                   /\ UNCHANGED plMem
    /\ UNCHANGED <<kPc, xfer, comp, signalled, inIrq, acc, reg>>

\* The weights are in the PL memory and their address is the one configured.
WeightsInPlace ==
    /\ acc.weight = "weights"
    /\ \A i \in 0..(WeightSize - 1) : plMem["weights"][i] = Weight

\* What the accelerator makes of the picture: results of this channel if all
\* bytes of the picture belong to one channel.
ResultOf(size) ==
    LET tag == plMem["picture"][0]
    IN  IF /\ WeightsInPlace
           /\ \A i \in 0..(size - 1) : plMem["picture"][i] = tag
        THEN tag ELSE 0

Written(old, n, tag) == [i \in Offset |-> IF i < n THEN tag ELSE old[i]]

\* The accelerator has finished: while somebody waits for it, after a wait that was
\* too short, or, a fault, before anybody waits.
AccDone ==
    /\ acc.running
    /\ \/ (kPc = "get" \/ "timeout" \in hwFaults) /\ Raise("NETWORK_ACC_DONE")
       \/ kPc # "get" /\ irqReg = "none" /\ irqReg' = "NETWORK_ACC_DONE"
          /\ HwFault("early")
    /\ LET n == acc.picture
       IN  /\ acc' = [acc EXCEPT !.running = FALSE, !.trans = n,
                                 !.entropy = Ratio * n]
           /\ plMem' = [plMem EXCEPT !["trans"] = Written(@, n, ResultOf(n)),
                            !["entropy"] = Written(@, Ratio * n, ResultOf(n))]
    /\ UNCHANGED <<kPc, xfer, comp, signalled, inIrq, dma, reg, psMem>>

\* A burst does not end.
Stall ==
    /\ dma # NoBurst
    /\ HwFault("stall")
    /\ dma' = NoBurst
    /\ UNCHANGED <<kPc, xfer, comp, signalled, irqReg, inIrq, acc, reg, plMem, psMem>>

\* A run of the accelerator does not end.
Hang ==
    /\ acc.running
    /\ HwFault("hang")
    /\ acc' = [acc EXCEPT !.running = FALSE]
    /\ UNCHANGED <<kPc, xfer, comp, signalled, irqReg, inIrq, dma, reg, plMem, psMem>>

DriverStep == StartBurst \/ EndWait \/ EndTransfer \/ EndGet
DeviceStep == DmaEvent \/ AccDone \/ IrqHandler \/ CleanIrq
=============================================================================

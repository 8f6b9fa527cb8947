------------------------------ MODULE BareMetal ------------------------------
(***************************************************************************)
(* The bare-metal test of the accelerator (hw/src/main.c and axi_tangxi.c): *)
(* the program iwave_initial, the interrupt handler it shares the CPU and  *)
(* the task number register with, the SD card, and the device.             *)
(*                                                                         *)
(* The program moves the picture and the weights to PL memory and back in  *)
(* chunks of one burst each (PICTURE_BURST_SIZE is 16 * BURST_SIZE), starts *)
(* the network, polls the register until it is done, and saves the result. *)
(* It does not wait for a burst, but sleeps.  The flags the handler keeps  *)
(* for the loopback, which nothing calls, are left out.                    *)
(***************************************************************************)
EXTENDS Naturals, Sequences, FiniteSets

CONSTANTS
    Chunks,      \* the number of chunks of the picture and of the weights: 16, 9
    Faults,      \* "mount": the card cannot be mounted; "format": and not
                 \* after, or not even by, a format either;
                 \* "file": a file cannot be read; "slow": a burst takes longer
                 \* than the program sleeps
    MaxFaults    \* bound: how many different ones happen

ASSUME BareMetalAssumption ==
    /\ Chunks \in [{"picture", "weights"} -> Nat \ {0}]
    /\ Faults \subseteq {"mount", "format", "file", "slow"}
    /\ MaxFaults \in Nat

VARIABLES
    pc,       \* where iwave_initial is
    count,    \* p_count or w_count
    irq0,     \* what the poll has read last
    ps,       \* PS memory: for every area the content of its chunks
    pl,       \* PL memory
    card,     \* the files of the SD card
    dma,      \* the burst under way
    irqReg,   \* PL_IRQ_TASK_NUM
    pending,  \* the interrupt line
    inIrq,    \* interrupt_handler is between get_irq and clean_irq
    engine,   \* the accelerator: "idle", "running" or "done"
    regsFit,  \* its registers happen to hold what iargs says
    missed,   \* history: the handler has cleared NETWORK_ACC_DONE before the
              \* program has read it
    faults    \* the faults so far

vars == <<pc, count, irq0, ps, pl, card, dma, irqReg, pending, inIrq, engine, regsFit,
          missed, faults>>

cpuRest == <<irqReg, pending, inIrq, engine, regsFit, missed>>

\* The areas of the memories: what is moved, its copy in PS memory, the result
PsArea == {"picture", "weights", "pictureCopy", "weightsCopy", "trans"}
PlArea == {"picture", "weights", "trans"}
ChunksOf(area) == IF area \in {"weights", "weightsCopy"} THEN Chunks["weights"]
                                                        ELSE Chunks["picture"]

\* A content: nothing, a part of a file, or of the result of the network
Nothing == <<"nothing", 0>>
Part(what, i) == <<what, i>>
Whole(what) == [i \in 1..ChunksOf(what) |-> Part(what, i)]
Empty(area) == [i \in 1..ChunksOf(area) |-> Nothing]

NoBurst == [from |-> "none", to |-> "none", toPl |-> FALSE, at |-> 0, events |-> <<>>]

\* main up to iwave_initial; the memories are empty, the card holds its files and
\* the registers of the network, which nobody writes, hold anything.
Init ==
    /\ pc = "mount"
    /\ count = 1
    /\ irq0 = "none"
    /\ ps = [a \in PsArea |-> Empty(a)]
    /\ pl = [a \in PlArea |-> Empty(a)]
    /\ card = [weights |-> Whole("weights"), picture |-> Whole("picture"),
               trans |-> Empty("trans")]
    /\ dma = NoBurst
    /\ irqReg = "none"
    /\ pending = FALSE
    /\ inIrq = FALSE
    /\ engine = "idle"
    /\ regsFit \in BOOLEAN
    /\ missed = FALSE
    /\ faults = {}

Fault(kind) ==
    /\ kind \in Faults
    /\ Cardinality(faults \cup {kind}) <= MaxFaults
    /\ faults' = faults \cup {kind}

\* The program runs, but not while the handler has interrupted it.
Running(at) == pc = at /\ ~inIrq

-----------------------------------------------------------------------------
(* The SD card                                                             *)

Formatted == [f \in DOMAIN card |-> Empty(f)]

\* sd_mount: a card that cannot be mounted is formatted.
Mounted ==
    \/ UNCHANGED <<card, faults>>
    \/ Fault("mount") /\ card' = Formatted

NotMounted == Fault("format") /\ card' \in {card, Formatted}

\* sd_test.  What the calls return is not looked at: a file that cannot be read
\* leaves the memory as it is.  iwave_initial goes on even without a card.
SdTest ==
    /\ Running("mount")
    /\ \/ /\ Mounted
          /\ ps' = [ps EXCEPT !["weights"] = card'.weights, !["picture"] = card'.picture]
       \/ NotMounted /\ UNCHANGED ps
    /\ pc' = "pictureOut"
    /\ UNCHANGED <<count, irq0, pl, dma, cpuRest>>

\* The same, and one of the files cannot be read.
SdTestFileMissing ==
    /\ Running("mount")
    /\ Fault("file")
    /\ \E f \in {"weights", "picture"} : ps' = [ps EXCEPT ![f] = card[f]]
    /\ pc' = "pictureOut"
    /\ UNCHANGED <<count, irq0, pl, card, dma, cpuRest>>

\* The card is formatted every time (a mutant of SdWrite).
SdWriteFormats ==
    /\ Running("save")
    /\ card' = [Formatted EXCEPT !.trans = ps["trans"]]
    /\ pc' = "end"
    /\ UNCHANGED <<count, irq0, ps, pl, dma, cpuRest, faults>>

\* sd_write: the result goes to a file.
SdWrite ==
    /\ Running("save")
    /\ \/ NotMounted
       \/ UNCHANGED faults /\ card' = [card EXCEPT !.trans = ps["trans"]]
       \/ Fault("mount") /\ card' = [Formatted EXCEPT !.trans = ps["trans"]]
    /\ pc' = "end"
    /\ UNCHANGED <<count, irq0, ps, pl, dma, cpuRest>>

-----------------------------------------------------------------------------
(* The transfers                                                           *)

\* For every loop over chunks: from where, to where, and what follows
Loop == [pictureOut  |-> [from |-> "picture", to |-> "picture", next |-> "pictureBack",
                          toPl |-> TRUE],
         pictureBack |-> [from |-> "picture", to |-> "pictureCopy", next |-> "weightsOut",
                          toPl |-> FALSE],
         weightsOut  |-> [from |-> "weights", to |-> "weights", next |-> "weightsBack",
                          toPl |-> TRUE],
         weightsBack |-> [from |-> "weights", to |-> "weightsCopy", next |-> "start",
                          toPl |-> FALSE],
         transBack   |-> [from |-> "trans", to |-> "trans", next |-> "save",
                          toPl |-> FALSE]]

\* The program does not sleep (a mutant of Slept).
SleptNot == UNCHANGED faults

\* The burst ends while the program sleeps, or the sleep was too short.
Slept == \/ dma = NoBurst /\ UNCHANGED faults
         \/ dma # NoBurst /\ Fault("slow")

\* The PL address does not advance (a mutant of BurstFor).
BurstForFirst(l, i) ==
    [from |-> l.from, to |-> l.to, toPl |-> l.toPl, at |-> 1, events |-> <<"MM2S", "S2MM">>]

\* The registers for chunk i, at the same place of both areas
BurstFor(l, i) ==
    [from |-> l.from, to |-> l.to, toPl |-> l.toPl, at |-> i, events |-> <<"MM2S", "S2MM">>]

\* The chunk is not counted (a mutant of MoveChunk).
MoveChunkAgain(at) ==
    /\ Running(at)
    /\ Slept
    /\ dma' = BurstFor(Loop[at], count)
    /\ UNCHANGED <<pc, count, irq0, ps, pl, card, cpuRest>>

\* A turn of a loop: batch_mm2s_ps_data_s2mm_pl or batch_s2mm_ps_data_mm2s_pl.  The
\* registers of a burst that is still under way are overwritten: either of the two
\* is lost.
MoveChunk(at) ==
    /\ Running(at)
    /\ Slept
    /\ count <= ChunksOf(Loop[at].from)
    /\ dma' \in {BurstFor(Loop[at], count)} \cup (IF dma = NoBurst THEN {} ELSE {dma})
    /\ count' = count + 1
    /\ UNCHANGED <<pc, irq0, ps, pl, card, cpuRest>>

\* The next loop counts from 0 (a mutant of EndLoop).
EndLoopAtZero(at) ==
    /\ Running(at)
    /\ Slept
    /\ count > ChunksOf(Loop[at].from)
    /\ pc' = Loop[at].next
    /\ count' = 0
    /\ UNCHANGED <<irq0, ps, pl, card, dma, cpuRest>>

\* The end of a loop, and a sleep of a second.
EndLoop(at) ==
    /\ Running(at)
    /\ Slept
    /\ count > ChunksOf(Loop[at].from)
    /\ pc' = Loop[at].next
    /\ count' = 1
    /\ UNCHANGED <<irq0, ps, pl, card, dma, cpuRest>>

-----------------------------------------------------------------------------
(* The network                                                             *)

\* iwave_start: the control register.  iargs is filled in, and not written.
IwaveStart ==
    /\ Running("start")
    /\ engine' = "running"
    /\ pc' = "poll"
    /\ UNCHANGED <<count, irq0, ps, pl, card, dma, irqReg, pending, inIrq, regsFit, missed,
                   faults>>

\* get_irq gives the number the poll waits for.
Seen == irqReg = "NETWORK_ACC_DONE"

\* A turn of the poll
Poll ==
    /\ Running("poll")
    /\ irq0' = irqReg
    /\ pc' = IF Seen THEN "clean" ELSE "poll"
    /\ UNCHANGED <<count, ps, pl, card, dma, cpuRest, faults>>

\* clean_irq behind the poll
Clean ==
    /\ Running("clean")
    /\ irqReg' = "none"
    /\ pc' = "transBack"
    /\ UNCHANGED <<count, irq0, ps, pl, card, dma, pending, inIrq, engine, regsFit, missed,
                   faults>>

ProgramStep ==
    \/ SdTest \/ SdTestFileMissing \/ SdWrite
    \/ \E at \in DOMAIN Loop : MoveChunk(at) \/ EndLoop(at)
    \/ IwaveStart \/ Poll \/ Clean

-----------------------------------------------------------------------------
(* The interrupt handler                                                   *)

HandlerBegins ==
    /\ pending
    /\ ~inIrq
    /\ inIrq' = TRUE
    /\ pending' = FALSE
    /\ UNCHANGED <<pc, count, irq0, ps, pl, card, dma, irqReg, engine, regsFit, missed,
                   faults>>

HandlerEnds ==
    /\ inIrq
    /\ inIrq' = FALSE
    /\ irqReg' = "none"
    /\ missed' = (missed \/ (irqReg = "NETWORK_ACC_DONE" /\ pc = "poll"))
    /\ UNCHANGED <<pc, count, irq0, ps, pl, card, dma, pending, engine, regsFit, faults>>

-----------------------------------------------------------------------------
(* The device, as the program uses it                                      *)

Raise(event) == irqReg' = event /\ pending' = TRUE

\* One end of the burst, and then the other, when the chunk has been moved.
DmaEvent ==
    /\ dma # NoBurst
    /\ Raise(Head(dma.events))
    /\ IF Len(dma.events) > 1
       THEN dma' = [dma EXCEPT !.events = Tail(@)] /\ UNCHANGED <<ps, pl>>
       ELSE /\ dma' = NoBurst
            /\ IF dma.toPl
               THEN pl' = [pl EXCEPT ![dma.to][dma.at] = ps[dma.from][dma.at]] /\ UNCHANGED ps
               ELSE ps' = [ps EXCEPT ![dma.to][dma.at] = pl[dma.from][dma.at]] /\ UNCHANGED pl
    /\ UNCHANGED <<pc, count, irq0, card, inIrq, engine, regsFit, missed, faults>>

InputInPlace == \A f \in {"weights", "picture"} : pl[f] = Whole(f)

\* The network has finished; its result is right if it had its inputs.
NetworkDone ==
    /\ engine = "running"
    /\ engine' = "done"
    /\ Raise("NETWORK_ACC_DONE")
    /\ pl' = [pl EXCEPT !["trans"] = IF regsFit /\ InputInPlace THEN Whole("trans")
                                                              ELSE Empty("trans")]
    /\ UNCHANGED <<pc, count, irq0, ps, card, dma, inIrq, regsFit, missed, faults>>

DeviceStep == DmaEvent \/ NetworkDone
HandlerStep == HandlerBegins \/ HandlerEnds

\* while (1);
Halted == pc = "end" /\ UNCHANGED vars

Next == ProgramStep \/ HandlerStep \/ DeviceStep \/ Halted

\* The CPU runs, interrupts are delivered, the device works.
Fairness == WF_vars(ProgramStep) /\ WF_vars(HandlerStep) /\ WF_vars(DeviceStep)

Spec == Init /\ [][Next]_vars /\ Fairness

-----------------------------------------------------------------------------
Content == {Nothing} \cup {Part(f, i) : f \in PlArea, i \in 1..(Chunks["picture"] + Chunks["weights"])}

TypeOK ==
    /\ pc \in DOMAIN Loop \cup {"mount", "start", "poll", "clean", "save", "end"}
    /\ count \in 1..(Chunks["picture"] + Chunks["weights"])
    /\ irq0 \in {"none", "MM2S", "S2MM", "NETWORK_ACC_DONE"}
    /\ irqReg \in {"none", "MM2S", "S2MM", "NETWORK_ACC_DONE"}
    /\ \A a \in PsArea : ps[a] \in [1..ChunksOf(a) -> Content]
    /\ \A a \in PlArea : pl[a] \in [1..ChunksOf(a) -> Content]
    /\ \A f \in PlArea : card[f] \in [1..ChunksOf(f) -> Content]
    /\ engine \in {"idle", "running", "done"}
    /\ pending \in BOOLEAN
    /\ inIrq \in BOOLEAN
    /\ regsFit \in BOOLEAN
    /\ missed \in BOOLEAN
    /\ faults \subseteq Faults

Without(kinds) == faults \cap kinds = {}

\* The network starts on the picture and the weights of the card, all of them in
\* PL memory, though the program only sleeps until a burst is over.
StartsOnInput ==
    engine # "idle" /\ Without({"mount", "format", "file", "slow"}) => InputInPlace

\* What is read back for the comparison is what was moved out, whatever was in it:
\* a file that could not be read goes unnoticed by it.
CopiesAgree ==
    pc \in {"start", "poll", "clean", "transBack", "save", "end"} /\ Without({"slow"}) =>
        ps["pictureCopy"] = ps["picture"] /\ ps["weightsCopy"] = ps["weights"]

\* The file holds the result of the network, if its registers were right without
\* being written; and the files read at the beginning are still on the card, unless
\* it had to be formatted.
SavedIsResult ==
    pc = "end" =>
        /\ faults = {} /\ regsFit => card.trans = Whole("trans")
        /\ Without({"mount", "format"}) =>
              card.weights = Whole("weights") /\ card.picture = Whole("picture")

\* The program comes to its end ("network complete!", main.c) and stays there,
\* unless the interrupt handler has cleared the number the poll was waiting for: then
\* it polls for ever, as nothing raises the number again and the poll has no timeout.
\* A burst that is late may write its own number over the one that is polled for.
EndsUnlessMissed ==
    <>[](pc = "end" \/ (missed /\ pc = "poll") \/ ~Without({"slow"}))
=============================================================================

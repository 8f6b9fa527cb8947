# Verification of soc

soc turns a Zynq board into a picture encoder. A PC (the *master*) sends raw YUV
pictures over a serial line to the board (the *slave*), the board encodes them
with a neural network accelerator in the FPGA and an arithmetic coder, and the
master fetches the bit streams. This directory holds TLA+ models of that
program, the TLC configurations that check them and TLAPS proofs about them.

Paths below are relative to `src/`; `app/` stands for
`project-spec/meta-user/recipes-apps/autostart/src/` and `drv/` for
`project-spec/meta-user/recipes-modules/axi-tangxi/`.

## 1. Inventory

| Component | State | Operations | Talks to |
|---|---|---|---|
| Transmission library, `app/transmission_protocol.c` | none of its own but `n_total_frame` | `send_frame`, `send_data_frame`, `receive_frame`, `receive_data_frames`, splitting data into frames | the tty, by `epoll_wait`, `read`, `write` |
| Slave, `app/main.c` | `data_frame_infos[8]` (buffer, `len`, `total_len`), `bit_streams[8]`; all in memory | the request loop: QUERY, SEND + data + encoding, RECV + data | line, accelerator |
| Master, `app/master.c` | place in `main()`, `n_files`, the array being received, the files written | for each picture query / offer / upload / query, then for each picture poll / fetch / save | line, files |
| Accelerator library, `app/axitangxi.c` | the caller's `network_acc_reg` | `pl_init`, `pl_write`, `pl_run`, `pl_get` | driver, by `ioctl` and `mmap` |
| Driver, `drv/axi_tangxi.c`, `drv/axitangxi_dev.c` | the global `axitangxi_irq_data.comp`, device registers | transfers in bursts, configure / start / get, `irq_handler` | device registers, interrupts |
| Driver's memory and files, `drv/axitangxi_dev.c`, `drv/axi_tangxi_platform.c` | the device structure, its list of DMA buffers, open files, mappings | `probe`, `remove`, `open`, `release`, `mmap`, `munmap`, address lookup | the kernel, all processes that use the device |
| Arithmetic coder, `app/coding.cpp`, `app/arithmetic_coding.cpp` | the interval `[low, high]`, `numUnderflow`, the stream of bits, the frequency table of a coefficient | `codings` | called by the slave |
| CRC, file helpers, `app/crc.c`, `app/utils.c` | none | `crc16`, `mkdir_p`, `dump_mem`, `fd_to_epoll_fds` | called by both programs |
| UART, `hw/project.srcs/.../uart*.v` | shift registers, counters | receive a byte, send it back | FPGA pins |
| Bare-metal test, `hw/src/main.c`, `hw/src/axi_tangxi.c` | memory areas, files of the SD card | `iwave_initial`, `interrupt_handler` | device registers, interrupts, SD card |

What is hard here, and a test hardly reaches:

* **Two programs and an unreliable line.** Requests carry no sequence number, a
  request is repeated when no answer came for `LOOP_PERIOD`, and the reader of a
  control frame takes 12 bytes wherever it stands. A byte too few or a reply too
  many puts a reader out of step; a data frame (534 bytes) is not a multiple of a
  control frame (12 bytes).
* **Slots by position.** `receive_data_frames` puts the i-th intact piece of its
  buffer in slot i and never looks at the `n_frame` the piece carries.
* **Timeouts.** Of a long read only the first byte has a timer; results of
  sends are mostly ignored; `-1` becomes 65535 in a `uint16_t`.
* **Memory across sessions.** The board keeps the pictures of an earlier run of
  the master and forgets all of them when it loses power.
* **Interrupts.** The driver waits on a completion on its own stack; a global
  points to it, and the accelerator is started by one ioctl and awaited by
  another. Timeouts are logged and ignored.
* **Lifetimes in the kernel.** One device structure serves all files; `release`
  frees it. Error paths of `mmap` and `probe` undo some of what was done. No lock
  protects the list of buffers. Freed memory mostly works, in a test.
* **Integer arithmetic of the coder.** Nothing compares a total frequency with the
  width of the interval, bits stay open over several coefficients, and a single
  wrong bit spoils all that follows.
* **A program and its own interrupt handler.** The bare-metal test polls a register
  that its handler clears, and sleeps where it ought to wait.

## 2. Modules

| Module | Models | Notes |
|---|---|---|
| `TransmissionProtocol` | line and library | two sequences of *units*, faults of the line |
| `Slave` | `app/main.c` | one action per handler part that blocks |
| `Master` | `app/master.c` | `mPhase` is the place in `main()`, `mAsked` the half of `send_and_receive_frame` |
| `Protocol` | both and the line | timers, fairness, properties |
| `PictureService` | nothing: the abstract service | pictures are encoded in order, then delivered in order |
| `ProtocolRefinement` | | `Protocol` implements `PictureService` (`RefinesService`) |
| `SlaveOpen` | the slave alone | the other end of the line may send any frame |
| `AxiTangxi` | driver and device | the device is modelled from how the driver uses it |
| `Encoder` | `pl_init`, `process_data_frames`, `app/axitangxi.c` | composes with `AxiTangxi` |
| `AxiDevice` | memory, files and registration of the driver | processes that open, map, transfer, unmap and close in any order |
| `ArithmeticCoding` | `app/coding.cpp`, `app/arithmetic_coding.cpp` | one action per turn of a loop, or per bit written |
| `Framing` | cutting a stream into data frames and back | pure operators |
| `FileFraming` | `fd_to_data_frames` | a file cut into frames, in memory nobody cleared |
| `BareMetal` | `hw/src/` | the program, its interrupt handler, card and device |
| `CodedStream` | | the other end of the stream: a decoder as reference, and the frames (`Framing`) |
| `MCProtocol`, `MCSlaveOpen`, `MCAxiDevice`, `MCBareMetal`, `MCArithmeticCoding` | | values of the constants for TLC |
| `ProtocolProofs` | | theorems about `Protocol` and `SlaveOpen`, whatever goes wrong |
| `TransferProofs` | | theorems about `Protocol` and `PictureService` under ordinary faults |
| `EncoderProofs` | | theorems about `Encoder` and `AxiTangxi` |
| `AxiDeviceProofs` | | theorems about `AxiDevice` |
| `CodingProofs` | | theorems about `ArithmeticCoding`, `Framing` and `FileFraming` |
| `RoundTripProofs` | | the theorem about coder and decoder (`CodedStream`) |
| `BareMetalProofs` | | theorems about `BareMetal` |
| `NumberLemmas` | | quotients, remainders, least elements and induction, for the proofs |

### The line and the library

Each direction is a sequence of units of 6 bytes, the greatest common divisor of
the two frame sizes: real frames are 2 and 89 units, the instances use 2 and 5
(odd as well, hence equally out of step after one control frame). A unit is
`<<frame, i>>`, the i-th piece of that frame, or `Noise`. `Intact` and `Accepted`
take exactly a complete frame, that is, CRC-16 is taken to detect every error;
`NoiseAssumption` says that `Noise` is not one of the units that are sent.
A frame's payload is an identity (`<<picture, i>>`, or `<<the frames the stream
was made from, i>>`), so that a frame in a wrong place shows. `Hollow` is the payload of an
intact frame whose `data_len` is 0, which neither program sends but another may:
`receive_data_frames` does not count it among the missing (`Accepted`), and still takes its
slot for one to be filled (`Vacant`). `Missing` counts, as the code does, the open slots for
which no intact piece came.

`receive_frame` consumes what it read, good or bad (`ReadLen`, `SlaveDiscard`,
`MasterMismatch`). `receive_data_frames` is one action at the moment its buffer
is full (`BufferFull`, `Fill`, `Missing`): it blocks until then, and the bytes it
has already taken are still counted to `up` or `down`, which nobody else reads.

Faults are chosen per run (`FaultKinds`) and bounded (`MaxFaults`): corruption
and loss on the line, reads that come too early, timeouts of option `-T`, a
master that gives up although the slave is about to answer, and loss of power.

### Slave and master

`infos` and `bits` are `data_frame_infos` and `bit_streams`; a stream is
represented by the frames it was made of, and `BitFrames` says how many frames it
takes on the line (as many as the picture has with data in a dry run, else `EncFrames`).
`sPc` is where the slave blocks: `wait`, `data` (in `receive_data_frames`),
`process` (in `process_data_frames`), `send` (between two data frames);
`overrun` stands for a write past the end of an array, after which nothing is
modelled, `exited` for `err()`: in a real encoding of no data at all there is no memory to
map (`SlaveProcess`). `FramesToData` is `data_frames_to_data`, which makes of frames without
data a stream of length 0. Each `case` of the switch is one action up to its
first blocking call; refusals, the default case and timeouts are actions of their
own.

The master's phases are `open` (`get_data_frames`), the requests `check`, `offer`,
`confirm`, `poll`, `fetch`, the loops `upload` and `download`, and `done`. An
element of `n_files` that is never written holds any value of `Garbage`. A session
is one run of the program; `MasterRestart` begins the next one at any moment.
`tcflush` drops any prefix of what is under way.

### Accelerator

`xfer` holds the locals of the two transfer loops, which differ only in the
direction; `comp` says whether what `axitangxi_irq_data.comp` points to is still
on a stack, `signalled` is its `done`. The content of a memory is, per byte, the
channel it belongs to or was computed from. The device raises one interrupt per
end of a burst and one when the accelerator is done. `irq_handler` is two steps,
`IrqHandler` (`get_irq` and `complete`) and `CleanIrq`, which clears the register:
the wait for a burst or for the accelerator ends when the completion is signalled, or when
its time is over, whatever the device does (`WaitOver`): it may never come to its end (`stall`,
`hang`), still be at work (`timeout`: its interrupt comes later, the next burst is written
over it), or have had its interrupt lost. Normally the device raises into a clear register, and with the fault `overlap` also
between the two, and the event is lost. `comp` is the slave's own completion, that
of another program in `NETWORK_ACC_GET` (fault `other`: `OtherGet`, `OtherReturns`),
or gone. `complete()` on a completion that has gone is undefined: it has no effect,
or the kernel is astray (`stray`). `NETWORK_ACC_GET` returns a struct of
which it set four fields only; the address of the weights in it is the one left on
the stack or another (`"stack"`). Of the entropy coding `Code` has the assertion on
the lengths and `entropy_to_gmm`: `gmm` says, for every element of the array the
coder reads, which parameters it was made from.

### Memory and files of the driver

`dev` is the memory the global `axitangxi_dev` and every `private_data` point to.
An allocation is a structure (`alloc`), a piece of DMA memory (`blocks`), an entry
of `addr_list` and a `vm_private_data` (`vma`); `mmap` makes all four or, in its
error paths (`NoStruct`, `NoData`, `NotMapped`), some. The list is modelled by its
pointers: `links` has `next` and `prev` of the anchor and of every entry.
`list_add` and `list_del` take two steps (`Backward`, `Forward`), between which
another process may begin its own (failure `race`), with the neighbours each has
read at its begin (`listOp`). `axitangxi_uservirt_to_phys` walks without a lock, so a transfer
is a step for every entry (`Ioctl`, `LookupGoesOn`, `LookupEnds`): `walk` says for which address
and at which entry a process is, and any operation of the other processes may come in between.
A process that unmaps the very entry another one's walk is at leaves that walk in freed memory
(`Stranded`, `LookupStrays`). A mapping keeps its file, so
`release` runs with the last `close` or `munmap`, and the kernel does not unload a
driver with open files. `probe` is two actions, because the device node is there
before the registers are mapped and the list is initialized. Every use of memory
that is not, or no longer, what it is used for sets `misused`; what the kernel does
then is not followed.

### Arithmetic coder

`pc` is where `codings` is: before a subband, before a coefficient (`symbol`), in the
first loop of `ArithmeticCoderBase::update` (`shift`), in the loop of
`ArithmeticEncoder::shift` that writes the open bits (`open`), in the second loop of
`update` (`underflow`), or at the bits that end the stream (`fill`).
The frequency table is operators: `softmax`, `CumFreq`, `SymLow`, `SymHigh`,
`TotalFreqs`, with the quotients of C (`CDiv` rounds towards zero) and the clamped
indices. The tables (`exp.bin`, `cdf.bin`), the scales, the number of bits of the
state and the coefficients are constants, and five assumptions say what the coder
needs of them: coefficients are 16 bits wide and no deviation is 0
(`DataAssumption`), the scale of the edges is even (`ScaleAssumption`), `exp(0)`
is not 0 (`ExpAssumption`), the table of cumulative probabilities rises
(`CdfAssumption`), and the resolution and the number of different values together fit in
`MinimumRange` (`RangeAssumption`; with 1000000, at most 65536 and 2^30 + 2 they do).
`Shift`, `WriteOpenBit` and `EndShiftTurn` are one turn of the first loop, `Underflow`
is one of the second, `Fill` one of the loop of `BitOutputStream::finish`, with the masks of the code as remainders. The stream is bytes, the
byte being filled, and the number of its bits.

`CodedStream` adds the decoder, which the repository does not have: `RoundTrip`
compares what it gets with the coefficients. `StreamTravels` takes the finished
stream through `data_to_data_frames` and back. A `size_t` of frames (`FramesFor`) becomes an
`n_frame_t` (`NFrame`, the remainder by `NFrameMod`): a stream that needs more frames than the
counter has values is `Outgrown` and loses its end, on the board one of 65536 frames, 32 MiB,
or more.

### Bare-metal test

`iwave_initial` is a sequence of loops over chunks: picture out and back, weights out
and back, then the network, a poll, the result back, a file. A chunk is exactly one
burst (`PICTURE_BURST_SIZE` is 16 times `BURST_SIZE`), so a call of `batch_...` starts
one burst and returns. The program then sleeps; `Slept` says that the burst is over by
then, or that the fault `slow` has happened. What `f_open` and `f_read` return is
ignored (`SdTestFileMissing`), a card that cannot be mounted is formatted
(`Mounted`). `iwave_args_config`, which would write the registers of the network, is
never called: `regsFit` says, nondeterministically, whether they hold the right
values. The handler interrupts the program at any place and clears the register
(`HandlerEnds`), also the number the poll waits for (`missed`).

## 3. Runs

Passing runs:

| Run | Instance | Shows |
|---|---|---|
| `Transfer` | pictures of 3 and 1 frames, up to 3 faults: corruption both ways, bytes lost on the way to the slave, short reads | `ReceivedSuccessfully`, `SavedIsRight`, `NoMutualWait`, `ReportsReceivedFrames`, `TypeOK`, and with fairness `RefinesService` |
| `Encoding` | a real encoding, slower than `LOOP_PERIOD`, of one picture, up to 3 faults | `MasterEnds`, `NoOverrun` |
| `Restart` | three runs of the master, each stopped at any moment: one with a picture, an unreadable file and an empty one, which it offers for ever, then two with the picture alone, which go on to the download; one fault, power loss included | `ReceivedSuccessfully`, `SavedIsRight`, `NoOverrun`, `EmptyStaysUnreceived` |
| `Timeouts` | option `-T` and a real encoding, two timeouts anywhere, in two runs of the master; in the first the slave exits over an empty picture | `NoOverrun` |
| `SlaveOpen` | the slave against any program: files in and out of range, unknown types, frames of other slaves, data frames in any order, with and without data, `n_frame` from 0 to 2 changing between SENDs; a timeout or a fault of the line | `NeverReportsProcessing`, `ProcessedIsComplete`, `AcceptedFramesStay` |
| `Encode` | 0, 1 or 3 pixels of u; up to two of nine faults: a burst that never ends, a run of the accelerator that never ends, one of either that ends after its timeout, a run that ends before anybody waits, an interrupt raised before the one before it is cleared, another program that waits for the accelerator, no memory, no weights, another address of the weights on the stack | `ResultsAreRight`, `NoStrayCompletion`, `BurstsStayInside`, `TypeOK`, `EncoderStops`, each with the faults it does not survive |
| `Device` | two processes, two addresses, three opens, memory for three mappings, walks along the list in any step of which another process may map, unmap and free; up to three different calls that fail, list operations that meet and interrupts nobody asked for among them | `ListIsExact`, `MemoryIsReturned`, `TransferHitsOwn`, `OnlyKnownMisuse`, `TypeOK` |
| `Coding` | two subbands of three and two coefficients, all their values and parameters; streams that fit in one frame, fill it, and outgrow the counter of frames | `RangeStaysWide`, `FrequenciesPartition`, `RoundTrip`, `StreamTravels`, `StreamFits`, `TypeOK`, `CodingEnds` |
| `BareMetal` | picture and weights of two chunks each, up to two of: the card has to be formatted, cannot even be, a file is missing, bursts are slower than the sleep | `StartsOnInput`, `CopiesAgree`, `SavedIsResult`, `TypeOK`, `EndsUnlessMissed` |

Deadlock is checked except where the system really stops: an array overrun, a slave that
has exited or a master that polls for ever has no step to take in `Timeouts` and `Restart`,
in `Device` everybody may have closed the device, and the loop over a file ends
(`FirstFrame`).

Runs that TLC refutes, each a finding in `PROJECT.json`:

| Run | Property | What happens |
|---|---|---|
| `LostByte` | `NoMutualWait` | one byte of a download is lost: the master blocks in `read()` without a timer, the slave waits for a request |
| `Parameters` | `CodedWithOwnParameters` | `entropy_to_gmm` sets only every ninth `gmm_t`, and all but the first from the parameters of another coefficient |
| `FirstFrame` | `FileTravels` | `fd_to_data_frames` clears the rest of a frame behind its loop, whose counter hides the outer `i`: zeros go into the first frame. Pictures of 3840 x 2160 (12441600 bytes, 24300 times 512) fill their last frame, so with them nothing is cleared; an empty file makes it write outside the array |

More of the same kind is found by changing constants, and is not kept as runs:

* `Encoding` with two pictures violates `MasterEnds`: a query repeated during an
  encoding yields one reply too many; later the master takes it for the answer to
  another request and never gets into step again.
* `Transfer` with pictures of 2 frames and `FaultKinds = {"sendTimeout"}`, a single one, or, in
  a real encoding, `{"late"}` with 3 faults, violates `ReceivedSuccessfully`: a skipped data
  frame, or stale SEND requests that add up to whole data frames, move intact frames into
  wrong slots (`app/main.h:34` calls this "received successfully"). With the skip: frame 2 of a
  picture lies in slot 1, the next upload fills slot 2 with it again, and the picture counts as
  received (`app/master.c:285`). So does `{"loseUp"}` with 5 faults: when as many bytes of
  a picture are lost as a data frame has, each frame behind them is intact and is stored one
  slot too early, because `receive_data_frames` counts the frames and does not look at their
  numbers.
* A data frame of the slave whose send times out (`app/main.c:457`) is skipped too: `NoMutualWait`
  is violated as by a lost byte.
* `Transfer` with `{"recvTimeout", "loseUp"}` violates `ReportsReceivedFrames`: `-1` missing
  frames make `len` one more than `total_len`.
* `MasterEnds` fails with a file that cannot be opened (its `n_files[k]` is
  uninitialized, `app/master.c:233`), with more pictures than `FileMax` (a SEND out
  of range is not answered, `app/main.c:362`), and when the master is stopped in a
  download and run again (data frames are read as replies, twelve bytes at a time).
* The answer to a query holds the frames of the *picture* also when the picture is
  processed, where `docs/serial-transmission-protocol.md:191` has the frames of
  the stream; the master sizes its array by it, so `EncFrames` greater than the
  picture's frames violates `NoOverrun`.
* A SEND for a processed picture is accepted (`app/main.c:381`, "override if
  processed"), where `docs/serial-transmission-protocol.md:109` says it is not.
* Two runs of the master with different pictures under the same number (`Sessions` =
  `<<<<p1>>, <<p2>>>>`), even without faults, violate `SavedIsRight`: the board still has the
  first picture, so the other one is not sent (`app/master.c:261`). If the second has more
  frames (1 and 2) and the first was not complete, they violate `NoOverrun`: the array of the
  first is kept (`app/main.c:386`).

The properties of `Encode` and `Device` name the ways in which they go wrong. Each name is
needed: without any one of them TLC finds the property violated in the instance of the run.

* `ResultsAreRight`: a burst that stalls, or is still under way after its timeout, is reported
  as moved, and after a run that hangs or is late the results of the channel before are read
  again, for the timeouts of the driver reach nobody (`drv/axi_tangxi.c:102`). Weights that cannot
  be read go unnoticed: `pl_init` looks for `-1` and `pl_config` returns `-2`.
  `NETWORK_ACC_GET` overwrites the address of the weights in the caller's struct with a
  value nobody set, and the next channel is configured with it
  (`drv/axitangxi_dev.c:279`). An event that `CleanIrq` clears unread, or a completion another
  program has replaced, costs a whole timeout, but the results are right all the same.
* `NoStrayCompletion`: the accelerator may be done before `NETWORK_ACC_GET` has made its
  completion (`early`), a burst or run may end after the wait for it (`timeout`), and a
  completion may be replaced by another program's that then returns (`other`): each time
  `complete()` hits what is gone.
* `EncoderStops`: the program gives up without memory, and when the accelerator, having timed
  out, returns sizes that the assertion of `process_data_frames` refuses.
* `OnlyKnownMisuse`: after one `close` every further operation, and
  `remove`, uses the freed device structure (`drv/axitangxi_dev.c:201`); a failed
  DMA allocation frees the structure it then looks at (`drv/axitangxi_dev.c:422`);
  a program that opens the node before `probe` has returned finds registers and
  list unprepared; a `probe` that fails behind `request_irq` leaves a handler that
  reads an unmapped register; two list operations that meet lose an entry, or
  leave one in the list that is freed and later written to; and a lookup goes on from an
  entry that another process has just unmapped and freed (`drv/axitangxi_dev.c:324`).
* `TransferHitsOwn`: two processes with the same virtual address share the newer one's memory,
  and in a list that was broken by a race the walk may not come to the entry at all.
* In `BareMetal` the handler may win the race for `NETWORK_ACC_DONE`
  (`hw/src/main.c:242`): `EndsUnlessMissed` without `missed` is violated without any
  fault.

### Bounds, and why they are enough

* `CtlUnits = 2`, `DataUnits = 5`: see above. `MaxLine` lets at least two whole
  transfers of the instance be under way; a writer waits when the line is full.
* Two pictures of up to 3 frames: one picture before and one behind another; a
  first, a middle and a last frame. `FileMax` 1 to 3 instead of 8.
* Up to 3 faults: enough for a fault, a fault of the retry and one more, and fewer than
  the units of a data frame (losing that many moves frames, see above). With two
  faults and a restart bytes can be lost so that frames move by a whole slot, which
  nothing can notice; `Restart` has one. Its second and third run of the master meet what the one
  before has left, in the slave and on the line, also of a download.
* `Align = 4`, `BurstSize = 2` for 16 and 65536: u channels of 0 to 3 pixels give
  sizes below a beat, not a multiple of a beat, below, equal to and above several
  bursts. `Ratio = 2` for 9. Each fault of the device happens once, two of them in one run.
* `Device`: two processes and two addresses give equal addresses in two processes
  and two mappings in one; three structures and pieces of DMA memory run out, and
  give a list with a first, a middle and a last entry. List operations meet at most
  once. Processes, addresses, structures and pieces of memory are symmetric.
* `Coding`: `StateBits = 7`, a state of 7 bits for 32, with totals up to 34, the largest that
  `MinimumRange` allows: the interval gets as narrow as it can. `FrameLen = 2` bytes for 512 and
  `NFrameMod = 2` for 65536: streams of one frame, full or not, and streams that outgrow it. Two subbands, of which
  each may also be constant, so that bits stay open from one to the next. Of the
  two mixtures one is far from all coefficients, whose frequencies are then 0.
* `BareMetal`: two chunks, a first and a last one; two faults, so that a card is
  formatted at the begin and cannot be mounted at the end.

### Fairness

Weak fairness of `MasterActs` and of `SlaveActs`: both programs are single threads
that run whenever they can. Faults are never fair. `SF(MasterReadsRest)`: bytes
already in the master's tty are returned by `read()` at once, microseconds after
the request was written, so the rest of a frame is read before the new answer
arrives; without it a reply could complete the rest again and again, which the
line's speed excludes. In `Encoder` the caller, the driver and the device with its
interrupts are weakly fair; a burst or run that stalls is a fault. `codings` is a
sequential computation (weak fairness of `CoderStep`). In `BareMetal` the program,
the handler and the device are weakly fair each: the CPU never stops, interrupts are
delivered, and the poll is a step that is taken again and again.

Timers of the master run out when the slave has nothing left to do (`Quiet`):
`LOOP_PERIOD` (1 s) and `TIMEOUT` (600 s) are long against the line. The exceptions,
an encoding and the `sleep(5)` before a download, are the fault `late`.

## 4. Proofs

Eight modules hold theorems. Every one follows the same pattern: the properties the runs
check are not inductive, so an invariant is stated that is, TLC checks it on the instance
of the run, and for each action a lemma proves that it is kept, one step per conjunct the
action can disturb. The theorems then follow by temporal logic. All hold for every value
of the constants that the named assumptions allow.

### Protocol, whatever goes wrong (`ProtocolProofs`)

For all frame sizes, pictures, sessions, faults of all kinds in any number, and both modes
of the slave, from `LineAssumption`, `SlaveAssumption` and `MasterAssumption` (`AnyMaster...`: the first
two and `AnyFrameAssumption`):

| Theorem | States |
|---|---|
| `Safety` | `Spec => []IInv`, the inductive invariant |
| `TypeCorrect` | `Spec => []TypeOK` |
| `NoProcessingReply` | `Spec => [](sPc = "wait" => \A f \in File : GetStatus(f) # "PROCESSING")`: the frames of this master all hold data |
| `NoGapProcessed` | `Spec => []ProcessedIsComplete` |
| `FramesAreKept` | without reboots, `Spec => AcceptedFramesStay` |
| `AnyMasterNoProcessing` | `OpenSpec => []NeverReportsProcessing` |
| `AnyMasterNoGap` | `OpenSpec => []ProcessedIsComplete` |
| `AnyMasterFramesKept` | `OpenSpec => AcceptedFramesStay` |
| `SlaveBuffersHold` | `Spec => [](sPc # "overrun")`, if the sessions agree on the numbers of frames (`SameCounts`) |
| `EmptyUnreceived` | `Spec => []EmptyStaysUnreceived`, under `SameCounts` |
| `ReceivedFramesReported` | `Spec => []ReportsReceivedFrames`, under `SameCounts` and without `recvTimeout` |

`IInv` is `SlaveSafe /\ MasterSafe`. While
the slave handles a SEND, `total_len` is the `n_frame` of the request, and what it
is about to process lies inside its buffer and has no empty slot: this gives
`ProcessedIsComplete`. A picture that is complete (`len = total_len # 0`) and has no stream
is the one being handled, or one all of whose frames came without data (`NothingIn`), of
which a dry run makes a stream of length 0: this gives `NeverReportsProcessing`, whose
exception is empty behind this repository's master (`NoProcessingReply`). It rests on
`ReceivedLenProperties` (16 bit subtraction gives `total_len` only if nothing is missing, so
the 65535 of a timeout never does). An array that was never allocated has no elements. `MasterSafe` adds that
a picture that cannot be opened is never offered. The
slave's half and the master's half do not depend on each other but through the
types of the line (only the master's frames travel up, only the slave's down), so
each action is shown to preserve the half it touches (`SlaveStepSafe`,
`MasterStepSafe`, `RestartSafe`, `RebootSafe`, `LineStepType`) and leaves the other
unchanged. The argument is carried by `MissingProperties` and `FilledUp` (none missing means
that for every open slot an intact frame came, so that no slot is as `calloc` made it),
`FillKeeps` (a slot with data is kept) and `FillNeverEmpties` (one that was filled without
data may be filled again, and is never emptied).

The slave's half is proved once for any program at the other end of its line: `SlaveHolds(F, B)`
is `SlaveSafe` with a set `F` of frames that may be sent in place of the master's, of which
only the types of `n_file` and `n_frame` are assumed (`Sendable`). `MasterSends` says that
the frames of this repository's master are such a set. The theorems `AnyMaster...` take all
frames of `SlaveOpen`, those without data among them: the slave's promises do not rest on a
master that keeps to the protocol. What a frame without data costs is in their statements: a
picture of such frames alone is reported as PROCESSING for ever, and an accepted frame without
data may give way to a later one.

The last three need a second invariant, `CountInv`: only numbers of frames that a session
announces travel up (`CountedFrame`), and each array has as many elements as one of them.
Under `SameCounts` a picture has only one such number, so a SEND that finds its array finds
it long enough, through restarts of the master and losses of power, and the array of an
empty picture has no elements. `LenInv` relates `len` to the array: outside
`receive_data_frames` it is the number of elements that are not empty, which is what the
count of the missing comes to when every data frame holds data (`MissingIsGaps`). `SameCounts` is what
`app/main.c` relies on, which keeps the buffer it allocated first; without it the slave
does write past its array, and with `recvTimeout` the `-1` is subtracted (section 3).

### The transfer under ordinary faults (`TransferProofs`)

The correctness of a whole transfer depends on the faults that happen (section 3 lists
what breaks it). Its theorems have the hypothesis `Ordinary`, about constants only: one
run of the master, readable pictures that are not empty and that the slave has room for,
any number of them and of any size; and the faults `corruptUp`, `corruptData`,
`corruptReply` and `shortUp`, any number of them, or these and `loseUp`, in all fewer than a
data frame has units. These are all faults of the run `Transfer`, under its bounds; TLC
checks `Exact` there too. They rest on `NoiseAssumption` too.

| Theorem | States |
|---|---|
| `ExactSafety` | `Spec => [](IInv /\ Exact)`, the inductive invariant |
| `PicturesReceived` | `Spec => []ReceivedSuccessfully` |
| `StreamsSaved` | `Spec => []SavedIsRight` |
| `NoDeadlock` | `Spec => []NoMutualWait` |
| `ArraysHold` | `Spec => []NoOverrun`, if no stream has more frames than its picture (`Compact`) |
| `ServiceSteps` | `Spec => Service!Init /\ [][Service!Next]_<<Encoded, saved>>`: all of `RefinesService` but its fairness |

`Exact` is `SlaveExact /\ MasterExact /\ LinkExact`. `SlaveExact`: a slot holds nothing or
the frame of its own picture that belongs there, and `len` is `total_len` exactly when no
slot is empty. `MasterExact`: which pictures have a stream, and what is saved, at each
place of the master. `LinkExact` is the heart: for each phase of the master it says where
the slave can be and what can be on the line, up to noise. The surprising state among
them is `Misread`: the answer to a SEND was disturbed, so the master asks again and the
slave, which is already in `receive_data_frames`, takes the requests for data. It holds
because a request never reads as a data frame, and because the master stops asking as
soon as the slave's buffer is full: the requests that follow are then read as requests,
in step or, when a frame's size is not a whole number of them, as one rest that is
dropped. Hence the pieces of the buffer stay in their places (`ReceiveFills`,
`CollectExact`) and the answers in step with the requests (`AnswerUnread`).

When bytes are lost on the way to the slave (`loseUp`), the frames behind them move forward
in its buffer, the buffer does not get full, and the master's queries are read as the rest
of the picture until it is. `Shifted` says how far a frame may have moved: `Lead`, the
distance of a unit from its place, lies between 0 and the number of lost units. The slave
takes a piece of the buffer for a frame only if it begins with the first unit of one, so
its lead is a whole number of data frames, and this is 0 as long as fewer units are lost
(`NoFrameAhead`, `ChunkPlaced`). The bound is sharp: with as many, an intact frame moves
into the slot before its own, and TLC finds `ReceivedSuccessfully` violated (section 3).
On the real line that is 534 bytes lost from one upload.

Each excluded fault breaks `Exact`, not only the proof: `sendTimeout` skips whole data
frames, so that those behind them move by whole slots; `late`,
`shortDown` and `recvTimeout` put an answer on the line that nobody waits for any more;
`loseDown` and a disturbed answer to RECV, which is followed by the stream at once, make
the master read a stream out of step; a reboot or a second session begins with the
remains of the first on the line. What still holds then is in `ProtocolProofs`, or is
checked by the run `Restart`.

### Encoder and driver (`EncoderProofs`)

For pictures, weights and memories of any size, bursts of any length, and any number of
faults, from `AxiAssumption` and `EncoderAssumption`:

| Theorem | States |
|---|---|
| `Safety`, `DataSafety` | `Spec => []Inv`, `Spec => [](Inv /\ DataInv)`, the inductive invariants |
| `TypeCorrect` | `Spec => []TypeOK` |
| `BurstsInside` | `Spec => []BurstsStayInside` |
| `CompletionsLive` | `Spec => []NoStrayCompletion`: no interrupt completes what is gone, without the faults `early`, `timeout` and `other` |
| `ResultsRight` | `Spec => []ResultsAreRight`: without the faults that property names, of which `stack` concerns only the channels behind the first |

`Inv` is about control: who may be where (`CallerFollows`), when the device works and
when an interrupt may be pending (`DeviceFollows`: as long as no wait has timed out while the device was at work, a burst is
under way only while its ioctl waits for it, a completion signalled while the driver waits
means that the device is quiet and no interrupt is left, and one that pends while the driver
is idle takes the fault `early`; none of this is claimed once there was a `timeout`, whose
interrupt comes whenever it likes), whose completion it is (`CompletionOwned`), and the arithmetic of the loop over bursts (`XferFits`,
`BurstFits`: what has been moved is a whole number of beats until the last burst, so the
rounded up burst ends inside the rounded up area; `AlignUpIs`). `DataInv` is about the
bytes: those handed to the device have arrived but for the burst under way
(`BytesArrive`), and from call to call the areas of PL memory hold what the next call
needs (`ChannelFollows`), although each channel overwrites them. `WeightsKept` follows the weights
and the address that is configured for them: of the first channel it is always theirs, of the
others only if `NETWORK_ACC_GET` has not handed back another.

### Memory and files of the driver (`AxiDeviceProofs`)

For any number of processes, addresses, structures and pieces of memory, and any failures,
from `DeviceAssumption`:

| Theorem | States |
|---|---|
| `Safety` | `Spec => [](Inv /\ WalksFollow)`, the inductive invariant |
| `TypeCorrect` | `Spec => []TypeOK` |
| `ListExact` | `Spec => []ListIsExact` |
| `MemoryReturned` | `Spec => []MemoryIsReturned` |
| `TransfersHit` | `Spec => []TransferHitsOwn` |
| `MisuseKnown` | `Spec => []OnlyKnownMisuse` |

`Inv` has a part for each kind of ownership: what is registered in each phase
(`PhaseFollows`), that a mapping keeps its file and a file the driver (`FilesFollow`), that
each mapping has a structure of its own (`MappingsFollow`) and each structure a block of
its own (`BlocksFollow`). `ListFollows` is what pointers need: there is an order of the
listed entries that `next` follows all the way, and `prev` too, but for the place where
the one operation under way has done its first half (`Adding`, `Deleting`). The
property only counts what an undisturbed walk meets, which no step preserves by itself. That
such a walk (`Nth`, a recursive function that only this property uses) follows the order is
proved by a least counterexample (`WalkFollows`, `NatMin`).

The walks of the lookups are disturbed: between two of their steps other processes may add,
remove and free any entries. `WalksFollow` says that while no two list operations have met,
a process that walks has its own entry still ahead (`Ahead`): from the entry it is at, the
pointers lead only over listed structures, until they come to its own. It stays so when entries
are added (`WalksGoOn`) and when one is removed (`DelEndsInv`: the way to the own entry leads
past it), but for a walk that stands on the very entry that is removed, whose memory is freed:
that walk is `Stranded`, and what it then does is the misuse `OnlyKnownMisuse` names. Hence `TransfersHit`: a walk that is not stranded ends at
an entry with the caller's address, before it ends at the anchor.

### Arithmetic coder and frames (`CodingProofs`, `RoundTripProofs`)

For every size of the state, every table and subbands of any length, from the five
assumptions of `ArithmeticCoding`:

| Theorem | States |
|---|---|
| `Safety` | `Spec => []Inv`, the inductive invariant |
| `TypeCorrect` | `Spec => []TypeOK` |
| `IntervalWide` | `Spec => []RangeStaysWide` |
| `FrequenciesShared` | `Spec => []FrequenciesPartition` |
| `StreamFitsMemory` | `Spec => []StreamFits` |
| `StreamInFrames` | `Spec => []StreamTravels` |
| `CoefficientsComeBack` | `Spec => []RoundTrip` |

and for files and frames of every length, from `FramingAssumption`:

| Theorem | States |
|---|---|
| `FileInFrames` | `FileSpec => []FileTravelsWhenFull`: a file survives `fd_to_data_frames` just when its frames can be counted and it fits in one frame or fills its last |

`Inv` says that after the first loop `low` and `high` differ in their first bit, and after
the second they are not both next to the middle, so the interval is wider than a quarter
when a coefficient begins; a total within `MinimumRange` then leaves no coefficient
without room (`low <= high` at all times). `FrequencyFacts` shows that the frequencies
share the total: the right edge of a value is the left edge of the next, cumulative
frequencies rise because every rounded quotient does, and the `+ 1` per value keeps each
from being empty.

`StreamFitsMemory` needs more than `Inv`: `FitsFollows` says that behind every bit a
coefficient has taken, written or left open, the interval has doubled. It had at least one
number, so after `t` bits it has at least `Power[t]`, and it never has more than `Full`,
`Power[StateBits]`: a coefficient takes at most as many bits as the state has. The
coefficients are counted by the cardinality of `Coded` (`CodedGrows`). That `Power`, a
recursive function, is what its definition says is `PowerFacts`, by a least exponent up to
which it is not (`NatMin`).

`StreamInFrames` is about streams, frames and counters of any size: a stream comes through
the frames just when it is not `Outgrown`. All frames but the last are
full and the last is not empty (`FramesForFacts`, `PieceLen`), so what `data_frames_to_data` has
put together after `k` frames is what the stream begins with (`PiecesKeepData`, by induction
over `k`, `NatInduct`). As many frames travel as `NFrame` has kept of their number: all of
them, or fewer (`NFrameFacts`), and then what is put together is shorter than the stream
(`FramesBefore`, `FramesKeepData`).

`FileInFrames` makes the finding of the run `FirstFrame` exact. `FileInv` says that
the frames before the loop's counter are those of the file (`Piece`), and that the array is
in the end what `data_to_data_frames` would make of the file with zeros written over the
rest of its first frame (`Zeroed`, `RestCleared`). `FramesKeepData` then gets `Zeroed` back,
and that is the file unless there is a second frame and the last is not full, or the frames
were too many to be counted. The bytes of
the model's file are all different and none is 0: a file that has zeros in the right place
survives too.

`CoefficientsComeBack` says that a decoder with the header and the parameters gets back all
coefficients of all subbands. The decoder has no state in the specification: `Decoder` is a
function of the bits. So `DecoderFollows` speaks of every string of bits that may still
follow. Let `v` be the number that the bits written make and `u` the number of open bits.
The decoder's interval begins at `base = v * 2^u * Full + (2^u - 1) * Half` (`Pending`): the
open bits are 0 and ones or 1 and zeros, and `low` and `high` lie on either side of that
carry. Whatever string of bits makes a number from `base + low` to `base + high`, a decoder
that reads it comes, within a number of steps, to the interval of the encoder, to its place and to
the coefficients coded so far (`Tracks`, `Keeps`). Each action of the encoder has its lemma: a
coefficient narrows the interval, and the value in it is the coefficient and no other
(`DecodedState`, `ValueFound`, because neighbours meet, `FrequencyFacts`); the turns of the
loops read one bit more (`TracksShifted`, `TracksWidened`); between the first bit of a turn
and the last of the open ones `base` is not what `Pending` says but is kept up by `Opened`.
`finish` writes a 1: with zeros after it the number is `base + Half`, the middle of the
interval (`PendingMiddle`, `EndsAtFinish`), so the stream itself is one of those strings. Its
bits are those of its bytes (`BitsFacts`), the steps are enough by the bound of
`StreamFitsMemory` (`StepsSuffice`), and a decoder that has all coefficients stays where it
is (`SettledStays`). `Number`, `Octets`, `Decoder` and `TwoTo` are recursive functions; that
each is what its definition says is proved once (`NatRecursion`).

### Bare-metal test (`BareMetalProofs`)

For any number of chunks, from `BareMetalAssumption`: `Safety` (the inductive invariant),
`TypeCorrect`, `InputIsThere` (`[]StartsOnInput`), `ComparisonHolds` (`[]CopiesAgree`) and
`ResultIsSaved` (`[]SavedIsResult`). The invariant orders the program's places (`Rank`) and
says of each loop that the chunks handed to the device before the last have arrived unless
a burst was late.

### Only model-checked

* Liveness (`MasterEnds`, `EncoderStops`, `CodingEnds`, `EndsUnlessMissed`) and the fairness of
  `RefinesService`: the prover has neither ENABLED nor fairness.
* `ReceivedSuccessfully`, `SavedIsRight`, `NoMutualWait` and the master's half of `NoOverrun`
  beyond `Ordinary`: with bytes lost on the way to the master, with a second session, or with
  empty or unreadable files.

## 5. Not modelled

* The headers of data frames (flag, `n_total_frame`, `total_data_len`), which nobody
  reads, and CRC-16, which the models take to detect every error.
* The lengths of streams: a picture that is encoded again is copied into the memory of
  its first stream, which may be too short (`app/main.c:238`). The lengths of the
  subbands, which need not add up to what the accelerator returns (`app/main.c:206`;
  it is not in this repository), and a deviation of 0 from it.
* An empty file in the master: `fd_to_data_frames` then writes outside its array. What
  follows is undefined; that the master dies is one of the moments at which `Restart`
  stops it.
* The unbinding of the driver while files are open, the loopback ioctl, and the
  functions for the tangxi chip, which nothing calls; the same of the bare-metal
  test.
* Options, logging, dumping of frames, the encoding of local files (there is no line
  while they are encoded).
* `mkdir_p`, `dump_mem` and the like: pure I/O. The UART in Verilog, which echoes bytes
  to test the pins and talks to neither program. Tests, build files.

## 6. Plan

Every safety property a passing run checks is stated by a theorem, those of the protocol
partly under the hypotheses `SameCounts` and `Ordinary`. What could be added is the transfer
beyond `Ordinary`: which slots of a second session hold what, when the master is stopped and
run again, and how far bytes lost on the way down can shift what is saved.

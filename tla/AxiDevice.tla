------------------------------ MODULE AxiDevice ------------------------------
(***************************************************************************)
(* The life of the driver's memory: the device structure from probe to     *)
(* remove (axi_tangxi_platform.c), and the files, the mappings and the     *)
(* list of allocations of its users (open, release, mmap and munmap of     *)
(* axitangxi_dev.c).                                                       *)
(*                                                                         *)
(* A file stays open as long as a descriptor or a mapping refers to it, and *)
(* a driver with an open file is not unloaded.  A process makes one call   *)
(* after the other; those of two processes may meet inside list_add,       *)
(* list_del and the walk along the list, which no lock prevents.           *)
(***************************************************************************)
EXTENDS Naturals, FiniteSets

CONSTANTS
    Process,      \* programs that use the device
    Addr,         \* where mmap may put a mapping in a process
    Block,        \* contiguous memory for DMA, in pieces of one mapping each
    Struct,       \* memory for struct axitangxi_allocation
    None,         \* a null pointer
    Failures,     \* calls that may fail; "early": the device is opened while
                  \* probe is still running; "spurious": it raises an interrupt
                  \* that nobody has asked for; "race": a list operation
                  \* begins while another one is under way
    MaxFailures,  \* bound: how many different ones do
    MaxOpens      \* bound: how often the device is opened

\* The head of the list, a member of the device structure
Anchor == "addr_list"
Node == Struct \cup {Anchor}

Contents == [user_addr : Addr, phys_addr : Block]

\* A call of list_add or list_del: half of it is done, or nothing yet.
ListOp == [kind : {"add", "del"}, entry : Struct, addr : Addr, half : BOOLEAN,
           prev : Node, next : Node]

\* A walk along the list for the entry with an address: the node it is at; None if
\* that has been freed.
Walk == [addr : Addr, at : Node \cup {None}]

ASSUME DeviceAssumption ==
    /\ IsFiniteSet(Struct)
    /\ Anchor \notin Struct
    /\ None \notin Struct \cup Block
    /\ None # Anchor
    /\ None \notin Contents
    /\ None \notin ListOp \cup Walk
    /\ Failures \subseteq {"devmem", "mask", "node", "irq", "class", "device",
                           "kmalloc", "dma", "remap", "early", "spurious", "race"}
    /\ MaxFailures \in Nat
    /\ MaxOpens \in Nat

VARIABLES
    phase,      \* of the driver: "absent", "probing", "ready", "failed", "removed"
    dev,        \* the memory axitangxi_dev points to: "none", "live", "freed"
    registered, \* what the kernel has been given and not been asked to take back
    file,       \* of a process: "none", "open", or "mapped", only by mappings
    opens,      \* how often the device has been opened
    links,      \* next and prev of axitangxi_dev->addr_list and of its entries
    listOp,     \* the list operation a process is in
    walk,       \* the walk along the list a process is in
    vma,        \* the vm_private_data of the mappings of a process
    alloc,      \* the content of the allocated structures
    blocks,     \* DMA memory that is allocated
    failed,     \* the calls that have failed so far
    misused     \* memory was used that is not, or no longer, what it is used for

vars == <<phase, dev, registered, file, opens, links, listOp, walk, vma, alloc, blocks,
          failed, misused>>

EmptyList == [next |-> [n \in Node |-> Anchor], prev |-> [n \in Node |-> Anchor]]

DeviceInit ==
    /\ phase = "absent"
    /\ dev = "none"
    /\ registered = {}
    /\ file = [p \in Process |-> "none"]
    /\ opens = 0
    /\ links = EmptyList
    /\ listOp = [p \in Process |-> None]
    /\ walk = [p \in Process |-> None]
    /\ vma = [p \in Process |-> [a \in Addr |-> None]]
    /\ alloc = [s \in Struct |-> None]
    /\ blocks = {}
    /\ failed = {}
    /\ misused = FALSE

Fail(call) ==
    /\ call \in Failures
    /\ Cardinality(failed \cup {call}) <= MaxFailures
    /\ failed' = failed \cup {call}

-----------------------------------------------------------------------------
(* probe and remove                                                        *)

\* What a probe that fails leaves registered: chrdev_init takes nothing back.
LeftBehind == [mask |-> {}, node |-> {}, class |-> {"irq", "cdev"},
               device |-> {"irq", "cdev", "class"}]

\* reg_map
MapRegisters == registered \cup {"regs"}

\* reg_unmap
UnmapRegisters == registered \ {"regs"}

\* axitangxi_chrdev_exit
Unregistered == UnmapRegisters \ {"irq", "cdev", "class", "device"}

\* axitangxi_probe that fails.
ProbeFails ==
    /\ phase = "absent"
    /\ phase' = "failed"
    /\ \/ Fail("devmem") /\ UNCHANGED <<dev, registered>>
       \/ \E call \in DOMAIN LeftBehind :
             Fail(call) /\ dev' = "freed" /\ registered' = LeftBehind[call]
    /\ UNCHANGED <<file, opens, links, listOp, walk, vma, alloc, blocks, misused>>

\* axitangxi_probe, up to the device node.  That the interrupt could not be
\* requested goes unnoticed: ret is unsigned.
ProbeExposes ==
    /\ phase = "absent"
    /\ phase' = "probing"
    /\ dev' = "live"
    /\ \/ registered' = {"irq", "cdev", "class", "device"} /\ UNCHANGED failed
       \/ registered' = {"cdev", "class", "device"} /\ Fail("irq")
    /\ UNCHANGED <<file, opens, links, listOp, walk, vma, alloc, blocks, misused>>

\* The rest of it: the registers are mapped and the list is initialized.
ProbeEnds ==
    /\ phase = "probing"
    /\ phase' = "ready"
    /\ registered' = MapRegisters
    /\ links' = EmptyList
    /\ UNCHANGED <<dev, file, opens, listOp, walk, vma, alloc, blocks, failed, misused>>

\* irq_handler: it reads the task number, from a register that is not mapped yet
\* while probe is running, and never if probe has failed behind request_irq.
Interrupt ==
    /\ "irq" \in registered
    /\ Fail("spurious")
    /\ misused' = ("regs" \notin registered)
    /\ UNCHANGED <<phase, dev, registered, file, opens, links, listOp, walk, vma, alloc, blocks>>

\* axitangxi_remove, when no file is open
RemoveDevice ==
    /\ phase = "ready"
    /\ \A p \in Process : file[p] = "none"
    /\ phase' = "removed"
    /\ misused' = (dev # "live")
    /\ registered' = Unregistered
    /\ dev' = "freed"
    /\ UNCHANGED <<file, opens, links, listOp, walk, vma, alloc, blocks, failed>>

-----------------------------------------------------------------------------
(* The file operations                                                     *)

\* No operation of the list is under way; the process is not in one; nor in a walk.
ListQuiet == \A p \in Process : listOp[p] = None
Free(p) == listOp[p] = None
Idle(p) == Free(p) /\ walk[p] = None

\* The entries in the order of a walk along next; behind the last one, Anchor
Nth[i \in 0..Cardinality(Struct)] ==
    IF i = 0 THEN links.next[Anchor]
    ELSE IF Nth[i - 1] = Anchor THEN Anchor ELSE links.next[Nth[i - 1]]

\* A node whose links can be read and written
Writable(n) == IF n = Anchor THEN dev = "live" /\ phase = "ready" ELSE alloc[n] # None

\* axitangxi_open
Open(p) ==
    /\ "device" \in registered
    /\ file[p] = "none"
    /\ opens < MaxOpens
    /\ opens' = opens + 1
    /\ IF phase = "probing" THEN Fail("early") ELSE UNCHANGED failed
    /\ file' = [file EXCEPT ![p] = "open"]
    /\ misused' = (dev # "live")
    /\ UNCHANGED <<phase, dev, registered, links, listOp, walk, vma, alloc, blocks>>

\* axitangxi_release, with the last reference: it frees the device structure.
Release ==
    /\ dev' = "freed"
    /\ misused' = (dev # "live")

\* A process closes its descriptor; its mappings may keep the file.
Close(p) ==
    /\ file[p] = "open"
    /\ Idle(p)
    /\ IF \E a \in Addr : vma[p][a] # None
       THEN file' = [file EXCEPT ![p] = "mapped"] /\ UNCHANGED <<dev, misused>>
       ELSE file' = [file EXCEPT ![p] = "none"] /\ Release
    /\ UNCHANGED <<phase, registered, opens, links, listOp, walk, vma, alloc, blocks, failed>>

\* A list operation begins: it reads the neighbours of the entry.  Two of them meet
\* once at most, a bound.
BeginList(p, op) ==
    /\ listOp' = [listOp EXCEPT ![p] = op]
    /\ IF ListQuiet THEN UNCHANGED failed ELSE "race" \notin failed /\ Fail("race")

\* user_addr is not set (a mutant of Mapped).
MappedNoAddress(p, a, s, b) ==
    /\ misused' = ~Writable(Anchor)
    /\ alloc' = [alloc EXCEPT ![s] = [user_addr |-> None, phys_addr |-> b]]
    /\ blocks' = blocks \cup {b}
    /\ vma' = [vma EXCEPT ![p][a] = s]
    /\ BeginList(p, [kind |-> "add", entry |-> s, addr |-> a, half |-> FALSE,
                     prev |-> Anchor, next |-> links.next[Anchor]])

\* list_add is forgotten (a mutant of Mapped).
MappedUnlisted(p, a, s, b) ==
    /\ misused' = ~Writable(Anchor)
    /\ alloc' = [alloc EXCEPT ![s] = [user_addr |-> a, phys_addr |-> b]]
    /\ blocks' = blocks \cup {b}
    /\ vma' = [vma EXCEPT ![p][a] = s]
    /\ UNCHANGED <<listOp, failed>>

\* axitangxi_mmap that returns 0, up to the writes of list_add
Mapped(p, a, s, b) ==
    /\ misused' = ~Writable(Anchor)
    /\ alloc' = [alloc EXCEPT ![s] = [user_addr |-> a, phys_addr |-> b]]
    /\ blocks' = blocks \cup {b}
    /\ vma' = [vma EXCEPT ![p][a] = s]
    /\ BeginList(p, [kind |-> "add", entry |-> s, addr |-> a, half |-> FALSE,
                     prev |-> Anchor, next |-> links.next[Anchor]])

\* No memory for the structure.
NoStruct ==
    /\ Fail("kmalloc")
    /\ UNCHANGED <<listOp, vma, alloc, blocks, misused>>

\* No memory for the data: the structure is freed, and then looked at to free
\* the data.
NoData ==
    /\ \/ Fail("dma")
       \/ blocks = Block /\ failed' = failed \cup {"dma"}
    /\ misused' = TRUE
    /\ UNCHANGED <<listOp, vma, alloc, blocks>>

\* The memory stays allocated, too (a mutant of NotMapped).
NotMappedKept(a, s, b) ==
    /\ Fail("remap")
    /\ misused' = (dev # "live")
    /\ alloc' = [alloc EXCEPT ![s] = [user_addr |-> a, phys_addr |-> b]]
    /\ blocks' = blocks \cup {b}
    /\ UNCHANGED <<listOp, vma>>

\* The memory cannot be mapped.  It is freed; the structure stays allocated
\* and nothing refers to it any more (nor to its user_addr, which is not set yet).
NotMapped(a, s, b) ==
    /\ Fail("remap")
    /\ misused' = (dev # "live")
    /\ alloc' = [alloc EXCEPT ![s] = [user_addr |-> a, phys_addr |-> b]]
    /\ UNCHANGED <<listOp, vma, blocks>>

\* axitangxi_mmap
Mmap(p, a) ==
    /\ file[p] = "open"
    /\ Idle(p)
    /\ vma[p][a] = None
    /\ \/ NoStruct
       \/ \E s \in Struct :
             /\ alloc[s] = None
             /\ \/ NoData
                \/ \E b \in Block \ blocks : Mapped(p, a, s, b) \/ NotMapped(a, s, b)
    /\ UNCHANGED <<phase, dev, registered, file, opens, links, walk>>

\* munmap, by the process or because it ends: axitangxi_vma_close, up to the writes
\* of list_del.
Munmap(p, a) ==
    /\ Idle(p)
    /\ vma[p][a] # None
    /\ LET s == vma[p][a]
       IN  /\ blocks' = blocks \ {alloc[s].phys_addr}
           /\ BeginList(p, [kind |-> "del", entry |-> s, addr |-> a, half |-> FALSE,
                            prev |-> links.prev[s], next |-> links.next[s]])
    /\ misused' = (dev # "live")
    /\ UNCHANGED <<phase, dev, registered, file, opens, links, walk, vma, alloc>>

\* What the first half of list_add or list_del writes: the entry's own links and
\* the prev of its successor
Backward(op) ==
    [next |-> IF op.kind = "add" THEN [links.next EXCEPT ![op.entry] = op.next]
                                 ELSE links.next,
     prev |-> IF op.kind = "add"
              THEN [links.prev EXCEPT ![op.next] = op.entry, ![op.entry] = op.prev]
              ELSE [links.prev EXCEPT ![op.next] = op.prev]]

\* And the second half: the next of its predecessor
Forward(op) ==
    [links EXCEPT !.next[op.prev] = IF op.kind = "add" THEN op.entry ELSE op.next]

\* The links of freed memory are of no interest.
Forgotten(l, s) == [next |-> [l.next EXCEPT ![s] = Anchor],
                    prev |-> [l.prev EXCEPT ![s] = Anchor]]

ListBackward(p) ==
    /\ ~Free(p)
    /\ ~listOp[p].half
    /\ listOp' = [listOp EXCEPT ![p].half = TRUE]
    /\ links' = Backward(listOp[p])
    /\ misused' = ~Writable(listOp[p].next)
    /\ UNCHANGED <<phase, dev, registered, file, opens, walk, vma, alloc, blocks, failed>>

\* The rest of axitangxi_mmap
AddEnds(p) ==
    /\ ~Free(p)
    /\ listOp[p].kind = "add"
    /\ listOp[p].half
    /\ links' = Forward(listOp[p])
    /\ listOp' = [listOp EXCEPT ![p] = None]
    /\ misused' = ~Writable(listOp[p].prev)
    /\ UNCHANGED <<phase, dev, registered, file, opens, walk, vma, alloc, blocks, failed>>

\* list_del is forgotten (a mutant of VmaClose).
VmaCloseListed(p, a) ==
    /\ links' = [links EXCEPT !.prev[listOp[p].next] = listOp[p].entry]
    /\ alloc' = [alloc EXCEPT ![vma[p][a]] = None]
    /\ vma' = [vma EXCEPT ![p][a] = None]

\* The rest of axitangxi_vma_close
VmaClose(p, a) ==
    /\ links' = Forgotten(Forward(listOp[p]), vma[p][a])
    /\ alloc' = [alloc EXCEPT ![vma[p][a]] = None]
    /\ vma' = [vma EXCEPT ![p][a] = None]

\* The walks when this entry, which one may be at, is poisoned and freed
Stranded(s) ==
    [q \in Process |-> IF walk[q] # None /\ walk[q].at = s THEN [walk[q] EXCEPT !.at = None]
                      ELSE walk[q]]

\* The rest of munmap.  With the last mapping goes a file that has no descriptor any
\* more.
DelEnds(p) ==
    /\ ~Free(p)
    /\ listOp[p].kind = "del"
    /\ listOp[p].half
    /\ VmaClose(p, listOp[p].addr)
    /\ listOp' = [listOp EXCEPT ![p] = None]
    /\ walk' = Stranded(listOp[p].entry)
    /\ LET last == /\ file[p] = "mapped"
                   /\ \A c \in Addr \ {listOp[p].addr} : vma[p][c] = None
       IN  /\ file' = IF last THEN [file EXCEPT ![p] = "none"] ELSE file
           /\ dev' = IF last THEN "freed" ELSE dev
           /\ misused' = ~(Writable(listOp[p].prev) /\ (last => dev = "live"))
    /\ UNCHANGED <<phase, registered, opens, blocks, failed>>

\* A transfer ioctl: axitangxi_uservirt_to_phys begins at the head of the list.
Ioctl(p, a) ==
    /\ file[p] = "open"
    /\ Idle(p)
    /\ vma[p][a] # None
    /\ walk' = [walk EXCEPT ![p] = [addr |-> a, at |-> links.next[Anchor]]]
    /\ misused' = ~Writable(Anchor)
    /\ UNCHANGED <<phase, dev, registered, file, opens, links, listOp, vma, alloc, blocks,
                   failed>>

\* The walk is at the head of the list again, or at a structure that is there.
OnTrack(w) == w.at \in Node /\ (w.at \in Struct => alloc[w.at] # None)

\* It ends, with 0 or at the first entry with the address.
Ended(w) == w.at \in Struct => alloc[w.at].user_addr = w.addr

\* And the registers get the physical address found.
LookupEnds(p) ==
    /\ walk[p] # None
    /\ OnTrack(walk[p])
    /\ Ended(walk[p])
    /\ walk' = [walk EXCEPT ![p] = None]
    /\ misused' = ("regs" \notin registered)
    /\ UNCHANGED <<phase, dev, registered, file, opens, links, listOp, vma, alloc, blocks,
                   failed>>

\* list_for_each goes on to the next entry.
LookupGoesOn(p) ==
    /\ walk[p] # None
    /\ OnTrack(walk[p])
    /\ ~Ended(walk[p])
    /\ walk' = [walk EXCEPT ![p].at = links.next[@]]
    /\ UNCHANGED <<phase, dev, registered, file, opens, links, listOp, vma, alloc, blocks,
                   failed, misused>>

\* It reads an entry that has been freed.
LookupStrays(p) ==
    /\ walk[p] # None
    /\ ~OnTrack(walk[p])
    /\ misused' = TRUE
    /\ UNCHANGED <<phase, dev, registered, file, opens, links, listOp, walk, vma, alloc,
                   blocks, failed>>

-----------------------------------------------------------------------------
\* What the kernel does after a misuse is not followed.
Next ==
    /\ ~misused
    /\ \/ ProbeFails \/ ProbeExposes \/ ProbeEnds \/ RemoveDevice \/ Interrupt
       \/ \E p \in Process :
             \/ Open(p) \/ Close(p) \/ ListBackward(p) \/ AddEnds(p) \/ DelEnds(p)
             \/ LookupEnds(p) \/ LookupGoesOn(p) \/ LookupStrays(p)
             \/ \E a \in Addr : Mmap(p, a) \/ Munmap(p, a) \/ Ioctl(p, a)

Spec == DeviceInit /\ [][Next]_vars

-----------------------------------------------------------------------------
TypeOK ==
    /\ phase \in {"absent", "probing", "ready", "failed", "removed"}
    /\ dev \in {"none", "live", "freed"}
    /\ registered \subseteq {"irq", "cdev", "class", "device", "regs"}
    /\ file \in [Process -> {"none", "open", "mapped"}]
    /\ opens \in 0..MaxOpens
    /\ links \in [next : [Node -> Node], prev : [Node -> Node]]
    /\ listOp \in [Process -> ListOp \cup {None}]
    /\ walk \in [Process -> Walk \cup {None}]
    /\ vma \in [Process -> [Addr -> Struct \cup {None}]]
    /\ alloc \in [Struct -> Contents \cup {None}]
    /\ blocks \subseteq Block
    /\ failed \subseteq Failures \cup {"dma"}
    /\ misused \in BOOLEAN

\* The allocations the mappings of all processes refer to.
InUse == {vma[p][a] : p \in Process, a \in Addr} \ {None}

\* addr_list ("List of allocated DMA buffers", axitangxi_dev.h) has every mapping
\* once and nothing else, in both directions, whatever failed and in whatever order
\* the processes map, unmap and close; unless two of them met inside the list.
ListIsExact ==
    phase = "ready" /\ ~misused /\ ListQuiet /\ "race" \notin failed =>
        /\ {Nth[i] : i \in DOMAIN Nth} \ {Anchor} = InUse
        /\ \A n \in InUse \cup {Anchor} : links.prev[links.next[n]] = n

\* DMA memory belongs to exactly one mapping: none is left when a call has failed
\* or a process has ended, and none is freed while it is mapped; the list plays no
\* part in that, even if it is broken.
MemoryIsReturned ==
    LET leaving == {listOp[p].entry : p \in {q \in Process : ~Free(q) /\ listOp[q].kind = "del"}}
    IN  ~misused =>
            /\ blocks = {alloc[s].phys_addr : s \in InUse \ leaving}
            /\ Cardinality(blocks) = Cardinality(InUse \ leaving)

\* A transfer goes to the caller's own memory (axitangxi_uservirt_to_phys searches
\* the allocations of all processes by virtual address): the walk never comes to the
\* end of the list, which it would answer with the address 0, and takes no other
\* entry, however the list changes under it, unless another process has mapped
\* something at the same address.  Two things may go wrong: the list was broken by a
\* race, or the entry under the walk was freed (then it does not get that far).
TransferHitsOwn ==
    ~misused /\ "race" \notin failed =>
        \A p \in Process : walk[p] # None =>
            LET w == walk[p]
            IN  /\ w.at # Anchor
                /\ w.at # None /\ Ended(w) =>
                      \/ alloc[w.at].phys_addr = alloc[vma[p][w.addr]].phys_addr
                      \/ \E q \in Process \ {p} : vma[q][w.addr] # None

\* Memory is misused only after a file has been released (axitangxi_release frees
\* what all files use), after a failed DMA allocation (axitangxi_mmap frees twice),
\* when the device was opened before probe had ended, when an interrupt comes
\* before that, or after a probe that failed with the interrupt requested, when
\* two processes have met inside the list, whose entries then point to freed ones,
\* and when one unmaps the very entry another one's walk has come to.
OnlyKnownMisuse ==
    misused =>
        \/ phase \in {"ready", "removed"} /\ dev = "freed"
        \/ failed \cap {"dma", "early", "race"} # {}
        \/ "spurious" \in failed
           /\ (phase = "probing" \/ failed \cap {"class", "device"} # {})
        \/ \E p \in Process : walk[p] # None /\ walk[p].at = None
=============================================================================

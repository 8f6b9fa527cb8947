--------------------------- MODULE AxiDeviceProofs ---------------------------
(***************************************************************************)
(* Theorems about AxiDevice: types, the list of allocations, whose memory  *)
(* is whose, where a transfer goes, and what is behind every misuse.  They *)
(* hold for any number of processes, addresses, pieces of memory and       *)
(* failures.                                                               *)
(*                                                                         *)
(* ListFollows describes the list by the order of its entries, at rest and *)
(* in the two halves of list_add and list_del; WalksFollow, what a walk    *)
(* along it has still before it.                                           *)
(***************************************************************************)
EXTENDS AxiDevice, FiniteSetTheorems, NumberLemmas, TLAPS

-----------------------------------------------------------------------------
(* The inductive invariant                                                 *)

\* What is registered and allocated in every phase of the driver
PhaseFollows ==
    /\ phase = "absent" => registered = {}
    /\ phase \in {"absent", "failed", "removed"} => "device" \notin registered
    /\ phase = "removed" => "irq" \notin registered
    /\ phase = "failed" /\ "irq" \in registered => failed \cap {"class", "device"} # {}
    /\ phase \in {"probing", "ready"} => dev \in {"live", "freed"}
    /\ phase = "ready" => "regs" \in registered

\* A mapping keeps its file, and an open file the driver.
FilesFollow ==
    /\ \A p \in Process : file[p] # "none" =>
          phase = "ready" \/ (phase = "probing" /\ "early" \in failed)
    /\ \A p \in Process, a \in Addr : vma[p][a] # None =>
          file[p] # "none" /\ (phase = "ready" \/ misused)
    /\ \A p \in Process : ~Free(p) => vma[p][listOp[p].addr] = listOp[p].entry

\* Every mapping has a structure of its own, with its address.
MappingsFollow ==
    \A p \in Process, a \in Addr : vma[p][a] # None =>
        /\ alloc[vma[p][a]] # None
        /\ alloc[vma[p][a]].user_addr = a
        /\ \A q \in Process, b \in Addr : vma[q][b] = vma[p][a] => q = p /\ b = a

\* The entries of operations of one kind
EntriesOf(kind) ==
    {listOp[p].entry : p \in {q \in Process : ~Free(q) /\ listOp[q].kind = kind}}

\* Every structure that is mapped, and not just being unmapped, has a block of its own.
Owning == InUse \ EntriesOf("del")

BlocksFollow ==
    /\ blocks = {alloc[s].phys_addr : s \in Owning}
    /\ \A s, t \in Owning : alloc[s].phys_addr = alloc[t].phys_addr => s = t

\* The entries a walk meets: one that is being added, not yet.
Listed == InUse \ EntriesOf("add")

\* o is the order of the n entries, with Anchor at both ends; next follows it.
Chain(n, o) ==
    /\ o \in [0..(n + 1) -> Node]
    /\ o[0] = Anchor
    /\ o[n + 1] = Anchor
    /\ \A i \in 1..n : o[i] # Anchor
    /\ \A i, j \in 1..n : o[i] = o[j] => i = j
    /\ {o[i] : i \in 1..n} = Listed
    /\ \A i \in 0..n : links.next[o[i]] = o[i + 1]

\* prev follows it, too, between these places and their successors.
Back(o, places) == \A i \in places : links.prev[o[i + 1]] = o[i]

\* The only operation adds an entry at the head.
Adding(n, o, op) ==
    /\ op.kind = "add"
    /\ op.prev = Anchor
    /\ op.next = o[1]
    /\ Back(o, 1..n)
    /\ IF op.half THEN /\ links.next[op.entry] = op.next
                       /\ links.prev[op.entry] = Anchor
                       /\ links.prev[op.next] = op.entry
                  ELSE links.prev[op.next] = Anchor

\* The only operation deletes the entry at the place k.
Deleting(n, o, op) ==
    /\ op.kind = "del"
    /\ \E k \in 1..n :
          /\ op.entry = o[k]
          /\ op.prev = o[k - 1]
          /\ op.next = o[k + 1]
          /\ Back(o, 0..n \ {k})
          /\ links.prev[op.next] = IF op.half THEN op.prev ELSE op.entry

\* The list between and within operations that do not meet
Linked(n, o) ==
    /\ Chain(n, o)
    /\ \/ ListQuiet /\ Back(o, 0..n)
       \/ \E p \in Process :
             /\ ~Free(p)
             /\ \A q \in Process \ {p} : Free(q)
             /\ Adding(n, o, listOp[p]) \/ Deleting(n, o, listOp[p])

ListFollows ==
    phase = "ready" /\ "race" \notin failed =>
        \E n \in 0..Cardinality(Struct) : \E o \in [0..(n + 1) -> Node] : Linked(n, o)

\* Walking on from here, one meets only listed structures, up to the own one.
Ahead(at, own) ==
    \E way \in SUBSET Listed :
        /\ at \in way
        /\ own \in way
        /\ \A s \in way \ {own} : links.next[s] \in way

\* A process that walks along the list has nothing else to do with it, and its own
\* entry before it.
WalksFollow ==
    /\ \A p \in Process : walk[p] # None => Free(p) /\ vma[p][walk[p].addr] # None
    /\ phase = "ready" /\ "race" \notin failed =>
          \A p \in Process : walk[p] # None /\ walk[p].at # None =>
              Ahead(walk[p].at, vma[p][walk[p].addr])

Inv ==
    /\ TypeOK
    /\ PhaseFollows
    /\ FilesFollow
    /\ MappingsFollow
    /\ BlocksFollow
    /\ ListFollows
    /\ OnlyKnownMisuse

-----------------------------------------------------------------------------
(* The order of the list                                                   *)

\* A walk along next that nothing disturbs meets the entries in their
\* order, and behind the last one only Anchor.
LEMMA WalkFollows ==
    ASSUME NEW n \in 0..Cardinality(Struct), NEW o \in [0..(n + 1) -> Node], Chain(n, o),
           Cardinality(Struct) \in Nat
    PROVE  /\ DOMAIN Nth = 0..Cardinality(Struct)
           /\ \A i \in 0..Cardinality(Struct) : Nth[i] = IF i <= n THEN o[i + 1] ELSE Anchor
<1> DEFINE N == Cardinality(Struct)
           course == [i \in 0..N |-> IF i <= n THEN o[i + 1] ELSE Anchor]
           Step(f) == [i \in 0..N |-> IF i = 0 THEN links.next[Anchor]
                                      ELSE IF f[i - 1] = Anchor THEN Anchor
                                      ELSE links.next[f[i - 1]]]
<1>1. \A i \in 0..N : course[i] = Step(course)[i]
    <2> SUFFICES ASSUME NEW i \in 0..N
                 PROVE  course[i] = Step(course)[i]
        OBVIOUS
    <2>1. CASE i = 0
        BY <2>1 DEF Chain
    <2>2. CASE i # 0 /\ i <= n
        <3>1. i \in 1..n /\ i - 1 \in 0..N /\ i - 1 <= n /\ (i - 1) + 1 = i
            BY <2>2
        <3>2. course[i - 1] = o[i] /\ course[i] = o[i + 1]
            BY <3>1
        <3>3. o[i] # Anchor /\ links.next[o[i]] = o[i + 1]
            BY <3>1 DEF Chain
        <3> QED
            BY <2>2, <3>1, <3>2, <3>3
    <2>3. CASE i # 0 /\ ~(i <= n)
        <3>1. i - 1 \in 0..N /\ (i - 1 <= n => (i - 1) + 1 = n + 1)
            BY <2>3
        <3>2. course[i - 1] = Anchor /\ course[i] = Anchor
            BY <2>3, <3>1 DEF Chain
        <3> QED
            BY <2>3, <3>1, <3>2
    <2> QED
        BY <2>1, <2>2, <2>3
<1>2. Nth = CHOOSE f : f = Step(f)
    BY DEF Nth
<1>3. course = Step(course)
    BY <1>1
<1>4. Nth = Step(Nth)
    <2> HIDE DEF course, Step
    <2> QED
        BY <1>2, <1>3
<1>5. \A i \in 0..N : Nth[i] = course[i]
    <2> SUFFICES ASSUME NEW x \in 0..N, Nth[x] # course[x]
                 PROVE  FALSE
        OBVIOUS
    <2> DEFINE T == {i \in 0..N : Nth[i] # course[i]}
    <2>1. T \in SUBSET Nat /\ T # {}
        <3>1. x \in T
            OBVIOUS
        <3>2. \A j \in T : j \in Nat
            OBVIOUS
        <3> QED
            BY <3>1, <3>2
    <2>2. PICK i \in T : \A j \in T : i <= j
        <3> HIDE DEF T
        <3> QED
            BY <2>1, NatMin
    <2>3. i # 0
        <3>1. 0 \in 0..N
            OBVIOUS
        <3>2. \A f : f = Step(f) => f[0] = links.next[Anchor]
            BY <3>1
        <3>3. Nth[0] = course[0]
            <4> HIDE DEF course, Step
            <4> QED
                BY <1>3, <1>4, <3>2
        <3>4. Nth[i] # course[i]
            BY <2>2
        <3> QED
            BY <3>3, <3>4
    <2>4. i - 1 \in 0..N /\ i \in 0..N /\ ~(i <= i - 1)
        BY <2>3
    <2>5. Nth[i - 1] = course[i - 1]
        BY <2>2, <2>4
    <2>6. \A f : f = Step(f) =>
             f[i] = IF f[i - 1] = Anchor THEN Anchor ELSE links.next[f[i - 1]]
        BY <2>3, <2>4
    <2>7. i \in T
        BY <2>2
    <2>8. Nth[i] # course[i]
        BY <2>7
    <2> HIDE DEF course, Step, T
    <2> QED
        BY <1>3, <1>4, <2>5, <2>6, <2>8
<1>6. DOMAIN Nth = 0..N
    BY <1>4
<1> QED
    BY <1>5, <1>6

\* While no two operations have met, a walk comes to its end and meets every listed
\* structure.
LEMMA WalkMeets ==
    ASSUME Inv, phase = "ready", "race" \notin failed
    PROVE  /\ {Nth[i] : i \in DOMAIN Nth} \ {Anchor} = Listed
           /\ \E i \in DOMAIN Nth : Nth[i] = Anchor
<1> DEFINE N == Cardinality(Struct)
<1>1. N \in Nat
    BY DeviceAssumption, FS_CardinalityType
<1>2. PICK n \in 0..N : \E o \in [0..(n + 1) -> Node] : Linked(n, o)
    BY DEF Inv, ListFollows
<1>3. PICK o \in [0..(n + 1) -> Node] : Chain(n, o)
    BY <1>2 DEF Linked
<1>4. /\ DOMAIN Nth = 0..N
      /\ \A i \in 0..N : Nth[i] = IF i <= n THEN o[i + 1] ELSE Anchor
    BY <1>1, <1>3, WalkFollows
<1>5. n \in 0..N /\ Nth[n] = Anchor
    BY <1>1, <1>4, <1>3 DEF Chain
<1>6. \A s \in Listed : \E i \in 0..N : Nth[i] = s /\ s # Anchor
    <2> TAKE s \in Listed
    <2>1. PICK i \in 1..n : o[i] = s
        BY <1>3 DEF Chain
    <2>2. i - 1 \in 0..N /\ i - 1 <= n /\ (i - 1) + 1 = i
        BY <1>1
    <2>3. Nth[i - 1] = s
        BY <1>4, <2>1, <2>2
    <2>4. s # Anchor
        BY <2>1, <1>3 DEF Chain
    <2> QED
        BY <2>2, <2>3, <2>4
<1>7. \A i \in 0..N : Nth[i] # Anchor => Nth[i] \in Listed
    <2> SUFFICES ASSUME NEW i \in 0..N, Nth[i] # Anchor
                 PROVE  Nth[i] \in Listed
        OBVIOUS
    <2>1. i <= n /\ Nth[i] = o[i + 1]
        BY <1>4
    <2>2. i # n
        BY <1>5
    <2>3. i + 1 \in 1..n
        BY <1>1, <2>1, <2>2
    <2> QED
        BY <1>3, <2>1, <2>3 DEF Chain
<1> HIDE DEF N
<1> QED
    BY <1>4, <1>5, <1>6, <1>7

\* ListIsExact follows from the invariant.
LEMMA ListFromInv ==
    ASSUME Inv
    PROVE  ListIsExact
<1> SUFFICES ASSUME phase = "ready", ListQuiet, "race" \notin failed
             PROVE  /\ {Nth[i] : i \in DOMAIN Nth} \ {Anchor} = InUse
                    /\ \A m \in InUse \cup {Anchor} : links.prev[links.next[m]] = m
    BY DEF ListIsExact
<1>1. Listed = InUse
    BY DEF Listed, EntriesOf, ListQuiet, Free
<1>2. PICK n \in 0..Cardinality(Struct) : \E o \in [0..(n + 1) -> Node] : Linked(n, o)
    BY DEF Inv, ListFollows
<1>3. PICK o \in [0..(n + 1) -> Node] : Chain(n, o) /\ Back(o, 0..n)
    BY <1>2 DEF Linked, ListQuiet, Free
<1>4. \A m \in InUse \cup {Anchor} : \E i \in 0..n : o[i] = m
    <2>1. n \in Nat
        BY DeviceAssumption, FS_CardinalityType
    <2>2. 0 \in 0..n /\ \A i \in 1..n : i \in 0..n
        BY <2>1
    <2> QED
        BY <1>1, <1>3, <2>2 DEF Chain
<1>5. \A m \in InUse \cup {Anchor} : links.prev[links.next[m]] = m
    <2> TAKE m \in InUse \cup {Anchor}
    <2>1. PICK i \in 0..n : o[i] = m
        BY <1>4
    <2>2. links.next[o[i]] = o[i + 1]
        BY <1>3 DEF Chain
    <2>3. links.prev[o[i + 1]] = o[i]
        BY <1>3 DEF Back
    <2> QED
        BY <2>1, <2>2, <2>3
<1> QED
    BY <1>1, <1>5, WalkMeets

\* So does MemoryIsReturned.
LEMMA MemoryFromInv ==
    ASSUME Inv
    PROVE  MemoryIsReturned
<1>1. EntriesOf("del") = {listOp[p].entry : p \in {q \in Process : ~Free(q) /\ listOp[q].kind = "del"}}
    BY DEF EntriesOf
<1>2. blocks = {alloc[s].phys_addr : s \in Owning}
    BY DEF Inv, BlocksFollow
<1>3. Owning \subseteq Struct
    BY DEF Inv, TypeOK, Owning, InUse
<1>4. IsFiniteSet(Owning)
    BY <1>3, DeviceAssumption, FS_Subset
<1>5. ExistsBijection(Owning, blocks)
    <2> DEFINE f == [s \in Owning |-> alloc[s].phys_addr]
    <2>1. f \in [Owning -> blocks]
        BY <1>2
    <2>2. \A b \in blocks : \E s \in Owning : f[s] = b
        BY <1>2
    <2>3. \A s, t \in Owning : f[s] = f[t] => s = t
        BY DEF Inv, BlocksFollow
    <2> HIDE DEF f
    <2>4. f \in Injection(Owning, blocks)
        BY <2>1, <2>3 DEF Injection, IsInjective
    <2>5. f \in Surjection(Owning, blocks)
        BY <2>1, <2>2 DEF Surjection
    <2> QED
        BY <2>4, <2>5 DEF ExistsBijection, Bijection
<1>6. Cardinality(blocks) = Cardinality(Owning)
    BY <1>4, <1>5, FS_Bijection
<1> HIDE DEF EntriesOf
<1> QED
    BY <1>1, <1>2, <1>6, Zenon DEF MemoryIsReturned, Owning

-----------------------------------------------------------------------------
(* The invariant holds at first, and every step keeps it.                  *)

\* Nothing is there at first.
LEMMA InitInv == DeviceInit => Inv /\ WalksFollow
<1> SUFFICES ASSUME DeviceInit
             PROVE  Inv /\ WalksFollow
    OBVIOUS
<1>1. TypeOK
    <2>1. links \in [next : [Node -> Node], prev : [Node -> Node]]
        BY DEF DeviceInit, EmptyList, Node
    <2>2. opens \in 0..MaxOpens
        BY DeviceAssumption DEF DeviceInit
    <2> QED
        BY <2>1, <2>2 DEF DeviceInit, TypeOK
<1>2. PhaseFollows /\ FilesFollow /\ MappingsFollow
    BY DEF DeviceInit, PhaseFollows, FilesFollow, MappingsFollow, Free
<1>3. InUse = {} /\ blocks = {}
    BY DEF DeviceInit, InUse
<1>4. BlocksFollow
    BY <1>3 DEF BlocksFollow, Owning
<1>5. ListFollows /\ OnlyKnownMisuse
    BY DEF DeviceInit, ListFollows, OnlyKnownMisuse
<1>6. WalksFollow
    BY DEF DeviceInit, WalksFollow
<1> QED
    BY <1>1, <1>2, <1>4, <1>5, <1>6 DEF Inv

\* Memory is whose it was as long as no mapping and no operation changes.
LEMMA MemoryStays ==
    ASSUME Inv, UNCHANGED <<listOp, vma, alloc, blocks>>
    PROVE  MappingsFollow' /\ BlocksFollow'
<1>1. MappingsFollow'
    BY DEF Inv, MappingsFollow
<1>2. Owning' = Owning
    BY DEF Owning, InUse, EntriesOf, Free
<1>3. BlocksFollow'
    BY <1>2 DEF Inv, BlocksFollow
<1> QED
    BY <1>1, <1>3

\* And so is the list, as long as its links do not change, too.
LEMMA ListStays ==
    ASSUME Inv, UNCHANGED <<links, listOp, vma>>, phase' = "ready" => phase = "ready",
           failed \subseteq failed'
    PROVE  ListFollows'
<1>1. Listed' = Listed /\ (ListQuiet' <=> ListQuiet)
    BY DEF Listed, InUse, EntriesOf, ListQuiet, Free
<1>2. \A n, o : Chain(n, o) => Chain(n, o)'
    BY <1>1 DEF Chain
<1>3. \A n, o : Linked(n, o) => Linked(n, o)'
    BY <1>1, <1>2 DEF Linked, Back, Adding, Deleting, Free
<1> QED
    BY <1>3 DEF Inv, ListFollows

\* A walk has what it had before it as long as the links of what is listed stay.
LEMMA WalksGoOn ==
    ASSUME WalksFollow, walk' = walk,
           phase' = "ready" => phase = "ready", failed \subseteq failed',
           \A q \in Process : walk[q] # None =>
               listOp'[q] = None /\ vma'[q][walk[q].addr] = vma[q][walk[q].addr],
           phase' = "ready" /\ "race" \notin failed' =>
               Listed \subseteq Listed' /\ \A s \in Listed : links'.next[s] = links.next[s]
    PROVE  WalksFollow'
<1>1. \A q \in Process : walk'[q] # None => Free(q)' /\ vma'[q][walk'[q].addr] # None
    BY DEF WalksFollow, Free
<1>2. ASSUME phase' = "ready", "race" \notin failed', NEW q \in Process,
             walk'[q] # None, walk'[q].at # None
      PROVE  Ahead(walk[q].at, vma[q][walk[q].addr])'
    <2>1. Ahead(walk[q].at, vma[q][walk[q].addr])
        BY <1>2 DEF WalksFollow
    <2>2. PICK way \in SUBSET Listed :
              /\ walk[q].at \in way
              /\ vma[q][walk[q].addr] \in way
              /\ \A s \in way \ {vma[q][walk[q].addr]} : links.next[s] \in way
        BY <2>1 DEF Ahead
    <2>3. way \in SUBSET Listed' /\ \A s \in way : links'.next[s] = links.next[s]
        BY <1>2
    <2>4. vma'[q][walk'[q].addr] = vma[q][walk[q].addr] /\ walk'[q].at = walk[q].at
        BY <1>2
    <2> QED
        BY <2>2, <2>3, <2>4 DEF Ahead
<1> QED
    BY <1>1, <1>2 DEF WalksFollow

\* In particular, when nothing of the list changes.
LEMMA WalksStay ==
    ASSUME WalksFollow, UNCHANGED <<links, listOp, walk, vma>>,
           phase' = "ready" => phase = "ready", failed \subseteq failed'
    PROVE  WalksFollow'
<1>1. Listed' = Listed
    BY DEF Listed, InUse, EntriesOf, Free
<1>2. \A q \in Process : walk[q] # None => listOp'[q] = None
    BY DEF WalksFollow, Free
<1> QED
    BY <1>1, <1>2, WalksGoOn

\* probe fails.
LEMMA ProbeFailsInv == ASSUME Inv, WalksFollow, ~misused, ProbeFails PROVE Inv' /\ WalksFollow'
<1>1. /\ phase = "absent" /\ phase' = "failed"
      /\ UNCHANGED <<file, opens, links, listOp, walk, vma, alloc, blocks, misused>>
    BY DEF ProbeFails
<1>2. /\ failed \subseteq failed'
      /\ dev' \in {dev, "freed"}
      /\ failed' \subseteq failed \cup Failures
      /\ \/ registered' = registered
         \/ registered' \subseteq {"irq", "cdev", "class"}
            /\ ("irq" \in registered' => failed' \cap {"class", "device"} # {})
    <2>1. CASE Fail("devmem") /\ UNCHANGED <<dev, registered>>
        BY <2>1 DEF Fail
    <2>2. ASSUME NEW call \in {"mask", "node", "class", "device"}, Fail(call),
                 dev' = "freed", registered' = LeftBehind[call]
          PROVE  /\ failed' = failed \cup {call} /\ call \in Failures
                 /\ registered' \subseteq {"irq", "cdev", "class"}
                 /\ "irq" \in registered' => call \in {"class", "device"}
        BY <2>2 DEF Fail, LeftBehind
    <2>3. DOMAIN LeftBehind = {"mask", "node", "class", "device"}
        BY DEF LeftBehind
    <2> QED
        BY <2>1, <2>2, <2>3 DEF ProbeFails
<1>3. registered = {}
    BY <1>1 DEF Inv, PhaseFollows
<1>4. \A p \in Process : file[p] = "none" /\ \A a \in Addr : vma[p][a] = None
    BY <1>1 DEF Inv, FilesFollow
<1>5. TypeOK'
    BY <1>1, <1>2 DEF Inv, TypeOK
<1>6. PhaseFollows' /\ FilesFollow'
    BY <1>1, <1>2, <1>3, <1>4 DEF Inv, PhaseFollows, FilesFollow, Free
<1>7. ListFollows' /\ OnlyKnownMisuse'
    BY <1>1, <1>2, ListStays DEF OnlyKnownMisuse
<1>8. WalksFollow'
    BY <1>1, <1>2, WalksStay
<1> QED
    BY <1>1, <1>5, <1>6, <1>7, <1>8, MemoryStays DEF Inv

\* probe creates the device node.
LEMMA ProbeExposesInv == ASSUME Inv, WalksFollow, ~misused, ProbeExposes PROVE Inv' /\ WalksFollow'
<1>1. /\ phase = "absent" /\ phase' = "probing" /\ dev' = "live"
      /\ UNCHANGED <<file, opens, links, listOp, walk, vma, alloc, blocks, misused>>
    BY DEF ProbeExposes
<1>2. /\ failed \subseteq failed'
      /\ failed' \subseteq failed \cup Failures
      /\ registered' \subseteq {"irq", "cdev", "class", "device"}
    BY DEF ProbeExposes, Fail
<1>4. \A p \in Process : file[p] = "none" /\ \A a \in Addr : vma[p][a] = None
    BY <1>1 DEF Inv, FilesFollow
<1>5. TypeOK'
    BY <1>1, <1>2 DEF Inv, TypeOK
<1>6. PhaseFollows' /\ FilesFollow'
    BY <1>1, <1>2, <1>4 DEF Inv, PhaseFollows, FilesFollow, Free
<1>7. ListFollows' /\ OnlyKnownMisuse'
    BY <1>1, <1>2, ListStays DEF OnlyKnownMisuse
<1>8. WalksFollow'
    BY <1>1, <1>2, WalksStay
<1> QED
    BY <1>1, <1>5, <1>6, <1>7, <1>8, MemoryStays DEF Inv

\* An interrupt nobody has asked for.
LEMMA InterruptInv == ASSUME Inv, WalksFollow, ~misused, Interrupt PROVE Inv' /\ WalksFollow'
<1>1. /\ "irq" \in registered
      /\ failed' = failed \cup {"spurious"} /\ "spurious" \in Failures
      /\ misused' = ("regs" \notin registered)
      /\ UNCHANGED <<phase, dev, registered, file, opens, links, listOp, walk, vma, alloc, blocks>>
    BY DEF Interrupt, Fail
<1>2. phase \in {"probing", "ready", "failed"}
    BY <1>1 DEF Inv, TypeOK, PhaseFollows
<1>5. TypeOK'
    BY <1>1 DEF Inv, TypeOK
<1>6. PhaseFollows' /\ FilesFollow'
    BY <1>1 DEF Inv, PhaseFollows, FilesFollow, Free
<1>7. ListFollows'
    BY <1>1, ListStays
<1>8. OnlyKnownMisuse'
    BY <1>1, <1>2 DEF OnlyKnownMisuse, Inv, PhaseFollows
<1>9. WalksFollow'
    BY <1>1, WalksStay
<1> QED
    BY <1>1, <1>5, <1>6, <1>7, <1>8, <1>9, MemoryStays DEF Inv

\* The driver is unloaded.
LEMMA RemoveDeviceInv == ASSUME Inv, WalksFollow, ~misused, RemoveDevice PROVE Inv' /\ WalksFollow'
<1>1. /\ phase = "ready" /\ phase' = "removed"
      /\ \A p \in Process : file[p] = "none"
      /\ misused' = (dev # "live")
      /\ registered' = registered \ {"regs", "irq", "cdev", "class", "device"}
      /\ dev' = "freed"
      /\ UNCHANGED <<file, opens, links, listOp, walk, vma, alloc, blocks, failed>>
    BY DEF RemoveDevice, Unregistered, UnmapRegisters
<1>4. \A p \in Process, a \in Addr : vma[p][a] = None
    BY <1>1 DEF Inv, FilesFollow
<1>5. TypeOK'
    BY <1>1 DEF Inv, TypeOK
<1>6. PhaseFollows' /\ FilesFollow'
    BY <1>1, <1>4 DEF Inv, PhaseFollows, FilesFollow, Free
<1>7. ListFollows' /\ OnlyKnownMisuse'
    BY <1>1, ListStays DEF OnlyKnownMisuse
<1>8. WalksFollow'
    BY <1>1, WalksStay
<1> QED
    BY <1>1, <1>5, <1>6, <1>7, <1>8, MemoryStays DEF Inv

\* A process opens the device.
LEMMA OpenInv == ASSUME Inv, WalksFollow, ~misused, NEW p \in Process, Open(p) PROVE Inv' /\ WalksFollow'
<1>1. /\ "device" \in registered
      /\ file[p] = "none"
      /\ opens' = opens + 1 /\ opens < MaxOpens
      /\ file' = [file EXCEPT ![p] = "open"]
      /\ misused' = (dev # "live")
      /\ UNCHANGED <<phase, dev, registered, links, listOp, walk, vma, alloc, blocks>>
    BY DEF Open
<1>2. /\ failed \subseteq failed' /\ failed' \subseteq failed \cup Failures
      /\ phase = "probing" => "early" \in failed'
    BY DEF Open, Fail
<1>3. phase \in {"probing", "ready"} /\ dev \in {"live", "freed"}
    BY <1>1 DEF Inv, TypeOK, PhaseFollows
<1>5. TypeOK'
    BY <1>1, <1>2, DeviceAssumption DEF Inv, TypeOK
<1>6. PhaseFollows'
    BY <1>1, <1>2 DEF Inv, PhaseFollows
<1>7. FilesFollow'
    <2>1. \A q \in Process : file'[q] = IF q = p THEN "open" ELSE file[q]
        BY <1>1 DEF Inv, TypeOK
    <2>2. \A q \in Process, a \in Addr : vma[q][a] # None => phase = "ready"
        BY DEF Inv, FilesFollow
    <2>3. \A q \in Process : file'[q] # "none" =>
              phase = "ready" \/ (phase = "probing" /\ "early" \in failed')
        BY <1>2, <1>3
    <2>4. \A q \in Process, a \in Addr : vma[q][a] # None => file'[q] # "none"
        BY <2>1 DEF Inv, FilesFollow
    <2>5. \A q \in Process : ~Free(q) => vma[q][listOp[q].addr] = listOp[q].entry
        BY DEF Inv, FilesFollow
    <2> QED
        BY <1>1, <2>2, <2>3, <2>4, <2>5 DEF FilesFollow, Free
<1>8. ListFollows'
    BY <1>1, <1>2, ListStays
<1>9. OnlyKnownMisuse'
    BY <1>1, <1>2, <1>3 DEF OnlyKnownMisuse
<1>10. WalksFollow'
    BY <1>1, <1>2, WalksStay
<1> QED
    BY <1>1, <1>5, <1>6, <1>7, <1>8, <1>9, <1>10, MemoryStays DEF Inv

\* A process closes its descriptor.
LEMMA CloseInv == ASSUME Inv, WalksFollow, ~misused, NEW p \in Process, Close(p) PROVE Inv' /\ WalksFollow'
<1> DEFINE mapped == \E a \in Addr : vma[p][a] # None
<1>1. /\ file[p] = "open" /\ Free(p)
      /\ UNCHANGED <<phase, registered, opens, links, listOp, walk, vma, alloc, blocks, failed>>
      /\ file' = [file EXCEPT ![p] = IF mapped THEN "mapped" ELSE "none"]
      /\ \/ mapped /\ UNCHANGED <<dev, misused>>
         \/ ~mapped /\ dev' = "freed" /\ misused' = (dev # "live")
    BY DEF Close, Release, Idle
<1>2. phase = "ready" \/ (phase = "probing" /\ "early" \in failed)
    BY <1>1 DEF Inv, FilesFollow
<1>5. TypeOK'
    BY <1>1 DEF Inv, TypeOK
<1>6. PhaseFollows'
    BY <1>1 DEF Inv, PhaseFollows
<1>7. FilesFollow'
    <2>1. \A q \in Process :
              file'[q] = IF q = p THEN IF mapped THEN "mapped" ELSE "none" ELSE file[q]
        BY <1>1 DEF Inv, TypeOK
    <2>2. \A q \in Process, a \in Addr : vma[q][a] # None => file'[q] # "none" /\ phase = "ready"
        BY <2>1 DEF Inv, FilesFollow
    <2>3. \A q \in Process : file'[q] # "none" =>
              phase = "ready" \/ (phase = "probing" /\ "early" \in failed)
        BY <1>2
    <2>4. \A q \in Process : ~Free(q) => vma[q][listOp[q].addr] = listOp[q].entry
        BY DEF Inv, FilesFollow
    <2> QED
        BY <1>1, <2>2, <2>3, <2>4 DEF FilesFollow, Free
<1>8. ListFollows'
    BY <1>1, ListStays
<1>9. OnlyKnownMisuse'
    BY <1>1, <1>2 DEF OnlyKnownMisuse
<1>10. WalksFollow'
    BY <1>1, WalksStay
<1> QED
    BY <1>1, <1>5, <1>6, <1>7, <1>8, <1>9, <1>10, MemoryStays DEF Inv

\* The rest of probe.
LEMMA ProbeEndsInv == ASSUME Inv, WalksFollow, ~misused, ProbeEnds PROVE Inv' /\ WalksFollow'
<1>1. /\ phase = "probing" /\ phase' = "ready"
      /\ registered' = registered \cup {"regs"}
      /\ links' = EmptyList
      /\ UNCHANGED <<dev, file, opens, listOp, walk, vma, alloc, blocks, failed, misused>>
    BY DEF ProbeEnds, MapRegisters
<1>2. \A p \in Process, a \in Addr : vma[p][a] = None
    BY <1>1 DEF Inv, FilesFollow
<1>3. \A p \in Process : Free(p)
    <2> SUFFICES ASSUME NEW p \in Process, ~Free(p)
                 PROVE  FALSE
        OBVIOUS
    <2>1. listOp[p] \in ListOp
        BY DEF Inv, TypeOK, Free
    <2>2. listOp[p].addr \in Addr /\ listOp[p].entry \in Struct
        BY <2>1 DEF ListOp
    <2>3. listOp[p].entry = None
        BY <1>2, <2>2 DEF Inv, FilesFollow
    <2> QED
        BY <2>2, <2>3, DeviceAssumption
<1>4. TypeOK'
    BY <1>1 DEF Inv, TypeOK, EmptyList, Node
<1>5. PhaseFollows' /\ FilesFollow'
    BY <1>1, <1>2, <1>3 DEF Inv, PhaseFollows, FilesFollow, Free
<1>6. ListFollows'
    <2> DEFINE o == [i \in 0..1 |-> Anchor]
    <2>1. 0 \in 0..Cardinality(Struct)
        BY DeviceAssumption, FS_CardinalityType
    <2>2. o \in [0..(0 + 1) -> Node] /\ o[0] = Anchor /\ o[0 + 1] = Anchor
        BY DEF Node
    <2>3. Listed' = {}
        BY <1>1, <1>2 DEF Listed, InUse
    <2>4. links'.next[Anchor] = Anchor /\ links'.prev[Anchor] = Anchor
        BY <1>1 DEF EmptyList, Node
    <2> HIDE DEF o
    <2>5. 1..0 = {} /\ 0..0 = {0}
        OBVIOUS
    <2>6. Chain(0, o)'
        BY <2>2, <2>3, <2>4, <2>5 DEF Chain
    <2>7. Back(o, 0..0)' /\ ListQuiet'
        BY <1>1, <1>3, <2>2, <2>4, <2>5 DEF Back, ListQuiet, Free
    <2>8. Linked(0, o)'
        BY <2>6, <2>7 DEF Linked
    <2> QED
        BY <2>1, <2>2, <2>8 DEF ListFollows
<1>7. OnlyKnownMisuse'
    BY <1>1 DEF OnlyKnownMisuse
<1>8. WalksFollow'
    <2>1. \A p \in Process : walk[p] = None
        <3> SUFFICES ASSUME NEW p \in Process, walk[p] # None
                     PROVE  FALSE
            OBVIOUS
        <3>1. walk[p].addr \in Addr
            BY DEF Inv, TypeOK, Walk
        <3> QED
            BY <1>2, <3>1 DEF WalksFollow
    <2> QED
        BY <1>1, <2>1 DEF WalksFollow
<1> QED
    BY <1>1, <1>4, <1>5, <1>6, <1>7, <1>8, MemoryStays DEF Inv

\* The entry of an operation under way is mapped, by that process, at that address.
LEMMA OpFacts ==
    ASSUME Inv, NEW p \in Process, ~Free(p)
    PROVE  /\ listOp[p] \in ListOp
           /\ listOp[p].entry \in Struct /\ listOp[p].addr \in Addr
           /\ listOp[p].prev \in Node /\ listOp[p].next \in Node
           /\ listOp[p].kind \in {"add", "del"} /\ listOp[p].half \in BOOLEAN
           /\ listOp[p].entry # None
           /\ listOp[p].entry \in InUse
           /\ vma[p][listOp[p].addr] = listOp[p].entry
           /\ \A q \in Process : ~Free(q) /\ listOp[q].entry = listOp[p].entry => q = p
<1>1. \A q \in Process : ~Free(q) =>
          /\ listOp[q] \in ListOp
          /\ listOp[q].entry \in Struct /\ listOp[q].addr \in Addr
          /\ vma[q][listOp[q].addr] = listOp[q].entry
    <2> SUFFICES ASSUME NEW q \in Process, ~Free(q)
                 PROVE  /\ listOp[q] \in ListOp
                        /\ listOp[q].entry \in Struct /\ listOp[q].addr \in Addr
                        /\ vma[q][listOp[q].addr] = listOp[q].entry
        OBVIOUS
    <2>1. listOp[q] \in ListOp
        BY DEF Inv, TypeOK, Free
    <2>2. listOp[q].entry \in Struct /\ listOp[q].addr \in Addr
        BY <2>1 DEF ListOp
    <2>3. vma[q][listOp[q].addr] = listOp[q].entry
        BY DEF Inv, FilesFollow
    <2> QED
        BY <2>1, <2>2, <2>3
<1>2. /\ listOp[p].prev \in Node /\ listOp[p].next \in Node
      /\ listOp[p].kind \in {"add", "del"} /\ listOp[p].half \in BOOLEAN
    BY <1>1 DEF ListOp
<1>3. listOp[p].entry # None
    BY <1>1, DeviceAssumption
<1>4. listOp[p].entry \in InUse
    BY <1>1, <1>3 DEF InUse
<1>5. \A q \in Process : ~Free(q) /\ listOp[q].entry = listOp[p].entry => q = p
    <2>1. \A q \in Process, b \in Addr : vma[q][b] = listOp[p].entry => q = p
        BY <1>1, <1>3 DEF Inv, MappingsFollow
    <2> QED
        BY <1>1, <2>1
<1> QED
    BY <1>1, <1>2, <1>3, <1>4, <1>5

\* A mapping has its structure for itself.
LEMMA MappingFacts ==
    ASSUME Inv, NEW p \in Process, NEW a \in Addr, vma[p][a] # None
    PROVE  /\ vma[p][a] \in Struct
           /\ vma[p][a] \in InUse
           /\ alloc[vma[p][a]] \in Contents
           /\ alloc[vma[p][a]].user_addr = a
           /\ alloc[vma[p][a]].phys_addr \in Block
           /\ \A q \in Process, b \in Addr : vma[q][b] = vma[p][a] => q = p /\ b = a
           /\ \A q \in Process : ~Free(q) /\ listOp[q].entry = vma[p][a] => q = p
<1>1. vma[p][a] \in Struct
    BY DEF Inv, TypeOK
<1>2. vma[p][a] \in InUse
    BY DEF InUse
<1>3. /\ alloc[vma[p][a]] # None
      /\ alloc[vma[p][a]].user_addr = a
      /\ \A q \in Process, b \in Addr : vma[q][b] = vma[p][a] => q = p /\ b = a
    BY DEF Inv, MappingsFollow
<1>4. alloc[vma[p][a]] \in Contents
    BY <1>1, <1>3 DEF Inv, TypeOK
<1>5. alloc[vma[p][a]].phys_addr \in Block
    BY <1>4 DEF Contents
<1>6. \A q \in Process : ~Free(q) /\ listOp[q].entry = vma[p][a] => q = p
    BY <1>3, OpFacts
<1> QED
    BY <1>1, <1>2, <1>3, <1>4, <1>5, <1>6

\* Structures that are mapped are allocated.
LEMMA InUseFacts ==
    ASSUME Inv
    PROVE  /\ InUse \subseteq Struct
           /\ \A s \in InUse : alloc[s] # None /\ alloc[s] \in Contents
           /\ Listed \subseteq InUse /\ Owning \subseteq InUse
           /\ \A s \in InUse : s # Anchor
<1>1. \A s \in InUse : s \in Struct /\ alloc[s] \in Contents /\ s # Anchor
    <2> TAKE s \in InUse
    <2>1. PICK p \in Process, a \in Addr : vma[p][a] = s /\ s # None
        BY DEF InUse
    <2> QED
        BY <2>1, MappingFacts, DeviceAssumption
<1> QED
    BY <1>1, DeviceAssumption DEF Listed, Owning

\* A walk is for an address, and at a node or astray.
LEMMA WalkFacts ==
    ASSUME Inv, NEW p \in Process
    PROVE  /\ walk[p] # None => walk[p] \in Walk /\ walk[p].addr \in Addr
                                /\ walk[p].at \in Node \cup {None}
           /\ \A s : LET w == Stranded(s)[p]
                     IN  /\ w # None => walk[p] # None /\ w \in Walk /\ w.addr = walk[p].addr
                         /\ w # None /\ w.at # None => w = walk[p] /\ walk[p].at # s
<1>1. walk[p] # None => walk[p] \in Walk /\ walk[p].addr \in Addr
                        /\ walk[p].at \in Node \cup {None}
    BY DEF Inv, TypeOK, Walk
<1>2. ASSUME NEW s, Stranded(s)[p] # None
      PROVE  /\ walk[p] # None /\ Stranded(s)[p] \in Walk
             /\ Stranded(s)[p].addr = walk[p].addr
             /\ Stranded(s)[p].at # None => Stranded(s)[p] = walk[p] /\ walk[p].at # s
    <2>1. Stranded(s)[p] = IF walk[p] # None /\ walk[p].at = s
                           THEN [walk[p] EXCEPT !.at = None] ELSE walk[p]
        BY DEF Stranded
    <2>2. CASE walk[p] # None /\ walk[p].at = s
        <3>1. Stranded(s)[p] = [addr |-> walk[p].addr, at |-> None]
            BY <1>1, <2>1, <2>2 DEF Walk
        <3> QED
            BY <1>1, <2>2, <3>1 DEF Walk
    <2>3. CASE ~(walk[p] # None /\ walk[p].at = s)
        BY <1>1, <1>2, <2>1, <2>3
    <2> QED
        BY <2>2, <2>3
<1> QED
    BY <1>1, <1>2

\* The own entry of a process that is in no operation is listed.
LEMMA OwnListed ==
    ASSUME Inv, NEW p \in Process, NEW a \in Addr, Free(p), vma[p][a] # None
    PROVE  vma[p][a] \in Listed
<1>1. vma[p][a] \in InUse /\ \A q \in Process : ~Free(q) => listOp[q].entry # vma[p][a]
    BY MappingFacts
<1> QED
    BY <1>1 DEF Listed, EntriesOf

\* A transfer begins its walk at the first entry: everything is before it.
LEMMA IoctlInv ==
    ASSUME Inv, WalksFollow, ~misused, NEW p \in Process, NEW a \in Addr, Ioctl(p, a)
    PROVE  Inv' /\ WalksFollow'
<1> DEFINE new == [addr |-> a, at |-> links.next[Anchor]]
<1>1. /\ vma[p][a] # None /\ Free(p)
      /\ misused' = ~Writable(Anchor)
      /\ walk' = [walk EXCEPT ![p] = new]
      /\ UNCHANGED <<phase, dev, registered, file, opens, links, listOp, vma, alloc, blocks,
                     failed>>
    BY DEF Ioctl, Idle
<1>2. phase = "ready"
    BY <1>1 DEF Inv, FilesFollow
<1>3. dev \in {"live", "freed"}
    BY <1>2 DEF Inv, PhaseFollows
<1>4. new \in Walk /\ new.addr = a /\ new.at = links.next[Anchor] /\ links.next[Anchor] \in Node
    <2>1. links.next[Anchor] \in Node
        BY DEF Inv, TypeOK, Node
    <2> QED
        BY <2>1 DEF Walk
<1> HIDE DEF new
<1>5. /\ walk' \in [Process -> Walk \cup {None}]
      /\ \A q \in Process : walk'[q] = IF q = p THEN new ELSE walk[q]
    BY <1>1, <1>4 DEF Inv, TypeOK
<1>6. TypeOK'
    BY <1>1, <1>5 DEF Inv, TypeOK
<1>7. PhaseFollows' /\ FilesFollow'
    BY <1>1, <1>2 DEF Inv, PhaseFollows, FilesFollow, Free
<1>8. ListFollows'
    BY <1>1, ListStays
<1>9. OnlyKnownMisuse'
    BY <1>1, <1>2, <1>3 DEF OnlyKnownMisuse, Writable
<1>10. Listed' = Listed
    BY <1>1 DEF Listed, InUse, EntriesOf, Free
<1>11. ASSUME "race" \notin failed
       PROVE  Ahead(links.next[Anchor], vma[p][a])
    <2>1. PICK n \in 0..Cardinality(Struct) : \E o \in [0..(n + 1) -> Node] : Linked(n, o)
        BY <1>2, <1>11 DEF Inv, ListFollows
    <2>2. PICK o \in [0..(n + 1) -> Node] : Chain(n, o)
        BY <2>1 DEF Linked
    <2>3. n \in Nat
        BY DeviceAssumption, FS_CardinalityType
    <2>4. /\ o[0] = Anchor /\ {o[i] : i \in 1..n} = Listed
          /\ \A i \in 0..n : links.next[o[i]] = o[i + 1]
        BY <2>2 DEF Chain
    <2>5. PICK k \in 1..n : o[k] = vma[p][a]
        BY <1>1, <2>4, OwnListed
    <2> DEFINE way == {o[i] : i \in 1..k}
    <2>6. way \in SUBSET Listed /\ vma[p][a] \in way
        <3>1. 1..k \subseteq 1..n /\ k \in 1..k
            BY <2>3
        <3> QED
            BY <2>4, <2>5, <3>1
    <2>7. links.next[Anchor] \in way
        <3>1. 0 \in 0..n /\ 0 + 1 = 1 /\ 1 \in 1..k
            BY <2>3
        <3> QED
            BY <2>4, <3>1
    <2>8. ASSUME NEW t \in way \ {vma[p][a]}
          PROVE  links.next[t] \in way
        <3>1. PICK i \in 1..k : o[i] = t
            OBVIOUS
        <3>2. i # k
            BY <2>5, <3>1
        <3>3. i \in 0..n /\ i + 1 \in 1..k
            BY <2>3, <3>2
        <3> QED
            BY <2>4, <3>1, <3>3
    <2> HIDE DEF way
    <2> QED
        BY <2>6, <2>7, <2>8 DEF Ahead
<1>12. WalksFollow'
    <2>1. \A q \in Process : walk'[q] # None => Free(q)' /\ vma'[q][walk'[q].addr] # None
        BY <1>1, <1>4, <1>5 DEF WalksFollow, Free
    <2>2. ASSUME "race" \notin failed, NEW q \in Process, walk'[q] # None, walk'[q].at # None
          PROVE  Ahead(walk[q].at, vma[q][walk[q].addr])'
        <3>1. \A at, own : Ahead(at, own) => Ahead(at, own)'
            BY <1>1, <1>10 DEF Ahead
        <3>2. CASE q = p
            BY <1>1, <1>4, <1>5, <1>11, <2>2, <3>1, <3>2
        <3>3. CASE q # p
            BY <1>1, <1>2, <1>5, <2>2, <3>1, <3>3 DEF WalksFollow
        <3> QED
            BY <3>2, <3>3
    <2> QED
        BY <1>1, <2>1, <2>2 DEF WalksFollow
<1> QED
    BY <1>1, <1>6, <1>7, <1>8, <1>9, <1>12, MemoryStays DEF Inv

\* The walk that ends is over; the registers are mapped.
LEMMA LookupEndsInv ==
    ASSUME Inv, WalksFollow, ~misused, NEW p \in Process, LookupEnds(p)
    PROVE  Inv' /\ WalksFollow'
<1>1. /\ walk[p] # None
      /\ misused' = ("regs" \notin registered)
      /\ walk' = [walk EXCEPT ![p] = None]
      /\ UNCHANGED <<phase, dev, registered, file, opens, links, listOp, vma, alloc, blocks,
                     failed>>
    BY DEF LookupEnds
<1>2. phase = "ready"
    BY <1>1, WalkFacts DEF Inv, FilesFollow, WalksFollow
<1>3. misused' = FALSE
    BY <1>1, <1>2 DEF Inv, PhaseFollows
<1>4. /\ walk' \in [Process -> Walk \cup {None}]
      /\ \A q \in Process : walk'[q] = IF q = p THEN None ELSE walk[q]
    BY <1>1 DEF Inv, TypeOK
<1>5. TypeOK'
    BY <1>1, <1>3, <1>4 DEF Inv, TypeOK
<1>6. PhaseFollows' /\ FilesFollow'
    BY <1>1, <1>2 DEF Inv, PhaseFollows, FilesFollow, Free
<1>7. ListFollows'
    BY <1>1, ListStays
<1>8. OnlyKnownMisuse'
    BY <1>3 DEF OnlyKnownMisuse
<1>9. WalksFollow'
    <2>1. Listed' = Listed
        BY <1>1 DEF Listed, InUse, EntriesOf, Free
    <2>2. \A at, own : Ahead(at, own) => Ahead(at, own)'
        BY <1>1, <2>1 DEF Ahead
    <2> QED
        BY <1>1, <1>4, <2>2 DEF WalksFollow, Free
<1> QED
    BY <1>1, <1>5, <1>6, <1>7, <1>8, <1>9, MemoryStays DEF Inv

\* The walk that goes on has not come to the own entry yet, which stays before it.
LEMMA LookupGoesOnInv ==
    ASSUME Inv, WalksFollow, ~misused, NEW p \in Process, LookupGoesOn(p)
    PROVE  Inv' /\ WalksFollow'
<1> DEFINE w == walk[p]
           new == [w EXCEPT !.at = links.next[w.at]]
<1>1. /\ walk[p] # None /\ OnTrack(w) /\ ~Ended(w)
      /\ walk' = [walk EXCEPT ![p] = new]
      /\ UNCHANGED <<phase, dev, registered, file, opens, links, listOp, vma, alloc, blocks,
                     failed, misused>>
    BY DEF LookupGoesOn
<1>2. w \in Walk /\ w.addr \in Addr /\ vma[p][w.addr] # None
    BY <1>1, WalkFacts DEF WalksFollow
<1>3. phase = "ready"
    BY <1>2 DEF Inv, FilesFollow
<1>4. w.at \in Node /\ w.at # None /\ links.next[w.at] \in Node
    <2>1. w.at \in Node
        BY <1>1 DEF OnTrack
    <2>2. w.at # None
        BY <2>1, DeviceAssumption DEF Node
    <2>3. links.next \in [Node -> Node]
        BY DEF Inv, TypeOK
    <2> HIDE DEF w
    <2> QED
        BY <2>1, <2>2, <2>3
<1>5. new \in Walk /\ new.addr = w.addr /\ new.at = links.next[w.at]
    BY <1>2, <1>4 DEF Walk
<1> HIDE DEF new
<1>6. /\ walk' \in [Process -> Walk \cup {None}]
      /\ \A q \in Process : walk'[q] = IF q = p THEN new ELSE walk[q]
    BY <1>1, <1>5 DEF Inv, TypeOK
<1>7. TypeOK'
    BY <1>1, <1>6 DEF Inv, TypeOK
<1>8. PhaseFollows' /\ FilesFollow'
    BY <1>1, <1>3 DEF Inv, PhaseFollows, FilesFollow, Free
<1>9. ListFollows' /\ OnlyKnownMisuse'
    BY <1>1, ListStays DEF OnlyKnownMisuse
<1>10. ASSUME "race" \notin failed
       PROVE  Ahead(links.next[w.at], vma[p][w.addr])
    <2>1. Ahead(w.at, vma[p][w.addr])
        BY <1>1, <1>3, <1>4, <1>10 DEF WalksFollow
    <2>2. w.at # vma[p][w.addr]
        <3>1. alloc[vma[p][w.addr]].user_addr = w.addr
            BY <1>2, MappingFacts
        <3> QED
            BY <1>1, <3>1 DEF Ended
    <2> HIDE DEF w
    <2> QED
        BY <2>1, <2>2 DEF Ahead
<1>11. WalksFollow'
    <2>1. Listed' = Listed
        BY <1>1 DEF Listed, InUse, EntriesOf, Free
    <2>2. \A at, own : Ahead(at, own) => Ahead(at, own)'
        BY <1>1, <2>1 DEF Ahead
    <2>3. \A q \in Process : walk'[q] # None => Free(q)' /\ vma'[q][walk'[q].addr] # None
        BY <1>1, <1>2, <1>5, <1>6 DEF WalksFollow, Free
    <2>4. ASSUME "race" \notin failed, NEW q \in Process, walk'[q] # None, walk'[q].at # None
          PROVE  Ahead(walk[q].at, vma[q][walk[q].addr])'
        <3>1. CASE q = p
            BY <1>1, <1>5, <1>6, <1>10, <2>2, <2>4, <3>1
        <3>2. CASE q # p
            BY <1>1, <1>3, <1>6, <2>2, <2>4, <3>2 DEF WalksFollow
        <3> QED
            BY <3>1, <3>2
    <2> QED
        BY <1>1, <2>3, <2>4 DEF WalksFollow
<1> QED
    BY <1>1, <1>7, <1>8, <1>9, <1>11, MemoryStays DEF Inv

\* A walk strays only from a list that was broken, or when its entry was freed.
LEMMA LookupStraysInv ==
    ASSUME Inv, WalksFollow, ~misused, NEW p \in Process, LookupStrays(p)
    PROVE  Inv' /\ WalksFollow'
<1>1. /\ walk[p] # None /\ ~OnTrack(walk[p]) /\ misused' = TRUE
      /\ UNCHANGED <<phase, dev, registered, file, opens, links, listOp, walk, vma, alloc,
                     blocks, failed>>
    BY DEF LookupStrays
<1>2. phase = "ready"
    BY <1>1, WalkFacts DEF Inv, FilesFollow, WalksFollow
<1>3. TypeOK'
    BY <1>1 DEF Inv, TypeOK
<1>4. PhaseFollows' /\ FilesFollow'
    BY <1>1, <1>2 DEF Inv, PhaseFollows, FilesFollow, Free
<1>5. ListFollows' /\ WalksFollow'
    BY <1>1, ListStays, WalksStay
<1>6. OnlyKnownMisuse'
    <2>1. ASSUME "race" \notin failed, walk[p].at # None
          PROVE  FALSE
        <3>1. walk[p].at \in Listed
            BY <1>1, <1>2, <2>1 DEF WalksFollow, Ahead
        <3> QED
            BY <1>1, <3>1, InUseFacts DEF OnTrack, Node
    <2> QED
        BY <1>1, <2>1 DEF OnlyKnownMisuse
<1> QED
    BY <1>1, <1>3, <1>4, <1>5, <1>6, MemoryStays DEF Inv

\* TransferHitsOwn follows from the invariant.
LEMMA TransferFromInv ==
    ASSUME Inv, WalksFollow
    PROVE  TransferHitsOwn
<1> SUFFICES ASSUME "race" \notin failed, ~misused, NEW p \in Process, walk[p] # None,
                    walk[p].at # None
             PROVE  /\ walk[p].at # Anchor
                    /\ Ended(walk[p]) =>
                          \/ alloc[walk[p].at].phys_addr = alloc[vma[p][walk[p].addr]].phys_addr
                          \/ \E q \in Process \ {p} : vma[q][walk[p].addr] # None
    BY DeviceAssumption DEF TransferHitsOwn
<1>1. walk[p].addr \in Addr /\ vma[p][walk[p].addr] # None
    BY WalkFacts DEF WalksFollow
<1>2. phase = "ready"
    BY <1>1 DEF Inv, FilesFollow
<1>3. walk[p].at \in Listed
    BY <1>2 DEF WalksFollow, Ahead
<1>4. walk[p].at # Anchor /\ walk[p].at \in Struct
    BY <1>3, InUseFacts
<1>5. PICK q \in Process, b \in Addr : walk[p].at = vma[q][b] /\ vma[q][b] # None
    BY <1>3 DEF Listed, InUse
<1>6. alloc[walk[p].at].user_addr = b
    BY <1>5, MappingFacts
<1>7. Ended(walk[p]) => b = walk[p].addr
    BY <1>4, <1>6 DEF Ended
<1> QED
    BY <1>4, <1>5, <1>7

\* No entry and not the anchor is twice in the order.
LEMMA ChainFacts ==
    ASSUME Inv, NEW n \in Nat, NEW o, Chain(n, o)
    PROVE  /\ \A i \in 0..(n + 1) : o[i] = Anchor \/ o[i] \in Listed
           /\ \A i \in 0..(n + 1) : o[i] \in Node
           /\ \A i, j \in 1..(n + 1) : o[i] = o[j] => i = j
           /\ \A i, j \in 0..n : o[i] = o[j] => i = j
           /\ \A s \in Listed : \E k \in 1..n : o[k] = s
<1>1. \A i \in 0..(n + 1) : i = 0 \/ i = n + 1 \/ i \in 1..n
    OBVIOUS
<1>2. /\ o \in [0..(n + 1) -> Node] /\ o[0] = Anchor /\ o[n + 1] = Anchor
      /\ \A i \in 1..n : o[i] # Anchor /\ o[i] \in Listed
      /\ \A i, j \in 1..n : o[i] = o[j] => i = j
      /\ \A s \in Listed : \E k \in 1..n : o[k] = s
    BY DEF Chain
<1>3. \A i \in 0..(n + 1) : o[i] = Anchor \/ o[i] \in Listed
    BY <1>1, <1>2
<1>4. \A i, j \in 1..(n + 1) : o[i] = o[j] => i = j
    BY <1>1, <1>2
<1>5. \A i, j \in 0..n : o[i] = o[j] => i = j
    BY <1>1, <1>2
<1> QED
    BY <1>2, <1>3, <1>4, <1>5

\* While no two operations have met, an operation that begins is the only one.
LEMMA BeginFacts ==
    ASSUME Inv, NEW p \in Process, NEW op \in ListOp, Free(p), BeginList(p, op)
    PROVE  /\ \A q \in Process : listOp'[q] = IF q = p THEN op ELSE listOp[q]
           /\ listOp' \in [Process -> ListOp \cup {None}]
           /\ op # None
           /\ failed \subseteq failed' /\ failed' \subseteq failed \cup Failures
           /\ "race" \notin failed' => ListQuiet /\ "race" \notin failed
<1>1. listOp' = [listOp EXCEPT ![p] = op]
    BY DEF BeginList
<1>2. /\ failed \subseteq failed' /\ failed' \subseteq failed \cup Failures
      /\ "race" \notin failed' => ListQuiet /\ "race" \notin failed
    BY DEF BeginList, Fail
<1>3. op # None
    BY DeviceAssumption
<1> QED
    BY <1>1, <1>2, <1>3 DEF Inv, TypeOK

\* The operation that is under way alone.
LEMMA OnlyOp ==
    ASSUME Inv, NEW p \in Process, ~Free(p), phase = "ready", "race" \notin failed
    PROVE  /\ \A q \in Process \ {p} : Free(q)
           /\ \E n \in 0..Cardinality(Struct) : \E o \in [0..(n + 1) -> Node] :
                 Chain(n, o) /\ (Adding(n, o, listOp[p]) \/ Deleting(n, o, listOp[p]))
<1>1. PICK n \in 0..Cardinality(Struct) : \E o \in [0..(n + 1) -> Node] : Linked(n, o)
    BY DEF Inv, ListFollows
<1>2. PICK o \in [0..(n + 1) -> Node] : Linked(n, o)
    BY <1>1
<1>3. PICK r \in Process :
          /\ ~Free(r)
          /\ \A q \in Process \ {r} : Free(q)
          /\ Adding(n, o, listOp[r]) \/ Deleting(n, o, listOp[r])
    BY <1>2 DEF Linked, ListQuiet, Free
<1>4. r = p
    BY <1>3
<1> QED
    BY <1>2, <1>3, <1>4 DEF Linked

\* mmap that fails before it has memory.
LEMMA MmapFailsInv ==
    ASSUME Inv, WalksFollow, ~misused, NoStruct \/ NoData,
           UNCHANGED <<phase, dev, registered, file, opens, links, walk>>
    PROVE  Inv' /\ WalksFollow'
<1>1. /\ UNCHANGED <<listOp, vma, alloc, blocks>>
      /\ failed \subseteq failed' /\ failed' \subseteq failed \cup Failures \cup {"dma"}
      /\ misused' = FALSE \/ (misused' = TRUE /\ "dma" \in failed')
    BY DEF NoStruct, NoData, Fail, Inv, TypeOK
<1>5. TypeOK'
    BY <1>1 DEF Inv, TypeOK
<1>6. PhaseFollows' /\ FilesFollow'
    BY <1>1 DEF Inv, PhaseFollows, FilesFollow, Free
<1>7. ListFollows' /\ OnlyKnownMisuse'
    BY <1>1, ListStays DEF OnlyKnownMisuse
<1>8. WalksFollow'
    BY <1>1, WalksStay
<1> QED
    BY <1>1, <1>5, <1>6, <1>7, <1>8, MemoryStays DEF Inv

\* mmap that fails when it has: the structure it leaves is nobody's.
LEMMA NotMappedInv ==
    ASSUME Inv, WalksFollow, ~misused, NEW p \in Process, NEW a \in Addr, NEW s \in Struct, NEW b \in Block,
           file[p] = "open", alloc[s] = None, NotMapped(a, s, b),
           UNCHANGED <<phase, dev, registered, file, opens, links, walk>>
    PROVE  Inv' /\ WalksFollow'
<1>1. /\ UNCHANGED <<listOp, vma, blocks>>
      /\ failed \subseteq failed' /\ failed' \subseteq failed \cup Failures
      /\ misused' = (dev # "live")
      /\ alloc' = [alloc EXCEPT ![s] = [user_addr |-> a, phys_addr |-> b]]
    BY DEF NotMapped, Fail
<1>2. /\ alloc' \in [Struct -> Contents \cup {None}]
      /\ \A t \in Struct \ {s} : alloc'[t] = alloc[t]
    BY <1>1 DEF Inv, TypeOK, Contents
<1>3. s \notin InUse
    BY InUseFacts
<1>4. phase = "ready" \/ (phase = "probing" /\ "early" \in failed)
    BY DEF Inv, FilesFollow
<1>5. TypeOK'
    BY <1>1, <1>2 DEF Inv, TypeOK
<1>6. PhaseFollows' /\ FilesFollow'
    BY <1>1 DEF Inv, PhaseFollows, FilesFollow, Free
<1>7. ListFollows'
    BY <1>1, ListStays
<1>8. OnlyKnownMisuse'
    BY <1>1, <1>4 DEF OnlyKnownMisuse, Inv, PhaseFollows
<1>9. MappingsFollow'
    <2>1. \A q \in Process, c \in Addr : vma[q][c] # None => alloc'[vma[q][c]] = alloc[vma[q][c]]
        BY <1>2, <1>3, MappingFacts
    <2> QED
        BY <1>1, <2>1 DEF Inv, MappingsFollow
<1>10. BlocksFollow'
    <2>1. Owning' = Owning
        BY <1>1 DEF Owning, InUse, EntriesOf, Free
    <2>2. \A t \in Owning : alloc'[t] = alloc[t]
        BY <1>2, <1>3, InUseFacts
    <2> QED
        BY <1>1, <2>1, <2>2 DEF Inv, BlocksFollow
<1>11. WalksFollow'
    BY <1>1, WalksStay
<1> QED
    BY <1>5, <1>6, <1>7, <1>8, <1>9, <1>10, <1>11 DEF Inv

\* mmap that succeeds, up to the writes of list_add.
LEMMA MappedInv ==
    ASSUME Inv, WalksFollow, ~misused, NEW p \in Process, NEW a \in Addr, NEW s \in Struct,
           NEW b \in Block \ blocks,
           file[p] = "open", Idle(p), vma[p][a] = None, alloc[s] = None, Mapped(p, a, s, b),
           UNCHANGED <<phase, dev, registered, file, opens, links, walk>>
    PROVE  Inv' /\ WalksFollow'
<1> DEFINE op == [kind |-> "add", entry |-> s, addr |-> a, half |-> FALSE,
                  prev |-> Anchor, next |-> links.next[Anchor]]
<1>1. /\ misused' = ~Writable(Anchor)
      /\ alloc' = [alloc EXCEPT ![s] = [user_addr |-> a, phys_addr |-> b]]
      /\ blocks' = blocks \cup {b}
      /\ vma' = [vma EXCEPT ![p][a] = s]
      /\ BeginList(p, op)
    BY DEF Mapped
<1>2. op \in ListOp
    <2>1. links.next[Anchor] \in Node /\ Anchor \in Node
        BY DEF Inv, TypeOK, Node
    <2> QED
        BY <2>1 DEF ListOp
<1>3. /\ op.kind = "add" /\ op.entry = s /\ op.addr = a /\ op.half = FALSE
      /\ op.prev = Anchor /\ op.next = links.next[Anchor]
    OBVIOUS
<1> HIDE DEF op
<1>4. /\ \A q \in Process : listOp'[q] = IF q = p THEN op ELSE listOp[q]
      /\ listOp' \in [Process -> ListOp \cup {None}]
      /\ op # None
      /\ failed \subseteq failed' /\ failed' \subseteq failed \cup Failures
      /\ "race" \notin failed' => ListQuiet /\ "race" \notin failed
    BY <1>1, <1>2, BeginFacts DEF Idle
<1>5. /\ vma' \in [Process -> [Addr -> Struct \cup {None}]]
      /\ \A q \in Process, c \in Addr :
            vma'[q][c] = IF q = p /\ c = a THEN s ELSE vma[q][c]
    BY <1>1 DEF Inv, TypeOK
<1>6. /\ alloc' \in [Struct -> Contents \cup {None}]
      /\ \A t \in Struct \ {s} : alloc'[t] = alloc[t]
      /\ alloc'[s] # None /\ alloc'[s].user_addr = a /\ alloc'[s].phys_addr = b
    <2>1. [user_addr |-> a, phys_addr |-> b] \in Contents
        BY DEF Contents
    <2> QED
        BY <1>1, <2>1, DeviceAssumption DEF Inv, TypeOK
<1>7. s \notin InUse /\ s # None
    BY InUseFacts, DeviceAssumption
<1>8. phase = "ready" \/ (phase = "probing" /\ "early" \in failed)
    BY DEF Inv, FilesFollow
<1>9. misused' <=> ~(dev = "live" /\ phase = "ready")
    BY <1>1 DEF Writable
<1>10. TypeOK'
    BY <1>1, <1>4, <1>5, <1>6, <1>9 DEF Inv, TypeOK
<1>11. PhaseFollows'
    BY <1>4 DEF Inv, PhaseFollows
<1>12. FilesFollow'
    <2>1. \A q \in Process : file[q] # "none" =>
              phase = "ready" \/ (phase = "probing" /\ "early" \in failed')
        BY <1>4 DEF Inv, FilesFollow
    <2>2. \A q \in Process, c \in Addr : vma'[q][c] # None =>
              file[q] # "none" /\ (phase = "ready" \/ misused')
        BY <1>5, <1>9 DEF Inv, FilesFollow
    <2>3. \A q \in Process : listOp'[q] # None => vma'[q][listOp'[q].addr] = listOp'[q].entry
        <3> SUFFICES ASSUME NEW q \in Process, listOp'[q] # None
                     PROVE  vma'[q][listOp'[q].addr] = listOp'[q].entry
            OBVIOUS
        <3>1. CASE q = p
            BY <1>3, <1>4, <1>5, <3>1
        <3>2. CASE q # p
            BY <1>4, <1>5, <3>2, OpFacts DEF Free
        <3> QED
            BY <3>1, <3>2
    <2> QED
        BY <2>1, <2>2, <2>3 DEF FilesFollow, Free
<1>13. MappingsFollow'
    <2> SUFFICES ASSUME NEW q \in Process, NEW c \in Addr, vma'[q][c] # None
                 PROVE  /\ alloc'[vma'[q][c]] # None
                        /\ alloc'[vma'[q][c]].user_addr = c
                        /\ \A r \in Process, d \in Addr :
                              vma'[r][d] = vma'[q][c] => r = q /\ d = c
        BY DEF MappingsFollow
    <2>1. \A r \in Process, d \in Addr : vma[r][d] # None => vma[r][d] # s
        BY <1>7, MappingFacts
    <2>2. CASE q = p /\ c = a
        BY <1>5, <1>6, <1>7, <2>1, <2>2
    <2>3. CASE ~(q = p /\ c = a)
        <3>1. vma'[q][c] = vma[q][c] /\ vma[q][c] # s /\ vma[q][c] # None
            BY <1>5, <2>1, <2>3
        <3>2. alloc'[vma[q][c]] = alloc[vma[q][c]]
            BY <1>6, <3>1, MappingFacts
        <3> QED
            BY <1>5, <3>1, <3>2, <2>3 DEF Inv, MappingsFollow
    <2> QED
        BY <2>2, <2>3
<1>14. InUse' = InUse \cup {s}
    <2>1. \A t : t \in InUse' <=> t \in InUse \cup {s}
        <3>1. \A t : t \in InUse' <=> \E q \in Process, c \in Addr : vma'[q][c] = t /\ t # None
            BY DEF InUse
        <3>2. \A t : t \in InUse <=> \E q \in Process, c \in Addr : vma[q][c] = t /\ t # None
            BY DEF InUse
        <3> QED
            BY <1>5, <1>7, <3>1, <3>2
    <2> QED
        BY <2>1
<1>15. EntriesOf("del")' = EntriesOf("del") /\ EntriesOf("add")' = EntriesOf("add") \cup {s}
    <2>1. \A k, t : t \in EntriesOf(k)' <=>
              \E q \in Process : listOp'[q] # None /\ listOp'[q].kind = k /\ listOp'[q].entry = t
        BY DEF EntriesOf, Free
    <2>2. \A k, t : t \in EntriesOf(k) <=>
              \E q \in Process : listOp[q] # None /\ listOp[q].kind = k /\ listOp[q].entry = t
        BY DEF EntriesOf, Free
    <2>3. listOp[p] = None
        BY DEF Free, Idle
    <2>4. \A t : t \in EntriesOf("del")' <=> t \in EntriesOf("del")
        BY <1>3, <1>4, <2>1, <2>2, <2>3
    <2>5. \A t : t \in EntriesOf("add")' <=> t \in EntriesOf("add") \cup {s}
        BY <1>3, <1>4, <2>1, <2>2, <2>3
    <2> QED
        BY <2>4, <2>5
<1>16. s \notin EntriesOf("del") /\ s \notin EntriesOf("add")
    BY <1>7, OpFacts DEF EntriesOf
<1>17. Owning' = Owning \cup {s} /\ Listed' = Listed
    BY <1>14, <1>15, <1>16, <1>7 DEF Owning, Listed
<1>18. BlocksFollow'
    <2>1. \A t \in Owning : alloc'[t] = alloc[t] /\ t # s /\ alloc[t].phys_addr \in blocks
        BY <1>6, <1>7, InUseFacts DEF Inv, BlocksFollow
    <2>2. blocks = {alloc[t].phys_addr : t \in Owning}
          /\ \A t, u \in Owning : alloc[t].phys_addr = alloc[u].phys_addr => t = u
        BY DEF Inv, BlocksFollow
    <2>3. blocks' = {alloc'[t].phys_addr : t \in Owning'}
        BY <1>1, <1>6, <1>17, <2>1, <2>2
    <2>4. \A t, u \in Owning' : alloc'[t].phys_addr = alloc'[u].phys_addr => t = u
        BY <1>6, <1>17, <2>1, <2>2
    <2> QED
        BY <2>3, <2>4 DEF BlocksFollow
<1>19. ListFollows'
    <2> SUFFICES ASSUME phase = "ready", "race" \notin failed'
                 PROVE  \E n \in 0..Cardinality(Struct) : \E o \in [0..(n + 1) -> Node] :
                            Linked(n, o)'
        BY DEF ListFollows
    <2>1. ListQuiet /\ "race" \notin failed
        BY <1>4
    <2>2. PICK n \in 0..Cardinality(Struct) : \E o \in [0..(n + 1) -> Node] : Linked(n, o)
        BY <2>1 DEF Inv, ListFollows
    <2>3. PICK o \in [0..(n + 1) -> Node] : Chain(n, o) /\ Back(o, 0..n)
        BY <2>1, <2>2 DEF Linked, ListQuiet, Free
    <2>4. Chain(n, o)'
        BY <1>17, <2>3 DEF Chain
    <2>5. 0 \in 0..n /\ 0 + 1 = 1 /\ \A i \in 1..n : i \in 0..n
        BY DeviceAssumption, FS_CardinalityType
    <2>6. links.next[Anchor] = o[1] /\ links.prev[o[1]] = Anchor
        BY <2>3, <2>5 DEF Chain, Back
    <2>7. Back(o, 1..n)'
        BY <2>3, <2>5 DEF Back
    <2>8. listOp'[p] = op /\ listOp'[p] # None /\ \A q \in Process \ {p} : listOp'[q] = None
        BY <1>4, <2>1 DEF ListQuiet, Free
    <2>9. Adding(n, o, listOp[p])'
        BY <1>3, <2>6, <2>7, <2>8 DEF Adding
    <2>10. Linked(n, o)'
        BY <2>4, <2>8, <2>9 DEF Linked, Free
    <2> QED
        BY <2>10
<1>20. OnlyKnownMisuse'
    BY <1>4, <1>8, <1>9 DEF OnlyKnownMisuse, Inv, PhaseFollows
<1>21. WalksFollow'
    <2>1. \A q \in Process : walk[q] # None =>
              listOp'[q] = None /\ vma'[q][walk[q].addr] = vma[q][walk[q].addr]
        <3> SUFFICES ASSUME NEW q \in Process, walk[q] # None
                     PROVE  listOp'[q] = None /\ vma'[q][walk[q].addr] = vma[q][walk[q].addr]
            OBVIOUS
        <3>1. q # p /\ walk[q].addr \in Addr
            BY DEF Idle, Inv, TypeOK, Walk
        <3> QED
            BY <1>4, <1>5, <3>1 DEF WalksFollow, Free
    <2> QED
        BY <1>4, <1>17, <2>1, WalksGoOn
<1> QED
    BY <1>10, <1>11, <1>12, <1>13, <1>18, <1>19, <1>20, <1>21 DEF Inv

\* munmap, up to the writes of list_del.
LEMMA MunmapInv ==
    ASSUME Inv, WalksFollow, ~misused, NEW p \in Process, NEW a \in Addr, Munmap(p, a)
    PROVE  Inv' /\ WalksFollow'
<1> DEFINE s == vma[p][a]
           op == [kind |-> "del", entry |-> s, addr |-> a, half |-> FALSE,
                  prev |-> links.prev[s], next |-> links.next[s]]
<1>1. /\ Idle(p) /\ Free(p) /\ s # None
      /\ blocks' = blocks \ {alloc[s].phys_addr}
      /\ BeginList(p, op)
      /\ misused' = (dev # "live")
      /\ UNCHANGED <<phase, dev, registered, file, opens, links, walk, vma, alloc>>
    BY DEF Munmap, Idle
<1>2. s \in Struct /\ s \in InUse /\ \A q \in Process : ~Free(q) => listOp[q].entry # s
    BY <1>1, MappingFacts
<1>3. op \in ListOp
    <2>1. s \in Node
        BY <1>2 DEF Node
    <2>2. links.next[s] \in Node /\ links.prev[s] \in Node
        BY <2>1 DEF Inv, TypeOK
    <2> HIDE DEF s
    <2> QED
        BY <1>2, <2>2 DEF ListOp
<1>4. /\ op.kind = "del" /\ op.entry = s /\ op.addr = a /\ op.half = FALSE
      /\ op.prev = links.prev[s] /\ op.next = links.next[s]
    OBVIOUS
<1> HIDE DEF op
<1>5. /\ \A q \in Process : listOp'[q] = IF q = p THEN op ELSE listOp[q]
      /\ listOp' \in [Process -> ListOp \cup {None}]
      /\ op # None
      /\ failed \subseteq failed' /\ failed' \subseteq failed \cup Failures
      /\ "race" \notin failed' => ListQuiet /\ "race" \notin failed
    BY <1>1, <1>3, BeginFacts
<1>6. phase = "ready"
    BY <1>1 DEF Inv, FilesFollow
<1>7. TypeOK'
    BY <1>1, <1>5 DEF Inv, TypeOK
<1>8. PhaseFollows'
    BY <1>1, <1>5 DEF Inv, PhaseFollows
<1>9. FilesFollow'
    <2>1. \A q \in Process : listOp'[q] # None => vma[q][listOp'[q].addr] = listOp'[q].entry
        <3> SUFFICES ASSUME NEW q \in Process, listOp'[q] # None
                     PROVE  vma[q][listOp'[q].addr] = listOp'[q].entry
            OBVIOUS
        <3>1. CASE q = p
            BY <1>4, <1>5, <3>1
        <3>2. CASE q # p
            BY <1>5, <3>2, OpFacts DEF Free
        <3> QED
            BY <3>1, <3>2
    <2> QED
        BY <1>1, <1>5, <1>6, <2>1 DEF Inv, FilesFollow, Free
<1>10. MappingsFollow'
    BY <1>1 DEF Inv, MappingsFollow
<1>11. InUse' = InUse
    BY <1>1 DEF InUse
<1>12. EntriesOf("add")' = EntriesOf("add") /\ EntriesOf("del")' = EntriesOf("del") \cup {s}
    <2>1. \A k, t : t \in EntriesOf(k)' <=>
              \E q \in Process : listOp'[q] # None /\ listOp'[q].kind = k /\ listOp'[q].entry = t
        BY DEF EntriesOf, Free
    <2>2. \A k, t : t \in EntriesOf(k) <=>
              \E q \in Process : listOp[q] # None /\ listOp[q].kind = k /\ listOp[q].entry = t
        BY DEF EntriesOf, Free
    <2>3. listOp[p] = None
        BY <1>1 DEF Free
    <2> HIDE DEF s
    <2>4. \A t : t \in EntriesOf("add")' <=> t \in EntriesOf("add")
        BY <1>4, <1>5, <2>1, <2>2, <2>3
    <2>5. \A t : t \in EntriesOf("del")' <=> t \in EntriesOf("del") \cup {s}
        BY <1>4, <1>5, <2>1, <2>2, <2>3
    <2> QED
        BY <2>4, <2>5
<1>13. s \in Listed /\ s \in Owning
    BY <1>2 DEF Listed, Owning, EntriesOf
<1>14. Listed' = Listed /\ Owning' = Owning \ {s}
    BY <1>11, <1>12 DEF Listed, Owning
<1>15. BlocksFollow'
    <2>1. blocks = {alloc[t].phys_addr : t \in Owning}
          /\ \A t, u \in Owning : alloc[t].phys_addr = alloc[u].phys_addr => t = u
        BY DEF Inv, BlocksFollow
    <2> HIDE DEF s
    <2>2. blocks' = {alloc[t].phys_addr : t \in Owning'}
        BY <1>1, <1>13, <1>14, <2>1
    <2>3. \A t, u \in Owning' : alloc[t].phys_addr = alloc[u].phys_addr => t = u
        BY <1>14, <2>1
    <2> QED
        BY <1>1, <2>2, <2>3 DEF BlocksFollow
<1>16. ListFollows'
    <2> SUFFICES ASSUME "race" \notin failed'
                 PROVE  \E n \in 0..Cardinality(Struct) : \E o \in [0..(n + 1) -> Node] :
                            Linked(n, o)'
        BY DEF ListFollows
    <2>1. ListQuiet /\ "race" \notin failed
        BY <1>5
    <2>2. PICK n \in 0..Cardinality(Struct) : \E o \in [0..(n + 1) -> Node] : Linked(n, o)
        BY <1>6, <2>1 DEF Inv, ListFollows
    <2>3. PICK o \in [0..(n + 1) -> Node] : Chain(n, o) /\ Back(o, 0..n)
        BY <2>1, <2>2 DEF Linked, ListQuiet, Free
    <2>4. Chain(n, o)'
        BY <1>1, <1>14, <2>3 DEF Chain
    <2>5. n \in Nat
        BY DeviceAssumption, FS_CardinalityType
    <2>6. PICK k \in 1..n : o[k] = s
        BY <1>13, <2>3, <2>5, ChainFacts
    <2>7. k - 1 \in 0..n /\ (k - 1) + 1 = k /\ k \in 0..n
        BY <2>5
    <2>8. links.prev[s] = o[k - 1] /\ links.next[s] = o[k + 1] /\ links.prev[o[k + 1]] = s
        BY <2>3, <2>6, <2>7 DEF Chain, Back
    <2>9. Back(o, 0..n \ {k})'
        BY <1>1, <2>3 DEF Back
    <2>10. listOp'[p] = op /\ listOp'[p] # None /\ \A q \in Process \ {p} : listOp'[q] = None
        BY <1>5, <2>1 DEF ListQuiet, Free
    <2>11. Deleting(n, o, listOp[p])'
        BY <1>1, <1>4, <2>6, <2>8, <2>9, <2>10 DEF Deleting
    <2>12. Linked(n, o)'
        BY <2>4, <2>10, <2>11 DEF Linked, Free
    <2> QED
        BY <2>12
<1>17. OnlyKnownMisuse'
    BY <1>1, <1>6 DEF OnlyKnownMisuse, Inv, PhaseFollows
<1>18. WalksFollow'
    <2>1. \A q \in Process : walk[q] # None => listOp'[q] = None
        BY <1>1, <1>5 DEF WalksFollow, Idle, Free
    <2> QED
        BY <1>1, <1>5, <1>14, <2>1, WalksGoOn
<1> QED
    BY <1>7, <1>8, <1>9, <1>10, <1>15, <1>16, <1>17, <1>18 DEF Inv

\* In a half of its own, an operation leaves the entries as they are.
LEMMA HalfKeeps ==
    ASSUME Inv, NEW p \in Process, ~Free(p), listOp' = [listOp EXCEPT ![p].half = TRUE]
    PROVE  /\ listOp' \in [Process -> ListOp \cup {None}]
           /\ \A q \in Process \ {p} : listOp'[q] = listOp[q]
           /\ listOp'[p] \in ListOp /\ listOp'[p] # None /\ listOp'[p].half = TRUE
           /\ listOp'[p].kind = listOp[p].kind /\ listOp'[p].entry = listOp[p].entry
           /\ listOp'[p].addr = listOp[p].addr
           /\ listOp'[p].prev = listOp[p].prev /\ listOp'[p].next = listOp[p].next
           /\ \A k : EntriesOf(k)' = EntriesOf(k)
<1> DEFINE op == listOp[p]
           done == [op EXCEPT !.half = TRUE]
<1>1. op \in ListOp
    BY OpFacts
<1>2. listOp' = [listOp EXCEPT ![p] = done]
    OBVIOUS
<1>3. /\ done \in ListOp /\ done.half = TRUE /\ done.kind = op.kind /\ done.entry = op.entry
      /\ done.addr = op.addr /\ done.prev = op.prev /\ done.next = op.next
    BY <1>1 DEF ListOp
<1>4. done # None
    BY <1>3, DeviceAssumption
<1> HIDE DEF done
<1>5. /\ listOp' \in [Process -> ListOp \cup {None}]
      /\ \A q \in Process : listOp'[q] = IF q = p THEN done ELSE listOp[q]
    <2>1. listOp \in [Process -> ListOp \cup {None}]
        BY DEF Inv, TypeOK
    <2> HIDE DEF op
    <2> QED
        BY <1>2, <1>3, <2>1
<1>6. \A q \in Process : (listOp'[q] # None <=> listOp[q] # None)
          /\ listOp'[q].kind = listOp[q].kind /\ listOp'[q].entry = listOp[q].entry
    BY <1>3, <1>4, <1>5 DEF Free
<1>7. \A k, t : t \in EntriesOf(k)' <=> t \in EntriesOf(k)
    <2>1. \A k, t : t \in EntriesOf(k)' <=>
              \E q \in Process : listOp'[q] # None /\ listOp'[q].kind = k /\ listOp'[q].entry = t
        BY DEF EntriesOf, Free
    <2>2. \A k, t : t \in EntriesOf(k) <=>
              \E q \in Process : listOp[q] # None /\ listOp[q].kind = k /\ listOp[q].entry = t
        BY DEF EntriesOf, Free
    <2> QED
        BY <1>6, <2>1, <2>2
<1>8. \A k : EntriesOf(k)' = EntriesOf(k)
    <2> TAKE k
    <2>1. \A t : t \in EntriesOf(k)' <=> t \in EntriesOf(k)
        BY <1>7
    <2> HIDE DEF EntriesOf
    <2> QED
        BY <2>1
<1>9. \A q \in Process \ {p} : listOp'[q] = listOp[q]
    BY <1>5
<1>10. listOp'[p] = done
    BY <1>5
<1> QED
    BY <1>3, <1>4, <1>5, <1>8, <1>9, <1>10

\* The first half of a list operation.
LEMMA ListBackwardInv ==
    ASSUME Inv, WalksFollow, ~misused, NEW p \in Process, ListBackward(p)
    PROVE  Inv' /\ WalksFollow'
<1> DEFINE op == listOp[p]
<1>1. /\ ~Free(p) /\ ~op.half
      /\ listOp' = [listOp EXCEPT ![p].half = TRUE]
      /\ links' = Backward(op)
      /\ misused' = ~Writable(op.next)
      /\ UNCHANGED <<phase, dev, registered, file, opens, walk, vma, alloc, blocks, failed>>
    BY DEF ListBackward
<1>2. /\ op \in ListOp /\ op.entry \in Struct /\ op.addr \in Addr
      /\ op.prev \in Node /\ op.next \in Node /\ op.kind \in {"add", "del"}
      /\ op.entry \in InUse /\ op.entry # None /\ vma[p][op.addr] = op.entry
    BY <1>1, OpFacts
<1>3. /\ listOp' \in [Process -> ListOp \cup {None}]
      /\ \A q \in Process \ {p} : listOp'[q] = listOp[q]
      /\ listOp'[p] # None /\ listOp'[p].half = TRUE
      /\ listOp'[p].kind = op.kind /\ listOp'[p].entry = op.entry
      /\ listOp'[p].addr = op.addr
      /\ listOp'[p].prev = op.prev /\ listOp'[p].next = op.next
      /\ \A k : EntriesOf(k)' = EntriesOf(k)
    BY <1>1, HalfKeeps
<1>4. phase = "ready" /\ op.entry \in Node
    BY <1>2 DEF Inv, FilesFollow, Node
<1>5. /\ links' \in [next : [Node -> Node], prev : [Node -> Node]]
      /\ op.kind = "add" =>
            /\ links'.next = [links.next EXCEPT ![op.entry] = op.next]
            /\ links'.prev = [links.prev EXCEPT ![op.next] = op.entry, ![op.entry] = op.prev]
      /\ op.kind = "del" =>
            /\ links'.next = links.next
            /\ links'.prev = [links.prev EXCEPT ![op.next] = op.prev]
    <2> DEFINE nx == IF op.kind = "add" THEN [links.next EXCEPT ![op.entry] = op.next]
                                        ELSE links.next
               pv == IF op.kind = "add"
                     THEN [links.prev EXCEPT ![op.next] = op.entry, ![op.entry] = op.prev]
                     ELSE [links.prev EXCEPT ![op.next] = op.prev]
    <2>1. nx \in [Node -> Node] /\ pv \in [Node -> Node]
        BY <1>2, <1>4 DEF Inv, TypeOK
    <2>2. links' = [next |-> nx, prev |-> pv]
        BY <1>1 DEF Backward
    <2>3. links'.next = nx /\ links'.prev = pv
        BY <2>2
    <2>4. links' \in [next : [Node -> Node], prev : [Node -> Node]]
        <3> HIDE DEF nx, pv
        <3> QED
            BY <2>1, <2>2
    <2> QED
        BY <2>3, <2>4
<1>6. /\ links.next \in [Node -> Node] /\ links.prev \in [Node -> Node]
    BY DEF Inv, TypeOK
<1>7. InUse' = InUse /\ Owning' = Owning /\ Listed' = Listed
    <2>1. InUse' = InUse
        BY <1>1 DEF InUse
    <2> QED
        BY <1>3, <2>1 DEF Owning, Listed
<1>8. TypeOK'
    BY <1>1, <1>3, <1>5 DEF Inv, TypeOK
<1>9. PhaseFollows'
    BY <1>1 DEF Inv, PhaseFollows
<1>10. FilesFollow'
    BY <1>1, <1>2, <1>3, <1>4 DEF Inv, FilesFollow, Free
<1>11. MappingsFollow' /\ BlocksFollow'
    BY <1>1, <1>7 DEF Inv, MappingsFollow, BlocksFollow
<1>12. ASSUME "race" \notin failed
       PROVE  /\ \E n \in 0..Cardinality(Struct) : \E o \in [0..(n + 1) -> Node] : Linked(n, o)'
              /\ op.next = Anchor \/ op.next \in InUse
    <2>1. \A q \in Process \ {p} : Free(q)
        BY <1>1, <1>4, <1>12, OnlyOp
    <2>2. PICK n \in 0..Cardinality(Struct) : \E o \in [0..(n + 1) -> Node] :
                 Chain(n, o) /\ (Adding(n, o, op) \/ Deleting(n, o, op))
        BY <1>1, <1>4, <1>12, OnlyOp
    <2>3. PICK o \in [0..(n + 1) -> Node] :
                 Chain(n, o) /\ (Adding(n, o, op) \/ Deleting(n, o, op))
        BY <2>2
    <2>4. n \in Nat
        BY DeviceAssumption, FS_CardinalityType
    <2>5. /\ \A i \in 0..(n + 1) : o[i] = Anchor \/ o[i] \in Listed
          /\ \A i \in 0..(n + 1) : o[i] \in Node
          /\ \A i, j \in 1..(n + 1) : o[i] = o[j] => i = j
        BY <2>3, <2>4, ChainFacts
    <2>6. Listed \subseteq InUse
        BY InUseFacts
    <2>7. /\ \A i \in 0..n : i + 1 \in 1..(n + 1) /\ i \in 0..(n + 1) /\ i + 1 \in 0..(n + 1)
          /\ 1 \in 1..(n + 1) /\ 1 \in 0..(n + 1)
          /\ \A i \in 1..n : i \in 0..n /\ i + 1 # 1
          /\ \A i, j \in 0..n : i + 1 = j + 1 => i = j
        BY <2>4
    <2>8. /\ \A q \in Process \ {p} : listOp'[q] = None
        BY <1>3, <2>1 DEF Free
    <2>9. CASE Adding(n, o, op)
        <3>1. /\ op.kind = "add" /\ op.prev = Anchor /\ op.next = o[1]
              /\ \A i \in 1..n : links.prev[o[i + 1]] = o[i]
            BY <2>9 DEF Adding, Back
        <3>2. op.entry \notin Listed /\ op.entry # Anchor
            BY <1>1, <1>2, <3>1, DeviceAssumption DEF Listed, EntriesOf
        <3>3. \A i \in 0..(n + 1) : o[i] # op.entry
            BY <2>5, <3>2
        <3>4. \A i \in 0..(n + 1) : links'.next[o[i]] = links.next[o[i]]
            BY <1>5, <1>6, <2>5, <3>1, <3>3
        <3>5. \A i \in 1..n : links'.prev[o[i + 1]] = o[i]
            <4> TAKE i \in 1..n
            <4>1. o[i + 1] # op.next /\ o[i + 1] # op.entry /\ o[i + 1] \in Node
                BY <2>5, <2>7, <3>1, <3>3
            <4> QED
                BY <1>5, <1>6, <3>1, <4>1
        <3>6. /\ links'.next[op.entry] = op.next
              /\ links'.prev[op.entry] = Anchor
              /\ links'.prev[op.next] = op.entry
            <4>1. op.next # op.entry
                BY <2>7, <3>1, <3>3
            <4> QED
                BY <1>2, <1>4, <1>5, <1>6, <3>1, <4>1
        <3>7. Chain(n, o)'
            BY <1>7, <2>3, <2>7, <3>4 DEF Chain
        <3>8. Adding(n, o, listOp[p])'
            BY <1>3, <3>1, <3>5, <3>6 DEF Adding, Back
        <3>9. Linked(n, o)'
            BY <1>3, <2>8, <3>7, <3>8 DEF Linked, Free
        <3>10. op.next = Anchor \/ op.next \in InUse
            BY <2>5, <2>6, <2>7, <3>1
        <3> QED
            BY <3>9, <3>10
    <2>10. CASE Deleting(n, o, op)
        <3>1. PICK k \in 1..n : /\ op.kind = "del" /\ op.entry = o[k] /\ op.prev = o[k - 1]
                                /\ op.next = o[k + 1]
                                /\ \A i \in 0..n \ {k} : links.prev[o[i + 1]] = o[i]
            BY <2>10 DEF Deleting, Back
        <3>2. \A i \in 0..n \ {k} : links'.prev[o[i + 1]] = o[i]
            <4> TAKE i \in 0..n \ {k}
            <4>1. o[i + 1] # op.next /\ o[i + 1] \in Node
                BY <2>5, <2>7, <3>1
            <4> QED
                BY <1>5, <1>6, <3>1, <4>1
        <3>3. links'.prev[op.next] = op.prev
            BY <1>2, <1>5, <1>6, <3>1
        <3>4. Chain(n, o)'
            BY <1>5, <1>7, <2>3, <3>1 DEF Chain
        <3>5. Deleting(n, o, listOp[p])'
            BY <1>3, <3>1, <3>2, <3>3 DEF Deleting, Back
        <3>6. Linked(n, o)'
            BY <1>3, <2>8, <3>4, <3>5 DEF Linked, Free
        <3>7. op.next = Anchor \/ op.next \in InUse
            BY <2>5, <2>6, <2>7, <3>1
        <3> QED
            BY <3>6, <3>7
    <2> QED
        BY <2>3, <2>9, <2>10
<1>13. ListFollows'
    BY <1>1, <1>12 DEF ListFollows
<1>14. OnlyKnownMisuse'
    BY <1>1, <1>4, <1>12, InUseFacts DEF OnlyKnownMisuse, Writable, Inv, PhaseFollows
<1>15. WalksFollow'
    <2>1. \A q \in Process : walk[q] # None => listOp'[q] = None
        BY <1>1, <1>3 DEF WalksFollow, Free
    <2>2. Listed' = Listed
        BY <1>1, <1>3 DEF Listed, InUse
    <2>3. op.kind = "add" => op.entry \notin Listed
        BY <1>1 DEF Listed, EntriesOf
    <2>4. \A s \in Listed : s \in Node
        BY InUseFacts DEF Node
    <2>5. \A s \in Listed : links'.next[s] = links.next[s]
        BY <1>2, <1>5, <2>3, <2>4 DEF Inv, TypeOK
    <2> QED
        BY <1>1, <2>1, <2>2, <2>5, WalksGoOn
<1> QED
    BY <1>8, <1>9, <1>10, <1>11, <1>13, <1>14, <1>15 DEF Inv

\* There is room in the order for a structure that is not listed yet.
LEMMA OrderFits ==
    ASSUME Inv, NEW n \in Nat, NEW o, Chain(n, o), NEW s \in Struct, s \notin Listed
    PROVE  n + 1 \in 0..Cardinality(Struct)
<1> DEFINE f == [i \in 1..(n + 1) |-> IF i = n + 1 THEN s ELSE o[i]]
<1>1. \A i \in 1..(n + 1) : i = n + 1 \/ i \in 1..n
    OBVIOUS
<1>2. \A i \in 1..n : o[i] \in Struct /\ o[i] # s
    <2>1. \A i \in 1..n : o[i] \in Listed
        BY DEF Chain
    <2> QED
        BY <2>1, InUseFacts
<1>3. \A i, j \in 1..n : o[i] = o[j] => i = j
    BY DEF Chain
<1>4. f \in [1..(n + 1) -> Struct]
    BY <1>1, <1>2
<1>5. \A i, j \in 1..(n + 1) : f[i] = f[j] => i = j
    BY <1>1, <1>2, <1>3
<1> HIDE DEF f
<1>6. f \in Injection(1..(n + 1), Struct)
    BY <1>4, <1>5 DEF Injection, IsInjective
<1>7. Cardinality(1..(n + 1)) <= Cardinality(Struct)
    BY <1>6, DeviceAssumption, FS_Injection
<1>8. Cardinality(1..(n + 1)) = n + 1
    <2>1. 1 \in Int /\ n + 1 \in Int /\ ~(1 > n + 1) /\ (n + 1) - 1 + 1 = n + 1
        OBVIOUS
    <2> QED
        BY <2>1, FS_Interval
<1>9. Cardinality(Struct) \in Nat
    BY DeviceAssumption, FS_CardinalityType
<1> QED
    BY <1>7, <1>8, <1>9

\* An operation that is over leaves the other ones as they are.
LEMMA OpEnds ==
    ASSUME Inv, NEW p \in Process, ~Free(p), listOp' = [listOp EXCEPT ![p] = None]
    PROVE  /\ listOp' \in [Process -> ListOp \cup {None}]
           /\ \A q \in Process \ {p} : listOp'[q] = listOp[q]
           /\ listOp'[p] = None
           /\ \A k : EntriesOf(k)' = EntriesOf(k) \ {listOp[p].entry}
           /\ \A k : k # listOp[p].kind => EntriesOf(k)' = EntriesOf(k)
<1>1. listOp \in [Process -> ListOp \cup {None}]
    BY DEF Inv, TypeOK
<1>2. /\ listOp' \in [Process -> ListOp \cup {None}]
      /\ \A q \in Process : listOp'[q] = IF q = p THEN None ELSE listOp[q]
    BY <1>1
<1>3. \A q \in Process : listOp[q] # None /\ listOp[q].entry = listOp[p].entry => q = p
    BY OpFacts DEF Free
<1>4. \A k, t : t \in EntriesOf(k)' <=>
          \E q \in Process : listOp'[q] # None /\ listOp'[q].kind = k /\ listOp'[q].entry = t
    BY DEF EntriesOf, Free
<1>5. \A k, t : t \in EntriesOf(k) <=>
          \E q \in Process : listOp[q] # None /\ listOp[q].kind = k /\ listOp[q].entry = t
    BY DEF EntriesOf, Free
<1>6. \A k : EntriesOf(k)' = EntriesOf(k) \ {listOp[p].entry}
    <2> TAKE k
    <2>1. \A t : t \in EntriesOf(k)' <=> t \in EntriesOf(k) \ {listOp[p].entry}
        BY <1>2, <1>3, <1>4, <1>5
    <2> HIDE DEF EntriesOf
    <2> QED
        BY <2>1
<1>7. \A k : k # listOp[p].kind => EntriesOf(k)' = EntriesOf(k)
    <2> SUFFICES ASSUME NEW k, k # listOp[p].kind
                 PROVE  EntriesOf(k)' = EntriesOf(k)
        OBVIOUS
    <2>1. \A t : t \in EntriesOf(k)' <=> t \in EntriesOf(k)
        BY <1>2, <1>4, <1>5
    <2> HIDE DEF EntriesOf
    <2> QED
        BY <2>1
<1> QED
    BY <1>2, <1>6, <1>7

\* The second half of list_add.
LEMMA AddEndsInv ==
    ASSUME Inv, WalksFollow, ~misused, NEW p \in Process, AddEnds(p)
    PROVE  Inv' /\ WalksFollow'
<1> DEFINE op == listOp[p]
           s == op.entry
<1>1. /\ ~Free(p) /\ op.kind = "add" /\ op.half
      /\ links' = [links EXCEPT !.next[op.prev] = s]
      /\ listOp' = [listOp EXCEPT ![p] = None]
      /\ misused' = ~Writable(op.prev)
      /\ UNCHANGED <<phase, dev, registered, file, opens, walk, vma, alloc, blocks, failed>>
    BY DEF AddEnds, Forward
<1>2. /\ op \in ListOp /\ s \in Struct /\ op.addr \in Addr
      /\ op.prev \in Node /\ op.next \in Node
      /\ s \in InUse /\ s # None /\ vma[p][op.addr] = s
    BY <1>1, OpFacts
<1>3. /\ listOp' \in [Process -> ListOp \cup {None}]
      /\ \A q \in Process \ {p} : listOp'[q] = listOp[q]
      /\ listOp'[p] = None
      /\ EntriesOf("add")' = EntriesOf("add") \ {s}
      /\ EntriesOf("del")' = EntriesOf("del")
    BY <1>1, OpEnds
<1>4. phase = "ready" /\ s \in Node
    BY <1>2 DEF Inv, FilesFollow, Node
<1>5. /\ links.next \in [Node -> Node] /\ links.prev \in [Node -> Node]
      /\ links = [next |-> links.next, prev |-> links.prev]
    BY DEF Inv, TypeOK
<1> HIDE DEF s, op
<1>6. /\ links' \in [next : [Node -> Node], prev : [Node -> Node]]
      /\ links'.next = [links.next EXCEPT ![op.prev] = s]
      /\ links'.prev = links.prev
    <2> DEFINE nx == [links.next EXCEPT ![op.prev] = s]
    <2>1. nx \in [Node -> Node]
        BY <1>2, <1>4, <1>5
    <2>2. links' = [next |-> nx, prev |-> links.prev]
        BY <1>1, <1>5
    <2> HIDE DEF nx
    <2>3. links'.next = nx /\ links'.prev = links.prev
          /\ links' \in [next : [Node -> Node], prev : [Node -> Node]]
        BY <1>5, <2>1, <2>2
    <2> QED
        BY <2>3 DEF nx
<1>7. InUse' = InUse /\ Owning' = Owning
    <2>1. InUse' = InUse
        BY <1>1 DEF InUse
    <2> QED
        BY <1>3, <2>1 DEF Owning
<1>8. TypeOK'
    BY <1>1, <1>3, <1>6 DEF Inv, TypeOK
<1>9. PhaseFollows'
    BY <1>1 DEF Inv, PhaseFollows
<1>10. FilesFollow'
    BY <1>1, <1>3, <1>4 DEF Inv, FilesFollow, Free
<1>11. MappingsFollow' /\ BlocksFollow'
    BY <1>1, <1>7 DEF Inv, MappingsFollow, BlocksFollow
<1>12. ASSUME "race" \notin failed
       PROVE  /\ \E n \in 0..Cardinality(Struct) : \E o \in [0..(n + 1) -> Node] : Linked(n, o)'
              /\ op.prev = Anchor
    <2>1. \A q \in Process \ {p} : Free(q)
        BY <1>1, <1>4, <1>12, OnlyOp
    <2>2. PICK n \in 0..Cardinality(Struct) : \E o \in [0..(n + 1) -> Node] :
                 Chain(n, o) /\ (Adding(n, o, op) \/ Deleting(n, o, op))
        BY <1>1, <1>4, <1>12, OnlyOp DEF op
    <2>3. PICK o \in [0..(n + 1) -> Node] :
                 Chain(n, o) /\ (Adding(n, o, op) \/ Deleting(n, o, op))
        BY <2>2
    <2>4. n \in Nat
        BY DeviceAssumption, FS_CardinalityType
    <2>5. /\ \A i \in 0..(n + 1) : o[i] = Anchor \/ o[i] \in Listed
          /\ \A i \in 0..(n + 1) : o[i] \in Node
          /\ \A i, j \in 1..n : o[i] = o[j] => i = j
          /\ \A i \in 1..n : o[i] # Anchor /\ o[i] \in Listed
          /\ \A t \in Listed : \E k \in 1..n : o[k] = t
          /\ o[0] = Anchor /\ o[n + 1] = Anchor
          /\ \A i \in 0..n : links.next[o[i]] = o[i + 1]
        BY <2>3, <2>4, ChainFacts DEF Chain
    <2>6. /\ op.prev = Anchor /\ op.next = o[1]
          /\ \A i \in 1..n : links.prev[o[i + 1]] = o[i]
          /\ links.next[s] = o[1] /\ links.prev[s] = Anchor /\ links.prev[o[1]] = s
        BY <1>1, <2>3 DEF Adding, Deleting, Back, s
    <2>7. EntriesOf("add")' = {} /\ s \in EntriesOf("add") /\ EntriesOf("add") = {s}
        BY <1>1, <2>1, <1>3 DEF EntriesOf, Free, s, op
    <2>8. s \notin Listed /\ s # Anchor /\ Listed' = Listed \cup {s}
        BY <1>2, <1>7, <2>7, DeviceAssumption DEF Listed
    <2>9. n + 1 \in 0..Cardinality(Struct)
        BY <1>2, <2>3, <2>4, <2>8, OrderFits
    <2> PICK m \in Nat : m = n + 1
        BY <2>4
    <2> PICK u : u = [i \in 0..(m + 1) |->
                         IF i = 0 THEN Anchor ELSE IF i = 1 THEN s ELSE o[i - 1]]
        OBVIOUS
    <2>10. \A i \in 0..(m + 1) : i = 0 \/ i = 1 \/ (i - 1 \in 1..(n + 1) /\ i # 0 /\ i # 1)
        BY <2>4
    <2>11. /\ u \in [0..(m + 1) -> Node]
           /\ u[0] = Anchor /\ u[1] = s /\ u[m + 1] = Anchor
           /\ \A i \in 2..(m + 1) : u[i] = o[i - 1]
        <3>1. m + 1 \in 0..(m + 1) /\ m + 1 # 0 /\ m + 1 # 1 /\ (m + 1) - 1 = n + 1
              /\ 0 \in 0..(m + 1) /\ 1 \in 0..(m + 1)
              /\ \A i \in 1..(n + 1) : i \in 0..(n + 1)
            BY <2>4
        <3>2. Anchor \in Node /\ s \in Node
            BY <1>4 DEF Node
        <3>3. u[0] = Anchor /\ u[1] = s /\ u[m + 1] = Anchor
            BY <2>5, <3>1
        <3>4. u \in [0..(m + 1) -> Node]
            BY <2>5, <2>10, <3>1, <3>2
        <3>5. \A i \in 2..(m + 1) : u[i] = o[i - 1]
            BY <2>4
        <3> QED
            BY <3>3, <3>4, <3>5
    <2>12. \A i \in 1..m : i = 1 \/ (i \in 2..m /\ i \in 2..(m + 1) /\ i - 1 \in 1..n
                                     /\ (i - 1) + 1 = i)
        BY <2>4
    <2>13. \A i \in 1..n : o[i] # s
        BY <2>5, <2>8
    <2>14. \A i \in 1..m : u[i] # Anchor
        BY <2>5, <2>8, <2>11, <2>12
    <2>15. \A i, j \in 1..m : u[i] = u[j] => i = j
        <3> SUFFICES ASSUME NEW i \in 1..m, NEW j \in 1..m, u[i] = u[j]
                     PROVE  i = j
            OBVIOUS
        <3>1. CASE i = 1 \/ j = 1
            BY <2>11, <2>12, <2>13, <3>1
        <3>2. CASE i # 1 /\ j # 1
            <4>1. i - 1 = j - 1
                BY <2>5, <2>11, <2>12, <3>2
            <4> QED
                BY <2>4, <4>1
        <3> QED
            BY <3>1, <3>2
    <2>16. {u[i] : i \in 1..m} = Listed'
        <3>1. \A i \in 1..m : u[i] \in Listed \cup {s}
            BY <2>5, <2>11, <2>12
        <3>2. \A k \in 1..n : k + 1 \in 1..m /\ k + 1 \in 2..(m + 1) /\ (k + 1) - 1 = k
            BY <2>4
        <3>3. 1 \in 1..m
            BY <2>4
        <3>4. \A t \in Listed \cup {s} : \E i \in 1..m : u[i] = t
            BY <2>5, <2>11, <3>2, <3>3, SMTT(30)
        <3> QED
            BY <2>8, <3>1, <3>4, SMTT(30)
    <2>17. \A i \in 0..m : links'.next[u[i]] = u[i + 1] /\ links'.prev[u[i + 1]] = u[i]
        <3> SUFFICES ASSUME NEW i \in 0..m
                     PROVE  links'.next[u[i]] = u[i + 1] /\ links'.prev[u[i + 1]] = u[i]
            OBVIOUS
        <3>1. links'.next[Anchor] = s /\ \A t \in Node \ {Anchor} : links'.next[t] = links.next[t]
            BY <1>2, <1>5, <1>6, <2>6
        <3>2. CASE i = 0
            <4>1. i + 1 = 1
                BY <3>2
            <4> QED
                BY <1>6, <2>6, <2>11, <3>1, <3>2, <4>1
        <3>3. CASE i = 1
            <4>1. i + 1 = 2 /\ 2 \in 2..(m + 1) /\ 2 - 1 = 1
                BY <2>4, <3>3
            <4>2. u[i] = s /\ u[i + 1] = o[1]
                BY <2>11, <3>3, <4>1
            <4> QED
                BY <1>4, <1>6, <2>6, <2>8, <3>1, <4>2
        <3>4. CASE i # 0 /\ i # 1
            <4>1. i \in 2..(m + 1) /\ i + 1 \in 2..(m + 1) /\ i - 1 \in 1..n
                  /\ (i + 1) - 1 = i /\ (i - 1) + 1 = i /\ i - 1 \in 0..n /\ i - 1 \in 0..(n + 1)
                BY <2>4, <3>4
            <4>2. u[i] = o[i - 1] /\ u[i + 1] = o[i]
                BY <2>11, <4>1
            <4>3. links.next[o[i - 1]] = o[i] /\ links.prev[o[i]] = o[i - 1]
                BY <2>5, <2>6, <4>1
            <4>4. o[i - 1] # Anchor /\ o[i - 1] \in Node
                BY <2>5, <4>1
            <4> QED
                BY <1>6, <3>1, <4>2, <4>3, <4>4
        <3> QED
            BY <3>2, <3>3, <3>4
    <2>18. ListQuiet'
        BY <1>3, <2>1 DEF ListQuiet, Free
    <2>19. Linked(m, u)'
        BY <2>11, <2>14, <2>15, <2>16, <2>17, <2>18 DEF Linked, Chain, Back
    <2> QED
        BY <2>6, <2>9, <2>11, <2>19
<1>13. ListFollows'
    BY <1>1, <1>12 DEF ListFollows
<1>14. OnlyKnownMisuse'
    BY <1>1, <1>4, <1>12 DEF OnlyKnownMisuse, Writable, Inv, PhaseFollows
<1>15. WalksFollow'
    <2>1. \A q \in Process : walk[q] # None => listOp'[q] = None
        BY <1>1, <1>3 DEF WalksFollow, Free, op
    <2>2. Listed \subseteq Listed'
        BY <1>3, <1>7 DEF Listed
    <2>3. \A t \in Listed : t \in Node /\ t # Anchor
        BY InUseFacts DEF Node
    <2>4. ASSUME "race" \notin failed, NEW t \in Listed
          PROVE  links'.next[t] = links.next[t]
        BY <1>5, <1>6, <1>12, <2>3, <2>4
    <2> QED
        BY <1>1, <2>1, <2>2, <2>4, WalksGoOn
<1> QED
    BY <1>8, <1>9, <1>10, <1>11, <1>13, <1>14, <1>15 DEF Inv

\* The second half of list_del, and the rest of munmap.
LEMMA DelEndsInv ==
    ASSUME Inv, WalksFollow, ~misused, NEW p \in Process, DelEnds(p)
    PROVE  Inv' /\ WalksFollow'
<1> DEFINE op == listOp[p]
           s == op.entry
           last == /\ file[p] = "mapped"
                   /\ \A c \in Addr \ {op.addr} : vma[p][c] = None
<1>1. /\ op \in ListOp /\ s \in Struct /\ op.addr \in Addr
      /\ op.prev \in Node /\ op.next \in Node
      /\ s \in InUse /\ s # None /\ vma[p][op.addr] = s
    BY OpFacts DEF DelEnds
<1>2. /\ ~Free(p) /\ op.kind = "del" /\ op.half
      /\ links' = Forgotten(Forward(op), s)
      /\ alloc' = [alloc EXCEPT ![s] = None]
      /\ vma' = [vma EXCEPT ![p][op.addr] = None]
      /\ listOp' = [listOp EXCEPT ![p] = None]
      /\ file' = IF last THEN [file EXCEPT ![p] = "none"] ELSE file
      /\ dev' = IF last THEN "freed" ELSE dev
      /\ walk' = Stranded(s)
      /\ misused' = ~(Writable(op.prev) /\ (last => dev = "live"))
      /\ UNCHANGED <<phase, registered, opens, blocks, failed>>
    BY <1>1 DEF DelEnds, VmaClose
<1>3. /\ listOp' \in [Process -> ListOp \cup {None}]
      /\ \A q \in Process \ {p} : listOp'[q] = listOp[q]
      /\ listOp'[p] = None
      /\ EntriesOf("del")' = EntriesOf("del") \ {s}
      /\ EntriesOf("add")' = EntriesOf("add")
    BY <1>2, OpEnds
<1>4. phase = "ready" /\ s \in Node
    BY <1>1 DEF Inv, FilesFollow, Node
<1>5. /\ links.next \in [Node -> Node] /\ links.prev \in [Node -> Node]
      /\ links = [next |-> links.next, prev |-> links.prev]
    BY DEF Inv, TypeOK
<1>6. /\ vma' \in [Process -> [Addr -> Struct \cup {None}]]
      /\ \A q \in Process, c \in Addr :
            vma'[q][c] = IF q = p /\ c = op.addr THEN None ELSE vma[q][c]
    <2>1. vma \in [Process -> [Addr -> Struct \cup {None}]]
        BY DEF Inv, TypeOK
    <2> HIDE DEF op
    <2> QED
        BY <1>1, <1>2, <2>1
<1>7. /\ alloc' \in [Struct -> Contents \cup {None}]
      /\ \A t \in Struct \ {s} : alloc'[t] = alloc[t]
    <2>1. alloc \in [Struct -> Contents \cup {None}]
        BY DEF Inv, TypeOK
    <2> HIDE DEF s
    <2> QED
        BY <1>1, <1>2, <2>1
<1>8. \A q \in Process, c \in Addr : vma[q][c] = s => q = p /\ c = op.addr
    BY <1>1, MappingFacts
<1>9. s \in EntriesOf("del") /\ s \notin EntriesOf("add")
    BY <1>2, OpFacts DEF EntriesOf
<1> HIDE DEF s, op
<1>10. /\ links' \in [next : [Node -> Node], prev : [Node -> Node]]
       /\ links'.next = [[links.next EXCEPT ![op.prev] = op.next] EXCEPT ![s] = Anchor]
       /\ links'.prev = [links.prev EXCEPT ![s] = Anchor]
    <2> DEFINE mid == [links.next EXCEPT ![op.prev] = op.next]
               nx == [mid EXCEPT ![s] = Anchor]
               pv == [links.prev EXCEPT ![s] = Anchor]
    <2>1. mid \in [Node -> Node]
        BY <1>1, <1>5
    <2>2. Forward(op) = [next |-> mid, prev |-> links.prev]
        BY <1>2, <1>5 DEF Forward
    <2> HIDE DEF mid
    <2>3. nx \in [Node -> Node] /\ pv \in [Node -> Node]
        BY <1>4, <1>5, <2>1 DEF Node
    <2>4. links' = [next |-> nx, prev |-> pv]
        BY <1>2, <2>2 DEF Forgotten
    <2> HIDE DEF nx, pv
    <2>5. /\ links' \in [next : [Node -> Node], prev : [Node -> Node]]
          /\ links'.next = nx /\ links'.prev = pv
        BY <2>3, <2>4
    <2> QED
        BY <2>5 DEF nx, pv, mid
<1>11. InUse' = InUse \ {s}
    <2>1. \A t : t \in InUse' <=> \E q \in Process, c \in Addr : vma'[q][c] = t /\ t # None
        BY DEF InUse
    <2>2. \A t : t \in InUse <=> \E q \in Process, c \in Addr : vma[q][c] = t /\ t # None
        BY DEF InUse
    <2>3. \A t : t \in InUse' <=> t \in InUse \ {s}
        BY <1>1, <1>6, <1>8, <2>1, <2>2
    <2> QED
        BY <2>3
<1>12. Owning' = Owning /\ Listed' = Listed \ {s} /\ s \in Listed
    BY <1>1, <1>3, <1>9, <1>11 DEF Owning, Listed
<1>13. file' \in [Process -> {"none", "open", "mapped"}]
       /\ \A q \in Process : file'[q] = IF q = p /\ last THEN "none" ELSE file[q]
    <2>1. file \in [Process -> {"none", "open", "mapped"}]
        BY DEF Inv, TypeOK
    <2> HIDE DEF last
    <2> QED
        BY <1>2, <2>1
<1>14. TypeOK'
    <2>1. walk' \in [Process -> Walk \cup {None}]
        <3>1. \A q \in Process : Stranded(s)[q] \in Walk \cup {None}
            BY WalkFacts
        <3>2. Stranded(s) = [q \in Process |-> Stranded(s)[q]]
            BY DEF Stranded
        <3> QED
            BY <1>2, <3>1, <3>2
    <2> HIDE DEF last
    <2> QED
        BY <1>2, <1>3, <1>6, <1>7, <1>10, <1>13, <2>1 DEF Inv, TypeOK
<1>15. PhaseFollows'
    BY <1>2, <1>4 DEF Inv, PhaseFollows
<1>16. FilesFollow'
    <2>1. \A q \in Process, c \in Addr : vma'[q][c] # None => file'[q] # "none"
        BY <1>6, <1>13 DEF Inv, FilesFollow
    <2>2. \A q \in Process : listOp'[q] # None => vma'[q][listOp'[q].addr] = listOp'[q].entry
        <3> SUFFICES ASSUME NEW q \in Process, listOp'[q] # None
                     PROVE  vma'[q][listOp'[q].addr] = listOp'[q].entry
            OBVIOUS
        <3>1. q # p /\ listOp'[q] = listOp[q] /\ ~Free(q)
            BY <1>3 DEF Free
        <3>2. listOp[q].addr \in Addr /\ vma[q][listOp[q].addr] = listOp[q].entry
            BY <3>1, OpFacts
        <3> QED
            BY <1>6, <3>1, <3>2
    <2> QED
        BY <1>2, <1>4, <2>1, <2>2 DEF FilesFollow, Free
<1>17. MappingsFollow'
    <2> SUFFICES ASSUME NEW q \in Process, NEW c \in Addr, vma'[q][c] # None
                 PROVE  /\ alloc'[vma'[q][c]] # None
                        /\ alloc'[vma'[q][c]].user_addr = c
                        /\ \A r \in Process, d \in Addr :
                              vma'[r][d] = vma'[q][c] => r = q /\ d = c
        BY DEF MappingsFollow
    <2>1. vma'[q][c] = vma[q][c] /\ vma[q][c] # None /\ vma[q][c] # s
        BY <1>6, <1>8
    <2>2. vma[q][c] \in Struct /\ alloc'[vma[q][c]] = alloc[vma[q][c]]
        BY <1>7, <2>1, MappingFacts
    <2>3. \A r \in Process, d \in Addr : vma'[r][d] = vma'[q][c] => vma[r][d] = vma[q][c]
        BY <1>6, <2>1
    <2> QED
        BY <2>1, <2>2, <2>3 DEF Inv, MappingsFollow
<1>18. BlocksFollow'
    <2>1. \A t \in Owning : alloc'[t] = alloc[t]
        <3>1. s \notin Owning
            BY <1>9 DEF Owning
        <3> QED
            BY <1>7, <3>1, InUseFacts
    <2> QED
        BY <1>2, <1>12, <2>1 DEF Inv, BlocksFollow
<1>19. ASSUME "race" \notin failed
       PROVE  /\ \E n \in 0..Cardinality(Struct) : \E o \in [0..(n + 1) -> Node] : Linked(n, o)'
              /\ op.prev = Anchor \/ op.prev \in InUse
              /\ op.prev # s /\ op.next # s
              /\ links.next[op.prev] = s /\ links.next[s] = op.next
              /\ \A t \in Listed : links.next[t] = s => t = op.prev
              /\ links'.next[op.prev] = op.next
              /\ \A t \in Node \ {s, op.prev} : links'.next[t] = links.next[t]
    <2>1. \A q \in Process \ {p} : Free(q)
        BY <1>2, <1>4, <1>19, OnlyOp
    <2>2. PICK n \in 0..Cardinality(Struct) : \E o \in [0..(n + 1) -> Node] :
                 Chain(n, o) /\ (Adding(n, o, op) \/ Deleting(n, o, op))
        BY <1>2, <1>4, <1>19, OnlyOp DEF op
    <2>3. PICK o \in [0..(n + 1) -> Node] :
                 Chain(n, o) /\ (Adding(n, o, op) \/ Deleting(n, o, op))
        BY <2>2
    <2>4. n \in Nat /\ Cardinality(Struct) \in Nat
        BY DeviceAssumption, FS_CardinalityType
    <2>5. /\ \A i \in 0..(n + 1) : o[i] = Anchor \/ o[i] \in Listed
          /\ \A i \in 0..(n + 1) : o[i] \in Node
          /\ \A i, j \in 1..(n + 1) : o[i] = o[j] => i = j
          /\ \A i, j \in 0..n : o[i] = o[j] => i = j
          /\ \A i \in 1..n : o[i] # Anchor /\ o[i] \in Listed
          /\ \A t \in Listed : \E k \in 1..n : o[k] = t
          /\ o[0] = Anchor /\ o[n + 1] = Anchor
          /\ \A i \in 0..n : links.next[o[i]] = o[i + 1]
        BY <2>3, <2>4, ChainFacts DEF Chain
    <2>6. PICK k \in 1..n : /\ s = o[k] /\ op.prev = o[k - 1] /\ op.next = o[k + 1]
                            /\ \A i \in 0..n \ {k} : links.prev[o[i + 1]] = o[i]
                            /\ links.prev[op.next] = op.prev
        BY <1>2, <2>3 DEF Adding, Deleting, Back, s
    <2>7. /\ k \in Nat /\ k - 1 \in 0..n /\ k \in 0..n /\ k \in 1..(n + 1)
          /\ k - 1 # k /\ k + 1 \in 1..(n + 1) /\ k + 1 # k
          /\ k + 1 \in 0..(n + 1) /\ k - 1 \in 0..(n + 1) /\ (k - 1) + 1 = k
        BY <2>4
    <2>8. op.prev # s /\ op.next # s /\ (op.prev = Anchor \/ op.prev \in Listed)
        BY <2>5, <2>6, <2>7
    <2>9. /\ links'.next[op.prev] = op.next
          /\ \A t \in Node \ {s, op.prev} : links'.next[t] = links.next[t]
          /\ \A t \in Node \ {s} : links'.prev[t] = links.prev[t]
        BY <1>1, <1>4, <1>5, <1>10, <2>8
    <2> PICK m \in Nat : n = m + 1
        BY <2>4
    <2> PICK u : u = [i \in 0..(m + 1) |-> IF i < k THEN o[i] ELSE o[i + 1]]
        OBVIOUS
    <2>10. \A i \in 0..(m + 1) : /\ i \in 0..(n + 1) /\ i + 1 \in 0..(n + 1)
                                 /\ u[i] = IF i < k THEN o[i] ELSE o[i + 1]
        BY <2>4
    <2>11. u \in [0..(m + 1) -> Node] /\ u[0] = Anchor /\ u[m + 1] = Anchor
        <3>1. 0 \in 0..(m + 1) /\ 0 < k /\ m + 1 \in 0..(m + 1) /\ ~(m + 1 < k)
              /\ (m + 1) + 1 = n + 1
            BY <2>4
        <3>2. u \in [0..(m + 1) -> Node]
            BY <2>5, <2>10
        <3> QED
            BY <2>5, <2>10, <3>1, <3>2
    <2>12. \A i \in 1..m : \E j \in 1..n : j # k /\ u[i] = o[j] /\ j = IF i < k THEN i ELSE i + 1
        <3> TAKE i \in 1..m
        <3>1. i \in 0..(m + 1) /\ (i < k => i \in 1..n /\ i # k)
              /\ (~(i < k) => i + 1 \in 1..n /\ i + 1 # k)
            BY <2>7
        <3> QED
            BY <2>10, <3>1
    <2>13. \A i \in 1..m : u[i] # Anchor /\ u[i] \in Listed /\ u[i] # s
        <3> TAKE i \in 1..m
        <3>1. PICK j \in 1..n : j # k /\ u[i] = o[j]
            BY <2>12
        <3>2. j \in 1..(n + 1)
            BY <2>4
        <3> QED
            BY <2>5, <2>6, <2>7, <3>1, <3>2, SMTT(30)
    <2>14. \A i, j \in 1..m : u[i] = u[j] => i = j
        <3> SUFFICES ASSUME NEW i \in 1..m, NEW j \in 1..m, u[i] = u[j]
                     PROVE  i = j
            OBVIOUS
        <3>1. PICK x \in 1..n : u[i] = o[x] /\ x = IF i < k THEN i ELSE i + 1
            BY <2>12
        <3>2. PICK y \in 1..n : u[j] = o[y] /\ y = IF j < k THEN j ELSE j + 1
            BY <2>12
        <3>3. x \in 0..n /\ y \in 0..n
            BY <2>4
        <3>4. x = y
            BY <2>5, <3>1, <3>2, <3>3
        <3> QED
            BY <2>7, <3>1, <3>2, <3>4
    <2>15. {u[i] : i \in 1..m} = Listed'
        <3>1. \A t \in Listed \ {s} : \E i \in 1..m : u[i] = t
            <4> TAKE t \in Listed \ {s}
            <4>1. PICK j \in 1..n : o[j] = t /\ j # k
                BY <2>5, <2>6
            <4>2. CASE j < k
                <5>1. j \in 1..m /\ j \in 0..(m + 1)
                    BY <2>4, <4>2
                <5> QED
                    BY <2>10, <4>1, <4>2, <5>1
            <4>3. CASE ~(j < k)
                <5>1. j - 1 \in 1..m /\ j - 1 \in 0..(m + 1) /\ ~(j - 1 < k) /\ (j - 1) + 1 = j
                    BY <2>4, <4>1, <4>3
                <5> QED
                    BY <2>10, <4>1, <5>1
            <4> QED
                BY <4>2, <4>3
        <3>2. Listed' = Listed \ {s}
            BY <1>12
        <3>3. \A i \in 1..m : u[i] \in Listed \ {s}
            BY <2>13
        <3>4. {u[i] : i \in 1..m} \subseteq Listed \ {s}
            BY <3>3
        <3>5. Listed \ {s} \subseteq {u[i] : i \in 1..m}
            BY <3>1
        <3> QED
            BY <3>2, <3>4, <3>5
    <2>16. /\ \A i \in 0..n : i # k - 1 => o[i] # op.prev
           /\ \A i \in 1..(n + 1) : i # k => o[i] # s
           /\ \A i \in 0..n : i # k => o[i] # s
        BY <2>5, <2>6, <2>7
    <2>17. \A i \in 0..m : links'.next[u[i]] = u[i + 1] /\ links'.prev[u[i + 1]] = u[i]
        <3> SUFFICES ASSUME NEW i \in 0..m
                     PROVE  links'.next[u[i]] = u[i + 1] /\ links'.prev[u[i + 1]] = u[i]
            OBVIOUS
        <3>1. /\ i \in 0..(m + 1) /\ i + 1 \in 0..(m + 1) /\ i \in 0..n /\ i + 1 \in 0..n
              /\ i \in 0..(n + 1) /\ i + 1 \in 1..(n + 1) /\ i + 1 \in 0..(n + 1)
            BY <2>4
        <3>2. CASE i + 1 < k
            <4>1. i < k /\ i # k - 1 /\ i # k /\ i + 1 # k
                BY <2>7, <3>2
            <4>2. u[i] = o[i] /\ u[i + 1] = o[i + 1]
                BY <2>10, <3>1, <3>2, <4>1
            <4>3. o[i] # s /\ o[i] # op.prev /\ o[i + 1] # s
                BY <2>16, <3>1, <4>1
            <4>4. links.next[o[i]] = o[i + 1] /\ o[i] \in Node /\ o[i + 1] \in Node
                BY <2>5, <3>1
            <4>5. links.prev[o[i + 1]] = o[i]
                BY <2>6, <3>1, <4>1
            <4> QED
                BY <2>9, <4>2, <4>3, <4>4, <4>5
        <3>3. CASE i + 1 = k
            <4>1. i < k /\ ~(i + 1 < k) /\ i = k - 1 /\ (i + 1) + 1 = k + 1
                BY <2>7, <3>3
            <4>2. u[i] = op.prev /\ u[i + 1] = op.next
                BY <2>6, <2>10, <3>1, <4>1
            <4> QED
                BY <1>1, <2>6, <2>8, <2>9, <4>2
        <3>4. CASE i + 1 > k
            <4>1. /\ ~(i < k) /\ ~(i + 1 < k) /\ i + 1 # k /\ i + 1 # k - 1 /\ (i + 1) + 1 \in 1..(n + 1)
                  /\ (i + 1) + 1 # k
                BY <2>7, <3>4
            <4>2. u[i] = o[i + 1] /\ u[i + 1] = o[(i + 1) + 1]
                BY <2>10, <3>1, <4>1
            <4>3. o[i + 1] # s /\ o[i + 1] # op.prev /\ o[(i + 1) + 1] # s
                BY <2>16, <3>1, <4>1
            <4>4. /\ links.next[o[i + 1]] = o[(i + 1) + 1]
                  /\ o[i + 1] \in Node /\ o[(i + 1) + 1] \in Node
                <5>1. i + 1 \in 0..n /\ i + 1 \in 0..(n + 1) /\ (i + 1) + 1 \in 0..(n + 1)
                    BY <2>4, <3>1, <4>1
                <5> QED
                    BY <2>5, <5>1
            <4>5. links.prev[o[(i + 1) + 1]] = o[i + 1]
                <5>1. i + 1 \in 0..n \ {k}
                    BY <3>1, <4>1
                <5> QED
                    BY <2>6, <5>1
            <4> QED
                BY <2>9, <4>2, <4>3, <4>4, <4>5
        <3> QED
            BY <2>7, <3>2, <3>3, <3>4
    <2>18. ListQuiet'
        BY <1>3, <2>1 DEF ListQuiet, Free
    <2>19. Linked(m, u)'
        BY <2>11, <2>13, <2>14, <2>15, <2>17, <2>18 DEF Linked, Chain, Back
    <2>20. m \in 0..Cardinality(Struct)
        BY <2>4
    <2>21. op.prev = Anchor \/ op.prev \in InUse
        BY <2>8, InUseFacts
    <2>22. links.next[op.prev] = s /\ links.next[s] = op.next
        BY <2>5, <2>6, <2>7
    <2>23. \A t \in Listed : links.next[t] = s => t = op.prev
        <3> SUFFICES ASSUME NEW t \in Listed, links.next[t] = s
                     PROVE  t = op.prev
            OBVIOUS
        <3>1. PICK j \in 1..n : o[j] = t
            BY <2>5
        <3>2. j \in 0..n /\ j + 1 \in 1..(n + 1)
            BY <2>4
        <3>3. o[j + 1] = o[k]
            BY <2>5, <2>6, <3>1, <3>2
        <3>4. j + 1 = k
            BY <2>5, <2>7, <3>2, <3>3
        <3>5. j = k - 1
            BY <2>7, <3>4
        <3> QED
            BY <2>6, <3>1, <3>5
    <2> QED
        BY <2>8, <2>9, <2>11, <2>19, <2>20, <2>21, <2>22, <2>23
<1>20. ListFollows'
    BY <1>2, <1>19 DEF ListFollows
<1>21. OnlyKnownMisuse'
    <2>1. dev \in {"live", "freed"}
        BY <1>4 DEF Inv, PhaseFollows
    <2>2. "race" \notin failed => (Writable(op.prev) <=> op.prev # Anchor \/ dev = "live")
        BY <1>4, <1>19, InUseFacts DEF Writable
    <2>3. misused' => "race" \in failed \/ dev' = "freed"
        BY <1>2, <2>1, <2>2
    <2> QED
        BY <1>2, <1>4, <2>3 DEF OnlyKnownMisuse
<1>22. WalksFollow'
    <2>1. \A q \in Process : walk'[q] # None =>
              /\ walk[q] # None /\ walk[q] \in Walk /\ q # p
              /\ walk'[q].addr = walk[q].addr /\ walk[q].addr \in Addr
              /\ walk'[q].at # None => walk'[q] = walk[q] /\ walk[q].at # s
        BY <1>1, <1>2, WalkFacts DEF WalksFollow
    <2>2. \A q \in Process : walk'[q] # None =>
              /\ listOp'[q] = None
              /\ vma'[q][walk'[q].addr] = vma[q][walk[q].addr] /\ vma[q][walk[q].addr] # s
              /\ vma[q][walk[q].addr] # None
        BY <1>3, <1>6, <1>8, <2>1 DEF WalksFollow, Free
    <2>3. ASSUME "race" \notin failed, NEW q \in Process, walk'[q] # None, walk'[q].at # None
          PROVE  Ahead(walk[q].at, vma[q][walk[q].addr])'
        <3> DEFINE own == vma[q][walk[q].addr]
        <3>1. walk[q] # None /\ walk[q].at # None
            BY <2>1, <2>3
        <3>2. Ahead(walk[q].at, own)
            BY <1>4, <2>3, <3>1 DEF WalksFollow
        <3>3. PICK way \in SUBSET Listed :
                  /\ walk[q].at \in way /\ own \in way
                  /\ \A t \in way \ {own} : links.next[t] \in way
            BY <3>2 DEF Ahead
        <3>4. own # s /\ walk[q].at # s /\ walk'[q].at = walk[q].at
              /\ vma'[q][walk'[q].addr] = own
            BY <2>1, <2>2, <2>3
        <3> HIDE DEF own
        <3>5. ASSUME NEW t \in (way \ {s}) \ {own}
              PROVE  links'.next[t] \in way \ {s}
            <4>1. t \in Listed /\ t \in Node /\ links.next[t] \in way
                BY <3>3, InUseFacts DEF Node
            <4>2. CASE t = op.prev
                <5>1. links.next[t] = s /\ links.next[s] = op.next /\ links'.next[t] = op.next
                      /\ op.next # s
                    BY <1>19, <2>3, <4>2
                <5>2. links.next[s] \in way
                    BY <3>3, <3>4, <4>1, <5>1
                <5> QED
                    BY <5>1, <5>2
            <4>3. CASE t # op.prev
                <5>1. links'.next[t] = links.next[t] /\ links.next[t] # s
                    BY <1>19, <2>3, <3>5, <4>1, <4>3
                <5> QED
                    BY <4>1, <5>1
            <4> QED
                BY <4>2, <4>3
        <3>6. way \ {s} \in SUBSET Listed'
            BY <1>12
        <3> QED
            BY <3>3, <3>4, <3>5, <3>6 DEF Ahead
    <2> QED
        BY <1>2, <2>2, <2>3 DEF WalksFollow, Free
<1> QED
    BY <1>14, <1>15, <1>16, <1>17, <1>18, <1>20, <1>21, <1>22 DEF Inv

-----------------------------------------------------------------------------
(* The theorems.                                                           *)

\* Every step of the driver and of the processes keeps the invariant.
LEMMA NextInv == Inv /\ WalksFollow /\ [Next]_vars => Inv' /\ WalksFollow'
<1> SUFFICES ASSUME Inv, WalksFollow, [Next]_vars
             PROVE  Inv' /\ WalksFollow'
    OBVIOUS
<1>1. CASE UNCHANGED vars
    <2>1. /\ UNCHANGED <<phase, dev, registered, file, opens, links, listOp, walk, vma>>
          /\ UNCHANGED <<alloc, blocks, failed, misused>>
        BY <1>1 DEF vars
    <2>2. TypeOK' /\ PhaseFollows' /\ FilesFollow'
        BY <2>1 DEF Inv, TypeOK, PhaseFollows, FilesFollow, Free
    <2>3. OnlyKnownMisuse'
        BY <2>1 DEF Inv, OnlyKnownMisuse
    <2> QED
        BY <2>1, <2>2, <2>3, MemoryStays, ListStays, WalksStay DEF Inv
<1>2. CASE Next
    <2>1. ~misused
        BY <1>2 DEF Next
    <2>2. CASE ProbeFails
        BY <2>1, <2>2, ProbeFailsInv
    <2>3. CASE ProbeExposes
        BY <2>1, <2>3, ProbeExposesInv
    <2>4. CASE ProbeEnds
        BY <2>1, <2>4, ProbeEndsInv
    <2>5. CASE RemoveDevice
        BY <2>1, <2>5, RemoveDeviceInv
    <2>6. CASE Interrupt
        BY <2>1, <2>6, InterruptInv
    <2>7. ASSUME NEW p \in Process, Open(p)
          PROVE  Inv' /\ WalksFollow'
        BY <2>1, <2>7, OpenInv
    <2>8. ASSUME NEW p \in Process, Close(p)
          PROVE  Inv' /\ WalksFollow'
        BY <2>1, <2>8, CloseInv
    <2>9. ASSUME NEW p \in Process, ListBackward(p)
          PROVE  Inv' /\ WalksFollow'
        BY <2>1, <2>9, ListBackwardInv
    <2>10. ASSUME NEW p \in Process, AddEnds(p)
           PROVE  Inv' /\ WalksFollow'
        BY <2>1, <2>10, AddEndsInv
    <2>11. ASSUME NEW p \in Process, DelEnds(p)
           PROVE  Inv' /\ WalksFollow'
        BY <2>1, <2>11, DelEndsInv
    <2>12. ASSUME NEW p \in Process, NEW a \in Addr, Mmap(p, a)
           PROVE  Inv' /\ WalksFollow'
        <3>1. /\ file[p] = "open" /\ Idle(p) /\ vma[p][a] = None
              /\ UNCHANGED <<phase, dev, registered, file, opens, links, walk>>
            BY <2>12 DEF Mmap
        <3>2. \/ NoStruct \/ NoData
              \/ \E s \in Struct, b \in Block \ blocks :
                    alloc[s] = None /\ (Mapped(p, a, s, b) \/ NotMapped(a, s, b))
            BY <2>12 DEF Mmap
        <3> QED
            BY <2>1, <3>1, <3>2, MmapFailsInv, MappedInv, NotMappedInv
    <2>13. ASSUME NEW p \in Process, NEW a \in Addr, Munmap(p, a)
           PROVE  Inv' /\ WalksFollow'
        BY <2>1, <2>13, MunmapInv
    <2>14. ASSUME NEW p \in Process, NEW a \in Addr, Ioctl(p, a)
           PROVE  Inv' /\ WalksFollow'
        BY <2>1, <2>14, IoctlInv
    <2>15. ASSUME NEW p \in Process, LookupEnds(p)
           PROVE  Inv' /\ WalksFollow'
        BY <2>1, <2>15, LookupEndsInv
    <2>16. ASSUME NEW p \in Process, LookupGoesOn(p)
           PROVE  Inv' /\ WalksFollow'
        BY <2>1, <2>16, LookupGoesOnInv
    <2>17. ASSUME NEW p \in Process, LookupStrays(p)
           PROVE  Inv' /\ WalksFollow'
        BY <2>1, <2>17, LookupStraysInv
    <2> QED
        BY <1>2, <2>2, <2>3, <2>4, <2>5, <2>6, <2>7, <2>8, <2>9, <2>10, <2>11, <2>12, <2>13,
           <2>14, <2>15, <2>16, <2>17 DEF Next
<1> QED
    BY <1>1, <1>2

\* The inductive invariant of the driver, its files, its mappings, its list
\* and the walks along it.
THEOREM Safety == Spec => [](Inv /\ WalksFollow)
BY InitInv, NextInv, PTL DEF Spec

\* Every variable keeps its type, for any number of processes and failures.
THEOREM TypeCorrect == Spec => []TypeOK
<1>1. Inv /\ WalksFollow => TypeOK
    BY DEF Inv
<1> QED
    BY <1>1, Safety, PTL

\* addr_list has every mapping once and nothing else while no two operations have met
\* inside it.
THEOREM ListExact == Spec => []ListIsExact
BY ListFromInv, Safety, PTL

\* DMA memory belongs to exactly one mapping, whatever fails and even if the list is
\* broken.
THEOREM MemoryReturned == Spec => []MemoryIsReturned
BY MemoryFromInv, Safety, PTL

\* The walk of axitangxi_uservirt_to_phys does not miss the caller's own entry, however
\* the list changes under it, and takes no other one unless another process has mapped
\* something at the same address.
THEOREM TransfersHit == Spec => []TransferHitsOwn
BY TransferFromInv, Safety, PTL

\* There is no misuse of memory but the known ones.
THEOREM MisuseKnown == Spec => []OnlyKnownMisuse
<1>1. Inv /\ WalksFollow => OnlyKnownMisuse
    BY DEF Inv
<1> QED
    BY <1>1, Safety, PTL
=============================================================================

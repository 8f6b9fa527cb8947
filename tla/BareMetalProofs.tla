--------------------------- MODULE BareMetalProofs ---------------------------
(***************************************************************************)
(* Safety of BareMetal for pictures and weights of any number of chunks    *)
(* and any number of faults.                                               *)
(***************************************************************************)
EXTENDS BareMetal, TLAPS

-----------------------------------------------------------------------------
(* The inductive invariant.                                                *)

\* The order in which the program gets to its statements
Rank(p) ==
    CASE p = "mount" -> 0
      [] p = "pictureOut" -> 1
      [] p = "pictureBack" -> 2
      [] p = "weightsOut" -> 3
      [] p = "weightsBack" -> 4
      [] p = "start" -> 5
      [] p = "poll" -> 6
      [] p = "clean" -> 7
      [] p = "transBack" -> 8
      [] p = "save" -> 9
      [] OTHER -> 10

\* How many chunks of a loop the program has handed to the device
Issued(at) == IF pc = at THEN count - 1
              ELSE IF Rank(pc) > Rank(at) THEN ChunksOf(Loop[at].from) ELSE 0

\* Chunk i of a loop has arrived
Moved(at, i) ==
    IF Loop[at].toPl THEN pl[Loop[at].to][i] = ps[Loop[at].from][i]
                     ELSE ps[Loop[at].to][i] = pl[Loop[at].from][i]

\* What the registers hold while chunk i of a loop is moved
BurstOf(at, i) ==
    {[from |-> Loop[at].from, to |-> Loop[at].to, toPl |-> Loop[at].toPl, at |-> i,
      events |-> e] : e \in {<<"MM2S", "S2MM">>, <<"S2MM">>}}

Memories ==
    /\ ps = [a \in PsArea |-> ps[a]]
    /\ pl = [a \in PlArea |-> pl[a]]
    /\ card = [f \in PlArea |-> card[f]]

CountBounded ==
    IF pc \in DOMAIN Loop THEN count <= ChunksOf(Loop[pc].from) + 1 ELSE count = 1

\* As long as no burst has been late, the burst under way is the last one of the loop
\* the program is in.
OneBurst ==
    dma = NoBurst \/
    \E at \in DOMAIN Loop : \E i \in 1..ChunksOf(Loop[at].from) :
        dma \in BurstOf(at, i) /\ (Without({"slow"}) => pc = at /\ count = i + 1)

ChunksMoved ==
    Without({"slow"}) =>
        \A at \in DOMAIN Loop : \A i \in 1..Issued(at) :
            Moved(at, i) \/ dma \in BurstOf(at, i)

FilesRead ==
    pc # "mount" /\ Without({"mount", "format", "file"}) =>
        \A f \in {"weights", "picture"} : ps[f] = Whole(f)

CardKept ==
    Without({"mount", "format"}) =>
        card.weights = Whole("weights") /\ card.picture = Whole("picture")

EngineFollows ==
    /\ engine = "idle" <=> Rank(pc) <= 5
    /\ irqReg = "NETWORK_ACC_DONE" => engine = "done"
    /\ Rank(pc) > 6 => engine = "done"

ResultRight ==
    faults = {} /\ regsFit =>
        /\ engine = "done" => pl["trans"] = Whole("trans")
        /\ pc = "end" => card.trans = Whole("trans")

Inv ==
    /\ TypeOK
    /\ Memories
    /\ CountBounded
    /\ OneBurst
    /\ ChunksMoved
    /\ FilesRead
    /\ CardKept
    /\ EngineFollows
    /\ ResultRight

-----------------------------------------------------------------------------
(* Areas and loops.                                                        *)

\* An area has at least one chunk, and all have no more than the two files together.
LEMMA ChunksType ==
    ASSUME NEW area
    PROVE  /\ ChunksOf(area) \in Nat \ {0}
           /\ ChunksOf(area) + 1 <= Chunks["picture"] + Chunks["weights"]
BY BareMetalAssumption DEF ChunksOf

\* The loops: what is moved to PL memory is an input, what is moved back is a copy or
\* the result, both areas are equally long, and the next statement follows.
LEMMA LoopFacts ==
    ASSUME NEW at \in DOMAIN Loop
    PROVE  /\ at \in {"pictureOut", "pictureBack", "weightsOut", "weightsBack", "transBack"}
           /\ Loop[at].toPl \in BOOLEAN
           /\ Loop[at].toPl => /\ Loop[at].from \in {"picture", "weights"}
                               /\ Loop[at].to = Loop[at].from
           /\ ~Loop[at].toPl => /\ Loop[at].from \in PlArea
                                /\ Loop[at].to \in {"pictureCopy", "weightsCopy", "trans"}
           /\ ChunksOf(Loop[at].from) = ChunksOf(Loop[at].to)
           /\ Loop[at].next \in {"pictureBack", "weightsOut", "weightsBack", "start", "save"}
           /\ Rank(Loop[at].next) = Rank(at) + 1
           /\ Rank(at) \in {1, 2, 3, 4, 8}
<1>1. at \in {"pictureOut", "pictureBack", "weightsOut", "weightsBack", "transBack"}
    BY DEF Loop
<1>2. CASE at = "pictureOut"
    <2>1. Loop[at] = [from |-> "picture", to |-> "picture", next |-> "pictureBack", toPl |-> TRUE]
        BY <1>2 DEF Loop
    <2> QED
        BY <1>2, <2>1 DEF Rank, ChunksOf, PlArea
<1>3. CASE at = "pictureBack"
    <2>1. Loop[at] = [from |-> "picture", to |-> "pictureCopy", next |-> "weightsOut", toPl |-> FALSE]
        BY <1>3 DEF Loop
    <2> QED
        BY <1>3, <2>1 DEF Rank, ChunksOf, PlArea
<1>4. CASE at = "weightsOut"
    <2>1. Loop[at] = [from |-> "weights", to |-> "weights", next |-> "weightsBack", toPl |-> TRUE]
        BY <1>4 DEF Loop
    <2> QED
        BY <1>4, <2>1 DEF Rank, ChunksOf, PlArea
<1>5. CASE at = "weightsBack"
    <2>1. Loop[at] = [from |-> "weights", to |-> "weightsCopy", next |-> "start", toPl |-> FALSE]
        BY <1>5 DEF Loop
    <2> QED
        BY <1>5, <2>1 DEF Rank, ChunksOf, PlArea
<1>6. CASE at = "transBack"
    <2>1. Loop[at] = [from |-> "trans", to |-> "trans", next |-> "save", toPl |-> FALSE]
        BY <1>6 DEF Loop
    <2> QED
        BY <1>6, <2>1 DEF Rank, ChunksOf, PlArea
<1> QED
    BY <1>1, <1>2, <1>3, <1>4, <1>5, <1>6

\* The program counter
Places == {"mount", "pictureOut", "pictureBack", "weightsOut", "weightsBack", "start", "poll",
           "clean", "transBack", "save", "end"}

\* The order of the statements has no ties.
LEMMA RankFacts ==
    ASSUME NEW p \in Places, NEW q \in Places
    PROVE  /\ Rank(p) \in 0..10
           /\ Rank(p) = Rank(q) => p = q
BY DEF Rank, Places

\* Two loops write different areas, and none writes what an earlier one reads.
LEMMA LoopsApart ==
    ASSUME NEW at \in DOMAIN Loop, NEW other \in DOMAIN Loop, at # other
    PROVE  /\ Loop[at].toPl = Loop[other].toPl => Loop[at].to # Loop[other].to
           /\ Loop[at].toPl # Loop[other].toPl /\ Loop[at].to = Loop[other].from
                => Rank(at) < Rank(other)
BY DEF Loop, Rank

\* The registers of a burst, and that it is one
LEMMA BurstFacts ==
    ASSUME NEW at, NEW i \in Nat \ {0}, NEW b \in BurstOf(at, i)
    PROVE  /\ b.from = Loop[at].from /\ b.to = Loop[at].to /\ b.toPl = Loop[at].toPl
           /\ b.at = i
           /\ b.events \in {<<"MM2S", "S2MM">>, <<"S2MM">>}
           /\ b # NoBurst
BY DEF BurstOf, NoBurst

\* A whole file or result is a content of its area.
LEMMA WholeType ==
    ASSUME NEW f \in PlArea
    PROVE  Whole(f) \in [1..ChunksOf(f) -> Content]
<1> SUFFICES ASSUME NEW i \in 1..ChunksOf(f)
             PROVE  Part(f, i) \in Content
    BY DEF Whole
<1>1. i \in 1..(Chunks["picture"] + Chunks["weights"])
    BY ChunksType, BareMetalAssumption
<1> QED
    BY <1>1 DEF Content

\* So is an empty area.
LEMMA EmptyType ==
    ASSUME NEW a
    PROVE  Empty(a) \in [1..ChunksOf(a) -> Content]
BY DEF Empty, Content

\* The empty memories and the card with its files satisfy the invariant.
LEMMA InitInv == Init => Inv
<1> SUFFICES ASSUME Init PROVE Inv
    OBVIOUS
<1>0. BareMetalAssumption
    BY BareMetalAssumption
<1>1. TypeOK
    <2>1. \A a \in PsArea : ps[a] \in [1..ChunksOf(a) -> Content]
        BY EmptyType DEF Init
    <2>2. \A a \in PlArea : pl[a] \in [1..ChunksOf(a) -> Content]
        BY EmptyType DEF Init
    <2>3. \A f \in PlArea : card[f] \in [1..ChunksOf(f) -> Content]
        BY EmptyType, WholeType DEF Init, PlArea
    <2>4. count \in 1..(Chunks["picture"] + Chunks["weights"])
        BY BareMetalAssumption DEF Init
    <2> QED
        BY <2>1, <2>2, <2>3, <2>4 DEF Init, TypeOK
<1>2. Memories
    BY DEF Init, Memories, PlArea
<1>3. pc \notin DOMAIN Loop /\ Rank(pc) = 0 /\ \A at \in DOMAIN Loop : Rank(at) > 0
    <2>1. pc \notin DOMAIN Loop
        BY DEF Init, Loop
    <2>2. Rank(pc) = 0
        BY DEF Init, Rank
    <2> QED
        BY <2>1, <2>2, LoopFacts
<1>4. CountBounded
    BY <1>3 DEF Init, CountBounded
<1>5. OneBurst
    BY DEF Init, OneBurst
<1>6. ChunksMoved
    <2>1. \A at \in DOMAIN Loop : Issued(at) = 0
        BY <1>3, LoopFacts DEF Issued
    <2> QED
        BY <2>1 DEF ChunksMoved
<1>7. FilesRead /\ CardKept
    <2>1. FilesRead
        BY DEF Init, FilesRead
    <2>2. CardKept
        BY DEF Init, CardKept
    <2> QED
        BY <2>1, <2>2
<1>8. EngineFollows /\ ResultRight
    BY <1>3 DEF Init, EngineFollows, ResultRight
<1> QED
    BY <1>1, <1>2, <1>4, <1>5, <1>6, <1>7, <1>8 DEF Inv

-----------------------------------------------------------------------------
(* The steps.                                                              *)

\* What the steps that leave the memories, the device and the faults alone keep.
LEMMA FrameInv ==
    ASSUME Inv, UNCHANGED vars
    PROVE  Inv'
BY DEF Inv, vars, cpuRest, TypeOK, Memories, CountBounded, OneBurst, ChunksMoved, FilesRead, CardKept,
       EngineFollows, ResultRight, Issued, Moved, Without, InputInPlace

\* Two areas with the same chunks have the same contents.
LEMMA SameContents ==
    ASSUME NEW n, NEW f \in [1..n -> Content], NEW g \in [1..n -> Content],
           \A i \in 1..n : f[i] = g[i]
    PROVE  f = g
<1>1. f = [i \in 1..n |-> f[i]] /\ g = [i \in 1..n |-> g[i]]
    OBVIOUS
<1>2. [i \in 1..n |-> f[i]] = [i \in 1..n |-> g[i]]
    BY Zenon
<1> QED
    BY <1>1, <1>2, Zenon

\* A chunk of an area is written: the area has it, all else is as before.
LEMMA WriteFacts ==
    ASSUME NEW Areas, NEW m, NEW a \in Areas, NEW i \in 1..ChunksOf(a), NEW v \in Content,
           m = [b \in Areas |-> m[b]],
           \A b \in Areas : m[b] \in [1..ChunksOf(b) -> Content],
           NEW n, n = [m EXCEPT ![a][i] = v]
    PROVE  /\ n = [b \in Areas |-> n[b]]
           /\ \A b \in Areas : n[b] \in [1..ChunksOf(b) -> Content]
           /\ n[a][i] = v
           /\ \A b \in Areas \ {a} : n[b] = m[b]
           /\ \A j \in 1..ChunksOf(a) : j # i => n[a][j] = m[a][j]
<1>1. n = [b \in Areas |-> IF b = a THEN [m[a] EXCEPT ![i] = v] ELSE m[b]]
    OBVIOUS
<1>2. m[a] \in [1..ChunksOf(a) -> Content]
    OBVIOUS
<1>3. n[a] = [m[a] EXCEPT ![i] = v]
    BY <1>1
<1>4. \A b \in Areas \ {a} : n[b] = m[b]
    BY <1>1
<1>5. n = [b \in Areas |-> n[b]]
    BY <1>1
<1>6. \A b \in Areas : n[b] \in [1..ChunksOf(b) -> Content]
    BY <1>2, <1>3, <1>4
<1> QED
    BY <1>2, <1>3, <1>4, <1>5, <1>6

\* A fault is added to those that have happened.
LEMMA FaultFacts ==
    ASSUME NEW kind, Fault(kind), faults \subseteq Faults
    PROVE  faults \subseteq faults' /\ faults' \subseteq Faults /\ kind \in faults'
BY DEF Fault

\* The program is at one of its statements.
LEMMA PlaceType ==
    ASSUME TypeOK
    PROVE  pc \in Places
BY DEF TypeOK, Places, Loop

\* Chunks that have been issued exist.
LEMMA IssuedType ==
    ASSUME Inv, NEW at \in DOMAIN Loop
    PROVE  Issued(at) \in 0..ChunksOf(Loop[at].from)
<1>1. count \in Nat \ {0}
    BY BareMetalAssumption DEF Inv, TypeOK
<1>2. ChunksOf(Loop[at].from) \in Nat
    BY ChunksType
<1>3. CASE pc = at
    BY <1>1, <1>2, <1>3 DEF Issued, Inv, CountBounded
<1>4. CASE pc # at
    BY <1>2, <1>4 DEF Issued
<1> QED
    BY <1>3, <1>4

\* Going on to the next statement issues no chunk.
LEMMA NextPlace ==
    ASSUME Inv, pc' \in Places, Rank(pc') = Rank(pc) + 1, count' = 1,
           pc \in DOMAIN Loop => count > ChunksOf(Loop[pc].from)
    PROVE  \A at \in DOMAIN Loop : Issued(at)' = Issued(at)
<1> SUFFICES ASSUME NEW at \in DOMAIN Loop
             PROVE  Issued(at)' = Issued(at)
    OBVIOUS
<1>1. at \in Places
    BY LoopFacts DEF Places
<1>2. pc \in Places
    BY PlaceType DEF Inv
<1>3. Rank(pc) \in Nat /\ Rank(pc') \in Nat /\ Rank(at) \in Nat
    BY <1>1, <1>2, RankFacts
<1>4. Issued(at)' = IF pc' = at THEN 0
                    ELSE IF Rank(pc') > Rank(at) THEN ChunksOf(Loop[at].from) ELSE 0
    BY DEF Issued
<1>5. CASE pc = at
    <2>1. count = ChunksOf(Loop[at].from) + 1
        BY <1>5, ChunksType, BareMetalAssumption DEF Inv, CountBounded, TypeOK
    <2>2. Issued(at) = ChunksOf(Loop[at].from)
        BY <1>5, <2>1, ChunksType DEF Issued
    <2>3. pc' # at /\ Rank(pc') > Rank(at)
        BY <1>3, <1>5
    <2> QED
        BY <1>4, <2>2, <2>3
<1>6. CASE pc' = at
    <2>1. pc # at /\ ~(Rank(pc) > Rank(at))
        BY <1>3, <1>6
    <2> QED
        BY <1>4, <1>6, <2>1 DEF Issued
<1>7. CASE pc # at /\ pc' # at
    <2>1. Rank(pc) # Rank(at) /\ Rank(pc') # Rank(at)
        BY <1>1, <1>2, <1>7, RankFacts
    <2>2. Rank(pc) > Rank(at) <=> Rank(pc') > Rank(at)
        BY <1>3, <2>1
    <2> QED
        BY <1>4, <1>7, <2>2 DEF Issued
<1> QED
    BY <1>5, <1>6, <1>7

\* Going on from a statement that moves nothing, or when the last burst is over, keeps
\* what is known of the bursts.
LEMMA NextPlaceBursts ==
    ASSUME Inv, pc' \in Places, Rank(pc') = Rank(pc) + 1, count' = 1,
           pc \in DOMAIN Loop => count > ChunksOf(Loop[pc].from),
           pc \in DOMAIN Loop /\ Without({"slow"})' => dma = NoBurst,
           faults \subseteq faults',
           UNCHANGED <<pl, dma>>,
           ps' = ps \/ pc = "mount"
    PROVE  OneBurst' /\ ChunksMoved'
<1>1. Without({"slow"})' => Without({"slow"})
    BY DEF Without
<1>2. OneBurst'
    <2>1. CASE dma = NoBurst
        BY <2>1 DEF OneBurst
    <2>2. CASE dma # NoBurst
        <3>1. PICK at \in DOMAIN Loop : \E i \in 1..ChunksOf(Loop[at].from) :
                  dma \in BurstOf(at, i) /\ (Without({"slow"}) => pc = at /\ count = i + 1)
            BY <2>2 DEF Inv, OneBurst
        <3>2. PICK i \in 1..ChunksOf(Loop[at].from) :
                  dma \in BurstOf(at, i) /\ (Without({"slow"}) => pc = at /\ count = i + 1)
            BY <3>1
        <3>3. ~Without({"slow"})'
            BY <1>1, <2>2, <3>2
        <3>4. dma' \in BurstOf(at, i)
            BY <3>2
        <3> QED
            BY <3>3, <3>4 DEF OneBurst
    <2> QED
        BY <2>1, <2>2
<1>3. ChunksMoved'
    <2> SUFFICES ASSUME Without({"slow"})', NEW at \in DOMAIN Loop, NEW i \in 1..(Issued(at)')
                 PROVE  Moved(at, i)' \/ dma' \in BurstOf(at, i)
        BY DEF ChunksMoved, BurstOf
    <2>1. Issued(at)' = Issued(at)
        BY NextPlace
    <2>2. Moved(at, i) \/ dma \in BurstOf(at, i)
        BY <1>1, <2>1 DEF Inv, ChunksMoved
    <2>3. pc # "mount"
        <3>1. SUFFICES ASSUME pc = "mount" PROVE FALSE
            OBVIOUS
        <3>2. Issued(at) = 0
            BY <3>1, LoopFacts DEF Issued, Rank
        <3> QED
            BY <2>1, <3>2
    <2> QED
        BY <2>2, <2>3 DEF Moved
<1> QED
    BY <1>2, <1>3

\* The card is mounted, formatted or not: its files and the faults keep their types,
\* and without such a fault it stays as it was.
LEMMA CardFacts ==
    ASSUME Inv, Mounted \/ NotMounted
    PROVE  /\ card' = [f \in PlArea |-> card'[f]]
           /\ \A f \in PlArea : card'[f] \in [1..ChunksOf(f) -> Content]
           /\ faults \subseteq faults' /\ faults' \subseteq Faults
           /\ Without({"mount", "format"})' => card' = card
<1>1. card = [f \in PlArea |-> card[f]]
      /\ \A f \in PlArea : card[f] \in [1..ChunksOf(f) -> Content]
    BY DEF Inv, Memories, TypeOK
<1>2. card' = card \/ card' = Formatted
    BY DEF Mounted, NotMounted
<1>3. Formatted = [f \in PlArea |-> Empty(f)]
    BY <1>1 DEF Formatted
<1>4. faults \subseteq faults' /\ faults' \subseteq Faults
    BY FaultFacts DEF Mounted, NotMounted, Inv, TypeOK
<1>5. card' = card \/ "mount" \in faults' \/ "format" \in faults'
    BY FaultFacts DEF Mounted, NotMounted, Inv, TypeOK
<1>6. CASE card' = card
    BY <1>1, <1>4, <1>6
<1>7. CASE card' = Formatted
    BY <1>3, <1>4, <1>5, <1>7, EmptyType DEF Without
<1> QED
    BY <1>2, <1>6, <1>7

\* The files are read from the card, or not.
LEMMA SdTestInv ==
    ASSUME Inv, SdTest \/ SdTestFileMissing
    PROVE  Inv'
<1>1. pc = "mount" /\ pc' = "pictureOut" /\ count = 1 /\ count' = 1
      /\ UNCHANGED <<irq0, pl, dma, cpuRest>>
    BY DEF SdTest, SdTestFileMissing, Running, Inv, CountBounded, Loop
<1>2. pc' \in Places /\ Rank(pc) = 0 /\ Rank(pc') = 1 /\ pc \notin DOMAIN Loop /\ pc' \in DOMAIN Loop
    BY <1>1 DEF Places, Rank, Loop
<1>3. /\ card' = [f \in PlArea |-> card'[f]]
      /\ \A f \in PlArea : card'[f] \in [1..ChunksOf(f) -> Content]
      /\ faults \subseteq faults' /\ faults' \subseteq Faults
      /\ Without({"mount", "format"})' => card' = card
    <2>1. CASE SdTest
        BY <2>1, CardFacts DEF SdTest
    <2>2. CASE SdTestFileMissing
        BY <2>2, FaultFacts DEF SdTestFileMissing, Inv, Memories, TypeOK
    <2> QED
        BY <2>1, <2>2
<1>4. /\ ps' = [a \in PsArea |-> ps'[a]]
      /\ \A a \in PsArea : ps'[a] \in [1..ChunksOf(a) -> Content]
      /\ Without({"mount", "format", "file"})' =>
            ps'["weights"] = card'.weights /\ ps'["picture"] = card'.picture
    <2>1. ps = [a \in PsArea |-> ps[a]] /\ \A a \in PsArea : ps[a] \in [1..ChunksOf(a) -> Content]
        BY DEF Inv, Memories, TypeOK
    <2>2. CASE SdTest
        <3>1. CASE ps' = [ps EXCEPT !["weights"] = card'.weights, !["picture"] = card'.picture]
            BY <1>3, <2>1, <3>1 DEF PsArea, PlArea
        <3>2. CASE NotMounted /\ ps' = ps
            <4>1. "format" \in faults'
                BY <3>2, FaultFacts DEF NotMounted, Inv, TypeOK
            <4> QED
                BY <2>1, <3>2, <4>1 DEF Without
        <3> QED
            BY <2>2, <3>1, <3>2 DEF SdTest
    <2>3. CASE SdTestFileMissing
        <3>1. "file" \in faults'
            BY <2>3, FaultFacts DEF SdTestFileMissing, Inv, TypeOK
        <3>2. PICK f \in {"weights", "picture"} : ps' = [ps EXCEPT ![f] = card[f]]
            BY <2>3 DEF SdTestFileMissing
        <3>3. card[f] \in [1..ChunksOf(f) -> Content]
            BY DEF Inv, TypeOK, PlArea
        <3> QED
            BY <2>1, <3>1, <3>2, <3>3 DEF Without
    <2> QED
        BY <2>2, <2>3
<1>5. TypeOK'
    <2>1. count' \in 1..(Chunks["picture"] + Chunks["weights"])
        BY <1>1 DEF Inv, TypeOK
    <2> QED
        BY <1>1, <1>2, <1>3, <1>4, <2>1 DEF Inv, TypeOK, cpuRest
<1>6. Memories'
    BY <1>1, <1>3, <1>4 DEF Inv, Memories
<1>7. CountBounded'
    BY <1>1, <1>2, ChunksType DEF CountBounded
<1>8. OneBurst' /\ ChunksMoved'
    BY <1>1, <1>2, <1>3, NextPlaceBursts
<1>9. CardKept'
    BY <1>3 DEF Inv, CardKept, Without
<1>10. FilesRead'
    BY <1>3, <1>4, <1>9 DEF FilesRead, CardKept, Without
<1>11. EngineFollows'
    BY <1>1, <1>2 DEF Inv, EngineFollows, cpuRest
<1>12. ResultRight'
    BY <1>1, <1>3 DEF Inv, ResultRight, cpuRest
<1> QED
    BY <1>5, <1>6, <1>7, <1>8, <1>9, <1>10, <1>11, <1>12 DEF Inv

\* The result is written to the card.
LEMMA SdWriteInv ==
    ASSUME Inv, SdWrite
    PROVE  Inv'
<1>1. pc = "save" /\ pc' = "end" /\ count = 1 /\ count' = 1
      /\ UNCHANGED <<irq0, ps, pl, dma, cpuRest>>
    BY DEF SdWrite, Running, Inv, CountBounded, Loop
<1>2. /\ pc' \in Places /\ Rank(pc) = 9 /\ Rank(pc') = 10
      /\ pc \notin DOMAIN Loop /\ pc' \notin DOMAIN Loop
    BY <1>1 DEF Places, Rank, Loop
<1>3. card = [f \in PlArea |-> card[f]]
      /\ \A f \in PlArea : card[f] \in [1..ChunksOf(f) -> Content]
    BY DEF Inv, Memories, TypeOK
<1>4. ps["trans"] \in [1..ChunksOf("trans") -> Content]
    BY DEF Inv, TypeOK, PsArea
<1>5. /\ card' = [f \in PlArea |-> card'[f]]
      /\ \A f \in PlArea : card'[f] \in [1..ChunksOf(f) -> Content]
      /\ faults \subseteq faults' /\ faults' \subseteq Faults
      /\ Without({"mount", "format"})' => card' = [card EXCEPT !.trans = ps["trans"]]
    <2>1. CASE NotMounted
        <3>1. "format" \in faults'
            BY <2>1, FaultFacts DEF NotMounted, Inv, TypeOK
        <3>2. ~Without({"mount", "format"})'
            BY <3>1 DEF Without
        <3> QED
            BY <2>1, <3>2, CardFacts
    <2>2. CASE UNCHANGED faults /\ card' = [card EXCEPT !.trans = ps["trans"]]
        <3>1. card' = [f \in PlArea |-> IF f = "trans" THEN ps["trans"] ELSE card[f]]
            BY <1>3, <2>2 DEF PlArea
        <3> QED
            BY <1>3, <1>4, <2>2, <3>1 DEF Inv, TypeOK, PlArea
    <2>3. CASE Fault("mount") /\ card' = [Formatted EXCEPT !.trans = ps["trans"]]
        <3>1. "mount" \in faults' /\ faults \subseteq faults' /\ faults' \subseteq Faults
            BY <2>3, FaultFacts DEF Inv, TypeOK
        <3>2. card' = [f \in PlArea |-> IF f = "trans" THEN ps["trans"] ELSE Empty(f)]
            BY <1>3, <2>3 DEF PlArea, Formatted
        <3>3. ~Without({"mount", "format"})'
            BY <3>1 DEF Without
        <3>4. \A f \in PlArea : card'[f] \in [1..ChunksOf(f) -> Content]
            BY <1>4, <3>2, EmptyType
        <3> QED
            BY <3>1, <3>2, <3>3, <3>4
    <2> QED
        BY <2>1, <2>2, <2>3 DEF SdWrite
<1>6. TypeOK'
    BY <1>1, <1>2, <1>5 DEF Inv, TypeOK, cpuRest
<1>7. Memories'
    BY <1>1, <1>5 DEF Inv, Memories
<1>8. CountBounded'
    BY <1>1, <1>2 DEF CountBounded
<1>9. OneBurst' /\ ChunksMoved'
    BY <1>1, <1>2, <1>5, NextPlaceBursts
<1>10. CardKept'
    BY <1>3, <1>5 DEF Inv, CardKept, Without, PlArea
<1>11. FilesRead'
    BY <1>1, <1>5 DEF Inv, FilesRead, Without
<1>12. EngineFollows'
    BY <1>1, <1>2 DEF Inv, EngineFollows, cpuRest
<1>13. ResultRight'
    <2> SUFFICES ASSUME faults' = {}, regsFit'
                 PROVE  /\ engine' = "done" => pl'["trans"] = Whole("trans")
                        /\ card'.trans = Whole("trans")
        BY DEF ResultRight
    <2>1. faults = {} /\ Without({"slow"}) /\ regsFit
        BY <1>1, <1>5 DEF Without, cpuRest
    <2>2. engine = "done" /\ pl["trans"] = Whole("trans")
        BY <1>2, <2>1 DEF Inv, EngineFollows, ResultRight
    <2>3. dma = NoBurst
        BY <1>2, <2>1 DEF Inv, OneBurst
    <2>4. \A i \in 1..ChunksOf("trans") : ps["trans"][i] = pl["trans"][i]
        <3>1. "transBack" \in DOMAIN Loop /\ Loop["transBack"].from = "trans"
              /\ Loop["transBack"].to = "trans" /\ ~Loop["transBack"].toPl
            BY DEF Loop
        <3>2. Issued("transBack") = ChunksOf("trans")
            BY <1>1, <3>1 DEF Issued, Rank
        <3> SUFFICES ASSUME NEW i \in 1..ChunksOf("trans")
                     PROVE  ps["trans"][i] = pl["trans"][i]
            OBVIOUS
        <3>4. Moved("transBack", i) \/ dma \in BurstOf("transBack", i)
            BY <2>1, <3>1, <3>2 DEF Inv, ChunksMoved
        <3>5. dma \notin BurstOf("transBack", i)
            BY <2>3, BurstFacts, ChunksType
        <3> QED
            BY <3>1, <3>4, <3>5 DEF Moved
    <2>5. ps["trans"] = pl["trans"]
        <3>1. pl["trans"] \in [1..ChunksOf("trans") -> Content]
            BY DEF Inv, TypeOK, PlArea
        <3> QED
            BY <1>4, <2>4, <3>1, SameContents
    <2>6. card'.trans = ps["trans"]
        BY <1>3, <1>5, <2>1 DEF Without, PlArea
    <2> QED
        BY <1>1, <2>2, <2>5, <2>6
<1> QED
    BY <1>6, <1>7, <1>8, <1>9, <1>10, <1>11, <1>12, <1>13 DEF Inv

\* The program is late for a burst, or there is none.
LEMMA SleptFacts ==
    ASSUME Inv, Slept
    PROVE  /\ faults \subseteq faults' /\ faults' \subseteq Faults
           /\ Without({"slow"})' => Without({"slow"}) /\ dma = NoBurst
<1>1. CASE dma = NoBurst /\ UNCHANGED faults
    BY <1>1 DEF Inv, TypeOK, Without
<1>2. CASE dma # NoBurst /\ Fault("slow")
    BY <1>2, FaultFacts DEF Inv, TypeOK, Without
<1> QED
    BY <1>1, <1>2 DEF Slept

\* A chunk is handed to the device.
LEMMA MoveChunkInv ==
    ASSUME Inv, NEW at \in DOMAIN Loop, MoveChunk(at)
    PROVE  Inv'
<1>1. /\ pc = at /\ pc' = at /\ count' = count + 1
      /\ count <= ChunksOf(Loop[at].from)
      /\ dma' \in {BurstFor(Loop[at], count), dma}
      /\ dma = NoBurst => dma' = BurstFor(Loop[at], count)
      /\ UNCHANGED <<irq0, ps, pl, card, cpuRest>>
    BY DEF MoveChunk, Running
<1>2. /\ faults \subseteq faults' /\ faults' \subseteq Faults
      /\ Without({"slow"})' => Without({"slow"}) /\ dma = NoBurst
    BY SleptFacts DEF MoveChunk
<1>3. count \in 1..ChunksOf(Loop[at].from) /\ count' \in Nat \ {0}
    BY <1>1, ChunksType, BareMetalAssumption DEF Inv, TypeOK
<1>4. BurstFor(Loop[at], count) \in BurstOf(at, count)
    BY DEF BurstFor, BurstOf
<1>5. TypeOK'
    <2>1. count' \in 1..(Chunks["picture"] + Chunks["weights"])
        BY <1>1, <1>3, ChunksType, BareMetalAssumption
    <2> QED
        BY <1>1, <1>2, <2>1 DEF Inv, TypeOK, cpuRest
<1>6. Memories'
    BY <1>1 DEF Inv, Memories
<1>7. CountBounded'
    BY <1>1, <1>3, ChunksType DEF CountBounded
<1>8. OneBurst'
    <2>1. CASE dma = NoBurst
        <3>1. dma' \in BurstOf(at, count) /\ pc' = at /\ count' = count + 1
            BY <1>1, <1>4, <2>1
        <3> QED
            BY <1>3, <3>1 DEF OneBurst
    <2>2. CASE dma # NoBurst
        <3>1. ~Without({"slow"})'
            BY <1>2, <2>2
        <3>2. \E l \in DOMAIN Loop : \E i \in 1..ChunksOf(Loop[l].from) : dma' \in BurstOf(l, i)
            BY <1>1, <1>3, <1>4, <2>2 DEF Inv, OneBurst
        <3> QED
            BY <3>1, <3>2 DEF OneBurst
    <2> QED
        BY <2>1, <2>2
<1>9. ChunksMoved'
    <2> SUFFICES ASSUME Without({"slow"})', NEW l \in DOMAIN Loop, NEW i \in 1..(Issued(l)')
                 PROVE  Moved(l, i)' \/ dma' \in BurstOf(l, i)
        BY DEF ChunksMoved, BurstOf
    <2>1. dma = NoBurst /\ dma' = BurstFor(Loop[at], count) /\ Without({"slow"})
        BY <1>1, <1>2
    <2>2. CASE l = at /\ i = count
        BY <1>4, <2>1, <2>2
    <2>3. CASE ~(l = at /\ i = count)
        <3>1. i \in 1..Issued(l)
            BY <1>1, <1>3, <2>3, ChunksType DEF Issued
        <3>2. i \in Nat \ {0}
            BY <3>1, IssuedType, ChunksType
        <3>3. Moved(l, i)
            BY <2>1, <3>1, <3>2, BurstFacts DEF Inv, ChunksMoved
        <3> QED
            BY <1>1, <3>3 DEF Moved
    <2> QED
        BY <2>2, <2>3
<1>10. FilesRead' /\ CardKept'
    <2>1. pc # "mount"
        BY <1>1, LoopFacts
    <2> QED
        BY <1>1, <1>2, <2>1 DEF Inv, FilesRead, CardKept, Without
<1>11. EngineFollows'
    BY <1>1 DEF Inv, EngineFollows, cpuRest
<1>12. ResultRight'
    BY <1>1, <1>2 DEF Inv, ResultRight, cpuRest
<1> QED
    BY <1>5, <1>6, <1>7, <1>8, <1>9, <1>10, <1>11, <1>12 DEF Inv

\* The last chunk of a loop has been handed over.
LEMMA EndLoopInv ==
    ASSUME Inv, NEW at \in DOMAIN Loop, EndLoop(at)
    PROVE  Inv'
<1>1. /\ pc = at /\ pc' = Loop[at].next /\ count' = 1
      /\ count > ChunksOf(Loop[at].from)
      /\ UNCHANGED <<irq0, ps, pl, card, dma, cpuRest>>
    BY DEF EndLoop, Running
<1>2. /\ faults \subseteq faults' /\ faults' \subseteq Faults
      /\ Without({"slow"})' => Without({"slow"}) /\ dma = NoBurst
    BY SleptFacts DEF EndLoop
<1>3. /\ pc' \in Places /\ pc' # "mount" /\ pc' # "end" /\ pc # "mount"
      /\ Rank(pc') = Rank(pc) + 1 /\ Rank(pc) \in {1, 2, 3, 4, 8}
    BY <1>1, LoopFacts DEF Places
<1>4. TypeOK'
    <2>1. count' \in 1..(Chunks["picture"] + Chunks["weights"])
        BY <1>1, BareMetalAssumption
    <2>2. pc' \in DOMAIN Loop \cup {"mount", "start", "poll", "clean", "save", "end"}
        BY <1>1, LoopFacts DEF Loop
    <2> QED
        BY <1>1, <1>2, <2>1, <2>2 DEF Inv, TypeOK, cpuRest
<1>5. Memories'
    BY <1>1 DEF Inv, Memories
<1>6. CountBounded'
    BY <1>1, ChunksType DEF CountBounded
<1>7. OneBurst' /\ ChunksMoved'
    BY <1>1, <1>2, <1>3, NextPlaceBursts
<1>8. FilesRead' /\ CardKept'
    BY <1>1, <1>2, <1>3 DEF Inv, FilesRead, CardKept, Without
<1>9. EngineFollows'
    BY <1>1, <1>3 DEF Inv, EngineFollows, cpuRest
<1>10. ResultRight'
    BY <1>1, <1>2, <1>3 DEF Inv, ResultRight, cpuRest
<1> QED
    BY <1>4, <1>5, <1>6, <1>7, <1>8, <1>9, <1>10 DEF Inv

\* The network is started, the poll turns, the number is cleared.
LEMMA NetworkInv ==
    ASSUME Inv, IwaveStart \/ Poll \/ Clean
    PROVE  Inv'
<1>1. /\ UNCHANGED <<count, ps, pl, card, dma, inIrq, regsFit, missed, pending, faults>>
      /\ \/ pc' = pc /\ pc = "poll"
         \/ pc' \in Places /\ Rank(pc') = Rank(pc) + 1
      /\ pc \in {"start", "poll", "clean"}
      /\ pc' \in {"poll", "clean", "transBack"}
    <2>1. CASE IwaveStart
        BY <2>1 DEF IwaveStart, Running, Places, Rank
    <2>2. CASE Poll
        <3>1. pc = "poll" /\ pc' \in {"poll", "clean"}
            BY <2>2 DEF Poll, Running
        <3>2. Rank("poll") = 6 /\ Rank("clean") = 7
            BY DEF Rank
        <3> QED
            BY <2>2, <3>1, <3>2 DEF Poll, cpuRest, Places
    <2>3. CASE Clean
        BY <2>3 DEF Clean, Running, Places, Rank
    <2> QED
        BY <2>1, <2>2, <2>3
<1>2. pc \notin DOMAIN Loop /\ pc # "mount" /\ pc' # "mount" /\ pc' # "end" /\ count = 1
    BY <1>1 DEF Inv, CountBounded, Loop
<1>3. TypeOK'
    <2>1. pc' \in DOMAIN Loop \cup {"mount", "start", "poll", "clean", "save", "end"}
        BY <1>1 DEF Loop
    <2>2. /\ irq0' \in {"none", "MM2S", "S2MM", "NETWORK_ACC_DONE"}
          /\ irqReg' \in {"none", "MM2S", "S2MM", "NETWORK_ACC_DONE"}
          /\ engine' \in {"idle", "running", "done"}
        BY DEF IwaveStart, Poll, Clean, Inv, TypeOK, cpuRest
    <2> QED
        BY <1>1, <2>1, <2>2 DEF Inv, TypeOK
<1>4. Memories'
    BY <1>1 DEF Inv, Memories
<1>5. CountBounded'
    BY <1>1, <1>2, ChunksType DEF CountBounded
<1>6. OneBurst' /\ ChunksMoved'
    <2>1. CASE pc' = pc
        BY <1>1, <2>1 DEF Inv, OneBurst, ChunksMoved, Issued, Moved, Without
    <2>2. CASE pc' # pc
        BY <1>1, <1>2, <2>2, NextPlaceBursts
    <2> QED
        BY <2>1, <2>2
<1>7. FilesRead' /\ CardKept'
    BY <1>1, <1>2 DEF Inv, FilesRead, CardKept, Without
<1>8. EngineFollows'
    <2>1. CASE IwaveStart
        BY <2>1 DEF IwaveStart, Running, Inv, EngineFollows, Rank
    <2>2. CASE Poll
        BY <2>2 DEF Poll, Running, Seen, Inv, EngineFollows, Rank, cpuRest
    <2>3. CASE Clean
        BY <2>3 DEF Clean, Running, Inv, EngineFollows, Rank
    <2> QED
        BY <2>1, <2>2, <2>3
<1>9. ResultRight'
    <2>1. engine' = "done" => engine = "done"
        BY DEF IwaveStart, Poll, Clean, cpuRest
    <2> QED
        BY <1>1, <1>2, <2>1 DEF Inv, ResultRight
<1> QED
    BY <1>3, <1>4, <1>5, <1>6, <1>7, <1>8, <1>9 DEF Inv

\* The interrupt handler clears the number.
LEMMA HandlerInv ==
    ASSUME Inv, HandlerStep
    PROVE  Inv'
<1>1. UNCHANGED <<pc, count, irq0, ps, pl, card, dma, engine, regsFit, faults>>
    BY DEF HandlerStep, HandlerBegins, HandlerEnds
<1>2. irqReg' \in {irqReg, "none"} /\ inIrq' \in BOOLEAN /\ pending' \in BOOLEAN /\ missed' \in BOOLEAN
    BY DEF HandlerStep, HandlerBegins, HandlerEnds, Inv, TypeOK
<1>3. TypeOK'
    BY <1>1, <1>2 DEF Inv, TypeOK
<1>4. Memories' /\ CountBounded'
    BY <1>1 DEF Inv, Memories, CountBounded
<1>5. OneBurst' /\ ChunksMoved'
    BY <1>1 DEF Inv, OneBurst, ChunksMoved, Issued, Moved, Without
<1>6. FilesRead' /\ CardKept'
    BY <1>1 DEF Inv, FilesRead, CardKept, Without
<1>7. EngineFollows'
    BY <1>1, <1>2 DEF Inv, EngineFollows
<1>8. ResultRight'
    BY <1>1 DEF Inv, ResultRight
<1> QED
    BY <1>3, <1>4, <1>5, <1>6, <1>7, <1>8 DEF Inv

\* One end of a burst is reported, or the chunk arrives.
LEMMA DmaEventInv ==
    ASSUME Inv, DmaEvent
    PROVE  Inv'
<1>1. /\ dma # NoBurst
      /\ UNCHANGED <<pc, count, irq0, card, inIrq, engine, regsFit, missed, faults>>
      /\ irqReg' = Head(dma.events) /\ pending' = TRUE
    BY DEF DmaEvent, Raise
<1>2. PICK at \in DOMAIN Loop : \E i \in 1..ChunksOf(Loop[at].from) :
          dma \in BurstOf(at, i) /\ (Without({"slow"}) => pc = at /\ count = i + 1)
    BY <1>1 DEF Inv, OneBurst
<1>3. PICK i \in 1..ChunksOf(Loop[at].from) :
          dma \in BurstOf(at, i) /\ (Without({"slow"}) => pc = at /\ count = i + 1)
    BY <1>2
<1>4. i \in Nat \ {0} /\ i \in 1..ChunksOf(Loop[at].to)
    BY ChunksType, LoopFacts
<1>5. /\ dma.from = Loop[at].from /\ dma.to = Loop[at].to /\ dma.toPl = Loop[at].toPl
      /\ dma.at = i /\ dma.events \in {<<"MM2S", "S2MM">>, <<"S2MM">>}
    BY <1>3, <1>4, BurstFacts
<1>6. irqReg' \in {"MM2S", "S2MM"}
    BY <1>1, <1>5
<1>7. CardKept' /\ EngineFollows' /\ CountBounded'
    BY <1>1, <1>6 DEF Inv, CardKept, EngineFollows, CountBounded, Without
<1>8. CASE Len(dma.events) > 1
    <2>1. ps' = ps /\ pl' = pl /\ dma' = [dma EXCEPT !.events = Tail(@)]
        BY <1>8 DEF DmaEvent
    <2>2. dma' \in BurstOf(at, i)
        BY <1>3, <1>5, <1>8, <2>1 DEF BurstOf
    <2>3. TypeOK' /\ Memories'
        BY <1>1, <1>6, <2>1 DEF Inv, TypeOK, Memories
    <2>4. OneBurst'
        BY <1>1, <1>3, <2>2 DEF OneBurst, Without
    <2>5. ChunksMoved'
        <3> SUFFICES ASSUME Without({"slow"}), NEW l \in DOMAIN Loop, NEW j \in 1..Issued(l)
                     PROVE  Moved(l, j) \/ dma' \in BurstOf(l, j)
            BY <1>1, <2>1 DEF ChunksMoved, BurstOf, Issued, Moved, Without
        <3>1. Moved(l, j) \/ dma \in BurstOf(l, j)
            BY DEF Inv, ChunksMoved
        <3>2. CASE dma \in BurstOf(l, j)
            <4>1. j \in Nat \ {0}
                BY IssuedType, ChunksType
            <4>2. /\ Loop[l].from = Loop[at].from /\ Loop[l].to = Loop[at].to
                  /\ Loop[l].toPl = Loop[at].toPl /\ j = i
                BY <1>5, <3>2, <4>1, BurstFacts
            <4> QED
                BY <2>2, <4>2 DEF BurstOf
        <3> QED
            BY <3>1, <3>2
    <2>6. FilesRead' /\ ResultRight'
        BY <1>1, <2>1 DEF Inv, FilesRead, ResultRight, Without
    <2> QED
        BY <1>7, <2>3, <2>4, <2>5, <2>6 DEF Inv
<1>9. CASE ~(Len(dma.events) > 1)
    <2>1. /\ dma' = NoBurst
          /\ Loop[at].toPl => /\ pl' = [pl EXCEPT ![Loop[at].to][i] = ps[Loop[at].from][i]]
                              /\ ps' = ps
          /\ ~Loop[at].toPl => /\ ps' = [ps EXCEPT ![Loop[at].to][i] = pl[Loop[at].from][i]]
                               /\ pl' = pl
        BY <1>5, <1>9 DEF DmaEvent
    <2>2. /\ ps = [a \in PsArea |-> ps[a]] /\ \A a \in PsArea : ps[a] \in [1..ChunksOf(a) -> Content]
          /\ pl = [a \in PlArea |-> pl[a]] /\ \A a \in PlArea : pl[a] \in [1..ChunksOf(a) -> Content]
        BY DEF Inv, Memories, TypeOK
    <2>3. /\ Loop[at].toPl => Loop[at].from \in PsArea /\ Loop[at].to \in {"picture", "weights"}
          /\ ~Loop[at].toPl => /\ Loop[at].from \in PlArea
                               /\ Loop[at].to \in {"pictureCopy", "weightsCopy", "trans"}
        BY LoopFacts DEF PsArea
    <2>4. /\ ps' = [a \in PsArea |-> ps'[a]] /\ \A a \in PsArea : ps'[a] \in [1..ChunksOf(a) -> Content]
          /\ pl' = [a \in PlArea |-> pl'[a]] /\ \A a \in PlArea : pl'[a] \in [1..ChunksOf(a) -> Content]
          /\ Loop[at].toPl =>
                /\ ps' = ps /\ pl'[Loop[at].to][i] = ps[Loop[at].from][i]
                /\ \A a \in PlArea \ {Loop[at].to} : pl'[a] = pl[a]
                /\ \A j \in 1..ChunksOf(Loop[at].to) : j # i => pl'[Loop[at].to][j] = pl[Loop[at].to][j]
          /\ ~Loop[at].toPl =>
                /\ pl' = pl /\ ps'[Loop[at].to][i] = pl[Loop[at].from][i]
                /\ \A a \in PsArea \ {Loop[at].to} : ps'[a] = ps[a]
                /\ \A j \in 1..ChunksOf(Loop[at].to) : j # i => ps'[Loop[at].to][j] = ps[Loop[at].to][j]
        <3>1. CASE Loop[at].toPl
            <4>1. ps[Loop[at].from][i] \in Content
                BY <2>2, <2>3, <3>1
            <4>2. Loop[at].to \in PlArea
                BY <2>3, <3>1 DEF PlArea
            <4>3. pl' = [pl EXCEPT ![Loop[at].to][i] = ps[Loop[at].from][i]] /\ ps' = ps
                BY <2>1, <3>1
            <4>4. /\ pl' = [a \in PlArea |-> pl'[a]]
                  /\ \A a \in PlArea : pl'[a] \in [1..ChunksOf(a) -> Content]
                  /\ pl'[Loop[at].to][i] = ps[Loop[at].from][i]
                  /\ \A a \in PlArea \ {Loop[at].to} : pl'[a] = pl[a]
                  /\ \A j \in 1..ChunksOf(Loop[at].to) : j # i => pl'[Loop[at].to][j] = pl[Loop[at].to][j]
                BY <1>4, <2>2, <4>1, <4>2, <4>3, WriteFacts, ZenonT(40)
            <4> QED
                BY <2>2, <3>1, <4>3, <4>4
        <3>2. CASE ~Loop[at].toPl
            <4>1. pl[Loop[at].from][i] \in Content
                BY <2>2, <2>3, <3>2
            <4>2. Loop[at].to \in PsArea
                BY <2>3, <3>2 DEF PsArea
            <4>3. ps' = [ps EXCEPT ![Loop[at].to][i] = pl[Loop[at].from][i]] /\ pl' = pl
                BY <2>1, <3>2
            <4>4. /\ ps' = [a \in PsArea |-> ps'[a]]
                  /\ \A a \in PsArea : ps'[a] \in [1..ChunksOf(a) -> Content]
                  /\ ps'[Loop[at].to][i] = pl[Loop[at].from][i]
                  /\ \A a \in PsArea \ {Loop[at].to} : ps'[a] = ps[a]
                  /\ \A j \in 1..ChunksOf(Loop[at].to) : j # i => ps'[Loop[at].to][j] = ps[Loop[at].to][j]
                BY <1>4, <2>2, <4>1, <4>2, <4>3, WriteFacts, ZenonT(40)
            <4> QED
                BY <2>2, <3>2, <4>3, <4>4
        <3> QED
            BY <3>1, <3>2
    <2>5. TypeOK' /\ Memories'
        BY <1>1, <1>6, <2>4 DEF Inv, TypeOK, Memories
    <2>6. OneBurst'
        BY <2>1 DEF OneBurst
    <2>7. ChunksMoved'
        <3> SUFFICES ASSUME Without({"slow"}), NEW l \in DOMAIN Loop, NEW j \in 1..Issued(l)
                     PROVE  Moved(l, j)'
            BY <1>1 DEF ChunksMoved, Issued, Without
        <3>1. j \in 1..ChunksOf(Loop[l].from) /\ j \in Nat \ {0} /\ j \in 1..ChunksOf(Loop[l].to)
            BY IssuedType, ChunksType, LoopFacts
        <3>2. Moved(l, j) \/ dma \in BurstOf(l, j)
            BY DEF Inv, ChunksMoved
        <3>3. CASE l = at /\ j = i
            BY <2>4, <3>3 DEF Moved
        <3>4. CASE l = at /\ j # i
            <4>1. dma \notin BurstOf(l, j)
                BY <1>5, <3>1, <3>4, BurstFacts
            <4>2. Moved(l, j)
                BY <3>2, <4>1
            <4> QED
                BY <2>4, <3>1, <3>4, <4>2 DEF Moved
        <3>5. CASE l # at
            <4>1. \/ Loop[l].toPl # Loop[at].toPl
                  \/ Loop[l].to # Loop[at].to
                BY <3>5, LoopsApart
            <4>2. dma \notin BurstOf(l, j)
                BY <1>5, <3>1, <4>1, BurstFacts
            <4>3. Moved(l, j)
                BY <3>2, <4>2
            <4>4. pc = at /\ Rank(l) \in Nat /\ Rank(at) \in Nat
                BY <1>3, LoopFacts
            <4>5. ~(Rank(at) < Rank(l))
                BY <3>1, <3>5, <4>4 DEF Issued
            <4>6. Loop[at].toPl # Loop[l].toPl => Loop[at].to # Loop[l].from
                BY <3>5, <4>5, LoopsApart
            <4>7. /\ Loop[l].toPl \in BOOLEAN /\ Loop[at].toPl \in BOOLEAN
                  /\ Loop[l].toPl => Loop[l].from \in {"picture", "weights"} \cap PsArea /\ Loop[l].to \in PlArea
                  /\ ~Loop[l].toPl => Loop[l].from \in PlArea /\ Loop[l].to \in PsArea
                  /\ Loop[at].toPl => Loop[at].from \in {"picture", "weights"} /\ Loop[at].to \in PlArea
                  /\ ~Loop[at].toPl => Loop[at].to \in {"pictureCopy", "weightsCopy", "trans"}
                BY LoopFacts DEF PsArea, PlArea
            <4>8. CASE Loop[l].toPl /\ Loop[at].toPl
                BY <2>4, <4>1, <4>3, <4>7, <4>8 DEF Moved
            <4>9. CASE Loop[l].toPl /\ ~Loop[at].toPl
                BY <2>4, <4>3, <4>7, <4>9 DEF Moved, PsArea
            <4>10. CASE ~Loop[l].toPl /\ Loop[at].toPl
                BY <2>4, <4>3, <4>6, <4>7, <4>10 DEF Moved
            <4>11. CASE ~Loop[l].toPl /\ ~Loop[at].toPl
                BY <2>4, <4>1, <4>3, <4>7, <4>11 DEF Moved
            <4> QED
                BY <4>8, <4>9, <4>10, <4>11
        <3> QED
            BY <3>3, <3>4, <3>5
    <2>8. FilesRead'
        BY <1>1, <2>3, <2>4 DEF Inv, FilesRead, Without, PsArea
    <2>9. ResultRight'
        BY <1>1, <2>3, <2>4 DEF Inv, ResultRight, PlArea
    <2> QED
        BY <1>7, <2>5, <2>6, <2>7, <2>8, <2>9 DEF Inv
<1> QED
    BY <1>8, <1>9

\* A loop that is over has moved its whole area, if no burst was late.
LEMMA LoopDone ==
    ASSUME Inv, Without({"slow"}), NEW at \in DOMAIN Loop, Rank(pc) > Rank(at)
    PROVE  IF Loop[at].toPl THEN pl[Loop[at].to] = ps[Loop[at].from]
                            ELSE ps[Loop[at].to] = pl[Loop[at].from]
<1> DEFINE n == ChunksOf(Loop[at].from)
<1>1. pc # at /\ Issued(at) = n
    BY LoopFacts DEF Issued
<1>3. \A i \in 1..n : Moved(at, i)
    <2> SUFFICES ASSUME NEW i \in 1..n
                 PROVE  Moved(at, i)
        OBVIOUS
    <2>1. SUFFICES ASSUME dma \in BurstOf(at, i) PROVE FALSE
        BY <1>1 DEF Inv, ChunksMoved
    <2>2. i \in Nat \ {0}
        BY ChunksType
    <2>3. dma.to = Loop[at].to /\ dma.toPl = Loop[at].toPl /\ dma # NoBurst
        BY <2>1, <2>2, BurstFacts
    <2>4. PICK l \in DOMAIN Loop : \E j \in 1..ChunksOf(Loop[l].from) :
              dma \in BurstOf(l, j) /\ (Without({"slow"}) => pc = l /\ count = j + 1)
        BY <2>3 DEF Inv, OneBurst
    <2>5. PICK j \in 1..ChunksOf(Loop[l].from) : dma \in BurstOf(l, j) /\ pc = l
        BY <2>4
    <2>6. dma.to = Loop[l].to /\ dma.toPl = Loop[l].toPl
        BY <2>5, ChunksType, BurstFacts
    <2> QED
        BY <1>1, <2>3, <2>5, <2>6, LoopsApart
<1>4. /\ \A a \in PsArea : ps[a] \in [1..ChunksOf(a) -> Content]
      /\ \A a \in PlArea : pl[a] \in [1..ChunksOf(a) -> Content]
    BY DEF Inv, TypeOK
<1>5. CASE Loop[at].toPl
    <2>1. pl[Loop[at].to] \in [1..n -> Content] /\ ps[Loop[at].from] \in [1..n -> Content]
        BY <1>4, <1>5, LoopFacts DEF PsArea, PlArea
    <2>2. \A i \in 1..n : pl[Loop[at].to][i] = ps[Loop[at].from][i]
        BY <1>3, <1>5 DEF Moved
    <2> HIDE DEF n
    <2> QED
        BY <1>5, <2>1, <2>2, SameContents
<1>6. CASE ~Loop[at].toPl
    <2>1. ps[Loop[at].to] \in [1..n -> Content] /\ pl[Loop[at].from] \in [1..n -> Content]
        BY <1>4, <1>6, LoopFacts DEF PsArea, PlArea
    <2>2. \A i \in 1..n : ps[Loop[at].to][i] = pl[Loop[at].from][i]
        BY <1>3, <1>6 DEF Moved
    <2> HIDE DEF n
    <2> QED
        BY <1>6, <2>1, <2>2, SameContents
<1> QED
    BY <1>5, <1>6

\* The loops that move the inputs are over when the network runs: if the files were
\* read and no burst was late, they are in PL memory.
LEMMA InputArrives ==
    ASSUME Inv, Rank(pc) > 5, Without({"mount", "format", "file", "slow"})
    PROVE  InputInPlace
<1>1. Without({"slow"}) /\ Without({"mount", "format", "file"})
    BY DEF Without
<1>2. /\ Loop["pictureOut"].toPl /\ Loop["pictureOut"].to = "picture"
      /\ Loop["pictureOut"].from = "picture" /\ Rank("pictureOut") = 1
      /\ Loop["weightsOut"].toPl /\ Loop["weightsOut"].to = "weights"
      /\ Loop["weightsOut"].from = "weights" /\ Rank("weightsOut") = 3
      /\ "pictureOut" \in DOMAIN Loop /\ "weightsOut" \in DOMAIN Loop
    BY DEF Loop, Rank
<1>3. Rank(pc) > 1 /\ Rank(pc) > 3 /\ pc # "mount"
    <2>1. Rank(pc) \in Nat
        BY PlaceType, RankFacts DEF Inv
    <2> QED
        BY <2>1 DEF Rank
<1>4. pl["picture"] = ps["picture"]
    BY <1>1, <1>2, <1>3, LoopDone
<1>5. pl["weights"] = ps["weights"]
    BY <1>1, <1>2, <1>3, LoopDone
<1> QED
    BY <1>1, <1>3, <1>4, <1>5 DEF Inv, FilesRead, InputInPlace

\* The network finishes.
LEMMA NetworkDoneInv ==
    ASSUME Inv, NetworkDone
    PROVE  Inv'
<1>1. /\ UNCHANGED <<pc, count, irq0, ps, card, dma, inIrq, regsFit, missed, faults>>
      /\ engine = "running" /\ engine' = "done"
      /\ irqReg' = "NETWORK_ACC_DONE" /\ pending' = TRUE
      /\ pl' = [pl EXCEPT !["trans"] = IF regsFit /\ InputInPlace THEN Whole("trans")
                                                                ELSE Empty("trans")]
    BY DEF NetworkDone, Raise
<1>2. pl = [a \in PlArea |-> pl[a]] /\ \A a \in PlArea : pl[a] \in [1..ChunksOf(a) -> Content]
    BY DEF Inv, Memories, TypeOK
<1>3. pc \in Places /\ ~(Rank(pc) <= 5) /\ ~(Rank(pc) > 6)
    BY <1>1, PlaceType DEF Inv, EngineFollows
<1>4. pc = "poll"
    BY <1>3 DEF Places, Rank
<1>5. /\ pl' = [a \in PlArea |-> pl'[a]]
      /\ \A a \in PlArea : pl'[a] \in [1..ChunksOf(a) -> Content]
      /\ \A a \in PlArea \ {"trans"} : pl'[a] = pl[a]
      /\ regsFit /\ InputInPlace => pl'["trans"] = Whole("trans")
    <2> DEFINE result == IF regsFit /\ InputInPlace THEN Whole("trans") ELSE Empty("trans")
    <2>1. result \in [1..ChunksOf("trans") -> Content]
        BY WholeType, EmptyType DEF PlArea
    <2>2. regsFit /\ InputInPlace => result = Whole("trans")
        OBVIOUS
    <2>3. pl' = [pl EXCEPT !["trans"] = result]
        BY <1>1
    <2> HIDE DEF result
    <2> QED
        BY <1>2, <2>1, <2>2, <2>3 DEF PlArea
<1>6. TypeOK' /\ Memories'
    BY <1>1, <1>5 DEF Inv, TypeOK, Memories
<1>7. CountBounded' /\ OneBurst' /\ FilesRead' /\ CardKept'
    BY <1>1 DEF Inv, CountBounded, OneBurst, FilesRead, CardKept, Without
<1>8. EngineFollows'
    BY <1>1, <1>4 DEF EngineFollows, Rank
<1>9. ChunksMoved'
    <2> SUFFICES ASSUME Without({"slow"}), NEW l \in DOMAIN Loop, NEW j \in 1..Issued(l)
                 PROVE  Moved(l, j)' \/ dma \in BurstOf(l, j)
        BY <1>1 DEF ChunksMoved, Issued, BurstOf, Without
    <2>1. Moved(l, j) \/ dma \in BurstOf(l, j)
        BY DEF Inv, ChunksMoved
    <2>2. Loop[l].toPl => Loop[l].to \in PlArea \ {"trans"}
        BY LoopFacts DEF PlArea
    <2>3. ~Loop[l].toPl => Loop[l].from \in PlArea \ {"trans"}
        <3>1. l # "transBack"
            <4>1. SUFFICES ASSUME l = "transBack" PROVE FALSE
                OBVIOUS
            <4>2. Issued(l) = 0
                BY <1>4, <4>1 DEF Issued, Rank
            <4> QED
                BY <4>2
        <3> QED
            BY <3>1 DEF Loop, PlArea
    <2> QED
        BY <1>1, <1>5, <2>1, <2>2, <2>3 DEF Moved
<1>10. ResultRight'
    <2> SUFFICES ASSUME faults = {}, regsFit
                 PROVE  pl'["trans"] = Whole("trans")
        BY <1>1, <1>4 DEF ResultRight
    <2>1. InputInPlace
        BY <1>4, InputArrives DEF Without, Rank
    <2> QED
        BY <1>5, <2>1
<1> QED
    BY <1>6, <1>7, <1>8, <1>9, <1>10 DEF Inv

-----------------------------------------------------------------------------
(* The theorems.                                                           *)

\* No step of the program, the handler or the device breaks the invariant.
LEMMA NextInv == Inv /\ [Next]_vars => Inv'
<1> SUFFICES ASSUME Inv, [Next]_vars
             PROVE  Inv'
    OBVIOUS
<1>1. CASE SdTest \/ SdTestFileMissing
    BY <1>1, SdTestInv
<1>2. CASE SdWrite
    BY <1>2, SdWriteInv
<1>3. ASSUME NEW at \in DOMAIN Loop, MoveChunk(at) \/ EndLoop(at)
      PROVE  Inv'
    BY <1>3, MoveChunkInv, EndLoopInv
<1>4. CASE IwaveStart \/ Poll \/ Clean
    BY <1>4, NetworkInv
<1>5. CASE HandlerStep
    BY <1>5, HandlerInv
<1>6. CASE DmaEvent
    BY <1>6, DmaEventInv
<1>7. CASE NetworkDone
    BY <1>7, NetworkDoneInv
<1>8. CASE UNCHANGED vars
    BY <1>8, FrameInv
<1> QED
    BY <1>1, <1>2, <1>3, <1>4, <1>5, <1>6, <1>7, <1>8
       DEF Next, ProgramStep, DeviceStep, Halted

\* The invariant holds in every reachable state: the chunks that were handed to the
\* device have arrived, but for the one under way, as long as no burst was late.
THEOREM Safety == Spec => []Inv
<1>1. Init => Inv
    BY InitInv
<1>2. Inv /\ [Next]_vars => Inv'
    BY NextInv
<1> QED
    BY <1>1, <1>2, PTL DEF Spec

\* Every variable keeps its type, whatever number of chunks iwave_initial moves; no
\* chunk is written outside its area.
THEOREM TypeCorrect == Spec => []TypeOK
<1>1. Inv => TypeOK
    BY DEF Inv
<1> QED
    BY <1>1, Safety, PTL

\* iwave_start comes when both loops over the input have moved all of it, for any
\* number of chunks, if the card was read and no burst was late.
THEOREM InputIsThere == Spec => []StartsOnInput
<1>1. Inv => StartsOnInput
    <2> SUFFICES ASSUME Inv, engine # "idle", Without({"mount", "format", "file", "slow"})
                 PROVE  InputInPlace
        BY DEF StartsOnInput
    <2>1. Rank(pc) > 5
        <3>1. Rank(pc) \in Nat /\ ~(Rank(pc) <= 5)
            BY PlaceType, RankFacts DEF Inv, EngineFollows
        <3> QED
            BY <3>1
    <2> QED
        BY <2>1, InputArrives
<1> QED
    BY <1>1, Safety, PTL

\* The copies that main.c compares are equal to what was moved out, for any number of
\* chunks, if no burst was late.
THEOREM ComparisonHolds == Spec => []CopiesAgree
<1>1. Inv => CopiesAgree
    <2> SUFFICES ASSUME Inv, pc \in {"start", "poll", "clean", "transBack", "save", "end"},
                        Without({"slow"})
                 PROVE  ps["pictureCopy"] = ps["picture"] /\ ps["weightsCopy"] = ps["weights"]
        BY DEF CopiesAgree
    <2>1. /\ Rank(pc) > 1 /\ Rank(pc) > 2 /\ Rank(pc) > 3 /\ Rank(pc) > 4
          /\ Rank("pictureOut") = 1 /\ Rank("pictureBack") = 2
          /\ Rank("weightsOut") = 3 /\ Rank("weightsBack") = 4
        BY DEF Rank
    <2>2. /\ Loop["pictureOut"].toPl /\ Loop["pictureOut"].to = "picture"
          /\ Loop["pictureOut"].from = "picture" /\ "pictureOut" \in DOMAIN Loop
          /\ ~Loop["pictureBack"].toPl /\ Loop["pictureBack"].to = "pictureCopy"
          /\ Loop["pictureBack"].from = "picture" /\ "pictureBack" \in DOMAIN Loop
          /\ Loop["weightsOut"].toPl /\ Loop["weightsOut"].to = "weights"
          /\ Loop["weightsOut"].from = "weights" /\ "weightsOut" \in DOMAIN Loop
          /\ ~Loop["weightsBack"].toPl /\ Loop["weightsBack"].to = "weightsCopy"
          /\ Loop["weightsBack"].from = "weights" /\ "weightsBack" \in DOMAIN Loop
        BY DEF Loop
    <2>3. pl["picture"] = ps["picture"] /\ ps["pictureCopy"] = pl["picture"]
        BY <2>1, <2>2, LoopDone
    <2>4. pl["weights"] = ps["weights"] /\ ps["weightsCopy"] = pl["weights"]
        BY <2>1, <2>2, LoopDone
    <2> QED
        BY <2>3, <2>4
<1> QED
    BY <1>1, Safety, PTL

\* Without a fault sd_write saves the result of the network, if its registers held the
\* right values; the input files survive unless the card was formatted.
THEOREM ResultIsSaved == Spec => []SavedIsResult
<1>1. Inv => SavedIsResult
    BY DEF Inv, SavedIsResult, ResultRight, CardKept
<1> QED
    BY <1>1, Safety, PTL
=============================================================================

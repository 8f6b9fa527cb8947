SPECIFICATION Spec
CONSTANTS
    Process = {p1, p2}
    Addr = {a1, a2}
    Block = {b1, b2, b3}
    None = None
    Struct = {s1, s2, s3}
    Failures = {"devmem", "mask", "node", "irq", "class", "device", "kmalloc", "dma", "remap", "early", "spurious", "race"}
    MaxFailures = 3
    MaxOpens = 3
INVARIANTS TypeOK ListIsExact MemoryIsReturned TransferHitsOwn OnlyKnownMisuse
SYMMETRY Symmetry
CHECK_DEADLOCK FALSE

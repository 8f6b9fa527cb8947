----------------------------- MODULE MCAxiDevice -----------------------------
(* AxiDevice for TLC: processes, addresses and pieces of memory are alike.  *)
EXTENDS AxiDevice, TLC

Symmetry ==
    Permutations(Process) \cup Permutations(Addr) \cup Permutations(Block)
        \cup Permutations(Struct)
=============================================================================

----------------------------- MODULE SlaveOpen -----------------------------
(***************************************************************************)
(* The slave alone.  Its master may be any program: it sends control       *)
(* frames of any kind and data frames in any order.  It reads what has     *)
(* been answered, and writes when the slave has read what it could: the    *)
(* slave reads one thing after the other, so earlier is no different.      *)
(***************************************************************************)
EXTENDS Slave

CONSTANTS
    AnyFrame     \* the frames the slave's environment may send

\* n_file and n_frame are unsigned; what a data frame carries may be anything,
\* or nothing at all (Hollow).
ASSUME AnyFrameAssumption ==
    \A frame \in AnyFrame :
        \/ frame.kind = "ctl" /\ frame.file \in Nat /\ frame.n \in 0..(NFrameMod - 1)
        \/ frame.kind = "data" /\ frame.body # Empty

openVars == <<lineVars, slaveVars>>

OpenInit == LineInit /\ SlaveInit

\* Somebody writes a frame to the line.
EnvSend ==
    /\ down = <<>>
    /\ \/ sPc = "wait" /\ Len(up) < CtlUnits
       \/ sPc = "data" /\ ~BufferFull(up, sReq.n)
    /\ \E frame \in AnyFrame : Fits(up, frame) /\ up' = up \o Units(frame)
    /\ UNCHANGED <<down, faults, slaveVars>>

\* Somebody reads the line.
EnvRead ==
    /\ down' = <<>>
    /\ UNCHANGED <<up, faults, slaveVars>>

OpenNext ==
    \/ SlaveStep
    \/ LineStep /\ UNCHANGED slaveVars
    \/ EnvSend
    \/ EnvRead

OpenSpec == OpenInit /\ [][OpenNext]_openVars
=============================================================================

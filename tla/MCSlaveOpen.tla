---------------------------- MODULE MCSlaveOpen ----------------------------
(* Values of the constants of SlaveOpen for TLC.                           *)
EXTENDS SlaveOpen

CONSTANTS p1

\* pictures of 0, 1 and 2 frames for file 0, requests for a file out of range,
\* an unknown type, a frame of another slave, and data frames with and without
\* data
Anything ==
    {Ctl("master", "SEND", 0, n, "NONE") : n \in 0..2}
    \cup {Ctl("master", type, FileMax, 1, "NONE") : type \in {"SEND", "RECV"}}
    \cup {Ctl("master", "QUERY", 0, 1, "NONE"),
          Ctl("master", "RECV", 0, 1, "NONE"),
          Ctl("master", "OTHER", 0, 1, "NONE"),
          Ctl("slave", "QUERY", 0, 1, "UNRECEIVED"),
          Data(<<p1, 1>>), Data(<<p1, 2>>), Data(Hollow)}
=============================================================================

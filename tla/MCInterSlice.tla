---------------------------- MODULE MCInterSlice -----------------------------
(***************************************************************************)
(* A link of 16 units, of which the slices have 5, 2 and 3 and 5 are spare;   *)
(* steps of two units.  MTC and TMP have the same priority, HTC the highest.  *)
(***************************************************************************)
EXTENDS InterSlice

PerSlice(htc, mtc, tmp) ==
    [s \in Slice |-> CASE s = "HTC" -> htc [] s = "MTC" -> mtc [] s = "TMP" -> tmp]

MCQuota      == PerSlice(32, 13, 19)
MCPriority   == PerSlice(2, 1, 1)
\* Three slices that share the link under load; two that share it, while TMP
\* keeps its quota to itself, in each mode and with reservations.
MCSetting == {"load", "NONE", "SHAR", "STAT", "DYNA"}
MCMode    == [c \in MCSetting |-> IF c = "load" THEN "DYNA" ELSE c]
MCSharing == [c \in MCSetting |-> IF c = "load" THEN <<"MTC", "TMP", "HTC">>
                                                ELSE <<"MTC", "HTC">>]

\* Long-term throughputs whose sum the link can carry; all idle or two busy.
MCUse == [c \in MCSetting |->
             IF c = "load"
             THEN {u \in [Slice -> {0, 3, 5, 7, 12}] : u["HTC"] + u["MTC"] + u["TMP"] <= 16}
             ELSE {PerSlice(0, 0, 0), PerSlice(12, 0, 4)}]
MCGbr == [c \in MCSetting |-> IF c = "load" THEN {} ELSE {1, 2}]
=============================================================================

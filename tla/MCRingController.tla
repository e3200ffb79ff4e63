-------------------------- MODULE MCRingController ---------------------------
(***************************************************************************)
(* Small instances of RingController.  The ring has four switches; the P-GW  *)
(* of every slice is at switch 0, the S-GW at switch 2, so that the S5 and   *)
(* S1-U paths of one bearer overlap in either direction.                     *)
(***************************************************************************)
EXTENDS RingController

PerSlice(htc, mtc, tmp) ==
    [s \in Slice |-> CASE s = "HTC" -> htc [] s = "MTC" -> mtc [] s = "TMP" -> tmp]

MCUe         == {"u1", "u2"}
MCEnb        == {"e1", "e2", "e3"}
\* Two eNBs share switch 1; the third is at switch 2, local to the S-GW.
MCEnbSw      == [e \in MCEnb |-> IF e = "e3" THEN 2 ELSE 1]
\* The eNBs of the SPF runs: at switches 1 and 3.
MCEnbTwo     == {"e1", "e3"}
MCEnbSwTwo   == [e \in MCEnbTwo |-> IF e = "e3" THEN 3 ELSE 1]

MCPgwSw      == PerSlice(0, 0, 0)
MCSgwSw      == PerSlice(2, 2, 2)

MCBearer      == 1 .. 3
MCBearerUe    == [b \in MCBearer |-> IF b = 3 THEN "u2" ELSE "u1"]
\* In the SPF run with loads, one UE has them all.
MCUeOne       == {"u1"}
MCBearerUeOne == [b \in MCBearer |-> "u1"]
MCBearerSlice == [b \in MCBearer |-> IF b = 2 THEN "HTC" ELSE "MTC"]
MCGbrBearer   == MCBearer
MCGbrDl       == [b \in MCBearer |-> 1]
MCGbrUlSym    == [b \in MCBearer |-> 1]
\* MTC auto-pilot bearers ask for more uplink than downlink.
MCGbrUlAsym   == [b \in MCBearer |-> 2]

MCQuo        == PerSlice(2, 4, 2)
MCQuoSmall   == PerSlice(2, 3, 2)
MCQuoTight   == PerSlice(2, 2, 2)
MCThs        == PerSlice(100, 100, 100)
MCThs75      == PerSlice(75, 75, 75)

MCAggOff     == PerSlice("OFF", "OFF", "OFF")
MCAggMixed   == PerSlice("ON", "AUTO", "OFF")

Idle         == [cpu |-> {}, tab |-> {}, gw |-> {}]
MCLoadsIdle  == {Idle}
MCLoadsBusy  == {Idle, [Idle EXCEPT !.cpu = {1}],
                 [Idle EXCEPT !.tab = {3}, !.gw = {"PGWTABLE"}]}

NoExtra      == [q \in Port |-> [s \in Slice |-> 0]]
MCExtNone    == {NoExtra}
MCExtTwo     == {NoExtra, [q \in Port |-> [s \in Slice |-> 2]]}
==============================================================================

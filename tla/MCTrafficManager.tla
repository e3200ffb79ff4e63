--------------------------- MODULE MCTrafficManager ---------------------------
(***************************************************************************)
(* A call over UDP with a dedicated bearer and a download over TCP; ticks of  *)
(* one second.                                                               *)
(***************************************************************************)
EXTENDS TrafficManager

MCApp    == {"call", "page"}
MCUdp    == {"call"}
MCBoth   == {"call", "page"}
MCTries  == {2, 8, 10}
==============================================================================

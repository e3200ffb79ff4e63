---------------------------- MODULE MCHttpTraffic ----------------------------
(***************************************************************************)
(* One client, of pages or of video, with objects of up to two units and pages *)
(* of up to two inline objects; two clients of pages, with smaller ones.       *)
(***************************************************************************)
EXTENDS HttpTraffic

MCClient  == {"c1", "c2"}
MCKind    == [s \in Setting |-> IF s = "video" THEN s ELSE "page"]
MCClients == [s \in Setting |-> IF s = "pages" THEN MCClient ELSE {"c1"}]
MCSizes   == [s \in Setting |-> IF s = "pages" THEN {1} ELSE {0, 1, 2}]
MCObjects == [s \in Setting |-> IF s = "pages" THEN {0, 1} ELSE {0, 1, 2}]
==============================================================================

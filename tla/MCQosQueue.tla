------------------------------ MODULE MCQosQueue ------------------------------
(***************************************************************************)
(* The three queues of the code with their weights; the internal queues hold   *)
(* three packets instead of 100.                                             *)
(***************************************************************************)
EXTENDS QosQueue

MCWeight == <<4, 1>>
==============================================================================

---------------------------- MODULE MCTftBalancing ----------------------------
(***************************************************************************)
(* Two UEs, whose addresses part at the second level, each with a default and  *)
(* a dedicated bearer; a table for five rules: four make the split, one each   *)
(* the join.                                                                 *)
(***************************************************************************)
EXTENDS TftBalancing

MCBearer  == {"default1", "default2", "call1", "call2"}
MCDefault == {"default1", "default2"}
MCAddr    == [b \in MCBearer |-> IF b \in {"default1", "call1"} THEN 1 ELSE 3]
==============================================================================

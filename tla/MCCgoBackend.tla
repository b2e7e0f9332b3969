---------------------------- MODULE MCCgoBackend ----------------------------
(***************************************************************************)
(* Instances of CgoBackend for TLC, for prompts of 3 tokens and contexts   *)
(* rounded up to multiples of 4.  "small" asks for a context of 3, which   *)
(* also limits its batch of 5: the prompt just fits a batch, and the 4     *)
(* cells are full after one more token.  "wide" has the default context of *)
(* 3 and the default batch of 2: the prompt aborts.                        *)
(***************************************************************************)
EXTENDS CgoBackend

MCModels == {"small", "wide"}
MCCtxOption == [m \in MCModels |-> IF m = "small" THEN 3 ELSE 0]
MCBatchOption == [m \in MCModels |-> IF m = "small" THEN 5 ELSE 0]
OneModel == {"small"}
OneCtxOption == [m \in OneModel |-> 3]
OneBatchOption == [m \in OneModel |-> 5]
=============================================================================

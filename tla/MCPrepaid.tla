----------------------------- MODULE MCPrepaid -----------------------------
(* Instances of Prepaid for TLC.                                           *)
EXTENDS Prepaid, TLC

Weights == "conversation" :> 2 @@ "operator" :> 1
=============================================================================

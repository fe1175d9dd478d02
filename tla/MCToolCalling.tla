--------------------------- MODULE MCToolCalling ---------------------------
(* An instance of ToolCalling: a tool of each kind and a name that is not  *)
(* in the tool map.                                                        *)
EXTENDS ToolCalling

MCToolType == [add |-> "nonstreaming", counter |-> "streaming"]
=============================================================================

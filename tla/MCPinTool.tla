----------------------------- MODULE MCPinTool -----------------------------
(***************************************************************************)
(* PinTool on small instances.                                             *)
(***************************************************************************)
EXTENDS PinTool, MCCacheSystem

(* testpin.cpp: two ints that share a cache word, the first approximable.  *)
IntAddrs == {0, 4}
FirstInt == {<<0, 4>>}

PinView == <<ProtocolView, toolVars>>
=============================================================================

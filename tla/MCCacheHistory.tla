--------------------------- MODULE MCCacheHistory ---------------------------
(***************************************************************************)
(* CacheHistory on a small instance.                                       *)
(***************************************************************************)
EXTENDS CacheHistory, MCCacheSystem

HistoryView == <<ProtocolView, written>>
=============================================================================

--------------------------- MODULE MCCacheVolume ---------------------------
(* Instances of CacheVolume for TLC. *)
EXTENDS CacheVolume, TLC
=============================================================================

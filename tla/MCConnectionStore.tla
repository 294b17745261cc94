------------------------- MODULE MCConnectionStore -------------------------
(* Instances of ConnectionStore for TLC: every bundle of up to two texts.  *)
EXTENDS ConnectionStore

ShortBundles == BoundedSeq(String \cup BadString, 2)
=============================================================================

--------------------------- MODULE MCCacheWarming ---------------------------
(* Small instances of CacheWarming for TLC. *)
EXTENDS CacheWarming, TLC

KeySymmetry == Permutations(Keys)

=============================================================================

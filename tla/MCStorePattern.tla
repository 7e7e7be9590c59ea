--------------------------- MODULE MCStorePattern ---------------------------
(* Every key and every pattern up to a length.                             *)
EXTENDS StorePattern, SequencesExt

CONSTANTS MaxKey, MaxPattern

MCKeys     == BoundedSeq(Chars \cup {Slash}, MaxKey)
MCPatterns == BoundedSeq(Chars \cup {Slash, Token}, MaxPattern)
=============================================================================

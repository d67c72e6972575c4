--------------------------- MODULE MCTemporalMap ---------------------------
EXTENDS TemporalMap, TLC

CONSTANTS s1, s2, k1, k2, k3

MCGenesisKey == s1 :> k1 @@ s2 :> k2
=============================================================================

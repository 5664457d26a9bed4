------------------------- MODULE MCMessageHandlers --------------------------
(* Two classes, two baselines for each, two string tables, one entity.     *)
EXTENDS MessageHandlers, TLC

CONSTANTS c1, c2, d1, d2

MCClass == {c1, c2}
MCData == {d1, d2}
MCEntityIndex == {1}
MCSymmetry == Permutations(MCClass) \cup Permutations(MCData)
=============================================================================

--------------------------- MODULE MCRaidContent ----------------------------
(* Small instances of RaidContent for TLC.                                 *)
EXTENDS RaidContentInv, TLC

MCSectors == [d \in Devices |-> 3]

CONSTANTS a, b
MCNames == {a, b, NoName}

\* The devices have one size and the names are only compared.
MCSymmetry == Permutations(Devices) \cup Permutations({a, b})
=============================================================================

------------------------------ MODULE MCRaidFS ------------------------------
(* Small instances of RaidFS for TLC.                                      *)
EXTENDS RaidFSInv

MCSectors == [d \in Devices |-> 3]

\* Files of two names are told apart only by their names.
CONSTANTS a, b, c
MCNames == {a, b, NoName}
MCNames1 == {a, NoName}
MCNames3 == {a, b, c, NoName}
=============================================================================

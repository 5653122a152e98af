------------------------------ MODULE MCRaidIO ------------------------------
(* Small instances of RaidIO for TLC.                                      *)
EXTENDS RaidIOInv, TLC

File(start, whole, rest) == [startBlock |-> start, whole |-> whole, rest |-> rest]

\* Three disks, super-sectors of two blocks: a file of three turns of the loop that
\* begins and ends inside super-sectors, one of whole ones, one shorter than a sector,
\* and one of more blocks than the parameter counts, most of them beyond the disks.
MCFiles == {File(7, 13, TRUE), File(22, 4, FALSE), File(27, 0, TRUE),
            File(28, 16, TRUE)}

\* Disks of different sizes, and disks of one size.
MCUneven == (0 :> 14) @@ (1 :> 12) @@ (2 :> 11)
MCEven == [d \in Disks |-> 10]

\* Two disks: a file at the very end of the raid.
MCLastFile == {File(16, 4, FALSE)}
=============================================================================

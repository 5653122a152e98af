------------------------------ MODULE Striping ------------------------------
(***************************************************************************)
(* How a block of the raid is placed on the disks: the super_* functions   *)
(* of fs.c.  The raid is cut into super-sectors of SUPERSECTORNUM blocks,  *)
(* dealt to the disks in turn; one super-sector is kept free at the        *)
(* beginning of every disk, whose sector 0 holds the metadata.             *)
(***************************************************************************)
EXTENDS Integers

CONSTANT SUPERSECTORNUM   \* blocks of a super-sector (256 in fs.h)

ASSUME SuperSectorAssumption == SUPERSECTORNUM \in Nat \ {0}

super_getid(lba) == lba \div SUPERSECTORNUM

super_getdisk(n, lba) == super_getid(lba) % n

\* Mutant: the super-sectors that precede on the same disk are forgotten.
super_getdisklbaFlat(n, lba) ==
    (lba - super_getid(lba) * SUPERSECTORNUM) + SUPERSECTORNUM

super_getdisklba(n, lba) ==
    (lba - (super_getid(lba) - super_getid(lba) \div n) * SUPERSECTORNUM)
      + SUPERSECTORNUM

\* The sector of a disk that holds block lba of a raid of n disks.
Location(n, lba) == <<super_getdisk(n, lba), super_getdisklba(n, lba)>>
=============================================================================

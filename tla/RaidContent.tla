---------------------------- MODULE RaidContent -----------------------------
(***************************************************************************)
(* The metadata and the content of the raid together.  cp enters a file in *)
(* the tables of all the disks before it copies a block of it (cp.c:203,   *)
(* 206), so that a process that is killed leaves files whose blocks hold   *)
(* what was there before; and the sector a block is in depends on where    *)
(* this process, and the one before it, put the disks in the array.        *)
(*                                                                         *)
(* RaidFS has the steps of the metadata.  The copying is what RaidIO was   *)
(* shown to implement, the Put of BlockStore: blocks of the file reach     *)
(* their sectors in any order, and nothing else is written.                *)
(***************************************************************************)
EXTENDS RaidFS

CONSTANTS
    NoCopy,      \* no file is being copied
    NoData,      \* what a sector holds that was never written
    MaxCopies    \* bound: copies of a behaviour

ASSUME ContentAssumption ==
    /\ MaxCopies \in Nat
    /\ "pcap" \notin Tools     \* the content of captures is in Spcap

VARIABLES
    content,    \* what the sectors of the devices hold, sector 0 apart
    copy,       \* the copy that runs: its number, its file, the blocks left
    copies,     \* copies begun so far
    versions    \* history: the copies that the blocks of a name may be of

content_vars == <<content, copy, copies, versions>>

\* The sectors of the devices that are not the metadata.
ContentSectors == UNION {{d} \X (1 .. Sectors[d] - 1) : d \in Devices}

\* In versions: no copy of this file has come to its end yet.
Unwritten == 0

\* The sector where this process looks for block lba of the raid.
Place(lba) == <<ns[super_getdisk(numdisks, lba)], super_getdisklba(numdisks, lba)>>

ContentInit ==
    /\ Init
    /\ content = [p \in ContentSectors |-> NoData]
    /\ copy = NoCopy
    /\ copies = 0
    /\ versions = [n \in Names |-> {Unwritten}]

-----------------------------------------------------------------------------
\* cp --to-raid has found the entry of n, or has made one, and saves it.
beginCopy(n, length) ==
    /\ copies < MaxCopies
    /\ tool = "cp"
    /\ \/ cpOverwrites(n, length) /\ UNCHANGED versions
       \/ cpAdds(n, length) /\ versions' = [versions EXCEPT ![n] = {Unwritten}]
    /\ pc' = "update"
    /\ \E s \in Attached \X FileIdx :
         LET e == msector'[s[1]].content[s[2]]
         IN  /\ e.name = n
             /\ copy' = [id |-> copies + 1, name |-> n, first |-> e.startBlock,
                         left |-> 0 .. length - 1]
    /\ copies' = copies + 1
    /\ UNCHANGED content

\* Mutant: the blocks are written before the tables are.
putBeforeUpdate(b) ==
    /\ pc \in {"update", "exit"} /\ copy # NoCopy
    /\ b \in copy.left
    /\ Place(copy.first + b) \in ContentSectors
    /\ content' = [content EXCEPT ![Place(copy.first + b)] = <<copy.id, b>>]
    /\ copy' = [copy EXCEPT !.left = @ \ {b}]
    /\ UNCHANGED <<vars, copies, versions>>

\* What the process has in memory is on all the disks.
Saved == \A i \in Attached : media[ns[i]] = msector[i]

\* Block b of the file reaches its sector, if there is one.  The copies before this
\* one are forgotten with its last block, if the tables with its length are saved.
put(b) ==
    /\ pc = "exit" /\ copy # NoCopy
    /\ b \in copy.left
    /\ Place(copy.first + b) \in ContentSectors
    /\ content' = [content EXCEPT ![Place(copy.first + b)] = <<copy.id, b>>]
    /\ copy' = [copy EXCEPT !.left = @ \ {b}]
    /\ versions' = [versions EXCEPT ![copy.name] =
                      IF copy.left = {b} /\ Saved THEN {copy.id} ELSE @ \cup {copy.id}]
    /\ UNCHANGED <<vars, copies>>

\* A step of the metadata that begins no copy, and the end of a process: main
\* returns, with blocks unwritten if transfers failed or were not awaited
\* (cp.c:223), or the process is killed.  The files that a format has not come to
\* when it is killed may be in other places when the disks are numbered again:
\* nothing is said of what they hold.
metaStep ==
    /\ \/ Step /\ ~(pc = "run" /\ tool = "cp" /\ pc' = "update")
       \/ Crash
       \/ \E t \in Tools : Launch(t)
    /\ copy' = IF pc' = "off" THEN NoCopy ELSE copy
    /\ versions' = IF tool = "format" /\ media' # media THEN [n \in Names |-> {Unwritten}]
                                                        ELSE versions
    /\ UNCHANGED <<content, copies>>

ContentNext ==
    \/ \E n \in Names, length \in Sizes : beginCopy(n, length)
    \/ copy # NoCopy /\ \E b \in copy.left : put(b)
    \/ metaStep

ContentSpec == ContentInit /\ [][ContentNext]_<<vars, content_vars>>
-----------------------------------------------------------------------------
(* Properties.                                                             *)

\* What a cp out of the raid reads (cp.c:248-274) in whatever order the disks
\* were attached: block b of a file is block b of the last copy of it that came
\* to its end, or of a copy after it that was killed on the way or not saved; never
\* a block of another file, of another place in the file or of a file that was removed.
ReadsBack ==
    pc = "run" /\ Numbered =>
      \A s \in Attached \X FileIdx :
        LET e == Entry(s)
        IN  e.name # NoName /\ Unwritten \notin versions[e.name] =>
              \A b \in 0 .. e.endBlock - e.startBlock - 1 :
                content[Place(e.startBlock + b)] \in versions[e.name] \X {b}

\* A block is only written when the tables on the disks give it to the file that
\* is copied (cp.c:203 and 206 come before 223 and 227): killed at any moment, a
\* copy has touched no block that the next process may give to another file.
TablesBeforeContent ==
    [][\A p \in ContentSectors : content'[p] # content[p] =>
         \E c \in LiveCells :
           /\ OnMedia(c).name = copy.name
           /\ \E lba \in OnMedia(c).startBlock .. OnMedia(c).endBlock - 1 :
                Place(lba) = p]_<<vars, content_vars>>
=============================================================================

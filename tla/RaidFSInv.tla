----------------------------- MODULE RaidFSInv ------------------------------
(***************************************************************************)
(* The inductive invariant behind MediaDisjoint and MediaNamesUnique.  It  *)
(* holds when every disk is present and is read without error; sectors may *)
(* fail to be written and the process may be killed anywhere.              *)
(***************************************************************************)
EXTENDS RaidFS

Mem(i, j) == msector[i].content[j]
Med(d, j) == media[d].content[j]

IsFree(f) == f.name = NoName /\ f.startBlock = 0 /\ f.endBlock = 0

\* Two entries that may stand beside each other.
Compatible(f, g) ==
    /\ Disjoint(f, g)
    /\ f.name # NoName => f.name # g.name

\* Where the loops return to.
PlaceOK ==
    /\ pc = "format" => ret \in {"create", "sort"}
    /\ pc = "update" => ret \in {"run", "pcap", "exit"}
    /\ pc \notin {"format", "update"} => ret = "off"
    /\ ret = "run" => tool = "rm"

NsOK == /\ \A i \in Attached : ns[i] \in Devices
        /\ \A i, k \in Attached : ns[i] = ns[k] => i = k

AttachedOK == pc \notin {"off", "probe"} => AllAttached

\* A sector that was never written has no file.
BlankOK == \A d \in Devices : ~media[d].MAGIC => \A j \in FileIdx : IsFree(Med(d, j))

MediaOK == \A d, e \in Devices, j, l \in FileIdx :
             <<d, j>> # <<e, l>> => Compatible(Med(d, j), Med(e, l))

\* What is in memory may be written over any part of what is on the disks.
MemoryOK ==
    pc \in {"sort", "run", "update", "pcap"} =>
      \A i, k \in Attached, j, l \in FileIdx :
        <<i, j>> # <<k, l>> => /\ Compatible(Mem(i, j), Mem(k, l))
                               /\ Compatible(Mem(i, j), Med(ns[k], l))

\* A table that may be written has the magic number.
MagicOK ==
    pc \in {"sort", "run", "update", "pcap"} =>
      \A i \in Attached : msector[i].MAGIC

\* cp works on what is on the disks.
SyncOK ==
    pc = "sort" \/ (pc = "run" /\ tool # "rm") =>
      \A i \in Attached, j \in FileIdx : Mem(i, j) = Med(ns[i], j)

\* createRaid formats disks without files.
FormatOK ==
    pc = "format" /\ ret = "sort" =>
      \A i \in Attached :
        /\ \A j \in FileIdx : IsFree(Med(ns[i], j))
        /\ i < widx => msector[i].MAGIC /\ \A j \in FileIdx : IsFree(Mem(i, j))

\* The pcap file that is being written is to the right of all the others.
CurOK ==
    pc = "pcap" \/ (pc = "update" /\ ret = "pcap") =>
      /\ cur \in Attached \X FileIdx
      /\ \A i \in Attached, j \in FileIdx :
           <<i, j>> # cur => /\ Mem(i, j).endBlock <= Entry(cur).startBlock
                             /\ Med(ns[i], j).endBlock <= Entry(cur).startBlock

\* The tables of fs.c stay such that any part of memory can go over the disks.
IInv ==
    /\ TypeOK
    /\ PlaceOK
    /\ NsOK
    /\ AttachedOK
    /\ BlankOK
    /\ MediaOK
    /\ MemoryOK
    /\ MagicOK
    /\ SyncOK
    /\ FormatOK
    /\ CurOK
-----------------------------------------------------------------------------
(* What a step may do to the disks.                                        *)

\* rm only empties entries: what it has not saved yet is free in memory.
RmOK ==
    tool = "rm" =>
      /\ pc # "pcap"
      /\ pc = "update" => ret = "run"
      /\ pc \in {"run", "update"} =>
           \A i \in Attached, j \in FileIdx :
             Mem(i, j) = Med(ns[i], j) \/ Mem(i, j).name = NoName

\* s is the only entry that memory and disks may differ in, and saving it adds a
\* file to the right of all the others or gives a file another end.
ChangeAt(s) ==
    /\ \A i \in Attached, j \in FileIdx : <<i, j>> # s => Mem(i, j) = Med(ns[i], j)
    /\ Mem(s[1], s[2]).startBlock <= Mem(s[1], s[2]).endBlock
    /\ LET old == Med(ns[s[1]], s[2])
       IN  \/ /\ old.name = Mem(s[1], s[2]).name
              /\ old.startBlock = Mem(s[1], s[2]).startBlock
           \/ /\ old.name = NoName
              /\ \A i \in Attached, j \in FileIdx :
                   <<i, j>> # s => Mem(i, j).endBlock <= Mem(s[1], s[2]).startBlock

\* cp changes one entry before it saves the tables.
ChangeOK ==
    /\ pc = "pcap" \/ (pc = "update" /\ ret = "pcap") =>
         cur \in Attached \X FileIdx /\ ChangeAt(cur)
    /\ pc = "update" /\ ret = "exit" => \E s \in Attached \X FileIdx : ChangeAt(s)

\* Disks with files are formatted by the tool format and by nothing else.
FormatToolOK == pc = "format" /\ ret = "create" => tool = "format"

\* What the steps that write a sector need besides IInv.
StepInv == RmOK /\ ChangeOK /\ FormatToolOK

\* Everything the safety of the file system rests on (fs.c:46-210): any prefix of
\* the writes of updateRaid and formatRaid can be the last thing done, and what
\* is still to be written is one file more, one file changed, or files gone.
RaidInv == IInv /\ StepInv

-----------------------------------------------------------------------------
(* Which disk is which.                                                    *)

N == Cardinality(Devices)

\* What is done is saved, as far as the loop over the disks has come.
SavedOK ==
    /\ pc \in {"sort", "run", "pcap", "exit"} =>
         \A i \in Attached : media[ns[i]] = msector[i]
    /\ pc = "update" \/ (pc = "format" /\ ret = "sort") =>
         \A i \in Attached : i < widx => media[ns[i]] = msector[i]

\* The numbers that formatRaid gives a disk; a format that is killed may leave the
\* numbers of two orders of the disks.
MediaTotals ==
    \A d \in Devices : media[d].MAGIC => /\ media[d].diskId \in 0 .. N - 1
                                         /\ media[d].totalDisks = N

\* The disks in memory are in the order of their numbers, if those on the disks are
\* different, and saving the tables changes no number.
MemoryNumbers ==
    /\ pc \in {"sort", "run", "update", "pcap", "exit"} =>
         /\ \A i \in Attached : /\ msector[i].diskId \in 0 .. N - 1
                                /\ msector[i].totalDisks = N
                                /\ media[ns[i]].MAGIC => media[ns[i]].diskId = msector[i].diskId
         /\ (\A d \in Devices : media[d].MAGIC) \/
            (\A i, k \in Attached : msector[i].diskId = msector[k].diskId => i = k)
    /\ pc \in {"run", "update", "pcap", "exit"} /\ Numbered =>
         \A i \in Attached : msector[i].diskId = i

\* createRaid numbers disks that have no number.
FormatNumbers ==
    pc = "format" =>
      \A i \in Attached :
        /\ i < widx => msector[i].diskId = i /\ msector[i].totalDisks = N
        /\ ret = "sort" => IF i < widx THEN media[ns[i]].MAGIC => media[ns[i]].diskId = i
                                       ELSE ~media[ns[i]].MAGIC

\* Which disk is which.
NumbersOK == MediaTotals /\ MemoryNumbers /\ FormatNumbers

\* The same where no tool is the tool format.
IdsOK ==
    /\ tool # "format" /\ (pc = "format" => ret = "sort")
    /\ NumbersOK /\ Numbered

\* As long as nothing was lost, all the disks have the magic number or none.
NothingLostOK ==
    faults = 0 =>
      /\ \A d \in Devices : media[d].MAGIC => media[d].totalDisks = N
      /\ pc # "format" => \/ \A d \in Devices : media[d].MAGIC
                          \/ \A d \in Devices : ~media[d].MAGIC
      /\ pc = "format" =>
           \A i \in Attached :
             i < widx => /\ media[ns[i]].MAGIC
                         /\ msector[i].MAGIC /\ msector[i].totalDisks = N
      /\ pc \in {"sort", "run", "update", "pcap"} =>
           /\ \A d \in Devices : media[d].MAGIC
           /\ \A i \in Attached : msector[i].MAGIC /\ msector[i].totalDisks = N

-----------------------------------------------------------------------------
(* The count of files.                                                     *)

Congruent(x, y) == (x - y) % Byte = 0

\* The entries that have a file in memory.
MemoryLive == {c \in Cells : \E i \in Attached : ns[i] = c[1] /\ Mem(i, c[2]).name # NoName}

\* The files that were removed or added in memory only.
Stale == (LiveCells \ MemoryLive) \cup (MemoryLive \ LiveCells)

\* updateRaid has still to come to one of them.
Pending == pc = "update" /\ \E c \in Stale, i \in Attached : ns[i] = c[1] /\ i >= widx

\* How far the count on disk i is behind the one in memory after v changes.
Late(v) == IF tool = "rm" THEN v ELSE -v

\* Disk i keeps the count.  In memory it is off by e, as it was when the process
\* began; of the changes since then the count or the entries of some may have
\* missed the disks, of one while updateRaid is on its way and of one for each of
\* the l writes that were lost.
Counts(i, e, l, v) ==
    /\ l - faults <= e /\ e <= faults - l
    /\ Congruent(msector[i].totalFiles, Cardinality(MemoryLive) + e)
    /\ media[ns[i]].MAGIC =>
         Congruent(media[ns[i]].totalFiles, msector[i].totalFiles + Late(v))
    /\ v <= IF pc = "update" /\ widx = 0 THEN l + 1 ELSE l
    /\ Cardinality(Stale) <= IF Pending THEN l + 1 ELSE l

RunDrift ==
    pc \in {"sort", "run", "update", "pcap"} =>
      /\ IF tool = "rm" THEN MemoryLive \subseteq LiveCells ELSE LiveCells \subseteq MemoryLive
      /\ \A i \in Attached : msector[i].diskId = 0 =>
           \E e \in -faults .. faults, l \in 0 .. faults, v \in 0 .. faults + 1 :
             Counts(i, e, l, v)

\* createRaid numbers the disks that have no files.
FormatDrift ==
    pc = "format" =>
      /\ ret = "sort"
      /\ \A i \in Attached : i < widx => msector[i].totalFiles = 0
      /\ \A d \in Devices : media[d].MAGIC => media[d].totalFiles = 0

\* The count on the disks is off by at most k.
DriftAtMost(k) ==
    \A d \in Devices :
      media[d].MAGIC /\ media[d].diskId = 0 =>
        \E e \in -k .. k : Congruent(media[d].totalFiles, Cardinality(LiveCells) + e)

\* How far the count of files is off, on the disks and in memory.
DriftInv ==
    /\ RunDrift
    /\ FormatDrift
    /\ pc \in {"off", "probe", "create", "exit"} => DriftAtMost(faults)

-----------------------------------------------------------------------------
(* The size of the raid.                                                   *)

AttachedSectors == UNION {{ns[i]} \X (1 .. Sectors[ns[i]]) : i \in Attached}

\* The sectors of the attached disks are counted in totalBlocks.
BlocksOK ==
    /\ IsFiniteSet(AttachedSectors)
    /\ totalBlocks = Cardinality(AttachedSectors)
    /\ numdisks * SUPERSECTORNUM <= totalBlocks

\* Every file, in memory and on the disks, ends inside the raid.
EndsOK ==
    /\ tool # "pcap" /\ pc # "pcap" /\ ret # "pcap"
    /\ \A i \in Idx, j \in FileIdx : Mem(i, j).endBlock <= TotalSectors
    /\ \A d \in Devices, j \in FileIdx : Med(d, j).endBlock <= TotalSectors
=============================================================================

--------------------------- MODULE RaidContentInv ----------------------------
(***************************************************************************)
(* The inductive invariant behind ReadsBack and TablesBeforeContent: the   *)
(* tables, what they say of the sectors, and the copy that is on its way.  *)
(* The invariants of the tables, RaidInv and the one of RaidFSInv on which *)
(* disk is which, are parts of it, since every step of RaidContent is one  *)
(* of RaidFS or leaves its variables alone.                                *)
(***************************************************************************)
EXTENDS RaidContent, RaidFSInv

AllMagic == \A d \in Devices : media[d].MAGIC

\* Files are read back from disks that all have metadata and different numbers.
Whole == AllMagic /\ Numbered

\* The sectors that are block lba of the raid by the numbers on the disks, in
\* whatever order a process attaches them.
Home(lba) == {p \in ContentSectors :
                /\ media[p[1]].diskId = super_getdisk(N, lba)
                /\ p[2] = super_getdisklba(N, lba)}

Length(e) == e.endBlock - e.startBlock

\* Some copy of this file was finished.
Promised(e) == e.name # NoName /\ Unwritten \notin versions[e.name]

\* A free entry is empty; a file that some copy has finished can be read.
Good(e) ==
    /\ e.name = NoName => Length(e) = 0
    /\ Promised(e) =>
         \A b \in 0 .. Length(e) - 1 : \E p \in Home(e.startBlock + b) :
           content[p] \in versions[e.name] \X {b}

EmptyOK ==
    /\ \A d \in Devices, j \in FileIdx : Med(d, j).name = NoName => Length(Med(d, j)) = 0
    /\ pc \in {"run", "update"} =>
         \A i \in Attached, j \in FileIdx : Mem(i, j).name = NoName => Length(Mem(i, j)) = 0

\* Disks that a process has found without metadata hold no file of a copy that was
\* finished before.
FreshOK ==
    pc \in {"sort", "run", "update"} /\ ~AllMagic =>
      /\ \A d \in Devices, j \in FileIdx : ~Promised(Med(d, j))
      /\ pc = "update" => \A i \in Attached, j \in FileIdx : ~Promised(Mem(i, j))

\* A file can be read back from the disks, and will be when updateRaid returns.
EntriesOK ==
    Whole =>
      /\ \A d \in Devices, j \in FileIdx : Good(Med(d, j))
      /\ pc = "update" => \A i \in Attached, j \in FileIdx : Good(Mem(i, j))

\* No process writes a capture.
NoCapture == tool # "pcap" /\ pc # "pcap" /\ ret # "pcap"

\* The copy is one of the file in entry s, and the blocks that are not left are in
\* their sectors.
CopyOf(s) ==
    /\ Entry(s).name = copy.name
    /\ Entry(s).startBlock = copy.first
    /\ copy.left \subseteq 0 .. Length(Entry(s)) - 1
    /\ Whole => \A b \in (0 .. Length(Entry(s)) - 1) \ copy.left :
                  \E p \in Home(copy.first + b) : content[p] = <<copy.id, b>>

\* What is on the disks, if the tables were not saved as well: the file with another
\* end, or without an entry, and none that its blocks belong to.
CopyApart(s) ==
    \A i \in Attached, j \in FileIdx :
      IF <<i, j>> = s
      THEN \/ Med(ns[i], j).name = NoName
           \/ Med(ns[i], j).name = copy.name /\ Med(ns[i], j).startBlock = copy.first
      ELSE Compatible(Entry(s), Med(ns[i], j))

\* There is a copy from the moment that its file is in the tables in memory.
CopyOK ==
    copy # NoCopy =>
      /\ copy \in [id : Nat, name : Names, first : Nat, left : SUBSET Nat]
      /\ pc \in {"update", "exit"} /\ tool = "cp"
      /\ pc = "update" => ret = "exit"
      /\ pc = "update" => \A s \in Attached \X FileIdx :
                            CopyOf(s) => copy.left = 0 .. Length(Entry(s)) - 1
      /\ \E s \in Attached \X FileIdx : CopyOf(s) /\ CopyApart(s)

ContentType ==
    /\ DOMAIN content = ContentSectors
    /\ versions \in [Names -> SUBSET Nat]
    /\ copies \in Nat

ContentInv ==
    /\ RaidInv
    /\ NumbersOK
    /\ ContentType
    /\ EmptyOK
    /\ FreshOK
    /\ EntriesOK
    /\ NoCapture
    /\ CopyOK
=============================================================================

------------------------------- MODULE RaidFS -------------------------------
(***************************************************************************)
(* The metadata of the NVMe raid (fs.c) and the life of the tools that use *)
(* it: main.c attaches the disks, createRaid reads and orders their        *)
(* metadata sectors, then one of cp, rm, ls and format runs on them.       *)
(*                                                                         *)
(* One process runs at a time.  It may be killed between any two sector    *)
(* writes and what it then leaves on the disks is what the next one finds. *)
(***************************************************************************)
EXTENDS Striping, FiniteSets

CONSTANTS
    Devices,         \* the NVMe namespaces of the machine
    MAXDISKS,        \* entries of nvmeRaid.disk
    MAXFILES,        \* entries of metaSector.content
    Sectors,         \* [Devices -> Nat]: their sizes
    Names,           \* file names as cmpFile tells them apart: 26 characters
    NoName,          \* the empty name, which marks a free entry
    NoDev,           \* an entry of nvmeRaid.disk that no namespace has taken
    Sizes,           \* lengths of the files cp is given, in blocks
    Word,            \* 2^64, the modulus of uint64_t
    Byte,            \* 2^8, the modulus of totalFiles
    Tools,           \* the tools that are run: see AllTools
    MaxArgs,         \* bound: arguments of one rm
    MaxBlock,        \* bound: where the last file of a full raid may start
    MaxFaults,       \* bound: crashes and failed writes of a behaviour
    WriteFaults,     \* whether writing a sector may fail
    ReadFaults,      \* whether reading a sector may fail
    MissingAllowed   \* whether a process may be started with a disk absent

AllTools == {"cp", "pcap", "get", "rm", "ls", "format"}

ASSUME FSAssumption ==
    /\ IsFiniteSet(Devices)
    /\ MAXDISKS \in Nat \ {0}
    /\ MAXFILES \in Nat \ {0}
    /\ Sectors \in [Devices -> Nat]
    /\ NoName \in Names
    /\ NoDev \notin Devices
    /\ Sizes \subseteq Nat
    /\ Word \in Nat \ {0}
    /\ Byte \in Nat \ {0}
    /\ Tools \subseteq AllTools
    /\ MaxArgs \in Nat
    /\ MaxBlock \in Nat
    /\ MaxFaults \in Nat
    /\ WriteFaults \in BOOLEAN
    /\ ReadFaults \in BOOLEAN
    /\ MissingAllowed \in BOOLEAN

VARIABLES
    media,        \* sector 0 of every device
    ns,           \* nvmeRaid.disk[i].ns
    msector,      \* nvmeRaid.disk[i].msector
    numdisks,     \* nvmeRaid.numdisks
    totalBlocks,  \* nvmeRaid.totalBlocks
    numFiles,     \* nvmeRaid.numFiles
    tool,         \* the program that runs
    pc,           \* where it is: see Places
    ret,          \* where the loop of formatRaid or updateRaid returns to
    widx,         \* the index i of that loop
    cur,          \* the entry of the pcap file that is being written
    left,         \* the arguments rm has still to look at
    faults        \* crashes and failed writes so far

media_vars   == <<media>>
raid_vars    == <<ns, msector, numdisks, totalBlocks, numFiles>>
process_vars == <<tool, pc, ret, widx, cur, left>>
vars == <<media, ns, msector, numdisks, totalBlocks, numFiles,
          tool, pc, ret, widx, cur, left, faults>>

-----------------------------------------------------------------------------
(* The data: fs.h.                                                         *)

Idx     == 0 .. MAXDISKS - 1
FileIdx == 0 .. MAXFILES - 1
Slots   == Idx \X FileIdx

metaFile == [name : Names, startBlock : Nat, endBlock : Nat]

metaSector == [MAGIC      : BOOLEAN,         \* MAGIC = MAGICNUMBER
               diskId     : Nat,
               totalDisks : Nat,
               totalFiles : 0 .. Byte - 1,
               content    : [FileIdx -> metaFile]]

FreeEntry == [name |-> NoName, startBlock |-> 0, endBlock |-> 0]

\* A sector that no tool ever wrote.
ZeroSector == [MAGIC |-> FALSE, diskId |-> 0, totalDisks |-> 0, totalFiles |-> 0,
               content |-> [j \in FileIdx |-> FreeEntry]]

initMeta(diskId, totalDisks) ==
    [MAGIC |-> TRUE, diskId |-> diskId, totalDisks |-> totalDisks, totalFiles |-> 0,
     content |-> [j \in FileIdx |-> FreeEntry]]

NoSlot == <<MAXDISKS, MAXFILES>>

Attached == 0 .. numdisks - 1
Places   == {"off", "probe", "format", "create", "sort", "run", "update", "pcap", "exit"}

Entry(s)  == msector[s[1]].content[s[2]]
Before(s, t) == s[1] < t[1] \/ (s[1] = t[1] /\ s[2] < t[2])

\* The entries the loops over the raid visit whose name is n.
Named(n) == {s \in Attached \X FileIdx : Entry(s).name = n}
\* The first of a set of entries, as a set of at most one entry.
First(S) == {s \in S : \A t \in S : s = t \/ Before(s, t)}

\* Mutant: the loop over the disks ends after the first one.
NotFoundOnFirstDisk(n) == \A s \in Named(n) : s[1] # 0

\* The entry findFile returns, and whether it returns NULL.
findFile(n) == First(Named(n))
NotFound(n) == Named(n) = {}

\* Mutant: the entries of the first disk only.
rightFreeBlockOfFirstDisk ==
    LET ends == {numdisks * SUPERSECTORNUM}
                  \cup {Entry(s).endBlock : s \in {0} \X FileIdx}
    IN  {r \in ends : \A e \in ends : e <= r}

\* The one value rightFreeBlock returns, as a set.
rightFreeBlock ==
    LET ends == {numdisks * SUPERSECTORNUM}
                  \cup {Entry(s).endBlock : s \in Attached \X FileIdx}
    IN  {r \in ends : \A e \in ends : e <= r}

\* rightFreeBlocks, given what rightFreeBlock returned.
rightFreeBlocks(right) == (totalBlocks - right) % Word

-----------------------------------------------------------------------------
(* The process and its memory.                                             *)

\* The static variable myRaid of a process that has just been started.
NoDisks   == [i \in Idx |-> NoDev]
NoSectors == [i \in Idx |-> ZeroSector]

Init ==
    /\ media = [d \in Devices |-> ZeroSector]
    /\ ns = NoDisks /\ msector = NoSectors
    /\ numdisks = 0 /\ totalBlocks = 0 /\ numFiles = 0
    /\ tool = "none" /\ pc = "off" /\ ret = "off"
    /\ widx = 0 /\ cur = NoSlot /\ left = 0
    /\ faults = 0

\* The process ends, by a return of main, by exit() or by a signal.
Ends ==
    /\ ns' = NoDisks /\ msector' = NoSectors
    /\ numdisks' = 0 /\ totalBlocks' = 0 /\ numFiles' = 0
    /\ tool' = "none" /\ pc' = "off" /\ ret' = "off"
    /\ widx' = 0 /\ cur' = NoSlot /\ left' = 0

Goto(place) == pc' = place /\ UNCHANGED <<tool, ret, widx, cur, left>>

\* Enter the loop of updateRaid (or of formatRaid) and come back to place.
Call(loop, place) == pc' = loop /\ ret' = place /\ widx' = 0

Launch(t) ==
    /\ pc = "off"
    /\ pc' = "probe"
    /\ tool' = t
    /\ left' \in IF t = "rm" THEN 1 .. MaxArgs ELSE {0}
    /\ UNCHANGED <<media_vars, raid_vars, ret, widx, cur, faults>>

\* attach_cb, for one active namespace of a controller.
register_ns(d) ==
    /\ pc = "probe"
    /\ numdisks < MAXDISKS     \* bound: the code does not check the array
    /\ \A i \in Attached : ns[i] # d
    /\ ns' = [ns EXCEPT ![numdisks] = d]
    /\ totalBlocks' = totalBlocks + Sectors[d]
    /\ numdisks' = numdisks + 1
    /\ UNCHANGED <<media_vars, msector, numFiles, process_vars, faults>>

\* spdk_nvme_probe returns an error and main returns 1.
probeFails ==
    /\ pc = "probe"
    /\ Ends
    /\ UNCHANGED <<media_vars, faults>>

AllAttached == \A d \in Devices : \E i \in Attached : ns[i] = d

\* spdk_nvme_probe returns and app_init runs: only format does something there.
app_init ==
    /\ pc = "probe"
    /\ MissingAllowed \/ AllAttached
    /\ IF tool = "format" THEN Call("format", "create") /\ UNCHANGED <<tool, cur, left>>
                          ELSE Goto("create")
    /\ UNCHANGED <<media_vars, raid_vars, faults>>

-----------------------------------------------------------------------------
(* Writing the metadata: formatRaid and updateRaid.                        *)

\* sio_write_pinit of one sector 0, whose result nobody looks at.
WriteSector(i, sector) ==
    \/ /\ media' = [media EXCEPT ![ns[i]] = sector]
       /\ UNCHANGED faults
    \/ /\ WriteFaults
       /\ faults < MaxFaults
       /\ faults' = faults + 1
       /\ UNCHANGED media

\* Mutant: the sector is written before it is filled.
formatRaidTooEarly ==
    /\ pc = "format"
    /\ widx < numdisks
    /\ WriteSector(widx, msector[widx])
    /\ msector' = [msector EXCEPT ![widx] = initMeta(widx, numdisks)]
    /\ widx' = widx + 1
    /\ UNCHANGED <<ns, numdisks, totalBlocks, numFiles, tool, pc, ret, cur, left>>

formatRaid ==
    /\ pc = "format"
    /\ widx < numdisks
    /\ LET sector == initMeta(widx, numdisks)
       IN  /\ msector' = [msector EXCEPT ![widx] = sector]
           /\ WriteSector(widx, sector)
    /\ widx' = widx + 1
    /\ UNCHANGED <<ns, numdisks, totalBlocks, numFiles, tool, pc, ret, cur, left>>

\* Mutant: the loop index is not moved.
updateRaidSticks ==
    /\ pc = "update"
    /\ widx < numdisks
    /\ WriteSector(widx, msector[widx])
    /\ UNCHANGED <<raid_vars, process_vars>>

\* Mutant: every disk gets the table of the first one.
updateRaidOfFirstDisk ==
    /\ pc = "update"
    /\ widx < numdisks
    /\ WriteSector(widx, msector[0])
    /\ widx' = widx + 1
    /\ UNCHANGED <<raid_vars, tool, pc, ret, cur, left>>

updateRaid ==
    /\ pc = "update"
    /\ widx < numdisks
    /\ WriteSector(widx, msector[widx])
    /\ widx' = widx + 1
    /\ UNCHANGED <<raid_vars, tool, pc, ret, cur, left>>

loopReturns ==
    /\ pc \in {"format", "update"}
    /\ widx = numdisks
    /\ pc' = ret
    /\ ret' = "off"
    /\ widx' = 0
    /\ UNCHANGED <<media_vars, raid_vars, tool, cur, left, faults>>

-----------------------------------------------------------------------------
(* createRaid.                                                             *)

\* Mutant: cnt <= numdisks refuses the raid.
createRaidRefusesAll(sectors) ==
    LET cnt == Cardinality({i \in Attached : sectors[i].MAGIC})
    IN  /\ pc = "create"
        /\ \/ /\ cnt = 0
              /\ msector' = sectors
              /\ Call("format", "sort")
              /\ UNCHANGED <<ns, numdisks, totalBlocks, numFiles, tool, cur, left>>
           \/ /\ cnt > 0
              /\ Ends
        /\ UNCHANGED media_vars

\* The sectors are read into memory; what is done next depends on how many
\* carry the magic number.
createRaid(sectors) ==
    LET cnt == Cardinality({i \in Attached : sectors[i].MAGIC})
        Read == msector' = sectors /\ UNCHANGED <<ns, numdisks, totalBlocks, numFiles>>
    IN  /\ pc = "create"
        /\ \/ /\ cnt = 0
              /\ Read
              /\ Call("format", "sort")
              /\ UNCHANGED <<tool, cur, left>>
           \/ /\ cnt > 0
              /\ cnt < numdisks
              /\ Ends
           \/ /\ cnt > 0
              /\ cnt = numdisks
              /\ Read
              /\ Goto("sort")
        /\ UNCHANGED media_vars

Faithful == [i \in Idx |-> IF i \in Attached THEN media[ns[i]] ELSE msector[i]]

readMeta == createRaid(Faithful) /\ UNCHANGED faults

\* Reading disk i fails: either no memory could be pinned and the sector keeps
\* what it had, or the buffer is copied as it came from the allocator, which is
\* zeroes or the buffer of the disk that was read before.
readMetaFails ==
    /\ ReadFaults
    /\ faults < MaxFaults
    /\ \E i \in Attached :
         \E junk \in {msector[i], ZeroSector}
                       \cup {Faithful[k] : k \in {j \in Attached : j = i - 1}} :
            createRaid([Faithful EXCEPT ![i] = junk])
    /\ faults' = faults + 1

\* Mutant: the disks stay in the order of the probe.
SortingNothing == {[i \in Attached |-> i]}

\* The order in which qsort leaves the disks: p[i] is where disk i was.  The
\* comparison never answers "less", so disks of equal diskId keep their order.
Sorting == {p \in [Attached -> Attached] :
              /\ \A j \in Attached : \E i \in Attached : p[i] = j
              /\ \A i, j \in Attached : i < j =>
                   \/ msector[p[i]].diskId < msector[p[j]].diskId
                   \/ msector[p[i]].diskId = msector[p[j]].diskId /\ p[i] < p[j]}

IntegrityError(sectors) ==
    \E i \in Attached : sectors[i].diskId # i /\ sectors[i].totalDisks # numdisks

sortDisks ==
    /\ pc = "sort"
    /\ \E p \in Sorting :
         LET moved(f) == [i \in Idx |-> IF i \in Attached THEN f[p[i]] ELSE f[i]]
             sectors  == moved(msector)
         IN  \/ /\ IntegrityError(sectors)
                /\ Ends
             \/ /\ ~IntegrityError(sectors)
                /\ msector' = sectors
                /\ ns' = moved(ns)
                /\ numFiles' = sectors[0].totalFiles
                /\ Goto("run")
                /\ UNCHANGED <<numdisks, totalBlocks>>
    /\ UNCHANGED <<media_vars, faults>>

-----------------------------------------------------------------------------
(* addFile and delFile.                                                    *)

\* disk[0].msector.totalFiles and numFiles change together.
Count(m, k) == [m EXCEPT ![0].totalFiles = (@ + k) % Byte]

\* The raid in memory with file f in entry s.
SetEntry(m, s, f) == [m EXCEPT ![s[1]].content[s[2]] = f]

\* Mutant: the test of name[0] is dropped.
FirstSlots == First(Attached \X FileIdx)

FreeSlots == First(Named(NoName))

\* Mutant: no check for space.
CanAddAnySize(n, blsize, right) ==
    /\ NotFound(n)
    /\ msector[0].totalFiles # MAXFILES * numdisks
    /\ n # NoName

\* What addFile asks for before it takes an entry.
CanAdd(n, blsize, right) ==
    /\ NotFound(n)
    /\ msector[0].totalFiles # MAXFILES * numdisks
    /\ rightFreeBlocks(right) >= blsize
    /\ n # NoName

\* addFile takes entry s.  Its return to app_run comes after updateRaid.
addFile(n, blsize, right, s) ==
    /\ CanAdd(n, blsize, right)
    /\ msector' =
         Count(SetEntry(msector, s, [name       |-> n,
                                     startBlock |-> right,
                                     endBlock   |-> right + blsize]), 1)
    /\ numFiles' = numFiles + 1
    /\ UNCHANGED <<ns, numdisks, totalBlocks>>

\* The raid in memory after raid_file->endBlock = raid_file->startBlock + length.
Resize(s, length) ==
    SetEntry(msector, s, [Entry(s) EXCEPT !.endBlock = Entry(s).startBlock + length])

\* Mutant: the count of files is not decremented.
delFileUncounted(s) ==
    /\ msector' = SetEntry(msector, s, FreeEntry)
    /\ UNCHANGED <<ns, numdisks, totalBlocks, numFiles>>

delFile(s) ==
    /\ msector' = Count(SetEntry(msector, s, FreeEntry), -1)
    /\ numFiles' = numFiles - 1
    /\ UNCHANGED <<ns, numdisks, totalBlocks>>

-----------------------------------------------------------------------------
(* app_run of the tools.                                                   *)

\* rm, on its next argument.
rmFile(n) ==
    /\ pc = "run"
    /\ tool = "rm"
    /\ left > 0
    /\ left' = left - 1
    /\ \/ /\ n # NoName
          /\ \E s \in findFile(n) : delFile(s)
          /\ Call("update", "run")
       \/ /\ n = NoName \/ NotFound(n)
          /\ UNCHANGED <<raid_vars, pc, ret, widx>>
    /\ UNCHANGED <<media_vars, tool, cur, faults>>

\* Mutant: no comparison with the size of the file.
cpOverwritesAnySize(n, length) ==
    /\ pc = "run"
    /\ tool = "cp"
    /\ \E s \in findFile(n) :
         msector' = Resize(s, length)
    /\ Call("update", "exit")
    /\ UNCHANGED <<ns, numdisks, totalBlocks, numFiles, tool, cur, left>>
    /\ UNCHANGED <<media_vars, faults>>

\* Mutant: the new length is not saved.
cpOverwritesUnsaved(n, length) ==
    /\ pc = "run"
    /\ tool = "cp"
    /\ \E s \in findFile(n) :
         /\ length <= Entry(s).endBlock - Entry(s).startBlock
         /\ msector' = Resize(s, length)
    /\ Goto("exit")
    /\ UNCHANGED <<ns, numdisks, totalBlocks, numFiles, media_vars, faults>>

\* cp --from-sys f --to-raid n, where f has length blocks and n is in the raid.
cpOverwrites(n, length) ==
    /\ pc = "run"
    /\ tool \in {"cp", "pcap"}
    /\ \E s \in findFile(n) :
         LET tooBig == length > Entry(s).endBlock - Entry(s).startBlock
         IN  \/ /\ tooBig \/ tool = "pcap"
                /\ Goto("exit")
                /\ UNCHANGED raid_vars
             \/ /\ ~tooBig /\ tool = "cp"
                /\ msector' = Resize(s, length)
                /\ Call("update", "exit")
                /\ UNCHANGED <<ns, numdisks, totalBlocks, numFiles, tool, cur, left>>
    /\ UNCHANGED <<media_vars, faults>>

\* The same where n is a new name.
cpAdds(n, length) ==
    /\ pc = "run"
    /\ tool \in {"cp", "pcap"}
    /\ NotFound(n)
    /\ \E right \in rightFreeBlock, s \in FreeSlots :
         /\ right <= MaxBlock
         /\ addFile(n, length, right, s)
         /\ IF tool = "pcap" THEN cur' = s      /\ Call("update", "pcap")
                             ELSE cur' = NoSlot /\ Call("update", "exit")
    /\ UNCHANGED <<media_vars, tool, left, faults>>

\* addFile returns NULL and cp goes on with that pointer.
cpCannotAdd(n, length) ==
    /\ pc = "run"
    /\ tool \in {"cp", "pcap"}
    /\ NotFound(n)
    /\ \A right \in rightFreeBlock : ~CanAdd(n, length, right) \/ FreeSlots = {}
    /\ Ends
    /\ UNCHANGED <<media_vars, faults>>

\* The packets are written: every disk whose buffer is not full to the brim is
\* flushed once and gives the file a super-sector.
freeSpcap ==
    /\ pc = "pcap"
    /\ \E flushed \in 0 .. numdisks :
         msector' = Resize(cur, flushed * SUPERSECTORNUM)
    /\ Call("update", "exit")
    /\ UNCHANGED <<media_vars, ns, numdisks, totalBlocks, numFiles, tool, cur, left, faults>>

\* writePCAP2raid calls exit(1) when libpcap does not open the capture.
pcapNotOpened ==
    /\ pc = "pcap"
    /\ Ends
    /\ UNCHANGED <<media_vars, faults>>

\* The tools that have nothing (more) to write: ls, format, a cp out of the
\* raid, a cp whose source is not there, an rm without arguments left.
runReturns ==
    /\ pc = "run"
    /\ tool = "rm" => left = 0
    /\ Goto("exit")
    /\ UNCHANGED <<media_vars, raid_vars, faults>>

mainReturns ==
    /\ pc = "exit"
    /\ Ends
    /\ UNCHANGED <<media_vars, faults>>

\* The process is killed or the power fails.  The write of a sector is atomic.
Crash ==
    /\ pc # "off"
    /\ faults < MaxFaults
    /\ faults' = faults + 1
    /\ Ends
    /\ UNCHANGED media_vars

-----------------------------------------------------------------------------
\* The steps of a running process.
Step ==
    \/ \E d \in Devices : register_ns(d)
    \/ probeFails
    \/ app_init
    \/ formatRaid
    \/ updateRaid
    \/ loopReturns
    \/ readMeta
    \/ readMetaFails
    \/ sortDisks
    \/ \E n \in Names : rmFile(n)
    \/ \E n \in Names, length \in Sizes :
         cpOverwrites(n, length) \/ cpAdds(n, length) \/ cpCannotAdd(n, length)
    \/ freeSpcap
    \/ pcapNotOpened
    \/ runReturns
    \/ mainReturns

Next == Step \/ Crash \/ \E t \in Tools : Launch(t)

Spec == Init /\ [][Next]_vars

\* A process that runs is scheduled, and the disks answer.
FairSpec == Spec /\ WF_vars(Step)
-----------------------------------------------------------------------------
(* Properties.                                                             *)

\* The variables hold what the C types and the control flow allow.
TypeOK ==
    /\ media \in [Devices -> metaSector]
    /\ ns \in [Idx -> Devices \cup {NoDev}]
    /\ msector \in [Idx -> metaSector]
    /\ numdisks \in 0 .. MAXDISKS
    /\ totalBlocks \in Nat
    /\ numFiles \in Int
    /\ tool \in AllTools \cup {"none"}
    /\ pc \in Places
    /\ ret \in Places
    /\ widx \in 0 .. MAXDISKS
    /\ cur \in Slots \cup {NoSlot}
    /\ left \in Nat
    /\ faults \in Nat

Cells == Devices \X FileIdx
OnMedia(c) == media[c[1]].content[c[2]]
LiveCells == {c \in Cells : OnMedia(c).name # NoName}

Disjoint(e, f) == e.endBlock <= f.startBlock \/ f.endBlock <= e.startBlock

\* No two files on the disks share a block of the raid, whatever was killed
\* between the writes of updateRaid (fs.c:101-106): the place addFile computes
\* from memory (fs.c:124-134) is free on every disk as well.
MediaDisjoint ==
    \A c, d \in Cells : c # d => Disjoint(OnMedia(c), OnMedia(d))

\* No two files on the disks have the same name: what findFile does not see
\* (fs.c:136-146) is on no disk either.
MediaNamesUnique ==
    \A c, d \in LiveCells : OnMedia(c).name = OnMedia(d).name => c = d

\* The files on the disks are an extent store: every write of a sector, in the
\* middle of updateRaid or formatRaid as well, is a step of it or changes no file.
Store == INSTANCE ExtentStore WITH files <- {OnMedia(c) : c \in LiveCells}
ImplementsExtentStore == Store!Spec

\* When no tool runs, the number of files that disk 0 keeps (fs.c:182, 202) is
\* off by at most one for every write that was lost.
CountDriftBounded ==
    pc = "off" =>
      \A d \in Devices :
        media[d].MAGIC /\ media[d].diskId = 0 =>
          (media[d].totalFiles - Cardinality(LiveCells)) % Byte
             \in {k % Byte : k \in -faults .. faults}

\* A tool that comes to its end has saved everything it changed in memory, on
\* every disk it attached (fs.c:50, 104).
SavedAtExit ==
    pc = "exit" /\ ~WriteFaults => \A i \in Attached : media[ns[i]] = msector[i]

\* No two disks with metadata have one number.
Numbered ==
    \A d, e \in Devices :
      media[d].MAGIC /\ media[e].MAGIC /\ media[d].diskId = media[e].diskId => d = e

\* The tools run on the disks in the order of their diskId, each of them where
\* super_getdisk looks for it: qsort and the check after it (fs.c:85-95).
RaidOrdered ==
    pc = "run" /\ Numbered =>
      \A i \in Attached : msector[i].diskId = i /\ msector[i].totalDisks = numdisks

\* Only a format that was killed, or lost a write, leaves two disks with one number
\* (fs.c:49): createRaid numbers disks in the order of the probe as well (fs.c:75),
\* and updateRaid writes the numbers back (fs.c:104).
NumbersKept ==
    [][Numbered /\ tool # "format" => Numbered']_vars

\* A format that comes to its end has emptied every disk and numbered them anew
\* (fs.c:46-52): createRaid, which follows it (main.c:162-163), takes the disks as they are.
FormattedAtExit ==
    pc = "exit" /\ tool = "format" /\ (WriteFaults => faults = 0) =>
      Numbered /\ LiveCells = {} /\ \A d \in Devices : media[d].MAGIC

TotalSectors == Cardinality(UNION {{d} \X (1 .. Sectors[d]) : d \in Devices})

\* Every file ends inside the raid: the check for space of addFile (fs.c:168-170),
\* made with the size of the file that is copied.
WithinRaid ==
    \A c \in Cells : OnMedia(c).endBlock <= TotalSectors

\* Blocks of two files, or of a file and the metadata, are never in the same
\* sector of the same disk: super_getdisk and super_getdisklba (fs.c:213-224)
\* on the extents addFile gives.
SectorsDisjoint ==
    LET n == Cardinality(Devices)
        blocks(c) == OnMedia(c).startBlock .. OnMedia(c).endBlock - 1
        places(c) == {Location(n, b) : b \in blocks(c)}
    IN  \A c \in LiveCells :
          /\ \A p \in places(c) : p[2] # 0
          /\ \A d \in LiveCells \ {c} : places(c) \cap places(d) = {}

\* A file is where it was created until it is removed, and only rm and format
\* remove files: neither a cp, nor a start of any tool, nor a crash loses one.
OnlyRmAndFormatRemove ==
    [][\A c \in LiveCells :
         \/ OnMedia(c)'.name = OnMedia(c).name
            /\ OnMedia(c)'.startBlock = OnMedia(c).startBlock
         \/ OnMedia(c)'.name = NoName /\ tool \in {"rm", "format"}]_vars

\* With all the disks present and nothing lost, createRaid refuses no raid
\* (fs.c:76-83, 89-95).
NeverRefusedWithoutFault ==
    [][(pc \in {"create", "sort"} /\ pc' = "off") => faults' > 0]_vars

\* ls lists the files and changes none of them (README.md:64).
ListingKeepsFiles ==
    [][tool = "ls" =>
         \A c \in LiveCells : OnMedia(c)'.name = OnMedia(c).name]_vars

\* Every tool comes to an end, whatever was lost, torn or left out before: no
\* loop of createRaid, updateRaid or app_run goes round for ever.
Terminates == pc # "off" ~> pc = "off"
=============================================================================

------------------------------ MODULE SpcapInv ------------------------------
(***************************************************************************)
(* The inductive invariant behind Balanced, CapturesKept and WritesInside. *)
(***************************************************************************)
EXTENDS Spcap

Fields == {"dataWrote", "currPtr", "curlba", "buffs", "out"}

\* What a struct spcap is between two steps.  Nothing was ever flushed by writeBuff, so
\* that the pointer is as far in the buffer as there is data.
IsSpcap(s) ==
    /\ DOMAIN s = Fields
    /\ s.dataWrote \in [Disks -> Nat]
    /\ s.currPtr = s.dataWrote
    /\ s.curlba \in [Disks -> Nat]
    /\ s.buffs \in [Disks -> [0 .. BUFFSIZE - 1 -> Data]]
    /\ s.out = <<>>

\* Between initSpcap and updateRaid.
Active == pc \in {"pcap", "trailer", "flush", "save"}

\* The disks that have got the header of zeros, and those that were flushed.
Trailed == IF pc = "trailer" THEN cur ELSE IF pc \in {"flush", "save"} THEN NumDisks ELSE 0
Flushed == IF pc = "flush" THEN cur ELSE IF pc = "save" THEN NumDisks ELSE 0

\* All that goes to a disk fits into one super-sector.
Short(str) == \A d \in Disks : Len(str[d]) < SUPERSECTORLENGTH

\* Disk d holds its part of a capture that begins at block start.
OnDisk(start, str, d) ==
    /\ FirstLba(start, d) + SUPERSECTORNUM <= DiskSectors
    /\ \A j \in DOMAIN str[d] :
         disk[<<d, FirstLba(start, d) * SECTORLENGTH + j - 1>>] = str[d][j]

\* The buffers hold what the disks are to get, as long as it fits.
Held(s, str) ==
    \A d \in Disks :
      /\ Len(str[d]) = s.dataWrote[d]
      /\ s.dataWrote[d] < SUPERSECTORLENGTH =>
           \A j \in DOMAIN str[d] : s.buffs[d][j - 1] = str[d][j]

BuffersOK ==
    /\ pc = "off" => stream = NoStream
    /\ Active => /\ Held(sp, stream)
                 /\ \A d \in Disks : d < Trailed => sp.dataWrote[d] > 0

\* A disk that was not flushed yet is at the first super-sector of the capture; the
\* others have their part, if no write failed.
FlushOK ==
    Active =>
      /\ \A d \in Disks : d >= Flushed => sp.curlba[d] = FirstLba(file.startBlock, d)
      /\ Short(stream) =>
           /\ file.endBlock = file.startBlock + Flushed * SUPERSECTORNUM
           /\ file.intact => \A d \in Disks : d < Flushed => OnDisk(file.startBlock, stream, d)

\* What the file claims: a super-sector for each disk that was flushed, none of which
\* was full.
EndOK ==
    Active /\ (Flushed = 0 \/ NoneFull(stream)) =>
      file.endBlock = file.startBlock + Flushed * SUPERSECTORNUM

\* The captures are there, and the one that is written begins behind them.
CapturesOK ==
    /\ captures # {} => \E last \in captures : \A c \in captures : c.endBlock <= last.endBlock
    /\ Active => \A c \in captures : c.endBlock <= file.startBlock
    /\ \A c \in captures : c.intact /\ Aligned(c) /\ Short(c.stream) =>
         /\ c.endBlock = c.startBlock + NumDisks * SUPERSECTORNUM
         /\ \A d \in Disks : OnDisk(c.startBlock, c.stream, d)

\* The writer is in order: what its buffers, its positions and its captures are at every
\* step of cp (spcap.c:17-154).
WriterInv == TypeOK /\ IsSpcap(sp) /\ Balanced /\ BuffersOK /\ FlushOK /\ CapturesOK
=============================================================================

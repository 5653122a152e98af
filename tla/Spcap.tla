------------------------------- MODULE Spcap --------------------------------
(***************************************************************************)
(* The capture writer, spcap.c: cp reads a pcap file packet by packet and  *)
(* spreads the packets over the disks, each of which has a buffer, a       *)
(* pointer into it and a position on the disk.  Sizes and positions are in *)
(* units of data, of which SECTORLENGTH make a sector.                     *)
(***************************************************************************)
EXTENDS Striping, Sequences, FiniteSets

CONSTANTS
    NumDisks,      \* raid->numdisks
    SECTORLENGTH,  \* units of a sector
    NUMBUFS,       \* super-sectors of a buffer (3 in spcap.h)
    HEADER,        \* units of a spcap_header
    Packets,       \* [len, caplen] of the packets a capture may hold
    NoData,        \* what has not been written, or lies beyond a packet
    DiskSectors,   \* sectors of each disk
    Gaps,          \* blocks that other files may take before a capture
    MaxCaptures,   \* bound: captures that are copied
    MaxPackets,    \* bound: packets of all the captures
    MaxFaults      \* bound: writes that fail, processes that are killed

SUPERSECTORLENGTH == SUPERSECTORNUM * SECTORLENGTH
BUFFSIZE == SUPERSECTORLENGTH * NUMBUFS

ASSUME SpcapAssumption ==
    /\ NumDisks \in Nat \ {0}
    /\ SECTORLENGTH \in Nat \ {0}
    /\ NUMBUFS \in Nat \ {0}
    /\ HEADER \in 1 .. SUPERSECTORLENGTH
    /\ Packets \subseteq [len : 0 .. SUPERSECTORLENGTH, caplen : Nat]
    /\ DiskSectors \in Nat
    /\ Gaps \subseteq Nat
    /\ MaxCaptures \in Nat /\ MaxPackets \in Nat /\ MaxFaults \in Nat

VARIABLES
    disk,       \* what every unit of every disk holds
    captures,   \* the captures whose entries are saved
    file,       \* startBlock and endBlock of the capture that is written, and
                \* whether all its writes succeeded, which the code forgets
    sp,         \* the struct spcap, and the super-sectors on their way to a disk
    stream,     \* what writeBuff was asked to write on every disk
    pc,
    cur,        \* the disk that a loop of freeSpcap is at
    packets,    \* packets so far
    faults      \* failures so far

vars == <<disk, captures, file, sp, stream, pc, cur, packets, faults>>

Disks == 0 .. NumDisks - 1
Units == Disks \X (0 .. DiskSectors * SECTORLENGTH - 1)

\* Unit j of the header or of the payload of packet k; packet 0 is the header
\* of zeros at the end.
HeaderData(k)     == [j \in 1 .. HEADER |-> <<k, "header", j>>]
PayloadData(k, p) == [j \in 1 .. p.len |->
                        IF j <= p.caplen THEN <<k, "payload", j>> ELSE NoData]

Data == {NoData} \cup ((0 .. MaxPackets) \X {"header", "payload"} \X (1 .. SUPERSECTORLENGTH))

NoFile   == [startBlock |-> 0, endBlock |-> 0, intact |-> TRUE]
NoBuffer == [i \in 0 .. BUFFSIZE - 1 |-> NoData]
NoSpcap  == [dataWrote |-> [d \in Disks |-> 0], currPtr |-> [d \in Disks |-> 0],
             curlba |-> [d \in Disks |-> 0], buffs |-> [d \in Disks |-> NoBuffer],
             out |-> <<>>]
NoStream == [d \in Disks |-> <<>>]

Init ==
    /\ disk = [u \in Units |-> NoData]
    /\ captures = {}
    /\ file = NoFile /\ sp = NoSpcap /\ stream = NoStream
    /\ pc = "off" /\ cur = 0
    /\ packets = 0 /\ faults = 0

\* The process ends.
Ends == /\ file' = NoFile /\ sp' = NoSpcap /\ stream' = NoStream
        /\ pc' = "off" /\ cur' = 0

-----------------------------------------------------------------------------
\* Where the next file begins: behind the last capture and the files cp adds
\* meanwhile.
NextBlock(gap) ==
    LET ends == {c.endBlock : c \in captures} \cup {NumDisks * SUPERSECTORNUM}
    IN  gap + CHOOSE e \in ends : \A x \in ends : x <= e

\* Mutant: every disk starts at the row of the first super-sector.
FirstLbaOfRow(start, d) == super_getdisklba(NumDisks, start)

\* The lba at which a capture begins on disk d.
FirstLba(start, d) ==
    LET i == CHOOSE i \in Disks :
               super_getdisk(NumDisks, start + i * SUPERSECTORNUM) = d
    IN  super_getdisklba(NumDisks, start + i * SUPERSECTORNUM)

\* initSpcap, for the entry that cp has just added and set back to no blocks.
initSpcap(gap) ==
    /\ pc = "off"
    /\ Cardinality(captures) < MaxCaptures
    /\ LET start == NextBlock(gap)
       IN  /\ file' = [startBlock |-> start, endBlock |-> start, intact |-> TRUE]
           /\ sp' = [NoSpcap EXCEPT !.curlba = [d \in Disks |-> FirstLba(start, d)]]
    /\ pc' = "pcap"
    /\ UNCHANGED <<disk, captures, stream, cur, packets, faults>>

\* Mutant: the comparison is the wrong way round.
spcapDstDiskMost(s) ==
    CHOOSE d \in Disks : \A e \in Disks : s.dataWrote[d] >= s.dataWrote[e]

\* The first of the disks with the least data.
spcapDstDisk(s) ==
    CHOOSE d \in Disks :
      \A e \in Disks : /\ s.dataWrote[d] <= s.dataWrote[e]
                       /\ e < d => s.dataWrote[d] < s.dataWrote[e]

\* memcpy to the buffer of disk d.
Copy(s, d, data) ==
    [s EXCEPT !.dataWrote[d] = @ + Len(data),
              !.currPtr[d] = @ + Len(data),
              !.buffs[d] = [i \in DOMAIN @ |->
                 IF i \in s.currPtr[d] .. s.currPtr[d] + Len(data) - 1
                 THEN data[i - s.currPtr[d] + 1] ELSE @[i]]]

\* sio_write of the super-sector that begins at unit from of the buffer, and the
\* positions after it.
Flush(s, d, from) ==
    [s EXCEPT !.out = Append(@, [disk |-> d, lba |-> s.curlba[d],
                                 data |-> [i \in 0 .. SUPERSECTORLENGTH - 1 |->
                                             s.buffs[d][from + i]]]),
              !.curlba[d] = @ + SUPERSECTORNUM,
              !.currPtr[d] = IF @ = BUFFSIZE THEN 0 ELSE @]

\* Whether writeBuff flushes: ! binds closer than %.
FlushDue(w) == (IF w = 0 THEN 1 ELSE 0) % SUPERSECTORLENGTH # 0

\* How much writeBuff copies before it calls itself for the left data.
ToWrite(s, d, size) ==
    LET used == s.dataWrote[d] % SUPERSECTORLENGTH
    IN  IF used + size > SUPERSECTORLENGTH THEN SUPERSECTORLENGTH - used ELSE size

\* writeBuff when the data does not cross the end of a super-sector.
writePart(s, d, data) ==
    LET t == Copy(s, d, data)
    IN  IF FlushDue(t.dataWrote[d]) THEN Flush(t, d, t.currPtr[d] - SUPERSECTORLENGTH)
                                    ELSE t

\* writeBuff; the left data is taken from the beginning of the payload.
writeBuff(s, d, payload) ==
    LET n    == ToWrite(s, d, Len(payload))
        once == writePart(s, d, SubSeq(payload, 1, n))
        left == Len(payload) - n
    IN  IF left = 0 THEN once ELSE writePart(once, d, SubSeq(payload, 1, left))

\* writePkt on disk d.
afterPkt(s, d, k, p) == writeBuff(writeBuff(s, d, HeaderData(k)), d, PayloadData(k, p))

Overrun(s) == \E d \in Disks : s.currPtr[d] > BUFFSIZE

\* The units of a super-sector that begins at sector lba of disk d.
SuperSectorAt(d, lba) ==
    {d} \X (lba * SECTORLENGTH .. (lba + SUPERSECTORNUM) * SECTORLENGTH - 1)

\* What the disks hold when w is written; they refuse what is beyond their end.
Stored(w) ==
    IF w.lba + SUPERSECTORNUM > DiskSectors THEN disk
    ELSE [u \in Units |-> IF u \in SuperSectorAt(w.disk, w.lba)
                          THEN w.data[u[2] - w.lba * SECTORLENGTH] ELSE disk[u]]

\* The writes that s asks for.  A command that is refused, or that completes with
\* an error, changes nothing else: nobody looks.
Writes(s) ==
    /\ sp' = [s EXCEPT !.out = <<>>]
    /\ \/ s.out = <<>> /\ UNCHANGED <<disk, file, faults>>
       \/ \E i \in DOMAIN s.out :
            \/ /\ disk' = Stored(s.out[i])
               /\ file' = [file EXCEPT !.endBlock = @ + SUPERSECTORNUM,
                                       !.intact = @ /\ s.out[i].lba + SUPERSECTORNUM <= DiskSectors]
               /\ UNCHANGED faults
            \/ /\ faults < MaxFaults
               /\ faults' = faults + 1
               /\ file' = [file EXCEPT !.endBlock = @ + SUPERSECTORNUM, !.intact = FALSE]
               /\ UNCHANGED disk

\* writePCAPPkt of the next packet of the capture.
writePkt(p) ==
    /\ pc = "pcap"
    /\ packets < MaxPackets
    /\ packets' = packets + 1
    /\ LET d == spcapDstDisk(sp)
           s == afterPkt(sp, d, packets', p)
       IN  /\ Writes(s)
           /\ stream' = [stream EXCEPT ![d] =
                           @ \o HeaderData(packets') \o PayloadData(packets', p)]
           /\ pc' = IF Overrun(s) THEN "undefined" ELSE "pcap"
    /\ UNCHANGED <<captures, cur>>

\* pcap_next has no more packets; cp calls freeSpcap.
freeSpcap ==
    /\ pc = "pcap"
    /\ pc' = "trailer"
    /\ cur' = 0
    /\ UNCHANGED <<disk, captures, file, sp, stream, packets, faults>>

\* Mutant: the loops go on for one disk too many.
ContinueTooFar(loop, next) ==
    IF cur < NumDisks THEN pc' = loop /\ cur' = cur + 1
                      ELSE pc' = next /\ cur' = 0

\* The loops of freeSpcap and flushBuffs.
Continue(loop, next) ==
    IF cur < NumDisks - 1 THEN pc' = loop /\ cur' = cur + 1
                          ELSE pc' = next /\ cur' = 0

\* The header of zeros at the end of each disk.
writeTrailer ==
    /\ pc = "trailer"
    /\ LET s == writeBuff(sp, cur, HeaderData(0))
       IN  /\ Writes(s)
           /\ IF Overrun(s) THEN pc' = "undefined" /\ UNCHANGED cur
                            ELSE Continue("trailer", "flush")
    /\ stream' = [stream EXCEPT ![cur] = @ \o HeaderData(0)]
    /\ UNCHANGED <<captures, packets>>

\* Mutant: flushBuffs writes from where the pointer is.
FlushFromPointer(s, d) == s.currPtr[d]

\* Where in the buffer the data begins that flushBuffs writes.
FlushFrom(s, d) == s.currPtr[d] - (s.dataWrote[d] % SUPERSECTORLENGTH)

\* flushBuffs on one disk.
flushBuffs ==
    /\ pc = "flush"
    /\ Writes(IF sp.dataWrote[cur] % SUPERSECTORLENGTH = 0 THEN sp
              ELSE Flush(sp, cur, FlushFrom(sp, cur)))
    /\ Continue("flush", "save")
    /\ UNCHANGED <<captures, stream, packets>>

\* updateRaid and the end of cp.
updateRaid ==
    /\ pc = "save"
    /\ captures' = captures \cup
         {[startBlock |-> file.startBlock, endBlock |-> file.endBlock,
           intact |-> file.intact, stream |-> stream]}
    /\ Ends
    /\ UNCHANGED <<disk, packets, faults>>

\* The process has written beyond a buffer, or without one, and is not followed any
\* further.
overruns ==
    /\ pc = "undefined"
    /\ Ends
    /\ UNCHANGED <<disk, captures, packets, faults>>

\* The process is killed.
Crash ==
    /\ pc # "off"
    /\ faults < MaxFaults
    /\ faults' = faults + 1
    /\ Ends
    /\ UNCHANGED <<disk, captures, packets>>

\* spdk_zmalloc fails: cp goes on with the pointer it did not get.
initSpcapFails ==
    /\ pc = "off"
    /\ faults < MaxFaults
    /\ faults' = faults + 1
    /\ pc' = "undefined"
    /\ UNCHANGED <<disk, captures, file, sp, stream, cur, packets>>

Next ==
    \/ \E gap \in Gaps : initSpcap(gap)
    \/ initSpcapFails
    \/ \E p \in Packets : writePkt(p)
    \/ freeSpcap
    \/ writeTrailer
    \/ flushBuffs
    \/ updateRaid
    \/ overruns
    \/ Crash

Spec == Init /\ [][Next]_vars
-----------------------------------------------------------------------------
(* Properties.                                                             *)

Capture == [startBlock : Nat, endBlock : Nat, intact : BOOLEAN,
            stream : [Disks -> Seq(Data)]]

\* The variables have the types of the C declarations; the pointers are inside the
\* buffers as long as the process is followed.
TypeOK ==
    /\ disk \in [Units -> Data]
    /\ captures \subseteq Capture
    /\ file \in [startBlock : Nat, endBlock : Nat, intact : BOOLEAN]
    /\ sp.dataWrote \in [Disks -> Nat]
    /\ sp.currPtr \in [Disks -> Nat]
    /\ sp.curlba \in [Disks -> Nat]
    /\ sp.buffs \in [Disks -> [0 .. BUFFSIZE - 1 -> Data]]
    /\ sp.out = <<>>
    /\ stream \in [Disks -> Seq(Data)]
    /\ pc \in {"off", "pcap", "trailer", "flush", "save", "undefined"}
    /\ pc # "undefined" => \A d \in Disks : sp.currPtr[d] <= BUFFSIZE
    /\ cur \in Disks
    /\ packets \in 0 .. MaxPackets
    /\ faults \in 0 .. MaxFaults

\* The disks are filled evenly (spcapDstDisk, spcap.c:47): the replay reads them at
\* one speed, and no buffer fills up long before the others.  No two disks differ by
\* more than a packet.
Balanced ==
    pc = "pcap" =>
      \A d, e \in Disks :
        \E size \in {0} \cup {p.len : p \in Packets} :
          sp.dataWrote[d] <= sp.dataWrote[e] + HEADER + size

Aligned(c) == c.startBlock % SUPERSECTORNUM = 0

\* All that goes to a disk fits into one super-sector.
Fits(c) == \A d \in Disks : Len(c.stream[d]) < SUPERSECTORLENGTH

\* Each disk holds its part of capture c, in blocks that are the file's.
OnDisks(c) ==
    \A i \in Disks :
      LET b   == c.startBlock + i * SUPERSECTORNUM
          d   == super_getdisk(NumDisks, b)
          lba == super_getdisklba(NumDisks, b)
      IN  /\ b + SUPERSECTORNUM <= c.endBlock
          /\ \A j \in DOMAIN c.stream[d] :
               disk[<<d, lba * SECTORLENGTH + j - 1>>] = c.stream[d][j]

\* A capture that was written without a failure is on the disks, every packet of it
\* (spcap.c:63-134), and stays there when others are written behind it or fail: if it
\* begins at a super-sector and its parts are shorter than one.
CapturesKept == \A c \in captures : c.intact /\ Aligned(c) /\ Fits(c) => OnDisks(c)

\* The blocks of a super-sector on each disk.
Row(c) == c.startBlock .. c.startBlock + NumDisks * SUPERSECTORNUM - 1

\* On no disk does the data end with a super-sector, which flushBuffs skips.
NoneFull(str) == \A d \in Disks : Len(str[d]) % SUPERSECTORLENGTH # 0

\* What is written for a capture that begins at a super-sector is in the row of blocks
\* at its start (spcap.c:17, 71 and 75), and this row is what its entry claims once it is
\* saved (spcap.c:76): if the data ends with a super-sector on no disk.  Otherwise
\* the entry claims less, and the next file may be laid over the last disks of the row.
WritesInside ==
    [][/\ Aligned(file) =>
            \A u \in Units : disk'[u] # disk[u] =>
              \E b \in Row(file) : Location(NumDisks, b) = <<u[1], u[2] \div SECTORLENGTH>>
       /\ \A c \in captures' \ captures :
            NoneFull(c.stream) => Row(c) = c.startBlock .. c.endBlock - 1]_vars

\* "Flush data, if necessary" (spcap.c:99): a super-sector that is full is written.
FullFlushed ==
    pc = "pcap" =>
      \A d \in Disks :
        sp.curlba[d] = FirstLba(file.startBlock, d)
                         + SUPERSECTORNUM * (sp.dataWrote[d] \div SUPERSECTORLENGTH)

\* cp adds a file to the raid (README.md:66), wherever it begins, and files that are
\* added later get other blocks.
CapturesKeptAnywhere == \A c \in captures : c.intact /\ Fits(c) => OnDisks(c)
=============================================================================

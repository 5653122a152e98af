---------------------------- MODULE RaidFSProofs ----------------------------
(* Proofs about RaidFS, for every value of its constants: the types, that no  *)
(* two files ever share a block or a name on the disks, that none is lost, and *)
(* that the disks implement an extent store.                                 *)
EXTENDS RaidFSInv, FiniteSetTheorems, TLAPS

-----------------------------------------------------------------------------
(* The tables in memory.                                                   *)

\* The sectors the program makes itself are metadata sectors.
LEMMA MadeSectors ==
    /\ FreeEntry \in metaFile
    /\ ZeroSector \in metaSector
    /\ \A i, n \in Nat : initMeta(i, n) \in metaSector
<1>1. FreeEntry \in metaFile
  BY FSAssumption DEF FreeEntry, metaFile
<1>2. 0 \in 0 .. Byte - 1
  BY FSAssumption
<1>3. QED
  BY <1>1, <1>2 DEF ZeroSector, initMeta, metaSector

\* SetEntry changes one entry of one table.
LEMMA SetEntryFacts ==
    ASSUME NEW m \in [Idx -> metaSector], NEW s \in Slots, NEW f \in metaFile
    PROVE  /\ SetEntry(m, s, f) \in [Idx -> metaSector]
           /\ \A i \in Idx, j \in FileIdx :
                SetEntry(m, s, f)[i].content[j] =
                  IF <<i, j>> = s THEN f ELSE m[i].content[j]
           /\ \A i \in Idx : SetEntry(m, s, f)[i].MAGIC = m[i].MAGIC
<1>1. s[1] \in Idx /\ s[2] \in FileIdx /\ s = <<s[1], s[2]>>
  BY DEF Slots
<1>2. m[s[1]] \in metaSector
  BY <1>1
<1> DEFINE t == [m[s[1]] EXCEPT !.content = [m[s[1]].content EXCEPT ![s[2]] = f]]
<1>3. t \in metaSector
  BY <1>1, <1>2 DEF metaSector
<1>4. SetEntry(m, s, f) = [m EXCEPT ![s[1]] = t]
  BY DEF SetEntry
<1>5. t.content = [m[s[1]].content EXCEPT ![s[2]] = f] /\ t.MAGIC = m[s[1]].MAGIC
  BY <1>2 DEF metaSector
<1>6. m[s[1]].content \in [FileIdx -> metaFile]
  BY <1>2 DEF metaSector
<1> HIDE DEF t
<1>7. SetEntry(m, s, f) \in [Idx -> metaSector]
  BY <1>1, <1>3, <1>4
<1>8. ASSUME NEW i \in Idx, NEW j \in FileIdx
      PROVE  SetEntry(m, s, f)[i].content[j] =
               IF <<i, j>> = s THEN f ELSE m[i].content[j]
  <2>1. CASE i = s[1]
    <3>1. SetEntry(m, s, f)[i] = t
      BY <1>1, <1>4, <2>1
    <3>2. QED
      BY <1>1, <1>5, <1>6, <2>1, <3>1
  <2>2. CASE i # s[1]
    BY <1>1, <1>4, <2>2
  <2>3. QED
    BY <2>1, <2>2
<1>9. \A i \in Idx : SetEntry(m, s, f)[i].MAGIC = m[i].MAGIC
  BY <1>1, <1>4, <1>5
<1>10. QED
  BY <1>7, <1>8, <1>9

\* Count changes no entry.
LEMMA CountFacts ==
    ASSUME NEW m \in [Idx -> metaSector], NEW k \in Int
    PROVE  /\ Count(m, k) \in [Idx -> metaSector]
           /\ \A i \in Idx : /\ Count(m, k)[i].content = m[i].content
                             /\ Count(m, k)[i].MAGIC = m[i].MAGIC
<1>1. 0 \in Idx
  BY FSAssumption DEF Idx
<1>2. m[0] \in metaSector
  BY <1>1
<1> DEFINE n == (m[0].totalFiles + k) % Byte
           t == [m[0] EXCEPT !.totalFiles = n]
<1>3. n \in 0 .. Byte - 1
  <2>1. m[0].totalFiles + k \in Int
    BY <1>2 DEF metaSector
  <2>2. QED
    BY <2>1, FSAssumption
<1>4. Count(m, k) = [m EXCEPT ![0] = t]
  BY DEF Count
<1> HIDE DEF n
<1>5. t \in metaSector /\ t.content = m[0].content /\ t.MAGIC = m[0].MAGIC
  BY <1>2, <1>3 DEF metaSector
<1> HIDE DEF t
<1>6. QED
  BY <1>1, <1>4, <1>5

LEMMA AttachedInIdx ==
    ASSUME numdisks \in 0 .. MAXDISKS
    PROVE  Attached \subseteq Idx
  BY FSAssumption DEF Attached, Idx

\* rightFreeBlock is a block number to the right of every file in memory.
LEMMA RightFree ==
    ASSUME TypeOK, NEW right \in rightFreeBlock
    PROVE  /\ right \in Nat
           /\ \A i \in Attached, j \in FileIdx : Mem(i, j).endBlock <= right
<1>1. \A i \in Attached : i \in Idx
  BY AttachedInIdx DEF TypeOK
<1>2. \A i \in Attached, j \in FileIdx :
        <<i, j>> \in Attached \X FileIdx /\ Entry(<<i, j>>) = Mem(i, j)
                                         /\ Mem(i, j) \in metaFile
  BY <1>1 DEF Entry, Mem, TypeOK, metaSector
<1>3. \A s \in Attached \X FileIdx : Entry(s).endBlock \in Nat
  BY <1>1 DEF Entry, TypeOK, metaSector, metaFile
<1>4. numdisks * SUPERSECTORNUM \in Nat
  BY SuperSectorAssumption, FSAssumption, SMT DEF TypeOK
<1>5. QED
  BY <1>2, <1>3, <1>4 DEF rightFreeBlock

-----------------------------------------------------------------------------
(* Type correctness.                                                       *)

NsType  == \A i \in Attached : ns[i] \in Devices
CurType == pc = "pcap" \/ ret = "pcap" => cur \in Slots

\* TypeOK alone is not inductive: what createRaid reads is a sector because the
\* disks it reads are namespaces that were attached.
TypeInv == TypeOK /\ NsType /\ CurType

LEMMA TypeInit == Init => TypeInv
<1> SUFFICES ASSUME Init
             PROVE  TypeInv
  OBVIOUS
<1> USE DEF Init
<1>1. TypeOK
  BY MadeSectors, FSAssumption DEF TypeOK, NoDisks, NoSectors, Places
<1>2. NsType
  BY DEF NsType, Attached
<1>3. CurType
  BY DEF CurType
<1>4. QED
  BY <1>1, <1>2, <1>3 DEF TypeInv

\* A process that has ended leaves a memory of the right type.
LEMMA EndsType ==
    ASSUME TypeInv, Ends, media' \in [Devices -> metaSector], faults' \in Nat
    PROVE  TypeInv'
<1>1. TypeOK'
  BY MadeSectors, FSAssumption DEF TypeOK, Ends, NoDisks, NoSectors, Places
<1>2. NsType' /\ CurType'
  BY DEF NsType, CurType, Attached, Ends
<1>3. QED
  BY <1>1, <1>2 DEF TypeInv

LEMMA WriteSectorType ==
    ASSUME TypeInv, NEW i \in Attached, NEW sector \in metaSector, WriteSector(i, sector)
    PROVE  media' \in [Devices -> metaSector] /\ faults' \in Nat
  BY DEF WriteSector, TypeInv, NsType, TypeOK

\* createRaid, whatever it reads.
LEMMA CreateRaidType ==
    ASSUME TypeInv, NEW sectors \in [Idx -> metaSector], createRaid(sectors), faults' \in Nat
    PROVE  TypeInv'
<1>1. media' \in [Devices -> metaSector]
  BY DEF createRaid, TypeInv, TypeOK, media_vars
<1>2. CASE Ends
  BY <1>1, <1>2, EndsType
<1>3. CASE /\ msector' = sectors
           /\ UNCHANGED <<ns, numdisks, totalBlocks, numFiles, tool, cur, left>>
           /\ \/ Call("format", "sort")
              \/ Goto("sort")
  <2>1. TypeOK'
    BY <1>1, <1>3, FSAssumption DEF TypeInv, TypeOK, Call, Goto, Places
  <2>2. NsType' /\ CurType'
    BY <1>3 DEF TypeInv, NsType, CurType, Attached, Call, Goto
  <2>3. QED
    BY <2>1, <2>2 DEF TypeInv
<1>4. QED
  BY <1>2, <1>3 DEF createRaid, Goto

\* What findFile and its callers pick is an entry of an attached disk.
LEMMA PickedEntry ==
    ASSUME TypeInv, NEW n, NEW s \in First(Named(n))
    PROVE  /\ s \in Attached \X FileIdx
           /\ s \in Slots
           /\ Entry(s) \in metaFile
           /\ Entry(s).name = n
<1>1. Attached \subseteq Idx
  BY AttachedInIdx DEF TypeInv, TypeOK
<1>2. s \in Attached \X FileIdx /\ Entry(s).name = n
  BY DEF First, Named
<1>3. s \in Slots
  BY <1>1, <1>2 DEF Slots
<1>4. Entry(s) \in metaFile
  BY <1>3 DEF Entry, Slots, TypeInv, TypeOK, metaSector
<1>5. QED
  BY <1>2, <1>3, <1>4

LEMMA ResizeType ==
    ASSUME TypeInv, NEW s \in Slots, NEW length \in Nat
    PROVE  /\ [Entry(s) EXCEPT !.endBlock = Entry(s).startBlock + length] \in metaFile
           /\ Resize(s, length) \in [Idx -> metaSector]
<1>1. Entry(s) \in metaFile
  BY DEF Entry, Slots, TypeInv, TypeOK, metaSector
<1>2. [Entry(s) EXCEPT !.endBlock = Entry(s).startBlock + length] \in metaFile
  BY <1>1 DEF metaFile
<1>3. msector \in [Idx -> metaSector]
  BY DEF TypeInv, TypeOK
<1>4. QED
  BY <1>2, <1>3, SetEntryFacts DEF Resize

LEMMA TypeNext == TypeInv /\ [Next]_vars => TypeInv'
<1> SUFFICES ASSUME TypeInv, [Next]_vars
             PROVE  TypeInv'
  OBVIOUS
<1>0. Attached \subseteq Idx
  BY AttachedInIdx DEF TypeInv, TypeOK
<1> USE DEF TypeInv
<1>1. ASSUME NEW t \in Tools, Launch(t) PROVE TypeInv'
  <2>1. left' \in Nat
    BY <1>1, FSAssumption DEF Launch
  <2>2. t \in AllTools
    BY FSAssumption
  <2>3. TypeOK'
    BY <1>1, <2>1, <2>2 DEF Launch, TypeOK, Places, raid_vars, media_vars
  <2>4. NsType' /\ CurType'
    BY <1>1 DEF Launch, NsType, CurType, Attached, raid_vars
  <2>5. QED
    BY <2>3, <2>4
<1>2. ASSUME NEW d \in Devices, register_ns(d) PROVE TypeInv'
  <2>1. numdisks \in Idx /\ numdisks' \in 0 .. MAXDISKS
    BY <1>2, FSAssumption DEF register_ns, Idx, TypeOK
  <2>2. totalBlocks' \in Nat
    BY <1>2, FSAssumption DEF register_ns, TypeOK
  <2>3. ns' \in [Idx -> Devices \cup {NoDev}]
    BY <1>2 DEF register_ns, TypeOK
  <2>4. TypeOK'
    BY <1>2, <2>1, <2>2, <2>3 DEF register_ns, TypeOK, process_vars, media_vars
  <2>5. NsType'
    <3>1. SUFFICES ASSUME NEW i \in Attached' PROVE ns'[i] \in Devices
      BY DEF NsType
    <3>2. i \in Attached \/ i = numdisks
      BY <1>2, FSAssumption DEF register_ns, Attached, TypeOK
    <3>3. QED
      BY <1>0, <1>2, <2>1, <3>2 DEF register_ns, NsType, TypeOK
  <2>6. CurType'
    BY <1>2 DEF register_ns, CurType, process_vars
  <2>7. QED
    BY <2>4, <2>5, <2>6
<1>3. CASE app_init
  <2>1. TypeOK'
    BY <1>3, FSAssumption DEF app_init, TypeOK, Call, Goto, Places, raid_vars, media_vars
  <2>2. NsType' /\ CurType'
    BY <1>3 DEF app_init, NsType, CurType, Attached, Call, Goto, raid_vars
  <2>3. QED
    BY <2>1, <2>2
<1>4. CASE formatRaid
  <2>1. widx \in Attached /\ widx \in Idx /\ widx + 1 \in 0 .. MAXDISKS
    BY <1>0, <1>4, FSAssumption DEF formatRaid, Attached, TypeOK
  <2>2. initMeta(widx, numdisks) \in metaSector
    BY <2>1, MadeSectors, FSAssumption DEF TypeOK, Idx
  <2>3. media' \in [Devices -> metaSector] /\ faults' \in Nat
    BY <1>4, <2>1, <2>2, WriteSectorType DEF formatRaid
  <2>4. msector' \in [Idx -> metaSector]
    BY <1>4, <2>1, <2>2 DEF formatRaid, TypeOK
  <2>5. TypeOK'
    BY <1>4, <2>1, <2>3, <2>4 DEF formatRaid, TypeOK
  <2>6. NsType' /\ CurType'
    BY <1>4 DEF formatRaid, NsType, CurType, Attached
  <2>7. QED
    BY <2>5, <2>6
<1>5. CASE updateRaid
  <2>1. widx \in Attached /\ widx \in Idx /\ widx + 1 \in 0 .. MAXDISKS
    BY <1>0, <1>5, FSAssumption DEF updateRaid, Attached, TypeOK
  <2>2. msector[widx] \in metaSector
    BY <2>1 DEF TypeOK
  <2>3. media' \in [Devices -> metaSector] /\ faults' \in Nat
    BY <1>5, <2>1, <2>2, WriteSectorType DEF updateRaid
  <2>4. TypeOK'
    BY <1>5, <2>1, <2>3 DEF updateRaid, TypeOK, raid_vars
  <2>5. NsType' /\ CurType'
    BY <1>5 DEF updateRaid, NsType, CurType, Attached, raid_vars
  <2>6. QED
    BY <2>4, <2>5
<1>6. CASE loopReturns
  <2>1. TypeOK'
    BY <1>6, FSAssumption DEF loopReturns, TypeOK, Places, raid_vars, media_vars
  <2>2. NsType'
    BY <1>6 DEF loopReturns, NsType, Attached, raid_vars
  <2>3. CurType'
    BY <1>6 DEF loopReturns, CurType
  <2>4. QED
    BY <2>1, <2>2, <2>3
<1>7. CASE readMeta
  <2>1. Faithful \in [Idx -> metaSector]
    BY <1>0 DEF Faithful, NsType, TypeOK
  <2>2. faults' \in Nat
    BY <1>7 DEF readMeta, TypeOK
  <2>3. QED
    BY <1>7, <2>1, <2>2, CreateRaidType DEF readMeta
<1>8. CASE readMetaFails
  <2>1. Faithful \in [Idx -> metaSector]
    BY <1>0 DEF Faithful, NsType, TypeOK
  <2>2. faults' \in Nat
    BY <1>8 DEF readMetaFails, TypeOK
  <2>3. PICK i \in Attached :
          \E junk \in {msector[i], ZeroSector}
                        \cup {Faithful[k] : k \in {j \in Attached : j = i - 1}} :
             createRaid([Faithful EXCEPT ![i] = junk])
    BY <1>8 DEF readMetaFails
  <2>4. PICK junk \in {msector[i], ZeroSector}
                        \cup {Faithful[k] : k \in {j \in Attached : j = i - 1}} :
             createRaid([Faithful EXCEPT ![i] = junk])
    BY <2>3
  <2>5. junk \in metaSector
    BY <1>0, <2>1, MadeSectors DEF TypeOK
  <2>6. [Faithful EXCEPT ![i] = junk] \in [Idx -> metaSector]
    BY <1>0, <2>1, <2>5
  <2>7. QED
    BY <2>2, <2>4, <2>6, CreateRaidType
<1>9. CASE sortDisks
  <2>1. media' \in [Devices -> metaSector] /\ faults' \in Nat
    BY <1>9 DEF sortDisks, TypeOK, media_vars
  <2>2. PICK p \in Sorting :
          \/ Ends
          \/ /\ msector' = [i \in Idx |-> IF i \in Attached THEN msector[p[i]] ELSE msector[i]]
             /\ ns' = [i \in Idx |-> IF i \in Attached THEN ns[p[i]] ELSE ns[i]]
             /\ numFiles' = msector'[0].totalFiles
             /\ Goto("run")
             /\ UNCHANGED <<numdisks, totalBlocks>>
    BY <1>9 DEF sortDisks
  <2>3. CASE Ends
    BY <2>1, <2>3, EndsType
  <2>4. CASE ~Ends
    <3>1. \A i \in Attached : p[i] \in Attached
      BY DEF Sorting
    <3>2. msector' \in [Idx -> metaSector]
      BY <1>0, <2>2, <2>4, <3>1 DEF TypeOK
    <3>3. ns' \in [Idx -> Devices \cup {NoDev}]
      BY <1>0, <2>2, <2>4, <3>1 DEF TypeOK
    <3>4. numFiles' \in Int
      <4>1. 0 \in Idx
        BY FSAssumption DEF Idx
      <4>2. QED
        BY <2>2, <2>4, <3>2, <4>1, FSAssumption DEF metaSector
    <3>5. TypeOK'
      BY <2>1, <2>2, <2>4, <3>2, <3>3, <3>4 DEF TypeOK, Goto, Places
    <3>6. NsType'
      BY <1>0, <2>2, <2>4, <3>1 DEF NsType, Attached
    <3>7. CurType'
      BY <2>2, <2>4 DEF CurType, Goto
    <3>8. QED
      BY <3>5, <3>6, <3>7
  <2>5. QED
    BY <2>3, <2>4
<1>10. ASSUME NEW n \in Names, rmFile(n) PROVE TypeInv'
  <2>1. left' \in Nat /\ media' = media /\ faults' = faults /\ tool' = tool /\ cur' = cur
    BY <1>10 DEF rmFile, TypeOK, media_vars
  <2>2. CASE UNCHANGED <<raid_vars, pc, ret, widx>>
    <3>1. TypeOK'
      BY <2>1, <2>2 DEF TypeOK, raid_vars
    <3>2. NsType' /\ CurType'
      BY <2>1, <2>2 DEF NsType, CurType, Attached, raid_vars
    <3>3. QED
      BY <3>1, <3>2
  <2>3. CASE (\E s \in findFile(n) : delFile(s)) /\ Call("update", "run")
    <3>1. PICK s \in findFile(n) : delFile(s)
      BY <2>3
    <3>2. s \in Slots
      BY PickedEntry DEF findFile
    <3>3. SetEntry(msector, s, FreeEntry) \in [Idx -> metaSector]
      BY <3>2, SetEntryFacts, MadeSectors DEF TypeOK
    <3>4. msector' \in [Idx -> metaSector]
      BY <3>1, <3>3, CountFacts DEF delFile
    <3>5. numFiles' \in Int
      BY <3>1 DEF delFile, TypeOK
    <3>6. TypeOK'
      BY <2>1, <2>3, <3>1, <3>4, <3>5, FSAssumption DEF TypeOK, delFile, Call, Places
    <3>7. NsType' /\ CurType'
      BY <2>1, <2>3, <3>1 DEF NsType, CurType, Attached, delFile, Call
    <3>8. QED
      BY <3>6, <3>7
  <2>4. QED
    BY <1>10, <2>2, <2>3 DEF rmFile
<1>11. ASSUME NEW n \in Names, NEW length \in Sizes, cpOverwrites(n, length)
       PROVE  TypeInv'
  <2>1. PICK s \in findFile(n) :
          \/ Goto("exit") /\ UNCHANGED raid_vars
          \/ /\ msector' = Resize(s, length)
             /\ Call("update", "exit")
             /\ UNCHANGED <<ns, numdisks, totalBlocks, numFiles, tool, cur, left>>
    BY <1>11 DEF cpOverwrites
  <2>2. s \in Slots /\ length \in Nat
    BY PickedEntry, FSAssumption DEF findFile
  <2>3. Resize(s, length) \in [Idx -> metaSector]
    BY <2>2, ResizeType
  <2>4. media' = media /\ faults' = faults
    BY <1>11 DEF cpOverwrites, media_vars
  <2>5. TypeOK'
    BY <2>1, <2>3, <2>4, FSAssumption DEF TypeOK, Goto, Call, Places, raid_vars
  <2>6. NsType' /\ CurType'
    BY <2>1 DEF NsType, CurType, Attached, Goto, Call, raid_vars
  <2>7. QED
    BY <2>5, <2>6
<1>12. ASSUME NEW n \in Names, NEW length \in Sizes, cpAdds(n, length)
       PROVE  TypeInv'
  <2>1. PICK right \in rightFreeBlock, s \in FreeSlots :
          /\ addFile(n, length, right, s)
          /\ \/ cur' = s /\ Call("update", "pcap")
             \/ cur' = NoSlot /\ Call("update", "exit")
    BY <1>12 DEF cpAdds
  <2>2. s \in Slots
    BY PickedEntry DEF FreeSlots
  <2>3. [name |-> n, startBlock |-> right, endBlock |-> right + length] \in metaFile
    BY RightFree, FSAssumption DEF metaFile
  <2>4. SetEntry(msector, s,
          [name |-> n, startBlock |-> right, endBlock |-> right + length])
            \in [Idx -> metaSector]
    BY <2>2, <2>3, SetEntryFacts DEF TypeOK
  <2>5. msector' \in [Idx -> metaSector]
    BY <2>1, <2>4, CountFacts DEF addFile
  <2>6. numFiles' \in Int
    BY <2>1 DEF addFile, TypeOK
  <2>7. media' = media /\ faults' = faults /\ tool' = tool /\ left' = left
    BY <1>12 DEF cpAdds, media_vars
  <2>8. TypeOK'
    BY <2>1, <2>2, <2>5, <2>6, <2>7, FSAssumption DEF TypeOK, addFile, Call, Places
  <2>9. NsType' /\ CurType'
    BY <2>1, <2>2 DEF NsType, CurType, Attached, addFile, Call
  <2>10. QED
    BY <2>8, <2>9
<1>13. ASSUME NEW n \in Names, NEW length \in Sizes, cpCannotAdd(n, length)
       PROVE  TypeInv'
  BY <1>13, EndsType DEF cpCannotAdd, media_vars, TypeOK
<1>14. CASE freeSpcap
  <2>1. PICK flushed \in 0 .. numdisks : msector' = Resize(cur, flushed * SUPERSECTORNUM)
    BY <1>14 DEF freeSpcap
  <2>2. flushed * SUPERSECTORNUM \in Nat
    BY SuperSectorAssumption, FSAssumption, SMT DEF TypeOK
  <2>3. cur \in Slots
    BY <1>14 DEF freeSpcap, CurType
  <2>4. msector' \in [Idx -> metaSector]
    BY <2>1, <2>2, <2>3, ResizeType
  <2>5. TypeOK'
    BY <1>14, <2>4, FSAssumption DEF freeSpcap, TypeOK, Call, Places, media_vars
  <2>6. NsType' /\ CurType'
    BY <1>14 DEF freeSpcap, NsType, CurType, Attached, Call
  <2>7. QED
    BY <2>5, <2>6
<1>15. CASE pcapNotOpened
  BY <1>15, EndsType DEF pcapNotOpened, media_vars, TypeOK
<1>15a. CASE probeFails
  BY <1>15a, EndsType DEF probeFails, media_vars, TypeOK
<1>16. CASE runReturns
  <2>1. TypeOK'
    BY <1>16 DEF runReturns, TypeOK, Goto, Places, raid_vars, media_vars
  <2>2. NsType' /\ CurType'
    BY <1>16 DEF runReturns, NsType, CurType, Attached, Goto, raid_vars
  <2>3. QED
    BY <2>1, <2>2
<1>17. CASE mainReturns
  BY <1>17, EndsType DEF mainReturns, media_vars, TypeOK
<1>18. CASE Crash
  BY <1>18, EndsType DEF Crash, media_vars, TypeOK
<1>19. CASE UNCHANGED vars
  BY <1>19 DEF vars, TypeOK, NsType, CurType, Attached
<1>20. QED
  BY <1>1, <1>2, <1>3, <1>4, <1>5, <1>6, <1>7, <1>8, <1>9, <1>10, <1>11, <1>12, <1>13,
     <1>14, <1>15, <1>15a, <1>16, <1>17, <1>18, <1>19 DEF Next, Step

\* The variables keep the types the C declarations give them, whatever is lost
\* or missing: every table stays a table, no block number becomes negative.
THEOREM TypeCorrect == Spec => []TypeOK
<1>1. Init => TypeInv
  BY TypeInit
<1>2. TypeInv /\ [Next]_vars => TypeInv'
  BY TypeNext
<1>3. TypeInv => TypeOK
  BY DEF TypeInv
<1>4. QED
  BY <1>1, <1>2, <1>3, PTL DEF Spec

-----------------------------------------------------------------------------
(* Entries that may stand beside each other.                               *)

LEMMA CompatibleSym ==
    ASSUME NEW f, NEW g, Compatible(f, g)
    PROVE  Compatible(g, f)
  BY DEF Compatible, Disjoint

LEMMA CompatibleFree ==
    ASSUME NEW f \in metaFile, NEW g \in metaFile, IsFree(f)
    PROVE  Compatible(f, g)
  BY DEF Compatible, Disjoint, IsFree, metaFile

\* A file that becomes shorter.
LEMMA CompatibleShrink ==
    ASSUME NEW f \in metaFile, NEW g \in metaFile, NEW h \in metaFile,
           Compatible(f, g),
           h.name = f.name, h.startBlock = f.startBlock, h.endBlock <= f.endBlock
    PROVE  Compatible(h, g)
  BY DEF Compatible, Disjoint, metaFile

\* A file that is to the right of another.
LEMMA CompatibleRight ==
    ASSUME NEW f \in metaFile, NEW g \in metaFile,
           g.endBlock <= f.startBlock, f.name # g.name \/ f.name = NoName
    PROVE  Compatible(f, g)
  BY DEF Compatible, Disjoint, metaFile

LEMMA FreeUnique ==
    ASSUME NEW f \in metaFile, NEW g \in metaFile, IsFree(f), IsFree(g)
    PROVE  f = g
  BY DEF IsFree, metaFile

-----------------------------------------------------------------------------
(* What the invariant says of single entries.                              *)

LEMMA IInvType == IInv => TypeInv
  BY AttachedInIdx DEF IInv, TypeInv, NsOK, NsType, CurOK, CurType, PlaceOK, Slots, TypeOK

LEMMA EntryTypes ==
    ASSUME TypeInv
    PROVE  /\ Attached \subseteq Idx
           /\ \A d \in Devices : media[d] \in metaSector
           /\ \A i \in Idx : msector[i] \in metaSector
           /\ \A d \in Devices, j \in FileIdx : Med(d, j) \in metaFile
           /\ \A i \in Idx, j \in FileIdx : Mem(i, j) \in metaFile
           /\ \A i \in Attached : ns[i] \in Devices
<1>1. Attached \subseteq Idx
  BY AttachedInIdx DEF TypeInv, TypeOK
<1>2. \A d \in Devices : media[d] \in metaSector
  BY DEF TypeInv, TypeOK
<1>3. \A i \in Idx : msector[i] \in metaSector
  BY DEF TypeInv, TypeOK
<1>4. QED
  BY <1>1, <1>2, <1>3 DEF TypeInv, NsType, Med, Mem, metaSector

-----------------------------------------------------------------------------
(* Steps of one shape.                                                     *)

LEMMA IInvInit == Init => IInv
<1> SUFFICES ASSUME Init
             PROVE  IInv
  OBVIOUS
<1>1. TypeOK
  BY TypeInit DEF TypeInv
<1>2. PlaceOK /\ NsOK /\ AttachedOK /\ MemoryOK /\ MagicOK /\ SyncOK /\ FormatOK /\ CurOK
  BY DEF Init, PlaceOK, NsOK, AttachedOK, MemoryOK, MagicOK, SyncOK, FormatOK, CurOK, Attached
<1>3. \A d \in Devices, j \in FileIdx : Med(d, j) = FreeEntry
  BY DEF Init, Med, ZeroSector
<1>4. IsFree(FreeEntry)
  BY DEF IsFree, FreeEntry
<1>5. BlankOK
  BY <1>3, <1>4 DEF BlankOK
<1>6. MediaOK
  BY <1>3, <1>4, CompatibleFree, MadeSectors DEF MediaOK
<1>7. QED
  BY <1>1, <1>2, <1>5, <1>6 DEF IInv

\* The end of a process forgets the memory and leaves the disks alone.
LEMMA EndsSafe ==
    ASSUME IInv, TypeInv', Ends, media' = media
    PROVE  IInv'
<1>1. /\ PlaceOK' /\ NsOK' /\ AttachedOK' /\ MemoryOK' /\ MagicOK' /\ SyncOK'
      /\ FormatOK' /\ CurOK'
  BY DEF Ends, PlaceOK, NsOK, AttachedOK, MemoryOK, MagicOK, SyncOK, FormatOK, CurOK, Attached
<1>2. BlankOK' /\ MediaOK'
  BY DEF IInv, BlankOK, MediaOK, Med
<1>3. QED
  BY <1>1, <1>2 DEF IInv, TypeInv

\* Nothing but the place changes, and it does not come nearer to writing.
LEMMA StaySafe ==
    ASSUME IInv, TypeInv', media' = media, msector' = msector, ns' = ns,
           numdisks' = numdisks, cur' = cur, PlaceOK', AttachedOK',
           pc' \in {"sort", "run", "update", "pcap"} =>
             pc \in {"sort", "run", "update", "pcap"},
           SyncOK', FormatOK', CurOK'
    PROVE  IInv'
<1>1. BlankOK' /\ MediaOK' /\ NsOK'
  BY DEF IInv, BlankOK, MediaOK, NsOK, Med, Attached
<1>2. MemoryOK' /\ MagicOK'
  BY DEF IInv, MemoryOK, MagicOK, Mem, Med, Attached
<1>3. QED
  BY <1>1, <1>2 DEF IInv, TypeInv

\* What a write of sector 0 leaves on the disks.
LEMMA AfterWrite ==
    ASSUME TypeInv, NEW i \in Attached, NEW sector \in metaSector, WriteSector(i, sector)
    PROVE  \/ media' = media
           \/ \A d \in Devices : media'[d] = IF d = ns[i] THEN sector ELSE media[d]
  BY DEF WriteSector, TypeInv, TypeOK

\* The tables of memory are changed in one entry, on the way to updateRaid.
LEMMA ChangeEntry ==
    ASSUME IInv, TypeInv', NEW s \in Attached \X FileIdx, NEW f \in metaFile,
           pc \in {"run", "pcap"}, pc' = "update",
           media' = media, ns' = ns, numdisks' = numdisks,
           \A i \in Attached, j \in FileIdx :
             Mem(i, j)' = IF <<i, j>> = s THEN f ELSE Mem(i, j),
           \A i \in Attached : msector'[i].MAGIC = msector[i].MAGIC,
           \A i \in Attached, j \in FileIdx :
             <<i, j>> # s => Compatible(f, Mem(i, j)) /\ Compatible(f, Med(ns[i], j)),
           PlaceOK', CurOK'
    PROVE  IInv'
<1>1. Attached' = Attached
  BY DEF Attached
<1>2. BlankOK' /\ MediaOK' /\ NsOK'
  BY <1>1 DEF IInv, BlankOK, MediaOK, NsOK, Med
<1>3. AttachedOK'
  BY <1>1 DEF IInv, AttachedOK, AllAttached
<1>4. MagicOK'
  BY <1>1 DEF IInv, MagicOK
<1>5. SyncOK' /\ FormatOK'
  BY DEF SyncOK, FormatOK
<1>6. MemoryOK'
  <2>1. SUFFICES ASSUME NEW i \in Attached, NEW k \in Attached,
                        NEW j \in FileIdx, NEW l \in FileIdx, <<i, j>> # <<k, l>>
                 PROVE  /\ Compatible(Mem(i, j)', Mem(k, l)')
                        /\ Compatible(Mem(i, j)', Med(ns[k], l))
    BY <1>1 DEF MemoryOK, Compatible, Disjoint, Med
  <2>2. Compatible(Mem(i, j), Mem(k, l)) /\ Compatible(Mem(i, j), Med(ns[k], l))
    BY <2>1 DEF IInv, MemoryOK
  <2>3. CASE <<i, j>> = s
    <3>1. Mem(i, j)' = f /\ Mem(k, l)' = Mem(k, l)
      BY <2>1, <2>3
    <3>2. QED
      BY <2>1, <2>3, <3>1
  <2>4. CASE <<k, l>> = s
    <3>1. Mem(k, l)' = f /\ Mem(i, j)' = Mem(i, j)
      BY <2>1, <2>4
    <3>2. Compatible(f, Mem(i, j))
      BY <2>1, <2>4
    <3>3. QED
      BY <2>2, <3>1, <3>2, CompatibleSym
  <2>5. CASE <<i, j>> # s /\ <<k, l>> # s
    BY <2>2, <2>5
  <2>6. QED
    BY <2>3, <2>4, <2>5
<1>7. QED
  BY <1>2, <1>3, <1>4, <1>5, <1>6 DEF IInv, TypeInv

\* updateRaid (fs.c:101-106): any part of memory may go over the disks.
LEMMA UpdateRaidSafe ==
    ASSUME IInv, TypeInv', updateRaid
    PROVE  IInv'
<1>1. TypeInv
  BY IInvType
<1>2. widx \in Attached /\ pc = "update" /\ pc' = "update" /\ ret' = ret /\ tool' = tool
  BY <1>1, FSAssumption DEF updateRaid, Attached, TypeInv, TypeOK
<1>3. /\ ns' = ns /\ msector' = msector /\ numdisks' = numdisks /\ cur' = cur
      /\ Attached' = Attached
  BY DEF updateRaid, raid_vars, Attached
<1>4. msector[widx] \in metaSector
  BY <1>1, <1>2, EntryTypes
<1>5. ns[widx] \in Devices
  BY <1>1, <1>2, EntryTypes
<1>6. PlaceOK' /\ NsOK' /\ AttachedOK' /\ SyncOK' /\ FormatOK' /\ MagicOK'
  BY <1>2, <1>3 DEF IInv, PlaceOK, NsOK, AttachedOK, AllAttached, SyncOK, FormatOK, MagicOK
<1>7. CASE media' = media
  BY <1>2, <1>3, <1>6, <1>7, StaySafe DEF IInv, CurOK, SyncOK, FormatOK, Mem, Med, Entry
<1>8. CASE \A d \in Devices : media'[d] = IF d = ns[widx] THEN msector[widx] ELSE media[d]
  <2>1. \A d \in Devices, j \in FileIdx :
          Med(d, j)' = IF d = ns[widx] THEN Mem(widx, j) ELSE Med(d, j)
    BY <1>8 DEF Med, Mem
  <2>2. \A i, k \in Attached, j, l \in FileIdx :
          <<i, j>> # <<k, l>> => /\ Compatible(Mem(i, j), Mem(k, l))
                                 /\ Compatible(Mem(i, j), Med(ns[k], l))
    BY <1>2 DEF IInv, MemoryOK
  <2>3. \A i \in Attached : ns[i] = ns[widx] => i = widx
    BY <1>2 DEF IInv, NsOK
  <2>4. \A d \in Devices : \E k \in Attached : ns[k] = d
    BY <1>2 DEF IInv, AttachedOK, AllAttached
  <2>5. BlankOK'
    <3>1. msector[widx].MAGIC
      BY <1>2 DEF IInv, MagicOK
    <3>2. \A d \in Devices : ~media'[d].MAGIC => d # ns[widx] /\ ~media[d].MAGIC
      BY <1>8, <3>1
    <3>3. QED
      BY <2>1, <3>2 DEF IInv, BlankOK, IsFree
  <2>6. MediaOK'
    <3>1. SUFFICES ASSUME NEW d \in Devices, NEW e \in Devices,
                          NEW j \in FileIdx, NEW l \in FileIdx, <<d, j>> # <<e, l>>
                   PROVE  Compatible(Med(d, j)', Med(e, l)')
      BY DEF MediaOK, Compatible, Disjoint
    <3>2. CASE d = ns[widx] /\ e = ns[widx]
      BY <1>2, <2>1, <2>2, <3>1, <3>2
    <3>3. CASE d = ns[widx] /\ e # ns[widx]
      <4>1. PICK k \in Attached : ns[k] = e
        BY <2>4
      <4>2. Compatible(Mem(widx, j), Med(e, l))
        BY <1>2, <2>2, <3>3, <4>1
      <4>3. QED
        BY <2>1, <3>3, <4>2
    <3>4. CASE d # ns[widx] /\ e = ns[widx]
      <4>1. PICK k \in Attached : ns[k] = d
        BY <2>4
      <4>2. Compatible(Mem(widx, l), Med(d, j))
        BY <1>2, <2>2, <3>4, <4>1
      <4>3. QED
        BY <2>1, <3>4, <4>2, CompatibleSym
    <3>5. CASE d # ns[widx] /\ e # ns[widx]
      BY <2>1, <3>1, <3>5 DEF IInv, MediaOK
    <3>6. QED
      BY <3>2, <3>3, <3>4, <3>5
  <2>7. MemoryOK'
    <3>1. SUFFICES ASSUME NEW i \in Attached, NEW k \in Attached,
                          NEW j \in FileIdx, NEW l \in FileIdx, <<i, j>> # <<k, l>>
                   PROVE  /\ Compatible(Mem(i, j), Mem(k, l))
                          /\ Compatible(Mem(i, j), Med(ns[k], l)')
      BY <1>3 DEF MemoryOK, Compatible, Disjoint, Mem, Med
    <3>2. ns[k] \in Devices
      BY <1>1, EntryTypes
    <3>3. Med(ns[k], l)' = IF k = widx THEN Mem(k, l) ELSE Med(ns[k], l)
      BY <1>3, <2>1, <2>3, <3>2 DEF Med
    <3>4. QED
      BY <2>2, <3>1, <3>3
  <2>8. CurOK'
    <3>1. SUFFICES ASSUME ret = "pcap"
                   PROVE  /\ cur \in Attached \X FileIdx
                          /\ \A i \in Attached, j \in FileIdx :
                               <<i, j>> # cur =>
                                 /\ Mem(i, j).endBlock <= Entry(cur).startBlock
                                 /\ (Med(ns[i], j)').endBlock <= Entry(cur).startBlock
      BY <1>2, <1>3 DEF CurOK, Mem, Med, Entry
    <3>2. /\ cur \in Attached \X FileIdx
          /\ \A i \in Attached, j \in FileIdx :
               <<i, j>> # cur => /\ Mem(i, j).endBlock <= Entry(cur).startBlock
                                 /\ Med(ns[i], j).endBlock <= Entry(cur).startBlock
      BY <1>2, <3>1 DEF IInv, CurOK
    <3>3. \A i \in Attached, j \in FileIdx :
            Med(ns[i], j)' = IF i = widx THEN Mem(i, j) ELSE Med(ns[i], j)
      BY <1>1, <1>3, <2>1, <2>3, EntryTypes DEF Med
    <3>4. QED
      BY <3>2, <3>3
  <2>9. QED
    BY <1>6, <2>5, <2>6, <2>7, <2>8 DEF IInv, TypeInv
<1>9. QED
  BY <1>2, <1>4, <1>1, <1>7, <1>8, AfterWrite DEF updateRaid

\* formatRaid (fs.c:46-53): every write empties a table.
LEMMA FormatRaidSafe ==
    ASSUME IInv, TypeInv', formatRaid
    PROVE  IInv'
<1> DEFINE sector == initMeta(widx, numdisks)
<1>1. TypeInv
  BY IInvType
<1>2. widx \in Attached /\ widx \in Idx /\ widx \in Nat /\ numdisks \in Nat
  BY <1>1, FSAssumption DEF formatRaid, Attached, Idx, TypeInv, TypeOK
<1>3. /\ ns' = ns /\ numdisks' = numdisks /\ Attached' = Attached
      /\ pc = "format" /\ pc' = "format" /\ ret' = ret /\ widx' = widx + 1
  BY DEF formatRaid, Attached
<1>4. /\ sector \in metaSector
      /\ sector.MAGIC
      /\ \A j \in FileIdx : IsFree(sector.content[j])
  BY <1>2, MadeSectors DEF initMeta, FreeEntry, IsFree
<1>5. \A i \in Idx : msector'[i] = IF i = widx THEN sector ELSE msector[i]
  BY <1>1, <1>2 DEF formatRaid, TypeInv, TypeOK
<1>6. ns[widx] \in Devices
  BY <1>1, <1>2, EntryTypes
<1>7. \A d \in Devices :
        \/ media'[d] = media[d]
        \/ media'[d] = sector /\ d = ns[widx]
  BY <1>1, <1>2, <1>4, AfterWrite DEF formatRaid
<1> HIDE DEF sector
<1>8. PlaceOK' /\ NsOK' /\ AttachedOK' /\ MemoryOK' /\ MagicOK' /\ SyncOK' /\ CurOK'
  BY <1>3 DEF IInv, PlaceOK, NsOK, AttachedOK, AllAttached, MemoryOK, MagicOK, SyncOK, CurOK,
              formatRaid
<1>9. BlankOK'
  BY <1>4, <1>7 DEF IInv, BlankOK, Med
<1>10. MediaOK'
  <2>1. SUFFICES ASSUME NEW d \in Devices, NEW e \in Devices,
                        NEW j \in FileIdx, NEW l \in FileIdx, <<d, j>> # <<e, l>>
                 PROVE  Compatible(Med(d, j)', Med(e, l)')
    BY DEF MediaOK, Compatible, Disjoint
  <2>2. Med(d, j)' \in metaFile /\ Med(e, l)' \in metaFile
    BY DEF Med, TypeInv, TypeOK, metaSector
  <2>3. Med(d, j)' = Med(d, j) \/ IsFree(Med(d, j)')
    BY <1>4, <1>7 DEF Med
  <2>4. Med(e, l)' = Med(e, l) \/ IsFree(Med(e, l)')
    BY <1>4, <1>7 DEF Med
  <2>5. Compatible(Med(d, j), Med(e, l))
    BY <2>1 DEF IInv, MediaOK
  <2>6. CASE IsFree(Med(d, j)')
    BY <2>2, <2>6, CompatibleFree
  <2>7. CASE IsFree(Med(e, l)')
    BY <2>2, <2>7, CompatibleFree, CompatibleSym
  <2>8. QED
    BY <2>3, <2>4, <2>5, <2>6, <2>7
<1>11. FormatOK'
  <2>1. SUFFICES ASSUME ret = "sort", NEW i \in Attached
                 PROVE  /\ \A j \in FileIdx : IsFree(media'[ns[i]].content[j])
                        /\ i < widx + 1 => /\ msector'[i].MAGIC
                                           /\ \A j \in FileIdx : IsFree(msector'[i].content[j])
    BY <1>3 DEF FormatOK, Med, Mem, IsFree
  <2>2. /\ \A j \in FileIdx : IsFree(Med(ns[i], j))
        /\ i < widx => msector[i].MAGIC /\ \A j \in FileIdx : IsFree(Mem(i, j))
    BY <1>3, <2>1 DEF IInv, FormatOK
  <2>3. ns[i] \in Devices /\ i \in Idx
    BY <1>1, EntryTypes
  <2>4. \A j \in FileIdx : IsFree(media'[ns[i]].content[j])
    BY <1>4, <1>7, <2>2, <2>3 DEF Med
  <2>5. ASSUME i < widx + 1
        PROVE  msector'[i].MAGIC /\ \A j \in FileIdx : IsFree(msector'[i].content[j])
    <3>1. CASE i = widx
      BY <1>4, <1>5, <2>3, <3>1
    <3>2. CASE i # widx
      <4>1. i < widx
        BY <1>2, <2>5, <3>2 DEF Attached
      <4>2. QED
        BY <1>5, <2>2, <2>3, <3>2, <4>1 DEF Mem
    <3>3. QED
      BY <3>1, <3>2
  <2>6. QED
    BY <2>4, <2>5
<1>12. QED
  BY <1>8, <1>9, <1>10, <1>11 DEF IInv, TypeInv

\* The end of a loop: after formatRaid of createRaid memory and disks are empty.
LEMMA LoopReturnsSafe ==
    ASSUME IInv, TypeInv', loopReturns
    PROVE  IInv'
<1>1. TypeInv
  BY IInvType
<1>2. /\ media' = media /\ msector' = msector /\ ns' = ns /\ numdisks' = numdisks
      /\ cur' = cur /\ tool' = tool /\ pc' = ret /\ ret' = "off"
      /\ pc \in {"format", "update"} /\ widx = numdisks
  BY DEF loopReturns, media_vars, raid_vars
<1>3. Attached' = Attached
  BY <1>2 DEF Attached
<1>4. /\ pc = "format" => ret \in {"create", "sort"}
      /\ pc = "update" => ret \in {"run", "pcap", "exit"}
      /\ ret = "run" => tool = "rm"
  BY DEF IInv, PlaceOK
<1>5. PlaceOK' /\ AttachedOK' /\ FormatOK' /\ NsOK'
  BY <1>2, <1>3, <1>4 DEF IInv, PlaceOK, AttachedOK, AllAttached, FormatOK, NsOK
<1>6. CASE ~(pc = "format" /\ ret = "sort")
  <2>1. SyncOK'
    BY <1>2, <1>4, <1>6 DEF SyncOK
  <2>2. CurOK'
    BY <1>2, <1>3, <1>4 DEF IInv, CurOK, Mem, Med, Entry
  <2>3. QED
    BY <1>2, <1>4, <1>5, <1>6, <2>1, <2>2, StaySafe
<1>7. CASE pc = "format" /\ ret = "sort"
  <2>1. \A i \in Attached :
          /\ \A j \in FileIdx : IsFree(Med(ns[i], j)) /\ IsFree(Mem(i, j))
          /\ msector[i].MAGIC
    <3>1. \A i \in Attached : i < widx
      BY <1>1, <1>2, FSAssumption DEF Attached, TypeInv, TypeOK
    <3>2. QED
      BY <1>7, <3>1 DEF IInv, FormatOK
  <2>2. \A i \in Attached, j \in FileIdx : Med(ns[i], j) \in metaFile /\ Mem(i, j) \in metaFile
    BY <1>1, EntryTypes
  <2>3. \A i \in Attached, j \in FileIdx : Mem(i, j) = Med(ns[i], j)
    BY <2>1, <2>2, FreeUnique
  <2>4. SyncOK'
    BY <1>2, <1>3, <2>3 DEF SyncOK, Mem, Med
  <2>5. MagicOK'
    BY <1>2, <1>3, <2>1 DEF MagicOK
  <2>6. MemoryOK'
    <3>1. \A i, k \in Attached, j, l \in FileIdx :
            /\ Compatible(Mem(i, j), Mem(k, l))
            /\ Compatible(Mem(i, j), Med(ns[k], l))
      BY <2>1, <2>2, CompatibleFree
    <3>2. QED
      BY <1>2, <1>3, <3>1 DEF MemoryOK, Mem, Med
  <2>7. CurOK'
    BY <1>2, <1>7 DEF CurOK
  <2>8. BlankOK' /\ MediaOK'
    BY <1>2 DEF IInv, BlankOK, MediaOK, Med
  <2>9. QED
    BY <1>5, <2>4, <2>5, <2>6, <2>7, <2>8 DEF IInv, TypeInv
<1>8. QED
  BY <1>6, <1>7

\* createRaid (fs.c:55-84) when every sector is read as it is: memory is what is
\* on the disks.
LEMMA ReadMetaSafe ==
    ASSUME IInv, TypeInv', readMeta
    PROVE  IInv'
<1> DEFINE cnt == Cardinality({i \in Attached : Faithful[i].MAGIC})
<1>1. TypeInv
  BY IInvType
<1>2. /\ pc = "create"
      /\ media' = media
      /\ \/ /\ cnt = 0
            /\ msector' = Faithful
            /\ UNCHANGED <<ns, numdisks, totalBlocks, numFiles, tool, cur, left>>
            /\ Call("format", "sort")
         \/ Ends
         \/ /\ cnt = numdisks
            /\ msector' = Faithful
            /\ UNCHANGED <<ns, numdisks, totalBlocks, numFiles>>
            /\ Goto("sort")
  BY DEF readMeta, createRaid, media_vars
<1>3. CASE Ends
  BY <1>2, <1>3, EndsSafe
<1>4. \A i \in Attached : Faithful[i] = media[ns[i]] /\ ns[i] \in Devices
  BY <1>1, EntryTypes DEF Faithful
<1>5. IsFiniteSet(Attached) /\ Cardinality(Attached) = numdisks
  <2>1. numdisks \in Nat
    BY <1>1, FSAssumption DEF TypeInv, TypeOK
  <2>2. 0 \in Int /\ numdisks - 1 \in Int
    BY <2>1
  <2>3. /\ IsFiniteSet(0 .. numdisks - 1)
        /\ Cardinality(0 .. numdisks - 1) =
             IF 0 > numdisks - 1 THEN 0 ELSE (numdisks - 1) - 0 + 1
    BY <2>2, FS_Interval, Zenon
  <2>4. QED
    BY <2>1, <2>3 DEF Attached
<1>6. IsFiniteSet({i \in Attached : Faithful[i].MAGIC})
  BY <1>5, FS_Subset
<1>7. ASSUME ~Ends, msector' = Faithful, ns' = ns, numdisks' = numdisks, cur' = cur
      PROVE  BlankOK' /\ MediaOK' /\ NsOK' /\ Attached' = Attached
  BY <1>2, <1>7 DEF IInv, BlankOK, MediaOK, NsOK, Med, Attached
<1>8. CASE /\ ~Ends
           /\ cnt = 0
           /\ msector' = Faithful
           /\ UNCHANGED <<ns, numdisks, totalBlocks, numFiles, tool, cur, left>>
           /\ Call("format", "sort")
  <2>1. BlankOK' /\ MediaOK' /\ NsOK' /\ Attached' = Attached
    BY <1>7, <1>8
  <2>2. {i \in Attached : Faithful[i].MAGIC} = {}
    BY <1>6, <1>8, FS_EmptySet
  <2>3. \A i \in Attached : ~media[ns[i]].MAGIC
    BY <1>4, <2>2
  <2>4. \A i \in Attached, j \in FileIdx : IsFree(Med(ns[i], j))
    BY <1>4, <2>3 DEF IInv, BlankOK
  <2>5. \A i \in Attached : ~(i < 0)
    BY <1>1, FSAssumption DEF Attached, TypeInv, TypeOK
  <2>6. FormatOK'
    BY <1>2, <1>8, <2>1, <2>4, <2>5 DEF FormatOK, Call, Med
  <2>7. PlaceOK' /\ MemoryOK' /\ MagicOK' /\ SyncOK' /\ CurOK'
    BY <1>8 DEF PlaceOK, MemoryOK, MagicOK, SyncOK, CurOK, Call
  <2>8. AttachedOK'
    BY <1>2, <1>8, <2>1 DEF IInv, AttachedOK, AllAttached
  <2>9. QED
    BY <2>1, <2>6, <2>7, <2>8 DEF IInv, TypeInv
<1>9. CASE /\ ~Ends
           /\ cnt = numdisks
           /\ msector' = Faithful
           /\ UNCHANGED <<ns, numdisks, totalBlocks, numFiles>>
           /\ Goto("sort")
  <2>1. BlankOK' /\ MediaOK' /\ NsOK' /\ Attached' = Attached
    BY <1>7, <1>9 DEF Goto
  <2>2. {i \in Attached : Faithful[i].MAGIC} = Attached
    BY <1>5, <1>9, FS_Subset
  <2>3. MagicOK'
    BY <1>9, <2>1, <2>2 DEF MagicOK
  <2>4. \A i \in Attached, j \in FileIdx : Mem(i, j)' = Med(ns[i], j)
    BY <1>4, <1>9 DEF Mem, Med
  <2>5. SyncOK'
    BY <1>2, <1>9, <2>1, <2>4 DEF SyncOK, Med
  <2>6. MemoryOK'
    <3>1. SUFFICES ASSUME NEW i \in Attached, NEW k \in Attached,
                          NEW j \in FileIdx, NEW l \in FileIdx, <<i, j>> # <<k, l>>
                   PROVE  Compatible(Med(ns[i], j), Med(ns[k], l))
      BY <1>2, <1>9, <2>1, <2>4 DEF MemoryOK, Med
    <3>2. <<ns[i], j>> # <<ns[k], l>>
      BY <3>1 DEF IInv, NsOK
    <3>3. QED
      BY <1>4, <3>2 DEF IInv, MediaOK
  <2>7. PlaceOK' /\ FormatOK' /\ CurOK'
    BY <1>2, <1>9 DEF IInv, PlaceOK, FormatOK, CurOK, Goto
  <2>8. AttachedOK'
    BY <1>2, <1>9, <2>1 DEF IInv, AttachedOK, AllAttached
  <2>9. QED
    BY <2>1, <2>3, <2>5, <2>6, <2>7, <2>8 DEF IInv, TypeInv
<1>10. QED
  BY <1>2, <1>3, <1>8, <1>9

\* qsort and the check after it (fs.c:85-98): the tables move with their disks.
LEMMA SortDisksSafe ==
    ASSUME IInv, TypeInv', sortDisks
    PROVE  IInv'
<1>1. TypeInv
  BY IInvType
<1>2. media' = media /\ pc = "sort"
  BY DEF sortDisks, media_vars
<1>3. CASE Ends
  BY <1>2, <1>3, EndsSafe
<1>4. CASE ~Ends
  <2>1. PICK p \in Sorting :
          /\ msector' = [i \in Idx |-> IF i \in Attached THEN msector[p[i]] ELSE msector[i]]
          /\ ns' = [i \in Idx |-> IF i \in Attached THEN ns[p[i]] ELSE ns[i]]
          /\ Goto("run")
          /\ numdisks' = numdisks
    BY <1>4 DEF sortDisks
  <2>2. /\ \A i \in Attached : p[i] \in Attached
        /\ \A j \in Attached : \E i \in Attached : p[i] = j
    BY DEF Sorting
  <2>3. \A i, k \in Attached : p[i] = p[k] => i = k
    <3>1. \A i \in Attached : i \in Int
      BY <1>1, FSAssumption DEF Attached, TypeInv, TypeOK
    <3>2. \A i \in Attached : msector[p[i]].diskId \in Nat
      BY <1>1, <2>2, EntryTypes DEF metaSector
    <3>3. \A i, k \in Attached : i < k => p[i] # p[k]
      BY <2>2, <3>1, <3>2 DEF Sorting
    <3>4. QED
      BY <3>1, <3>3
  <2>4. Attached' = Attached /\ Attached \subseteq Idx
    BY <1>1, <2>1, EntryTypes DEF Attached
  <2>5. \A i \in Attached : msector'[i] = msector[p[i]] /\ ns'[i] = ns[p[i]]
    BY <2>1, <2>4
  <2>6. \A i \in Attached, j \in FileIdx : /\ Mem(i, j)' = Mem(p[i], j)
                                           /\ Med(ns[i], j)' = Med(ns[p[i]], j)
    BY <1>2, <2>4, <2>5 DEF Mem, Med
  <2>7. NsOK'
    BY <2>2, <2>3, <2>4, <2>5 DEF IInv, NsOK
  <2>8. AttachedOK'
    <3>1. \A d \in Devices : \E i \in Attached : ns[i] = d
      BY <1>2 DEF IInv, AttachedOK, AllAttached
    <3>2. \A d \in Devices : \E i \in Attached : ns'[i] = d
      BY <2>2, <2>5, <3>1
    <3>3. QED
      BY <2>4, <3>2 DEF AttachedOK, AllAttached
  <2>9. MagicOK'
    BY <1>2, <2>2, <2>4, <2>5 DEF IInv, MagicOK
  <2>10. SyncOK'
    BY <1>2, <2>2, <2>4, <2>6 DEF IInv, SyncOK
  <2>11. MemoryOK'
    <3>1. SUFFICES ASSUME NEW i \in Attached, NEW k \in Attached,
                          NEW j \in FileIdx, NEW l \in FileIdx, <<i, j>> # <<k, l>>
                   PROVE  /\ Compatible(Mem(p[i], j), Mem(p[k], l))
                          /\ Compatible(Mem(p[i], j), Med(ns[p[k]], l))
      BY <2>4, <2>6 DEF MemoryOK
    <3>2. <<p[i], j>> # <<p[k], l>>
      BY <2>3, <3>1
    <3>3. QED
      BY <1>2, <2>2, <3>2 DEF IInv, MemoryOK
  <2>12. BlankOK' /\ MediaOK'
    BY <1>2 DEF IInv, BlankOK, MediaOK, Med
  <2>13. PlaceOK' /\ FormatOK' /\ CurOK'
    BY <1>2, <2>1 DEF IInv, PlaceOK, FormatOK, CurOK, Goto
  <2>14. QED
    BY <2>7, <2>8, <2>9, <2>10, <2>11, <2>12, <2>13 DEF IInv, TypeInv
<1>5. QED
  BY <1>3, <1>4

\* delFile (fs.c:193-210): the entry becomes free.
LEMMA RmFileSafe ==
    ASSUME IInv, TypeInv', NEW n \in Names, rmFile(n)
    PROVE  IInv'
<1>1. TypeInv
  BY IInvType
<1>2. /\ pc = "run" /\ tool = "rm" /\ tool' = tool /\ cur' = cur /\ media' = media
  BY DEF rmFile, media_vars
<1>3. CASE UNCHANGED <<raid_vars, pc, ret, widx>>
  <2>1. PlaceOK' /\ AttachedOK' /\ SyncOK' /\ FormatOK' /\ CurOK'
    BY <1>2, <1>3 DEF IInv, PlaceOK, AttachedOK, AllAttached, SyncOK, FormatOK, CurOK, Attached,
                      raid_vars
  <2>2. QED
    BY <1>2, <1>3, <2>1, StaySafe DEF raid_vars
<1>4. CASE (\E s \in findFile(n) : delFile(s)) /\ Call("update", "run")
  <2>1. PICK s \in findFile(n) : delFile(s)
    BY <1>4
  <2>2. s \in Attached \X FileIdx /\ s \in Slots
    BY <1>1, PickedEntry DEF findFile
  <2>3. FreeEntry \in metaFile /\ IsFree(FreeEntry)
    BY MadeSectors DEF IsFree, FreeEntry
  <2>4. /\ SetEntry(msector, s, FreeEntry) \in [Idx -> metaSector]
        /\ \A i \in Idx, j \in FileIdx :
             SetEntry(msector, s, FreeEntry)[i].content[j] =
               IF <<i, j>> = s THEN FreeEntry ELSE msector[i].content[j]
        /\ \A i \in Idx : SetEntry(msector, s, FreeEntry)[i].MAGIC = msector[i].MAGIC
    BY <1>1, <2>2, <2>3, SetEntryFacts DEF TypeInv, TypeOK
  <2>5. \A i \in Idx :
          /\ msector'[i].content = SetEntry(msector, s, FreeEntry)[i].content
          /\ msector'[i].MAGIC = SetEntry(msector, s, FreeEntry)[i].MAGIC
    BY <2>1, <2>4, CountFacts DEF delFile
  <2>6. \A i \in Attached, j \in FileIdx :
          Mem(i, j)' = IF <<i, j>> = s THEN FreeEntry ELSE Mem(i, j)
    BY <1>1, <2>4, <2>5, EntryTypes DEF Mem
  <2>7. \A i \in Attached : msector'[i].MAGIC = msector[i].MAGIC
    BY <1>1, <2>4, <2>5, EntryTypes
  <2>8. \A i \in Attached, j \in FileIdx :
          Compatible(FreeEntry, Mem(i, j)) /\ Compatible(FreeEntry, Med(ns[i], j))
    BY <1>1, <2>3, EntryTypes, CompatibleFree
  <2>9. /\ ns' = ns /\ numdisks' = numdisks /\ pc' = "update" /\ ret' = "run"
    BY <1>4, <2>1 DEF delFile, Call
  <2>10. PlaceOK' /\ CurOK'
    BY <1>2, <2>9 DEF PlaceOK, CurOK
  <2>11. QED
    BY <1>2, <2>2, <2>3, <2>6, <2>7, <2>8, <2>9, <2>10, ChangeEntry
<1>5. QED
  BY <1>3, <1>4 DEF rmFile

\* raid_file->endBlock = ... (cp.c:202, 236, spcap.c:76): one file gets another end.
LEMMA ResizeEntries ==
    ASSUME TypeInv, NEW s \in Attached \X FileIdx, NEW length \in Nat,
           msector' = Resize(s, length)
    PROVE  \E f \in metaFile :
             /\ f.name = Entry(s).name
             /\ f.startBlock = Entry(s).startBlock
             /\ f.endBlock = Entry(s).startBlock + length
             /\ \A i \in Attached, j \in FileIdx :
                  Mem(i, j)' = IF <<i, j>> = s THEN f ELSE Mem(i, j)
             /\ \A i \in Attached : msector'[i].MAGIC = msector[i].MAGIC
<1> DEFINE f == [Entry(s) EXCEPT !.endBlock = Entry(s).startBlock + length]
<1>1. Attached \subseteq Idx /\ s \in Slots
  BY EntryTypes DEF Slots
<1>2. Entry(s) \in metaFile /\ f \in metaFile
  BY <1>1, ResizeType DEF Entry, Slots, TypeInv, TypeOK, metaSector
<1>3. /\ f.name = Entry(s).name
      /\ f.startBlock = Entry(s).startBlock
      /\ f.endBlock = Entry(s).startBlock + length
  BY <1>2 DEF metaFile
<1>4. msector' = SetEntry(msector, s, f)
  BY DEF Resize
<1> HIDE DEF f
<1>5. /\ \A i \in Idx, j \in FileIdx :
           msector'[i].content[j] = IF <<i, j>> = s THEN f ELSE msector[i].content[j]
      /\ \A i \in Idx : msector'[i].MAGIC = msector[i].MAGIC
  BY <1>1, <1>2, <1>4, SetEntryFacts DEF TypeInv, TypeOK
<1>6. QED
  BY <1>1, <1>2, <1>3, <1>5 DEF Mem

\* cp over a file that is there (cp.c:183-203): the file does not become longer.
LEMMA CpOverwritesSafe ==
    ASSUME IInv, TypeInv', NEW n \in Names, NEW length \in Sizes, cpOverwrites(n, length)
    PROVE  IInv'
<1>1. TypeInv /\ length \in Nat
  BY IInvType, FSAssumption
<1>2. pc = "run" /\ tool \in {"cp", "pcap"} /\ media' = media
  BY DEF cpOverwrites, media_vars
<1>3. PICK s \in findFile(n) :
        \/ Goto("exit") /\ UNCHANGED raid_vars
        \/ /\ ~(length > Entry(s).endBlock - Entry(s).startBlock)
           /\ msector' = Resize(s, length)
           /\ Call("update", "exit")
           /\ UNCHANGED <<ns, numdisks, totalBlocks, numFiles, tool, cur, left>>
  BY DEF cpOverwrites
<1>4. s \in Attached \X FileIdx
  BY <1>1, PickedEntry DEF findFile
<1>5. CASE Goto("exit") /\ UNCHANGED raid_vars
  <2>1. PlaceOK' /\ AttachedOK' /\ SyncOK' /\ FormatOK' /\ CurOK'
    BY <1>2, <1>5 DEF IInv, PlaceOK, AttachedOK, AllAttached, SyncOK, FormatOK, CurOK, Attached,
                      raid_vars, Goto
  <2>2. QED
    BY <1>2, <1>5, <2>1, StaySafe DEF raid_vars, Goto
<1>6. CASE /\ ~(length > Entry(s).endBlock - Entry(s).startBlock)
           /\ msector' = Resize(s, length)
           /\ Call("update", "exit")
           /\ UNCHANGED <<ns, numdisks, totalBlocks, numFiles, tool, cur, left>>
  <2>1. PICK f \in metaFile :
          /\ f.name = Entry(s).name
          /\ f.startBlock = Entry(s).startBlock
          /\ f.endBlock = Entry(s).startBlock + length
          /\ \A i \in Attached, j \in FileIdx :
               Mem(i, j)' = IF <<i, j>> = s THEN f ELSE Mem(i, j)
          /\ \A i \in Attached : msector'[i].MAGIC = msector[i].MAGIC
    BY <1>1, <1>4, <1>6, ResizeEntries
  <2>2. /\ s = <<s[1], s[2]>> /\ s[1] \in Attached /\ s[2] \in FileIdx
        /\ Entry(s) = Mem(s[1], s[2]) /\ Entry(s) \in metaFile
    BY <1>1, <1>4, EntryTypes DEF Entry, Mem
  <2>3. f.endBlock <= Entry(s).endBlock
    BY <1>1, <1>6, <2>1, <2>2 DEF metaFile
  <2>4. ASSUME NEW i \in Attached, NEW j \in FileIdx, <<i, j>> # s
        PROVE  Compatible(f, Mem(i, j)) /\ Compatible(f, Med(ns[i], j))
    <3>1. /\ Compatible(Mem(s[1], s[2]), Mem(i, j))
          /\ Compatible(Mem(s[1], s[2]), Med(ns[i], j))
      BY <1>2, <2>2, <2>4 DEF IInv, MemoryOK
    <3>2. Mem(i, j) \in metaFile /\ Med(ns[i], j) \in metaFile
      BY <1>1, EntryTypes
    <3>3. QED
      BY <2>1, <2>2, <2>3, <3>1, <3>2, CompatibleShrink
  <2>5. ns' = ns /\ numdisks' = numdisks /\ pc' = "update" /\ ret' = "exit"
    BY <1>6 DEF Call
  <2>6. PlaceOK' /\ CurOK'
    BY <2>5 DEF PlaceOK, CurOK
  <2>7. QED
    BY <1>2, <1>4, <2>1, <2>4, <2>5, <2>6, ChangeEntry
<1>7. QED
  BY <1>3, <1>5, <1>6

\* addFile (fs.c:160-191): the new file is to the right of all the others, in
\* memory and, because memory has just been read, on the disks.
LEMMA CpAddsSafe ==
    ASSUME IInv, TypeInv', NEW n \in Names, NEW length \in Sizes, cpAdds(n, length)
    PROVE  IInv'
<1>1. TypeInv /\ length \in Nat
  BY IInvType, FSAssumption
<1>2. /\ pc = "run" /\ tool \in {"cp", "pcap"} /\ tool' = tool /\ media' = media
      /\ Named(n) = {}
  BY DEF cpAdds, media_vars, NotFound
<1>3. PICK right \in rightFreeBlock, s \in FreeSlots :
        /\ addFile(n, length, right, s)
        /\ \/ cur' = s /\ Call("update", "pcap")
           \/ cur' = NoSlot /\ Call("update", "exit")
  BY DEF cpAdds
<1>4. s \in Attached \X FileIdx /\ s \in Slots
  BY <1>1, PickedEntry DEF FreeSlots
<1>5. right \in Nat /\ \A i \in Attached, j \in FileIdx : Mem(i, j).endBlock <= right
  BY <1>1, RightFree DEF TypeInv
<1> DEFINE f == [name |-> n, startBlock |-> right, endBlock |-> right + length]
<1>6. f \in metaFile /\ f.name = n /\ f.startBlock = right
  BY <1>1, <1>5 DEF metaFile
<1>7. msector' = Count(SetEntry(msector, s, f), 1) /\ ns' = ns /\ numdisks' = numdisks
  BY <1>3 DEF addFile
<1> HIDE DEF f
<1>8. /\ SetEntry(msector, s, f) \in [Idx -> metaSector]
      /\ \A i \in Idx, j \in FileIdx :
           SetEntry(msector, s, f)[i].content[j] =
             IF <<i, j>> = s THEN f ELSE msector[i].content[j]
      /\ \A i \in Idx : SetEntry(msector, s, f)[i].MAGIC = msector[i].MAGIC
  BY <1>1, <1>4, <1>6, SetEntryFacts DEF TypeInv, TypeOK
<1>9. \A i \in Idx : /\ msector'[i].content = SetEntry(msector, s, f)[i].content
                     /\ msector'[i].MAGIC = SetEntry(msector, s, f)[i].MAGIC
  BY <1>7, <1>8, CountFacts
<1>10. \A i \in Attached, j \in FileIdx :
         Mem(i, j)' = IF <<i, j>> = s THEN f ELSE Mem(i, j)
  BY <1>1, <1>8, <1>9, EntryTypes DEF Mem
<1>11. \A i \in Attached : msector'[i].MAGIC = msector[i].MAGIC
  BY <1>1, <1>8, <1>9, EntryTypes
<1>12. ASSUME NEW i \in Attached, NEW j \in FileIdx
       PROVE  /\ Compatible(f, Mem(i, j)) /\ Compatible(f, Med(ns[i], j))
              /\ Mem(i, j).endBlock <= right /\ Med(ns[i], j).endBlock <= right
  <2>1. Mem(i, j) = Med(ns[i], j) /\ Mem(i, j) \in metaFile
    BY <1>1, <1>2, EntryTypes DEF IInv, SyncOK
  <2>2. Mem(i, j).name # n
    <3>1. <<i, j>> \in Attached \X FileIdx /\ Entry(<<i, j>>) = Mem(i, j)
      BY DEF Entry, Mem
    <3>2. Entry(<<i, j>>).name # n
      BY <1>2, <3>1 DEF Named
    <3>3. QED
      BY <3>1, <3>2
  <2>3. Mem(i, j).endBlock <= right
    BY <1>5
  <2>4. Compatible(f, Mem(i, j))
    BY <1>6, <2>1, <2>2, <2>3, CompatibleRight
  <2>5. QED
    BY <2>1, <2>3, <2>4
<1>13. pc' = "update" /\ ret' \in {"pcap", "exit"} /\ (ret' = "pcap" => cur' = s)
  BY <1>3 DEF Call
<1>14. PlaceOK'
  BY <1>13 DEF PlaceOK
<1>15. CurOK'
  <2>1. SUFFICES ASSUME cur' = s
                 PROVE  /\ s \in Attached \X FileIdx
                        /\ \A i \in Attached, j \in FileIdx :
                             <<i, j>> # s =>
                               /\ (Mem(i, j)').endBlock <= (Entry(cur)').startBlock
                               /\ (Med(ns[i], j)').endBlock <= (Entry(cur)').startBlock
    BY <1>7, <1>13 DEF CurOK, Mem, Med, Entry, Attached
  <2>2. s = <<s[1], s[2]>> /\ s[1] \in Attached /\ s[2] \in FileIdx
    BY <1>4
  <2>3. Entry(cur)' = Mem(s[1], s[2])'
    BY <2>1 DEF Entry, Mem
  <2>4. (Entry(cur)').startBlock = right
    BY <1>6, <1>10, <2>2, <2>3
  <2>5. \A i \in Attached, j \in FileIdx : Med(ns[i], j)' = Med(ns[i], j)
    BY <1>2, <1>7 DEF Med
  <2>6. QED
    BY <1>4, <1>10, <1>12, <2>4, <2>5
<1>16. QED
  BY <1>2, <1>4, <1>6, <1>7, <1>10, <1>11, <1>12, <1>13, <1>14, <1>15, ChangeEntry

\* freeSpcap (spcap.c:29-44): the pcap file may grow, nothing is to its right.
LEMMA FreeSpcapSafe ==
    ASSUME IInv, TypeInv', freeSpcap
    PROVE  IInv'
<1>1. TypeInv
  BY IInvType
<1>2. /\ pc = "pcap" /\ media' = media /\ ns' = ns /\ numdisks' = numdisks
      /\ pc' = "update" /\ ret' = "exit"
  BY DEF freeSpcap, media_vars, Call
<1>3. PICK flushed \in 0 .. numdisks : msector' = Resize(cur, flushed * SUPERSECTORNUM)
  BY DEF freeSpcap
<1>4. flushed * SUPERSECTORNUM \in Nat
  BY <1>1, SuperSectorAssumption, FSAssumption, SMT DEF TypeInv, TypeOK
<1>5. /\ cur \in Attached \X FileIdx
      /\ \A i \in Attached, j \in FileIdx :
           <<i, j>> # cur => /\ Mem(i, j).endBlock <= Entry(cur).startBlock
                             /\ Med(ns[i], j).endBlock <= Entry(cur).startBlock
  BY <1>2 DEF IInv, CurOK
<1>6. PICK f \in metaFile :
        /\ f.name = Entry(cur).name
        /\ f.startBlock = Entry(cur).startBlock
        /\ \A i \in Attached, j \in FileIdx :
             Mem(i, j)' = IF <<i, j>> = cur THEN f ELSE Mem(i, j)
        /\ \A i \in Attached : msector'[i].MAGIC = msector[i].MAGIC
  BY <1>1, <1>3, <1>4, <1>5, ResizeEntries
<1>7. /\ cur = <<cur[1], cur[2]>> /\ cur[1] \in Attached /\ cur[2] \in FileIdx
      /\ Entry(cur) = Mem(cur[1], cur[2])
  BY <1>5 DEF Entry, Mem
<1>8. ASSUME NEW i \in Attached, NEW j \in FileIdx, <<i, j>> # cur
      PROVE  Compatible(f, Mem(i, j)) /\ Compatible(f, Med(ns[i], j))
  <2>1. /\ Compatible(Entry(cur), Mem(i, j))
        /\ Compatible(Entry(cur), Med(ns[i], j))
    BY <1>2, <1>7, <1>8 DEF IInv, MemoryOK
  <2>2. /\ f.name = NoName \/ f.name # Mem(i, j).name
        /\ f.name = NoName \/ f.name # Med(ns[i], j).name
    BY <1>6, <2>1 DEF Compatible
  <2>3. Mem(i, j) \in metaFile /\ Med(ns[i], j) \in metaFile
    BY <1>1, EntryTypes
  <2>4. QED
    BY <1>5, <1>6, <1>8, <2>2, <2>3, CompatibleRight
<1>9. PlaceOK' /\ CurOK'
  BY <1>2 DEF PlaceOK, CurOK
<1>10. QED
  BY <1>2, <1>5, <1>6, <1>8, <1>9, ChangeEntry

-----------------------------------------------------------------------------
(* All steps.                                                              *)

LEMMA IInvNext ==
    ASSUME ~MissingAllowed, ~ReadFaults, IInv, [Next]_vars
    PROVE  IInv'
<1>1. TypeInv /\ TypeInv'
  BY IInvType, TypeNext
<1>2. ASSUME NEW t \in Tools, Launch(t) PROVE IInv'
  <2>1. /\ media' = media /\ msector' = msector /\ ns' = ns /\ numdisks' = numdisks
        /\ cur' = cur /\ ret' = ret /\ pc = "off" /\ pc' = "probe"
    BY <1>2 DEF Launch, media_vars, raid_vars
  <2>2. PlaceOK' /\ AttachedOK' /\ SyncOK' /\ FormatOK' /\ CurOK'
    BY <2>1 DEF IInv, PlaceOK, AttachedOK, SyncOK, FormatOK, CurOK
  <2>3. QED
    BY <1>1, <2>1, <2>2, StaySafe
<1>3. ASSUME NEW d \in Devices, register_ns(d) PROVE IInv'
  <2>1. /\ media' = media /\ pc = "probe" /\ pc' = pc /\ ret' = ret /\ numdisks' = numdisks + 1
        /\ \A i \in Attached : ns[i] # d
    BY <1>3 DEF register_ns, media_vars, process_vars
  <2>2. PlaceOK' /\ AttachedOK' /\ MemoryOK' /\ MagicOK' /\ SyncOK' /\ FormatOK' /\ CurOK'
    BY <1>3, <2>1 DEF IInv, PlaceOK, AttachedOK, MemoryOK, MagicOK, SyncOK, FormatOK, CurOK,
                      register_ns, process_vars
  <2>3. BlankOK' /\ MediaOK'
    BY <2>1 DEF IInv, BlankOK, MediaOK, Med
  <2>4. NsOK'
    <3>1. /\ numdisks \in Idx /\ Attached \subseteq Idx
          /\ \A i \in Attached' : i \in Attached \/ i = numdisks
          /\ numdisks \notin Attached
      BY <1>1, <1>3, <2>1, FSAssumption, AttachedInIdx
         DEF register_ns, Attached, Idx, TypeInv, TypeOK
    <3>2. \A i \in Idx : ns'[i] = IF i = numdisks THEN d ELSE ns[i]
      BY <1>1, <1>3, <3>1 DEF register_ns, TypeInv, TypeOK
    <3>3. QED
      BY <2>1, <3>1, <3>2 DEF IInv, NsOK
  <2>5. QED
    BY <1>1, <2>2, <2>3, <2>4 DEF IInv, TypeInv
<1>4. CASE app_init
  <2>1. /\ media' = media /\ msector' = msector /\ ns' = ns /\ numdisks' = numdisks
        /\ cur' = cur /\ AllAttached /\ pc' \in {"format", "create"}
        /\ pc = "probe" /\ ret = "off"
        /\ pc' = "format" => ret' = "create"
        /\ pc' # "format" => ret' = ret
    BY <1>4 DEF app_init, media_vars, raid_vars, Call, Goto, IInv, PlaceOK
  <2>2. PlaceOK' /\ AttachedOK' /\ SyncOK' /\ FormatOK' /\ CurOK'
    BY <2>1 DEF PlaceOK, AttachedOK, AllAttached, SyncOK, FormatOK, CurOK, Attached
  <2>3. QED
    BY <1>1, <2>1, <2>2, StaySafe
<1>5. CASE formatRaid
  BY <1>1, <1>5, FormatRaidSafe
<1>6. CASE updateRaid
  BY <1>1, <1>6, UpdateRaidSafe
<1>7. CASE loopReturns
  BY <1>1, <1>7, LoopReturnsSafe
<1>8. CASE readMeta
  BY <1>1, <1>8, ReadMetaSafe
<1>9. CASE readMetaFails
  BY <1>9 DEF readMetaFails
<1>10. CASE sortDisks
  BY <1>1, <1>10, SortDisksSafe
<1>11. ASSUME NEW n \in Names, rmFile(n) PROVE IInv'
  BY <1>1, <1>11, RmFileSafe
<1>12. ASSUME NEW n \in Names, NEW length \in Sizes, cpOverwrites(n, length) PROVE IInv'
  BY <1>1, <1>12, CpOverwritesSafe
<1>13. ASSUME NEW n \in Names, NEW length \in Sizes, cpAdds(n, length) PROVE IInv'
  BY <1>1, <1>13, CpAddsSafe
<1>14. ASSUME NEW n \in Names, NEW length \in Sizes, cpCannotAdd(n, length) PROVE IInv'
  BY <1>1, <1>14, EndsSafe DEF cpCannotAdd, media_vars
<1>15. CASE freeSpcap
  BY <1>1, <1>15, FreeSpcapSafe
<1>16. CASE pcapNotOpened
  BY <1>1, <1>16, EndsSafe DEF pcapNotOpened, media_vars
<1>16a. CASE probeFails
  BY <1>1, <1>16a, EndsSafe DEF probeFails, media_vars
<1>17. CASE runReturns
  <2>1. /\ media' = media /\ msector' = msector /\ ns' = ns /\ numdisks' = numdisks
        /\ cur' = cur /\ ret' = ret /\ tool' = tool /\ pc = "run" /\ pc' = "exit"
    BY <1>17 DEF runReturns, media_vars, raid_vars, Goto
  <2>2. PlaceOK' /\ AttachedOK' /\ SyncOK' /\ FormatOK' /\ CurOK'
    BY <2>1 DEF IInv, PlaceOK, AttachedOK, AllAttached, SyncOK, FormatOK, CurOK, Attached
  <2>3. QED
    BY <1>1, <2>1, <2>2, StaySafe
<1>18. CASE mainReturns
  BY <1>1, <1>18, EndsSafe DEF mainReturns, media_vars
<1>19. CASE Crash
  BY <1>1, <1>19, EndsSafe DEF Crash, media_vars
<1>20. CASE UNCHANGED vars
  <2>1. PlaceOK' /\ AttachedOK' /\ SyncOK' /\ FormatOK' /\ CurOK'
    BY <1>20 DEF vars, IInv, PlaceOK, AttachedOK, AllAttached, SyncOK, FormatOK, CurOK, Attached,
                 Mem, Med, Entry
  <2>2. QED
    BY <1>1, <1>20, <2>1, StaySafe DEF vars
<1>21. QED
  BY <1>2, <1>3, <1>4, <1>5, <1>6, <1>7, <1>8, <1>9, <1>10, <1>11, <1>12, <1>13, <1>14,
     <1>15, <1>16, <1>16a, <1>17, <1>18, <1>19, <1>20 DEF Next, Step

\* The invariant says of entries what the properties say of cells.
LEMMA IInvImplies == IInv => MediaDisjoint /\ MediaNamesUnique
<1> SUFFICES ASSUME IInv
             PROVE  MediaDisjoint /\ MediaNamesUnique
  OBVIOUS
<1>1. \A c \in Cells : /\ c[1] \in Devices /\ c[2] \in FileIdx /\ c = <<c[1], c[2]>>
                       /\ OnMedia(c) = Med(c[1], c[2])
  BY DEF Cells, OnMedia, Med
<1>2. \A c, d \in Cells : c # d => Compatible(OnMedia(c), OnMedia(d))
  BY <1>1 DEF IInv, MediaOK
<1>3. QED
  BY <1>2 DEF MediaDisjoint, MediaNamesUnique, LiveCells, Compatible

\* With all the disks present and readable, IInv holds for ever.
LEMMA Inductive ==
    ASSUME ~MissingAllowed, ~ReadFaults
    PROVE  Spec => []IInv
<1>1. Init => IInv
  BY IInvInit
<1>2. IInv /\ [Next]_vars => IInv'
  BY IInvNext
<1>3. QED
  BY <1>1, <1>2, PTL DEF Spec

\* No two files on the disks share a block of the raid: for any number of disks,
\* files, sizes, crashes and lost writes.
THEOREM DisjointCorrect ==
    ASSUME ~MissingAllowed, ~ReadFaults
    PROVE  Spec => []MediaDisjoint
<1>1. IInv => MediaDisjoint
  BY IInvImplies
<1>2. QED
  BY <1>1, Inductive, PTL

\* No two files on the disks have one name.
THEOREM NamesCorrect ==
    ASSUME ~MissingAllowed, ~ReadFaults
    PROVE  Spec => []MediaNamesUnique
<1>1. IInv => MediaNamesUnique
  BY IInvImplies
<1>2. QED
  BY <1>1, Inductive, PTL

-----------------------------------------------------------------------------
(* What a step may do to the disks.                                        *)

\* One sector is written as it is in memory, or the write is lost.
LEMMA Saving ==
    ASSUME IInv, updateRaid
    PROVE  /\ widx \in Attached
           /\ UNCHANGED <<msector, ns, numdisks, tool, pc, ret, cur>>
           /\ Attached' = Attached
           /\ \A i \in Attached, j \in FileIdx : Mem(i, j)' = Mem(i, j)
           /\ \/ media' = media
              \/ \A i \in Attached, j \in FileIdx :
                   Med(ns[i], j)' = IF i = widx THEN Mem(i, j) ELSE Med(ns[i], j)
<1>1. TypeInv
  BY IInvType
<1>2. widx \in Attached
  BY <1>1, FSAssumption DEF updateRaid, Attached, TypeInv, TypeOK
<1>3. UNCHANGED <<msector, ns, numdisks, tool, pc, ret, cur>> /\ Attached' = Attached
  BY DEF updateRaid, raid_vars, Attached
<1>4. msector[widx] \in metaSector
  BY <1>1, <1>2, EntryTypes
<1>5. ASSUME \A d \in Devices : media'[d] = IF d = ns[widx] THEN msector[widx] ELSE media[d]
      PROVE  \A i \in Attached, j \in FileIdx :
               Med(ns[i], j)' = IF i = widx THEN Mem(i, j) ELSE Med(ns[i], j)
  <2>1. \A i \in Attached : ns[i] \in Devices /\ (ns[i] = ns[widx] => i = widx)
    BY <1>2 DEF IInv, NsOK
  <2>2. QED
    BY <1>3, <1>5, <2>1 DEF Med, Mem
<1>6. QED
  BY <1>1, <1>2, <1>3, <1>4, <1>5, AfterWrite DEF updateRaid, Mem

\* A change stays what it is while it is saved.
LEMMA ChangeStays ==
    ASSUME NEW s \in Attached \X FileIdx, ChangeAt(s), Attached' = Attached,
           \A i \in Attached, j \in FileIdx :
             /\ Mem(i, j)' = Mem(i, j)
             /\ Med(ns[i], j)' = Med(ns[i], j) \/ Med(ns[i], j)' = Mem(i, j)
    PROVE  ChangeAt(s)'
<1>1. s = <<s[1], s[2]>> /\ s[1] \in Attached /\ s[2] \in FileIdx
  OBVIOUS
<1>2. \A i \in Attached, j \in FileIdx : <<i, j>> # s => Mem(i, j)' = Med(ns[i], j)'
  BY DEF ChangeAt
<1>3. Mem(s[1], s[2])' = Mem(s[1], s[2])
  BY <1>1
<1>4. (Mem(s[1], s[2])').startBlock <= (Mem(s[1], s[2])').endBlock
  BY <1>3 DEF ChangeAt
<1>5. CASE Med(ns[s[1]], s[2])' = Mem(s[1], s[2])
  BY <1>2, <1>3, <1>4, <1>5 DEF ChangeAt
<1>6. CASE Med(ns[s[1]], s[2])' = Med(ns[s[1]], s[2])
  <2>1. \/ /\ (Med(ns[s[1]], s[2])').name = (Mem(s[1], s[2])').name
           /\ (Med(ns[s[1]], s[2])').startBlock = (Mem(s[1], s[2])').startBlock
        \/ /\ (Med(ns[s[1]], s[2])').name = NoName
           /\ \A i \in Attached, j \in FileIdx :
                <<i, j>> # s => (Mem(i, j)').endBlock <= (Mem(s[1], s[2])').startBlock
    BY <1>3, <1>6 DEF ChangeAt
  <2>2. QED
    BY <1>2, <1>4, <2>1 DEF ChangeAt
<1>7. QED
  BY <1>1, <1>5, <1>6

LEMMA StepInit == Init => StepInv
  BY DEF Init, StepInv, RmOK, ChangeOK, FormatToolOK

\* The process is at no place that StepInv speaks of.
LEMMA StepElsewhere ==
    ASSUME pc' \notin {"run", "update", "pcap"},
           pc' = "format" /\ ret' = "create" => tool' = "format"
    PROVE  StepInv'
  BY DEF StepInv, RmOK, ChangeOK, FormatToolOK

LEMMA UpdateRaidStep ==
    ASSUME IInv, StepInv, updateRaid
    PROVE  StepInv'
<1>1. /\ UNCHANGED <<msector, ns, numdisks, tool, pc, ret, cur>>
      /\ Attached' = Attached
      /\ \A i \in Attached, j \in FileIdx :
           /\ Mem(i, j)' = Mem(i, j)
           /\ Med(ns[i], j)' = Med(ns[i], j) \/ Med(ns[i], j)' = Mem(i, j)
  BY Saving DEF Med
<1>2. RmOK'
  BY <1>1 DEF StepInv, RmOK
<1>3. \A s \in Attached \X FileIdx : ChangeAt(s) => ChangeAt(s)'
  BY <1>1, ChangeStays
<1>4. ChangeOK'
  <2>1. pc' = "pcap" \/ (pc' = "update" /\ ret' = "pcap") =>
          cur \in Attached \X FileIdx /\ ChangeAt(cur)
    BY <1>1 DEF StepInv, ChangeOK
  <2>2. pc' = "update" /\ ret' = "exit" => \E s \in Attached \X FileIdx : ChangeAt(s)
    BY <1>1 DEF StepInv, ChangeOK
  <2>3. cur' = cur
    BY <1>1
  <2>4. pc' = "pcap" \/ (pc' = "update" /\ ret' = "pcap") =>
          \A s \in Attached \X FileIdx : s = cur => ChangeAt(s)'
    BY <1>3, <2>1
  <2>5. pc' = "update" /\ ret' = "exit" => \E s \in Attached \X FileIdx : ChangeAt(s)'
    BY <1>3, <2>2
  <2>6. QED
    BY <1>1, <2>1, <2>3, <2>4, <2>5 DEF ChangeOK, ChangeAt
<1>5. FormatToolOK'
  BY <1>1 DEF StepInv, FormatToolOK
<1>6. QED
  BY <1>2, <1>4, <1>5 DEF StepInv

LEMMA LoopReturnsStep ==
    ASSUME IInv, StepInv, loopReturns
    PROVE  StepInv'
<1>1. /\ media' = media /\ msector' = msector /\ ns' = ns /\ numdisks' = numdisks
      /\ cur' = cur /\ tool' = tool /\ pc' = ret /\ ret' = "off"
      /\ pc \in {"format", "update"}
  BY DEF loopReturns, media_vars, raid_vars
<1>2. /\ pc = "format" => ret \in {"create", "sort"}
      /\ pc = "update" => ret \in {"run", "pcap", "exit"}
  BY DEF IInv, PlaceOK
<1>3. Attached' = Attached
  BY <1>1 DEF Attached
<1>4. RmOK'
  BY <1>1, <1>2, <1>3 DEF StepInv, RmOK, Mem, Med
<1>5. ChangeOK'
  <2>1. SUFFICES ASSUME pc' = "pcap"
                 PROVE  cur' \in (Attached \X FileIdx)' /\ ChangeAt(cur)'
    BY <1>1, <1>2 DEF ChangeOK
  <2>2. pc = "update" /\ ret = "pcap"
    BY <1>1, <1>2, <2>1
  <2>3. cur \in Attached \X FileIdx /\ ChangeAt(cur)
    BY <2>2 DEF StepInv, ChangeOK
  <2>4. QED
    BY <1>1, <1>3, <2>3 DEF ChangeAt, Mem, Med
<1>6. FormatToolOK'
  BY <1>1 DEF FormatToolOK
<1>7. QED
  BY <1>4, <1>5, <1>6 DEF StepInv

LEMMA SortDisksStep ==
    ASSUME IInv, sortDisks
    PROVE  StepInv'
<1>1. pc = "sort" /\ media' = media
  BY DEF sortDisks, media_vars
<1>2. CASE Ends
  BY <1>2, StepElsewhere DEF Ends
<1>3. CASE ~Ends
  <2>1. PICK p \in Sorting :
          /\ msector' = [i \in Idx |-> IF i \in Attached THEN msector[p[i]] ELSE msector[i]]
          /\ ns' = [i \in Idx |-> IF i \in Attached THEN ns[p[i]] ELSE ns[i]]
          /\ Goto("run")
          /\ numdisks' = numdisks
    BY <1>3 DEF sortDisks
  <2>2. \A i \in Attached : p[i] \in Attached
    BY DEF Sorting
  <2>3. Attached' = Attached /\ Attached \subseteq Idx
    BY <2>1, IInvType, EntryTypes DEF Attached
  <2>4. \A i \in Attached, j \in FileIdx : /\ Mem(i, j)' = Mem(p[i], j)
                                           /\ Med(ns[i], j)' = Med(ns[p[i]], j)
    BY <1>1, <2>1, <2>3 DEF Mem, Med
  <2>5. \A i \in Attached, j \in FileIdx : Mem(i, j)' = Med(ns[i], j)'
    BY <1>1, <2>2, <2>4 DEF IInv, SyncOK
  <2>6. RmOK'
    BY <2>1, <2>3, <2>5 DEF RmOK, Goto
  <2>7. QED
    BY <2>1, <2>6 DEF StepInv, ChangeOK, FormatToolOK, Goto
<1>4. QED
  BY <1>2, <1>3

LEMMA RmFileStep ==
    ASSUME IInv, StepInv, NEW n \in Names, rmFile(n)
    PROVE  StepInv'
<1>1. TypeInv
  BY IInvType
<1>2. /\ pc = "run" /\ tool = "rm" /\ tool' = tool /\ cur' = cur /\ media' = media
      /\ \A i \in Attached, j \in FileIdx :
           Mem(i, j) = Med(ns[i], j) \/ Mem(i, j).name = NoName
  BY DEF rmFile, media_vars, StepInv, RmOK
<1>3. CASE UNCHANGED <<raid_vars, pc, ret, widx>>
  BY <1>2, <1>3 DEF raid_vars, StepInv, RmOK, ChangeOK, FormatToolOK, Attached, Mem, Med
<1>4. CASE (\E s \in findFile(n) : delFile(s)) /\ Call("update", "run")
  <2>1. PICK s \in findFile(n) : delFile(s)
    BY <1>4
  <2>2. s \in Attached \X FileIdx /\ s \in Slots
    BY <1>1, PickedEntry DEF findFile
  <2>3. FreeEntry \in metaFile /\ FreeEntry.name = NoName
    BY MadeSectors DEF FreeEntry
  <2>4. /\ SetEntry(msector, s, FreeEntry) \in [Idx -> metaSector]
        /\ \A i \in Idx, j \in FileIdx :
             SetEntry(msector, s, FreeEntry)[i].content[j] =
               IF <<i, j>> = s THEN FreeEntry ELSE msector[i].content[j]
    BY <1>1, <2>2, <2>3, SetEntryFacts DEF TypeInv, TypeOK
  <2>5. \A i \in Idx : msector'[i].content = SetEntry(msector, s, FreeEntry)[i].content
    BY <2>1, <2>4, CountFacts DEF delFile
  <2>6. /\ ns' = ns /\ numdisks' = numdisks /\ pc' = "update" /\ ret' = "run"
        /\ Attached' = Attached
    BY <1>4, <2>1 DEF delFile, Call, Attached
  <2>7. \A i \in Attached, j \in FileIdx :
          /\ Mem(i, j)' = Mem(i, j) \/ (Mem(i, j)').name = NoName
          /\ Med(ns[i], j)' = Med(ns[i], j)
    BY <1>1, <1>2, <2>3, <2>4, <2>5, <2>6, EntryTypes DEF Mem, Med
  <2>8. RmOK'
    BY <1>2, <2>6, <2>7 DEF RmOK
  <2>9. QED
    BY <2>6, <2>8 DEF StepInv, ChangeOK, FormatToolOK
<1>5. QED
  BY <1>3, <1>4 DEF rmFile

\* cp has changed one entry of a memory that was what is on the disks.
LEMMA ChangeMade ==
    ASSUME NEW s \in Attached \X FileIdx, NEW f,
           media' = media, ns' = ns, numdisks' = numdisks,
           \A i \in Attached, j \in FileIdx : <<i, j>> # s => Mem(i, j) = Med(ns[i], j),
           \A i \in Attached, j \in FileIdx :
             Mem(i, j)' = IF <<i, j>> = s THEN f ELSE Mem(i, j),
           f.startBlock <= f.endBlock,
           \/ /\ Med(ns[s[1]], s[2]).name = f.name
              /\ Med(ns[s[1]], s[2]).startBlock = f.startBlock
           \/ /\ Med(ns[s[1]], s[2]).name = NoName
              /\ \A i \in Attached, j \in FileIdx :
                   <<i, j>> # s => Mem(i, j).endBlock <= f.startBlock
    PROVE  ChangeAt(s)' /\ Attached' = Attached
<1>1. Attached' = Attached /\ s = <<s[1], s[2]>> /\ s[1] \in Attached /\ s[2] \in FileIdx
  BY DEF Attached
<1>2. Mem(s[1], s[2])' = f
  BY <1>1
<1>3. \A i \in Attached, j \in FileIdx : Med(ns[i], j)' = Med(ns[i], j)
  BY DEF Med
<1>4. \A i \in Attached, j \in FileIdx : <<i, j>> # s => Mem(i, j)' = Mem(i, j)
  OBVIOUS
<1>5. QED
  BY <1>1, <1>2, <1>3, <1>4 DEF ChangeAt

LEMMA CpOverwritesStep ==
    ASSUME IInv, StepInv, NEW n \in Names, NEW length \in Sizes, cpOverwrites(n, length)
    PROVE  StepInv'
<1>1. TypeInv /\ length \in Nat
  BY IInvType, FSAssumption
<1>2. pc = "run" /\ tool \in {"cp", "pcap"} /\ media' = media
  BY DEF cpOverwrites, media_vars
<1>3. PICK s \in findFile(n) :
        \/ Goto("exit")
        \/ /\ msector' = Resize(s, length)
           /\ Call("update", "exit")
           /\ UNCHANGED <<ns, numdisks, totalBlocks, numFiles, tool, cur, left>>
  BY DEF cpOverwrites
<1>4. CASE Goto("exit")
  BY <1>4, StepElsewhere DEF Goto
<1>5. CASE /\ msector' = Resize(s, length)
           /\ Call("update", "exit")
           /\ UNCHANGED <<ns, numdisks, totalBlocks, numFiles, tool, cur, left>>
  <2>1. s \in Attached \X FileIdx
    BY <1>1, PickedEntry DEF findFile
  <2>2. PICK f \in metaFile :
          /\ f.name = Entry(s).name
          /\ f.startBlock = Entry(s).startBlock
          /\ f.endBlock = Entry(s).startBlock + length
          /\ \A i \in Attached, j \in FileIdx :
               Mem(i, j)' = IF <<i, j>> = s THEN f ELSE Mem(i, j)
    BY <1>1, <1>5, <2>1, ResizeEntries
  <2>3. \A i \in Attached, j \in FileIdx : Mem(i, j) = Med(ns[i], j)
    BY <1>2 DEF IInv, SyncOK
  <2>4. Entry(s) = Med(ns[s[1]], s[2])
    BY <2>1, <2>3 DEF Entry, Mem
  <2>5. f.startBlock <= f.endBlock
    BY <1>1, <2>2 DEF metaFile
  <2>6. ChangeAt(s)' /\ Attached' = Attached
    BY <1>2, <1>5, <2>1, <2>2, <2>3, <2>4, <2>5, ChangeMade
  <2>7. RmOK' /\ FormatToolOK'
    BY <1>2, <1>5 DEF RmOK, FormatToolOK, Call
  <2>8. ChangeOK'
    BY <1>5, <2>1, <2>6 DEF ChangeOK, Call
  <2>9. QED
    BY <2>7, <2>8 DEF StepInv
<1>6. QED
  BY <1>3, <1>4, <1>5

LEMMA CpAddsStep ==
    ASSUME IInv, StepInv, NEW n \in Names, NEW length \in Sizes, cpAdds(n, length)
    PROVE  StepInv'
<1>1. TypeInv /\ length \in Nat
  BY IInvType, FSAssumption
<1>2. pc = "run" /\ tool \in {"cp", "pcap"} /\ tool' = tool /\ media' = media
  BY DEF cpAdds, media_vars
<1>3. PICK right \in rightFreeBlock, s \in FreeSlots :
        /\ addFile(n, length, right, s)
        /\ \/ cur' = s /\ Call("update", "pcap")
           \/ cur' = NoSlot /\ Call("update", "exit")
  BY DEF cpAdds
<1>4. s \in Attached \X FileIdx /\ s \in Slots /\ Entry(s).name = NoName
  BY <1>1, PickedEntry DEF FreeSlots
<1>5. right \in Nat /\ \A i \in Attached, j \in FileIdx : Mem(i, j).endBlock <= right
  BY <1>1, RightFree DEF TypeInv
<1> DEFINE f == [name |-> n, startBlock |-> right, endBlock |-> right + length]
<1>6. f \in metaFile /\ f.startBlock = right /\ f.startBlock <= f.endBlock
  BY <1>1, <1>5 DEF metaFile
<1>7. msector' = Count(SetEntry(msector, s, f), 1) /\ ns' = ns /\ numdisks' = numdisks
  BY <1>3 DEF addFile
<1> HIDE DEF f
<1>8. /\ SetEntry(msector, s, f) \in [Idx -> metaSector]
      /\ \A i \in Idx, j \in FileIdx :
           SetEntry(msector, s, f)[i].content[j] =
             IF <<i, j>> = s THEN f ELSE msector[i].content[j]
  BY <1>1, <1>4, <1>6, SetEntryFacts DEF TypeInv, TypeOK
<1>9. \A i \in Idx : msector'[i].content = SetEntry(msector, s, f)[i].content
  BY <1>7, <1>8, CountFacts
<1>10. \A i \in Attached, j \in FileIdx :
         Mem(i, j)' = IF <<i, j>> = s THEN f ELSE Mem(i, j)
  BY <1>1, <1>8, <1>9, EntryTypes DEF Mem
<1>11. \A i \in Attached, j \in FileIdx : Mem(i, j) = Med(ns[i], j)
  BY <1>2 DEF IInv, SyncOK
<1>12. Med(ns[s[1]], s[2]).name = NoName
  BY <1>4, <1>11 DEF Entry, Mem
<1>13. ChangeAt(s)' /\ Attached' = Attached
  BY <1>2, <1>4, <1>5, <1>6, <1>7, <1>10, <1>11, <1>12, ChangeMade
<1>14. pc' = "update" /\ (ret' = "exit" \/ (ret' = "pcap" /\ cur' = s))
  BY <1>3 DEF Call
<1>15. RmOK' /\ FormatToolOK'
  BY <1>2, <1>14 DEF RmOK, FormatToolOK
<1>16. ChangeOK'
  BY <1>4, <1>13, <1>14 DEF ChangeOK, ChangeAt
<1>17. QED
  BY <1>15, <1>16 DEF StepInv

LEMMA FreeSpcapStep ==
    ASSUME IInv, StepInv, freeSpcap
    PROVE  StepInv'
<1>1. TypeInv
  BY IInvType
<1>2. /\ pc = "pcap" /\ media' = media /\ ns' = ns /\ numdisks' = numdisks
      /\ pc' = "update" /\ ret' = "exit" /\ tool' = tool
  BY DEF freeSpcap, media_vars, Call
<1>3. PICK flushed \in 0 .. numdisks : msector' = Resize(cur, flushed * SUPERSECTORNUM)
  BY DEF freeSpcap
<1>4. flushed * SUPERSECTORNUM \in Nat
  BY <1>1, SuperSectorAssumption, FSAssumption, SMT DEF TypeInv, TypeOK
<1>5. cur \in Attached \X FileIdx /\ ChangeAt(cur) /\ tool # "rm"
  BY <1>2 DEF StepInv, ChangeOK, RmOK
<1>6. PICK f \in metaFile :
        /\ f.name = Entry(cur).name
        /\ f.startBlock = Entry(cur).startBlock
        /\ f.endBlock = Entry(cur).startBlock + flushed * SUPERSECTORNUM
        /\ \A i \in Attached, j \in FileIdx :
             Mem(i, j)' = IF <<i, j>> = cur THEN f ELSE Mem(i, j)
  BY <1>1, <1>3, <1>4, <1>5, ResizeEntries
<1>7. Entry(cur) = Mem(cur[1], cur[2])
  BY DEF Entry, Mem
<1>8. f.startBlock <= f.endBlock
  BY <1>4, <1>6 DEF metaFile
<1>9. \E s \in Attached \X FileIdx : ChangeAt(s)' /\ Attached' = Attached
  <2>1. PICK s \in Attached \X FileIdx : s = cur
    BY <1>5
  <2>2. /\ \A i \in Attached, j \in FileIdx : <<i, j>> # s => Mem(i, j) = Med(ns[i], j)
        /\ \/ /\ Med(ns[s[1]], s[2]).name = f.name
              /\ Med(ns[s[1]], s[2]).startBlock = f.startBlock
           \/ /\ Med(ns[s[1]], s[2]).name = NoName
              /\ \A i \in Attached, j \in FileIdx :
                   <<i, j>> # s => Mem(i, j).endBlock <= f.startBlock
    BY <1>5, <1>6, <1>7, <2>1 DEF ChangeAt
  <2>3. \A i \in Attached, j \in FileIdx :
          Mem(i, j)' = IF <<i, j>> = s THEN f ELSE Mem(i, j)
    BY <1>6, <2>1
  <2>4. ChangeAt(s)' /\ Attached' = Attached
    BY <1>2, <1>8, <2>2, <2>3, ChangeMade
  <2>5. QED
    BY <2>4
<1>10. RmOK' /\ FormatToolOK'
  BY <1>2, <1>5 DEF RmOK, FormatToolOK
<1>11. ChangeOK'
  BY <1>2, <1>9 DEF ChangeOK
<1>12. QED
  BY <1>10, <1>11 DEF StepInv

LEMMA StepNext ==
    ASSUME ~ReadFaults, IInv, StepInv, [Next]_vars
    PROVE  StepInv'
<1>1. ASSUME NEW t \in Tools, Launch(t) PROVE StepInv'
  BY <1>1, StepElsewhere DEF Launch
<1>2. ASSUME NEW d \in Devices, register_ns(d) PROVE StepInv'
  BY <1>2, StepElsewhere DEF register_ns, process_vars
<1>3. CASE app_init
  BY <1>3, StepElsewhere DEF app_init, Call, Goto
<1>4. CASE formatRaid
  BY <1>4, StepElsewhere DEF formatRaid, StepInv, FormatToolOK
<1>5. CASE updateRaid
  BY <1>5, UpdateRaidStep
<1>6. CASE loopReturns
  BY <1>6, LoopReturnsStep
<1>7. CASE readMeta
  BY <1>7, StepElsewhere DEF readMeta, createRaid, Ends, Call, Goto
<1>8. CASE readMetaFails
  BY <1>8 DEF readMetaFails
<1>9. CASE sortDisks
  BY <1>9, SortDisksStep
<1>10. ASSUME NEW n \in Names, rmFile(n) PROVE StepInv'
  BY <1>10, RmFileStep
<1>11. ASSUME NEW n \in Names, NEW length \in Sizes, cpOverwrites(n, length) PROVE StepInv'
  BY <1>11, CpOverwritesStep
<1>12. ASSUME NEW n \in Names, NEW length \in Sizes, cpAdds(n, length) PROVE StepInv'
  BY <1>12, CpAddsStep
<1>13. ASSUME NEW n \in Names, NEW length \in Sizes, cpCannotAdd(n, length) PROVE StepInv'
  BY <1>13, StepElsewhere DEF cpCannotAdd, Ends
<1>14. CASE freeSpcap
  BY <1>14, FreeSpcapStep
<1>15. CASE pcapNotOpened \/ probeFails \/ mainReturns \/ Crash
  BY <1>15, StepElsewhere DEF pcapNotOpened, probeFails, mainReturns, Crash, Ends
<1>16. CASE runReturns
  BY <1>16, StepElsewhere DEF runReturns, Goto
<1>17. CASE UNCHANGED vars
  <2>1. UNCHANGED <<media, ns, msector, numdisks, tool, pc, ret, cur>> /\ Attached' = Attached
    BY <1>17 DEF vars, Attached
  <2>2. RmOK' /\ FormatToolOK'
    BY <2>1 DEF StepInv, RmOK, FormatToolOK, Mem, Med
  <2>3. \A s : ChangeAt(s)' = ChangeAt(s)
    BY <2>1 DEF ChangeAt, Mem, Med
  <2>4. ChangeAt(cur)' = ChangeAt(cur)
    BY <2>1 DEF ChangeAt, Mem, Med
  <2>5. ChangeOK'
    BY <2>1, <2>3, <2>4 DEF StepInv, ChangeOK
  <2>6. QED
    BY <2>2, <2>5 DEF StepInv
<1>18. QED
  BY <1>1, <1>2, <1>3, <1>4, <1>5, <1>6, <1>7, <1>8, <1>9, <1>10, <1>11, <1>12, <1>13,
     <1>14, <1>15, <1>16, <1>17 DEF Next, Step

-----------------------------------------------------------------------------
(* The disks as an extent store.                                           *)

\* What a step does to the cells of the disks: nothing,
CellsKept == \A c \in Cells : OnMedia(c)' = OnMedia(c)

\* it frees some of them,
CellsFreed ==
    /\ tool \in {"rm", "format"}
    /\ \A c \in Cells : OnMedia(c)' = OnMedia(c) \/ (OnMedia(c)').name = NoName

\* or it changes one as ChangeAt says.
CellChanged(c) ==
    /\ \A d \in Cells : d # c => OnMedia(d)' = OnMedia(d)
    /\ (OnMedia(c)').startBlock <= (OnMedia(c)').endBlock
    /\ \/ /\ (OnMedia(c)').name = OnMedia(c).name
          /\ (OnMedia(c)').startBlock = OnMedia(c).startBlock
       \/ /\ OnMedia(c).name = NoName
          /\ \A d \in Cells : d # c => OnMedia(d).endBlock <= (OnMedia(c)').startBlock

LEMMA CellFacts ==
    /\ \A c \in Cells : /\ c[1] \in Devices /\ c[2] \in FileIdx /\ c = <<c[1], c[2]>>
                        /\ OnMedia(c) = Med(c[1], c[2])
    /\ \A d \in Devices, j \in FileIdx : /\ <<d, j>> \in Cells
                                         /\ OnMedia(<<d, j>>) = Med(d, j)
                                         /\ OnMedia(<<d, j>>)' = Med(d, j)'
  BY DEF Cells, OnMedia, Med

\* updateRaid, on the cells of all the disks: every disk is attached.
LEMMA UpdateRaidCells ==
    ASSUME IInv, StepInv, updateRaid
    PROVE  CellsKept \/ CellsFreed \/ \E c \in Cells : CellChanged(c)
<1>1. /\ widx \in Attached /\ pc = "update" /\ ns' = ns
      /\ \/ media' = media
         \/ \A i \in Attached, j \in FileIdx :
              Med(ns[i], j)' = IF i = widx THEN Mem(i, j) ELSE Med(ns[i], j)
  BY Saving DEF updateRaid
<1>2. CASE media' = media
  BY <1>2 DEF CellsKept, OnMedia
<1>3. CASE \A i \in Attached, j \in FileIdx :
             Med(ns[i], j)' = IF i = widx THEN Mem(i, j) ELSE Med(ns[i], j)
  <2>1. \A c \in Cells : \E i \in Attached : c = <<ns[i], c[2]>> /\ c[2] \in FileIdx
    BY <1>1, CellFacts DEF IInv, AttachedOK, AllAttached
  <2>2. \A c \in Cells, i \in Attached, j \in FileIdx :
          c = <<ns[i], j>> => /\ OnMedia(c) = Med(ns[i], j)
                              /\ OnMedia(c)' = Med(ns[i], j)'
    BY <1>1 DEF Med, OnMedia
  <2>3. CASE ret = "run"
    <3>1. tool = "rm"
      BY <2>3 DEF IInv, PlaceOK
    <3>2. \A i \in Attached, j \in FileIdx :
            Med(ns[i], j)' = Med(ns[i], j) \/ (Med(ns[i], j)').name = NoName
      BY <1>1, <1>3, <3>1 DEF StepInv, RmOK
    <3>3. QED
      BY <2>1, <2>2, <3>1, <3>2 DEF CellsFreed
  <2>4. CASE ret # "run"
    <3>1. PICK s \in Attached \X FileIdx : ChangeAt(s)
      BY <1>1, <2>4 DEF IInv, PlaceOK, StepInv, ChangeOK
    <3>2. s = <<s[1], s[2]>> /\ s[1] \in Attached /\ s[2] \in FileIdx
      BY <3>1
    <3>3. PICK c \in Cells : /\ c = <<ns[s[1]], s[2]>>
                             /\ OnMedia(c) = Med(ns[s[1]], s[2])
                             /\ OnMedia(c)' = Med(ns[s[1]], s[2])'
      BY <2>2, <3>2, CellFacts DEF IInv, NsOK
    <3>4. \A i \in Attached, j \in FileIdx : <<i, j>> # s => Med(ns[i], j)' = Med(ns[i], j)
      BY <1>3, <3>1 DEF ChangeAt
    <3>5. \A d \in Cells : d # c => \E i \in Attached, j \in FileIdx :
                                      d = <<ns[i], j>> /\ <<i, j>> # s
      BY <2>1, <3>2, <3>3
    <3>6. CASE Med(ns[s[1]], s[2])' = Med(ns[s[1]], s[2])
      <4>1. \A i \in Attached, j \in FileIdx : Med(ns[i], j)' = Med(ns[i], j)
        BY <3>2, <3>4, <3>6
      <4>2. QED
        BY <2>1, <2>2, <4>1 DEF CellsKept
    <3>7. CASE Med(ns[s[1]], s[2])' = Mem(s[1], s[2])
      <4> DEFINE m == Mem(s[1], s[2])
      <4>1. OnMedia(c)' = m
        BY <3>3, <3>7
      <4>2. \A d \in Cells : d # c => OnMedia(d)' = OnMedia(d)
        BY <2>2, <3>4, <3>5
      <4>3. \/ m.name = OnMedia(c).name /\ m.startBlock = OnMedia(c).startBlock
            \/ /\ OnMedia(c).name = NoName
               /\ \A i \in Attached, j \in FileIdx :
                    <<i, j>> # s => Med(ns[i], j).endBlock <= m.startBlock
        BY <3>1, <3>3 DEF ChangeAt
      <4>4. m.startBlock <= m.endBlock
        BY <3>1 DEF ChangeAt
      <4> HIDE DEF m
      <4>5. \/ m.name = OnMedia(c).name /\ m.startBlock = OnMedia(c).startBlock
            \/ /\ OnMedia(c).name = NoName
               /\ \A d \in Cells : d # c => OnMedia(d).endBlock <= m.startBlock
        BY <2>2, <3>5, <4>3
      <4>6. CellChanged(c)
        BY <4>1, <4>2, <4>4, <4>5 DEF CellChanged
      <4>7. QED
        BY <3>3, <4>6
    <3>8. QED
      BY <1>3, <3>2, <3>6, <3>7
  <2>5. QED
    BY <2>3, <2>4
<1>4. QED
  BY <1>1, <1>2, <1>3

LEMMA FormatRaidCells ==
    ASSUME IInv, StepInv, formatRaid
    PROVE  CellsKept \/ CellsFreed
<1>1. TypeInv
  BY IInvType
<1>2. widx \in Attached /\ widx \in Nat /\ numdisks \in Nat /\ pc = "format"
  BY <1>1, FSAssumption DEF formatRaid, Attached, TypeInv, TypeOK
<1> DEFINE sector == initMeta(widx, numdisks)
<1>3. sector \in metaSector /\ \A j \in FileIdx : sector.content[j] = FreeEntry
  BY <1>2, MadeSectors DEF initMeta
<1>4. \A d \in Devices : media'[d] = media[d] \/ media'[d] = sector
  BY <1>1, <1>2, <1>3, AfterWrite DEF formatRaid
<1> HIDE DEF sector
<1>5. \A c \in Cells : OnMedia(c)' = OnMedia(c) \/ OnMedia(c)' = FreeEntry
  BY <1>3, <1>4, CellFacts DEF OnMedia
<1>6. CASE ret = "create"
  BY <1>2, <1>5, <1>6 DEF StepInv, FormatToolOK, CellsFreed, FreeEntry
<1>7. CASE ret = "sort"
  <2>1. ASSUME NEW c \in Cells
        PROVE  OnMedia(c) = FreeEntry
    <3>1. PICK i \in Attached : ns[i] = c[1]
      BY <1>2, CellFacts DEF IInv, AttachedOK, AllAttached
    <3>2. IsFree(OnMedia(c))
      BY <1>2, <1>7, <3>1, CellFacts DEF IInv, FormatOK
    <3>3. OnMedia(c) \in metaFile
      BY <1>1, CellFacts, EntryTypes
    <3>4. FreeEntry \in metaFile /\ IsFree(FreeEntry)
      BY MadeSectors DEF IsFree, FreeEntry
    <3>5. QED
      BY <3>2, <3>3, <3>4, FreeUnique
  <2>2. QED
    BY <1>5, <2>1 DEF CellsKept
<1>8. QED
  BY <1>2, <1>6, <1>7 DEF IInv, PlaceOK

\* No other step writes a disk.
LEMMA StepCells ==
    ASSUME IInv, StepInv, [Next]_vars
    PROVE  CellsKept \/ CellsFreed \/ \E c \in Cells : CellChanged(c)
<1>1. CASE updateRaid
  BY <1>1, UpdateRaidCells
<1>2. CASE formatRaid
  BY <1>2, FormatRaidCells
<1>3. CASE media' = media
  BY <1>3 DEF CellsKept, OnMedia
<1>4. media' = media \/ updateRaid \/ formatRaid
  BY DEF Next, Step, vars, media_vars, Launch, register_ns, probeFails, app_init, loopReturns,
         readMeta, readMetaFails, createRaid, sortDisks, rmFile, cpOverwrites, cpAdds,
         cpCannotAdd, freeSpcap, pcapNotOpened, runReturns, mainReturns, Crash
<1>5. QED
  BY <1>1, <1>2, <1>3, <1>4

Files == {OnMedia(c) : c \in LiveCells}

\* A cell changed as CellChanged says is a step of the extent store.
LEMMA ChangeRefines ==
    ASSUME IInv, IInv', NEW c \in Cells, CellChanged(c)
    PROVE  Store!Add \/ Store!Resize \/ Files' = Files
<1> DEFINE old == OnMedia(c)
           new == OnMedia(c)'
<1>1. /\ \A d \in Cells : d # c => OnMedia(d)' = OnMedia(d)
      /\ new.startBlock <= new.endBlock
      /\ \/ new.name = old.name /\ new.startBlock = old.startBlock
         \/ /\ old.name = NoName
            /\ \A d \in Cells : d # c => OnMedia(d).endBlock <= new.startBlock
  BY DEF CellChanged
<1>2. \A d \in Cells : d # c => Compatible(old, OnMedia(d))
  BY CellFacts DEF IInv, MediaOK
<1>3. \A d \in Cells : d # c => Compatible(new, OnMedia(d)')
  BY CellFacts DEF IInv, MediaOK, OnMedia, Med
<1>4. Files = {OnMedia(d) : d \in {e \in Cells : OnMedia(e).name # NoName}}
  BY DEF Files, LiveCells
<1>5. Files' = {OnMedia(d)' : d \in {e \in Cells : (OnMedia(e)').name # NoName}}
  BY DEF Files, LiveCells, Cells
<1> DEFINE rest == {OnMedia(d) : d \in {e \in Cells : e # c /\ OnMedia(e).name # NoName}}
<1>6. Files = IF old.name = NoName THEN rest ELSE rest \cup {old}
  BY <1>4
<1>7. Files' = IF new.name = NoName THEN rest ELSE rest \cup {new}
  <2>1. {OnMedia(d)' : d \in {e \in Cells : e # c /\ (OnMedia(e)').name # NoName}} = rest
    BY <1>1
  <2>2. QED
    BY <1>5, <2>1
<1>8. \A g \in rest : /\ old.name # NoName => old.name # g.name
                      /\ new.name # NoName => new.name # g.name
                      /\ Disjoint(new, g)
                      /\ old.name = NoName /\ new.name # NoName =>
                           g.endBlock <= new.startBlock
  BY <1>1, <1>2, <1>3 DEF Compatible
<1> HIDE DEF old, new, rest
<1>9. CASE new.name = NoName
  BY <1>1, <1>6, <1>7, <1>9
<1>10. CASE new.name # NoName /\ old.name = NoName
  <2>1. new \notin Files /\ Files' = Files \cup {new} /\ Files = rest
    BY <1>6, <1>7, <1>8, <1>10
  <2>2. QED
    BY <1>1, <1>8, <1>10, <2>1 DEF Store!Add, Files
<1>11. CASE new.name # NoName /\ old.name # NoName
  <2>1. new.name = old.name /\ new.startBlock = old.startBlock
    BY <1>1, <1>11
  <2>2. old \notin rest
    BY <1>8, <1>11
  <2>3. old \in Files /\ new \in Files' /\ Files \ {old} = rest
    BY <1>6, <1>7, <1>11, <2>2
  <2>4. Files' = (Files \ {old}) \cup {new}
    BY <1>7, <1>11, <2>3
  <2>5. \A h \in Files \ {old} : Store!Apart(h, new)
    BY <1>8, <2>3 DEF Store!Apart, Disjoint
  <2>6. QED
    BY <1>1, <2>1, <2>3, <2>4, <2>5 DEF Store!Resize, Files
<1>12. QED
  BY <1>9, <1>10, <1>11

\* Every step of the program is a step of the extent store or changes no file.
LEMMA StepRefines ==
    ASSUME IInv, IInv', StepInv, [Next]_vars
    PROVE  Store!Next \/ Files' = Files
<1>1. Files' = {OnMedia(d)' : d \in {e \in Cells : (OnMedia(e)').name # NoName}}
  BY DEF Files, LiveCells, Cells
<1>2. CASE CellsKept
  <2>1. Files' = Files
    BY <1>1, <1>2 DEF CellsKept, Files, LiveCells
  <2>2. QED
    BY <2>1
<1>3. CASE CellsFreed
  <2>1. Files' \subseteq Files
    BY <1>1, <1>3 DEF CellsFreed, Files, LiveCells
  <2>2. QED
    BY <2>1 DEF Store!Next, Store!Remove, Files
<1>4. CASE \E c \in Cells : CellChanged(c)
  BY <1>4, ChangeRefines DEF Store!Next
<1>5. QED
  BY <1>2, <1>3, <1>4, StepCells

\* IInv and what every step that writes a sector rests on hold for ever, with all
\* the disks present and readable (fs.c:46-210).
THEOREM RaidInvCorrect ==
    ASSUME ~MissingAllowed, ~ReadFaults
    PROVE  Spec => []RaidInv
<1>1. Init => RaidInv
  BY IInvInit, StepInit DEF RaidInv
<1>2. RaidInv /\ [Next]_vars => RaidInv'
  BY IInvNext, StepNext DEF RaidInv
<1>3. QED
  BY <1>1, <1>2, PTL DEF Spec

\* The file system implements the extent store: whatever is killed, lost or
\* written in part, the files on the disks change as a set of extents does.
THEOREM StoreImplemented ==
    ASSUME ~MissingAllowed, ~ReadFaults
    PROVE  Spec => ImplementsExtentStore
<1>1. Init => Store!Init
  <2>1. SUFFICES ASSUME Init
                 PROVE  LiveCells = {}
    BY DEF Store!Init
  <2>2. \A c \in Cells : OnMedia(c).name = NoName
    BY <2>1 DEF Init, Cells, OnMedia, ZeroSector, FreeEntry
  <2>3. QED
    BY <2>2 DEF LiveCells
<1>2. RaidInv /\ RaidInv' /\ [Next]_vars => Store!Next \/ Files' = Files
  BY StepRefines DEF RaidInv
<1>3. RaidInv /\ RaidInv' /\ [Next]_vars => [Store!Next]_({OnMedia(c) : c \in LiveCells})
  BY <1>2 DEF Files
<1>4. QED
  BY <1>1, <1>3, RaidInvCorrect, PTL DEF Spec, ImplementsExtentStore, Store!Spec

\* A file keeps its name and its place until rm or format removes it: no cp, no
\* start of a tool and no crash loses one.
THEOREM FilesKept ==
    ASSUME ~MissingAllowed, ~ReadFaults
    PROVE  Spec => OnlyRmAndFormatRemove
<1> DEFINE Kept == \A c \in LiveCells :
                     \/ OnMedia(c)'.name = OnMedia(c).name
                        /\ OnMedia(c)'.startBlock = OnMedia(c).startBlock
                     \/ OnMedia(c)'.name = NoName /\ tool \in {"rm", "format"}
<1>1. RaidInv /\ [Next]_vars => Kept
  <2>1. SUFFICES ASSUME RaidInv, [Next]_vars, NEW c \in LiveCells
                 PROVE  \/ OnMedia(c)'.name = OnMedia(c).name
                           /\ OnMedia(c)'.startBlock = OnMedia(c).startBlock
                        \/ OnMedia(c)'.name = NoName /\ tool \in {"rm", "format"}
    OBVIOUS
  <2>2. c \in Cells /\ OnMedia(c).name # NoName
    BY DEF LiveCells
  <2>3. CASE CellsKept
    BY <2>2, <2>3 DEF CellsKept
  <2>4. CASE CellsFreed
    BY <2>2, <2>4 DEF CellsFreed
  <2>5. ASSUME NEW d \in Cells, CellChanged(d)
        PROVE  /\ OnMedia(c)'.name = OnMedia(c).name
               /\ OnMedia(c)'.startBlock = OnMedia(c).startBlock
    BY <2>2, <2>5 DEF CellChanged
  <2>6. QED
    BY <2>1, <2>3, <2>4, <2>5, StepCells DEF RaidInv
<1>2. QED
  BY <1>1, RaidInvCorrect, PTL DEF Spec, OnlyRmAndFormatRemove
=============================================================================

-------------------------- MODULE RaidTablesProofs --------------------------
(* Proofs about the tables of the raid and the disks they are on: what is    *)
(* saved, how the disks are numbered, when a raid is refused, that its files *)
(* end inside it and how far the count of files is off.                      *)
EXTENDS RaidFSProofs, StripingProofs

-----------------------------------------------------------------------------
(* The steps, by what they do to the tables.                               *)

\* addFile, delFile and a change of endBlock leave the head of every table alone.
SameHeads ==
    \A i \in Idx : /\ msector'[i].MAGIC = msector[i].MAGIC
                   /\ msector'[i].diskId = msector[i].diskId
                   /\ msector'[i].totalDisks = msector[i].totalDisks

\* The process ends; the disks stay as they are.
Ending ==
    /\ Ends
    /\ media' = media
    /\ \/ faults' = faults /\ pc \in {"probe", "run", "pcap", "exit"}
       \/ faults' = faults + 1

\* A process begins, and its probe ends.
Entering ==
    /\ UNCHANGED <<media, ns, msector, numdisks, totalBlocks, faults>>
    /\ \/ pc = "off" /\ pc' = "probe" /\ tool' \in Tools
       \/ /\ pc = "probe"
          /\ MissingAllowed \/ AllAttached
          /\ \/ tool # "format" /\ pc' = "create"
             \/ tool = "format" /\ pc' = "format" /\ ret' = "create" /\ widx' = 0
          /\ tool' = tool

\* A tool changes one entry in memory and goes to updateRaid.
Editing ==
    /\ pc \in {"run", "pcap"} /\ pc' = "update" /\ ret' \in {"run", "pcap", "exit"}
    /\ widx' = 0
    /\ pc = "run" => tool # "format"
    /\ UNCHANGED <<media, ns, numdisks, totalBlocks, tool, faults>>
    /\ SameHeads

\* A tool goes on, or has done, without a change.
Passing ==
    /\ pc = "run" /\ pc' \in {"run", "exit"}
    /\ UNCHANGED <<media, ns, msector, numdisks, totalBlocks, tool, widx, faults>>

LEMMA SetEntryHeads ==
    ASSUME NEW m \in [Idx -> metaSector], NEW s \in Slots, NEW f \in metaFile
    PROVE  \A i \in Idx : /\ SetEntry(m, s, f)[i].MAGIC = m[i].MAGIC
                          /\ SetEntry(m, s, f)[i].diskId = m[i].diskId
                          /\ SetEntry(m, s, f)[i].totalDisks = m[i].totalDisks
<1>1. s[1] \in Idx /\ m[s[1]] \in metaSector
  BY DEF Slots
<1> DEFINE t == [m[s[1]] EXCEPT !.content = [m[s[1]].content EXCEPT ![s[2]] = f]]
<1>2. SetEntry(m, s, f) = [m EXCEPT ![s[1]] = t]
  BY DEF SetEntry
<1>3. /\ t.MAGIC = m[s[1]].MAGIC /\ t.diskId = m[s[1]].diskId
      /\ t.totalDisks = m[s[1]].totalDisks
  BY <1>1 DEF metaSector
<1> HIDE DEF t
<1>4. QED
  BY <1>1, <1>2, <1>3

LEMMA CountHeads ==
    ASSUME NEW m \in [Idx -> metaSector], NEW k \in Int
    PROVE  \A i \in Idx : /\ Count(m, k)[i].MAGIC = m[i].MAGIC
                          /\ Count(m, k)[i].diskId = m[i].diskId
                          /\ Count(m, k)[i].totalDisks = m[i].totalDisks
<1>1. 0 \in Idx /\ m[0] \in metaSector
  BY FSAssumption DEF Idx
<1> DEFINE t == [m[0] EXCEPT !.totalFiles = (m[0].totalFiles + k) % Byte]
<1>2. Count(m, k) = [m EXCEPT ![0] = t]
  BY DEF Count
<1>3. /\ t.MAGIC = m[0].MAGIC /\ t.diskId = m[0].diskId
      /\ t.totalDisks = m[0].totalDisks
  BY <1>1 DEF metaSector
<1> HIDE DEF t
<1>4. QED
  BY <1>1, <1>2, <1>3

\* endBlock of an entry is changed.
LEMMA ResizeHeads ==
    ASSUME TypeInv, NEW s \in Slots, NEW length \in Nat, msector' = Resize(s, length)
    PROVE  SameHeads
<1>1. [Entry(s) EXCEPT !.endBlock = Entry(s).startBlock + length] \in metaFile
  BY ResizeType
<1>2. msector \in [Idx -> metaSector]
  BY DEF TypeInv, TypeOK
<1>3. QED
  BY <1>1, <1>2, SetEntryHeads DEF Resize, SameHeads

LEMMA RmFileShape ==
    ASSUME TypeInv, NEW n \in Names, rmFile(n)
    PROVE  Editing \/ Passing
<1>1. /\ pc = "run" /\ media' = media /\ faults' = faults /\ tool' = tool /\ tool # "format"
  BY DEF rmFile, media_vars
<1>2. CASE UNCHANGED <<raid_vars, pc, ret, widx>>
  BY <1>1, <1>2 DEF Passing, raid_vars
<1>3. CASE (\E s \in findFile(n) : delFile(s)) /\ Call("update", "run")
  <2>1. PICK s \in findFile(n) : delFile(s)
    BY <1>3
  <2>2. s \in Slots
    BY PickedEntry DEF findFile
  <2>3. msector \in [Idx -> metaSector] /\ FreeEntry \in metaFile
    BY MadeSectors DEF TypeInv, TypeOK
  <2>4. SetEntry(msector, s, FreeEntry) \in [Idx -> metaSector]
    BY <2>2, <2>3, SetEntryFacts
  <2>5. SameHeads
    <3>1. msector' = Count(SetEntry(msector, s, FreeEntry), -1)
      BY <2>1 DEF delFile
    <3>2. QED
      BY <2>2, <2>3, <2>4, <3>1, SetEntryHeads, CountHeads DEF SameHeads
  <2>6. QED
    BY <1>1, <1>3, <2>1, <2>5 DEF Editing, delFile, Call
<1>4. QED
  BY <1>2, <1>3 DEF rmFile

LEMMA CpOverwritesShape ==
    ASSUME TypeInv, NEW n \in Names, NEW length \in Sizes, cpOverwrites(n, length)
    PROVE  Editing \/ Passing
<1>1. /\ pc = "run" /\ media' = media /\ faults' = faults /\ tool # "format"
  BY DEF cpOverwrites, media_vars
<1>2. PICK s \in findFile(n) :
        \/ Goto("exit") /\ UNCHANGED raid_vars
        \/ /\ msector' = Resize(s, length)
           /\ Call("update", "exit")
           /\ UNCHANGED <<ns, numdisks, totalBlocks, numFiles, tool, cur, left>>
  BY DEF cpOverwrites
<1>3. s \in Slots /\ length \in Nat
  BY PickedEntry, FSAssumption DEF findFile
<1>4. CASE Goto("exit") /\ UNCHANGED raid_vars
  BY <1>1, <1>4 DEF Passing, Goto, raid_vars
<1>5. CASE /\ msector' = Resize(s, length)
           /\ Call("update", "exit")
           /\ UNCHANGED <<ns, numdisks, totalBlocks, numFiles, tool, cur, left>>
  BY <1>1, <1>3, <1>5, ResizeHeads DEF Editing, Call
<1>6. QED
  BY <1>2, <1>4, <1>5

LEMMA CpAddsShape ==
    ASSUME TypeInv, NEW n \in Names, NEW length \in Sizes, cpAdds(n, length)
    PROVE  Editing
<1>1. /\ pc = "run" /\ media' = media /\ faults' = faults /\ tool' = tool /\ tool # "format"
  BY DEF cpAdds, media_vars
<1>2. PICK right \in rightFreeBlock, s \in FreeSlots :
        /\ addFile(n, length, right, s)
        /\ Call("update", "pcap") \/ Call("update", "exit")
  BY DEF cpAdds
<1> DEFINE f == [name |-> n, startBlock |-> right, endBlock |-> right + length]
<1>3. s \in Slots /\ f \in metaFile
  BY PickedEntry, RightFree, FSAssumption DEF FreeSlots, TypeInv, metaFile
<1>4. msector \in [Idx -> metaSector] /\ msector' = Count(SetEntry(msector, s, f), 1)
  BY <1>2 DEF addFile, TypeInv, TypeOK
<1> HIDE DEF f
<1>5. SetEntry(msector, s, f) \in [Idx -> metaSector]
  BY <1>3, <1>4, SetEntryFacts
<1>6. SameHeads
  BY <1>3, <1>4, <1>5, SetEntryHeads, CountHeads DEF SameHeads
<1>7. QED
  BY <1>1, <1>2, <1>6 DEF Editing, addFile, Call

LEMMA FreeSpcapShape ==
    ASSUME TypeInv, freeSpcap
    PROVE  Editing
<1>1. PICK flushed \in 0 .. numdisks : msector' = Resize(cur, flushed * SUPERSECTORNUM)
  BY DEF freeSpcap
<1>2. flushed * SUPERSECTORNUM \in Nat
  BY SuperSectorAssumption, FSAssumption, SMT DEF TypeInv, TypeOK
<1>3. cur \in Slots
  BY DEF freeSpcap, TypeInv, CurType
<1>4. SameHeads
  BY <1>1, <1>2, <1>3, ResizeHeads
<1>5. QED
  BY <1>4 DEF Editing, freeSpcap, Call, media_vars

\* Every step is of one of these shapes.
LEMMA Shapes ==
    ASSUME TypeInv, [Next]_vars
    PROVE  \/ UNCHANGED vars
           \/ Ending
           \/ Entering
           \/ \E d \in Devices : register_ns(d)
           \/ formatRaid
           \/ updateRaid
           \/ loopReturns
           \/ readMeta
           \/ readMetaFails
           \/ sortDisks
           \/ Editing
           \/ Passing
<1>1. ASSUME NEW t \in Tools, Launch(t) PROVE Entering
  BY <1>1 DEF Launch, Entering, raid_vars, media_vars
<1>2. CASE app_init
  BY <1>2 DEF app_init, Entering, raid_vars, media_vars, Call, Goto
<1>3. ASSUME NEW n \in Names, rmFile(n) PROVE Editing \/ Passing
  BY <1>3, RmFileShape
<1>4. ASSUME NEW n \in Names, NEW length \in Sizes, cpOverwrites(n, length)
      PROVE  Editing \/ Passing
  BY <1>4, CpOverwritesShape
<1>5. ASSUME NEW n \in Names, NEW length \in Sizes, cpAdds(n, length) PROVE Editing
  BY <1>5, CpAddsShape
<1>6. ASSUME NEW n \in Names, NEW length \in Sizes, cpCannotAdd(n, length) PROVE Ending
  BY <1>6 DEF cpCannotAdd, Ending, media_vars
<1>7. CASE freeSpcap
  BY <1>7, FreeSpcapShape
<1>8. CASE pcapNotOpened \/ probeFails \/ mainReturns \/ Crash
  BY <1>8 DEF pcapNotOpened, probeFails, mainReturns, Crash, Ending, media_vars
<1>9. CASE runReturns
  BY <1>9 DEF runReturns, Passing, raid_vars, media_vars, Goto
<1>10. QED
  BY <1>1, <1>2, <1>3, <1>4, <1>5, <1>6, <1>7, <1>8, <1>9 DEF Next, Step

-----------------------------------------------------------------------------
(* The disks of a process.                                                 *)

\* The loops return where their callers are.
RetOK == /\ pc = "format" => ret \in {"create", "sort"}
         /\ pc = "update" => ret \in {"run", "pcap", "exit"}

\* A process runs on all the disks where none may be absent.
PresentOK == MissingAllowed \/ pc \in {"off", "probe"} \/ AllAttached

BaseInv == TypeInv /\ RetOK /\ NsOK /\ PresentOK

\* The order of qsort moves every disk to a place of its own.
LEMMA SortingFacts ==
    ASSUME TypeInv, NEW p \in Sorting
    PROVE  /\ \A i \in Attached : p[i] \in Attached
           /\ \A j \in Attached : \E i \in Attached : p[i] = j
           /\ \A i, k \in Attached : p[i] = p[k] => i = k
           /\ \A i, k \in Attached : i < k => msector[p[i]].diskId <= msector[p[k]].diskId
<1>1. /\ \A i \in Attached : p[i] \in Attached
      /\ \A j \in Attached : \E i \in Attached : p[i] = j
  BY DEF Sorting
<1>2. \A i \in Attached : i \in Int
  BY FSAssumption DEF Attached, TypeInv, TypeOK
<1>3. \A i \in Attached : msector[p[i]].diskId \in Nat
  BY <1>1, EntryTypes DEF metaSector
<1>4. \A i, k \in Attached : i < k => p[i] # p[k]
  BY <1>1, <1>2, <1>3 DEF Sorting
<1>5. \A i, k \in Attached : i < k => msector[p[i]].diskId <= msector[p[k]].diskId
  BY <1>1, <1>2, <1>3 DEF Sorting
<1>6. QED
  BY <1>1, <1>2, <1>4, <1>5

\* What sortDisks does when it does not refuse the raid.
LEMMA SortedDisks ==
    ASSUME TypeInv, sortDisks, pc' # "off"
    PROVE  /\ \E p \in Sorting :
                \A i \in Attached : msector'[i] = msector[p[i]] /\ ns'[i] = ns[p[i]]
           /\ pc = "sort" /\ pc' = "run"
           /\ Attached' = Attached
           /\ UNCHANGED <<media, numdisks, totalBlocks, tool, ret, faults>>
<1>1. PICK p \in Sorting :
          /\ msector' = [i \in Idx |-> IF i \in Attached THEN msector[p[i]] ELSE msector[i]]
          /\ ns' = [i \in Idx |-> IF i \in Attached THEN ns[p[i]] ELSE ns[i]]
          /\ Goto("run")
          /\ UNCHANGED <<numdisks, totalBlocks>>
  BY DEF sortDisks, Ends
<1>2. Attached \subseteq Idx
  BY EntryTypes
<1>3. \A i \in Attached : msector'[i] = msector[p[i]] /\ ns'[i] = ns[p[i]]
  BY <1>1, <1>2
<1>4. QED
  BY <1>1, <1>3 DEF sortDisks, Goto, Attached, media_vars

\* What createRaid does when it does not refuse the raid.
LEMMA ReadShape ==
    ASSUME NEW sectors, createRaid(sectors), pc' # "off"
    PROVE  /\ msector' = sectors
           /\ pc = "create"
           /\ UNCHANGED <<media, ns, numdisks, totalBlocks, tool>>
           /\ \/ /\ Cardinality({i \in Attached : sectors[i].MAGIC}) = 0
                 /\ pc' = "format" /\ ret' = "sort" /\ widx' = 0
              \/ /\ Cardinality({i \in Attached : sectors[i].MAGIC}) = numdisks
                 /\ pc' = "sort" /\ ret' = ret
  BY DEF createRaid, Ends, Call, Goto, media_vars

LEMMA BaseInit == Init => BaseInv
  BY TypeInit DEF Init, BaseInv, RetOK, NsOK, PresentOK, Attached

LEMMA BaseNext == BaseInv /\ [Next]_vars => BaseInv'
<1> SUFFICES ASSUME BaseInv, [Next]_vars
             PROVE  RetOK' /\ NsOK' /\ PresentOK'
  BY TypeNext DEF BaseInv
<1>0. TypeInv /\ TypeInv'
  BY TypeNext DEF BaseInv
<1> USE DEF BaseInv
<1>1. CASE UNCHANGED vars
  BY <1>1 DEF vars, RetOK, NsOK, PresentOK, AllAttached, Attached
<1>2. CASE Ends
  BY <1>2 DEF Ends, RetOK, NsOK, PresentOK, Attached
<1>3. CASE Entering
  BY <1>3 DEF Entering, RetOK, NsOK, PresentOK, AllAttached, Attached
<1>4. ASSUME NEW d \in Devices, register_ns(d) PROVE RetOK' /\ NsOK' /\ PresentOK'
  <2>1. RetOK' /\ PresentOK'
    BY <1>4 DEF register_ns, process_vars, RetOK, PresentOK
  <2>2. /\ numdisks \in Idx /\ Attached \subseteq Idx
        /\ \A i \in Attached' : i \in Attached \/ i = numdisks
        /\ numdisks \notin Attached
    BY <1>0, <1>4, FSAssumption, AttachedInIdx
       DEF register_ns, Attached, Idx, TypeInv, TypeOK
  <2>3. \A i \in Idx : ns'[i] = IF i = numdisks THEN d ELSE ns[i]
    BY <1>0, <1>4, <2>2 DEF register_ns, TypeInv, TypeOK
  <2>4. NsOK'
    BY <1>4, <2>2, <2>3 DEF NsOK, register_ns
  <2>5. QED
    BY <2>1, <2>4
<1>5. CASE formatRaid \/ updateRaid
  BY <1>5 DEF formatRaid, updateRaid, raid_vars, RetOK, NsOK, PresentOK, AllAttached, Attached
<1>6. CASE loopReturns
  BY <1>6 DEF loopReturns, raid_vars, RetOK, NsOK, PresentOK, AllAttached, Attached
<1>7. ASSUME NEW sectors, createRaid(sectors) PROVE RetOK' /\ NsOK' /\ PresentOK'
  <2>1. CASE Ends
    BY <1>2, <2>1
  <2>2. CASE pc' # "off"
    BY <1>7, <2>2, ReadShape DEF RetOK, NsOK, PresentOK, AllAttached, Attached
  <2>3. QED
    BY <1>7, <2>1, <2>2 DEF createRaid, Call, Goto
<1>8. CASE readMeta \/ readMetaFails
  BY <1>7, <1>8 DEF readMeta, readMetaFails
<1>9. CASE sortDisks
  <2>1. CASE Ends
    BY <1>2, <2>1
  <2>2. CASE pc' # "off"
    <3>1. PICK p \in Sorting :
            \A i \in Attached : msector'[i] = msector[p[i]] /\ ns'[i] = ns[p[i]]
      BY <1>0, <1>9, <2>2, SortedDisks
    <3>2. /\ \A i \in Attached : p[i] \in Attached
          /\ \A j \in Attached : \E i \in Attached : p[i] = j
          /\ \A i, k \in Attached : p[i] = p[k] => i = k
      BY <1>0, SortingFacts
    <3>3. pc = "sort" /\ pc' = "run" /\ Attached' = Attached
      BY <1>0, <1>9, <2>2, SortedDisks
    <3>4. NsOK'
      BY <3>1, <3>2, <3>3 DEF NsOK
    <3>5. PresentOK'
      BY <3>1, <3>2, <3>3 DEF PresentOK, AllAttached
    <3>6. QED
      BY <3>3, <3>4, <3>5 DEF RetOK
  <2>3. QED
    BY <1>9, <2>1, <2>2 DEF sortDisks, Goto
<1>10. CASE Editing \/ Passing
  BY <1>10 DEF Editing, Passing, RetOK, NsOK, PresentOK, AllAttached, Attached
<1>11. QED
  BY <1>0, <1>1, <1>2, <1>3, <1>4, <1>5, <1>6, <1>8, <1>9, <1>10, Shapes DEF Ending

-----------------------------------------------------------------------------
(* What is saved.                                                          *)

\* A disk that is written holds what was written, where writes do not fail.
LEMMA Written ==
    ASSUME BaseInv, ~WriteFaults, NEW i \in Attached, NEW sector, WriteSector(i, sector)
    PROVE  /\ media'[ns[i]] = sector
           /\ \A k \in Attached : k # i => media'[ns[k]] = media[ns[k]]
  BY DEF WriteSector, BaseInv, TypeInv, TypeOK, NsType, NsOK

LEMMA AttachedNat ==
    ASSUME TypeInv
    PROVE  /\ numdisks \in Nat
           /\ \A i \in Attached : i \in Nat /\ i < numdisks
           /\ \A i \in Nat : i < numdisks => i \in Attached
  BY FSAssumption DEF TypeInv, TypeOK, Attached

\* updateRaid and formatRaid, on the disks and in memory.
LEMMA LoopShape ==
    ASSUME TypeInv, formatRaid \/ updateRaid
    PROVE  /\ widx \in Attached /\ widx' = widx + 1
           /\ Attached' = Attached
           /\ UNCHANGED <<ns, numdisks, totalBlocks, tool, pc, ret>>
           /\ \A i \in Attached : i # widx => msector'[i] = msector[i]
           /\ WriteSector(widx, msector'[widx])
           /\ pc = "update" => UNCHANGED msector
           /\ pc = "format" => msector'[widx] = initMeta(widx, numdisks)
           /\ pc \in {"format", "update"}
           /\ \/ media' = [media EXCEPT ![ns[widx]] = msector'[widx]] /\ faults' = faults
              \/ media' = media /\ faults' > faults
<1>1. widx \in Attached /\ Attached \subseteq Idx
  BY EntryTypes, FSAssumption DEF formatRaid, updateRaid, Attached, TypeInv, TypeOK
<1>2. msector \in [Idx -> metaSector]
  BY DEF TypeInv, TypeOK
<1>3. faults \in Nat
  BY DEF TypeInv, TypeOK
<1>4. CASE formatRaid
  <2>1. msector' = [msector EXCEPT ![widx] = initMeta(widx, numdisks)]
    BY <1>4 DEF formatRaid
  <2>2. /\ msector'[widx] = initMeta(widx, numdisks)
        /\ \A i \in Attached : i # widx => msector'[i] = msector[i]
    BY <1>1, <1>2, <2>1
  <2>3. WriteSector(widx, msector'[widx])
    BY <1>4, <2>2 DEF formatRaid
  <2>4. QED
    BY <1>1, <1>3, <1>4, <2>2, <2>3 DEF formatRaid, Attached, WriteSector
<1>5. CASE updateRaid
  BY <1>1, <1>3, <1>5 DEF updateRaid, Attached, WriteSector, raid_vars
<1>6. QED
  BY <1>4, <1>5

LEMMA SavedNext ==
    ASSUME ~ReadFaults, ~WriteFaults, BaseInv, SavedOK, [Next]_vars
    PROVE  SavedOK'
<1>0. TypeInv /\ \A i \in Attached : i \in Nat /\ i < numdisks
  BY AttachedNat DEF BaseInv
<1>1. CASE UNCHANGED vars
  BY <1>1 DEF vars, SavedOK, Attached
<1>2. CASE Ends
  BY <1>2 DEF Ends, SavedOK, Attached
<1>3. CASE Entering
  BY <1>3 DEF Entering, SavedOK
<1>4. ASSUME NEW d \in Devices, register_ns(d) PROVE SavedOK'
  BY <1>4 DEF register_ns, process_vars, SavedOK
<1>5. CASE formatRaid \/ updateRaid
  <2>1. /\ widx \in Attached /\ widx' = widx + 1
        /\ Attached' = Attached
        /\ UNCHANGED <<ns, pc, ret>>
        /\ \A i \in Attached : i # widx => msector'[i] = msector[i]
        /\ WriteSector(widx, msector'[widx])
        /\ pc \in {"format", "update"}
    BY <1>0, <1>5, LoopShape
  <2>2. /\ media'[ns[widx]] = msector'[widx]
        /\ \A k \in Attached : k # widx => media'[ns[k]] = media[ns[k]]
    BY <2>1, Written
  <2>3. \A i \in Attached : i < widx' => i < widx \/ i = widx
    BY <1>0, <2>1
  <2>4. QED
    BY <2>1, <2>2, <2>3 DEF SavedOK
<1>6. CASE loopReturns
  <2>1. /\ pc \in {"format", "update"} /\ widx = numdisks /\ pc' = ret /\ ret' = "off"
        /\ UNCHANGED <<media, msector, ns, numdisks>> /\ Attached' = Attached
    BY <1>6 DEF loopReturns, raid_vars, media_vars, Attached
  <2>2. \A i \in Attached : i < widx
    BY <1>0, <2>1
  <2>3. QED
    BY <2>1, <2>2 DEF SavedOK, BaseInv, RetOK
<1>7. CASE readMeta
  <2>1. CASE Ends
    BY <1>2, <2>1
  <2>2. CASE pc' # "off"
    <3>1. /\ msector' = Faithful
          /\ UNCHANGED <<media, ns, numdisks>> /\ Attached' = Attached
          /\ \/ pc' = "format" /\ widx' = 0
             \/ pc' = "sort"
      BY <1>7, <2>2, ReadShape DEF readMeta, Attached
    <3>2. \A i \in Attached : Faithful[i] = media[ns[i]]
      BY <1>0, EntryTypes DEF Faithful
    <3>3. \A i \in Attached : ~(i < 0)
      BY <1>0
    <3>4. QED
      BY <3>1, <3>2, <3>3 DEF SavedOK
  <2>3. QED
    BY <1>7, <2>1, <2>2 DEF readMeta, createRaid, Call, Goto
<1>8. CASE readMetaFails
  BY <1>8 DEF readMetaFails
<1>9. CASE sortDisks
  <2>1. CASE Ends
    BY <1>2, <2>1
  <2>2. CASE pc' # "off"
    <3>1. PICK p \in Sorting :
            \A i \in Attached : msector'[i] = msector[p[i]] /\ ns'[i] = ns[p[i]]
      BY <1>0, <1>9, <2>2, SortedDisks
    <3>2. \A i \in Attached : p[i] \in Attached
      BY <1>0, SortingFacts
    <3>3. pc = "sort" /\ pc' = "run" /\ Attached' = Attached /\ media' = media
      BY <1>0, <1>9, <2>2, SortedDisks
    <3>4. QED
      BY <3>1, <3>2, <3>3 DEF SavedOK
  <2>3. QED
    BY <1>9, <2>1, <2>2 DEF sortDisks, Goto
<1>10. CASE Editing
  BY <1>0, <1>10 DEF Editing, SavedOK, Attached
<1>11. CASE Passing
  BY <1>11 DEF Passing, SavedOK, Attached
<1>12. QED
  BY <1>0, <1>1, <1>2, <1>3, <1>4, <1>5, <1>6, <1>7, <1>8, <1>9, <1>10, <1>11, Shapes
     DEF Ending

\* Whatever a tool changed in memory is on every disk it attached when it comes
\* to its end, disks missing or not: no path of app_run ends before updateRaid has
\* gone over all the disks.
THEOREM SavedCorrect ==
    ASSUME ~ReadFaults
    PROVE  Spec => []SavedAtExit
<1>1. CASE WriteFaults
  <2>1. SavedAtExit
    BY <1>1 DEF SavedAtExit
  <2>2. QED
    BY <2>1, PTL
<1>2. CASE ~WriteFaults
  <2>1. Init => BaseInv /\ SavedOK
    BY BaseInit DEF Init, SavedOK
  <2>2. BaseInv /\ SavedOK /\ [Next]_vars => (BaseInv /\ SavedOK)'
    BY <1>2, BaseNext, SavedNext
  <2>3. SavedOK => SavedAtExit
    BY DEF SavedOK, SavedAtExit
  <2>4. QED
    BY <2>1, <2>2, <2>3, PTL DEF Spec
<1>3. QED
  BY <1>1, <1>2

-----------------------------------------------------------------------------
(* When a raid is refused.                                                 *)

LEMMA AttachedFinite ==
    ASSUME TypeInv
    PROVE  IsFiniteSet(Attached) /\ Cardinality(Attached) = numdisks
<1>1. numdisks \in Nat
  BY AttachedNat
<1>2. 0 \in Int /\ numdisks - 1 \in Int
  BY <1>1
<1>3. /\ IsFiniteSet(0 .. numdisks - 1)
      /\ Cardinality(0 .. numdisks - 1) =
           IF 0 > numdisks - 1 THEN 0 ELSE (numdisks - 1) - 0 + 1
  BY <1>2, FS_Interval, Zenon
<1>4. QED
  BY <1>1, <1>3 DEF Attached

\* A process that has found all the disks counts them right.
LEMMA AllDisks ==
    ASSUME BaseInv, ~MissingAllowed, pc \notin {"off", "probe"}
    PROVE  /\ numdisks = N
           /\ \A d \in Devices : \E i \in Attached : ns[i] = d
<1>1. \A d \in Devices : \E i \in Attached : ns[i] = d
  BY DEF BaseInv, PresentOK, AllAttached
<1> DEFINE f == [i \in Attached |-> ns[i]]
<1>2. f \in Bijection(Attached, Devices)
  <2>1. f \in [Attached -> Devices]
    BY DEF BaseInv, NsOK
  <2>2. \A i, k \in Attached : f[i] = f[k] => i = k
    BY DEF BaseInv, NsOK
  <2>3. \A d \in Devices : \E i \in Attached : f[i] = d
    BY <1>1
  <2>4. QED
    BY <2>1, <2>2, <2>3 DEF Bijection, Injection, Surjection, IsInjective
<1>3. ExistsBijection(Attached, Devices)
  BY <1>2 DEF ExistsBijection
<1>4. IsFiniteSet(Attached) /\ Cardinality(Attached) = numdisks
  BY AttachedFinite DEF BaseInv
<1>5. Cardinality(Devices) = Cardinality(Attached)
  BY <1>3, <1>4, FS_Bijection, Zenon
<1>6. QED
  BY <1>1, <1>4, <1>5 DEF N

\* The sectors createRaid counts are all those of the disks, or none.
LEMMA NothingLostRead ==
    ASSUME ~MissingAllowed, BaseInv, NothingLostOK, faults = 0, createRaid(Faithful)
    PROVE  pc' # "off" /\ NothingLostOK'
<1> DEFINE Magic == {i \in Attached : Faithful[i].MAGIC}
<1>1. \A i \in Attached : Faithful[i] = media[ns[i]] /\ ns[i] \in Devices
  BY EntryTypes DEF Faithful, BaseInv
<1>2. pc = "create" /\ media' = media
  BY DEF createRaid, media_vars
<1>3. \/ \A d \in Devices : media[d].MAGIC
      \/ \A d \in Devices : ~media[d].MAGIC
  BY <1>2 DEF NothingLostOK
<1>4. Magic = {} \/ Magic = Attached
  BY <1>1, <1>3
<1>5. Cardinality(Magic) \in {0, numdisks}
  BY <1>4, AttachedFinite, FS_EmptySet DEF BaseInv
<1>6. numdisks = N /\ \A d \in Devices : \E i \in Attached : ns[i] = d
  BY <1>2, AllDisks
<1>7. pc' # "off"
  BY <1>5, AttachedNat DEF createRaid, Ends, Call, Goto, BaseInv
<1>8. /\ msector' = Faithful /\ UNCHANGED <<ns, numdisks>> /\ Attached' = Attached
      /\ \/ Cardinality(Magic) = 0 /\ pc' = "format" /\ widx' = 0
         \/ Cardinality(Magic) = numdisks /\ pc' = "sort"
  BY <1>7, ReadShape DEF Attached
<1>9. CASE pc' = "format" /\ widx' = 0
  <2>1. \A i \in Attached : ~(i < 0)
    BY AttachedNat DEF BaseInv
  <2>2. QED
    BY <1>2, <1>8, <1>9, <2>1 DEF NothingLostOK
<1>10. CASE Cardinality(Magic) = numdisks /\ pc' = "sort"
  <2>1. Magic = Attached
    <3>1. Magic \in SUBSET Attached /\ IsFiniteSet(Attached)
                /\ Cardinality(Attached) = Cardinality(Magic)
      BY <1>10, AttachedFinite DEF BaseInv
    <3>2. QED
      BY <3>1, FS_Subset
  <2>2. \A d \in Devices : media[d].MAGIC
    BY <1>1, <1>6, <2>1
  <2>3. QED
    BY <1>1, <1>2, <1>8, <1>10, <2>2 DEF NothingLostOK
<1>11. QED
  BY <1>7, <1>8, <1>9, <1>10

LEMMA NothingLostNext ==
    ASSUME ~MissingAllowed, BaseInv, NothingLostOK, [Next]_vars
    PROVE  /\ NothingLostOK'
           /\ pc \in {"create", "sort"} /\ pc' = "off" => faults' > 0
<1>0. TypeInv /\ faults \in Nat /\ faults' \in Nat /\ N = N' /\ NsOK
  BY TypeNext DEF BaseInv, TypeInv, TypeOK, N
<1>a. ASSUME faults' > 0 PROVE NothingLostOK'
  BY <1>a DEF NothingLostOK
<1>b. pc \notin {"off", "probe"} =>
        numdisks = N /\ \A d \in Devices : \E i \in Attached : ns[i] = d
  BY AllDisks
<1>1. CASE UNCHANGED vars
  BY <1>1 DEF vars, NothingLostOK, Attached, N
<1>2. CASE Ending
  <2>1. CASE faults' = faults + 1
    BY <1>0, <1>a, <2>1
  <2>2. CASE faults' = faults /\ pc \in {"probe", "run", "pcap", "exit"}
    BY <1>2, <2>2 DEF Ending, Ends, NothingLostOK, N
  <2>3. QED
    BY <1>2, <2>1, <2>2 DEF Ending
<1>3. CASE Entering
  <2>1. \A i \in Attached : ~(i < 0)
    BY <1>0, AttachedNat
  <2>2. QED
    BY <1>3, <2>1 DEF Entering, NothingLostOK, Attached, N
<1>4. ASSUME NEW d \in Devices, register_ns(d)
      PROVE  NothingLostOK' /\ pc' # "off"
  BY <1>4 DEF register_ns, process_vars, media_vars, NothingLostOK, N
<1>5. CASE formatRaid \/ updateRaid
  <2>1. /\ widx \in Attached /\ widx' = widx + 1
        /\ Attached' = Attached
        /\ UNCHANGED <<ns, numdisks, pc>>
        /\ \A i \in Attached : i # widx => msector'[i] = msector[i]
        /\ pc = "update" => UNCHANGED msector
        /\ pc = "format" => msector'[widx] = initMeta(widx, numdisks)
        /\ pc \in {"format", "update"}
        /\ \/ media' = [media EXCEPT ![ns[widx]] = msector'[widx]] /\ faults' = faults
           \/ media' = media /\ faults' > faults
    BY <1>0, <1>5, LoopShape
  <2>2. CASE faults' > faults
    BY <1>0, <1>a, <2>1, <2>2
  <2>3. CASE faults' = 0 /\ faults = 0 /\ media' = [media EXCEPT ![ns[widx]] = msector'[widx]]
    <3>1. ns[widx] \in Devices
      BY <1>0, <2>1, EntryTypes
    <3>2. \A d \in Devices : media'[d] = IF d = ns[widx] THEN msector'[widx] ELSE media[d]
      BY <1>0, <2>3, <3>1 DEF TypeInv, TypeOK
    <3>3. msector'[widx].MAGIC /\ msector'[widx].totalDisks = N
      BY <1>b, <2>1, <2>3 DEF NothingLostOK, initMeta
    <3>4. \A d \in Devices : media'[d].MAGIC => media'[d].totalDisks = N
      BY <2>3, <3>2, <3>3 DEF NothingLostOK
    <3>5. CASE pc = "format"
      <4>1. \A i \in Attached : i < widx' => i < widx \/ i = widx
        BY <1>0, <2>1, AttachedNat
      <4>2. ASSUME NEW i \in Attached, i < widx'
            PROVE  /\ media'[ns[i]].MAGIC
                   /\ msector'[i].MAGIC /\ msector'[i].totalDisks = N
        <5>1. CASE i = widx
          BY <3>1, <3>2, <3>3, <5>1
        <5>2. CASE i # widx
          <6>1. ns[i] # ns[widx] /\ ns[i] \in Devices /\ i < widx
            BY <1>0, <2>1, <4>1, <4>2, <5>2, EntryTypes DEF NsOK
          <6>2. QED
            BY <2>1, <2>3, <3>2, <3>5, <5>2, <6>1 DEF NothingLostOK
        <5>3. QED
          BY <5>1, <5>2
      <4>3. QED
        BY <1>0, <2>1, <3>4, <3>5, <4>2 DEF NothingLostOK
    <3>6. CASE pc = "update"
      <4>1. \A d \in Devices : media'[d].MAGIC
        BY <2>3, <3>2, <3>3, <3>6 DEF NothingLostOK
      <4>2. QED
        BY <1>0, <2>1, <2>3, <3>4, <3>6, <4>1 DEF NothingLostOK
    <3>7. QED
      BY <2>1, <3>5, <3>6
  <2>4. QED
    BY <1>0, <1>a, <2>1, <2>2, <2>3 DEF TypeInv
<1>6. CASE loopReturns
  <2>1. /\ pc \in {"format", "update"} /\ widx = numdisks /\ pc' = ret
        /\ UNCHANGED <<media, msector, ns, numdisks, faults>> /\ Attached' = Attached
    BY <1>6 DEF loopReturns, raid_vars, media_vars, Attached
  <2>2. \A i \in Attached : i < widx
    BY <1>0, <2>1, AttachedNat
  <2>3. /\ pc = "format" => ret \in {"create", "sort"}
        /\ pc = "update" => ret \in {"run", "pcap", "exit"}
    BY DEF BaseInv, RetOK
  <2>4. pc = "format" /\ faults = 0 => \A d \in Devices : media[d].MAGIC
    BY <1>b, <2>2 DEF NothingLostOK
  <2>5. QED
    BY <1>0, <2>1, <2>2, <2>3, <2>4 DEF NothingLostOK
<1>7. CASE readMeta
  <2>1. CASE faults = 0
    BY <1>7, <2>1, NothingLostRead DEF readMeta
  <2>2. CASE faults # 0
    BY <1>0, <1>a, <1>7, <2>2 DEF readMeta
  <2>3. QED
    BY <2>1, <2>2
<1>8. CASE readMetaFails
  BY <1>0, <1>a, <1>8 DEF readMetaFails
<1>9. CASE sortDisks
  <2>1. CASE faults # 0
    BY <1>0, <1>a, <1>9, <2>1 DEF sortDisks
  <2>2. CASE faults = 0
    <3>1. pc = "sort"
      BY <1>9 DEF sortDisks
    <3>2. \A i \in Attached : msector[i].MAGIC /\ msector[i].totalDisks = numdisks
      BY <1>b, <2>2, <3>1 DEF NothingLostOK
    <3>3. pc' # "off"
      <4>1. PICK p \in Sorting :
              LET sectors == [i \in Idx |-> IF i \in Attached THEN msector[p[i]] ELSE msector[i]]
              IN  IntegrityError(sectors) \/ Goto("run")
        BY <1>9 DEF sortDisks
      <4>2. \A i \in Attached : p[i] \in Attached /\ i \in Idx
        BY <1>0, SortingFacts, EntryTypes
      <4>3. QED
        BY <3>2, <4>1, <4>2 DEF IntegrityError, Goto
    <3>4. PICK p \in Sorting :
            \A i \in Attached : msector'[i] = msector[p[i]] /\ ns'[i] = ns[p[i]]
      BY <1>0, <1>9, <3>3, SortedDisks
    <3>5. \A i \in Attached : p[i] \in Attached
      BY <1>0, SortingFacts
    <3>6. /\ pc = "sort" /\ pc' = "run" /\ Attached' = Attached
          /\ UNCHANGED <<media, numdisks, faults>>
      BY <1>0, <1>9, <3>3, SortedDisks
    <3>7. QED
      BY <1>b, <2>2, <3>2, <3>4, <3>5, <3>6 DEF NothingLostOK, N
  <2>3. QED
    BY <2>1, <2>2
<1>10. CASE Editing
  <2>1. Attached' = Attached /\ Attached \subseteq Idx
    BY <1>0, <1>10, EntryTypes DEF Editing, Attached
  <2>2. QED
    BY <1>10, <2>1 DEF Editing, SameHeads, NothingLostOK, N
<1>11. CASE Passing
  BY <1>11 DEF Passing, NothingLostOK, Attached, N
<1>12. QED
  BY <1>0, <1>1, <1>2, <1>3, <1>4, <1>5, <1>6, <1>7, <1>8, <1>9, <1>10, <1>11, Shapes

\* With all the disks present, createRaid refuses no raid unless something was
\* lost before: a read, a write, or a process that was killed.
THEOREM NeverRefused ==
    ASSUME ~MissingAllowed
    PROVE  Spec => NeverRefusedWithoutFault
<1>1. Init => BaseInv /\ NothingLostOK
  <2>1. ASSUME Init PROVE NothingLostOK
    BY <2>1 DEF Init, NothingLostOK, ZeroSector
  <2>2. QED
    BY <2>1, BaseInit
<1>2. BaseInv /\ NothingLostOK /\ [Next]_vars => (BaseInv /\ NothingLostOK)'
  BY BaseNext, NothingLostNext
<1>3. BaseInv /\ NothingLostOK /\ [Next]_vars =>
        [(pc \in {"create", "sort"} /\ pc' = "off") => faults' > 0]_vars
  BY NothingLostNext
<1>4. QED
  BY <1>1, <1>2, <1>3, PTL DEF Spec, NeverRefusedWithoutFault

-----------------------------------------------------------------------------
(* The order of the disks.                                                 *)

\* An increasing function from 0 .. n-1 to itself moves nothing: there are not
\* enough numbers below f[i], or above it, for the others.
LEMMA IncreasingIsIdentity ==
    ASSUME NEW n \in Nat, NEW f \in [0 .. n - 1 -> 0 .. n - 1],
           \A i, k \in 0 .. n - 1 : i < k => f[i] < f[k]
    PROVE  \A i \in 0 .. n - 1 : f[i] = i
<1> SUFFICES ASSUME NEW i \in 0 .. n - 1
             PROVE  f[i] = i
  OBVIOUS
<1>1. i \in Int /\ f[i] \in 0 .. n - 1 /\ n \in Int
  OBVIOUS
<1>2. i <= f[i]
  <2> DEFINE g == [k \in 0 .. i - 1 |-> f[k]]
  <2>1. g \in [0 .. i - 1 -> 0 .. f[i] - 1]
    <3>1. \A k \in 0 .. i - 1 : f[k] \in 0 .. n - 1 /\ f[k] < f[i]
      BY <1>1
    <3>2. \A k \in 0 .. i - 1 : f[k] \in 0 .. f[i] - 1
      BY <1>1, <3>1, SMTT(30)
    <3>3. QED
      BY <3>2
  <2>2. \A k, l \in 0 .. i - 1 : g[k] = g[l] => k = l
    BY <1>1, SMTT(30)
  <2>3. g \in Injection(0 .. i - 1, 0 .. f[i] - 1)
    BY <2>1, <2>2 DEF Injection, IsInjective
  <2> HIDE DEF g
  <2>4. /\ IsFiniteSet(0 .. f[i] - 1)
        /\ Cardinality(0 .. f[i] - 1) = IF 0 > f[i] - 1 THEN 0 ELSE (f[i] - 1) - 0 + 1
    <3>1. 0 \in Int /\ f[i] - 1 \in Int
      BY <1>1
    <3>2. QED
      BY <3>1, FS_Interval, ZenonT(30)
  <2>5. Cardinality(0 .. i - 1) = IF 0 > i - 1 THEN 0 ELSE (i - 1) - 0 + 1
    <3>1. 0 \in Int /\ i - 1 \in Int
      BY <1>1
    <3>2. QED
      BY <3>1, FS_Interval, ZenonT(30)
  <2>6. Cardinality(0 .. i - 1) <= Cardinality(0 .. f[i] - 1)
    BY <2>3, <2>4, FS_Injection, ZenonT(30)
  <2>7. QED
    BY <1>1, <2>4, <2>5, <2>6, SMTT(30)
<1>3. f[i] <= i
  <2> DEFINE g == [k \in i + 1 .. n - 1 |-> f[k]]
  <2>1. g \in [i + 1 .. n - 1 -> f[i] + 1 .. n - 1]
    <3>1. \A k \in i + 1 .. n - 1 : f[k] \in 0 .. n - 1 /\ f[i] < f[k]
      BY <1>1
    <3>2. \A k \in i + 1 .. n - 1 : f[k] \in f[i] + 1 .. n - 1
      BY <1>1, <3>1, SMTT(30)
    <3>3. QED
      BY <3>2
  <2>2. \A k, l \in i + 1 .. n - 1 : g[k] = g[l] => k = l
    BY <1>1, SMTT(30)
  <2>3. g \in Injection(i + 1 .. n - 1, f[i] + 1 .. n - 1)
    BY <2>1, <2>2 DEF Injection, IsInjective
  <2> HIDE DEF g
  <2>4. /\ IsFiniteSet(f[i] + 1 .. n - 1)
        /\ Cardinality(f[i] + 1 .. n - 1) =
             IF f[i] + 1 > n - 1 THEN 0 ELSE (n - 1) - (f[i] + 1) + 1
    <3>1. f[i] + 1 \in Int /\ n - 1 \in Int
      BY <1>1
    <3>2. QED
      BY <3>1, FS_Interval, ZenonT(30)
  <2>5. Cardinality(i + 1 .. n - 1) = IF i + 1 > n - 1 THEN 0 ELSE (n - 1) - (i + 1) + 1
    <3>1. i + 1 \in Int /\ n - 1 \in Int
      BY <1>1
    <3>2. QED
      BY <3>1, FS_Interval, ZenonT(30)
  <2>6. Cardinality(i + 1 .. n - 1) <= Cardinality(f[i] + 1 .. n - 1)
    BY <2>3, <2>4, FS_Injection, ZenonT(30)
  <2>7. QED
    BY <1>1, <2>4, <2>5, <2>6, SMTT(30)
<1>4. QED
  BY <1>1, <1>2, <1>3

\* Disks of different numbers below n stand in the order of their numbers after
\* qsort, each at the index that is its number.
LEMMA SortedIds ==
    ASSUME TypeInv, NEW p \in Sorting,
           \A i \in Attached : msector[i].diskId \in 0 .. numdisks - 1,
           \A i, k \in Attached : msector[i].diskId = msector[k].diskId => i = k
    PROVE  \A i \in Attached : msector[p[i]].diskId = i
<1>1. numdisks \in Nat
  BY AttachedNat
<1>2. /\ \A i \in Attached : p[i] \in Attached
      /\ \A i, k \in Attached : p[i] = p[k] => i = k
      /\ \A i, k \in Attached : i < k => msector[p[i]].diskId <= msector[p[k]].diskId
  BY SortingFacts
<1> DEFINE f == [i \in 0 .. numdisks - 1 |-> msector[p[i]].diskId]
<1>3. f \in [0 .. numdisks - 1 -> 0 .. numdisks - 1]
  BY <1>2 DEF Attached
<1>4. \A i, k \in 0 .. numdisks - 1 : i < k => f[i] < f[k]
  <2>1. SUFFICES ASSUME NEW i \in 0 .. numdisks - 1, NEW k \in 0 .. numdisks - 1, i < k
                 PROVE  f[i] < f[k]
    OBVIOUS
  <2>2. f[i] <= f[k] /\ p[i] # p[k] /\ p[i] \in Attached /\ p[k] \in Attached
    BY <1>1, <1>2, <2>1 DEF Attached
  <2>3. f[i] # f[k]
    BY <2>2
  <2>4. f[i] \in Int /\ f[k] \in Int
    BY <1>3
  <2>5. QED
    BY <2>2, <2>3, <2>4
<1>5. \A i \in 0 .. numdisks - 1 : f[i] = i
  <2> HIDE DEF f
  <2>1. QED
    BY <1>1, <1>3, <1>4, IncreasingIsIdentity
<1>6. QED
  BY <1>5 DEF Attached

LEMMA NumbersRead ==
    ASSUME ~MissingAllowed, BaseInv, NumbersOK, createRaid(Faithful), pc' # "off"
    PROVE  NumbersOK'
<1> DEFINE Magic == {i \in Attached : Faithful[i].MAGIC}
<1>0. TypeInv
  BY DEF BaseInv
<1>1. /\ pc = "create" /\ msector' = Faithful
      /\ UNCHANGED <<media, ns, numdisks, tool>> /\ Attached' = Attached
      /\ \/ Cardinality(Magic) = 0 /\ pc' = "format" /\ widx' = 0
         \/ Cardinality(Magic) = numdisks /\ pc' = "sort"
  BY ReadShape DEF Attached
<1>2. \A i \in Attached : /\ Faithful[i] = media[ns[i]] /\ ns[i] \in Devices
                          /\ i >= 0 /\ ~(i < 0)
  BY <1>0, EntryTypes, AttachedNat DEF Faithful
<1>3. IsFiniteSet(Attached) /\ Cardinality(Attached) = numdisks
      /\ Magic \in SUBSET Attached
  BY <1>0, AttachedFinite
<1>4. IsFiniteSet(Magic)
  BY <1>3, FS_Subset
<1>5. MediaTotals'
  BY <1>1 DEF NumbersOK, MediaTotals, N
<1>6. CASE Cardinality(Magic) = 0 /\ pc' = "format" /\ widx' = 0
  <2>1. Magic = {}
    BY <1>4, <1>6, FS_EmptySet
  <2>2. \A i \in Attached : ~media[ns[i]].MAGIC
    BY <1>2, <2>1
  <2>3. FormatNumbers'
    BY <1>1, <1>2, <1>6, <2>2 DEF FormatNumbers
  <2>4. QED
    BY <1>5, <1>6, <2>3 DEF NumbersOK, MemoryNumbers
<1>7. CASE Cardinality(Magic) = numdisks /\ pc' = "sort"
  <2>1. Magic = Attached
    BY <1>3, <1>7, FS_Subset
  <2>2. \A i \in Attached : media[ns[i]].MAGIC
    BY <1>2, <2>1
  <2>3. \A d \in Devices : media[d].MAGIC
    BY <1>1, <2>2, AllDisks
  <2>4. \A i \in Attached : /\ media[ns[i]].diskId \in 0 .. N - 1
                            /\ media[ns[i]].totalDisks = N
    BY <1>2, <2>3 DEF NumbersOK, MediaTotals
  <2>5. MemoryNumbers'
    BY <1>1, <1>2, <1>7, <2>3, <2>4 DEF MemoryNumbers, N
  <2>6. QED
    BY <1>5, <1>7, <2>5 DEF NumbersOK, FormatNumbers
<1>8. QED
  BY <1>1, <1>6, <1>7

\* What formatRaid and updateRaid do to the numbers of the disks.
LEMMA LoopNumbers ==
    ASSUME ~MissingAllowed, BaseInv, NumbersOK, formatRaid \/ updateRaid
    PROVE  /\ numdisks = N /\ widx \in Attached /\ widx \in 0 .. N - 1
           /\ \A d \in Devices : media'[d] = IF d = ns[widx] /\ media' # media
                                             THEN msector'[widx] ELSE media[d]
           /\ msector'[widx].diskId \in 0 .. N - 1 /\ msector'[widx].totalDisks = N
           /\ pc = "format" => msector'[widx].MAGIC /\ msector'[widx].diskId = widx
           /\ \A i \in Attached : i # widx => /\ media'[ns[i]] = media[ns[i]]
                                              /\ i < widx' <=> i < widx
           /\ widx < widx'
           /\ widx \in Idx /\ ns[widx] \in Devices
<1>0. TypeInv /\ NsOK /\ N \in Nat
  BY FSAssumption, FS_CardinalityType DEF BaseInv, N
<1>1. /\ widx \in Attached /\ widx' = widx + 1
      /\ WriteSector(widx, msector'[widx])
      /\ pc = "update" => UNCHANGED msector
      /\ pc = "format" => msector'[widx] = initMeta(widx, numdisks)
      /\ pc \in {"format", "update"}
  BY <1>0, LoopShape
<1>2. ns[widx] \in Devices /\ numdisks = N /\ widx \in 0 .. N - 1 /\ widx \in Idx
  BY <1>0, <1>1, AllDisks, EntryTypes, AttachedNat
<1>3. \A d \in Devices : media'[d] = IF d = ns[widx] /\ media' # media
                                     THEN msector'[widx] ELSE media[d]
  BY <1>0, <1>1, <1>2 DEF WriteSector, TypeInv, TypeOK
<1>4. pc = "format" => /\ msector'[widx].MAGIC /\ msector'[widx].diskId = widx
                       /\ msector'[widx].totalDisks = N
  BY <1>1, <1>2 DEF initMeta
<1>5. pc = "update" => msector'[widx].diskId \in 0 .. N - 1 /\ msector'[widx].totalDisks = N
  BY <1>1 DEF NumbersOK, MemoryNumbers
<1>6. \A i \in Attached : i # widx => /\ media'[ns[i]] = media[ns[i]]
                                      /\ i < widx' <=> i < widx
  BY <1>0, <1>1, <1>3, AttachedNat, EntryTypes DEF NsOK
<1>7. widx < widx'
  BY <1>1, <1>2
<1>8. QED
  BY <1>1, <1>2, <1>3, <1>4, <1>5, <1>6, <1>7

\* updateRaid gives no disk another number.
LEMMA UpdateNumbers ==
    ASSUME ~MissingAllowed, BaseInv, NumbersOK, MagicOK, updateRaid
    PROVE  /\ \A d \in Devices : media[d].MAGIC =>
                media'[d].MAGIC /\ media'[d].diskId = media[d].diskId
           /\ \A i \in Attached : media'[ns[i]].MAGIC => media'[ns[i]].diskId = msector[i].diskId
           /\ Numbered' <=> Numbered
           /\ MemoryNumbers'
<1>1. /\ numdisks = N /\ widx \in Attached
      /\ \A d \in Devices : media'[d] = IF d = ns[widx] /\ media' # media
                                        THEN msector'[widx] ELSE media[d]
      /\ \A i \in Attached : i # widx => media'[ns[i]] = media[ns[i]]
      /\ ns[widx] \in Devices
  BY LoopNumbers
<1>2. /\ pc = "update" /\ msector' = msector /\ Attached' = Attached
      /\ UNCHANGED <<ns, numdisks, pc>>
  BY DEF updateRaid, raid_vars, Attached
<1>3. /\ msector[widx].MAGIC
      /\ \A i \in Attached : media[ns[i]].MAGIC => media[ns[i]].diskId = msector[i].diskId
  BY <1>1, <1>2 DEF MagicOK, NumbersOK, MemoryNumbers
<1>4. \A d \in Devices : media[d].MAGIC =>
        media'[d].MAGIC /\ media'[d].diskId = media[d].diskId
  BY <1>1, <1>2, <1>3
<1>5. \A i \in Attached : media'[ns[i]].MAGIC => media'[ns[i]].diskId = msector[i].diskId
  BY <1>1, <1>2, <1>3
<1>6. Numbered' => Numbered
  BY <1>4 DEF Numbered
<1>7. Numbered => Numbered'
  <2>1. SUFFICES ASSUME Numbered, NEW d \in Devices, NEW e \in Devices,
                        media'[d].MAGIC, media'[e].MAGIC, media'[d].diskId = media'[e].diskId
                 PROVE  d = e
    BY DEF Numbered
  <2>2. \A i \in Attached : msector[i].diskId = i
    BY <1>2, <2>1 DEF NumbersOK, MemoryNumbers
  <2>3. PICK i \in Attached, k \in Attached : ns[i] = d /\ ns[k] = e
    BY <1>2, AllDisks
  <2>4. QED
    BY <1>5, <2>1, <2>2, <2>3
<1>8. MemoryNumbers'
  <2>1. \A d \in Devices : media[d].MAGIC => media'[d].MAGIC
    BY <1>4
  <2>2. N' = N
    BY DEF N
  <2>3. QED
    BY <1>2, <1>5, <1>6, <2>1, <2>2 DEF NumbersOK, MemoryNumbers
<1>9. QED
  BY <1>4, <1>5, <1>6, <1>7, <1>8

\* The numbers of the disks, in memory and on the disks.
LEMMA NumbersNext ==
    ASSUME ~MissingAllowed, ~ReadFaults, BaseInv, NumbersOK, MagicOK, [Next]_vars
    PROVE  NumbersOK'
<1>0. TypeInv /\ NsOK /\ N' = N /\ N \in Nat
  BY FSAssumption, FS_CardinalityType DEF BaseInv, N
<1>a. pc \notin {"off", "probe"} => numdisks = N
  BY AllDisks
<1>b. ASSUME media' = media PROVE MediaTotals' /\ (Numbered' <=> Numbered)
  BY <1>0, <1>b DEF NumbersOK, MediaTotals, Numbered
<1>1. CASE UNCHANGED vars
  <2>1. UNCHANGED <<media, ns, msector, numdisks, pc, ret, widx>> /\ Attached' = Attached
    BY <1>1 DEF vars, Attached
  <2>2. MemoryNumbers' /\ FormatNumbers'
    BY <1>0, <2>1 DEF NumbersOK, MemoryNumbers, FormatNumbers, Numbered
  <2>3. QED
    BY <1>b, <2>1, <2>2 DEF NumbersOK
<1>2. ASSUME media' = media, pc' \in {"off", "probe", "create"} PROVE NumbersOK'
  BY <1>b, <1>2 DEF NumbersOK, MemoryNumbers, FormatNumbers
<1>3. CASE Entering
  <2>1. Attached' = Attached /\ media' = media
    BY <1>3 DEF Entering, Attached
  <2>2. \A i \in Attached : ~(i < 0)
    BY <1>0, AttachedNat
  <2>3. CASE pc' = "format" /\ ret' = "create" /\ widx' = 0
    BY <1>b, <2>1, <2>2, <2>3 DEF NumbersOK, MemoryNumbers, FormatNumbers
  <2>4. QED
    BY <1>2, <1>3, <2>1, <2>3 DEF Entering
<1>4. ASSUME NEW d \in Devices, register_ns(d) PROVE NumbersOK'
  BY <1>2, <1>4 DEF register_ns, process_vars, media_vars
<1>5. CASE formatRaid \/ updateRaid
  <2>1. /\ Attached' = Attached
        /\ UNCHANGED <<ns, numdisks, pc, ret>>
        /\ \A i \in Attached : i # widx => msector'[i] = msector[i]
        /\ pc \in {"format", "update"}
    BY <1>0, <1>5, LoopShape
  <2>2. /\ widx \in Attached
        /\ \A d \in Devices : media'[d] = IF d = ns[widx] /\ media' # media
                                          THEN msector'[widx] ELSE media[d]
        /\ msector'[widx].diskId \in 0 .. N - 1 /\ msector'[widx].totalDisks = N
        /\ pc = "format" => msector'[widx].diskId = widx
        /\ \A i \in Attached : i # widx => /\ media'[ns[i]] = media[ns[i]]
                                           /\ i < widx' <=> i < widx
        /\ widx < widx' /\ ns[widx] \in Devices
    BY <1>5, LoopNumbers
  <2>3. MediaTotals'
    BY <1>0, <2>2 DEF NumbersOK, MediaTotals
  <2>4. MemoryNumbers'
    <3>1. CASE updateRaid
      BY <3>1, UpdateNumbers
    <3>2. CASE formatRaid
      BY <2>1, <3>2 DEF formatRaid, MemoryNumbers
    <3>3. QED
      BY <1>5, <3>1, <3>2
  <2>5. FormatNumbers'
    <3>1. SUFFICES ASSUME pc = "format", NEW i \in Attached
                   PROVE  /\ i < widx' => /\ msector'[i].diskId = i
                                          /\ msector'[i].totalDisks = N
                          /\ ret = "sort" =>
                               IF i < widx' THEN media'[ns[i]].MAGIC => media'[ns[i]].diskId = i
                                            ELSE ~media'[ns[i]].MAGIC
      BY <1>0, <2>1 DEF FormatNumbers
    <3>2. CASE i = widx
      <4>1. ~(widx < widx)
        BY <1>0, <2>2, AttachedNat
      <4>2. ret = "sort" => ~media[ns[widx]].MAGIC
        BY <2>2, <3>1, <4>1 DEF NumbersOK, FormatNumbers
      <4>3. QED
        BY <2>2, <3>1, <3>2, <4>2
    <3>3. CASE i # widx
      BY <2>1, <2>2, <3>1, <3>3 DEF NumbersOK, FormatNumbers
    <3>4. QED
      BY <3>2, <3>3
  <2>6. QED
    BY <2>3, <2>4, <2>5 DEF NumbersOK
<1>6. CASE loopReturns
  <2>1. /\ pc \in {"format", "update"} /\ widx = numdisks /\ pc' = ret
        /\ UNCHANGED <<media, msector, ns, numdisks, tool>> /\ Attached' = Attached
    BY <1>6 DEF loopReturns, raid_vars, media_vars, Attached
  <2>2. numdisks = N /\ \A i \in Attached : i < widx /\ i \in 0 .. N - 1
    BY <1>0, <1>a, <2>1, AttachedNat
  <2>3. CASE pc = "format" /\ ret = "create"
    BY <1>2, <2>1, <2>3
  <2>4. CASE pc = "format" /\ ret = "sort"
    <3>1. \A i \in Attached : /\ msector[i].diskId = i /\ msector[i].totalDisks = N
                              /\ media[ns[i]].MAGIC => media[ns[i]].diskId = i
      BY <2>2, <2>4 DEF NumbersOK, FormatNumbers
    <3>2. MemoryNumbers'
      BY <1>0, <2>1, <2>2, <2>4, <3>1 DEF MemoryNumbers
    <3>3. QED
      BY <1>b, <2>1, <2>4, <3>2 DEF NumbersOK, FormatNumbers
  <2>5. CASE pc = "update" /\ ret \in {"run", "pcap", "exit"}
    <3>1. MemoryNumbers'
      BY <1>0, <1>b, <2>1, <2>5 DEF NumbersOK, MemoryNumbers
    <3>2. QED
      BY <1>b, <2>1, <2>5, <3>1 DEF NumbersOK, FormatNumbers
  <2>6. QED
    BY <2>1, <2>3, <2>4, <2>5 DEF BaseInv, RetOK
<1>7. CASE readMeta
  <2>1. CASE pc' # "off"
    BY <1>7, <2>1, NumbersRead DEF readMeta
  <2>2. CASE pc' = "off"
    BY <1>2, <1>7, <2>2 DEF readMeta, createRaid, media_vars
  <2>3. QED
    BY <2>1, <2>2
<1>8. CASE readMetaFails
  BY <1>8 DEF readMetaFails
<1>9. CASE sortDisks
  <2>1. CASE pc' = "off"
    BY <1>2, <1>9, <2>1 DEF sortDisks, media_vars
  <2>2. CASE pc' # "off"
    <3>1. PICK p \in Sorting :
            \A i \in Attached : msector'[i] = msector[p[i]] /\ ns'[i] = ns[p[i]]
      BY <1>0, <1>9, <2>2, SortedDisks
    <3>2. \A i \in Attached : p[i] \in Attached
      BY <1>0, SortingFacts
    <3>a. \A i, k \in Attached : p[i] = p[k] => i = k
      BY <1>0, SortingFacts
    <3>3. /\ pc = "sort" /\ pc' = "run" /\ Attached' = Attached
          /\ UNCHANGED <<media, numdisks>>
      BY <1>0, <1>9, <2>2, SortedDisks
    <3>4. /\ \A i \in Attached : /\ msector[i].diskId \in 0 .. N - 1
                                 /\ msector[i].totalDisks = N
                                 /\ media[ns[i]].MAGIC => media[ns[i]].diskId = msector[i].diskId
          /\ (\A d \in Devices : media[d].MAGIC) \/
             (\A i, k \in Attached : msector[i].diskId = msector[k].diskId => i = k)
      BY <3>3 DEF NumbersOK, MemoryNumbers
    <3>5. ASSUME Numbered PROVE \A i \in Attached : msector[p[i]].diskId = i
      <4>1. \A i, k \in Attached : msector[i].diskId = msector[k].diskId => i = k
        <5>1. CASE \A d \in Devices : media[d].MAGIC
          BY <1>0, <3>4, <3>5, <5>1 DEF Numbered, NsOK
        <5>2. QED
          BY <3>4, <5>1
      <4>2. \A i \in Attached : msector[i].diskId \in 0 .. numdisks - 1
        BY <1>a, <3>3, <3>4
      <4>3. QED
        BY <1>0, <4>1, <4>2, SortedIds
    <3>6. /\ \A i \in Attached :
               /\ msector'[i].diskId \in 0 .. N - 1 /\ msector'[i].totalDisks = N
               /\ media[ns'[i]].MAGIC => media[ns'[i]].diskId = msector'[i].diskId
          /\ (\A d \in Devices : media[d].MAGIC) \/
             (\A i, k \in Attached : msector'[i].diskId = msector'[k].diskId => i = k)
      BY <3>1, <3>2, <3>a, <3>4
    <3>7. Numbered => \A i \in Attached : msector'[i].diskId = i
      BY <3>1, <3>5
    <3>8. MemoryNumbers'
      BY <1>0, <1>b, <3>3, <3>6, <3>7 DEF MemoryNumbers
    <3>9. QED
      BY <1>b, <3>3, <3>8 DEF NumbersOK, FormatNumbers
  <2>3. QED
    BY <2>1, <2>2
<1>10. CASE Editing
  <2>1. Attached' = Attached /\ Attached \subseteq Idx
    BY <1>0, <1>10, EntryTypes DEF Editing, Attached
  <2>2. pc \in {"run", "pcap"} /\ pc' = "update"
        /\ UNCHANGED <<media, ns>> /\ SameHeads
    BY <1>10 DEF Editing
  <2>3. \A i \in Attached : /\ msector'[i].diskId = msector[i].diskId
                            /\ msector'[i].totalDisks = msector[i].totalDisks
    BY <2>1, <2>2 DEF SameHeads
  <2>4. MemoryNumbers'
    BY <1>0, <1>b, <2>1, <2>2, <2>3 DEF NumbersOK, MemoryNumbers
  <2>5. QED
    BY <1>b, <2>2, <2>4 DEF NumbersOK, FormatNumbers
<1>11. CASE Passing
  <2>1. /\ pc = "run" /\ pc' \in {"run", "exit"} /\ Attached' = Attached
        /\ UNCHANGED <<media, ns, msector>>
    BY <1>11 DEF Passing, Attached
  <2>2. MemoryNumbers'
    BY <1>0, <1>b, <2>1 DEF NumbersOK, MemoryNumbers
  <2>3. QED
    BY <1>b, <2>1, <2>2 DEF NumbersOK, FormatNumbers
<1>12. CASE Ending
  BY <1>2, <1>12 DEF Ending, Ends
<1>13. QED
  BY <1>1, <1>3, <1>4, <1>5, <1>6, <1>7, <1>8, <1>9, <1>10, <1>11, <1>12, <1>0, Shapes

LEMMA NumbersInit == Init => NumbersOK
  BY DEF Init, NumbersOK, MediaTotals, MemoryNumbers, FormatNumbers, ZeroSector

\* The tables and the numbers together.
TablesInv == BaseInv /\ RaidInv /\ NumbersOK

LEMMA TablesInit == Init => TablesInv
  BY BaseInit, IInvInit, StepInit, NumbersInit DEF TablesInv, RaidInv

LEMMA TablesNext ==
    ASSUME ~MissingAllowed, ~ReadFaults, TablesInv, [Next]_vars
    PROVE  TablesInv'
  BY BaseNext, IInvNext, StepNext, NumbersNext DEF TablesInv, RaidInv, IInv

\* Every tool runs on the disks in the order of the numbers they were given, with
\* disk i where super_getdisk looks for it, whatever order the probe found them in:
\* as long as no disk is absent, and until a format that was killed leaves two disks
\* with one number.
THEOREM OrderCorrect ==
    ASSUME ~MissingAllowed, ~ReadFaults
    PROVE  Spec => []RaidOrdered
<1>1. TablesInv => RaidOrdered
  <2>1. SUFFICES ASSUME TablesInv, pc = "run", Numbered, NEW i \in Attached
                 PROVE  msector[i].diskId = i /\ msector[i].totalDisks = numdisks
    BY DEF RaidOrdered
  <2>2. numdisks = N
    BY <2>1, AllDisks DEF TablesInv
  <2>3. QED
    BY <2>1, <2>2 DEF TablesInv, NumbersOK, MemoryNumbers
<1>2. QED
  BY <1>1, TablesInit, TablesNext, PTL DEF Spec

\* A step gives a disk a number that another one has only if the tool is format.
LEMMA NumberedStays ==
    ASSUME ~MissingAllowed, ~ReadFaults, BaseInv, NumbersOK, MagicOK, FormatToolOK,
           Numbered, tool # "format", [Next]_vars
    PROVE  Numbered'
<1>1. CASE media' = media
  BY <1>1 DEF Numbered
<1>2. CASE updateRaid
  BY <1>2, UpdateNumbers
<1>3. CASE formatRaid
  <2>1. pc = "format" /\ ret = "sort"
    BY <1>3 DEF formatRaid, FormatToolOK, BaseInv, RetOK
  <2>2. /\ widx \in Attached
        /\ \A d \in Devices : media'[d] = IF d = ns[widx] /\ media' # media
                                          THEN msector'[widx] ELSE media[d]
        /\ msector'[widx].diskId = widx
        /\ \A i \in Attached : i # widx => media'[ns[i]] = media[ns[i]]
    BY <1>3, <2>1, LoopNumbers
  <2>3. \A i \in Attached : media[ns[i]].MAGIC => media[ns[i]].diskId = i
    BY <2>1 DEF NumbersOK, FormatNumbers
  <2>4. \A i \in Attached : media'[ns[i]].MAGIC => media'[ns[i]].diskId = i
    <3>1. ns[widx] \in Devices
      BY <2>2, EntryTypes DEF BaseInv
    <3>2. media'[ns[widx]].MAGIC => media'[ns[widx]].diskId = widx
      BY <2>2, <2>3, <3>1
    <3>3. QED
      BY <2>2, <2>3, <3>2
  <2>5. \A d \in Devices : \E i \in Attached : ns[i] = d
    BY <2>1, AllDisks
  <2>6. QED
    BY <2>4, <2>5 DEF Numbered
<1>4. media' = media \/ formatRaid \/ updateRaid
  BY Shapes DEF vars, Ending, Entering, register_ns, media_vars, loopReturns, readMeta,
     readMetaFails, createRaid, sortDisks, Editing, Passing, BaseInv
<1>5. QED
  BY <1>1, <1>2, <1>3, <1>4

\* Neither createRaid, which numbers disks that have no metadata, nor updateRaid gives
\* two disks one number, whatever is lost or killed (fs.c:75, 104).
THEOREM NumbersKeptCorrect ==
    ASSUME ~MissingAllowed, ~ReadFaults
    PROVE  Spec => NumbersKept
<1>1. TablesInv /\ [Next]_vars => [Numbered /\ tool # "format" => Numbered']_vars
  BY NumberedStays DEF TablesInv, RaidInv, IInv, StepInv
<1>2. QED
  BY <1>1, TablesInit, TablesNext, PTL DEF Spec, NumbersKept

\* Without the tool format the disks always have different numbers.
LEMMA IdsNext ==
    ASSUME ~MissingAllowed, ~ReadFaults, "format" \notin Tools,
           BaseInv, IInv, IdsOK, [Next]_vars
    PROVE  IdsOK'
<1>1. TypeInv /\ MagicOK /\ NumbersOK /\ FormatToolOK
  BY DEF BaseInv, IInv, IdsOK, FormatToolOK
<1>2. NumbersOK' /\ Numbered'
  BY <1>1, NumbersNext, NumberedStays DEF IdsOK
<1>3. tool' # "format"
  BY <1>1, Shapes DEF IdsOK, vars, Ending, Ends, Entering, register_ns, process_vars,
     formatRaid, updateRaid, loopReturns, readMeta, readMetaFails, createRaid, Goto,
     sortDisks, Editing, Passing
<1>4. pc' = "format" => ret' = "sort"
  BY <1>1, Shapes DEF IdsOK, vars, Ending, Ends, Entering, register_ns, process_vars,
     formatRaid, updateRaid, raid_vars, loopReturns, readMeta, readMetaFails, createRaid,
     Goto, Call, sortDisks, Editing, Passing, BaseInv, RetOK
<1>5. QED
  BY <1>2, <1>3, <1>4 DEF IdsOK

LEMMA IdsInit == Init => IdsOK
  BY NumbersInit DEF Init, IdsOK, Numbered, ZeroSector

\* Where the numbers are.
LEMMA IdsPlaces ==
    ASSUME IdsOK
    PROVE  /\ pc \in {"run", "update", "pcap"} => \A i \in Attached : msector[i].diskId = i
           /\ pc \in {"sort", "run", "update", "pcap"} =>
                \A i \in Attached : media[ns[i]].MAGIC => media[ns[i]].diskId = msector[i].diskId
  BY DEF IdsOK, NumbersOK, MemoryNumbers

-----------------------------------------------------------------------------
(* What format leaves.                                                     *)

\* Every disk has a table without files and a number of its own.
Formatted ==
    /\ \A d \in Devices : media[d].MAGIC /\ \A j \in FileIdx : media[d].content[j].name = NoName
    /\ Numbered

\* What format has done so far, if all its writes reached the disks; createRaid then
\* finds the metadata it wrote, unless there is no disk.
FormattedOK ==
    tool = "format" =>
      /\ pc \notin {"update", "pcap"}
      /\ (WriteFaults => faults = 0) =>
           /\ pc = "format" /\ ret = "create" =>
                \A i \in Attached : i < widx => media[ns[i]] = initMeta(i, N)
           /\ pc = "format" /\ ret = "sort" => numdisks = 0
           /\ pc \in {"create", "sort", "run", "exit"} => Formatted

LEMMA FormattedRead ==
    ASSUME ~MissingAllowed, BaseInv, Formatted, readMeta, pc' = "format"
    PROVE  numdisks = 0
<1> DEFINE Magic == {i \in Attached : Faithful[i].MAGIC}
<1>1. pc = "create" /\ Cardinality(Magic) \in {0, numdisks} /\
      (Cardinality(Magic) = 0 \/ pc' = "sort")
  BY ReadShape DEF readMeta
<1>2. \A i \in Attached : Faithful[i] = media[ns[i]] /\ ns[i] \in Devices
  BY EntryTypes DEF Faithful, BaseInv
<1>3. Magic = Attached
  BY <1>2 DEF Formatted
<1>4. QED
  BY <1>1, <1>3, AttachedFinite DEF BaseInv

LEMMA FormattedNext ==
    ASSUME ~MissingAllowed, ~ReadFaults, BaseInv, FormattedOK, [Next]_vars
    PROVE  FormattedOK'
<1>0. TypeInv /\ NsOK /\ N' = N /\ N \in Nat /\ faults \in Nat /\ faults' \in Nat
  BY TypeNext, FSAssumption, FS_CardinalityType DEF BaseInv, N, TypeInv, TypeOK
<1>a. ASSUME media' = media PROVE Formatted' <=> Formatted
  BY <1>a DEF Formatted, Numbered
<1>b. ASSUME UNCHANGED <<media, tool>>, faults' >= faults, pc \in {"create", "sort", "run", "exit"},
             pc' \in {"sort", "run", "exit"}
      PROVE  FormattedOK'
  BY <1>0, <1>a, <1>b DEF FormattedOK
<1>1. CASE UNCHANGED vars
  <2>1. UNCHANGED <<media, tool, pc, ret, widx, numdisks, ns, faults>> /\ Attached' = Attached
    BY <1>1 DEF vars, Attached
  <2>2. QED
    BY <1>0, <1>a, <2>1 DEF FormattedOK, initMeta
<1>2. CASE Ending
  BY <1>2 DEF Ending, Ends, FormattedOK
<1>3. CASE Entering
  <2>1. \A i \in Attached : ~(i < 0)
    BY <1>0, AttachedNat
  <2>2. Attached' = Attached
    BY <1>3 DEF Entering, Attached
  <2>3. QED
    BY <1>3, <2>1, <2>2 DEF Entering, FormattedOK
<1>4. ASSUME NEW d \in Devices, register_ns(d) PROVE FormattedOK'
  BY <1>4 DEF register_ns, process_vars, FormattedOK
<1>5. CASE formatRaid \/ updateRaid
  <2>1. /\ widx \in Attached /\ widx' = widx + 1
        /\ Attached' = Attached
        /\ UNCHANGED <<ns, numdisks, tool, pc, ret>>
        /\ WriteSector(widx, msector'[widx])
        /\ pc = "format" => msector'[widx] = initMeta(widx, numdisks)
        /\ pc \in {"format", "update"}
        /\ \/ media' = [media EXCEPT ![ns[widx]] = msector'[widx]] /\ faults' = faults
           \/ media' = media /\ faults' > faults
    BY <1>0, <1>5, LoopShape
  <2>2. SUFFICES ASSUME tool = "format", WriteFaults => faults' = 0
                 PROVE  /\ pc = "format"
                        /\ ret = "create" =>
                             \A i \in Attached : i < widx' => media'[ns[i]] = initMeta(i, N)
                        /\ ret # "sort"
    BY <1>0, <2>1 DEF FormattedOK, initMeta
  <2>3. pc = "format" /\ (WriteFaults => faults = 0)
    BY <1>0, <2>1, <2>2 DEF FormattedOK
  <2>4. media' = [media EXCEPT ![ns[widx]] = msector'[widx]]
    BY <1>0, <2>1, <2>2 DEF WriteSector
  <2>5. ret # "sort"
    BY <1>0, <2>1, <2>2, <2>3, AttachedNat DEF FormattedOK
  <2>6. ASSUME ret = "create", NEW i \in Attached, i < widx'
        PROVE  media'[ns[i]] = initMeta(i, N)
    <3>1. ns[widx] \in Devices /\ numdisks = N /\ ns[i] \in Devices
      BY <1>0, <2>1, <2>3, AllDisks, EntryTypes
    <3>2. CASE i = widx
      BY <1>0, <2>1, <2>3, <2>4, <3>1, <3>2 DEF TypeInv, TypeOK
    <3>3. CASE i # widx
      <4>1. i < widx /\ ns[i] # ns[widx]
        BY <1>0, <2>1, <2>6, <3>3, AttachedNat DEF NsOK
      <4>2. media[ns[i]] = initMeta(i, N)
        BY <2>2, <2>3, <2>6, <4>1 DEF FormattedOK
      <4>3. QED
        BY <1>0, <2>4, <3>1, <4>1, <4>2 DEF TypeInv, TypeOK
    <3>4. QED
      BY <3>2, <3>3
  <2>7. QED
    BY <2>3, <2>5, <2>6
<1>6. CASE loopReturns
  <2>1. /\ pc \in {"format", "update"} /\ widx = numdisks /\ pc' = ret /\ ret' = "off"
        /\ UNCHANGED <<media, tool, faults>>
    BY <1>6 DEF loopReturns, raid_vars, media_vars
  <2>2. SUFFICES ASSUME tool = "format"
                 PROVE  /\ pc' \in {"create", "sort"}
                        /\ (WriteFaults => faults = 0) => Formatted'
    BY <2>1 DEF FormattedOK
  <2>3. pc = "format" /\ ret \in {"create", "sort"}
    BY <2>1, <2>2 DEF FormattedOK, BaseInv, RetOK
  <2>4. ASSUME WriteFaults => faults = 0 PROVE Formatted
    <3>1. \A i \in Attached : media[ns[i]] = initMeta(i, N)
      <4>1. \A i \in Attached : i < widx /\ numdisks # 0
        BY <1>0, <2>1, AttachedNat
      <4>2. QED
        BY <2>2, <2>3, <2>4, <4>1 DEF FormattedOK
    <3>2. \A d \in Devices : \E i \in Attached : ns[i] = d
      BY <2>3, AllDisks
    <3>3. \A i \in Attached : /\ initMeta(i, N).MAGIC /\ initMeta(i, N).diskId = i
                              /\ \A j \in FileIdx : initMeta(i, N).content[j].name = NoName
      BY DEF initMeta, FreeEntry
    <3>4. QED
      BY <3>1, <3>2, <3>3 DEF Formatted, Numbered
  <2>5. QED
    BY <1>a, <2>1, <2>3, <2>4
<1>7. CASE readMeta
  <2>1. faults' = faults /\ tool' \in {tool, "none"} /\ media' = media /\ pc = "create"
    BY <1>7 DEF readMeta, createRaid, Ends, Goto, media_vars
  <2>2. CASE tool' # "format"
    BY <2>2 DEF FormattedOK
  <2>3. CASE pc' = "format" /\ tool' = "format"
    <3>1. ret' = "sort" /\ numdisks' = numdisks
      BY <1>7, <2>3, ReadShape DEF readMeta
    <3>2. (WriteFaults => faults = 0) => numdisks = 0
      BY <1>7, <2>1, <2>3, FormattedRead DEF FormattedOK
    <3>3. QED
      BY <2>1, <2>3, <3>1, <3>2 DEF FormattedOK
  <2>4. CASE pc' = "sort" /\ tool' = "format"
    BY <1>0, <1>b, <2>1, <2>4
  <2>5. QED
    BY <1>7, <2>1, <2>2, <2>3, <2>4 DEF readMeta, createRaid, Ends, Goto, Call
<1>8. CASE readMetaFails
  BY <1>8 DEF readMetaFails
<1>9. CASE sortDisks
  <2>1. CASE Ends
    BY <2>1 DEF Ends, FormattedOK
  <2>2. CASE Goto("run") /\ ~Ends
    BY <1>0, <1>9, <1>b, <2>2 DEF sortDisks, Goto, media_vars
  <2>3. QED
    BY <1>9, <2>1, <2>2 DEF sortDisks
<1>10. CASE Editing
  BY <1>10 DEF Editing, FormattedOK
<1>11. CASE Passing
  BY <1>0, <1>11, <1>b DEF Passing
<1>12. QED
  BY <1>0, <1>1, <1>2, <1>3, <1>4, <1>5, <1>6, <1>7, <1>8, <1>9, <1>10, <1>11, Shapes

\* A format whose writes all reach the disks has emptied each of them and given it a
\* number of its own, whatever they held: the createRaid that follows it takes the
\* disks as they are, and app_run changes none (fs.c:46-52, main.c:162-163).
THEOREM FormattedCorrect ==
    ASSUME ~MissingAllowed, ~ReadFaults
    PROVE  Spec => []FormattedAtExit
<1>1. Init => BaseInv /\ FormattedOK
  BY BaseInit DEF Init, FormattedOK
<1>2. BaseInv /\ FormattedOK /\ [Next]_vars => (BaseInv /\ FormattedOK)'
  BY BaseNext, FormattedNext
<1>3. FormattedOK => FormattedAtExit
  BY DEF FormattedOK, FormattedAtExit, Formatted, LiveCells, Cells, OnMedia
<1>4. QED
  BY <1>1, <1>2, <1>3, PTL DEF Spec

-----------------------------------------------------------------------------
(* The size of the raid.                                                   *)

LEMMA Column ==
    ASSUME NEW d, NEW n \in Nat
    PROVE  IsFiniteSet({d} \X (1 .. n)) /\ Cardinality({d} \X (1 .. n)) = n
<1> DEFINE f == [k \in 1 .. n |-> <<d, k>>]
           S == {d} \X (1 .. n)
<1>1. f \in [1 .. n -> S]
  OBVIOUS
<1>2. \A k, l \in 1 .. n : f[k] = f[l] => k = l
  OBVIOUS
<1>3. \A s \in S : \E k \in 1 .. n : f[k] = s
  OBVIOUS
<1>4. f \in Bijection(1 .. n, S)
  BY <1>1, <1>2, <1>3 DEF Bijection, Injection, Surjection, IsInjective
<1>5. ExistsBijection(1 .. n, S)
  BY <1>4 DEF ExistsBijection
<1> HIDE DEF S
<1>6. Cardinality(S) = n /\ IsFiniteSet(S)
  BY <1>5, FS_CountingElements, FS_NatBijection, Zenon
<1>7. QED
  BY <1>6 DEF S

LEMMA NoBlocks ==
    ASSUME Ends
    PROVE  BlocksOK'
<1>1. Attached' = {} /\ numdisks' = 0 /\ totalBlocks' = 0
  BY DEF Ends, Attached
<1>2. AttachedSectors' = {}
  BY <1>1 DEF AttachedSectors
<1>3. 0 * SUPERSECTORNUM = 0
  BY SuperSectorAssumption
<1>4. QED
  BY <1>1, <1>2, <1>3, FS_EmptySet DEF BlocksOK

LEMMA SameBlocks ==
    ASSUME BlocksOK, UNCHANGED <<ns, numdisks, totalBlocks>>
    PROVE  BlocksOK'
<1>1. AttachedSectors' = AttachedSectors
  BY DEF AttachedSectors, Attached
<1>2. QED
  BY <1>1 DEF BlocksOK

LEMMA MoreBlocks ==
    ASSUME BaseInv, BlocksOK, \A e \in Devices : Sectors[e] >= SUPERSECTORNUM,
           NEW d \in Devices, register_ns(d)
    PROVE  BlocksOK'
<1> DEFINE new == {d} \X (1 .. Sectors[d])
<1>1. TypeInv /\ numdisks \in Nat /\ Sectors[d] \in Nat /\ totalBlocks \in Nat
  BY AttachedNat, FSAssumption DEF BaseInv, TypeInv, TypeOK
<1>2. /\ numdisks' = numdisks + 1 /\ totalBlocks' = totalBlocks + Sectors[d]
      /\ \A i \in Attached : ns[i] # d
      /\ ns' = [ns EXCEPT ![numdisks] = d]
  BY DEF register_ns
<1>3. /\ numdisks \in Idx /\ Attached \subseteq Idx
      /\ Attached' = Attached \cup {numdisks}
      /\ numdisks \notin Attached
  BY <1>1, <1>2, FSAssumption, AttachedInIdx
     DEF register_ns, Attached, Idx, TypeInv, TypeOK
<1>4. \A i \in Idx : ns'[i] = IF i = numdisks THEN d ELSE ns[i]
  BY <1>1, <1>2, <1>3 DEF TypeInv, TypeOK
<1>5. AttachedSectors' = AttachedSectors \cup new
  <2>1. AttachedSectors' = UNION {{ns'[i]} \X (1 .. Sectors[ns'[i]]) : i \in Attached'}
    BY DEF AttachedSectors
  <2>2. \A i \in Attached : ns'[i] = ns[i]
    BY <1>3, <1>4
  <2>3. ns'[numdisks] = d
    BY <1>3, <1>4
  <2>4. QED
    BY <1>3, <2>1, <2>2, <2>3 DEF AttachedSectors
<1>6. AttachedSectors \cap new = {}
  BY <1>2 DEF AttachedSectors
<1>7. IsFiniteSet(new) /\ Cardinality(new) = Sectors[d]
  BY <1>1, Column
<1> HIDE DEF new
<1>8. /\ IsFiniteSet(AttachedSectors \cup new)
      /\ Cardinality(AttachedSectors \cup new) = totalBlocks + Sectors[d] - Cardinality({})
  BY <1>6, <1>7, FS_Union DEF BlocksOK
<1>9. Cardinality({}) = 0
  BY FS_EmptySet
<1>10. (numdisks + 1) * SUPERSECTORNUM = numdisks * SUPERSECTORNUM + SUPERSECTORNUM
  BY <1>1, SuperSectorAssumption
<1>11. numdisks * SUPERSECTORNUM \in Nat
  BY <1>1, SuperSectorAssumption
<1>12. Sectors[d] >= SUPERSECTORNUM
  OBVIOUS
<1>13. (numdisks + 1) * SUPERSECTORNUM <= totalBlocks + Sectors[d]
  BY <1>1, <1>10, <1>11, <1>12, SuperSectorAssumption DEF BlocksOK
<1>14. QED
  BY <1>1, <1>2, <1>5, <1>8, <1>9, <1>13 DEF BlocksOK

LEMMA SortedBlocks ==
    ASSUME TypeInv, BlocksOK, sortDisks, pc' # "off"
    PROVE  BlocksOK'
<1>1. /\ \E p \in Sorting : \A i \in Attached : ns'[i] = ns[p[i]]
      /\ Attached' = Attached /\ UNCHANGED <<numdisks, totalBlocks>>
  BY SortedDisks
<1>2. PICK p \in Sorting : \A i \in Attached : ns'[i] = ns[p[i]]
  BY <1>1
<1>3. /\ \A i \in Attached : p[i] \in Attached
      /\ \A j \in Attached : \E i \in Attached : p[i] = j
  BY SortingFacts
<1>4. AttachedSectors' = UNION {{ns'[i]} \X (1 .. Sectors[ns'[i]]) : i \in Attached}
  BY <1>1 DEF AttachedSectors
<1>5. \A x : x \in AttachedSectors' <=>
               \E i \in Attached : x \in {ns'[i]} \X (1 .. Sectors[ns'[i]])
  BY <1>4
<1>6. \A x : x \in AttachedSectors <=>
               \E i \in Attached : x \in {ns[i]} \X (1 .. Sectors[ns[i]])
  BY DEF AttachedSectors
<1>7. \A x : x \in AttachedSectors' <=> x \in AttachedSectors
  BY <1>2, <1>3, <1>5, <1>6
<1>8. AttachedSectors' = AttachedSectors
  BY <1>7
<1>9. QED
  BY <1>1, <1>8 DEF BlocksOK

\* A process that has found all the disks knows the size of the raid.
LEMMA AllBlocks ==
    ASSUME BaseInv, BlocksOK, ~MissingAllowed, pc \notin {"off", "probe"}
    PROVE  totalBlocks = TotalSectors
<1>1. \A d \in Devices : \E i \in Attached : ns[i] = d
  BY AllDisks
<1>2. \A i \in Attached : ns[i] \in Devices
  BY DEF BaseInv, NsOK
<1>3. AttachedSectors = UNION {{d} \X (1 .. Sectors[d]) : d \in Devices}
  <2>1. \A x : x \in AttachedSectors <=>
                 \E i \in Attached : x \in {ns[i]} \X (1 .. Sectors[ns[i]])
    BY DEF AttachedSectors
  <2>2. \A x : x \in UNION {{d} \X (1 .. Sectors[d]) : d \in Devices} <=>
                 \E d \in Devices : x \in {d} \X (1 .. Sectors[d])
    OBVIOUS
  <2>3. QED
    BY <1>1, <1>2, <2>1, <2>2
<1>4. QED
  BY <1>3 DEF BlocksOK, TotalSectors

\* The number of sectors is a number: the raid is finite.
LEMMA TotalType == TotalSectors \in Nat
<1> DEFINE column == [d \in Devices |-> {d} \X (1 .. Sectors[d])]
           columns == {{d} \X (1 .. Sectors[d]) : d \in Devices}
<1>1. column \in Surjection(Devices, columns)
  <2>1. \A d \in Devices : column[d] \in columns
    OBVIOUS
  <2>2. column \in [Devices -> columns]
    BY <2>1
  <2>3. \A T \in columns : \E d \in Devices : column[d] = T
    OBVIOUS
  <2> HIDE DEF column, columns
  <2>4. QED
    BY <2>2, <2>3 DEF Surjection
<1>2. \A T \in columns : IsFiniteSet(T)
  <2>1. SUFFICES ASSUME NEW d \in Devices PROVE IsFiniteSet({d} \X (1 .. Sectors[d]))
    OBVIOUS
  <2>2. Sectors[d] \in Nat
    BY FSAssumption
  <2>3. QED
    BY <2>2, Column
<1> HIDE DEF column, columns
<1>3. IsFiniteSet(columns)
  <2>1. IsFiniteSet(Devices)
    BY FSAssumption
  <2>2. QED
    BY <1>1, <2>1, FS_Surjection, Zenon
<1>4. IsFiniteSet(UNION columns)
  BY <1>2, <1>3, FS_UNION
<1>5. Cardinality(UNION columns) \in Nat
  BY <1>4, FS_CardinalityType
<1>6. QED
  BY <1>5 DEF columns, TotalSectors

\* A table whose files end inside the raid.
InRaid(sector) == \A j \in FileIdx : sector.content[j].endBlock <= TotalSectors

LEMMA InRaidMade ==
    /\ InRaid(ZeroSector)
    /\ \A i, n \in Nat : InRaid(initMeta(i, n))
    /\ FreeEntry.endBlock <= TotalSectors
  BY TotalType DEF InRaid, ZeroSector, initMeta, FreeEntry

\* One entry of memory is changed, and its file still ends inside the raid.
LEMMA InRaidEdit ==
    ASSUME TypeInv, EndsOK, NEW s \in Slots, NEW f \in metaFile,
           f.endBlock <= TotalSectors
    PROVE  /\ SetEntry(msector, s, f) \in [Idx -> metaSector]
           /\ \A i \in Idx : InRaid(SetEntry(msector, s, f)[i])
<1>1. msector \in [Idx -> metaSector]
  BY DEF TypeInv, TypeOK
<1>2. SetEntry(msector, s, f) \in [Idx -> metaSector]
  BY <1>1, SetEntryFacts
<1>3. \A i \in Idx, j \in FileIdx :
        SetEntry(msector, s, f)[i].content[j] = IF <<i, j>> = s THEN f ELSE Mem(i, j)
  BY <1>1, SetEntryFacts DEF Mem
<1>4. \A i \in Idx, j \in FileIdx : SetEntry(msector, s, f)[i].content[j].endBlock <= TotalSectors
  BY <1>3 DEF EndsOK
<1>5. QED
  BY <1>2, <1>4 DEF InRaid

LEMMA InRaidCount ==
    ASSUME NEW m \in [Idx -> metaSector], NEW k \in Int, \A i \in Idx : InRaid(m[i])
    PROVE  \A i \in Idx : InRaid(Count(m, k)[i])
  BY CountFacts DEF InRaid

\* What addFile finds free ends inside the raid: no subtraction of the check for
\* space wraps around when all the disks are there.
LEMMA AddedInRaid ==
    ASSUME ~MissingAllowed, BaseInv, BlocksOK, EndsOK, pc = "run",
           NEW n, NEW length \in Nat, NEW right \in rightFreeBlock,
           CanAdd(n, length, right)
    PROVE  right \in Nat /\ right + length <= TotalSectors
<1>1. TypeInv /\ totalBlocks = TotalSectors /\ totalBlocks \in Nat
  BY AllBlocks, TotalType DEF BaseInv
<1>2. right \in Nat
  BY <1>1, RightFree DEF TypeInv
<1>3. right <= TotalSectors
  <2>1. numdisks * SUPERSECTORNUM <= TotalSectors
    BY <1>1 DEF BlocksOK
  <2>2. \A s \in Attached \X FileIdx : Entry(s).endBlock <= TotalSectors
    BY <1>1, EntryTypes DEF EndsOK, Entry, Mem
  <2>3. QED
    BY <2>1, <2>2 DEF rightFreeBlock
<1>4. totalBlocks - right \in Nat
  BY <1>1, <1>2, <1>3
<1>5. (totalBlocks - right) % Word <= totalBlocks - right
  <2> DEFINE x == totalBlocks - right
  <2>1. x \in Nat /\ Word \in Nat \ {0}
    BY <1>4, FSAssumption
  <2> HIDE DEF x
  <2>2. /\ x \div Word \in Nat
        /\ (x % Word) \in 0 .. Word - 1
        /\ x = Word * (x \div Word) + (x % Word)
    BY <2>1, DivMod, Zenon
  <2>3. Word * (x \div Word) \in Nat
    BY <2>1, <2>2
  <2>4. x % Word <= x
    BY <2>1, <2>2, <2>3
  <2>5. QED
    BY <2>4 DEF x
<1>6. length <= (totalBlocks - right) % Word
  BY DEF CanAdd, rightFreeBlocks
<1>7. (totalBlocks - right) % Word \in Nat
  BY <1>4, FSAssumption
<1>8. QED
  BY <1>1, <1>2, <1>4, <1>5, <1>6, <1>7

LEMMA EndsInRaid ==
    ASSUME EndsOK, Ends, media' = media
    PROVE  EndsOK'
<1>1. tool' # "pcap" /\ pc' # "pcap" /\ ret' # "pcap"
  BY DEF Ends
<1>2. \A i \in Idx : msector'[i] = ZeroSector
  BY DEF Ends, NoSectors
<1>3. \A i \in Idx, j \in FileIdx : msector'[i].content[j].endBlock <= TotalSectors
  BY <1>2, InRaidMade DEF InRaid
<1>4. QED
  BY <1>1, <1>3 DEF EndsOK, Mem, Med, TotalSectors

\* What createRaid reads, from a disk or out of a buffer, ends inside the raid.
LEMMA ReadInRaid ==
    ASSUME TypeInv, EndsOK, NEW sectors,
           \A i \in Idx : InRaid(sectors[i]), createRaid(sectors)
    PROVE  EndsOK'
<1>1. CASE Ends
  BY <1>1, EndsInRaid DEF createRaid, media_vars
<1>2. CASE pc' # "off"
  BY <1>2, ReadShape DEF EndsOK, Mem, Med, InRaid, TotalSectors
<1>3. QED
  BY <1>1, <1>2 DEF createRaid, Call, Goto

LEMMA EditInRaid ==
    ASSUME ~MissingAllowed, BaseInv, BlocksOK, EndsOK,
           \/ \E n \in Names : rmFile(n)
           \/ \E n \in Names, length \in Sizes : cpOverwrites(n, length) \/ cpAdds(n, length)
    PROVE  EndsOK'
<1>0. TypeInv /\ tool' = tool /\ media' = media
  BY DEF BaseInv, rmFile, cpOverwrites, cpAdds, Goto, Call, media_vars
<1>a. ASSUME \A i \in Idx : InRaid(msector'[i]), pc' # "pcap", ret' # "pcap"
      PROVE  EndsOK'
  BY <1>0, <1>a DEF InRaid, EndsOK, Mem, Med, TotalSectors
<1>b. \A i \in Idx : InRaid(msector[i])
  BY DEF InRaid, EndsOK, Mem
<1>1. ASSUME NEW n \in Names, rmFile(n) PROVE EndsOK'
  <2>1. CASE UNCHANGED <<raid_vars, pc, ret, widx>>
    BY <1>a, <1>b, <2>1 DEF raid_vars, EndsOK
  <2>2. CASE (\E s \in findFile(n) : delFile(s)) /\ Call("update", "run")
    <3>1. PICK s \in findFile(n) : delFile(s)
      BY <2>2
    <3>2. s \in Slots
      BY <1>0, PickedEntry DEF findFile
    <3>3. /\ SetEntry(msector, s, FreeEntry) \in [Idx -> metaSector]
          /\ \A i \in Idx : InRaid(SetEntry(msector, s, FreeEntry)[i])
      BY <1>0, <3>2, InRaidEdit, InRaidMade, MadeSectors
    <3>4. \A i \in Idx : InRaid(msector'[i])
      BY <3>1, <3>3, InRaidCount DEF delFile
    <3>5. QED
      BY <1>a, <2>2, <3>4 DEF Call
  <2>3. QED
    BY <1>1, <2>1, <2>2 DEF rmFile
<1>2. ASSUME NEW n \in Names, NEW length \in Sizes, cpOverwrites(n, length) PROVE EndsOK'
  <2>1. PICK s \in findFile(n) :
          \/ Goto("exit") /\ UNCHANGED raid_vars
          \/ /\ ~(length > Entry(s).endBlock - Entry(s).startBlock)
             /\ msector' = Resize(s, length)
             /\ Call("update", "exit")
    BY <1>2 DEF cpOverwrites
  <2>2. s \in Slots /\ length \in Nat /\ Entry(s) \in metaFile
    BY <1>0, PickedEntry, FSAssumption DEF findFile
  <2>3. CASE Goto("exit") /\ UNCHANGED raid_vars
    BY <1>a, <1>b, <2>3 DEF raid_vars, Goto, EndsOK
  <2>4. CASE /\ ~(length > Entry(s).endBlock - Entry(s).startBlock)
             /\ msector' = Resize(s, length)
             /\ Call("update", "exit")
    <3> DEFINE f == [Entry(s) EXCEPT !.endBlock = Entry(s).startBlock + length]
    <3>1. f \in metaFile /\ f.endBlock = Entry(s).startBlock + length
      BY <2>2 DEF metaFile
    <3>2. Entry(s).endBlock <= TotalSectors
      BY <2>2 DEF EndsOK, Entry, Mem, Slots
    <3>3. f.endBlock <= TotalSectors
      BY <2>2, <2>4, <3>1, <3>2, TotalType DEF metaFile
    <3>4. msector' = SetEntry(msector, s, f)
      BY <2>4 DEF Resize
    <3> HIDE DEF f
    <3>5. \A i \in Idx : InRaid(msector'[i])
      BY <1>0, <2>2, <3>1, <3>3, <3>4, InRaidEdit
    <3>6. QED
      BY <1>a, <2>4, <3>5 DEF Call
  <2>5. QED
    BY <2>1, <2>3, <2>4
<1>3. ASSUME NEW n \in Names, NEW length \in Sizes, cpAdds(n, length) PROVE EndsOK'
  <2>1. PICK right \in rightFreeBlock, s \in FreeSlots :
          /\ addFile(n, length, right, s)
          /\ IF tool = "pcap" THEN Call("update", "pcap") ELSE Call("update", "exit")
    BY <1>3 DEF cpAdds
  <2>2. pc' # "pcap" /\ ret' # "pcap"
    BY <2>1 DEF Call, EndsOK
  <2>3. s \in Slots /\ length \in Nat /\ pc = "run"
    BY <1>0, <1>3, PickedEntry, FSAssumption DEF FreeSlots, cpAdds
  <2>4. right \in Nat /\ right + length <= TotalSectors
    BY <2>1, <2>3, AddedInRaid DEF addFile
  <2> DEFINE f == [name |-> n, startBlock |-> right, endBlock |-> right + length]
  <2>5. f \in metaFile /\ f.endBlock <= TotalSectors
    BY <2>3, <2>4 DEF metaFile
  <2>6. msector' = Count(SetEntry(msector, s, f), 1)
    BY <2>1 DEF addFile
  <2> HIDE DEF f
  <2>7. /\ SetEntry(msector, s, f) \in [Idx -> metaSector]
        /\ \A i \in Idx : InRaid(SetEntry(msector, s, f)[i])
    BY <1>0, <2>3, <2>5, InRaidEdit
  <2>8. \A i \in Idx : InRaid(msector'[i])
    BY <2>6, <2>7, InRaidCount
  <2>9. QED
    BY <1>a, <2>2, <2>8
<1>4. QED
  BY <1>1, <1>2, <1>3

LEMMA SizeNext ==
    ASSUME ~MissingAllowed, "pcap" \notin Tools,
           \A d \in Devices : Sectors[d] >= SUPERSECTORNUM,
           BaseInv, BlocksOK, EndsOK, [Next]_vars
    PROVE  BlocksOK' /\ EndsOK'
<1>0. TypeInv /\ TotalSectors' = TotalSectors
  BY DEF BaseInv, TotalSectors
<1>a. ASSUME UNCHANGED <<media, msector, ns, numdisks, totalBlocks>>,
             tool' # "pcap", pc' # "pcap", ret' # "pcap"
      PROVE  BlocksOK' /\ EndsOK'
  BY <1>0, <1>a, SameBlocks DEF EndsOK, Mem, Med
<1>b. ASSUME NEW d \in Devices, register_ns(d) PROVE BlocksOK' /\ EndsOK'
  BY <1>0, <1>b, MoreBlocks DEF register_ns, process_vars, media_vars, EndsOK, Mem, Med
<1>c. ASSUME Ends, media' = media PROVE BlocksOK' /\ EndsOK'
  BY <1>c, NoBlocks, EndsInRaid
<1>1. ASSUME NEW t \in Tools, Launch(t) PROVE BlocksOK' /\ EndsOK'
  BY <1>a, <1>1 DEF Launch, raid_vars, media_vars, EndsOK
<1>2. CASE app_init
  BY <1>a, <1>2 DEF app_init, raid_vars, media_vars, Call, Goto, EndsOK
<1>3. CASE formatRaid \/ updateRaid
  <2>1. /\ widx \in Attached
        /\ Attached' = Attached
        /\ UNCHANGED <<ns, numdisks, totalBlocks, tool, pc, ret>>
        /\ WriteSector(widx, msector'[widx])
        /\ pc = "update" => UNCHANGED msector
        /\ pc = "format" => msector'[widx] = initMeta(widx, numdisks)
        /\ pc \in {"format", "update"}
    BY <1>0, <1>3, LoopShape
  <2>2. widx \in Idx /\ widx \in Nat /\ numdisks \in Nat
    BY <1>0, <2>1, EntryTypes, AttachedNat
  <2>3. \A i \in Idx : i # widx => msector'[i] = msector[i]
    BY <1>0, <1>3, <2>2 DEF formatRaid, updateRaid, raid_vars, TypeInv, TypeOK
  <2>4. InRaid(msector'[widx])
    BY <2>1, <2>2, InRaidMade DEF EndsOK, InRaid, Mem
  <2>5. \A d \in Devices : media'[d] = media[d] \/ media'[d] = msector'[widx]
    BY <1>0, <2>1 DEF WriteSector, TypeInv, TypeOK
  <2>6. \A i \in Idx, j \in FileIdx : msector'[i].content[j].endBlock <= TotalSectors
    BY <2>3, <2>4 DEF EndsOK, InRaid, Mem
  <2>7. \A d \in Devices, j \in FileIdx : media'[d].content[j].endBlock <= TotalSectors
    BY <2>4, <2>5 DEF EndsOK, InRaid, Med
  <2>8. EndsOK'
    BY <1>0, <2>1, <2>6, <2>7 DEF EndsOK, Mem, Med
  <2>9. QED
    BY <2>1, <2>8, SameBlocks
<1>4. CASE loopReturns
  <2>1. /\ UNCHANGED <<media, msector, ns, numdisks, totalBlocks, tool>>
        /\ pc' = ret /\ ret' = "off"
    BY <1>4 DEF loopReturns, raid_vars, media_vars
  <2>2. ret # "pcap"
    BY DEF EndsOK
  <2>3. QED
    BY <1>a, <2>1, <2>2 DEF EndsOK
<1>5. CASE readMeta \/ readMetaFails
  <2>1. \A i \in Idx : InRaid(Faithful[i])
    BY <1>0, EntryTypes DEF Faithful, EndsOK, InRaid, Mem, Med
  <2>2. PICK sectors : createRaid(sectors) /\ \A i \in Idx : InRaid(sectors[i])
    <3>1. CASE readMeta
      BY <2>1, <3>1 DEF readMeta
    <3>2. CASE readMetaFails
      <4>1. PICK i \in Attached :
              \E junk \in {msector[i], ZeroSector}
                            \cup {Faithful[k] : k \in {j \in Attached : j = i - 1}} :
                 createRaid([Faithful EXCEPT ![i] = junk])
        BY <3>2 DEF readMetaFails
      <4>2. PICK junk \in {msector[i], ZeroSector}
                            \cup {Faithful[k] : k \in {j \in Attached : j = i - 1}} :
                 createRaid([Faithful EXCEPT ![i] = junk])
        BY <4>1
      <4>3. Attached \subseteq Idx
        BY <1>0, EntryTypes
      <4>4. InRaid(msector[i])
        BY <4>3 DEF EndsOK, InRaid, Mem
      <4>5. InRaid(junk)
        BY <2>1, <4>3, <4>4, InRaidMade
      <4>6. \A k \in Idx : InRaid([Faithful EXCEPT ![i] = junk][k])
        BY <2>1, <4>5 DEF Faithful
      <4>7. QED
        BY <4>2, <4>6
    <3>3. QED
      BY <1>5, <3>1, <3>2
  <2>3. EndsOK'
    BY <1>0, <2>2, ReadInRaid
  <2>4. CASE Ends
    BY <2>3, <2>4, NoBlocks
  <2>5. CASE pc' # "off"
    BY <2>2, <2>3, <2>5, ReadShape, SameBlocks
  <2>6. QED
    BY <2>2, <2>4, <2>5 DEF createRaid, Call, Goto
<1>6. CASE sortDisks
  <2>1. CASE Ends
    BY <1>6, <1>c, <2>1 DEF sortDisks, media_vars
  <2>2. CASE pc' # "off"
    <3>1. PICK p \in Sorting :
            msector' = [i \in Idx |-> IF i \in Attached THEN msector[p[i]] ELSE msector[i]]
      BY <1>6, <2>2 DEF sortDisks, Ends
    <3>2. \A i \in Attached : p[i] \in Attached /\ p[i] \in Idx
      BY <1>0, SortingFacts, EntryTypes
    <3>3. \A i \in Idx, j \in FileIdx : msector'[i].content[j].endBlock <= TotalSectors
      BY <3>1, <3>2 DEF EndsOK, Mem
    <3>4. UNCHANGED <<media, tool, ret>> /\ pc' = "run"
      BY <1>0, <1>6, <2>2, SortedDisks
    <3>5. EndsOK'
      BY <1>0, <3>3, <3>4 DEF EndsOK, Mem, Med
    <3>6. QED
      BY <1>0, <1>6, <2>2, <3>5, SortedBlocks
  <2>3. QED
    BY <1>6, <2>1, <2>2 DEF sortDisks, Goto
<1>7. ASSUME \/ \E n \in Names : rmFile(n)
             \/ \E n \in Names, length \in Sizes : cpOverwrites(n, length) \/ cpAdds(n, length)
      PROVE  BlocksOK' /\ EndsOK'
  <2>1. EndsOK'
    BY <1>7, EditInRaid
  <2>2. UNCHANGED <<ns, numdisks, totalBlocks>>
    BY <1>0, <1>7, RmFileShape, CpOverwritesShape, CpAddsShape DEF Editing, Passing
  <2>3. QED
    BY <2>1, <2>2, SameBlocks
<1>8. ASSUME NEW n \in Names, NEW length \in Sizes, cpCannotAdd(n, length)
      PROVE  BlocksOK' /\ EndsOK'
  BY <1>8, <1>c DEF cpCannotAdd, media_vars
<1>9. CASE freeSpcap \/ pcapNotOpened
  BY <1>9 DEF freeSpcap, pcapNotOpened, EndsOK
<1>10. CASE runReturns
  BY <1>a, <1>10 DEF runReturns, raid_vars, media_vars, Goto, EndsOK
<1>11. CASE mainReturns \/ Crash \/ probeFails
  BY <1>c, <1>11 DEF mainReturns, Crash, probeFails, media_vars
<1>12. CASE UNCHANGED vars
  BY <1>a, <1>12 DEF vars, EndsOK
<1>13. QED
  BY <1>b, <1>1, <1>2, <1>3, <1>4, <1>5, <1>6, <1>7, <1>8, <1>9, <1>10, <1>11, <1>12
     DEF Next, Step

\* Every file on the disks ends inside the raid, for any number and any sizes of
\* disks of at least one super-sector each, crashes, lost writes and bad reads
\* included: the subtraction in rightFreeBlocks never wraps around.
THEOREM WithinRaidCorrect ==
    ASSUME ~MissingAllowed, "pcap" \notin Tools,
           \A d \in Devices : Sectors[d] >= SUPERSECTORNUM
    PROVE  Spec => []WithinRaid
<1>1. Init => BaseInv /\ BlocksOK /\ EndsOK
  <2>1. ASSUME Init PROVE BlocksOK
    <3>1. Attached = {} /\ numdisks = 0 /\ totalBlocks = 0
      BY <2>1 DEF Init, Attached
    <3>2. AttachedSectors = {}
      BY <3>1 DEF AttachedSectors
    <3>3. 0 * SUPERSECTORNUM = 0
      BY SuperSectorAssumption
    <3>4. QED
      BY <3>1, <3>2, <3>3, FS_EmptySet DEF BlocksOK
  <2>2. ASSUME Init PROVE EndsOK
    <3>1. /\ \A i \in Idx : msector[i] = ZeroSector
          /\ \A d \in Devices : media[d] = ZeroSector
          /\ tool = "none" /\ pc = "off" /\ ret = "off"
      BY <2>2 DEF Init, NoSectors
    <3>2. QED
      BY <3>1, InRaidMade DEF EndsOK, Mem, Med, InRaid
  <2>3. QED
    BY <2>1, <2>2, BaseInit
<1>2. BaseInv /\ BlocksOK /\ EndsOK /\ [Next]_vars => (BaseInv /\ BlocksOK /\ EndsOK)'
  BY BaseNext, SizeNext
<1>3. EndsOK => WithinRaid
  BY DEF EndsOK, WithinRaid, Cells, OnMedia, Med
<1>4. QED
  BY <1>1, <1>2, <1>3, PTL DEF Spec

-----------------------------------------------------------------------------
(* Where the blocks of the files are.                                      *)

BlocksOf(c)  == OnMedia(c).startBlock .. OnMedia(c).endBlock - 1
SectorsOf(c) == {Location(N, b) : b \in BlocksOf(c)}

\* Extents that are apart have their blocks in different sectors, because a sector
\* holds one block only, and none of them is the sector of the metadata.
LEMMA ExtentsApart ==
    ASSUME TypeOK, MediaDisjoint
    PROVE  SectorsDisjoint
<1>1. \A c \in Cells : OnMedia(c) \in metaFile
  BY DEF Cells, OnMedia, TypeOK, metaSector
<1>2. \A c \in Cells : \A b \in BlocksOf(c) : b \in Nat
  BY <1>1 DEF metaFile, BlocksOf
<1>3. ASSUME NEW c \in Cells PROVE N \in Nat \ {0}
  <2>1. N \in Nat /\ Devices # {}
    BY <1>3, FSAssumption, FS_CardinalityType DEF Cells, N
  <2>2. N # 0
    BY <2>1, FSAssumption, FS_EmptySet DEF N
  <2>3. QED
    BY <2>1, <2>2
<1>4. ASSUME NEW c \in Cells, NEW p \in SectorsOf(c) PROVE p[2] # 0
  <2>1. PICK b \in BlocksOf(c) : p = Location(N, b)
    BY DEF SectorsOf
  <2>2. super_getdisklba(N, b) >= SUPERSECTORNUM
    BY <1>2, <1>3, KeepsMetasector
  <2>3. p[2] = super_getdisklba(N, b)
    BY <2>1 DEF Location
  <2>4. QED
    BY <2>2, <2>3, SuperSectorAssumption
<1>5. ASSUME NEW c \in Cells, NEW d \in Cells, c # d
      PROVE  SectorsOf(c) \cap SectorsOf(d) = {}
  <2>1. SUFFICES ASSUME NEW x \in BlocksOf(c), NEW y \in BlocksOf(d),
                        Location(N, x) = Location(N, y)
                 PROVE  FALSE
    BY DEF SectorsOf
  <2>2. x \in Nat /\ y \in Nat /\ N \in Nat \ {0}
    BY <1>2, <1>3
  <2>3. x = y
    BY <2>1, <2>2, LocationInjective
  <2>4. Disjoint(OnMedia(c), OnMedia(d))
    BY <1>5 DEF MediaDisjoint
  <2>5. QED
    BY <1>1, <2>3, <2>4 DEF Disjoint, metaFile, BlocksOf
<1>6. QED
  BY <1>4, <1>5 DEF SectorsDisjoint, LiveCells, SectorsOf, BlocksOf, N

\* Blocks of two files, or of a file and the metadata, are never in the same sector
\* of the same disk, for any number of disks and any size of a super-sector.
THEOREM SectorsCorrect ==
    ASSUME ~MissingAllowed, ~ReadFaults
    PROVE  Spec => []SectorsDisjoint
<1>1. TypeOK /\ MediaDisjoint => SectorsDisjoint
  BY ExtentsApart
<1>2. QED
  BY <1>1, TypeCorrect, DisjointCorrect, PTL

-----------------------------------------------------------------------------
(* The count of files.                                                     *)

\* Counts wrap, so that they are compared up to multiples of Byte.
LEMMA CongruentMeans ==
    ASSUME NEW x \in Int, NEW y \in Int
    PROVE  Congruent(x, y) <=> \E q \in Int : x = y + Byte * q
<1>1. Byte \in Nat \ {0} /\ x - y \in Int
  BY FSAssumption
<1>2. /\ (x - y) \div Byte \in Int
      /\ x - y = Byte * ((x - y) \div Byte) + ((x - y) % Byte)
  BY <1>1, SMT
<1>3. ASSUME NEW q \in Int, x = y + Byte * q
      PROVE  (x - y) % Byte = 0
  <2>1. x - y = Byte * q
    BY <1>1, <1>3
  <2>2. (Byte * q) % Byte = 0
    BY <1>1, SMT
  <2>3. QED
    BY <2>1, <2>2
<1>4. ASSUME (x - y) % Byte = 0
      PROVE  \E q \in Int : x = y + Byte * q
  <2>1. PICK q \in Int : q = (x - y) \div Byte
    BY <1>2
  <2>2. x - y = Byte * q
    BY <1>1, <1>2, <1>4, <2>1
  <2>3. QED
    BY <1>1, <2>2
<1>5. QED
  BY <1>3, <1>4 DEF Congruent

LEMMA CongruentSelf ==
    ASSUME NEW x \in Int
    PROVE  Congruent(x, x)
<1>1. x = x + Byte * 0
  BY FSAssumption
<1>2. QED
  BY <1>1, CongruentMeans

LEMMA CongruentTrans ==
    ASSUME NEW x \in Int, NEW y \in Int, NEW z \in Int, NEW d \in Int,
           Congruent(x, y + d), Congruent(y, z)
    PROVE  Congruent(x, z + d)
<1>1. PICK p \in Int : x = (y + d) + Byte * p
  BY CongruentMeans
<1>2. PICK q \in Int : y = z + Byte * q
  BY CongruentMeans
<1>3. Byte \in Int
  BY FSAssumption
<1>4. Byte * p + Byte * q = Byte * (p + q) /\ Byte * p \in Int /\ Byte * q \in Int
  BY <1>3
<1>5. x = (z + d) + Byte * (p + q)
  BY <1>1, <1>2, <1>4
<1>6. QED
  BY <1>5, CongruentMeans

LEMMA CongruentBack ==
    ASSUME NEW x \in Int, NEW y \in Int, NEW d \in Int, Congruent(x, y + d)
    PROVE  Congruent(y, x - d)
<1>1. PICK p \in Int : x = (y + d) + Byte * p
  BY CongruentMeans
<1>2. Byte \in Int
  BY FSAssumption
<1>3. y = (x - d) + Byte * (-p)
  BY <1>1, <1>2
<1>4. QED
  BY <1>3, CongruentMeans

\* The new count that Count stores.
LEMMA CongruentCount ==
    ASSUME NEW x \in Int
    PROVE  Congruent(x % Byte, x)
<1>1. Byte \in Nat \ {0}
  BY FSAssumption
<1>2. /\ x \div Byte \in Int /\ x % Byte \in Int
      /\ x = Byte * (x \div Byte) + (x % Byte)
  BY <1>1, SMT
<1>3. PICK q \in Int : x = Byte * q + (x % Byte)
  BY <1>2
<1>4. PICK r \in Int : r = x % Byte
  BY <1>2
<1>5. r = x + Byte * (-q)
  BY <1>1, <1>3, <1>4
<1>6. QED
  BY <1>4, <1>5, CongruentMeans

LEMMA LiveFinite ==
    ASSUME TypeInv
    PROVE  /\ IsFiniteSet(LiveCells) /\ IsFiniteSet(MemoryLive) /\ IsFiniteSet(Stale)
           /\ Cardinality(LiveCells) \in Nat
           /\ Cardinality(MemoryLive) \in Nat
           /\ Cardinality(Stale) \in Nat
<1>1. IsFiniteSet(FileIdx)
  <2>1. 0 \in Int /\ MAXFILES - 1 \in Int
    BY FSAssumption
  <2>2. QED
    BY <2>1, FS_Interval DEF FileIdx
<1>2. IsFiniteSet(Cells)
  BY <1>1, FSAssumption, FS_Product DEF Cells
<1>3. LiveCells \in SUBSET Cells /\ MemoryLive \in SUBSET Cells /\ Stale \in SUBSET Cells
  BY DEF LiveCells, MemoryLive, Stale
<1>4. QED
  BY <1>2, <1>3, FS_Subset, FS_CardinalityType

\* The files on the disks are those in memory and the ones that rm has removed there
\* only, or those in memory without the one that cp has added there only.
LEMMA StaleCount ==
    ASSUME TypeInv
    PROVE  /\ MemoryLive \subseteq LiveCells =>
                Cardinality(LiveCells) = Cardinality(MemoryLive) + Cardinality(Stale)
           /\ LiveCells \subseteq MemoryLive =>
                Cardinality(MemoryLive) = Cardinality(LiveCells) + Cardinality(Stale)
<1>1. /\ IsFiniteSet(LiveCells) /\ IsFiniteSet(MemoryLive) /\ IsFiniteSet(Stale)
      /\ Cardinality(LiveCells) \in Nat
      /\ Cardinality(MemoryLive) \in Nat
      /\ Cardinality(Stale) \in Nat
  BY LiveFinite
<1>2. Cardinality({}) = 0
  BY FS_EmptySet
<1>3. ASSUME MemoryLive \subseteq LiveCells
      PROVE  Cardinality(LiveCells) = Cardinality(MemoryLive) + Cardinality(Stale)
  <2>1. LiveCells = MemoryLive \cup Stale /\ MemoryLive \cap Stale = {}
    BY <1>3 DEF Stale
  <2>2. Cardinality(MemoryLive \cup Stale) =
          Cardinality(MemoryLive) + Cardinality(Stale) - Cardinality(MemoryLive \cap Stale)
    BY <1>1, FS_Union, Zenon
  <2>3. /\ Cardinality(MemoryLive \cup Stale) = Cardinality(LiveCells)
        /\ Cardinality(MemoryLive \cap Stale) = 0
    BY <1>2, <2>1, Zenon
  <2>4. QED
    BY <1>1, <2>2, <2>3
<1>4. ASSUME LiveCells \subseteq MemoryLive
      PROVE  Cardinality(MemoryLive) = Cardinality(LiveCells) + Cardinality(Stale)
  <2>1. MemoryLive = LiveCells \cup Stale /\ LiveCells \cap Stale = {}
    BY <1>4 DEF Stale
  <2>2. Cardinality(LiveCells \cup Stale) =
          Cardinality(LiveCells) + Cardinality(Stale) - Cardinality(LiveCells \cap Stale)
    BY <1>1, FS_Union, Zenon
  <2>3. /\ Cardinality(LiveCells \cup Stale) = Cardinality(MemoryLive)
        /\ Cardinality(LiveCells \cap Stale) = 0
    BY <1>2, <2>1, Zenon
  <2>4. QED
    BY <1>1, <2>2, <2>3
<1>5. QED
  BY <1>3, <1>4

\* What the count on a disk is off by, given what it is off by in memory.
LEMMA DriftOnDisks ==
    ASSUME TypeInv, RunDrift, pc \in {"sort", "run", "update", "pcap"},
           NEW i \in Attached, msector[i].diskId = 0, media[ns[i]].MAGIC,
           NEW k \in {0, 1},
           k = 0 => ~Pending /\ ~(pc = "update" /\ widx = 0)
    PROVE  \E e \in -(faults + k) .. faults + k :
             Congruent(media[ns[i]].totalFiles, Cardinality(LiveCells) + e)
<1>1. PICK e \in -faults .. faults, l \in 0 .. faults, v \in 0 .. faults + 1 :
        Counts(i, e, l, v)
  BY DEF RunDrift
<1>2. PICK L \in Nat, M \in Nat, S \in Nat :
        L = Cardinality(LiveCells) /\ M = Cardinality(MemoryLive) /\ S = Cardinality(Stale)
  BY LiveFinite
<1>3. PICK m \in Int, f \in Int, d \in Int :
        m = msector[i].totalFiles /\ f = faults /\ d = media[ns[i]].totalFiles
  BY EntryTypes, FSAssumption DEF metaSector, TypeInv, TypeOK
<1>4. /\ l \in Nat /\ v \in Nat /\ e \in Int
      /\ l - f <= e /\ e <= f - l
      /\ v <= l + k /\ S <= l + k
  BY <1>1, <1>2, <1>3 DEF Counts, TypeInv, TypeOK
<1>5. Congruent(m, M + e) /\ Congruent(d, m + Late(v))
  BY <1>1, <1>2, <1>3 DEF Counts
<1>6. CASE tool = "rm"
  <2>1. L = M + S
    BY <1>2, <1>6, StaleCount DEF RunDrift
  <2>2. Congruent(d, m + v)
    BY <1>5, <1>6 DEF Late
  <2>3. Congruent(d, (M + e) + v)
    <3>1. M + e \in Int /\ v \in Int
      BY <1>4
    <3>2. QED
      BY <1>3, <1>5, <2>2, <3>1, CongruentTrans
  <2>4. (M + e) + v = L + (e + v - S)
    BY <1>4, <2>1
  <2>5. e + v - S \in -(f + k) .. f + k
    BY <1>4
  <2>6. QED
    BY <1>2, <1>3, <2>3, <2>4, <2>5
<1>7. CASE tool # "rm"
  <2>1. M = L + S
    BY <1>2, <1>7, StaleCount DEF RunDrift
  <2>2. Congruent(d, m + (-v)) /\ -v \in Int
    BY <1>4, <1>5, <1>7 DEF Late
  <2>3. Congruent(d, (M + e) + (-v))
    <3>1. M + e \in Int
      BY <1>4
    <3>2. QED
      BY <1>3, <1>5, <2>2, <3>1, CongruentTrans
  <2>4. (M + e) + (-v) = L + (e - v + S)
    BY <1>4, <2>1
  <2>5. e - v + S \in -(f + k) .. f + k
    BY <1>4
  <2>6. QED
    BY <1>2, <1>3, <2>3, <2>4, <2>5
<1>8. QED
  BY <1>6, <1>7

\* The tables on the disks are as far off as those of the process that goes on with them.
LEMMA DriftFollows ==
    ASSUME ~MissingAllowed, BaseInv, IdsOK, RunDrift,
           pc \in {"sort", "run", "update", "pcap"},
           NEW k \in {0, 1},
           k = 0 => ~Pending /\ ~(pc = "update" /\ widx = 0)
    PROVE  DriftAtMost(faults + k)
<1>1. SUFFICES ASSUME NEW d \in Devices, media[d].MAGIC, media[d].diskId = 0
               PROVE  \E e \in -(faults + k) .. faults + k :
                        Congruent(media[d].totalFiles, Cardinality(LiveCells) + e)
  BY DEF DriftAtMost
<1>2. PICK i \in Attached : ns[i] = d
  BY AllDisks
<1>3. msector[i].diskId = 0
  BY <1>1, <1>2, IdsPlaces
<1>4. QED
  BY <1>1, <1>2, <1>3, DriftOnDisks DEF BaseInv

\* The disks are left alone.
LEMMA DriftStays ==
    ASSUME NEW k \in Nat, DriftAtMost(k), media' = media, faults' \in Nat, k <= faults'
    PROVE  DriftAtMost(faults)'
<1>1. LiveCells' = LiveCells
  BY DEF LiveCells, OnMedia
<1>2. SUFFICES ASSUME NEW d \in Devices, media[d].MAGIC, media[d].diskId = 0
               PROVE  \E e \in -faults' .. faults' :
                        Congruent(media[d].totalFiles, Cardinality(LiveCells) + e)
  BY <1>1 DEF DriftAtMost, Congruent
<1>3. PICK e \in -k .. k : Congruent(media[d].totalFiles, Cardinality(LiveCells) + e)
  BY <1>2 DEF DriftAtMost
<1>4. e \in -faults' .. faults'
  <2>1. PICK g \in Nat : g = faults'
    OBVIOUS
  <2>2. k <= g
    BY <2>1
  <2>3. e \in -g .. g
    BY <2>2
  <2>4. QED
    BY <2>1, <2>3
<1>5. QED
  BY <1>3, <1>4

-----------------------------------------------------------------------------
(* One entry is changed in memory.                                         *)

LEMMA MemoryEdited ==
    ASSUME BaseInv, Attached' = Attached, ns' = ns, NEW s \in Attached \X FileIdx, NEW f,
           \A i \in Attached, j \in FileIdx :
             Mem(i, j)' = IF <<i, j>> = s THEN f ELSE Mem(i, j)
    PROVE  LET c == <<ns[s[1]], s[2]>>
           IN  /\ c \in MemoryLive <=> Entry(s).name # NoName
               /\ f.name = NoName => MemoryLive' = MemoryLive \ {c}
               /\ f.name # NoName => MemoryLive' = MemoryLive \cup {c}
<1> DEFINE c == <<ns[s[1]], s[2]>>
<1>1. /\ s[1] \in Attached /\ s[2] \in FileIdx /\ s = <<s[1], s[2]>>
      /\ c \in Cells /\ c[1] = ns[s[1]] /\ c[2] = s[2]
  BY DEF BaseInv, NsOK, Cells
<1>2. Entry(s) = Mem(s[1], s[2])
  BY DEF Entry, Mem
<1>3. \A i \in Attached : ns[i] = ns[s[1]] => i = s[1]
  BY <1>1 DEF BaseInv, NsOK
<1>4. c \in MemoryLive <=> Entry(s).name # NoName
  BY <1>1, <1>2, <1>3 DEF MemoryLive
<1>5. ASSUME NEW b \in Cells, b # c
      PROVE  b \in MemoryLive' <=> b \in MemoryLive
  <2>1. b[2] \in FileIdx /\ b = <<b[1], b[2]>>
    BY DEF Cells
  <2>2. \A i \in Attached : ns[i] = b[1] => Mem(i, b[2])' = Mem(i, b[2])
    BY <1>5, <2>1
  <2>3. b \in MemoryLive' <=> \E i \in Attached : ns[i] = b[1] /\ Mem(i, b[2])'.name # NoName
    BY DEF MemoryLive, Cells
  <2>4. QED
    BY <2>2, <2>3 DEF MemoryLive
<1>6. c \in MemoryLive' <=> f.name # NoName
  <2>1. Mem(s[1], s[2])' = f
    BY <1>1
  <2>2. c \in MemoryLive' <=> \E i \in Attached : ns[i] = c[1] /\ Mem(i, c[2])'.name # NoName
    BY <1>1 DEF MemoryLive, Cells
  <2>3. QED
    BY <1>1, <1>3, <2>1, <2>2
<1>7. MemoryLive \subseteq Cells /\ MemoryLive' \subseteq Cells
  BY DEF MemoryLive, Cells
<1> HIDE DEF c
<1>8. /\ f.name = NoName => MemoryLive' = MemoryLive \ {c}
      /\ f.name # NoName => MemoryLive' = MemoryLive \cup {c}
  BY <1>1, <1>5, <1>6, <1>7
<1>9. QED
  BY <1>4, <1>8 DEF c

\* The count of disk 0 goes with the files of memory, and until the sectors are
\* written those on the disks are one change behind.
LEMMA EditDrift ==
    ASSUME BaseInv, BaseInv', IdsOK, RunDrift, Editing,
           NEW s \in Attached \X FileIdx, NEW f, NEW k \in {-1, 0, 1},
           \A i \in Attached, j \in FileIdx :
             Mem(i, j)' = IF <<i, j>> = s THEN f ELSE Mem(i, j),
           Congruent(msector'[0].totalFiles, msector[0].totalFiles + k),
           \/ k = -1 /\ f.name = NoName /\ Entry(s).name # NoName /\ tool = "rm"
           \/ k = 1 /\ f.name # NoName /\ Entry(s).name = NoName /\ tool # "rm"
           \/ k = 0 /\ f.name = Entry(s).name
    PROVE  RunDrift'
<1> DEFINE c == <<ns[s[1]], s[2]>>
<1>1. /\ pc \in {"run", "pcap"} /\ pc' = "update" /\ widx' = 0
      /\ media' = media /\ ns' = ns /\ tool' = tool /\ faults' = faults
      /\ Attached' = Attached
  BY DEF Editing, Attached
<1>2. /\ TypeInv /\ TypeInv' /\ Attached \subseteq Idx
      /\ s[1] \in Attached /\ s[1] >= 0 /\ c[1] = ns[s[1]]
  <2>1. TypeInv /\ TypeInv'
    BY DEF BaseInv
  <2>2. s[1] \in Attached /\ c[1] = ns[s[1]]
    OBVIOUS
  <2>3. QED
    BY <2>1, <2>2, AttachedNat, EntryTypes
<1>3. /\ c \in MemoryLive <=> Entry(s).name # NoName
      /\ f.name = NoName => MemoryLive' = MemoryLive \ {c}
      /\ f.name # NoName => MemoryLive' = MemoryLive \cup {c}
  BY <1>1, MemoryEdited
<1>4. LiveCells' = LiveCells
  BY <1>1 DEF LiveCells, OnMedia
<1> HIDE DEF c
<1>5. /\ k = -1 => c \in MemoryLive /\ MemoryLive' = MemoryLive \ {c}
      /\ k = 1 => c \notin MemoryLive /\ MemoryLive' = MemoryLive \cup {c}
      /\ k = 0 => MemoryLive' = MemoryLive
  BY <1>3
<1>6. IF tool = "rm" THEN MemoryLive' \subseteq LiveCells ELSE LiveCells \subseteq MemoryLive'
  BY <1>1, <1>5 DEF RunDrift
<1>7. Stale' \subseteq Stale \cup {c}
  BY <1>4, <1>5 DEF Stale
<1>8. c \in Stale' => Pending'
  BY <1>1, <1>2 DEF Pending
<1>9. /\ IsFiniteSet(MemoryLive) /\ IsFiniteSet(Stale)
      /\ Cardinality(MemoryLive) \in Nat /\ Cardinality(Stale) \in Nat
  BY <1>2, LiveFinite
<1>10. Cardinality(MemoryLive') = Cardinality(MemoryLive) + k
  <2>1. CASE k = -1
    BY <1>5, <1>9, <2>1, FS_RemoveElement
  <2>2. CASE k = 1
    BY <1>5, <1>9, <2>2, FS_AddElement
  <2>3. CASE k = 0
    BY <1>5, <1>9, <2>3
  <2>4. QED
    BY <2>1, <2>2, <2>3
<1>11. /\ Cardinality(Stale') \in Nat
       /\ Cardinality(Stale') <= Cardinality(Stale) + 1
       /\ ~Pending' => Cardinality(Stale') <= Cardinality(Stale)
  <2>1. PICK S : S = Stale'
    OBVIOUS
  <2>2. IsFiniteSet(Stale \cup {c})
        /\ Cardinality(Stale \cup {c}) \in Nat
        /\ Cardinality(Stale \cup {c}) <= Cardinality(Stale) + 1
    <3>1. /\ IsFiniteSet(Stale \cup {c})
          /\ Cardinality(Stale \cup {c}) = IF c \in Stale THEN Cardinality(Stale)
                                                          ELSE Cardinality(Stale) + 1
      BY <1>9, FS_AddElement, Zenon
    <3>2. QED
      BY <1>9, <3>1
  <2>3. IsFiniteSet(S) /\ Cardinality(S) <= Cardinality(Stale \cup {c})
    BY <1>7, <2>1, <2>2, FS_Subset
  <2>4. Cardinality(S) \in Nat
    BY <2>3, FS_CardinalityType
  <2>5. ~Pending' => Cardinality(S) <= Cardinality(Stale)
    <3>1. ~Pending' => S \subseteq Stale
      BY <1>7, <1>8, <2>1
    <3>2. QED
      BY <1>9, <3>1, FS_Subset
  <2>6. Cardinality(S) <= Cardinality(Stale) + 1
    BY <1>9, <2>2, <2>3, <2>4
  <2>7. QED
    BY <2>1, <2>4, <2>5, <2>6
<1>12. ASSUME NEW i \in Attached, msector'[i].diskId = 0
       PROVE  \E e \in -faults .. faults, l \in 0 .. faults, v \in 0 .. faults + 1 :
                Counts(i, e, l, v)'
  <2>1. i = 0 /\ msector[i].diskId = 0
    BY <1>1, <1>2, <1>12, IdsPlaces DEF Editing, SameHeads
  <2>2. PICK e \in -faults .. faults, l \in 0 .. faults, v \in 0 .. faults + 1 :
          Counts(i, e, l, v)
    BY <1>1, <2>1 DEF RunDrift
  <2>3. faults \in Nat
    BY <1>2 DEF TypeInv, TypeOK
  <2>4. PICK m \in Int, n \in Int, d \in Int, L \in Int :
          /\ m = msector[i].totalFiles /\ n = msector'[i].totalFiles
          /\ d = media[ns[i]].totalFiles /\ L = Cardinality(MemoryLive)
    <3>1. msector[i].totalFiles \in Int
      BY <1>2, EntryTypes, FSAssumption DEF metaSector
    <3>2. msector'[i].totalFiles \in Int
      BY <1>2, FSAssumption DEF TypeInv, TypeOK, metaSector
    <3>3. media[ns[i]].totalFiles \in Int
      BY <1>2, EntryTypes, FSAssumption DEF metaSector, BaseInv, NsOK
    <3>4. QED
      BY <1>9, <3>1, <3>2, <3>3
  <2>5. Congruent(n, m + k)
    BY <2>1, <2>4
  <2>6. Congruent(m, L + e)
    BY <2>2, <2>4 DEF Counts
  <2>7. Congruent(n, (L + k) + e)
    <3>1. L + e \in Int /\ (L + e) + k = (L + k) + e
      BY <2>4
    <3>2. QED
      BY <2>4, <2>5, <2>6, <3>1, CongruentTrans
  <2>8. PICK w \in Int : w = IF k = 0 THEN v ELSE v + 1
    OBVIOUS
  <2>9. v \in Int /\ l \in Int /\ v <= l
    BY <1>1, <2>2 DEF Counts
  <2>10. w \in 0 .. faults + 1 /\ w <= l + 1
    BY <2>3, <2>8, <2>9
  <2>11. media[ns[i]].MAGIC => Congruent(d, n + Late(w)')
    <3>1. SUFFICES ASSUME media[ns[i]].MAGIC
                   PROVE  Congruent(d, n + Late(w)')
      OBVIOUS
    <3>2. Congruent(d, m + Late(v))
      BY <2>2, <2>4, <3>1 DEF Counts
    <3>3. PICK a \in Int, b \in Int : a = Late(v) /\ b = Late(w)'
      BY <1>1, <2>9 DEF Late
    <3>4. b = a - k
      BY <1>1, <2>8, <2>9, <3>3 DEF Late
    <3>5. Congruent(m, n - k)
      <4>1. k \in Int
        OBVIOUS
      <4>2. QED
        BY <2>4, <2>5, <4>1, CongruentBack
    <3>6. Congruent(d, (n - k) + a)
      <4>1. n - k \in Int
        BY <2>4
      <4>2. Congruent(d, m + a)
        BY <3>2, <3>3
      <4>3. QED
        BY <2>4, <3>3, <3>5, <4>1, <4>2, CongruentTrans
    <3>7. (n - k) + a = n + b
      BY <2>4, <3>3, <3>4
    <3>8. QED
      BY <3>3, <3>6, <3>7
  <2>12. Cardinality(Stale') <= IF Pending' THEN l + 1 ELSE l
    <3>1. Cardinality(Stale) <= l
      BY <1>1, <2>2 DEF Counts, Pending
    <3>2. PICK S \in Nat, T \in Nat : S = Cardinality(Stale') /\ T = Cardinality(Stale)
      BY <1>9, <1>11
    <3>3. T <= l /\ S <= T + 1 /\ (~Pending' => S <= T)
      BY <1>11, <3>1, <3>2
    <3>4. S <= l + 1 /\ (~Pending' => S <= l)
      BY <2>9, <3>2, <3>3
    <3>5. QED
      BY <3>2, <3>4
  <2>13. l - faults <= e /\ e <= faults - l
    BY <2>2 DEF Counts
  <2>14. Counts(i, e, l, w)'
    BY <1>1, <1>10, <2>4, <2>7, <2>10, <2>11, <2>12, <2>13 DEF Counts
  <2>15. QED
    BY <2>2, <2>10, <2>14
<1>13. QED
  BY <1>1, <1>4, <1>6, <1>12 DEF RunDrift

LEMMA SetEntryTotal ==
    ASSUME NEW m \in [Idx -> metaSector], NEW s \in Slots, NEW f \in metaFile
    PROVE  SetEntry(m, s, f)[0].totalFiles = m[0].totalFiles
<1>1. s[1] \in Idx /\ m[s[1]] \in metaSector /\ 0 \in Idx
  BY FSAssumption DEF Slots, Idx
<1> DEFINE t == [m[s[1]] EXCEPT !.content = [m[s[1]].content EXCEPT ![s[2]] = f]]
<1>2. SetEntry(m, s, f) = [m EXCEPT ![s[1]] = t]
  BY DEF SetEntry
<1>3. t.totalFiles = m[s[1]].totalFiles
  BY <1>1 DEF metaSector
<1> HIDE DEF t
<1>4. QED
  BY <1>1, <1>2, <1>3

LEMMA CountTotal ==
    ASSUME NEW m \in [Idx -> metaSector], NEW k \in Int
    PROVE  Count(m, k)[0].totalFiles = (m[0].totalFiles + k) % Byte
<1>1. 0 \in Idx /\ m[0] \in metaSector
  BY FSAssumption DEF Idx
<1> DEFINE x == (m[0].totalFiles + k) % Byte
           t == [m[0] EXCEPT !.totalFiles = x]
<1>2. Count(m, k) = [m EXCEPT ![0] = t]
  BY DEF Count
<1> HIDE DEF x
<1>3. t.totalFiles = x
  BY <1>1 DEF metaSector
<1> HIDE DEF t
<1>4. QED
  BY <1>1, <1>2, <1>3 DEF x

\* An entry is set and counted, as in addFile and delFile.
LEMMA Counted ==
    ASSUME TypeInv, NEW s \in Attached \X FileIdx, NEW f \in metaFile, NEW k \in Int,
           msector' = Count(SetEntry(msector, s, f), k)
    PROVE  /\ \A i \in Attached, j \in FileIdx :
                Mem(i, j)' = IF <<i, j>> = s THEN f ELSE Mem(i, j)
           /\ Congruent(msector'[0].totalFiles, msector[0].totalFiles + k)
<1>1. Attached \subseteq Idx /\ s \in Slots /\ msector \in [Idx -> metaSector] /\ 0 \in Idx
  BY EntryTypes, FSAssumption DEF Slots, TypeInv, TypeOK, Idx
<1>2. PICK m \in [Idx -> metaSector] : m = SetEntry(msector, s, f)
  BY <1>1, SetEntryFacts
<1>3. \A i \in Idx, j \in FileIdx :
        msector'[i].content[j] = IF <<i, j>> = s THEN f ELSE msector[i].content[j]
  <2>1. \A i \in Idx, j \in FileIdx :
          m[i].content[j] = IF <<i, j>> = s THEN f ELSE msector[i].content[j]
    BY <1>1, <1>2, SetEntryFacts
  <2>2. \A i \in Idx : msector'[i].content = m[i].content
    BY <1>2, CountFacts
  <2>3. QED
    BY <2>1, <2>2
<1>4. msector'[0].totalFiles = (msector[0].totalFiles + k) % Byte
  BY <1>1, <1>2, SetEntryTotal, CountTotal
<1>5. msector[0].totalFiles + k \in Int
  BY <1>1, FSAssumption DEF metaSector
<1>6. QED
  BY <1>1, <1>3, <1>4, <1>5, CongruentCount DEF Mem

LEMMA RmFileDrift ==
    ASSUME BaseInv, BaseInv', IdsOK, RunDrift, Editing, NEW n \in Names, rmFile(n)
    PROVE  RunDrift'
<1>1. TypeInv /\ tool = "rm" /\ pc' # pc
  BY DEF BaseInv, rmFile, Editing
<1>2. PICK s \in findFile(n) : delFile(s) /\ n # NoName
  BY <1>1 DEF rmFile
<1>3. s \in Attached \X FileIdx /\ Entry(s).name = n
  BY <1>1, PickedEntry DEF findFile
<1>4. FreeEntry \in metaFile /\ FreeEntry.name = NoName
  BY MadeSectors DEF FreeEntry
<1>5. msector' = Count(SetEntry(msector, s, FreeEntry), -1) /\ -1 \in Int /\ -1 \in {-1, 0, 1}
  BY <1>2 DEF delFile
<1>6. /\ \A i \in Attached, j \in FileIdx :
           Mem(i, j)' = IF <<i, j>> = s THEN FreeEntry ELSE Mem(i, j)
      /\ Congruent(msector'[0].totalFiles, msector[0].totalFiles + (-1))
  BY <1>1, <1>3, <1>4, <1>5, Counted
<1>7. QED
  BY <1>1, <1>2, <1>3, <1>4, <1>5, <1>6, EditDrift

LEMMA CpAddsDrift ==
    ASSUME BaseInv, BaseInv', IdsOK, RunDrift, Editing,
           NEW n \in Names, NEW length \in Sizes, cpAdds(n, length)
    PROVE  RunDrift'
<1>1. TypeInv /\ tool # "rm" /\ length \in Nat
  BY FSAssumption DEF BaseInv, cpAdds
<1>2. PICK right \in rightFreeBlock, s \in FreeSlots : addFile(n, length, right, s)
  BY DEF cpAdds
<1>3. s \in Attached \X FileIdx /\ Entry(s).name = NoName
  BY <1>1, PickedEntry DEF FreeSlots
<1>4. right \in Nat
  BY <1>1, RightFree DEF TypeInv
<1> DEFINE f == [name |-> n, startBlock |-> right, endBlock |-> right + length]
<1>5. f \in metaFile /\ f.name = n
  BY <1>1, <1>4 DEF metaFile
<1>6. n # NoName /\ msector' = Count(SetEntry(msector, s, f), 1)
  BY <1>2 DEF addFile, CanAdd
<1> HIDE DEF f
<1>7. 1 \in Int /\ 1 \in {-1, 0, 1}
  OBVIOUS
<1>8. /\ \A i \in Attached, j \in FileIdx :
           Mem(i, j)' = IF <<i, j>> = s THEN f ELSE Mem(i, j)
      /\ Congruent(msector'[0].totalFiles, msector[0].totalFiles + 1)
  BY <1>1, <1>3, <1>5, <1>6, <1>7, Counted
<1>9. QED
  BY <1>1, <1>3, <1>5, <1>6, <1>7, <1>8, EditDrift

\* A file that gets another end stays the file it is, and the count stays.
LEMMA ResizeDrift ==
    ASSUME BaseInv, BaseInv', IdsOK, RunDrift, Editing,
           NEW s \in Attached \X FileIdx, NEW length \in Nat, msector' = Resize(s, length)
    PROVE  RunDrift'
<1>1. TypeInv
  BY DEF BaseInv
<1>2. PICK f \in metaFile :
        /\ f.name = Entry(s).name
        /\ \A i \in Attached, j \in FileIdx :
             Mem(i, j)' = IF <<i, j>> = s THEN f ELSE Mem(i, j)
  BY <1>1, ResizeEntries
<1>3. s \in Slots /\ msector \in [Idx -> metaSector] /\ 0 \in Idx
  BY <1>1, EntryTypes, FSAssumption DEF Slots, TypeInv, TypeOK, Idx
<1>4. msector'[0].totalFiles = msector[0].totalFiles
  <2>1. [Entry(s) EXCEPT !.endBlock = Entry(s).startBlock + length] \in metaFile
    BY <1>1, <1>3, ResizeType
  <2>2. QED
    BY <1>3, <2>1, SetEntryTotal DEF Resize
<1>5. PICK t \in Int : t = msector[0].totalFiles
  BY <1>3, FSAssumption DEF metaSector
<1>6. t + 0 = t /\ 0 \in {-1, 0, 1}
  BY <1>5
<1>7. Congruent(msector'[0].totalFiles, msector[0].totalFiles + 0)
  BY <1>4, <1>5, <1>6, CongruentSelf
<1>8. QED
  BY <1>2, <1>6, <1>7, EditDrift

LEMMA EditingDrift ==
    ASSUME BaseInv, BaseInv', IdsOK, IInv, RunDrift, Editing, [Next]_vars
    PROVE  RunDrift'
<1>1. TypeInv /\ pc \in {"run", "pcap"} /\ pc' = "update"
  BY DEF BaseInv, Editing
<1>2. ASSUME NEW n \in Names, rmFile(n) PROVE RunDrift'
  BY <1>2, RmFileDrift
<1>3. ASSUME NEW n \in Names, NEW length \in Sizes, cpAdds(n, length) PROVE RunDrift'
  BY <1>3, CpAddsDrift
<1>4. ASSUME NEW n \in Names, NEW length \in Sizes, cpOverwrites(n, length) PROVE RunDrift'
  <2>1. PICK s \in findFile(n) : msector' = Resize(s, length)
    BY <1>1, <1>4 DEF cpOverwrites, Goto
  <2>2. s \in Attached \X FileIdx /\ length \in Nat
    BY <1>1, PickedEntry, FSAssumption DEF findFile
  <2>3. QED
    BY <2>1, <2>2, ResizeDrift
<1>5. CASE freeSpcap
  <2>1. PICK flushed \in 0 .. numdisks : msector' = Resize(cur, flushed * SUPERSECTORNUM)
    BY <1>5 DEF freeSpcap
  <2>2. flushed * SUPERSECTORNUM \in Nat
    BY <1>1, SuperSectorAssumption, FSAssumption, SMT DEF TypeInv, TypeOK
  <2>3. cur \in Attached \X FileIdx
    BY <1>5 DEF freeSpcap, IInv, CurOK
  <2>4. QED
    BY <2>1, <2>2, <2>3, ResizeDrift
<1>6. \/ \E n \in Names : rmFile(n)
      \/ \E n \in Names, length \in Sizes : cpOverwrites(n, length) \/ cpAdds(n, length)
      \/ freeSpcap
  <2>1. ~Ends /\ Next
    BY <1>1 DEF Ends, vars
  <2>2. ASSUME NEW n \in Names, NEW length \in Sizes PROVE ~cpCannotAdd(n, length)
    BY <2>1 DEF cpCannotAdd
  <2>3. /\ ~probeFails /\ ~pcapNotOpened /\ ~mainReturns /\ ~Crash
    BY <2>1 DEF probeFails, pcapNotOpened, mainReturns, Crash
  <2>4. /\ ~app_init /\ ~formatRaid /\ ~updateRaid /\ ~loopReturns /\ ~sortDisks
        /\ ~runReturns
    BY <1>1 DEF app_init, formatRaid, updateRaid, loopReturns, sortDisks, runReturns, Goto
  <2>5. ~readMeta /\ ~readMetaFails
    BY <1>1 DEF readMeta, readMetaFails, createRaid
  <2>6. /\ \A d \in Devices : ~register_ns(d)
        /\ \A t \in Tools : ~Launch(t)
    BY <1>1 DEF register_ns, Launch
  <2>7. QED
    BY <2>1, <2>2, <2>3, <2>4, <2>5, <2>6 DEF Next, Step
<1>7. QED
  BY <1>2, <1>3, <1>4, <1>5, <1>6

-----------------------------------------------------------------------------
(* A sector is written, or lost.                                           *)

\* The write that arrives brings the files and the count of its disk.
LEMMA WrittenDrift ==
    ASSUME BaseInv, IdsOK, RunDrift, updateRaid, faults' = faults,
           media' = [media EXCEPT ![ns[widx]] = msector[widx]]
    PROVE  RunDrift'
<1>1. TypeInv
  BY DEF BaseInv
<1>2. /\ pc = "update" /\ pc' = "update" /\ widx \in Attached /\ widx' = widx + 1
      /\ Attached' = Attached /\ ns' = ns /\ msector' = msector /\ tool' = tool
  BY <1>1, LoopShape DEF updateRaid
<1>3. /\ ns[widx] \in Devices
      /\ \A i \in Attached : ns[i] = ns[widx] => i = widx
      /\ widx \in Nat /\ Attached \subseteq Nat /\ Attached \subseteq Idx
  BY <1>1, <1>2, AttachedNat, EntryTypes DEF BaseInv, NsOK
<1>4. \A d \in Devices : media'[d] = IF d = ns[widx] THEN msector[widx] ELSE media[d]
  BY <1>1, <1>3 DEF TypeInv, TypeOK
<1>5. MemoryLive' = MemoryLive
  BY <1>2 DEF MemoryLive, Mem, Cells
<1>6. ASSUME NEW c \in Cells
      PROVE  c \in LiveCells' <=> c \in IF c[1] = ns[widx] THEN MemoryLive ELSE LiveCells
  <2>1. c[1] \in Devices
    BY DEF Cells
  <2>2. c \in LiveCells' <=> OnMedia(c)'.name # NoName
    BY DEF LiveCells, Cells
  <2>3. CASE c[1] = ns[widx]
    <3>1. OnMedia(c)' = Mem(widx, c[2])
      BY <1>4, <2>1, <2>3 DEF OnMedia, Mem
    <3>2. c \in MemoryLive <=> Mem(widx, c[2]).name # NoName
      BY <1>2, <1>3, <2>3 DEF MemoryLive
    <3>3. QED
      BY <2>2, <2>3, <3>1, <3>2
  <2>4. CASE c[1] # ns[widx]
    <3>1. OnMedia(c)' = OnMedia(c)
      BY <1>4, <2>1, <2>4 DEF OnMedia
    <3>2. QED
      BY <2>2, <2>4, <3>1 DEF LiveCells
  <2>5. QED
    BY <2>3, <2>4
<1>7. LiveCells \subseteq Cells /\ MemoryLive \subseteq Cells /\ LiveCells' \subseteq Cells
  BY DEF LiveCells, MemoryLive, Cells
<1>8. IF tool = "rm" THEN MemoryLive \subseteq LiveCells' ELSE LiveCells' \subseteq MemoryLive
  BY <1>2, <1>6, <1>7 DEF RunDrift
<1>9. Stale' = {c \in Stale : c[1] # ns[widx]}
  BY <1>5, <1>6, <1>7 DEF Stale
<1>10. /\ IsFiniteSet(Stale) /\ Cardinality(Stale) \in Nat
       /\ Cardinality(MemoryLive) \in Nat
  BY <1>1, LiveFinite
<1>11. /\ Cardinality(Stale') \in Nat
       /\ Cardinality(Stale') <= Cardinality(Stale)
       /\ Pending /\ ~Pending' => Cardinality(Stale') < Cardinality(Stale)
  <2>1. PICK S : S = Stale'
    OBVIOUS
  <2>2. S \subseteq Stale
    BY <1>9, <2>1
  <2>3. Cardinality(S) \in Nat /\ Cardinality(S) <= Cardinality(Stale)
    BY <1>10, <2>2, FS_Subset, FS_CardinalityType
  <2>4. ASSUME Pending, ~Pending' PROVE Cardinality(S) < Cardinality(Stale)
    <3>1. PICK c \in Stale, i \in Attached : ns[i] = c[1] /\ i >= widx
      BY <2>4 DEF Pending
    <3>2. c \notin S
      <4>1. SUFFICES ASSUME c \in S PROVE FALSE
        OBVIOUS
      <4>2. i # widx
        BY <1>9, <2>1, <3>1, <4>1
      <4>3. i >= widx + 1
        BY <1>3, <3>1, <4>2
      <4>4. QED
        BY <1>2, <2>1, <2>4, <3>1, <4>1, <4>3 DEF Pending
    <3>3. QED
      BY <1>10, <2>2, <2>3, <3>1, <3>2, FS_Subset
  <2>5. QED
    BY <2>1, <2>3, <2>4
<1>12. ASSUME NEW i \in Attached, msector[i].diskId = 0
       PROVE  \E e \in -faults .. faults, l \in 0 .. faults, v \in 0 .. faults + 1 :
                Counts(i, e, l, v)'
  <2>1. i = 0
    BY <1>2, <1>12, IdsPlaces
  <2>2. PICK e \in -faults .. faults, l \in 0 .. faults, v \in 0 .. faults + 1 :
          Counts(i, e, l, v)
    BY <1>2, <1>12 DEF RunDrift
  <2>3. faults \in Nat /\ l \in Int /\ v \in Int
    BY <1>1 DEF TypeInv, TypeOK
  <2>4. PICK w \in Int : w = IF widx = 0 THEN 0 ELSE v
    BY <2>3
  <2>5. w <= l /\ w \in 0 .. faults + 1
    BY <1>2, <2>2, <2>3, <2>4 DEF Counts
  <2>6. ~(pc' = "update" /\ widx' = 0)
    BY <1>2, <1>3
  <2>7. media'[ns[i]].MAGIC => Congruent(media'[ns[i]].totalFiles, msector[i].totalFiles + Late(w)')
    <3>1. CASE widx = 0
      <4>1. media'[ns[i]] = msector[i]
        BY <1>3, <1>4, <2>1, <3>1
      <4>2. PICK t \in Int : t = msector[i].totalFiles
        BY <1>1, <1>3, EntryTypes, FSAssumption DEF metaSector
      <4>3. w = 0
        BY <2>4, <3>1
      <4>4. t + w = t /\ t + (-w) = t
        BY <4>2, <4>3
      <4>5. t + Late(w)' = t
        BY <4>4 DEF Late
      <4>6. QED
        BY <4>1, <4>2, <4>5, CongruentSelf
    <3>2. CASE widx # 0
      <4>1. media'[ns[i]] = media[ns[i]]
        BY <1>3, <1>4, <2>1, <3>2 DEF BaseInv, NsOK
      <4>2. Late(w)' = Late(v)
        BY <1>2, <2>4, <3>2 DEF Late
      <4>3. QED
        BY <2>2, <4>1, <4>2 DEF Counts
    <3>3. QED
      BY <3>1, <3>2
  <2>8. Cardinality(Stale') <= IF Pending' THEN l + 1 ELSE l
    <3>1. PICK S \in Nat, T \in Nat : S = Cardinality(Stale') /\ T = Cardinality(Stale)
      BY <1>10, <1>11
    <3>2. T <= IF Pending THEN l + 1 ELSE l
      BY <2>2, <3>1 DEF Counts
    <3>3. S <= T /\ (Pending /\ ~Pending' => S < T)
      BY <1>11, <3>1
    <3>4. Pending' => Pending
      BY <1>2, <1>3, <1>9 DEF Pending
    <3>5. S <= l + 1 /\ (~Pending' => S <= l)
      BY <2>3, <3>1, <3>2, <3>3, <3>4
    <3>6. QED
      BY <3>1, <3>5
  <2>9. Counts(i, e, l, w)'
    BY <1>2, <1>5, <2>2, <2>5, <2>6, <2>7, <2>8 DEF Counts
  <2>10. QED
    BY <2>2, <2>5, <2>9
<1>13. QED
  BY <1>2, <1>5, <1>8, <1>12 DEF RunDrift

\* A write that was lost is one more of them.
LEMMA LostDrift ==
    ASSUME BaseInv, IdsOK, RunDrift, updateRaid, media' = media, faults' = faults + 1
    PROVE  RunDrift'
<1>1. TypeInv
  BY DEF BaseInv
<1>2. /\ pc = "update" /\ pc' = "update" /\ widx \in Attached /\ widx' = widx + 1
      /\ Attached' = Attached /\ ns' = ns /\ msector' = msector /\ tool' = tool
  BY <1>1, LoopShape DEF updateRaid
<1>3. widx \in Nat /\ Attached \subseteq Nat
  BY <1>1, <1>2, AttachedNat
<1>4. MemoryLive' = MemoryLive /\ LiveCells' = LiveCells
  BY <1>2 DEF MemoryLive, Mem, Cells, LiveCells, OnMedia
<1>5. Stale' = Stale
  BY <1>4 DEF Stale
<1>6. ASSUME NEW i \in Attached, msector[i].diskId = 0
      PROVE  \E e \in -faults' .. faults', l \in 0 .. faults', v \in 0 .. faults' + 1 :
               Counts(i, e, l, v)'
  <2>1. PICK e \in -faults .. faults, l \in 0 .. faults, v \in 0 .. faults + 1 :
          Counts(i, e, l, v)
    BY <1>2, <1>6 DEF RunDrift
  <2>2. PICK f \in Nat : f = faults
    BY <1>1 DEF TypeInv, TypeOK
  <2>3. l \in Int /\ v \in Int /\ e \in Int
    BY <2>2
  <2>4. /\ l - f <= e /\ e <= f - l /\ v <= l + 1
    BY <2>1, <2>2, <2>3 DEF Counts
  <2>5. Cardinality(Stale) <= l + 1
    <3>1. PICK T \in Nat : T = Cardinality(Stale)
      BY <1>1, LiveFinite
    <3>2. QED
      BY <2>1, <2>3, <3>1 DEF Counts
  <2>6. Late(v)' = Late(v)
    BY <1>2 DEF Late
  <2>7. /\ Congruent(msector[i].totalFiles, Cardinality(MemoryLive) + e)
        /\ media[ns[i]].MAGIC =>
             Congruent(media[ns[i]].totalFiles, msector[i].totalFiles + Late(v))
    BY <2>1 DEF Counts
  <2>8. /\ (l + 1) - (f + 1) <= e /\ e <= (f + 1) - (l + 1)
        /\ v <= l + 1 /\ v <= (l + 1) + 1
    BY <2>2, <2>3, <2>4
  <2>9. Cardinality(Stale) <= (l + 1) + 1
    <3>1. PICK T \in Nat : T = Cardinality(Stale)
      BY <1>1, LiveFinite
    <3>2. QED
      BY <2>3, <2>5, <3>1
  <2>10. faults' = f + 1
    BY <2>2
  <2>11. Counts(i, e, l + 1, v)'
    BY <1>2, <1>4, <1>5, <2>5, <2>6, <2>7, <2>8, <2>9, <2>10 DEF Counts
  <2>12. e \in -(f + 1) .. f + 1 /\ l + 1 \in 0 .. f + 1 /\ v \in 0 .. (f + 1) + 1
    BY <2>2, <2>3
  <2>13. QED
    BY <2>10, <2>11, <2>12
<1>7. QED
  BY <1>2, <1>4, <1>6 DEF RunDrift

-----------------------------------------------------------------------------
(* createRaid.                                                             *)

\* The tables are as they are on the disks.
LEMMA FreshDrift ==
    ASSUME TypeInv', NsType', pc' = "sort", MemoryLive' = LiveCells',
           \A i \in Attached' : msector'[i].diskId = 0 =>
             /\ \E e \in -faults' .. faults' :
                  Congruent(msector'[i].totalFiles, Cardinality(LiveCells') + e)
             /\ media'[ns'[i]].MAGIC =>
                  media'[ns'[i]].totalFiles = msector'[i].totalFiles
    PROVE  RunDrift'
<1>1. Stale' = {}
  BY DEF Stale
<1>2. Cardinality(Stale') = 0
  BY <1>1, FS_EmptySet
<1>3. ASSUME NEW i \in Attached', msector'[i].diskId = 0
      PROVE  \E e \in -faults' .. faults', l \in 0 .. faults', v \in 0 .. faults' + 1 :
               Counts(i, e, l, v)'
  <2>1. PICK e \in -faults' .. faults' :
          Congruent(msector'[i].totalFiles, Cardinality(LiveCells') + e)
    BY <1>3
  <2>2. PICK f \in Nat : f = faults'
    BY DEF TypeInv, TypeOK
  <2>3. PICK t \in Int : t = msector'[i].totalFiles
    <3>1. PICK k \in 0 .. MAXDISKS : k = numdisks'
      BY DEF TypeInv, TypeOK
    <3>2. i \in 0 .. k - 1
      BY <3>1 DEF Attached
    <3>3. i \in Idx
      BY <3>2, FSAssumption DEF Idx
    <3>4. QED
      BY <3>3, FSAssumption DEF TypeInv, TypeOK, metaSector
  <2>4. PICK v \in Int : v = 0
    OBVIOUS
  <2>5. t + v = t /\ t + (-v) = t
    BY <2>4
  <2>6. t + Late(v)' = t
    BY <2>5 DEF Late
  <2>7. media'[ns'[i]].MAGIC =>
          Congruent(media'[ns'[i]].totalFiles, msector'[i].totalFiles + Late(v)')
    BY <1>3, <2>3, <2>6, CongruentSelf
  <2>8. /\ v - f <= e /\ e <= f - v /\ v \in 0 .. f /\ v \in 0 .. f + 1
        /\ v <= v + 1 /\ v <= v /\ 0 <= v /\ 0 <= v + 1
    <3>1. e \in -f .. f
      BY <2>1, <2>2
    <3>2. QED
      BY <2>4, <3>1
  <2>9. Counts(i, e, v, v)'
    BY <1>2, <2>1, <2>2, <2>7, <2>8 DEF Counts
  <2>10. QED
    BY <2>1, <2>2, <2>8, <2>9
<1>4. QED
  BY <1>3 DEF RunDrift

\* createRaid reads a raid that a tool has used.
LEMMA ReadDrift ==
    ASSUME ~MissingAllowed, BaseInv, BaseInv', IInv', DriftAtMost(faults),
           readMeta, pc' = "sort"
    PROVE  RunDrift'
<1>1. TypeInv /\ TypeInv' /\ NsType'
  BY DEF BaseInv, TypeInv
<1>2. /\ msector' = Faithful /\ pc = "create"
      /\ media' = media /\ ns' = ns /\ Attached' = Attached /\ faults' = faults
  BY ReadShape DEF readMeta, Attached
<1>3. \A i \in Attached : /\ ns[i] \in Devices /\ i \in Idx
                          /\ msector'[i] = media[ns[i]] /\ msector'[i].MAGIC
  BY <1>1, <1>2, EntryTypes DEF Faithful, BaseInv, NsOK, IInv, MagicOK
<1>4. \A d \in Devices : \E i \in Attached : ns[i] = d
  BY <1>2, AllDisks
<1>5. LiveCells' = LiveCells
  BY <1>2 DEF LiveCells, OnMedia
<1>6. MemoryLive' = LiveCells
  <2>1. ASSUME NEW c \in Cells
        PROVE  c \in MemoryLive' <=> c \in LiveCells
    <3>1. c \in MemoryLive' <=> \E i \in Attached : ns[i] = c[1] /\ Mem(i, c[2])'.name # NoName
      BY <1>2 DEF MemoryLive, Cells
    <3>2. \A i \in Attached : ns[i] = c[1] => Mem(i, c[2])' = OnMedia(c)
      BY <1>3 DEF Mem, OnMedia
    <3>3. c[1] \in Devices
      BY DEF Cells
    <3>4. QED
      BY <1>4, <3>1, <3>2, <3>3 DEF LiveCells
  <2>2. MemoryLive' \subseteq Cells /\ LiveCells \subseteq Cells
    BY DEF MemoryLive, LiveCells, Cells
  <2>3. QED
    BY <2>1, <2>2
<1>7. \A i \in Attached' : msector'[i].diskId = 0 =>
        /\ \E e \in -faults' .. faults' :
             Congruent(msector'[i].totalFiles, Cardinality(LiveCells') + e)
        /\ media'[ns'[i]].MAGIC => media'[ns'[i]].totalFiles = msector'[i].totalFiles
  BY <1>2, <1>3, <1>5 DEF DriftAtMost
<1>8. QED
  BY <1>1, <1>5, <1>6, <1>7, FreshDrift

\* createRaid finds nothing to read, and formats.
LEMMA BlankDrift ==
    ASSUME ~MissingAllowed, BaseInv', IdsOK', readMeta, pc' = "format"
    PROVE  FormatDrift'
<1>1. ret' = "sort" /\ widx' = 0 /\ pc = "create" /\ Attached' = Attached /\ media' = media
      /\ ns' = ns
  BY ReadShape DEF readMeta, Attached
<1>2. TypeInv'
  BY DEF BaseInv
<1>3. \A i \in Attached' : i >= 0 /\ ~(i < 0)
  BY <1>2 DEF TypeInv, TypeOK, Attached
<1>4. \A i \in Attached' : ~media'[ns'[i]].MAGIC
  BY <1>1, <1>3 DEF IdsOK, NumbersOK, FormatNumbers
<1>5. \A d \in Devices : \E i \in Attached' : ns'[i] = d
  BY <1>1 DEF BaseInv, PresentOK, AllAttached
<1>6. QED
  BY <1>1, <1>3, <1>4, <1>5 DEF FormatDrift

LEMMA FormatRaidDrift ==
    ASSUME BaseInv, FormatDrift, formatRaid
    PROVE  FormatDrift'
<1>1. TypeInv
  BY DEF BaseInv
<1>2. /\ widx \in Attached /\ widx' = widx + 1 /\ Attached' = Attached
      /\ pc = "format" /\ pc' = "format" /\ ret' = ret
      /\ \A i \in Attached : i # widx => msector'[i] = msector[i]
      /\ msector'[widx] = initMeta(widx, numdisks)
      /\ \/ media' = [media EXCEPT ![ns[widx]] = msector'[widx]]
         \/ media' = media
  BY <1>1, LoopShape DEF formatRaid
<1>3. msector'[widx].totalFiles = 0
  BY <1>2 DEF initMeta
<1>4. \A i \in Attached : i < widx + 1 => i < widx \/ i = widx
  BY <1>1, <1>2, AttachedNat
<1>5. \A i \in Attached : i < widx' => msector'[i].totalFiles = 0
  BY <1>2, <1>3, <1>4 DEF FormatDrift
<1>6. \A d \in Devices : media'[d].MAGIC => media'[d].totalFiles = 0
  <2>1. media \in [Devices -> metaSector]
    BY <1>1 DEF TypeInv, TypeOK
  <2>2. QED
    BY <1>2, <1>3, <2>1 DEF FormatDrift
<1>7. QED
  BY <1>2, <1>5, <1>6 DEF FormatDrift

\* The raid is formatted: no files, and a count of 0 on every disk.
LEMMA FormattedDrift ==
    ASSUME ~MissingAllowed, BaseInv, BaseInv', IInv, FormatDrift, loopReturns, pc = "format"
    PROVE  RunDrift'
<1>1. TypeInv /\ TypeInv' /\ NsType'
  BY DEF BaseInv, TypeInv
<1>2. /\ pc' = "sort" /\ widx = numdisks /\ Attached' = Attached
      /\ media' = media /\ ns' = ns /\ msector' = msector /\ faults' = faults
  BY DEF loopReturns, FormatDrift, Attached, media_vars, raid_vars
<1>3. \A i \in Attached : i < widx /\ ns[i] \in Devices
  BY <1>1, <1>2, AttachedNat DEF BaseInv, NsOK
<1>4. \A i \in Attached, j \in FileIdx :
        Mem(i, j).name = NoName /\ Med(ns[i], j).name = NoName
  BY <1>3 DEF IInv, FormatOK, FormatDrift, IsFree
<1>5. \A d \in Devices : \E i \in Attached : ns[i] = d
  BY AllDisks
<1>6. LiveCells' = {} /\ MemoryLive' = {}
  <2>1. LiveCells = {}
    BY <1>4, <1>5 DEF LiveCells, Cells, OnMedia, Med
  <2>2. MemoryLive = {}
    BY <1>4 DEF MemoryLive, Cells
  <2>3. LiveCells' = LiveCells /\ MemoryLive' = MemoryLive
    BY <1>2 DEF LiveCells, OnMedia, MemoryLive, Mem, Cells
  <2>4. QED
    BY <2>1, <2>2, <2>3
<1>7. Cardinality({}) = 0
  BY FS_EmptySet
<1>8. \A i \in Attached : /\ msector[i].totalFiles = 0
                          /\ media[ns[i]].MAGIC => media[ns[i]].totalFiles = 0
  BY <1>3 DEF FormatDrift
<1>9. Congruent(0, 0) /\ 0 \in Int /\ 0 + 0 = 0
  BY CongruentSelf
<1>10. 0 \in -faults .. faults
  BY <1>1 DEF TypeInv, TypeOK
<1>11. \A i \in Attached' : msector'[i].diskId = 0 =>
         /\ \E e \in -faults' .. faults' :
              Congruent(msector'[i].totalFiles, Cardinality(LiveCells') + e)
         /\ media'[ns'[i]].MAGIC => media'[ns'[i]].totalFiles = msector'[i].totalFiles
  BY <1>2, <1>6, <1>7, <1>8, <1>9, <1>10
<1>12. QED
  BY <1>1, <1>2, <1>6, <1>11, FreshDrift

\* qsort moves the tables and leaves the files and the counts.
LEMMA SortDrift ==
    ASSUME BaseInv, RunDrift, sortDisks, pc' # "off"
    PROVE  RunDrift'
<1>1. TypeInv
  BY DEF BaseInv
<1>2. PICK p \in Sorting :
        \A i \in Attached : msector'[i] = msector[p[i]] /\ ns'[i] = ns[p[i]]
  BY <1>1, SortedDisks
<1>3. /\ \A i \in Attached : p[i] \in Attached
      /\ \A j \in Attached : \E i \in Attached : p[i] = j
  BY <1>1, SortingFacts
<1>4. /\ pc = "sort" /\ pc' = "run" /\ Attached' = Attached
      /\ media' = media /\ tool' = tool /\ faults' = faults
  BY <1>1, SortedDisks
<1>5. LiveCells' = LiveCells
  BY <1>4 DEF LiveCells, OnMedia
<1>6. MemoryLive' = MemoryLive
  <2>1. ASSUME NEW c \in Cells
        PROVE  c \in MemoryLive' <=> c \in MemoryLive
    <3>1. c \in MemoryLive' <=> \E i \in Attached : ns'[i] = c[1] /\ Mem(i, c[2])'.name # NoName
      BY <1>4 DEF MemoryLive, Cells
    <3>2. \A i \in Attached : ns'[i] = ns[p[i]] /\ Mem(i, c[2])' = Mem(p[i], c[2])
      BY <1>2 DEF Mem
    <3>3. QED
      BY <1>3, <3>1, <3>2 DEF MemoryLive
  <2>2. MemoryLive' \subseteq Cells /\ MemoryLive \subseteq Cells
    BY DEF MemoryLive, Cells
  <2>3. QED
    BY <2>1, <2>2
<1>7. Stale' = Stale /\ ~Pending /\ ~Pending'
  BY <1>4, <1>5, <1>6 DEF Stale, Pending
<1>8. ASSUME NEW i \in Attached, msector'[i].diskId = 0
      PROVE  \E e \in -faults .. faults, l \in 0 .. faults, v \in 0 .. faults + 1 :
               Counts(i, e, l, v)'
  <2>1. PICK k \in Attached : k = p[i]
    BY <1>3
  <2>2. msector'[i] = msector[k] /\ ns'[i] = ns[k]
    BY <1>2, <2>1
  <2>3. PICK e \in -faults .. faults, l \in 0 .. faults, v \in 0 .. faults + 1 :
          Counts(k, e, l, v)
    BY <1>4, <1>8, <2>2 DEF RunDrift
  <2>4. Counts(i, e, l, v)'
    BY <1>4, <1>6, <1>7, <2>2, <2>3 DEF Counts, Late
  <2>5. QED
    BY <2>3, <2>4
<1>9. QED
  BY <1>4, <1>5, <1>6, <1>8 DEF RunDrift

\* updateRaid has come to its end, or there was nothing to save.
LEMMA SteadyDrift ==
    ASSUME TypeInv, RunDrift, pc \in {"run", "update"}, pc' \in {"run", "pcap"},
           UNCHANGED <<media, ns, msector, numdisks, tool, faults>>,
           pc = "update" => widx = numdisks
    PROVE  RunDrift'
<1>1. Attached' = Attached
  BY DEF Attached
<1>2. LiveCells' = LiveCells /\ MemoryLive' = MemoryLive
  BY <1>1 DEF LiveCells, OnMedia, MemoryLive, Mem, Cells
<1>3. Stale' = Stale
  BY <1>2 DEF Stale
<1>4. \A i \in Attached : pc = "update" => ~(i >= widx) /\ widx # 0
  BY AttachedNat
<1>5. ~Pending /\ ~Pending'
  BY <1>4 DEF Pending
<1>6. ASSUME NEW i \in Attached, msector[i].diskId = 0
      PROVE  \E e \in -faults .. faults, l \in 0 .. faults, v \in 0 .. faults + 1 :
               Counts(i, e, l, v)'
  <2>1. PICK e \in -faults .. faults, l \in 0 .. faults, v \in 0 .. faults + 1 :
          Counts(i, e, l, v)
    BY <1>6 DEF RunDrift
  <2>2. Counts(i, e, l, v)'
    BY <1>2, <1>3, <1>4, <1>5, <2>1 DEF Counts, Late
  <2>3. QED
    BY <2>1, <2>2
<1>7. QED
  BY <1>1, <1>2, <1>6 DEF RunDrift

\* What a process leaves behind when it has saved what it did, or is killed.
LEMMA LeftDrift ==
    ASSUME ~MissingAllowed, BaseInv, IInv, IdsOK, DriftInv, NEW k \in {0, 1},
           k = 0 /\ pc = "update" => widx = numdisks
    PROVE  DriftAtMost(faults + k)
<1>1. TypeInv /\ faults \in Nat
  BY DEF BaseInv, TypeInv, TypeOK
<1>2. CASE pc \in {"off", "probe", "create", "exit"}
  <2>1. SUFFICES ASSUME NEW d \in Devices, media[d].MAGIC, media[d].diskId = 0
                 PROVE  \E e \in -(faults + k) .. faults + k :
                          Congruent(media[d].totalFiles, Cardinality(LiveCells) + e)
    BY DEF DriftAtMost
  <2>2. PICK e \in -faults .. faults :
          Congruent(media[d].totalFiles, Cardinality(LiveCells) + e)
    BY <1>2, <2>1 DEF DriftInv, DriftAtMost
  <2>3. e \in -(faults + k) .. faults + k
    BY <1>1
  <2>4. QED
    BY <2>2, <2>3
<1>3. CASE pc \in {"sort", "run", "update", "pcap"}
  <2>1. CASE numdisks = 0
    <3>1. Devices = {}
      BY <1>3, <2>1, AllDisks DEF Attached
    <3>2. QED
      BY <3>1 DEF DriftAtMost
  <2>2. CASE numdisks # 0
    <3>1. k = 0 => ~Pending /\ ~(pc = "update" /\ widx = 0)
      BY <1>1, <2>2, AttachedNat DEF Pending
    <3>2. QED
      BY <1>3, <3>1, DriftFollows DEF DriftInv
  <2>3. QED
    BY <2>1, <2>2
<1>4. CASE pc = "format"
  <2>1. \A d \in Devices : \E i \in Attached : ns[i] = d
    BY <1>4, AllDisks
  <2>2. LiveCells = {}
    <3>1. \A d \in Devices, j \in FileIdx : Med(d, j).name = NoName
      BY <1>4, <2>1 DEF DriftInv, FormatDrift, IInv, FormatOK, IsFree
    <3>2. QED
      BY <3>1 DEF LiveCells, Cells, OnMedia, Med
  <2>3. Cardinality(LiveCells) = 0
    BY <2>2, FS_EmptySet
  <2>4. Congruent(0, 0) /\ 0 + 0 = 0
    BY CongruentSelf
  <2>5. 0 \in -(faults + k) .. faults + k
    BY <1>1
  <2>6. QED
    BY <1>4, <2>3, <2>4, <2>5 DEF DriftInv, FormatDrift, DriftAtMost
<1>5. QED
  BY <1>1, <1>2, <1>3, <1>4 DEF TypeInv, TypeOK, Places

LEMMA DriftNext ==
    ASSUME ~MissingAllowed, ~ReadFaults, "format" \notin Tools,
           BaseInv, IdsOK, IInv, DriftInv, [Next]_vars
    PROVE  DriftInv'
<1>1. /\ BaseInv' /\ IdsOK' /\ IInv'
      /\ TypeInv /\ faults \in Nat /\ faults' \in Nat
  <2>1. BaseInv' /\ IdsOK' /\ IInv'
    BY BaseNext, IdsNext, IInvNext
  <2>2. QED
    BY <2>1 DEF BaseInv, TypeInv, TypeOK
<1>2. ASSUME pc' \in {"off", "probe", "create", "exit"}, DriftAtMost(faults)'
      PROVE  DriftInv'
  BY <1>2 DEF DriftInv, RunDrift, FormatDrift
<1>3. ASSUME pc' \in {"sort", "run", "update", "pcap"}, RunDrift'
      PROVE  DriftInv'
  BY <1>3 DEF DriftInv, FormatDrift
<1>4. ASSUME media' = media, faults' = faults, pc = "update" => widx = numdisks
      PROVE  DriftAtMost(faults)'
  <2>1. DriftAtMost(faults + 0) /\ faults + 0 = faults
    BY <1>1, <1>4, LeftDrift
  <2>2. QED
    BY <1>1, <1>4, <2>1, DriftStays
<1>5. ASSUME media' = media, faults' = faults + 1
      PROVE  DriftAtMost(faults)'
  <2>1. DriftAtMost(faults + 1)
    BY LeftDrift
  <2>2. faults + 1 <= faults' /\ faults + 1 \in Nat
    BY <1>1, <1>5
  <2>3. QED
    BY <1>1, <1>5, <2>1, <2>2, DriftStays
<1>6. CASE UNCHANGED vars
  <2>1. LiveCells' = LiveCells /\ MemoryLive' = MemoryLive /\ Attached' = Attached
    BY <1>6 DEF vars, LiveCells, OnMedia, MemoryLive, Mem, Cells, Attached
  <2>2. Stale' = Stale
    BY <2>1 DEF Stale
  <2>3. Pending' <=> Pending
    BY <1>6, <2>1, <2>2 DEF vars, Pending
  <2>4. RunDrift'
    BY <1>6, <2>1, <2>2, <2>3 DEF vars, DriftInv, RunDrift, Counts, Late
  <2>5. FormatDrift'
    BY <1>6, <2>1 DEF vars, DriftInv, FormatDrift
  <2>6. pc \in {"off", "probe", "create", "exit"} => DriftAtMost(faults)'
    BY <1>4, <1>6 DEF vars
  <2>7. QED
    BY <1>6, <2>4, <2>5, <2>6 DEF vars, DriftInv
<1>7. CASE Ending
  <2>1. pc' = "off" /\ media' = media
    BY <1>7 DEF Ending, Ends
  <2>2. CASE faults' = faults /\ pc \in {"probe", "run", "pcap", "exit"}
    BY <1>2, <1>4, <2>1, <2>2
  <2>3. CASE faults' = faults + 1
    BY <1>2, <1>5, <2>1, <2>3
  <2>4. QED
    BY <1>7, <2>2, <2>3 DEF Ending
<1>8. CASE Entering
  <2>1. media' = media /\ faults' = faults /\ pc \in {"off", "probe"}
    BY <1>8 DEF Entering
  <2>2. pc' \in {"probe", "create"}
    BY <1>8 DEF Entering, IdsOK
  <2>3. QED
    BY <1>2, <1>4, <2>1, <2>2
<1>9. ASSUME NEW d \in Devices, register_ns(d)
      PROVE  DriftInv'
  <2>1. media' = media /\ faults' = faults /\ pc = "probe" /\ pc' = "probe"
    BY <1>9 DEF register_ns, media_vars, process_vars
  <2>2. QED
    BY <1>2, <1>4, <2>1
<1>10. CASE formatRaid
  <2>1. pc = "format" /\ pc' = "format"
    BY <1>10 DEF formatRaid
  <2>2. FormatDrift'
    BY <1>10, FormatRaidDrift DEF DriftInv
  <2>3. QED
    BY <2>1, <2>2 DEF DriftInv, RunDrift
<1>11. CASE updateRaid
  <2>1. pc' = "update" /\ WriteSector(widx, msector[widx])
    BY <1>11 DEF updateRaid
  <2>2. RunDrift
    BY DEF DriftInv
  <2>3. RunDrift'
    BY <1>11, <2>1, <2>2, WrittenDrift, LostDrift DEF WriteSector
  <2>4. QED
    BY <1>3, <2>1, <2>3
<1>12. CASE loopReturns
  <2>1. /\ media' = media /\ faults' = faults /\ pc' = ret /\ widx = numdisks
        /\ UNCHANGED <<ns, msector, numdisks, tool>>
    BY <1>12 DEF loopReturns, media_vars, raid_vars
  <2>2. CASE pc = "format"
    <3>1. RunDrift' /\ pc' = "sort"
      BY <1>1, <1>12, <2>1, <2>2, FormattedDrift DEF DriftInv, FormatDrift
    <3>2. QED
      BY <1>3, <3>1
  <2>3. CASE pc = "update" /\ ret = "exit"
    BY <1>2, <1>4, <2>1, <2>3
  <2>4. CASE pc = "update" /\ ret # "exit"
    <3>1. pc' \in {"run", "pcap"}
      BY <2>1, <2>4 DEF BaseInv, RetOK
    <3>2. RunDrift'
      BY <1>1, <2>1, <2>4, <3>1, SteadyDrift DEF DriftInv
    <3>3. QED
      BY <1>3, <3>1, <3>2
  <2>5. QED
    BY <1>12, <2>2, <2>3, <2>4 DEF loopReturns
<1>13. CASE readMeta
  <2>1. media' = media /\ faults' = faults /\ pc = "create" /\ pc' \in {"off", "format", "sort"}
    BY <1>13 DEF readMeta, createRaid, Ends, Call, Goto, media_vars
  <2>2. CASE pc' = "off"
    BY <1>2, <1>4, <2>1, <2>2
  <2>3. CASE pc' = "format"
    <3>1. FormatDrift'
      BY <1>1, <1>13, <2>3, BlankDrift
    <3>2. QED
      BY <2>3, <3>1 DEF DriftInv, RunDrift
  <2>4. CASE pc' = "sort"
    <3>1. DriftAtMost(faults)
      BY <2>1 DEF DriftInv
    <3>2. RunDrift'
      BY <1>1, <1>13, <2>4, <3>1, ReadDrift
    <3>3. QED
      BY <1>3, <2>4, <3>2
  <2>5. QED
    BY <2>1, <2>2, <2>3, <2>4
<1>14. CASE readMetaFails
  BY <1>14 DEF readMetaFails
<1>15. CASE sortDisks
  <2>1. media' = media /\ faults' = faults /\ pc = "sort" /\ pc' \in {"off", "run"}
    BY <1>15 DEF sortDisks, Ends, Goto, media_vars
  <2>2. CASE pc' = "off"
    BY <1>2, <1>4, <2>1, <2>2
  <2>3. CASE pc' = "run"
    <3>1. RunDrift'
      BY <1>15, <2>3, SortDrift DEF DriftInv
    <3>2. QED
      BY <1>3, <2>3, <3>1
  <2>4. QED
    BY <2>1, <2>2, <2>3
<1>16. CASE Editing
  <2>1. RunDrift'
    BY <1>1, <1>16, EditingDrift DEF DriftInv
  <2>2. pc' = "update"
    BY <1>16 DEF Editing
  <2>3. QED
    BY <1>3, <2>1, <2>2
<1>17. CASE Passing
  <2>1. /\ media' = media /\ faults' = faults /\ pc = "run" /\ pc' \in {"run", "exit"}
        /\ UNCHANGED <<ns, msector, numdisks, tool>>
    BY <1>17 DEF Passing
  <2>2. CASE pc' = "exit"
    BY <1>2, <1>4, <2>1, <2>2
  <2>3. CASE pc' = "run"
    <3>1. RunDrift'
      BY <1>1, <2>1, <2>3, SteadyDrift DEF DriftInv
    <3>2. QED
      BY <1>3, <2>3, <3>1
  <2>4. QED
    BY <2>1, <2>2, <2>3
<1>18. QED
  BY <1>1, <1>6, <1>7, <1>8, <1>9, <1>10, <1>11, <1>12, <1>13, <1>14, <1>15, <1>16, <1>17,
     Shapes

LEMMA SameResidue ==
    ASSUME NEW m \in Nat \ {0}, NEW e \in Int, NEW q \in Int
    PROVE  (e + m * q) % m = e % m
<1> DEFINE a == e + m * q
<1>1. m * q \in Int /\ a \in Int
  OBVIOUS
<1>2. /\ e \div m \in Int /\ e % m \in 0 .. m - 1
      /\ e = m * (e \div m) + (e % m)
  BY SMT
<1> HIDE DEF a
<1>3. /\ a \div m \in Int /\ a % m \in 0 .. m - 1
      /\ a = m * (a \div m) + (a % m)
  BY <1>1, SMT
<1>4. PICK x \in Int, y \in Int, r \in 0 .. m - 1, s \in 0 .. m - 1 :
        x = e \div m /\ y = a \div m /\ r = e % m /\ s = a % m
  BY <1>2, <1>3
<1>5. e = m * x + r /\ a = m * y + s
  BY <1>2, <1>3, <1>4
<1>6. PICK d \in Int : d = y - x - q
  OBVIOUS
<1>7. m * d = r - s
  <2>1. a = (m * x + r) + m * q
    BY <1>5 DEF a
  <2>2. m * (y - x - q) = m * y - m * x - m * q
    BY SMT
  <2>3. /\ m * y \in Int /\ m * x \in Int /\ m * q \in Int
    OBVIOUS
  <2>4. QED
    BY <1>5, <1>6, <2>1, <2>2, <2>3
<1>8. d = 0
  <2>1. CASE d > 0
    <3>1. m * d >= m
      BY <2>1, SMT
    <3>2. QED
      BY <1>7, <3>1
  <2>2. CASE d < 0
    <3>1. m * d <= -m
      BY <2>2, SMT
    <3>2. QED
      BY <1>7, <3>1
  <2>3. QED
    BY <2>1, <2>2
<1>9. r = s
  BY <1>7, <1>8
<1>10. QED
  BY <1>4, <1>9 DEF a

\* When no tool runs, the number of files that ls shows is off by at most one for
\* every write that was lost and every process that was killed, whatever tools came
\* after: the counts on the disks and in memory never drift apart any further
\* (fs.c:182 and 202, saved in fs.c:101-106).
THEOREM CountDriftCorrect ==
    ASSUME ~MissingAllowed, ~ReadFaults, "format" \notin Tools
    PROVE  Spec => []CountDriftBounded
<1> DEFINE Inv == BaseInv /\ IdsOK /\ IInv /\ DriftInv
<1>1. Init => Inv
  <2>1. SUFFICES ASSUME Init
                 PROVE  IdsOK /\ DriftInv
    BY BaseInit, IInvInit
  <2>2. IdsOK
    BY <2>1, IdsInit
  <2>3. DriftInv
    BY <2>1 DEF Init, DriftInv, RunDrift, FormatDrift, DriftAtMost, ZeroSector
  <2>4. QED
    BY <2>2, <2>3
<1>2. Inv /\ [Next]_vars => Inv'
  BY BaseNext, IdsNext, IInvNext, DriftNext
<1>3. Inv => CountDriftBounded
  <2>1. SUFFICES ASSUME Inv, pc = "off", NEW d \in Devices,
                        media[d].MAGIC, media[d].diskId = 0
                 PROVE  (media[d].totalFiles - Cardinality(LiveCells)) % Byte
                           \in {k % Byte : k \in -faults .. faults}
    BY DEF CountDriftBounded
  <2>2. TypeInv /\ faults \in Nat /\ Byte \in Nat \ {0}
    BY <2>1, FSAssumption DEF BaseInv, TypeInv, TypeOK
  <2>3. PICK e \in -faults .. faults :
          Congruent(media[d].totalFiles, Cardinality(LiveCells) + e)
    BY <2>1 DEF DriftInv, DriftAtMost
  <2>4. PICK t \in Int, n \in Int : t = media[d].totalFiles /\ n = Cardinality(LiveCells)
    BY <2>2, LiveFinite, EntryTypes, FSAssumption DEF metaSector
  <2>5. e \in Int /\ n + e \in Int
    BY <2>2, <2>4
  <2>6. PICK q \in Int : t = (n + e) + Byte * q
    BY <2>3, <2>4, <2>5, CongruentMeans
  <2>7. Byte * q \in Int
    BY <2>2
  <2>8. t - n = e + Byte * q
    BY <2>4, <2>5, <2>6, <2>7
  <2>9. (t - n) % Byte = e % Byte
    BY <2>2, <2>5, <2>8, SameResidue
  <2>10. QED
    BY <2>3, <2>4, <2>9
<1> HIDE DEF Inv
<1>4. QED
  BY <1>1, <1>2, <1>3, PTL DEF Spec
=============================================================================

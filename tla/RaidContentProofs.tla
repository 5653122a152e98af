------------------------- MODULE RaidContentProofs --------------------------
(* Proofs about RaidContent: a block is only written once the tables give it *)
(* to its file, and every file that a copy has finished reads back as it was *)
(* written, by whatever processes, killed wherever, came between.            *)
EXTENDS RaidContentInv, RaidTablesProofs

-----------------------------------------------------------------------------
(* Where the blocks are.                                                   *)

LEMMA BaseOf ==
    ASSUME IInv
    PROVE  BaseInv
  BY IInvType DEF IInv, BaseInv, RetOK, PresentOK, PlaceOK, AttachedOK

LEMMA SectorFacts ==
    \A p \in ContentSectors : p[1] \in Devices /\ p = <<p[1], p[2]>>
  BY DEF ContentSectors

\* A disk that is there has a place among all of them.
LEMMA SomeDisks ==
    ASSUME NEW d \in Devices
    PROVE  N \in Nat \ {0}
<1>1. IsFiniteSet(Devices) /\ Devices # {}
  BY FSAssumption
<1>2. N \in Nat /\ N # 0
  BY <1>1, FS_CardinalityType, FS_EmptySet DEF N
<1>3. QED
  BY <1>2

\* A sector is the home of one block at most.
LEMMA OneHome ==
    ASSUME NEW x \in Nat, NEW y \in Nat, NEW p \in Home(x), p \in Home(y)
    PROVE  x = y
<1>1. p[1] \in Devices
  BY SectorFacts DEF Home
<1>2. N \in Nat \ {0}
  BY <1>1, SomeDisks
<1>3. Location(N, x) = Location(N, y)
  BY DEF Home, Location
<1>4. QED
  BY <1>2, <1>3, LocationInjective

\* Once the disks are sorted, a process looks for a block where its home is.
LEMMA PlaceHome ==
    ASSUME ~MissingAllowed, IInv, NumbersOK, Whole, pc \in {"run", "update", "exit"},
           NEW i \in Attached, NEW lba \in Nat
    PROVE  \A p : p \in Home(lba) <=> p \in ContentSectors /\ p = Place(lba)
<1>1. BaseInv /\ TypeInv
  BY BaseOf DEF BaseInv
<1>2. numdisks = N /\ \A d \in Devices : \E k \in Attached : ns[k] = d
  BY <1>1, AllDisks
<1>3. \A k \in Attached : ns[k] \in Devices
  BY <1>1, EntryTypes
<1>4. N \in Nat \ {0}
  BY <1>3, SomeDisks
<1>5. super_getdisk(N, lba) \in Attached
  <2>1. super_getid(lba) \in Nat
    BY SuperSectorAssumption DEF super_getid
  <2>2. super_getid(lba) % N \in 0 .. N - 1
    BY <1>4, <2>1
  <2>3. QED
    BY <1>2, <2>2 DEF super_getdisk, Attached
<1>6. \A k \in Attached : media[ns[k]].diskId = k
  BY <1>3 DEF Whole, AllMagic, NumbersOK, MemoryNumbers
<1>7. SUFFICES ASSUME NEW p \in ContentSectors
               PROVE  p \in Home(lba) <=> p = Place(lba)
  BY DEF Home
<1>8. p[1] \in Devices /\ p = <<p[1], p[2]>>
  BY SectorFacts
<1>9. PICK k \in Attached : ns[k] = p[1]
  BY <1>2, <1>8
<1>10. p \in Home(lba) <=> k = super_getdisk(N, lba) /\ p[2] = super_getdisklba(N, lba)
  BY <1>6, <1>9 DEF Home
<1>11. k = super_getdisk(N, lba) <=> ns[k] = ns[super_getdisk(N, lba)]
  BY <1>1, <1>5 DEF BaseInv, NsOK
<1>12. QED
  BY <1>2, <1>8, <1>9, <1>10, <1>11 DEF Place

\* The homes stay where they are as long as the numbers do.
LEMMA SameHome ==
    ASSUME \A d \in Devices : media'[d].diskId = media[d].diskId
    PROVE  \A lba : Home(lba)' = Home(lba)
<1>1. ContentSectors' = ContentSectors /\ N' = N
  BY DEF ContentSectors, N
<1>2. \A p \in ContentSectors : media'[p[1]].diskId = media[p[1]].diskId
  BY SectorFacts
<1>3. QED
  BY <1>1, <1>2 DEF Home

\* Whether files can be read is a matter of the disks.
LEMMA SameDisks ==
    ASSUME media' = media
    PROVE  /\ \A lba : Home(lba)' = Home(lba)
           /\ (AllMagic' <=> AllMagic) /\ (Whole' <=> Whole)
           /\ \A d, j : Med(d, j)' = Med(d, j)
  BY SameHome DEF AllMagic, Whole, Numbered, Med

LEMMA ContentSteps ==
    ASSUME [ContentNext]_<<vars, content_vars>>
    PROVE  [Next]_vars
<1>1. ASSUME NEW n \in Names, NEW length \in Sizes, beginCopy(n, length) PROVE Next
  BY <1>1 DEF beginCopy, Next, Step
<1>2. ASSUME NEW b, put(b) PROVE UNCHANGED vars
  BY <1>2 DEF put
<1>3. CASE metaStep
  BY <1>3 DEF metaStep, Next
<1>4. CASE UNCHANGED <<vars, content_vars>>
  BY <1>4
<1>5. QED
  BY <1>1, <1>2, <1>3, <1>4 DEF ContentNext

\* cp starts from what is on the disks.
LEMMA SyncEntries ==
    ASSUME IInv, pc = "run", tool # "rm"
    PROVE  \A i \in Attached, j \in FileIdx :
             /\ Mem(i, j) = Med(ns[i], j)
             /\ ns[i] \in Devices
             /\ Mem(i, j) \in metaFile
  BY IInvType, EntryTypes DEF IInv, SyncOK

\* What a step leaves of a file that can be read, and of a free entry.
LEMMA GoodStays ==
    ASSUME NEW e, Good(e), \A lba : Home(lba)' = Home(lba), content' = content,
           \/ versions'[e.name] = versions[e.name]
           \/ Unwritten \in versions'[e.name]
    PROVE  Good(e)'
  BY DEF Good, Promised, Length

-----------------------------------------------------------------------------
(* A block reaches its sector.                                             *)

\* Where a block of the copy goes: into the sector where the process looks for that
\* block of the file.
LEMMA PutPlace ==
    ASSUME ContentInv, copy # NoCopy, NEW b \in copy.left, put(b)
    PROVE  \E s \in Attached \X FileIdx, f \in metaFile :
             /\ f = Entry(s) /\ CopyOf(s) /\ CopyApart(s)
             /\ ns[s[1]] \in Devices
             /\ b \in 0 .. Length(f) - 1
             /\ copy.first + b \in Nat
             /\ Place(copy.first + b) \in ContentSectors
             /\ content' = [content EXCEPT ![Place(copy.first + b)] = <<copy.id, b>>]
<1>1. IInv /\ CopyOK /\ TypeInv
  BY IInvType DEF ContentInv, RaidInv
<1>2. Place(copy.first + b) \in ContentSectors
      /\ content' = [content EXCEPT ![Place(copy.first + b)] = <<copy.id, b>>]
  BY DEF put
<1>3. PICK s \in Attached \X FileIdx : CopyOf(s) /\ CopyApart(s)
  BY <1>1 DEF CopyOK
<1>4. s[1] \in Attached /\ s[2] \in FileIdx /\ Entry(s) = Mem(s[1], s[2])
  BY DEF Entry, Mem
<1>5. PICK f \in metaFile : f = Entry(s)
  BY <1>1, <1>4, EntryTypes
<1>6. b \in 0 .. Length(f) - 1
  BY <1>3, <1>5 DEF CopyOf
<1>7. copy.first + b \in Nat
  <2>1. copy.first \in Nat
    BY <1>1 DEF CopyOK
  <2>2. b \in Nat
    BY <1>5, <1>6 DEF metaFile, Length
  <2>3. QED
    BY <2>1, <2>2
<1>8. ns[s[1]] \in Devices
  BY <1>1, <1>4, EntryTypes
<1>9. QED
  BY <1>2, <1>3, <1>5, <1>6, <1>7, <1>8

LEMMA PutKeeps ==
    ASSUME ~MissingAllowed, ContentInv, copy # NoCopy, NEW b \in copy.left, put(b)
    PROVE  ContentType' /\ EmptyOK' /\ FreshOK' /\ EntriesOK' /\ NoCapture' /\ CopyOK'
<1>1. /\ IInv /\ NumbersOK /\ EmptyOK /\ EntriesOK /\ CopyOK /\ NoCapture /\ ContentType
      /\ BaseInv /\ TypeInv
  BY BaseOf, IInvType DEF ContentInv, RaidInv
<1>2. /\ pc = "exit" /\ UNCHANGED <<vars, copies>>
      /\ copy' = [copy EXCEPT !.left = @ \ {b}]
      /\ versions' = [versions EXCEPT ![copy.name] =
                        IF copy.left = {b} /\ Saved THEN {copy.id} ELSE @ \cup {copy.id}]
  BY DEF put
<1>3. /\ UNCHANGED <<media, ns, msector, numdisks, tool, pc, ret>> /\ Attached' = Attached
      /\ \A lba : Home(lba)' = Home(lba)
      /\ Whole' <=> Whole
      /\ \A d, j : Med(d, j)' = Med(d, j)
  BY <1>2, SameDisks DEF vars, Attached
<1>4. PICK s \in Attached \X FileIdx, f \in metaFile :
             /\ f = Entry(s) /\ CopyOf(s) /\ CopyApart(s)
             /\ ns[s[1]] \in Devices
             /\ b \in 0 .. Length(f) - 1
             /\ copy.first + b \in Nat
             /\ Place(copy.first + b) \in ContentSectors
             /\ content' = [content EXCEPT ![Place(copy.first + b)] = <<copy.id, b>>]
  BY PutPlace
<1>5. PICK c : c = copy
  OBVIOUS
<1>6. PICK q \in ContentSectors : q = Place(c.first + b)
  BY <1>4, <1>5
<1>7. /\ c \in [id : Nat, name : Names, first : Nat, left : SUBSET Nat]
      /\ f.name = c.name /\ f.startBlock = c.first
      /\ c.left \subseteq 0 .. Length(f) - 1
      /\ b \in 0 .. Length(f) - 1
  BY <1>1, <1>4, <1>5 DEF CopyOf, CopyOK
<1>8. /\ DOMAIN content' = ContentSectors
      /\ content'[q] = <<c.id, b>>
      /\ \A p \in ContentSectors : p # q => content'[p] = content[p]
  BY <1>1, <1>4, <1>5, <1>6 DEF ContentType
<1>9. /\ versions' \in [Names -> SUBSET Nat]
      /\ versions'[c.name] = IF c.left = {b} /\ Saved THEN {c.id}
                                                      ELSE versions[c.name] \cup {c.id}
      /\ \A n \in Names : n # c.name => versions'[n] = versions[n]
  BY <1>1, <1>2, <1>5, <1>7 DEF ContentType
<1>10. ASSUME Whole
       PROVE  /\ \A p : p \in Home(c.first + b) <=> p = q
              /\ \A x \in (0 .. Length(f) - 1) \ c.left :
                   \E p \in Home(c.first + x) : content[p] = <<c.id, x>>
  <2>1. PICK lba \in Nat : lba = c.first + b
    BY <1>4, <1>5
  <2>2. \A p : p \in Home(lba) <=> p \in ContentSectors /\ p = Place(lba)
    BY <1>1, <1>2, <1>10, PlaceHome
  <2>3. QED
    BY <1>4, <1>5, <1>6, <1>10, <2>1, <2>2 DEF CopyOf
<1>11. \A lba : \A p \in Home(lba) : p \in ContentSectors
  BY DEF Home
<1>12. ASSUME Whole, NEW x \in Nat, x # c.first + b, NEW p \in Home(x)
       PROVE  content'[p] = content[p]
  <2>1. q \in Home(c.first + b) /\ c.first + b \in Nat
    BY <1>4, <1>5, <1>10, <1>12
  <2>2. p # q
    BY <1>12, <2>1, OneHome
  <2>3. QED
    BY <1>8, <1>11, <2>2
<1>13. ASSUME NEW e \in metaFile, NEW x \in 0 .. Length(e) - 1, e.startBlock = c.first
       PROVE  x \in Nat /\ c.first + x \in Nat /\ (x # b => c.first + x # c.first + b)
  BY <1>7, <1>13 DEF metaFile, Length
<1>14. ASSUME Whole, NEW d \in Devices, NEW j \in FileIdx
       PROVE  Good(Med(d, j))'
  <2>1. PICK e \in metaFile : e = Med(d, j)
    BY <1>1, EntryTypes
  <2>2. e = Med(d, j)' /\ Good(e) /\ Length(e)' = Length(e)
    BY <1>1, <1>3, <1>14, <2>1 DEF EntriesOK, Length
  <2>3. PICK i \in Attached : ns[i] = d
    BY <1>1, <1>2, AllDisks
  <2>4. CASE e.name = NoName
    BY <2>2, <2>4 DEF Good, Promised
  <2>5. CASE e.name # NoName /\ <<i, j>> = s
    <3>1. e.name = c.name /\ e.startBlock = c.first
      BY <1>4, <1>5, <2>1, <2>3, <2>5 DEF CopyApart
    <3>2. ASSUME NEW x \in 0 .. Length(e) - 1, Unwritten \notin versions'[c.name]
          PROVE  \E p \in Home(c.first + x) : content'[p] \in versions'[c.name] \X {x}
      <4>1. x \in Nat /\ c.first + x \in Nat /\ (x # b => c.first + x # c.first + b)
        BY <1>13, <3>1
      <4>2. CASE x = b
        <5>1. q \in Home(c.first + x) /\ content'[q] = <<c.id, x>>
          BY <1>8, <1>10, <1>14, <4>2
        <5>2. c.id \in versions'[c.name]
          BY <1>9
        <5>3. QED
          BY <5>1, <5>2
      <4>3. CASE x # b /\ c.left = {b} /\ Saved
        <5>1. e = f
          BY <1>4, <2>1, <2>3, <2>5, <4>3 DEF Saved, Med, Entry
        <5>2. PICK p \in Home(c.first + x) : content[p] = <<c.id, x>>
          BY <1>10, <1>14, <4>3, <5>1
        <5>3. content'[p] = content[p]
          BY <1>12, <1>14, <4>1, <4>3
        <5>4. QED
          BY <1>9, <4>3, <5>2, <5>3
      <4>4. CASE x # b /\ ~(c.left = {b} /\ Saved)
        <5>1. Unwritten \notin versions[c.name]
          BY <1>9, <3>2, <4>4
        <5>2. PICK p \in Home(c.first + x) : content[p] \in versions[c.name] \X {x}
          BY <2>2, <2>5, <3>1, <5>1 DEF Good, Promised
        <5>3. content'[p] = content[p]
          BY <1>12, <1>14, <4>1, <4>4
        <5>4. QED
          BY <1>9, <4>4, <5>2, <5>3
      <4>5. QED
        BY <4>2, <4>3, <4>4
    <3>3. Good(e)'
      BY <1>3, <2>2, <2>5, <3>1, <3>2 DEF Good, Promised
    <3>4. QED
      BY <2>2, <3>3 DEF Good, Promised, Length
  <2>6. CASE e.name # NoName /\ <<i, j>> # s
    <3>1. Compatible(f, e)
      BY <1>4, <2>1, <2>3, <2>6 DEF CopyApart
    <3>2. Disjoint(f, e) /\ e.name # c.name
      BY <1>7, <2>6, <3>1 DEF Compatible
    <3>3. versions'[e.name] = versions[e.name]
      BY <1>9, <3>2 DEF metaFile
    <3>4. ASSUME NEW x \in 0 .. Length(e) - 1
          PROVE  e.startBlock + x \in Nat /\ e.startBlock + x # c.first + b
      BY <1>7, <3>2 DEF metaFile, Length, Disjoint
    <3>5. ASSUME NEW x \in 0 .. Length(e) - 1, Unwritten \notin versions'[e.name]
          PROVE  \E p \in Home(e.startBlock + x) : content'[p] \in versions'[e.name] \X {x}
      <4>1. PICK p \in Home(e.startBlock + x) : content[p] \in versions[e.name] \X {x}
        BY <2>2, <2>6, <3>3, <3>5 DEF Good, Promised
      <4>2. content'[p] = content[p]
        BY <1>12, <1>14, <3>4
      <4>3. QED
        BY <3>3, <4>1, <4>2
    <3>6. Good(e)'
      BY <1>3, <2>2, <2>6, <3>5 DEF Good, Promised
    <3>7. QED
      BY <2>2, <3>6 DEF Good, Promised, Length
  <2>7. Good(e)' => Good(Med(d, j))'
    BY <2>2 DEF Good, Promised, Length
  <2>8. QED
    BY <2>2, <2>4, <2>5, <2>6, <2>7 DEF Good, Promised, Length
<1>15. EntriesOK'
  BY <1>2, <1>3, <1>14 DEF EntriesOK
<1>16. EmptyOK' /\ FreshOK' /\ NoCapture' /\ ContentType'
  BY <1>1, <1>2, <1>3, <1>8, <1>9
     DEF EmptyOK, FreshOK, NoCapture, ContentType, ContentSectors, Length
<1>17. CopyOK'
  <2>1. PICK k : k = copy'
    OBVIOUS
  <2>2. /\ k \in [id : Nat, name : Names, first : Nat, left : SUBSET Nat]
        /\ k.id = c.id /\ k.name = c.name /\ k.first = c.first /\ k.left = c.left \ {b}
    BY <1>2, <1>5, <1>7, <2>1
  <2>3. f = Entry(s)' /\ Length(f)' = Length(f)
    BY <1>3, <1>4 DEF Entry, Length
  <2>4. ASSUME Whole, NEW x \in (0 .. Length(f) - 1) \ k.left
        PROVE  \E p \in Home(c.first + x) : content'[p] = <<c.id, x>>
    <3>1. CASE x = b
      BY <1>8, <1>10, <2>4, <3>1
    <3>2. CASE x # b
      <4>1. x \in (0 .. Length(f) - 1) \ c.left
        BY <2>2, <2>4, <3>2
      <4>2. PICK p \in Home(c.first + x) : content[p] = <<c.id, x>>
        BY <1>10, <2>4, <4>1
      <4>3. content'[p] = content[p]
        BY <1>7, <1>12, <1>13, <2>4, <3>2
      <4>4. QED
        BY <4>2, <4>3
    <3>3. QED
      BY <3>1, <3>2
  <2>5. CopyOf(s)'
    <3>1. k.left \subseteq 0 .. Length(f) - 1
      BY <1>7, <2>2
    <3>2. Whole => \A x \in (0 .. Length(f) - 1) \ k.left :
                     \E p \in Home(k.first + x)' : content'[p] = <<k.id, x>>
      BY <1>3, <2>2, <2>4
    <3>3. QED
      BY <1>3, <1>7, <2>1, <2>2, <2>3, <3>1, <3>2 DEF CopyOf, Length
  <2>6. CopyApart(s)'
    BY <1>3, <1>4, <1>5, <2>1, <2>2, <2>3 DEF CopyApart, Compatible, Disjoint
  <2>7. pc' = "exit" /\ tool' = "cp" /\ s \in Attached' \X FileIdx
    BY <1>1, <1>2, <1>3 DEF CopyOK
  <2>8. QED
    BY <2>1, <2>2, <2>5, <2>6, <2>7 DEF CopyOK
<1>18. QED
  BY <1>15, <1>16, <1>17

-----------------------------------------------------------------------------
(* A copy begins.                                                          *)

\* cp changes one entry in memory; what can be read can be read as before, and the
\* file is not one that some copy has finished, unless it was that before.
LEMMA BeginEntry ==
    ASSUME ContentInv, NEW n \in Names, NEW length \in Sizes, beginCopy(n, length)
    PROVE  \E s \in Attached \X FileIdx, f \in metaFile :
             /\ f.name = n /\ f.endBlock = f.startBlock + length
             /\ f.name = NoName => Length(f) = 0
             /\ \A i \in Attached, j \in FileIdx :
                  Mem(i, j)' = IF <<i, j>> = s THEN f ELSE Mem(i, j)
             /\ \/ Mem(s[1], s[2]).name = NoName
                \/ /\ Mem(s[1], s[2]).name = n
                   /\ Mem(s[1], s[2]).startBlock = f.startBlock
             /\ \A e \in metaFile : (Good(e) => Good(e)') /\ (Promised(e)' => Promised(e))
             /\ Whole => Good(f)'
             /\ Promised(f)' => Promised(Mem(s[1], s[2]))
             /\ versions' \in [Names -> SUBSET Nat]
<1>1. /\ TypeInv /\ length \in Nat /\ pc = "run" /\ tool = "cp" /\ media' = media
      /\ pc' = "update" /\ content' = content /\ ContentType
      /\ EntriesOK /\ EmptyOK /\ IInv
  BY IInvType, FSAssumption
     DEF beginCopy, cpOverwrites, cpAdds, media_vars, ContentInv, RaidInv
<1>2. \A lba : Home(lba)' = Home(lba)
  BY <1>1, SameHome
<1>3. CASE cpOverwrites(n, length) /\ UNCHANGED versions
  <2>1. PICK s \in findFile(n) :
          /\ ~(length > Entry(s).endBlock - Entry(s).startBlock)
          /\ msector' = Resize(s, length)
    BY <1>1, <1>3 DEF cpOverwrites, Goto
  <2>2. s \in Attached \X FileIdx /\ Entry(s) \in metaFile /\ Entry(s).name = n
    BY <1>1, PickedEntry DEF findFile
  <2>3. PICK f \in metaFile :
             /\ f.name = Entry(s).name
             /\ f.startBlock = Entry(s).startBlock
             /\ f.endBlock = Entry(s).startBlock + length
             /\ \A i \in Attached, j \in FileIdx :
                  Mem(i, j)' = IF <<i, j>> = s THEN f ELSE Mem(i, j)
    BY <1>1, <2>1, <2>2, ResizeEntries
  <2>4. PICK e \in metaFile : e = Entry(s)
    BY <2>2
  <2>5. /\ e = Mem(s[1], s[2])
        /\ Whole => Good(e)
        /\ e.name = NoName => Length(e) = 0
    <3>1. s[1] \in Attached /\ s[2] \in FileIdx /\ Entry(s) = Mem(s[1], s[2])
      BY <2>2 DEF Entry, Mem
    <3>2. e = Med(ns[s[1]], s[2]) /\ ns[s[1]] \in Devices
      BY <1>1, <2>4, <3>1, SyncEntries
    <3>3. QED
      BY <1>1, <2>4, <3>1, <3>2 DEF EntriesOK, EmptyOK
  <2>6. /\ Length(f) = length /\ length <= Length(e) /\ Length(e) \in Int
        /\ f.name = e.name /\ f.startBlock = e.startBlock
    BY <1>1, <2>1, <2>3, <2>4 DEF Length, metaFile
  <2>7. f.name = NoName => Length(f) = 0
    BY <1>1, <2>5, <2>6
  <2>8. ASSUME Whole PROVE Good(f)
    <3>1. \A b \in 0 .. Length(f) - 1 : b \in 0 .. Length(e) - 1
      BY <1>1, <2>6
    <3>2. QED
      BY <2>5, <2>6, <2>7, <2>8, <3>1 DEF Good, Promised
  <2>9. /\ Whole => Good(f)'
        /\ \A g \in metaFile : (Good(g) => Good(g)') /\ (Promised(g)' => Promised(g))
    BY <1>1, <1>2, <1>3, <2>8, GoodStays DEF Promised
  <2>10. Promised(f)' => Promised(e)
    BY <1>3, <2>6 DEF Promised
  <2>11. versions' \in [Names -> SUBSET Nat]
    BY <1>1, <1>3 DEF ContentType
  <2>12. QED
    BY <2>2, <2>3, <2>4, <2>5, <2>7, <2>9, <2>10, <2>11
<1>4. CASE cpAdds(n, length) /\ versions' = [versions EXCEPT ![n] = {Unwritten}]
  <2>1. PICK right \in rightFreeBlock, s \in FreeSlots : addFile(n, length, right, s)
    BY <1>4 DEF cpAdds
  <2>2. s \in Attached \X FileIdx /\ s \in Slots /\ right \in Nat /\ Entry(s).name = NoName
    BY <1>1, PickedEntry, RightFree DEF FreeSlots, TypeInv
  <2> DEFINE f == [name |-> n, startBlock |-> right, endBlock |-> right + length]
  <2>3. f \in metaFile /\ f.name = n /\ f.endBlock = f.startBlock + length
    BY <1>1, <2>2 DEF metaFile
  <2>4. msector' = Count(SetEntry(msector, s, f), 1) /\ n # NoName
    BY <2>1 DEF addFile, CanAdd
  <2> HIDE DEF f
  <2>5. /\ SetEntry(msector, s, f) \in [Idx -> metaSector]
        /\ \A i \in Idx, j \in FileIdx :
             SetEntry(msector, s, f)[i].content[j] =
               IF <<i, j>> = s THEN f ELSE msector[i].content[j]
    BY <1>1, <2>2, <2>3, SetEntryFacts DEF TypeInv, TypeOK
  <2>6. \A i \in Idx : msector'[i].content = SetEntry(msector, s, f)[i].content
    BY <2>4, <2>5, CountFacts
  <2>7. /\ Mem(s[1], s[2]).name = NoName
        /\ \A i \in Attached, j \in FileIdx :
             Mem(i, j)' = IF <<i, j>> = s THEN f ELSE Mem(i, j)
    BY <1>1, <2>2, <2>5, <2>6, EntryTypes DEF Mem, Entry
  <2>8. /\ versions' \in [Names -> SUBSET Nat]
        /\ Unwritten \in versions'[n]
        /\ \A m \in Names : m # n => versions'[m] = versions[m]
    <3>1. Unwritten \in Nat
      BY DEF Unwritten
    <3>2. versions \in [Names -> SUBSET Nat]
      BY <1>1 DEF ContentType
    <3>3. /\ versions' \in [Names -> SUBSET Nat]
          /\ Unwritten \in versions'[n]
      BY <1>4, <3>1, <3>2
    <3>4. \A m \in Names : m # n => versions'[m] = versions[m]
      BY <1>4, <3>2
    <3>5. QED
      BY <3>3, <3>4
  <2>9. \A e \in metaFile : (Good(e) => Good(e)') /\ (Promised(e)' => Promised(e))
    <3>1. \A e \in metaFile : e.name \in Names
      BY DEF metaFile
    <3>2. QED
      BY <1>1, <1>2, <2>8, <3>1, GoodStays DEF Promised
  <2>10. Good(f)' /\ ~Promised(f)' /\ (f.name = NoName => Length(f) = 0)
    BY <2>3, <2>4, <2>8 DEF Good, Promised
  <2>11. QED
    BY <2>2, <2>3, <2>7, <2>8, <2>9, <2>10
<1>5. QED
  BY <1>3, <1>4 DEF beginCopy

LEMMA BeginKeeps ==
    ASSUME ContentInv, RaidInv', NEW n \in Names, NEW length \in Sizes,
           beginCopy(n, length)
    PROVE  ContentType' /\ EmptyOK' /\ FreshOK' /\ EntriesOK' /\ NoCapture' /\ CopyOK'
<1>1. /\ TypeInv /\ length \in Nat /\ ContentType /\ NoCapture
      /\ EmptyOK /\ FreshOK /\ EntriesOK /\ IInv /\ IInv'
  BY IInvType, FSAssumption DEF ContentInv, RaidInv
<1>2. /\ pc = "run" /\ pc' = "update" /\ ret' = "exit" /\ tool = "cp" /\ tool' = "cp"
      /\ UNCHANGED <<media, ns, numdisks, content>> /\ copies' = copies + 1
  <2>1. CASE cpOverwrites(n, length)
    BY <2>1 DEF beginCopy, cpOverwrites, Call, Goto, media_vars
  <2>2. CASE cpAdds(n, length)
    BY <2>2 DEF beginCopy, cpAdds, addFile, Call, media_vars
  <2>3. QED
    BY <2>1, <2>2 DEF beginCopy
<1>3. /\ Attached' = Attached
      /\ (AllMagic' <=> AllMagic) /\ (Whole' <=> Whole)
      /\ \A d, j : Med(d, j)' = Med(d, j)
  BY <1>2, SameDisks DEF Attached
<1>4. PICK s \in Attached \X FileIdx, f \in metaFile :
             /\ f.name = n /\ f.endBlock = f.startBlock + length
             /\ f.name = NoName => Length(f) = 0
             /\ \A i \in Attached, j \in FileIdx :
                  Mem(i, j)' = IF <<i, j>> = s THEN f ELSE Mem(i, j)
             /\ \/ Mem(s[1], s[2]).name = NoName
                \/ /\ Mem(s[1], s[2]).name = n
                   /\ Mem(s[1], s[2]).startBlock = f.startBlock
             /\ \A e \in metaFile : (Good(e) => Good(e)') /\ (Promised(e)' => Promised(e))
             /\ Whole => Good(f)'
             /\ Promised(f)' => Promised(Mem(s[1], s[2]))
             /\ versions' \in [Names -> SUBSET Nat]
  BY BeginEntry
<1>5. \A i \in Attached, j \in FileIdx :
        /\ Mem(i, j) \in metaFile /\ ns[i] \in Devices /\ Mem(i, j) = Med(ns[i], j)
        /\ \/ <<i, j>> = s /\ Mem(i, j)' = f
           \/ <<i, j>> # s /\ Mem(i, j)' = Mem(i, j)
  BY <1>1, <1>2, <1>4, SyncEntries
<1>6. EntriesOK'
  <2>1. ASSUME Whole, NEW d \in Devices, NEW j \in FileIdx PROVE Good(Med(d, j))'
    <3>1. PICK e \in metaFile : e = Med(d, j)
      BY <1>1, EntryTypes
    <3>2. e = Med(d, j)' /\ Good(e)
      BY <1>1, <1>3, <2>1, <3>1 DEF EntriesOK
    <3>3. Good(e)'
      BY <1>4, <3>2
    <3>4. QED
      BY <3>2, <3>3 DEF Good, Promised
  <2>2. ASSUME Whole, NEW i \in Attached, NEW j \in FileIdx PROVE Good(Mem(i, j))'
    <3>1. CASE f = Mem(i, j)'
      BY <1>4, <2>2, <3>1 DEF Good, Promised
    <3>2. CASE Mem(i, j)' = Mem(i, j)
      <4>1. PICK e \in metaFile : e = Mem(i, j)
        BY <1>5
      <4>2. Good(e)
        BY <1>1, <1>5, <2>2, <4>1 DEF EntriesOK
      <4>3. Good(e)' /\ e = Mem(i, j)'
        BY <1>4, <3>2, <4>1, <4>2
      <4>4. QED
        BY <4>3 DEF Good, Promised
    <3>3. QED
      BY <1>5, <3>1, <3>2
  <2>3. QED
    BY <1>3, <2>1, <2>2 DEF EntriesOK
<1>7. EmptyOK'
  <2>1. \A d \in Devices, j \in FileIdx :
          Med(d, j)'.name = NoName => Length(Med(d, j))' = 0
    BY <1>1, <1>3 DEF EmptyOK, Length
  <2>2. ASSUME NEW i \in Attached, NEW j \in FileIdx, Mem(i, j)'.name = NoName
        PROVE  Length(Mem(i, j))' = 0
    BY <1>1, <1>2, <1>4, <1>5, <2>2 DEF EmptyOK, Length
  <2>3. QED
    BY <1>3, <2>1, <2>2 DEF EmptyOK, Length
<1>8. FreshOK'
  <2>1. SUFFICES ASSUME ~AllMagic
                 PROVE  /\ \A d \in Devices, j \in FileIdx : ~Promised(Med(d, j))'
                        /\ \A i \in Attached, j \in FileIdx : ~Promised(Mem(i, j))'
    BY <1>3 DEF FreshOK
  <2>2. \A d \in Devices, j \in FileIdx : ~Promised(Med(d, j))
    BY <1>1, <1>2, <2>1 DEF FreshOK
  <2>3. \A e \in metaFile : ~Promised(e) => ~Promised(e)'
    BY <1>4
  <2>4. ASSUME NEW d \in Devices, NEW j \in FileIdx PROVE ~Promised(Med(d, j))'
    <3>1. PICK e \in metaFile : e = Med(d, j)
      BY <1>1, EntryTypes
    <3>2. ~Promised(e)' /\ e = Med(d, j)'
      BY <1>3, <2>2, <2>3, <3>1
    <3>3. QED
      BY <3>2 DEF Promised
  <2>5. ASSUME NEW i \in Attached, NEW j \in FileIdx PROVE ~Promised(Mem(i, j))'
    <3>1. PICK e \in metaFile : e = Mem(i, j) /\ ~Promised(e)
      BY <1>5, <2>2
    <3>2. CASE <<i, j>> = s /\ Mem(i, j)' = f
      <4>1. ~Promised(f)'
        BY <1>4, <3>1, <3>2
      <4>2. QED
        BY <3>2, <4>1 DEF Promised
    <3>3. CASE Mem(i, j)' = Mem(i, j)
      <4>1. ~Promised(e)' /\ e = Mem(i, j)'
        BY <2>3, <3>1, <3>3
      <4>2. QED
        BY <4>1 DEF Promised
    <3>4. QED
      BY <1>5, <3>2, <3>3
  <2>6. QED
    BY <2>4, <2>5
<1>9. NoCapture'
  BY <1>1, <1>2 DEF NoCapture
<1>10. ContentType'
  BY <1>1, <1>2, <1>4 DEF ContentType, ContentSectors
<1>11. CopyOK'
  <2>1. PICK t \in Attached \X FileIdx :
          /\ Mem(t[1], t[2])'.name = n
          /\ copy' = [id |-> copies + 1, name |-> n, first |-> Mem(t[1], t[2])'.startBlock,
                      left |-> 0 .. length - 1]
    BY DEF beginCopy, Mem
  <2>2. /\ t[1] \in Attached /\ t[2] \in FileIdx /\ t = <<t[1], t[2]>>
        /\ s[1] \in Attached /\ s[2] \in FileIdx /\ s = <<s[1], s[2]>>
        /\ Mem(s[1], s[2])' = f
    BY <1>4
  <2>3. \A u \in Attached \X FileIdx : Entry(u)' = Mem(u[1], u[2])'
    BY DEF Entry, Mem
  <2>4. PICK g \in metaFile : g = Mem(t[1], t[2])' /\ g = Entry(t)'
    BY <1>4, <1>5, <2>2, <2>3
  <2>5. ASSUME NEW u \in Attached \X FileIdx, Mem(u[1], u[2])'.name = n
        PROVE  Length(Mem(u[1], u[2])') = length /\ (n # NoName => u = s)
    <3>1. Length(f) = length
      BY <1>1, <1>4 DEF Length, metaFile
    <3>2. u[1] \in Attached /\ u[2] \in FileIdx /\ u = <<u[1], u[2]>>
      OBVIOUS
    <3>3. CASE n # NoName
      <4>1. u = s
        BY <1>1, <1>2, <1>3, <1>4, <2>2, <2>5, <3>2, <3>3 DEF IInv, MemoryOK, Compatible
      <4>2. QED
        BY <2>2, <3>1, <4>1
    <3>4. CASE n = NoName
      <4>1. Length(Mem(u[1], u[2])') = 0
        BY <1>2, <1>3, <1>7, <2>5, <3>2, <3>4 DEF EmptyOK, Length
      <4>2. QED
        BY <1>4, <3>1, <3>4, <4>1
    <3>5. QED
      BY <3>3, <3>4
  <2>6. PICK k : k = copy'
    OBVIOUS
  <2>7. /\ k.id = copies + 1 /\ k.name = n /\ k.first = g.startBlock /\ k.left = 0 .. length - 1
        /\ k \in [id : Nat, name : Names, first : Nat, left : SUBSET Nat]
    <3>1. copies + 1 \in Nat /\ g.startBlock \in Nat
      BY <1>1, <2>4 DEF ContentType, metaFile
    <3>2. \A b \in 0 .. length - 1 : b \in Nat
      BY <1>1
    <3>3. (0 .. length - 1) \in SUBSET Nat
      BY <3>2
    <3>4. QED
      BY <2>1, <2>4, <2>6, <3>1, <3>3
  <2>8. g.name = k.name /\ g.startBlock = k.first /\ Length(g) = length
    BY <2>1, <2>4, <2>5, <2>7
  <2>9. CopyOf(t)'
    <3>1. (0 .. Length(g) - 1) \ k.left = {} /\ k.left \subseteq 0 .. Length(g) - 1
      BY <2>7, <2>8
    <3>2. QED
      BY <2>4, <2>6, <2>8, <3>1 DEF CopyOf, Length
  <2>10. \A u \in Attached \X FileIdx : CopyOf(u)' => k.left = 0 .. Length(Entry(u)') - 1
    BY <2>3, <2>5, <2>6, <2>7 DEF CopyOf
  <2>11. CopyApart(t)'
    <3>1. SUFFICES ASSUME NEW i \in Attached, NEW j \in FileIdx
                   PROVE  IF <<i, j>> = t
                          THEN \/ Med(ns[i], j).name = NoName
                               \/ /\ Med(ns[i], j).name = k.name
                                  /\ Med(ns[i], j).startBlock = k.first
                          ELSE Compatible(g, Med(ns[i], j))
      <4>1. \A i \in Attached, j \in FileIdx : Med(ns[i], j)' = Med(ns[i], j)
        BY <1>2, <1>3 DEF Med
      <4>2. QED
        BY <1>2, <1>3, <2>4, <2>6, <3>1, <4>1 DEF CopyApart, Compatible, Disjoint
    <3>2. CASE <<i, j>> = t
      <4>1. Med(ns[i], j) = Mem(t[1], t[2])
        BY <1>5, <3>2
      <4>2. CASE t = s
        BY <1>4, <2>2, <2>4, <2>7, <3>2, <4>1, <4>2
      <4>3. CASE t # s
        BY <1>5, <2>1, <2>2, <2>5, <3>2, <4>1, <4>3
      <4>4. QED
        BY <4>2, <4>3
    <3>3. CASE <<i, j>> # t
      <4>1. Compatible(Mem(t[1], t[2]), Med(ns[i], j))'
        BY <1>1, <1>2, <1>3, <2>2, <3>3 DEF IInv, MemoryOK
      <4>2. Med(ns[i], j)' = Med(ns[i], j)
        BY <1>2, <1>3 DEF Med
      <4>3. QED
        BY <2>4, <3>3, <4>1, <4>2 DEF Compatible, Disjoint
    <3>4. QED
      BY <3>2, <3>3
  <2>12. QED
    BY <1>2, <1>3, <2>6, <2>7, <2>9, <2>10, <2>11 DEF CopyOK, Length
<1>12. QED
  BY <1>6, <1>7, <1>8, <1>9, <1>10, <1>11

-----------------------------------------------------------------------------
(* The other steps.                                                        *)

\* A step to a place without a copy, which leaves the disks as they are.
Elsewhere ==
    /\ media' = media
    /\ pc' \notin {"update", "exit", "pcap"}
    /\ pc' = "off" \/ pc \notin {"update", "exit"} \/ (pc = "update" /\ ret # "exit")

\* A step that leaves the disks and the tables in memory as they are.
Standing ==
    /\ UNCHANGED <<media, ns, msector, numdisks, tool>>
    /\ \/ UNCHANGED <<pc, ret>>
       \/ pc = "run" /\ pc' = "exit"
       \/ pc = "update" /\ ret = "exit" /\ pc' = "exit"

LEMMA ToolOf ==
    ASSUME [Next]_vars
    PROVE  tool' \in Tools \cup {"none", tool}
<1>1. ASSUME NEW t \in Tools, Launch(t) PROVE tool' \in Tools
  BY <1>1 DEF Launch
<1>2. CASE readMeta \/ readMetaFails
  BY <1>2 DEF readMeta, readMetaFails, createRaid, Ends, Goto
<1>3. ASSUME NEW n \in Names, rmFile(n) PROVE tool' = tool
  BY <1>3 DEF rmFile
<1>4. ASSUME NEW n \in Names, NEW length \in Sizes,
             cpOverwrites(n, length) \/ cpAdds(n, length) \/ cpCannotAdd(n, length)
      PROVE  tool' \in {"none", tool}
  BY <1>4 DEF cpOverwrites, cpAdds, cpCannotAdd, Goto, Ends
<1>5. CASE sortDisks \/ app_init \/ freeSpcap \/ pcapNotOpened \/ runReturns
  BY <1>5 DEF sortDisks, app_init, freeSpcap, pcapNotOpened, runReturns, Ends, Goto
<1>6. CASE \/ probeFails \/ mainReturns \/ Crash \/ formatRaid \/ updateRaid \/ loopReturns
           \/ UNCHANGED vars \/ \E d \in Devices : register_ns(d)
  BY <1>6 DEF probeFails, mainReturns, Crash, formatRaid, updateRaid, loopReturns, vars,
              register_ns, process_vars, Ends
<1>7. QED
  BY <1>1, <1>2, <1>3, <1>4, <1>5, <1>6 DEF Next, Step

LEMMA MetaShape ==
    ASSUME TypeInv, RetOK, NoCapture, metaStep
    PROVE  \/ Elsewhere
           \/ Standing
           \/ formatRaid
           \/ updateRaid
           \/ \E n \in Names : rmFile(n) /\ pc' = "update"
<1>1. Next /\ [Next]_vars
  BY DEF metaStep, Next
<1>2. pc # "pcap" /\ ret # "pcap" /\ tool # "pcap"
  BY DEF NoCapture
<1>3. CASE UNCHANGED vars
  BY <1>3 DEF vars, Standing
<1>4. CASE Ending
  BY <1>4 DEF Ending, Ends, Elsewhere
<1>5. CASE Entering
  BY <1>5 DEF Entering, Elsewhere
<1>6. ASSUME NEW d \in Devices, register_ns(d) PROVE Elsewhere
  BY <1>6 DEF register_ns, process_vars, media_vars, Elsewhere
<1>7. CASE loopReturns
  BY <1>2, <1>7 DEF loopReturns, media_vars, raid_vars, RetOK, Elsewhere, Standing
<1>8. CASE readMeta \/ readMetaFails
  BY <1>8 DEF readMeta, readMetaFails, createRaid, media_vars, Call, Goto, Ends, Elsewhere
<1>9. CASE sortDisks
  BY <1>9 DEF sortDisks, media_vars, Goto, Ends, Elsewhere
<1>10. CASE Passing
  BY <1>10 DEF Passing, Elsewhere, Standing
<1>11. CASE Editing
  <2>1. pc = "run" /\ pc' = "update"
    BY <1>2, <1>11 DEF Editing
  <2>2. ASSUME NEW n \in Names, NEW length \in Sizes,
               cpOverwrites(n, length) \/ cpAdds(n, length) \/ cpCannotAdd(n, length)
        PROVE  FALSE
    <3>1. tool = "cp"
      BY <1>2, <2>2 DEF cpOverwrites, cpAdds, cpCannotAdd
    <3>2. QED
      BY <2>1, <3>1 DEF metaStep, Crash, Launch, Ends
  <2>3. CASE \/ readMeta \/ readMetaFails \/ sortDisks \/ runReturns \/ mainReturns
             \/ pcapNotOpened \/ freeSpcap
    BY <2>1, <2>3 DEF readMeta, readMetaFails, createRaid, sortDisks, runReturns,
                      mainReturns, pcapNotOpened, freeSpcap, Goto
  <2>4. CASE \/ \E d \in Devices : register_ns(d)
             \/ probeFails \/ app_init \/ formatRaid \/ updateRaid \/ loopReturns
             \/ Crash \/ \E t \in Tools : Launch(t)
    BY <2>1, <2>4 DEF register_ns, probeFails, app_init, formatRaid, updateRaid,
                      loopReturns, Crash, Launch, Ends
  <2>5. QED
    BY <1>1, <2>1, <2>2, <2>3, <2>4 DEF Next, Step
<1>12. QED
  BY <1>1, <1>3, <1>4, <1>5, <1>6, <1>7, <1>8, <1>9, <1>10, <1>11, Shapes

\* createRaid goes on with disks that all have metadata.
LEMMA ReadAll ==
    ASSUME ~MissingAllowed, BaseInv, readMeta, pc' = "sort"
    PROVE  AllMagic
<1> DEFINE Magic == {i \in Attached : Faithful[i].MAGIC}
<1>1. pc = "create" /\ Cardinality(Magic) = numdisks
  BY ReadShape DEF readMeta
<1>2. IsFiniteSet(Attached) /\ Cardinality(Attached) = numdisks /\ Magic \in SUBSET Attached
  BY AttachedFinite DEF BaseInv
<1>3. Magic = Attached
  BY <1>1, <1>2, FS_Subset
<1>4. \A i \in Attached : Faithful[i] = media[ns[i]]
  BY EntryTypes DEF Faithful, BaseInv
<1>5. QED
  BY <1>1, <1>3, <1>4, AllDisks DEF AllMagic

\* Where what a process has in memory, when it comes to its tool, is from.
LEMMA RunEntries ==
    ASSUME ~MissingAllowed, ~ReadFaults, IInv, [Next]_vars, pc' \in {"sort", "run"}
    PROVE  /\ \/ AllMagic
              \/ pc \in {"sort", "run", "update"}
              \/ \A d \in Devices, j \in FileIdx : IsFree(Med(d, j))
           /\ pc' = "run" =>
                \A i \in Attached', j \in FileIdx :
                  \/ pc \in {"run", "update"} /\ i \in Attached /\ Mem(i, j)' = Mem(i, j)
                  \/ \E d \in Devices : Mem(i, j)' = Med(d, j)
<1>0. TypeInv /\ BaseInv
  BY IInvType, BaseOf
<1>1. CASE UNCHANGED vars \/ Passing
  BY <1>1 DEF vars, Passing, Mem, Attached
<1>2. CASE Ending \/ Entering \/ Editing
  BY <1>2 DEF Ending, Ends, Entering, Editing
<1>3. ASSUME NEW d \in Devices, register_ns(d) PROVE FALSE
  BY <1>3 DEF register_ns, process_vars
<1>4. CASE formatRaid \/ updateRaid
  BY <1>4 DEF formatRaid, updateRaid
<1>5. CASE loopReturns
  <2>1. /\ pc \in {"format", "update"} /\ widx = numdisks /\ pc' = ret
        /\ UNCHANGED <<media, msector, ns, numdisks>> /\ Attached' = Attached
    BY <1>5 DEF loopReturns, raid_vars, media_vars, Attached
  <2>2. CASE pc = "format"
    <3>1. ret = "sort"
      BY <2>1, <2>2 DEF IInv, PlaceOK
    <3>2. \A i \in Attached, j \in FileIdx : IsFree(Med(ns[i], j))
      BY <2>2, <3>1 DEF IInv, FormatOK
    <3>3. \A d \in Devices : \E i \in Attached : ns[i] = d
      BY <1>0, <2>2, AllDisks
    <3>4. \A d \in Devices, j \in FileIdx : IsFree(Med(d, j))
      BY <3>2, <3>3 DEF Med
    <3>5. QED
      BY <2>1, <3>1, <3>4
  <2>3. CASE pc = "update"
    BY <2>1, <2>3 DEF Mem
  <2>4. QED
    BY <2>1, <2>2, <2>3
<1>6. CASE readMeta
  <2>1. pc' = "sort"
    BY <1>6 DEF readMeta, createRaid, Ends, Call, Goto
  <2>2. QED
    BY <1>0, <1>6, <2>1, ReadAll
<1>7. CASE readMetaFails
  BY <1>7 DEF readMetaFails
<1>8. CASE sortDisks
  <2>1. PICK p \in Sorting :
          \A i \in Attached : msector'[i] = msector[p[i]] /\ ns'[i] = ns[p[i]]
    BY <1>0, <1>8, SortedDisks
  <2>2. \A i \in Attached : p[i] \in Attached
    BY <1>0, SortingFacts
  <2>3. pc = "sort" /\ pc' = "run" /\ Attached' = Attached
    BY <1>0, <1>8, SortedDisks
  <2>4. ASSUME NEW i \in Attached, NEW j \in FileIdx
        PROVE  \E d \in Devices : Mem(i, j)' = Med(d, j)
    <3>1. Mem(i, j)' = Mem(p[i], j)
      BY <2>1 DEF Mem
    <3>2. Mem(p[i], j) = Med(ns[p[i]], j) /\ ns[p[i]] \in Devices
      BY <1>0, <2>2, <2>3, EntryTypes DEF IInv, SyncOK
    <3>3. QED
      BY <3>1, <3>2
  <2>5. QED
    BY <2>3, <2>4
<1>9. QED
  BY <1>0, <1>1, <1>2, <1>3, <1>4, <1>5, <1>6, <1>7, <1>8, Shapes

\* What a step of the metadata does to the copies a file may be of.
LEMMA MetaVersions ==
    ASSUME ContentType, metaStep
    PROVE  /\ ContentType'
           /\ \A e \in metaFile : \/ versions'[e.name] = versions[e.name]
                                  \/ Unwritten \in versions'[e.name]
           /\ \A e \in metaFile : Promised(e)' => Promised(e)
<1>1. /\ UNCHANGED <<content, copies>>
      /\ \/ versions' = versions
         \/ versions' = [n \in Names |-> {Unwritten}]
  BY DEF metaStep
<1>2. versions' \in [Names -> SUBSET Nat]
  BY <1>1 DEF ContentType, Unwritten
<1>3. \A e \in metaFile : \/ versions'[e.name] = versions[e.name]
                          \/ Unwritten \in versions'[e.name]
  BY <1>1 DEF metaFile
<1>4. QED
  BY <1>1, <1>2, <1>3 DEF ContentType, ContentSectors, Promised

\* A step of the metadata that leaves the numbers on the disks leaves what can be read.
LEMMA MetaGood ==
    ASSUME ContentType, metaStep, \A lba : Home(lba)' = Home(lba)
    PROVE  \A e \in metaFile : Good(e) => Good(e)'
  BY MetaVersions, GoodStays DEF metaStep

\* The entries on disks that a step leaves alone.
LEMMA MetaLeaves ==
    ASSUME TypeInv, ContentType, EmptyOK, EntriesOK, metaStep, media' = media
    PROVE  /\ \A d \in Devices, j \in FileIdx :
                Med(d, j)'.name = NoName => Length(Med(d, j))' = 0
           /\ Whole => \A d \in Devices, j \in FileIdx : Good(Med(d, j))'
<1>1. /\ \A lba : Home(lba)' = Home(lba)
      /\ \A d, j : Med(d, j)' = Med(d, j)
  BY SameDisks
<1>2. ASSUME Whole, NEW d \in Devices, NEW j \in FileIdx PROVE Good(Med(d, j))'
  <2>1. PICK e \in metaFile : e = Med(d, j)
    BY EntryTypes
  <2>2. e = Med(d, j)' /\ Good(e)
    BY <1>1, <1>2, <2>1 DEF EntriesOK
  <2>3. Good(e)'
    BY <1>1, <2>2, MetaGood
  <2>4. QED
    BY <2>2, <2>3 DEF Good, Promised
<1>3. QED
  BY <1>1, <1>2 DEF EmptyOK, Length

LEMMA ElsewhereKeeps ==
    ASSUME ~MissingAllowed, ~ReadFaults, ContentInv, RaidInv', metaStep, Elsewhere
    PROVE  EmptyOK' /\ FreshOK' /\ EntriesOK' /\ CopyOK'
<1>1. /\ TypeInv /\ ContentType /\ CopyOK /\ EmptyOK /\ FreshOK /\ EntriesOK /\ IInv
  BY IInvType DEF ContentInv, RaidInv
<1>2. /\ media' = media /\ pc' \notin {"update", "exit", "pcap"}
      /\ [Next]_vars
      /\ (Whole' <=> Whole) /\ (AllMagic' <=> AllMagic)
      /\ \A d, j : Med(d, j)' = Med(d, j)
  BY SameDisks DEF Elsewhere, metaStep, Next
<1>3. /\ \A d \in Devices, j \in FileIdx :
           Med(d, j)'.name = NoName => Length(Med(d, j))' = 0
      /\ Whole => \A d \in Devices, j \in FileIdx : Good(Med(d, j))'
  BY <1>1, <1>2, MetaLeaves
<1>4. EntriesOK'
  BY <1>2, <1>3 DEF EntriesOK
<1>5. EmptyOK'
  <2>1. ASSUME pc' = "run", NEW i \in Attached', NEW j \in FileIdx, Mem(i, j)'.name = NoName
        PROVE  Length(Mem(i, j))' = 0
    <3>1. CASE pc \in {"run", "update"} /\ i \in Attached /\ Mem(i, j)' = Mem(i, j)
      BY <1>1, <2>1, <3>1 DEF EmptyOK, Length
    <3>2. CASE \E d \in Devices : Mem(i, j)' = Med(d, j)
      BY <1>1, <2>1, <3>2 DEF EmptyOK, Length
    <3>3. QED
      BY <1>1, <1>2, <2>1, <3>1, <3>2, RunEntries
  <2>2. QED
    BY <1>2, <1>3, <2>1 DEF EmptyOK, Length
<1>6. FreshOK'
  <2>1. SUFFICES ASSUME pc' \in {"sort", "run"}, ~AllMagic, NEW d \in Devices, NEW j \in FileIdx
                 PROVE  ~Promised(Med(d, j))'
    BY <1>2 DEF FreshOK
  <2>2. PICK e \in metaFile : e = Med(d, j)
    BY <1>1, EntryTypes
  <2>3. ~Promised(e)
    <3>1. CASE pc \in {"sort", "run", "update"}
      BY <1>1, <2>1, <2>2, <3>1 DEF FreshOK
    <3>2. CASE IsFree(e)
      BY <3>2 DEF IsFree, Promised
    <3>3. QED
      BY <1>1, <1>2, <2>1, <2>2, <3>1, <3>2, RunEntries
  <2>4. ~Promised(e)' /\ e = Med(d, j)'
    BY <1>1, <1>2, <2>2, <2>3, MetaVersions
  <2>5. QED
    BY <2>4 DEF Promised
<1>7. copy' = NoCopy
  BY <1>1 DEF Elsewhere, CopyOK, metaStep
<1>8. QED
  BY <1>4, <1>5, <1>6, <1>7 DEF CopyOK

\* The copy that runs, after a step that leaves what it works on.
LEMMA CopyStays ==
    ASSUME UNCHANGED <<media, ns, msector, numdisks, content, copy>>
    PROVE  /\ Attached' = Attached
           /\ \A s : Entry(s)' = Entry(s)
           /\ \A s : CopyOf(s)' <=> CopyOf(s)
           /\ \A s : CopyApart(s)' <=> CopyApart(s)
<1>1. /\ Attached' = Attached /\ \A s : Entry(s)' = Entry(s)
      /\ \A lba : Home(lba)' = Home(lba)
      /\ (Whole' <=> Whole)
      /\ \A i, j : Med(ns[i], j)' = Med(ns[i], j)
  BY SameDisks DEF Attached, Entry, Med
<1>2. \A s : CopyOf(s)' <=> CopyOf(s)
  BY <1>1 DEF CopyOf, Length
<1>3. ASSUME NEW s
      PROVE  CopyApart(s)' <=> CopyApart(s)
  <2>1. \A i, j : Compatible(Entry(s), Med(ns[i], j))' <=> Compatible(Entry(s), Med(ns[i], j))
    BY <1>1 DEF Compatible, Disjoint
  <2>2. copy' = copy
    OBVIOUS
  <2>3. QED
    BY <1>1, <2>1, <2>2 DEF CopyApart
<1>4. QED
  BY <1>1, <1>2, <1>3

LEMMA StandingKeeps ==
    ASSUME ContentInv, metaStep, Standing
    PROVE  EmptyOK' /\ FreshOK' /\ EntriesOK' /\ CopyOK'
<1>1. /\ TypeInv /\ ContentType /\ CopyOK /\ EmptyOK /\ FreshOK /\ EntriesOK /\ IInv
  BY IInvType DEF ContentInv, RaidInv
<1>2. /\ UNCHANGED <<media, ns, msector, numdisks, tool>>
      /\ \/ UNCHANGED <<pc, ret>>
         \/ pc = "run" /\ pc' = "exit"
         \/ pc = "update" /\ ret = "exit" /\ pc' = "exit"
  BY DEF Standing
<1>3. /\ (Whole' <=> Whole) /\ (AllMagic' <=> AllMagic)
      /\ \A lba : Home(lba)' = Home(lba)
      /\ \A d, j : Med(d, j)' = Med(d, j)
      /\ \A i, j : Mem(i, j)' = Mem(i, j)
      /\ Attached' = Attached
  BY <1>2, SameDisks DEF Mem, Attached
<1>4. /\ versions' = versions /\ content' = content
      /\ copy' = IF pc' = "off" THEN NoCopy ELSE copy
  BY <1>2 DEF metaStep
<1>5. EmptyOK' /\ FreshOK'
  BY <1>1, <1>2, <1>3, <1>4 DEF EmptyOK, FreshOK, Length, Promised
<1>6. EntriesOK'
  <2>1. ASSUME Whole, pc' = "update", NEW i \in Attached, NEW j \in FileIdx
        PROVE  Good(Mem(i, j))'
    BY <1>1, <1>2, <1>3, <1>4, <2>1 DEF EntriesOK, Good, Promised, Length
  <2>2. QED
    BY <1>1, <1>2, <1>3, <2>1, MetaLeaves DEF EntriesOK
<1>7. CopyOK'
  <2>1. CASE pc' = "off"
    BY <1>4, <2>1 DEF CopyOK
  <2>2. CASE pc' # "off"
    <3>1. copy' = copy
      BY <1>4, <2>2
    <3>2. /\ \A s : Entry(s)' = Entry(s)
          /\ \A s : CopyOf(s)' <=> CopyOf(s)
          /\ \A s : CopyApart(s)' <=> CopyApart(s)
      BY <1>2, <1>4, <3>1, CopyStays
    <3>3. QED
      BY <1>1, <1>2, <1>3, <3>1, <3>2 DEF CopyOK, Length
  <2>3. QED
    BY <2>1, <2>2
<1>8. QED
  BY <1>5, <1>6, <1>7

LEMMA FormatKeeps ==
    ASSUME ~MissingAllowed, ContentInv, RaidInv', metaStep, formatRaid
    PROVE  EmptyOK' /\ FreshOK' /\ EntriesOK' /\ CopyOK'
<1>0. IInv' /\ TypeOK'
  BY DEF RaidInv, IInv
<1>1. /\ TypeInv /\ ContentType /\ CopyOK /\ EmptyOK /\ EntriesOK /\ IInv
      /\ NumbersOK /\ FormatToolOK /\ BaseInv
  BY IInvType, BaseOf DEF ContentInv, RaidInv, StepInv
<1>2. /\ pc = "format" /\ pc' = "format" /\ ret' = ret /\ tool' = tool
      /\ Attached' = Attached /\ UNCHANGED <<ns, numdisks>>
  BY DEF formatRaid, Attached
<1>3. copy' = NoCopy
  BY <1>1, <1>2 DEF CopyOK, metaStep
<1>4. ASSUME NEW d \in Devices, NEW j \in FileIdx, Med(d, j)'.name = NoName
      PROVE  Length(Med(d, j))' = 0
  <2>1. media'[d] = media[d] \/ media'[d] = msector'[widx]
    BY <1>1, LoopNumbers
  <2>2. msector'[widx] = initMeta(widx, numdisks)
    BY <1>1, <1>2, LoopShape
  <2>3. Med(d, j)' = Med(d, j) \/ Med(d, j)' = FreeEntry
    BY <2>1, <2>2 DEF Med, initMeta
  <2>4. QED
    BY <1>1, <1>4, <2>3 DEF EmptyOK, Length, FreeEntry
<1>5. EntriesOK'
  <2>1. CASE media' = media
    BY <1>1, <1>2, <2>1, MetaLeaves, SameDisks DEF EntriesOK
  <2>2. CASE media' # media
    <3>1. SUFFICES ASSUME NEW d \in Devices, NEW j \in FileIdx
                   PROVE  ~Promised(Med(d, j))'
      BY <1>2, <1>4 DEF EntriesOK, Good
    <3>2. CASE tool = "format"
      <4>1. versions' = [n \in Names |-> {Unwritten}]
        BY <2>2, <3>2 DEF metaStep
      <4>2. Med(d, j)'.name \in Names
        BY <1>0 DEF TypeOK, Med, metaSector, metaFile
      <4>3. QED
        BY <4>1, <4>2 DEF Promised
    <3>3. CASE tool # "format"
      <4>1. ret' = "sort"
        BY <1>1, <1>2, <3>3 DEF FormatToolOK, IInv, PlaceOK
      <4>2. PICK i \in Attached : ns[i] = d
        BY <1>1, <1>2, AllDisks
      <4>3. IsFree(Med(ns[i], j))'
        BY <1>0, <1>2, <4>1 DEF IInv, FormatOK
      <4>4. QED
        BY <1>2, <4>2, <4>3 DEF IsFree, Promised, Med
    <3>4. QED
      BY <3>2, <3>3
  <2>3. QED
    BY <2>1, <2>2
<1>6. QED
  BY <1>2, <1>3, <1>4, <1>5 DEF EmptyOK, FreshOK, CopyOK

LEMMA UpdateKeeps ==
    ASSUME ~MissingAllowed, ContentInv, metaStep, updateRaid
    PROVE  EmptyOK' /\ FreshOK' /\ EntriesOK' /\ CopyOK'
<1>1. /\ TypeInv /\ ContentType /\ CopyOK /\ EmptyOK /\ FreshOK /\ EntriesOK /\ IInv
      /\ NumbersOK /\ MagicOK /\ BaseInv
  BY IInvType, BaseOf DEF ContentInv, RaidInv, IInv
<1>2. /\ widx \in Attached /\ Attached' = Attached
      /\ UNCHANGED <<ns, numdisks, tool, pc, ret, msector>>
      /\ pc = "update"
  BY <1>1, LoopShape DEF updateRaid, raid_vars
<1>3. \A d \in Devices : media'[d] = IF d = ns[widx] /\ media' # media
                                     THEN msector[widx] ELSE media[d]
  BY <1>1, <1>2, LoopNumbers
<1>4. /\ \A d \in Devices : media[d].MAGIC =>
           media'[d].MAGIC /\ media'[d].diskId = media[d].diskId
      /\ Numbered' <=> Numbered
  BY <1>1, UpdateNumbers
<1>5. \A i, j : Mem(i, j)' = Mem(i, j) /\ \A s : Entry(s)' = Entry(s)
  BY <1>2 DEF Mem, Entry
<1>6. \A d \in Devices, j \in FileIdx :
        \/ Med(d, j)' = Med(d, j)
        \/ d = ns[widx] /\ Med(d, j)' = Mem(widx, j)
  BY <1>2, <1>3 DEF Med, Mem
<1>7. /\ \A d \in Devices, j \in FileIdx : Med(d, j) \in metaFile
      /\ \A i \in Attached, j \in FileIdx : Mem(i, j) \in metaFile /\ ns[i] \in Devices
  BY <1>1, EntryTypes
<1>8. AllMagic => AllMagic' /\ \A lba : Home(lba)' = Home(lba)
  BY <1>4, SameHome DEF AllMagic
<1>9. Whole => Whole'
  BY <1>4, <1>8 DEF Whole
<1>10. EmptyOK'
  <2>1. \A d \in Devices, j \in FileIdx : Med(d, j)'.name = NoName => Length(Med(d, j))' = 0
    BY <1>1, <1>2, <1>6 DEF EmptyOK, Length
  <2>2. \A i \in Attached, j \in FileIdx : Mem(i, j)'.name = NoName => Length(Mem(i, j))' = 0
    BY <1>1, <1>2, <1>5 DEF EmptyOK, Length
  <2>3. QED
    BY <1>2, <2>1, <2>2 DEF EmptyOK, Length
<1>11. ASSUME ~AllMagic
       PROVE  /\ \A d \in Devices, j \in FileIdx : ~Promised(Med(d, j))'
              /\ \A i \in Attached, j \in FileIdx : ~Promised(Mem(i, j))'
  <2>1. /\ \A d \in Devices, j \in FileIdx : ~Promised(Med(d, j))
        /\ \A i \in Attached, j \in FileIdx : ~Promised(Mem(i, j))
    BY <1>1, <1>2, <1>11 DEF FreshOK
  <2>2. \A e \in metaFile : ~Promised(e) => ~Promised(e)'
    BY <1>1, MetaVersions
  <2>3. ASSUME NEW d \in Devices, NEW j \in FileIdx PROVE ~Promised(Med(d, j))'
    <3>1. PICK e \in metaFile : e = Med(d, j)' /\ ~Promised(e)
      BY <1>2, <1>6, <1>7, <2>1
    <3>2. ~Promised(e)'
      BY <2>2, <3>1
    <3>3. QED
      BY <3>1, <3>2 DEF Promised
  <2>4. ASSUME NEW i \in Attached, NEW j \in FileIdx PROVE ~Promised(Mem(i, j))'
    <3>1. PICK e \in metaFile : e = Mem(i, j)' /\ ~Promised(e)
      BY <1>5, <1>7, <2>1
    <3>2. ~Promised(e)'
      BY <2>2, <3>1
    <3>3. QED
      BY <3>1, <3>2 DEF Promised
  <2>5. QED
    BY <2>3, <2>4
<1>12. FreshOK'
  BY <1>2, <1>8, <1>11 DEF FreshOK
<1>13. EntriesOK'
  <2>1. CASE ~AllMagic
    BY <1>2, <1>10, <1>11, <2>1 DEF EntriesOK, EmptyOK, Good
  <2>2. CASE AllMagic
    <3>1. Whole' => Whole
      BY <1>4, <2>2 DEF Whole
    <3>2. \A e \in metaFile : Good(e) => Good(e)'
      BY <1>1, <1>8, <2>2, MetaGood
    <3>3. ASSUME Whole, NEW d \in Devices, NEW j \in FileIdx PROVE Good(Med(d, j))'
      <4>1. PICK e \in metaFile : e = Med(d, j)' /\ Good(e)
        BY <1>1, <1>2, <1>6, <1>7, <3>3 DEF EntriesOK
      <4>2. Good(e)'
        BY <3>2, <4>1
      <4>3. QED
        BY <4>1, <4>2 DEF Good, Promised
    <3>4. ASSUME Whole, NEW i \in Attached, NEW j \in FileIdx PROVE Good(Mem(i, j))'
      <4>1. PICK e \in metaFile : e = Mem(i, j)' /\ Good(e)
        BY <1>1, <1>2, <1>5, <1>7, <3>4 DEF EntriesOK
      <4>2. Good(e)'
        BY <3>2, <4>1
      <4>3. QED
        BY <4>1, <4>2 DEF Good, Promised
    <3>5. QED
      BY <1>2, <3>1, <3>3, <3>4 DEF EntriesOK
  <2>3. QED
    BY <2>1, <2>2
<1>14. CopyOK'
  <2>1. content' = content /\ copy' = copy
    BY <1>2 DEF metaStep
  <2>2. SUFFICES ASSUME copy # NoCopy
                 PROVE  /\ \A s \in Attached \X FileIdx :
                             CopyOf(s)' => copy.left = 0 .. Length(Entry(s)) - 1
                        /\ \E s \in Attached \X FileIdx : CopyOf(s)' /\ CopyApart(s)'
    BY <1>1, <1>2, <1>5, <2>1 DEF CopyOK, Length
  <2>3. ASSUME NEW s \in Attached \X FileIdx
        PROVE  /\ CopyOf(s)' => CopyOf(s)
               /\ CopyOf(s) => CopyOf(s)'
    <3>1. CASE Whole
      <4>1. Whole' /\ \A lba : Home(lba)' = Home(lba)
        BY <1>8, <1>9, <3>1 DEF Whole
      <4>2. QED
        BY <1>5, <2>1, <3>1, <4>1 DEF CopyOf, Length
    <3>2. CASE ~Whole
      <4>1. CopyOf(s)' => CopyOf(s)
        BY <1>5, <2>1, <3>2 DEF CopyOf, Length
      <4>2. ASSUME CopyOf(s) PROVE CopyOf(s)'
        <5>1. (0 .. Length(Entry(s)) - 1) \ copy.left = {}
          BY <1>1, <1>2, <2>2, <4>2 DEF CopyOK
        <5>2. QED
          BY <1>5, <2>1, <4>2, <5>1 DEF CopyOf, Length
      <4>3. QED
        BY <4>1, <4>2
    <3>3. QED
      BY <3>1, <3>2
  <2>4. PICK s \in Attached \X FileIdx : CopyOf(s) /\ CopyApart(s)
    BY <1>1, <2>2 DEF CopyOK
  <2>5. CopyApart(s)'
    <3>1. s[1] \in Attached /\ s[2] \in FileIdx /\ s = <<s[1], s[2]>>
          /\ Entry(s) = Mem(s[1], s[2])
      BY DEF Entry, Mem
    <3>2. SUFFICES ASSUME NEW i \in Attached, NEW j \in FileIdx
                   PROVE  IF <<i, j>> = s
                          THEN \/ Med(ns[i], j)'.name = NoName
                               \/ /\ Med(ns[i], j)'.name = copy.name
                                  /\ Med(ns[i], j)'.startBlock = copy.first
                          ELSE Compatible(Entry(s), Med(ns[i], j)')
      BY <1>2, <1>5, <2>1, <3>2 DEF CopyApart, Compatible, Disjoint
    <3>3. CASE Med(ns[i], j)' = Med(ns[i], j)
      BY <2>4, <3>3 DEF CopyApart
    <3>4. CASE ns[i] = ns[widx] /\ Med(ns[i], j)' = Mem(widx, j)
      <4>1. i = widx
        BY <1>1, <1>2, <3>4 DEF IInv, NsOK
      <4>2. CASE <<i, j>> = s
        BY <2>4, <3>1, <3>4, <4>1, <4>2 DEF CopyOf
      <4>3. CASE <<i, j>> # s
        BY <1>1, <1>2, <3>1, <3>4, <4>1, <4>3 DEF IInv, MemoryOK
      <4>4. QED
        BY <4>2, <4>3
    <3>5. Med(ns[i], j)' = Med(ns[i], j) \/ (ns[i] = ns[widx] /\ Med(ns[i], j)' = Mem(widx, j))
      <4>1. ns[i] \in Devices /\ ns' = ns
        BY <1>2, <1>7
      <4>2. PICK d \in Devices : d = ns[i]
        BY <4>1
      <4>3. Med(ns[i], j)' = Med(d, j)' /\ Med(ns[i], j) = Med(d, j)
        BY <4>1, <4>2 DEF Med
      <4>4. QED
        BY <1>6, <4>2, <4>3
    <3>6. QED
      BY <3>3, <3>4, <3>5
  <2>6. QED
    BY <1>1, <1>2, <2>2, <2>3, <2>4, <2>5 DEF CopyOK
<1>15. QED
  BY <1>10, <1>12, <1>13, <1>14

LEMMA RmKeeps ==
    ASSUME ContentInv, metaStep, NEW n \in Names, rmFile(n), pc' = "update"
    PROVE  EmptyOK' /\ FreshOK' /\ EntriesOK' /\ CopyOK'
<1>1. /\ TypeInv /\ ContentType /\ CopyOK /\ EmptyOK /\ FreshOK /\ EntriesOK /\ IInv /\ RmOK
  BY IInvType DEF ContentInv, RaidInv, StepInv
<1>2. PICK s \in findFile(n) : delFile(s)
  BY DEF rmFile
<1>3. pc = "run" /\ tool = "rm" /\ media' = media /\ UNCHANGED <<ns, numdisks>>
      /\ Attached' = Attached
  BY <1>2 DEF rmFile, delFile, media_vars, Attached
<1>4. s \in Slots /\ FreeEntry \in metaFile
  BY <1>1, PickedEntry, MadeSectors DEF findFile
<1>5. /\ SetEntry(msector, s, FreeEntry) \in [Idx -> metaSector]
      /\ \A i \in Idx, j \in FileIdx :
           SetEntry(msector, s, FreeEntry)[i].content[j] =
             IF <<i, j>> = s THEN FreeEntry ELSE msector[i].content[j]
  BY <1>1, <1>4, SetEntryFacts DEF TypeInv, TypeOK
<1>6. \A i \in Idx : msector'[i].content = SetEntry(msector, s, FreeEntry)[i].content
  BY <1>2, <1>5, CountFacts DEF delFile
<1>7. (Whole' <=> Whole) /\ (AllMagic' <=> AllMagic)
      /\ (\A lba : Home(lba)' = Home(lba)) /\ \A d, j : Med(d, j)' = Med(d, j)
  BY <1>3, SameDisks
<1>8. ASSUME NEW i \in Attached, NEW j \in FileIdx
      PROVE  /\ ns[i] \in Devices
             /\ \/ Mem(i, j)'.name = NoName
                \/ Mem(i, j)' = Med(ns[i], j)
             /\ Mem(i, j)'.name = NoName => Length(Mem(i, j)') = 0
  <2>1. i \in Idx /\ ns[i] \in Devices
    BY <1>1, EntryTypes
  <2>2. Mem(i, j)' = FreeEntry \/ Mem(i, j)' = Mem(i, j)
    BY <1>5, <1>6, <2>1 DEF Mem
  <2>3. Mem(i, j) = Med(ns[i], j) \/ Mem(i, j).name = NoName
    BY <1>1, <1>3 DEF RmOK
  <2>4. Mem(i, j).name = NoName => Length(Mem(i, j)) = 0
    BY <1>1, <1>3 DEF EmptyOK
  <2>5. FreeEntry.name = NoName /\ Length(FreeEntry) = 0
    BY DEF FreeEntry, Length
  <2>6. CASE Mem(i, j)' = FreeEntry
    BY <2>1, <2>5, <2>6
  <2>7. CASE Mem(i, j)' = Mem(i, j)
    BY <2>1, <2>3, <2>4, <2>7
  <2>8. QED
    BY <2>2, <2>6, <2>7
<1>9. /\ \A d \in Devices, j \in FileIdx :
           Med(d, j)'.name = NoName => Length(Med(d, j))' = 0
      /\ Whole => \A d \in Devices, j \in FileIdx : Good(Med(d, j))'
  BY <1>1, <1>3, MetaLeaves
<1>10. EmptyOK'
  BY <1>3, <1>8, <1>9 DEF EmptyOK, Length
<1>11. EntriesOK'
  <2>1. ASSUME Whole, NEW i \in Attached, NEW j \in FileIdx PROVE Good(Mem(i, j))'
    <3>1. CASE Mem(i, j)'.name = NoName
      BY <1>8, <3>1 DEF Good, Promised, Length
    <3>2. CASE Mem(i, j)' = Med(ns[i], j)
      <4>1. Mem(i, j)' = Med(ns[i], j)' /\ ns[i] \in Devices
        BY <1>3, <1>8, <3>2 DEF Med
      <4>2. Good(Med(ns[i], j))'
        BY <1>3, <1>9, <2>1, <4>1
      <4>3. QED
        BY <4>1, <4>2 DEF Good, Promised, Length
    <3>3. QED
      BY <1>8, <3>1, <3>2
  <2>2. QED
    BY <1>3, <1>7, <1>9, <2>1 DEF EntriesOK
<1>12. FreshOK'
  <2>1. SUFFICES ASSUME ~AllMagic
                 PROVE  /\ \A d \in Devices, j \in FileIdx : ~Promised(Med(d, j))'
                        /\ \A i \in Attached, j \in FileIdx : ~Promised(Mem(i, j))'
    BY <1>3, <1>7 DEF FreshOK
  <2>2. \A d \in Devices, j \in FileIdx : ~Promised(Med(d, j)) /\ versions' = versions
    BY <1>1, <1>3, <2>1 DEF FreshOK, metaStep
  <2>3. \A d \in Devices, j \in FileIdx : ~Promised(Med(d, j))'
    BY <1>7, <2>2 DEF Promised
  <2>4. ASSUME NEW i \in Attached, NEW j \in FileIdx PROVE ~Promised(Mem(i, j))'
    BY <1>8, <2>2 DEF Promised
  <2>5. QED
    BY <2>3, <2>4
<1>13. copy' = NoCopy
  BY <1>1, <1>3 DEF CopyOK, metaStep
<1>14. QED
  BY <1>10, <1>11, <1>12, <1>13 DEF CopyOK

LEMMA MetaKeeps ==
    ASSUME ~MissingAllowed, ~ReadFaults, ContentInv, RaidInv', metaStep
    PROVE  ContentType' /\ EmptyOK' /\ FreshOK' /\ EntriesOK' /\ NoCapture' /\ CopyOK'
<1>1. TypeInv /\ BaseInv /\ IInv /\ IInv' /\ NoCapture /\ ContentType /\ [Next]_vars
  BY IInvType, BaseOf DEF ContentInv, RaidInv, metaStep, Next
<1>2. \/ Elsewhere
      \/ Standing
      \/ formatRaid
      \/ updateRaid
      \/ \E n \in Names : rmFile(n) /\ pc' = "update"
  BY <1>1, MetaShape DEF BaseInv
<1>3. ContentType'
  BY <1>1, MetaVersions
<1>4. EmptyOK' /\ FreshOK' /\ EntriesOK' /\ CopyOK'
  BY <1>2, ElsewhereKeeps, StandingKeeps, FormatKeeps, UpdateKeeps, RmKeeps
<1>5. NoCapture'
  <2>1. tool' # "pcap"
    BY <1>1, ToolOf, ContentAssumption DEF NoCapture
  <2>2. pc' # "pcap"
    BY <1>1, <1>2 DEF NoCapture, Elsewhere, Standing, formatRaid, updateRaid
  <2>3. ret' # "pcap"
    <3>1. CASE pc' = "update"
      BY <1>1, <1>2, <3>1 DEF NoCapture, Elsewhere, Standing, formatRaid, updateRaid, rmFile,
                              Call
    <3>2. CASE pc' # "update"
      BY <1>1, <3>2 DEF IInv, PlaceOK
    <3>3. QED
      BY <3>1, <3>2
  <2>4. QED
    BY <2>1, <2>2, <2>3 DEF NoCapture
<1>6. QED
  BY <1>3, <1>4, <1>5

-----------------------------------------------------------------------------
(* The theorems.                                                           *)

LEMMA ContentInit0 == ContentInit => ContentInv
<1> SUFFICES ASSUME ContentInit
             PROVE  ContentInv
  OBVIOUS
<1>1. Init /\ copy = NoCopy /\ copies = 0
      /\ content = [p \in ContentSectors |-> NoData]
      /\ versions = [n \in Names |-> {Unwritten}]
  BY DEF ContentInit
<1>2. RaidInv /\ NumbersOK
  BY <1>1, IInvInit, StepInit, NumbersInit DEF RaidInv
<1>3. pc = "off" /\ NoCapture
  BY <1>1 DEF Init, NoCapture
<1>4. ContentType /\ CopyOK
  BY <1>1 DEF ContentType, CopyOK, Unwritten
<1>5. \A d \in Devices, j \in FileIdx : Med(d, j) = FreeEntry
  BY <1>1 DEF Init, Med, ZeroSector
<1>6. FreeEntry.name = NoName /\ Length(FreeEntry) = 0 /\ Good(FreeEntry)
  BY DEF Good, Promised, FreeEntry, Length
<1>7. EmptyOK /\ FreshOK /\ EntriesOK
  BY <1>3, <1>5, <1>6 DEF EmptyOK, FreshOK, EntriesOK
<1>8. QED
  BY <1>2, <1>3, <1>4, <1>7 DEF ContentInv

\* What the code relies on: all the disks are there and can be read.  Processes may be
\* killed anywhere, writes of the metadata may be lost, and the raid may be formatted.
LEMMA ContentInvNext ==
    ASSUME ~MissingAllowed, ~ReadFaults, ContentInv, [ContentNext]_<<vars, content_vars>>
    PROVE  ContentInv'
<1>1. /\ IInv /\ StepInv /\ BaseInv /\ NumbersOK /\ MagicOK
  BY BaseOf DEF ContentInv, RaidInv, IInv
<1>2. [Next]_vars
  BY ContentSteps
<1>3. RaidInv'
  BY <1>1, <1>2, IInvNext, StepNext DEF RaidInv
<1>4. NumbersOK'
  BY <1>1, <1>2, NumbersNext
<1>5. ContentType' /\ EmptyOK' /\ FreshOK' /\ EntriesOK' /\ NoCapture' /\ CopyOK'
  <2>1. CASE \E n \in Names, length \in Sizes : beginCopy(n, length)
    BY <1>3, <2>1, BeginKeeps
  <2>2. CASE copy # NoCopy /\ \E b \in copy.left : put(b)
    BY <2>2, PutKeeps
  <2>3. CASE metaStep
    BY <1>3, <2>3, MetaKeeps
  <2>4. CASE UNCHANGED <<vars, content_vars>>
    <3>1. /\ UNCHANGED <<media, ns, msector, numdisks, tool, pc, ret>>
          /\ UNCHANGED <<content, copy, copies, versions>>
      BY <2>4 DEF vars, content_vars
    <3>2. /\ Attached' = Attached /\ (Whole' <=> Whole) /\ (AllMagic' <=> AllMagic)
          /\ \A lba : Home(lba)' = Home(lba)
          /\ \A d, j : Med(d, j)' = Med(d, j) /\ Mem(d, j)' = Mem(d, j)
      BY <3>1, SameDisks DEF Attached, Mem
    <3>3. EmptyOK' /\ FreshOK'
      BY <3>1, <3>2 DEF ContentInv, EmptyOK, FreshOK, Length, Promised
    <3>4. EntriesOK'
      <4>1. \A d, j : (Good(Med(d, j))' <=> Good(Med(d, j))) /\ (Good(Mem(d, j))' <=> Good(Mem(d, j)))
        BY <3>1, <3>2 DEF Good, Length, Promised
      <4>2. QED
        BY <3>1, <3>2, <4>1 DEF ContentInv, EntriesOK
    <3>5. CopyOK'
      BY <3>1, CopyStays DEF ContentInv, CopyOK, Length
    <3>6. QED
      BY <3>1, <3>3, <3>4, <3>5 DEF ContentInv, ContentType, ContentSectors, NoCapture
  <2>5. QED
    BY <2>1, <2>2, <2>3, <2>4 DEF ContentNext
<1>6. QED
  BY <1>3, <1>4, <1>5 DEF ContentInv

\* The tables, the sectors and the copy that runs agree at every step of every
\* process, those that are killed included.
THEOREM ContentInvCorrect ==
    ASSUME ~MissingAllowed, ~ReadFaults
    PROVE  ContentSpec => []ContentInv
<1>1. ContentInv /\ [ContentNext]_<<vars, content_vars>> => ContentInv'
  BY ContentInvNext
<1>2. QED
  BY <1>1, ContentInit0, PTL DEF ContentSpec

\* What a cp out of the raid reads is what a cp into it wrote (cp.c:223-227,
\* 248-274), whatever disks each of them saw first, wherever processes between them
\* were killed and whatever they failed to save.
THEOREM ReadsBackCorrect ==
    ASSUME ~MissingAllowed, ~ReadFaults
    PROVE  ContentSpec => []ReadsBack
<1>1. ContentInv => ReadsBack
  <2>1. SUFFICES ASSUME ContentInv, pc = "run", Numbered, NEW s \in Attached \X FileIdx,
                        Entry(s).name # NoName, Unwritten \notin versions[Entry(s).name],
                        NEW b \in 0 .. Entry(s).endBlock - Entry(s).startBlock - 1
                 PROVE  content[Place(Entry(s).startBlock + b)]
                          \in versions[Entry(s).name] \X {b}
    BY DEF ReadsBack
  <2>2. IInv /\ RmOK /\ NumbersOK /\ EntriesOK /\ FreshOK /\ TypeInv
    BY <2>1, IInvType DEF ContentInv, RaidInv, StepInv
  <2>3. s[1] \in Attached /\ s[2] \in FileIdx /\ Entry(s) = Mem(s[1], s[2])
    BY DEF Entry, Mem
  <2>4. ns[s[1]] \in Devices /\ Entry(s) = Med(ns[s[1]], s[2])
    <3>1. ns[s[1]] \in Devices
      BY <2>2, <2>3, EntryTypes
    <3>2. CASE tool = "rm"
      BY <2>1, <2>2, <2>3, <3>1, <3>2 DEF RmOK
    <3>3. CASE tool # "rm"
      BY <2>1, <2>2, <2>3, <3>1, <3>3, SyncEntries
    <3>4. QED
      BY <3>2, <3>3
  <2>5. PICK e \in metaFile : e = Entry(s)
    BY <2>2, <2>3, <2>4, EntryTypes
  <2>6. Promised(e)
    BY <2>1, <2>5 DEF Promised
  <2>7. Whole
    BY <2>1, <2>2, <2>3, <2>4, <2>5, <2>6 DEF FreshOK, Whole
  <2>8. b \in 0 .. Length(e) - 1 /\ e.startBlock + b \in Nat /\ Good(e)
    BY <2>1, <2>2, <2>3, <2>4, <2>5, <2>7 DEF Length, metaFile, EntriesOK
  <2>9. PICK lba \in Nat : lba = e.startBlock + b
    BY <2>8
  <2>10. PICK p \in Home(lba) : content[p] \in versions[e.name] \X {b}
    BY <2>6, <2>8, <2>9 DEF Good
  <2>11. p = Place(lba)
    BY <2>1, <2>2, <2>3, <2>7, <2>10, PlaceHome
  <2>12. QED
    BY <2>5, <2>9, <2>10, <2>11
<1>2. QED
  BY <1>1, ContentInvCorrect, PTL

\* A block of a copy is written only once the tables on the disks give it to the
\* file (cp.c:203 and 206 before 223 and 227), which no other file can then be given,
\* if the writes of updateRaid succeed.
THEOREM TablesFirst ==
    ASSUME ~MissingAllowed, ~ReadFaults, ~WriteFaults
    PROVE  ContentSpec => TablesBeforeContent
<1> DEFINE Owned(p) == \E c \in LiveCells :
                         /\ OnMedia(c).name = copy.name
                         /\ \E lba \in OnMedia(c).startBlock .. OnMedia(c).endBlock - 1 :
                              Place(lba) = p
           Announced == \A p \in ContentSectors : content'[p] # content[p] => Owned(p)
           Inv == ContentInv /\ SavedOK
<1>1. ContentInit => Inv
  BY ContentInit0 DEF ContentInit, Init, SavedOK
<1>2. Inv /\ [ContentNext]_<<vars, content_vars>> => Inv'
  <2>1. SUFFICES ASSUME Inv, [ContentNext]_<<vars, content_vars>>
                 PROVE  ContentInv' /\ SavedOK'
    OBVIOUS
  <2>2. BaseInv /\ [Next]_vars
    BY <2>1, BaseOf, ContentSteps DEF ContentInv, RaidInv
  <2>3. QED
    BY <2>1, <2>2, ContentInvNext, SavedNext
<1>3. Inv /\ [ContentNext]_<<vars, content_vars>> => Announced
  <2>1. SUFFICES ASSUME Inv, [ContentNext]_<<vars, content_vars>>,
                        NEW p \in ContentSectors, content'[p] # content[p]
                 PROVE  Owned(p)
    OBVIOUS
  <2>2. PICK b \in copy.left : copy # NoCopy /\ put(b)
    BY <2>1 DEF ContentNext, beginCopy, metaStep, content_vars
  <2>3. PICK s \in Attached \X FileIdx, f \in metaFile :
             /\ f = Entry(s) /\ CopyOf(s)
             /\ ns[s[1]] \in Devices
             /\ b \in 0 .. Length(f) - 1
             /\ Place(copy.first + b) \in ContentSectors
             /\ content' = [content EXCEPT ![Place(copy.first + b)] = <<copy.id, b>>]
    BY <2>1, <2>2, PutPlace
  <2>4. p = Place(copy.first + b)
    BY <2>1, <2>3 DEF ContentInv, ContentType
  <2>5. PICK c : c = <<ns[s[1]], s[2]>>
    OBVIOUS
  <2>6. f = Med(ns[s[1]], s[2])
    BY <2>1, <2>2, <2>3 DEF put, SavedOK, Med, Entry
  <2>7. f.name # NoName
    <3>1. f.name = NoName => Length(f) = 0
      BY <2>1, <2>3, <2>6 DEF ContentInv, EmptyOK
    <3>2. ASSUME Length(f) = 0 PROVE FALSE
      BY <2>3, <3>2
    <3>3. QED
      BY <3>1, <3>2
  <2>8. c \in LiveCells /\ OnMedia(c) = f
    BY <2>3, <2>5, <2>6, <2>7 DEF LiveCells, Cells, OnMedia, Med
  <2>9. copy.first + b \in f.startBlock .. f.endBlock - 1 /\ f.name = copy.name
    BY <2>3 DEF CopyOf, Length, metaFile
  <2>10. QED
    BY <2>4, <2>8, <2>9
<1>4. QED
  BY <1>1, <1>2, <1>3, PTL DEF ContentSpec, TablesBeforeContent
=============================================================================

---------------------------- MODULE RaidIOProofs ----------------------------
(***************************************************************************)
(* The transfers of simpleio.c keep their buffers while the disks need     *)
(* them, wait for all their commands, never overfill a queue, write        *)
(* nothing but the file that is copied, and leave nothing of it out: for   *)
(* every number of disks, size of super-sector, file, order of the         *)
(* commands and fault.                                                     *)
(***************************************************************************)
EXTENDS RaidIOInv, StripingProofs, FiniteSetTheorems

LEMMA GigaFacts == GIGASECTORNUM \in Nat \ {0}
  BY SuperSectorAssumption, IOAssumption, SMT DEF GIGASECTORNUM

LEMMA BlocksFacts ==
    ASSUME NEW f \in Files
    PROVE  /\ f.startBlock \in Nat /\ f.whole \in Nat /\ f.rest \in BOOLEAN
           /\ Blocks(f) \in Nat
           /\ f.whole <= Blocks(f)
           /\ f.rest => f.whole + 1 = Blocks(f)
<1>1. f.startBlock \in Nat /\ f.whole \in Nat /\ f.rest \in BOOLEAN
  BY IOAssumption
<1>2. QED
  BY <1>1 DEF Blocks

LEMMA ContentType ==
    ASSUME NEW f \in Files, NEW b \in 0 .. Blocks(f) - 1
    PROVE  Content(f, b) \in Data
  BY DEF Data

LEMMA ChunkFacts ==
    ASSUME TypeOK
    PROVE  Chunk \in Nat /\ Chunk <= todo.count /\ Chunk <= GIGASECTORNUM
<1>1. todo.count \in Nat
  BY DEF TypeOK
<1>2. QED
  BY <1>1, GigaFacts DEF Chunk

LEMMA PieceFacts ==
    ASSUME TypeOK, req.count > 0
    PROVE  /\ Piece \in Nat /\ 0 < Piece /\ Piece <= req.count
           /\ (req.lba % SUPERSECTORNUM) + Piece <= SUPERSECTORNUM
<1>1. req.count \in Nat /\ req.lba \in Nat
  BY DEF TypeOK
<1>2. (req.lba % SUPERSECTORNUM) \in 0 .. SUPERSECTORNUM - 1
  BY <1>1, DivMod, SuperSectorAssumption
<1>3. QED
  BY <1>1, <1>2, SuperSectorAssumption DEF Piece

LEMMA DiskLbaType ==
    ASSUME NEW lba \in Nat
    PROVE  /\ super_getdisk(NumDisks, lba) \in Disks
           /\ super_getdisklba(NumDisks, lba) \in Nat
<1>1. super_getid(lba) \in Nat /\ (lba % SUPERSECTORNUM) \in Nat
  BY DivMod, SuperSectorAssumption DEF super_getid
<1>2. super_getid(lba) \div NumDisks \in Nat
      /\ (super_getid(lba) % NumDisks) \in 0 .. NumDisks - 1
  BY <1>1, DivMod, IOAssumption
<1>3. super_getdisklba(NumDisks, lba) =
        SUPERSECTORNUM * (super_getid(lba) \div NumDisks)
          + (lba % SUPERSECTORNUM) + SUPERSECTORNUM
  BY DiskLba, IOAssumption
<1>4. SUPERSECTORNUM * (super_getid(lba) \div NumDisks) \in Nat
  BY <1>2, SuperSectorAssumption, SMT
<1>5. QED
  BY <1>1, <1>2, <1>3, <1>4, SuperSectorAssumption DEF super_getdisk, Disks

\* The command that sio_rwrite sends next moves blocks of the file, each to the
\* place the striping gives it.
LEMMA NextCommandFacts ==
    ASSUME IOInv, pc = "submit"
    PROVE  /\ NextCommand \in Command
           /\ NextCommand.off + NextCommand.count <= GIGASECTORNUM
           /\ op = "in" =>
                \A i \in 0 .. NextCommand.count - 1 :
                  \E b \in 0 .. Blocks(file) - 1 :
                    /\ Place(file, b) = <<NextCommand.disk, NextCommand.lba + i>>
                    /\ BufferAt(NextCommand, i) = Content(file, b)
<1>1. TypeOK /\ RunOK /\ TodoOK /\ BufferOK /\ ReqOK
  BY DEF IOInv
<1>2. /\ file \in Files /\ op \in {"in", "out"} /\ req.count > 0
      /\ todo.lba = file.startBlock + todo.off
      /\ todo.off + todo.count <= IF op = "in" THEN file.whole ELSE Blocks(file)
  BY <1>1 DEF RunOK, TodoOK, ReqOK
<1>3. /\ req.lba \in Nat /\ req.count \in Nat /\ req.off \in Nat
      /\ req.buf \in {"mem", "padding"}
      /\ todo.lba \in Nat /\ todo.count \in Nat /\ todo.off \in Nat
      /\ task_scheduled \in Nat
  BY <1>1 DEF TypeOK
<1>4. /\ Piece \in Nat /\ 0 < Piece /\ Piece <= req.count
      /\ (req.lba % SUPERSECTORNUM) + Piece <= SUPERSECTORNUM
  BY <1>1, <1>2, PieceFacts
<1>5. /\ NextCommand.id = task_scheduled /\ NextCommand.disk = NextDisk
      /\ NextCommand.lba = super_getdisklba(NumDisks, req.lba)
      /\ NextCommand.count = Piece /\ NextCommand.buf = req.buf /\ NextCommand.off = req.off
  BY DEF NextCommand
<1>6. NextCommand \in Command
  <2>1. NextDisk \in Disks /\ super_getdisklba(NumDisks, req.lba) \in Nat
    BY <1>3, DiskLbaType DEF NextDisk
  <2>2. QED
    BY <1>3, <1>4, <2>1 DEF NextCommand, Command
<1>7. Chunk \in Nat /\ Chunk <= todo.count /\ Chunk <= GIGASECTORNUM
  BY <1>1, ChunkFacts
<1>8. /\ Blocks(file) \in Nat /\ file.whole <= Blocks(file) /\ file.startBlock \in Nat
      /\ file.whole \in Nat
      /\ file.rest => file.whole + 1 = Blocks(file)
  BY <1>2, BlocksFacts
<1>9. NextCommand.off + NextCommand.count <= GIGASECTORNUM
  <2>1. GIGASECTORNUM \in Nat /\ 1 <= GIGASECTORNUM
    BY GigaFacts
  <2>2. req.off + req.count <= Chunk \/ req.off + req.count <= 1
    BY <1>1 DEF ReqOK
  <2>3. req.off + Piece <= GIGASECTORNUM
    BY <1>3, <1>4, <1>7, <2>1, <2>2
  <2>4. QED
    BY <1>5, <2>3
<1>10. ASSUME NEW k \in Nat, k < Piece
       PROVE  Location(NumDisks, req.lba + k) = <<NextCommand.disk, NextCommand.lba + k>>
  <2>1. (req.lba % SUPERSECTORNUM) + k < SUPERSECTORNUM
    <3>1. (req.lba % SUPERSECTORNUM) \in 0 .. SUPERSECTORNUM - 1
      BY <1>3, DivMod, SuperSectorAssumption
    <3>2. QED
      BY <1>4, <1>10, <3>1, SuperSectorAssumption
  <2>2. QED
    BY <1>3, <1>5, <2>1, SuperSectorContiguous, IOAssumption DEF Location, NextDisk
<1>11. ASSUME op = "in", NEW i \in 0 .. NextCommand.count - 1
       PROVE  \E b \in 0 .. Blocks(file) - 1 :
                /\ Place(file, b) = <<NextCommand.disk, NextCommand.lba + i>>
                /\ BufferAt(NextCommand, i) = Content(file, b)
  <2>1. i \in Nat /\ i < Piece
    BY <1>4, <1>5, <1>11
  <2>2. Location(NumDisks, req.lba + i) = <<NextCommand.disk, NextCommand.lba + i>>
    BY <1>10, <2>1
  <2>3. CASE req.buf = "mem"
    <3>1. req.lba = todo.lba + req.off /\ req.off + req.count <= Chunk
      BY <1>1, <2>3 DEF ReqOK
    <3> DEFINE b == todo.off + req.off + i
    <3>2. b \in 0 .. Blocks(file) - 1
      <4>1. todo.off + todo.count <= Blocks(file)
        <5>1. todo.off + todo.count <= file.whole
          BY <1>2, <1>11
        <5>2. QED
          BY <1>3, <1>8, <5>1
      <4>2. req.off + i < todo.count
        BY <1>3, <1>4, <1>7, <2>1, <3>1
      <4>3. QED
        BY <1>3, <1>8, <2>1, <4>1, <4>2
    <3>3. file.startBlock + b = req.lba + i
      BY <1>2, <1>3, <1>8, <2>1, <3>1
    <3>4. mem[req.off + i] = Content(file, b)
      <4>1. req.off + i \in 0 .. Chunk - 1
        BY <1>3, <1>4, <1>7, <2>1, <3>1
      <4>2. mem[req.off + i] = Content(file, todo.off + (req.off + i))
        BY <1>1, <1>11, <2>3, <4>1 DEF BufferOK
      <4>3. todo.off + (req.off + i) = b
        BY <1>3, <2>1
      <4>4. QED
        BY <4>2, <4>3
    <3>5. BufferAt(NextCommand, i) = Content(file, b)
      BY <1>5, <2>3, <3>4 DEF BufferAt
    <3>6. Place(file, b) = <<NextCommand.disk, NextCommand.lba + i>>
      BY <2>2, <3>3 DEF Place
    <3> HIDE DEF b
    <3>7. QED
      BY <3>2, <3>5, <3>6
  <2>4. CASE req.buf = "padding"
    <3>1. /\ req.lba = file.startBlock + file.whole + req.off
          /\ req.off + req.count <= 1
          /\ padding = Content(file, file.whole)
      BY <1>1, <2>4 DEF ReqOK
    <3>1a. file.whole + 1 = Blocks(file)
      BY <1>1, <1>8, <2>4 DEF ReqOK
    <3>2. i = 0 /\ req.off = 0
      BY <1>2, <1>3, <1>4, <2>1, <3>1
    <3>3. file.whole \in 0 .. Blocks(file) - 1
      BY <1>8, <3>1a
    <3>4. Place(file, file.whole) = <<NextCommand.disk, NextCommand.lba + i>>
      <4>1. file.startBlock + file.whole = req.lba + i
        BY <1>3, <1>8, <3>1, <3>2
      <4>2. QED
        BY <1>3, <1>8, <2>1, <2>2, <4>1 DEF Place
    <3>5. BufferAt(NextCommand, i) = Content(file, file.whole)
      <4>1. NextCommand.buf = "padding"
        BY <1>5, <2>4
      <4>2. QED
        BY <3>1, <4>1 DEF BufferAt
    <3>6. QED
      BY <3>3, <3>4, <3>5
  <2>5. QED
    BY <1>3, <2>3, <2>4
<1>12. QED
  BY <1>6, <1>9, <1>11

LEMMA ModFacts ==
    ASSUME NEW x \in Nat, NEW m \in Nat \ {0}
    PROVE  (x % m) \in Nat /\ (x % m) <= x
<1>1. /\ x \div m \in Nat
      /\ (x % m) \in 0 .. m - 1
      /\ x = m * (x \div m) + (x % m)
  BY DivMod
<1>2. m * (x \div m) \in Nat
  BY <1>1, SMT
<1>3. QED
  BY <1>1, <1>2

-----------------------------------------------------------------------------
(* What the steps have in common.                                          *)

\* A step that queues no command and does not touch a buffer in use keeps the
\* commands as they should be.
LEMMA SameBuffers ==
    ASSUME BuffersStable, CommandOK, queue' \subseteq queue, file' = file,
           padding' = padding, mem' = mem \/ op # "in"
    PROVE  BuffersStable'
<1> SUFFICES ASSUME NEW c \in queue', c.write, NEW i \in 0 .. c.count - 1
             PROVE  \E b \in 0 .. Blocks(file) - 1 :
                      /\ Place(file, b) = <<c.disk, c.lba + i>>
                      /\ BufferAt(c, i)' = Content(file, b)
  BY DEF BuffersStable
<1>1. c \in queue /\ op = "in"
  BY DEF CommandOK, InFlight
<1>2. BufferAt(c, i)' = BufferAt(c, i)
  BY <1>1 DEF BufferAt
<1>3. QED
  BY <1>1, <1>2 DEF BuffersStable

LEMMA CommandTypes ==
    ASSUME TypeOK, NEW c \in InFlight
    PROVE  /\ c \in Command
           /\ c.id \in Nat /\ c.disk \in Disks /\ c.lba \in Nat /\ c.count \in Nat
           /\ c.off \in Nat /\ c.buf \in {"mem", "padding"}
<1>1. c \in Command
  BY DEF TypeOK, InFlight
<1>2. QED
  BY <1>1 DEF Command

\* Polling moves the commands that are done from one side of the account to the
\* other.
LEMMA Polled ==
    ASSUME TypeOK, CountersOK, processCompletions, UNCHANGED <<queue, task_scheduled>>
    PROVE  CountersOK' /\ executed' \in SUBSET Command /\ task_completed' \in Nat
<1>1. /\ IsFiniteSet(queue) /\ IsFiniteSet(executed)
      /\ Cardinality(executed) \in Nat /\ Cardinality(queue) \in Nat
  BY FS_CardinalityType DEF CountersOK
<1>2. IsFiniteSet({}) /\ Cardinality({}) = 0
  BY FS_EmptySet
<1>3. executed' = {} /\ task_completed' = task_completed + Cardinality(executed)
  BY DEF processCompletions
<1>4. task_scheduled \in Nat /\ task_completed \in Nat
  BY DEF TypeOK
<1>5. task_scheduled = task_completed' + Cardinality(queue) + 0
  BY <1>1, <1>3, <1>4 DEF CountersOK
<1>6. \A c \in queue : c.id < task_scheduled
  BY DEF CountersOK, InFlight
<1>7. QED
  BY <1>1, <1>2, <1>3, <1>4, <1>5, <1>6 DEF CountersOK, InFlight

\* Nothing is on its way when the counters are equal.
LEMMA NothingLeft ==
    ASSUME TypeOK, CountersOK, task_scheduled <= task_completed
    PROVE  queue = {} /\ executed = {}
<1>1. /\ IsFiniteSet(queue) /\ IsFiniteSet(executed)
      /\ Cardinality(executed) \in Nat /\ Cardinality(queue) \in Nat
  BY FS_CardinalityType DEF CountersOK
<1>2. Cardinality(queue) = 0 /\ Cardinality(executed) = 0
  BY <1>1 DEF CountersOK, TypeOK
<1>3. QED
  BY <1>1, <1>2, FS_EmptySet

-----------------------------------------------------------------------------
(* The steps.                                                              *)

LEMMA InitSafe == Init => IOInv
<1> SUFFICES ASSUME Init PROVE IOInv
  OBVIOUS
<1>1. TypeOK
  BY DEF Init, TypeOK, Data, NoBuffer, NoTransfer, NoRequest
<1>2. CountersOK
  BY FS_EmptySet DEF Init, CountersOK, InFlight
<1>3. QED
  BY <1>1, <1>2 DEF Init, IOInv, RunOK, QuietOK, TodoOK, BufferOK, ReqOK, CommandOK,
     BuffersStable, InFlight

LEMMA EndsSafe ==
    ASSUME IOInv, Ends, faults' \in Nat
    PROVE  IOInv'
<1>1. TypeOK'
  BY DEF IOInv, Ends, TypeOK, Data, NoBuffer, NoTransfer, NoRequest
<1>2. CountersOK'
  BY FS_EmptySet DEF Ends, CountersOK, InFlight
<1>3. QED
  BY <1>1, <1>2 DEF Ends, IOInv, RunOK, QuietOK, TodoOK, BufferOK, ReqOK, CommandOK,
     BuffersStable, InFlight

LEMMA LaunchSafe ==
    ASSUME IOInv, NEW o \in Ops, NEW f \in Files, Launch(o, f)
    PROVE  IOInv'
<1>1. TypeOK /\ queue = {} /\ executed = {}
  BY DEF IOInv, RunOK, InFlight, Launch
<1>2. /\ f.startBlock \in Nat /\ f.whole \in Nat /\ f.rest \in BOOLEAN
      /\ Blocks(f) \in Nat
  BY BlocksFacts
<1> DEFINE all == IF o = "in" THEN f.whole ELSE Blocks(f)
<1>3. all \in Nat /\ (all % Word32) \in Nat /\ (all % Word32) <= all
  BY <1>2, ModFacts, IOAssumption
<1>4. /\ todo' = [lba |-> f.startBlock, count |-> all % Word32, off |-> 0]
      /\ op' = o /\ file' = f
      /\ pc' \in {"pad", "loop"} /\ (pc' = "pad" => o = "in" /\ f.rest)
      /\ UNCHANGED <<disk, queue, executed, task_scheduled, task_completed, mem, padding,
                     req, looped, faults>>
  BY DEF Launch, disk_vars, task_vars
<1>5. todo' \in [lba : Nat, count : Nat, off : Nat]
  BY <1>2, <1>3, <1>4
<1>6. TypeOK'
  BY <1>1, <1>4, <1>5, IOAssumption DEF TypeOK
<1>7. RunOK'
  BY <1>1, <1>4, IOAssumption DEF RunOK, InFlight
<1>8. TodoOK'
  <2>1. /\ todo'.lba = f.startBlock /\ todo'.off = 0 /\ todo'.count = all % Word32
    BY <1>4
  <2>2. todo'.lba = f.startBlock + todo'.off /\ todo'.off + todo'.count <= all
    BY <1>2, <1>3, <2>1
  <2>3. QED
    BY <1>4, <2>2 DEF TodoOK
<1>9. CountersOK' /\ QuietOK' /\ BufferOK' /\ ReqOK' /\ CommandOK' /\ BuffersStable'
  BY <1>1, <1>4 DEF IOInv, CountersOK, QuietOK, BufferOK, ReqOK, CommandOK, BuffersStable,
     InFlight
<1>10. QED
  BY <1>6, <1>7, <1>8, <1>9 DEF IOInv

LEMMA PadSafe ==
    ASSUME IOInv, pad
    PROVE  IOInv'
<1>1. /\ TypeOK /\ queue = {} /\ executed = {} /\ file \in Files /\ op = "in" /\ file.rest
  BY DEF IOInv, RunOK, QuietOK, InFlight, pad
<1>2. /\ padding' = Content(file, file.whole)
      /\ req' = [lba |-> file.startBlock + file.whole, count |-> 1, off |-> 0,
                 buf |-> "padding"]
      /\ looped' = FALSE /\ pc' = "submit"
      /\ UNCHANGED <<disk, queue, executed, task_scheduled, task_completed, mem, out,
                     op, file, todo, faults>>
  BY DEF pad, disk_vars, task_vars, cp_vars
<1>3. /\ file.startBlock \in Nat /\ file.whole \in Nat /\ Blocks(file) \in Nat
      /\ file.whole + 1 = Blocks(file)
  BY <1>1, BlocksFacts
<1>4. padding' \in Data
  <2>1. file.whole \in 0 .. Blocks(file) - 1
    BY <1>3
  <2>2. QED
    BY <1>1, <1>2, <2>1, ContentType
<1>5. req' \in [lba : Nat, count : Nat, off : Nat, buf : {"mem", "padding"}]
  BY <1>2, <1>3
<1>6. TypeOK'
  BY <1>1, <1>2, <1>4, <1>5 DEF TypeOK
<1>7. ReqOK'
  <2>1. /\ req'.count = 1 /\ req'.off = 0 /\ req'.buf = "padding"
        /\ req'.lba = file.startBlock + file.whole
    BY <1>2
  <2>2. /\ req'.count > 0 /\ req'.off + req'.count <= 1
        /\ req'.lba = file.startBlock + file.whole + req'.off
    BY <1>3, <2>1
  <2>3. QED
    BY <1>1, <1>2, <2>1, <2>2 DEF ReqOK
<1>8. TodoOK'
  BY <1>2 DEF IOInv, TodoOK, pad
<1>9. RunOK' /\ CountersOK' /\ QuietOK' /\ BufferOK' /\ CommandOK' /\ BuffersStable'
  BY <1>1, <1>2 DEF IOInv, RunOK, CountersOK, QuietOK, BufferOK, CommandOK, BuffersStable,
     InFlight
<1>10. QED
  BY <1>6, <1>7, <1>8, <1>9 DEF IOInv

LEMMA PinitSafe ==
    ASSUME IOInv, rw_pinit
    PROVE  IOInv'
<1>1. /\ TypeOK /\ RunOK /\ CountersOK /\ QuietOK /\ TodoOK /\ CommandOK /\ BuffersStable
      /\ file \in Files /\ op \in {"in", "out"}
      /\ \A c \in InFlight : c.buf = "padding"
  BY DEF IOInv, RunOK, QuietOK, rw_pinit
<1>2. /\ todo.count > 0
      /\ mem' = IF op = "in"
                THEN [i \in MemIdx |->
                        IF i < Chunk THEN Content(file, todo.off + i) ELSE mem[i]]
                ELSE mem
      /\ req' = [lba |-> todo.lba, count |-> Chunk, off |-> 0, buf |-> "mem"]
      /\ looped' = FALSE /\ pc' = "submit" /\ pc = "loop"
      /\ UNCHANGED <<disk, queue, executed, task_scheduled, task_completed, padding, out,
                     op, file, todo, faults>>
  BY DEF rw_pinit, disk_vars, task_vars, cp_vars
<1>3. /\ Chunk \in Nat /\ Chunk <= todo.count /\ Chunk <= GIGASECTORNUM /\ 0 < Chunk
      /\ todo.lba \in Nat /\ todo.count \in Nat /\ todo.off \in Nat
  <2>1. todo.lba \in Nat /\ todo.count \in Nat /\ todo.off \in Nat
    BY <1>1 DEF TypeOK
  <2>2. Chunk > 0
    BY <1>2, <2>1, GigaFacts DEF Chunk
  <2>3. QED
    BY <1>1, <2>1, <2>2, ChunkFacts
<1>4. Chunk' = Chunk
  BY <1>2 DEF Chunk
<1>5. ASSUME op = "in", NEW i \in 0 .. Chunk - 1
      PROVE  todo.off + i \in 0 .. Blocks(file) - 1
  <2>1. file.whole <= Blocks(file) /\ file.whole \in Nat /\ Blocks(file) \in Nat
    BY <1>1, BlocksFacts
  <2>2. todo.off + todo.count <= file.whole
    BY <1>1, <1>2, <1>5 DEF TodoOK
  <2>3. QED
    BY <1>3, <2>1, <2>2
<1>6. mem' \in [MemIdx -> Data]
  <2>1. mem \in [MemIdx -> Data]
    BY <1>1 DEF TypeOK
  <2>2. CASE op = "in"
    <3>1. ASSUME NEW i \in MemIdx
          PROVE  (IF i < Chunk THEN Content(file, todo.off + i) ELSE mem[i]) \in Data
      <4>1. CASE i < Chunk
        <5>1. i \in 0 .. Chunk - 1
          BY <1>3, <3>1, <4>1, GigaFacts DEF MemIdx
        <5>2. QED
          BY <1>1, <1>5, <2>2, <4>1, <5>1, ContentType
      <4>2. CASE ~ (i < Chunk)
        BY <2>1, <3>1, <4>2
      <4>3. QED
        BY <4>1, <4>2
    <3>2. QED
      BY <1>2, <2>2, <3>1
  <2>3. QED
    BY <1>2, <2>1, <2>2
<1>7. req' \in [lba : Nat, count : Nat, off : Nat, buf : {"mem", "padding"}]
  BY <1>2, <1>3
<1>8. TypeOK'
  BY <1>1, <1>2, <1>6, <1>7 DEF TypeOK
<1>9. BufferOK'
  <2>1. ASSUME op = "in", NEW i \in 0 .. Chunk - 1
        PROVE  mem'[i] = Content(file, todo.off + i)
    <3>1. i \in MemIdx /\ i < Chunk
      BY <1>3, <2>1, GigaFacts DEF MemIdx
    <3>2. QED
      BY <1>2, <2>1, <3>1
  <2>2. QED
    BY <1>2, <1>4, <2>1 DEF BufferOK
<1>10. ReqOK'
  <2>1. /\ req'.count = Chunk /\ req'.off = 0 /\ req'.buf = "mem" /\ req'.lba = todo.lba
    BY <1>2
  <2>2. /\ req'.count > 0 /\ req'.off + req'.count <= Chunk
        /\ req'.lba = todo.lba + req'.off
    BY <1>3, <2>1
  <2>3. QED
    BY <1>2, <1>4, <2>1, <2>2 DEF ReqOK
<1>11. BuffersStable'
  <2> SUFFICES ASSUME NEW c \in queue, c.write, NEW i \in 0 .. c.count - 1
               PROVE  \E b \in 0 .. Blocks(file) - 1 :
                        /\ Place(file, b) = <<c.disk, c.lba + i>>
                        /\ BufferAt(c, i)' = Content(file, b)
    BY <1>2 DEF BuffersStable
  <2>1. BufferAt(c, i)' = BufferAt(c, i)
    BY <1>1, <1>2 DEF BufferAt, InFlight
  <2>2. QED
    BY <1>1, <2>1 DEF BuffersStable
<1>12. req'.buf = "mem"
  BY <1>2
<1>13. RunOK' /\ CountersOK' /\ QuietOK' /\ CommandOK'
  BY <1>1, <1>2, <1>12 DEF RunOK, CountersOK, QuietOK, CommandOK, InFlight
<1>14. TodoOK'
  BY <1>1, <1>2 DEF TodoOK
<1>15. QED
  BY <1>8, <1>9, <1>10, <1>11, <1>13, <1>14 DEF IOInv

LEMMA PinitReturnsSafe ==
    ASSUME IOInv, pinitReturns
    PROVE  IOInv'
<1>1. /\ pc = "loop" /\ pc' = "exit"
      /\ UNCHANGED <<disk, queue, executed, task_scheduled, task_completed, mem, padding,
                     out, op, file, todo, req, looped, faults>>
  BY DEF pinitReturns, disk_vars, task_vars, buf_vars, cp_vars
<1>2. TypeOK'
  BY <1>1 DEF IOInv, TypeOK
<1>3. BuffersStable'
  BY <1>1, SameBuffers DEF IOInv
<1>4. TodoOK'
  BY <1>1 DEF IOInv, TodoOK
<1>5. RunOK' /\ CountersOK' /\ QuietOK' /\ BufferOK' /\ ReqOK' /\ CommandOK'
  BY <1>1 DEF IOInv, RunOK, CountersOK, QuietOK, BufferOK, ReqOK, CommandOK, InFlight
<1>6. QED
  BY <1>2, <1>3, <1>4, <1>5 DEF IOInv

LEMMA SubmitsSafe ==
    ASSUME IOInv, submits
    PROVE  IOInv'
<1>1. /\ TypeOK /\ RunOK /\ CountersOK /\ QuietOK /\ TodoOK /\ BufferOK /\ ReqOK
      /\ CommandOK /\ BuffersStable
  BY DEF IOInv
<1>2. /\ pc = "submit" /\ pc' \in {"submit", "poll"}
      /\ pc' = "submit" => req.count > Piece
      /\ queue' = queue \cup {NextCommand}
      /\ task_scheduled' = task_scheduled + 1
      /\ req' = [req EXCEPT !.lba = @ + Piece, !.count = @ - Piece, !.off = @ + Piece]
      /\ looped' = (looped \/ InLoop)
      /\ UNCHANGED <<disk, executed, task_completed, mem, padding, out, op, file, todo,
                     faults>>
  BY DEF submits, buf_vars, cp_vars
<1>3. /\ file \in Files /\ op \in {"in", "out"} /\ req.count > 0
      /\ Chunk' = Chunk
  BY <1>1, <1>2 DEF RunOK, ReqOK, Chunk
<1>4. /\ req.lba \in Nat /\ req.count \in Nat /\ req.off \in Nat
      /\ req.buf \in {"mem", "padding"}
      /\ todo.lba \in Nat /\ todo.count \in Nat /\ todo.off \in Nat
      /\ task_scheduled \in Nat /\ task_completed \in Nat
      /\ req \in [lba : Nat, count : Nat, off : Nat, buf : {"mem", "padding"}]
  BY <1>1 DEF TypeOK
<1>5. Piece \in Nat /\ 0 < Piece /\ Piece <= req.count
  BY <1>1, <1>3, PieceFacts
<1>6. /\ req'.lba = req.lba + Piece /\ req'.count = req.count - Piece
      /\ req'.off = req.off + Piece /\ req'.buf = req.buf
      /\ req' \in [lba : Nat, count : Nat, off : Nat, buf : {"mem", "padding"}]
  <2>1. req' = [req EXCEPT !.lba = @ + Piece, !.count = @ - Piece, !.off = @ + Piece]
    BY <1>2
  <2>2. /\ req'.lba = req.lba + Piece /\ req'.count = req.count - Piece
        /\ req'.off = req.off + Piece /\ req'.buf = req.buf
    BY <1>4, <2>1
  <2>3. req.lba + Piece \in Nat /\ req.count - Piece \in Nat /\ req.off + Piece \in Nat
    BY <1>4, <1>5
  <2>4. req' \in [lba : Nat, count : Nat, off : Nat, buf : {"mem", "padding"}]
    BY <1>4, <2>1, <2>3
  <2>5. QED
    BY <2>2, <2>4
<1>6a. /\ NextCommand \in Command
       /\ NextCommand.off + NextCommand.count <= GIGASECTORNUM
       /\ op = "in" =>
            \A i \in 0 .. NextCommand.count - 1 :
              \E b \in 0 .. Blocks(file) - 1 :
                /\ Place(file, b) = <<NextCommand.disk, NextCommand.lba + i>>
                /\ BufferAt(NextCommand, i) = Content(file, b)
  <2>1. pc = "submit"
    BY <1>2
  <2>2. QED
    BY <2>1, NextCommandFacts, Zenon
<1>7. PICK n : n = NextCommand
  OBVIOUS
<1>8. /\ queue' = queue \cup {n} /\ n.id = task_scheduled /\ n.buf = req.buf
      /\ n.write = (op = "in")
  BY <1>2, <1>7 DEF NextCommand
<1>8a. /\ n \in Command
       /\ n.off + n.count <= GIGASECTORNUM
       /\ op = "in" =>
            \A i \in 0 .. n.count - 1 :
              \E b \in 0 .. Blocks(file) - 1 :
                /\ Place(file, b) = <<n.disk, n.lba + i>>
                /\ BufferAt(n, i) = Content(file, b)
  BY <1>6a, <1>7, Zenon
<1>9. n \notin InFlight
  BY <1>1, <1>4, <1>8 DEF CountersOK
<1>10. TypeOK'
  <2>1. queue' \subseteq Command /\ task_scheduled' \in Nat
    BY <1>1, <1>4, <1>8, <1>8a, <1>2 DEF TypeOK
  <2>2. looped' \in BOOLEAN
    BY <1>2
  <2>3. pc' \in {"off", "pad", "loop", "submit", "poll", "wait", "exit"}
    BY <1>2
  <2>4. QED
    BY <1>1, <1>2, <1>6, <2>1, <2>2, <2>3 DEF TypeOK
<1>11. CountersOK'
  <2>1. /\ IsFiniteSet(queue) /\ IsFiniteSet(executed)
        /\ Cardinality(queue) \in Nat /\ Cardinality(executed) \in Nat
    BY <1>1, FS_CardinalityType DEF CountersOK
  <2>2. IsFiniteSet(queue') /\ Cardinality(queue') = Cardinality(queue) + 1
    BY <1>8, <1>9, <2>1, FS_AddElement DEF InFlight
  <2>3. queue' \cap executed' = {}
    BY <1>1, <1>2, <1>8, <1>9 DEF CountersOK, InFlight
  <2>4. ASSUME NEW c \in InFlight'
        PROVE  c.id < task_scheduled'
    <3>1. CASE c = n
      BY <1>2, <1>4, <1>8, <3>1
    <3>2. CASE c \in InFlight
      BY <1>1, <1>2, <1>4, <3>2, CommandTypes DEF CountersOK
    <3>3. QED
      BY <1>2, <1>8, <2>4, <3>1, <3>2 DEF InFlight
  <2>5. task_scheduled = task_completed + Cardinality(queue) + Cardinality(executed)
    BY <1>1 DEF CountersOK
  <2>6. task_scheduled' = task_completed' + Cardinality(queue') + Cardinality(executed')
    BY <1>2, <1>4, <2>1, <2>2, <2>5
  <2>7. QED
    BY <1>2, <2>1, <2>2, <2>3, <2>4, <2>6 DEF CountersOK
<1>12. ReqOK'
  <2>1. pc' = "submit" => req'.count > 0
    BY <1>2, <1>4, <1>5, <1>6
  <2>2. CASE req.buf = "mem"
    <3>1. req.lba = todo.lba + req.off /\ req.off + req.count <= Chunk
      BY <1>1, <1>2, <2>2 DEF ReqOK
    <3>2. Chunk \in Nat
      BY <1>1, ChunkFacts
    <3>3. req'.lba = todo.lba + req'.off /\ req'.off + req'.count <= Chunk
      BY <1>4, <1>5, <1>6, <3>1, <3>2
    <3>4. QED
      BY <1>2, <1>3, <1>6, <2>1, <2>2, <3>3 DEF ReqOK
  <2>3. CASE req.buf = "padding"
    <3>1. /\ req.lba = file.startBlock + file.whole + req.off
          /\ req.off + req.count <= 1
      BY <1>1, <1>2, <2>3 DEF ReqOK
    <3>2. op = "in" /\ file.rest /\ padding = Content(file, file.whole)
      BY <1>1, <1>2, <2>3 DEF ReqOK
    <3>3. file.startBlock \in Nat /\ file.whole \in Nat
      BY <1>3, BlocksFacts
    <3>4. /\ req'.lba = file.startBlock + file.whole + req'.off
          /\ req'.off + req'.count <= 1
      BY <1>4, <1>5, <1>6, <3>1, <3>3
    <3>5. QED
      BY <1>2, <1>6, <2>1, <2>3, <3>2, <3>4 DEF ReqOK
  <2>4. QED
    BY <1>4, <2>2, <2>3
<1>13. BuffersStable'
  <2> SUFFICES ASSUME NEW c \in queue', c.write, NEW i \in 0 .. c.count - 1
               PROVE  \E b \in 0 .. Blocks(file) - 1 :
                        /\ Place(file, b) = <<c.disk, c.lba + i>>
                        /\ BufferAt(c, i) = Content(file, b)
    BY <1>2 DEF BuffersStable, BufferAt
  <2>1. CASE c = n
    BY <1>8, <1>8a, <2>1
  <2>2. CASE c \in queue
    BY <1>1, <2>2 DEF BuffersStable
  <2>3. QED
    BY <1>8, <2>1, <2>2
<1>14. CommandOK'
  <2> SUFFICES ASSUME NEW c \in InFlight'
               PROVE  /\ c.write <=> op = "in"
                      /\ c.off + c.count <= GIGASECTORNUM
    BY <1>2 DEF CommandOK
  <2>1. CASE c = n
    BY <1>8, <1>8a, <2>1
  <2>2. CASE c \in InFlight
    BY <1>1, <2>2 DEF CommandOK
  <2>3. QED
    BY <1>2, <1>8, <2>1, <2>2 DEF InFlight
<1>15. QuietOK'
  <2>1. ASSUME req'.buf = "padding", NEW c \in InFlight'
        PROVE  c.buf = "padding"
    <3>1. CASE c = n
      BY <1>6, <1>8, <2>1, <3>1
    <3>2. CASE c \in InFlight
      BY <1>1, <1>2, <1>6, <2>1, <3>2 DEF QuietOK
    <3>3. QED
      BY <1>2, <1>8, <2>1, <3>1, <3>2 DEF InFlight
  <2>2. QED
    BY <1>2, <2>1 DEF QuietOK
<1>16. RunOK' /\ BufferOK'
  BY <1>1, <1>2, <1>3, <1>6 DEF RunOK, BufferOK
<1>17. TodoOK'
  BY <1>1, <1>2 DEF TodoOK
<1>18. QED
  BY <1>10, <1>11, <1>12, <1>13, <1>14, <1>15, <1>16, <1>17 DEF IOInv

LEMMA SubmitFailsSafe ==
    ASSUME IOInv, submitFails
    PROVE  IOInv'
<1>1. /\ TypeOK /\ RunOK /\ CountersOK /\ QuietOK /\ TodoOK /\ BufferOK /\ ReqOK
      /\ CommandOK /\ BuffersStable
  BY DEF IOInv
<1>2. /\ pc = "submit" /\ pc' \in {"poll", "loop", "wait", "exit"}
      /\ pc' = "loop" => req.buf = "padding"
      /\ pc' = "wait" => req.buf # "padding"
      /\ faults' = faults + 1
      /\ req' = [req EXCEPT !.count = 0]
      /\ UNCHANGED <<disk, queue, executed, task_scheduled, task_completed, mem, padding,
                     out, op, file, todo, looped>>
  BY DEF submitFails, AfterCall, disk_vars, task_vars, buf_vars, cp_vars
<1>3. /\ req.lba \in Nat /\ req.count \in Nat /\ req.off \in Nat
      /\ req.buf \in {"mem", "padding"}
      /\ req \in [lba : Nat, count : Nat, off : Nat, buf : {"mem", "padding"}]
  BY <1>1 DEF TypeOK
<1>4. /\ req'.lba = req.lba /\ req'.count = 0 /\ req'.off = req.off /\ req'.buf = req.buf
      /\ req' \in [lba : Nat, count : Nat, off : Nat, buf : {"mem", "padding"}]
  BY <1>2, <1>3
<1>5. TypeOK'
  <2>1. faults' \in Nat
    BY <1>1, <1>2 DEF TypeOK
  <2>2. QED
    BY <1>1, <1>2, <1>4, <2>1 DEF TypeOK
<1>6. ReqOK'
  <2>1. Chunk' = Chunk /\ Chunk \in Nat
    BY <1>1, <1>2, ChunkFacts DEF Chunk
  <2>2. CASE req.buf = "mem"
    <3>1. req.lba = todo.lba + req.off /\ req.off + req.count <= Chunk
      BY <1>1, <1>2, <2>2 DEF ReqOK
    <3>2. req'.lba = todo.lba + req'.off /\ req'.off + req'.count <= Chunk
      BY <1>3, <1>4, <2>1, <3>1
    <3>3. QED
      BY <1>2, <1>4, <2>1, <2>2, <3>2 DEF ReqOK
  <2>3. CASE req.buf = "padding"
    <3>1. /\ req.lba = file.startBlock + file.whole + req.off
          /\ req.off + req.count <= 1
      BY <1>1, <1>2, <2>3 DEF ReqOK
    <3>2. op = "in" /\ file.rest /\ padding = Content(file, file.whole)
      BY <1>1, <1>2, <2>3 DEF ReqOK
    <3>3. /\ req'.lba = file.startBlock + file.whole + req'.off
          /\ req'.off + req'.count <= 1
      BY <1>3, <1>4, <3>1
    <3>4. QED
      BY <1>2, <1>4, <2>3, <3>2, <3>3 DEF ReqOK
  <2>4. QED
    BY <1>3, <2>2, <2>3
<1>7. BuffersStable'
  BY <1>1, <1>2, SameBuffers
<1>8. CountersOK'
  BY <1>1, <1>2 DEF CountersOK, InFlight
<1>9. TodoOK'
  BY <1>1, <1>2 DEF TodoOK
<1>10. RunOK' /\ QuietOK' /\ CommandOK'
  BY <1>1, <1>2, <1>4 DEF RunOK, QuietOK, CommandOK, InFlight
<1>11. BufferOK'
  BY <1>1, <1>2, <1>3, <1>4 DEF BufferOK, Chunk
<1>12. QED
  BY <1>5, <1>6, <1>7, <1>8, <1>9, <1>10, <1>11 DEF IOInv

LEMMA PollSafe ==
    ASSUME IOInv, poll
    PROVE  IOInv'
<1>1. /\ TypeOK /\ RunOK /\ CountersOK /\ QuietOK /\ TodoOK /\ BufferOK /\ ReqOK
      /\ CommandOK /\ BuffersStable
  BY DEF IOInv
<1>2. /\ pc = "poll" /\ pc' \in {"submit", "loop", "wait"}
      /\ pc' = "loop" => req.buf = "padding"
      /\ pc' = "wait" => req.buf # "padding"
      /\ pc' = "submit" => req.count > 0
      /\ executed' = {}
      /\ UNCHANGED <<disk, queue, task_scheduled, mem, padding, out, op, file, todo, req,
                     looped, faults>>
  BY DEF poll, processCompletions, AfterCall, buf_vars, cp_vars
<1>3. CountersOK' /\ executed' \in SUBSET Command /\ task_completed' \in Nat
  BY <1>1, <1>2, Polled DEF poll
<1>4. req.buf \in {"mem", "padding"}
  BY <1>1 DEF TypeOK
<1>5. TypeOK'
  BY <1>1, <1>2, <1>3 DEF TypeOK
<1>6. BuffersStable'
  BY <1>1, <1>2, SameBuffers
<1>7. TodoOK'
  BY <1>1, <1>2 DEF TodoOK
<1>8. RunOK' /\ QuietOK' /\ CommandOK'
  BY <1>1, <1>2 DEF RunOK, QuietOK, CommandOK, InFlight
<1>9. BufferOK'
  BY <1>1, <1>2, <1>4 DEF BufferOK, Chunk
<1>10. ReqOK'
  BY <1>1, <1>2 DEF ReqOK, Chunk
<1>11. QED
  BY <1>3, <1>5, <1>6, <1>7, <1>8, <1>9, <1>10 DEF IOInv

LEMMA WaittasksSafe ==
    ASSUME IOInv, sio_waittasks
    PROVE  IOInv'
<1>1. /\ TypeOK /\ RunOK /\ CountersOK /\ QuietOK /\ TodoOK /\ BufferOK /\ ReqOK
      /\ CommandOK /\ BuffersStable
  BY DEF IOInv
<1>2. /\ pc = "wait" /\ executed' = {}
      /\ UNCHANGED <<disk, queue, task_scheduled, mem, padding, out, op, file, pc, todo,
                     req, looped, faults>>
  BY DEF sio_waittasks, processCompletions, buf_vars, cp_vars
<1>3. CountersOK' /\ executed' \in SUBSET Command /\ task_completed' \in Nat
  BY <1>1, <1>2, Polled DEF sio_waittasks
<1>4. TypeOK'
  BY <1>1, <1>2, <1>3 DEF TypeOK
<1>5. BuffersStable'
  BY <1>1, <1>2, SameBuffers
<1>6. TodoOK'
  BY <1>1, <1>2 DEF TodoOK
<1>7. RunOK' /\ QuietOK' /\ CommandOK'
  BY <1>1, <1>2 DEF RunOK, QuietOK, CommandOK, InFlight
<1>8. BufferOK' /\ ReqOK'
  BY <1>1, <1>2 DEF BufferOK, ReqOK, Chunk
<1>9. QED
  BY <1>3, <1>4, <1>5, <1>6, <1>7, <1>8 DEF IOInv

LEMMA ChunkDoneSafe ==
    ASSUME IOInv, chunkDone
    PROVE  IOInv'
<1>1. /\ TypeOK /\ RunOK /\ CountersOK /\ QuietOK /\ TodoOK /\ CommandOK
      /\ BuffersStable
  BY DEF IOInv
<1>2. /\ pc = "wait" /\ pc' = "loop"
      /\ UNCHANGED <<disk, queue, executed, task_scheduled, task_completed, mem, padding,
                     op, file, req, looped, faults>>
  BY DEF chunkDone, disk_vars, task_vars, cp_vars
<1>3. queue = {} /\ executed = {}
  BY <1>1, NothingLeft DEF chunkDone
<1>4. todo' = [lba |-> todo.lba + Chunk, count |-> todo.count - Chunk,
               off |-> todo.off + Chunk]
  BY DEF chunkDone
<1>5. /\ todo.lba \in Nat /\ todo.count \in Nat /\ todo.off \in Nat
      /\ Chunk \in Nat /\ Chunk <= todo.count
  BY <1>1, ChunkFacts DEF TypeOK
<1>6. /\ todo'.lba = todo.lba + Chunk /\ todo'.count = todo.count - Chunk
      /\ todo'.off = todo.off + Chunk
      /\ todo' \in [lba : Nat, count : Nat, off : Nat]
  BY <1>4, <1>5
<1>7. TypeOK'
  BY <1>1, <1>2, <1>6 DEF TypeOK
<1>8. TodoOK'
  <2>1. file \in Files
    BY <1>1, <1>2 DEF RunOK
  <2>2. file.startBlock \in Nat /\ file.whole \in Nat /\ Blocks(file) \in Nat
    BY <2>1, BlocksFacts
  <2> DEFINE all == IF op = "in" THEN file.whole ELSE Blocks(file)
  <2>3. todo.lba = file.startBlock + todo.off /\ todo.off + todo.count <= all
    BY <1>1, <1>2 DEF TodoOK
  <2>4. all \in Nat
    BY <2>2
  <2> HIDE DEF all
  <2>5. todo'.lba = file.startBlock + todo'.off /\ todo'.off + todo'.count <= all
    BY <1>5, <1>6, <2>2, <2>3, <2>4
  <2>6. all' = all
    BY <1>2 DEF all, Blocks
  <2>7. QED
    BY <1>2, <2>5 DEF TodoOK, all
<1>9. RunOK' /\ CountersOK' /\ QuietOK' /\ BufferOK' /\ ReqOK' /\ CommandOK'
      /\ BuffersStable'
  BY <1>1, <1>2, <1>3 DEF RunOK, CountersOK, QuietOK, BufferOK, ReqOK, CommandOK,
     BuffersStable, InFlight
<1>10. QED
  BY <1>7, <1>8, <1>9 DEF IOInv

LEMMA ExecuteSafe ==
    ASSUME IOInv, NEW c \in queue, Execute(c)
    PROVE  IOInv'
<1>1. /\ TypeOK /\ RunOK /\ CountersOK /\ QuietOK /\ TodoOK /\ BufferOK /\ ReqOK
      /\ CommandOK /\ BuffersStable
  BY DEF IOInv
<1>2. /\ queue' = queue \ {c} /\ executed' = executed \cup {c}
      /\ UNCHANGED <<task_scheduled, task_completed, padding, out, op, file, pc, todo,
                     req, looped>>
      /\ faults' = faults \/ faults' = faults + 1
  BY DEF Execute, Transfer, TransferError, task_vars, cp_vars
<1>3. /\ c \in Command /\ c.disk \in Disks /\ c.lba \in Nat /\ c.count \in Nat
      /\ c.off \in Nat /\ c.buf \in {"mem", "padding"}
      /\ c.off + c.count <= GIGASECTORNUM
      /\ c.write <=> op = "in"
  BY <1>1, CommandTypes DEF InFlight, CommandOK
<1>4. InFlight' = InFlight
  BY <1>2 DEF InFlight
<1>5. mem' = mem \/ op # "in"
  BY <1>3 DEF Execute, Transfer, TransferError
<1>6. disk' \in [Sectors -> Data] /\ mem' \in [MemIdx -> Data]
  <2>1. disk \in [Sectors -> Data] /\ mem \in [MemIdx -> Data] /\ padding \in Data
    BY <1>1 DEF TypeOK
  <2>2. CASE TransferError(c)
    BY <2>1, <2>2 DEF TransferError
  <2>3. CASE Transfer(c) /\ c.write
    <3>1. ASSUME NEW p \in Sectors
          PROVE  (IF p[1] = c.disk /\ p[2] \in c.lba .. c.lba + c.count - 1
                  THEN BufferAt(c, p[2] - c.lba) ELSE disk[p]) \in Data
      <4>1. CASE p[1] = c.disk /\ p[2] \in c.lba .. c.lba + c.count - 1
        <5>1. p[2] - c.lba \in Nat /\ p[2] - c.lba < c.count
          BY <1>3, <4>1
        <5>2. c.off + (p[2] - c.lba) \in MemIdx
          BY <1>3, <5>1, GigaFacts DEF MemIdx
        <5>3. BufferAt(c, p[2] - c.lba) \in Data
          BY <2>1, <5>2 DEF BufferAt
        <5>4. QED
          BY <4>1, <5>3
      <4>2. CASE ~ (p[1] = c.disk /\ p[2] \in c.lba .. c.lba + c.count - 1)
        BY <2>1, <4>2
      <4>3. QED
        BY <4>1, <4>2
    <3>2. /\ mem' = mem
          /\ disk' = [p \in Sectors |->
                        IF p[1] = c.disk /\ p[2] \in c.lba .. c.lba + c.count - 1
                        THEN BufferAt(c, p[2] - c.lba) ELSE disk[p]]
      BY <2>3 DEF Transfer
    <3>3. QED
      BY <2>1, <3>1, <3>2
  <2>4. CASE Transfer(c) /\ ~ c.write
    <3>1. ASSUME NEW i \in MemIdx
          PROVE  (IF i \in c.off .. c.off + c.count - 1
                  THEN disk[<<c.disk, c.lba + i - c.off>>] ELSE mem[i]) \in Data
      <4>1. CASE i \in c.off .. c.off + c.count - 1
        <5>1. c.lba + c.count <= DiskSectors[c.disk] /\ DiskSectors[c.disk] \in Nat
          BY <1>3, <2>4, IOAssumption DEF Transfer, Disks
        <5>2. c.lba + i - c.off \in 0 .. DiskSectors[c.disk] - 1
          BY <1>3, <4>1, <5>1
        <5>3. <<c.disk, c.lba + i - c.off>> \in {c.disk} \X (0 .. DiskSectors[c.disk] - 1)
          BY <5>2
        <5>4. <<c.disk, c.lba + i - c.off>> \in Sectors
          BY <1>3, <5>3 DEF Sectors
        <5>5. QED
          BY <2>1, <4>1, <5>4
      <4>2. CASE ~ (i \in c.off .. c.off + c.count - 1)
        BY <2>1, <4>2
      <4>3. QED
        BY <4>1, <4>2
    <3>2. /\ disk' = disk
          /\ mem' = [i \in MemIdx |->
                       IF i \in c.off .. c.off + c.count - 1
                       THEN disk[<<c.disk, c.lba + i - c.off>>] ELSE mem[i]]
      BY <2>4 DEF Transfer
    <3>3. QED
      BY <2>1, <3>1, <3>2
  <2>5. QED
    BY <2>2, <2>3, <2>4 DEF Execute
<1>7. TypeOK'
  <2>1. queue' \subseteq Command /\ executed' \subseteq Command
    BY <1>1, <1>2, <1>3 DEF TypeOK
  <2>2. faults' \in Nat
    BY <1>1, <1>2 DEF TypeOK
  <2>3. QED
    BY <1>1, <1>2, <1>6, <2>1, <2>2 DEF TypeOK
<1>8. CountersOK'
  <2>1. /\ IsFiniteSet(queue) /\ IsFiniteSet(executed)
        /\ Cardinality(queue) \in Nat /\ Cardinality(executed) \in Nat
    BY <1>1, FS_CardinalityType DEF CountersOK
  <2>2. c \notin executed /\ queue' \cap executed' = {}
    BY <1>1, <1>2 DEF CountersOK
  <2>3. IsFiniteSet(queue') /\ Cardinality(queue') = Cardinality(queue) - 1
    BY <1>2, <2>1, FS_RemoveElement
  <2>4. IsFiniteSet(executed') /\ Cardinality(executed') = Cardinality(executed) + 1
    BY <1>2, <2>1, <2>2, FS_AddElement
  <2>5. task_scheduled = task_completed + Cardinality(queue) + Cardinality(executed)
        /\ task_completed \in Nat
    BY <1>1 DEF CountersOK, TypeOK
  <2>6. task_scheduled' = task_completed' + Cardinality(queue') + Cardinality(executed')
    BY <1>2, <2>1, <2>3, <2>4, <2>5
  <2>7. \A x \in InFlight' : x.id < task_scheduled'
    BY <1>1, <1>2, <1>4 DEF CountersOK
  <2>8. QED
    BY <2>2, <2>3, <2>4, <2>6, <2>7 DEF CountersOK
<1>9. BuffersStable'
  BY <1>1, <1>2, <1>5, SameBuffers
<1>10. RunOK'
  <2>1. pc # "off"
    BY <1>1 DEF RunOK, InFlight
  <2>2. QED
    BY <1>1, <1>2, <2>1 DEF RunOK
<1>11. QuietOK'
  BY <1>1, <1>2, <1>4 DEF QuietOK
<1>12. CommandOK'
  BY <1>1, <1>2, <1>4 DEF CommandOK
<1>13. TodoOK'
  BY <1>1, <1>2 DEF TodoOK
<1>14. ReqOK'
  BY <1>1, <1>2 DEF ReqOK, Chunk
<1>15. BufferOK'
  BY <1>1, <1>2, <1>5 DEF BufferOK, Chunk
<1>16. QED
  BY <1>7, <1>8, <1>9, <1>10, <1>11, <1>12, <1>13, <1>14, <1>15 DEF IOInv

LEMMA StutterSafe ==
    ASSUME IOInv, UNCHANGED vars
    PROVE  IOInv'
<1>1. UNCHANGED <<disk, queue, executed, task_scheduled, task_completed, mem, padding,
                  op, file, pc, todo, req, faults, looped>>
  BY DEF vars
<1>2. TypeOK' /\ RunOK' /\ CountersOK'
  BY <1>1 DEF IOInv, TypeOK, RunOK, CountersOK, InFlight
<1>3. QuietOK' /\ BufferOK' /\ CommandOK'
  BY <1>1 DEF IOInv, QuietOK, BufferOK, CommandOK, InFlight, Chunk
<1>4. TodoOK'
  BY <1>1 DEF IOInv, TodoOK
<1>5. ReqOK'
  BY <1>1 DEF IOInv, ReqOK, Chunk
<1>6. BuffersStable'
  BY <1>1, SameBuffers DEF IOInv
<1>7. QED
  BY <1>2, <1>3, <1>4, <1>5, <1>6 DEF IOInv

LEMMA IOInvStep ==
    ASSUME IOInv, [Next]_vars
    PROVE  IOInv'
<1>1. CASE pad
  BY <1>1, PadSafe
<1>2. CASE rw_pinit
  BY <1>2, PinitSafe
<1>3. CASE pinitReturns
  BY <1>3, PinitReturnsSafe
<1>4. CASE submits
  BY <1>4, SubmitsSafe
<1>5. CASE submitFails
  BY <1>5, SubmitFailsSafe
<1>6. CASE poll
  BY <1>6, PollSafe
<1>7. CASE sio_waittasks
  BY <1>7, WaittasksSafe
<1>8. CASE chunkDone
  BY <1>8, ChunkDoneSafe
<1>9. CASE mainReturns
  <2>1. Ends /\ faults' = faults
    BY <1>9 DEF mainReturns
  <2>2. faults' \in Nat
    BY <2>1 DEF IOInv, TypeOK
  <2>3. QED
    BY <2>1, <2>2, EndsSafe
<1>10. CASE Crash
  <2>1. Ends /\ faults' = faults + 1
    BY <1>10 DEF Crash
  <2>2. faults' \in Nat
    BY <2>1 DEF IOInv, TypeOK
  <2>3. QED
    BY <2>1, <2>2, EndsSafe
<1>11. CASE Device
  BY <1>11, ExecuteSafe DEF Device
<1>12. CASE \E o \in Ops, f \in Files : Launch(o, f)
  BY <1>12, LaunchSafe
<1>13. CASE UNCHANGED vars
  BY <1>13, StutterSafe
<1>14. QED
  BY <1>1, <1>2, <1>3, <1>4, <1>5, <1>6, <1>7, <1>8, <1>9, <1>10, <1>11, <1>12, <1>13
     DEF Next, Step

-----------------------------------------------------------------------------
(* The theorems.                                                           *)

\* The invariant holds in every state of every behaviour of simpleio.c and cp.
LEMMA IOInductive == Spec => []IOInv
<1>1. Init => IOInv
  BY InitSafe
<1>2. IOInv /\ [Next]_vars => IOInv'
  BY IOInvStep
<1>3. QED
  BY <1>1, <1>2, PTL DEF Spec

\* The variables of simpleio.c keep their types, whatever is refused or fails.
THEOREM IOTypeCorrect == Spec => []TypeOK
<1>1. IOInv => TypeOK
  BY DEF IOInv
<1>2. QED
  BY <1>1, IOInductive, PTL

\* A buffer of simpleio.c (lines 306 and 318) is not filled anew while a disk may
\* still take data from it, for any number of disks, size of super-sector and file.
THEOREM BuffersStableCorrect == Spec => []BuffersStable
<1>1. IOInv => BuffersStable
  BY DEF IOInv
<1>2. QED
  BY <1>1, IOInductive, PTL

\* When sio_waittasks (simpleio.c:330) returns, all the commands are done.
THEOREM WaitsForAllCorrect == Spec => WaitsForAll
<1>1. IOInv /\ [Next]_vars => [pc = "wait" /\ pc' = "loop" => queue = {} /\ executed = {}]_vars
  <2> SUFFICES ASSUME IOInv, Next, pc = "wait", pc' = "loop"
               PROVE  queue = {} /\ executed = {}
    OBVIOUS
  <2>1. chunkDone
    BY DEF Next, Step, pad, rw_pinit, pinitReturns, submits, submitFails, poll,
       sio_waittasks, mainReturns, Ends, Crash, Device, Execute, Launch
  <2>2. QED
    BY <2>1, NothingLeft DEF IOInv, chunkDone
<1>2. QED
  BY <1>1, IOInductive, PTL DEF Spec, WaitsForAll

\* What a command leaves on the disk is what belongs there.
LEMMA ExecutePuts ==
    ASSUME IOInv, NEW c \in queue, Execute(c)
    PROVE  Store!Put \/ UNCHANGED <<disk, file>>
<1>1. /\ file \in Files /\ file # NoFile /\ file' = file
      /\ disk \in [Sectors -> Data]
      /\ c.lba \in Nat /\ c.count \in Nat
  <2>1. pc # "off"
    BY DEF IOInv, RunOK, InFlight
  <2>2. c.lba \in Nat /\ c.count \in Nat
    BY CommandTypes DEF IOInv, InFlight
  <2>3. QED
    BY <2>1, <2>2, IOAssumption DEF IOInv, RunOK, TypeOK, Execute, cp_vars
<1>2. CASE TransferError(c)
  BY <1>1, <1>2 DEF TransferError
<1>3. CASE Transfer(c) /\ ~ c.write
  BY <1>1, <1>3 DEF Transfer
<1>4. CASE Transfer(c) /\ c.write
  <2>1. disk' = [p \in Sectors |->
                   IF p[1] = c.disk /\ p[2] \in c.lba .. c.lba + c.count - 1
                   THEN BufferAt(c, p[2] - c.lba) ELSE disk[p]]
    BY <1>4 DEF Transfer
  <2>2. DOMAIN disk = Sectors /\ DOMAIN disk' = Sectors
    BY <1>1, <2>1
  <2>3. ASSUME NEW p \in Sectors, disk'[p] # disk[p]
        PROVE  p \in DOMAIN Wanted(file) /\ disk'[p] = Wanted(file)[p]
    <3>1. /\ p[1] = c.disk /\ p[2] \in c.lba .. c.lba + c.count - 1
          /\ disk'[p] = BufferAt(c, p[2] - c.lba)
      BY <2>1, <2>3
    <3>2. p[2] \in Int /\ p = <<p[1], p[2]>>
      BY <3>1 DEF Sectors
    <3>3. p[2] - c.lba \in 0 .. c.count - 1 /\ c.lba + (p[2] - c.lba) = p[2]
      BY <1>1, <3>1, <3>2
    <3>4. PICK b \in 0 .. Blocks(file) - 1 :
            /\ Place(file, b) = <<c.disk, c.lba + (p[2] - c.lba)>>
            /\ BufferAt(c, p[2] - c.lba) = Content(file, b)
      BY <1>4, <3>3 DEF IOInv, BuffersStable
    <3>5. Place(file, b) = p
      BY <3>1, <3>2, <3>3, <3>4
    <3>6. ASSUME NEW x \in 0 .. Blocks(file) - 1, Place(file, x) = p
          PROVE  x = b
      <4>1. file.startBlock \in Nat /\ Blocks(file) \in Nat
        BY <1>1, BlocksFacts
      <4>2. file.startBlock + x \in Nat /\ file.startBlock + b \in Nat
        BY <3>4, <3>6, <4>1
      <4>3. file.startBlock + x = file.startBlock + b
        BY <3>5, <3>6, <4>2, LocationInjective, IOAssumption DEF Place
      <4>4. QED
        BY <3>4, <3>6, <4>1, <4>3
    <3>7. (CHOOSE x \in 0 .. Blocks(file) - 1 : Place(file, x) = p) = b
      BY <3>5, <3>6
    <3>8. p \in SectorsOf(file)
      BY <3>5 DEF SectorsOf
    <3>9. Wanted(file)[p] = Content(file, b)
      BY <3>7, <3>8 DEF Wanted
    <3>10. QED
      BY <3>1, <3>4, <3>8, <3>9 DEF Wanted
  <2>4. QED
    BY <1>1, <2>2, <2>3 DEF Store!Put
<1>5. QED
  BY <1>2, <1>3, <1>4 DEF Execute

\* Whatever the order of the commands, whatever fails and wherever the process is
\* killed, copying writes the sectors of its file and no others, each with its own
\* block (simpleio.c:127-320 and cp.c:212-274).
THEOREM BlockStoreCorrect == Spec => ImplementsBlockStore
<1>1. Init => file = NoFile
  BY DEF Init
<1>2. ASSUME IOInv, Next
      PROVE  Store!Next \/ UNCHANGED <<disk, file>>
  <2>1. CASE Device
    BY <1>2, <2>1, ExecutePuts DEF Device, Store!Next
  <2>2. CASE \E o \in Ops, f \in Files : Launch(o, f)
    BY <1>2, <2>2 DEF IOInv, RunOK, Launch, disk_vars, Store!Next, Store!Begin
  <2>3. CASE mainReturns \/ Crash
    BY <2>3 DEF mainReturns, Crash, Ends, Store!Next, Store!End
  <2>4. ASSUME Step, ~ mainReturns
        PROVE  UNCHANGED <<disk, file>>
    BY <2>4 DEF Step, pad, rw_pinit, pinitReturns, submits, submitFails, poll,
       sio_waittasks, chunkDone, disk_vars, cp_vars
  <2> QED
    BY <1>2, <2>1, <2>2, <2>3, <2>4 DEF Next
<1>3. UNCHANGED vars => UNCHANGED <<disk, file>>
  BY DEF vars
<1>4. QED
  BY <1>1, <1>2, <1>3, IOInductive, PTL DEF Spec, ImplementsBlockStore, Store!Spec

-----------------------------------------------------------------------------
(* The commands of a chunk: no disk has more than two of them.             *)

\* A command that reaches the end of its super-sector is followed by the next one.
LEMMA NextSuper ==
    ASSUME NEW lba \in Nat
    PROVE  super_getid(lba + (SUPERSECTORNUM - (lba % SUPERSECTORNUM))) = super_getid(lba) + 1
<1> DEFINE S == SUPERSECTORNUM
           id == lba \div S
           x == lba + (S - (lba % S))
<1>1. S \in Nat \ {0}
  BY SuperSectorAssumption
<1>2. id \in Nat /\ (lba % S) \in 0 .. S - 1 /\ lba = S * id + (lba % S)
  BY <1>1, DivMod
<1>3. S * (id + 1) = S * id + S /\ S * id \in Nat
  BY <1>1, <1>2
<1>4. x = S * (id + 1) /\ x \in Nat
  BY <1>1, <1>2, <1>3
<1> HIDE DEF x, id
<1>5. x \div S \in Nat /\ (x % S) \in 0 .. S - 1 /\ x = S * (x \div S) + (x % S)
  BY <1>1, <1>4, DivMod
<1>6. S * (x \div S) + (x % S) = S * (id + 1) + 0 /\ id + 1 \in Nat /\ 0 \in 0 .. S - 1
  BY <1>1, <1>2, <1>3, <1>4, <1>5
<1>7. x \div S = id + 1
  BY <1>1, <1>5, <1>6, DivModUnique
<1>8. QED
  BY <1>7 DEF x, id, super_getid

\* With no new command and the same chunk, ChunkOK can only get easier.
LEMMA ChunkStays ==
    ASSUME ChunkOK, InFlight' \subseteq InFlight, todo' = todo,
           pc' \in {"submit", "poll"} =>
             pc \in {"submit", "poll"} /\ req'.lba = req.lba /\ (req'.count > 0 => req.count > 0),
           pc' = "submit" => req' = req /\ (pc = "submit" \/ req.count > 0),
           pc' = "poll" => req'.count = 0 \/ (pc = "poll" /\ req' = req)
    PROVE  ChunkOK'
<1>1. Chunk' = Chunk
  BY DEF Chunk
<1>2. OfChunk' \subseteq OfChunk /\ OfPadding' \subseteq OfPadding
  BY DEF OfChunk, OfPadding
<1>3. ASSUME NEW c \in OfChunk'
      PROVE  /\ c.off < Chunk'
             /\ c.disk = Super(c)' % NumDisks
             /\ pc' \in {"submit", "poll"} /\ req'.count > 0 => Super(c)' < super_getid(req'.lba)
  BY <1>1, <1>2, <1>3 DEF ChunkOK, Super
<1>4. ASSUME NEW a \in OfChunk', NEW b \in OfChunk', Super(a)' = Super(b)'
      PROVE  a = b
  BY <1>2, <1>4 DEF ChunkOK, Super
<1>5. ASSUME NEW a \in OfPadding', NEW b \in OfPadding'
      PROVE  a = b
  BY <1>2, <1>5 DEF ChunkOK
<1>6. pc' = "submit" /\ req'.buf = "padding" => InFlight' = {}
  BY DEF ChunkOK
<1>7. pc' = "poll" /\ req'.buf = "padding" => req'.count = 0
  BY DEF ChunkOK
<1>8. QED
  BY <1>3, <1>4, <1>5, <1>6, <1>7 DEF ChunkOK

\* Before the first command of a chunk there are none of it.
LEMMA ChunkStarts ==
    ASSUME OfChunk' = {}, InFlight' = {} \/ (OfPadding' \subseteq OfPadding /\ ChunkOK),
           pc' # "poll", pc' = "submit" /\ req'.buf = "padding" => InFlight' = {}
    PROVE  ChunkOK'
<1>1. \A a, b \in OfPadding' : a = b
  BY DEF ChunkOK, OfPadding
<1>2. QED
  BY <1>1 DEF ChunkOK

\* What submits does, with the command it sends.
LEMMA SubmitsFacts ==
    ASSUME IOInv, submits
    PROVE  /\ pc = "submit" /\ pc' \in {"submit", "poll"} /\ file \in Files
           /\ pc' = "submit" => req.count > Piece
           /\ queue' = queue \cup {NextCommand} /\ InFlight' = InFlight \cup {NextCommand}
           /\ UNCHANGED <<disk, executed, mem, padding, out, op, file, todo, faults>>
           /\ Piece \in Nat /\ 0 < Piece /\ Piece <= req.count
           /\ req.lba \in Nat /\ req.count \in Nat /\ req.off \in Nat
           /\ req'.lba = req.lba + Piece /\ req'.count = req.count - Piece
           /\ req'.off = req.off + Piece /\ req'.buf = req.buf
           /\ NextCommand.off = req.off /\ NextCommand.count = Piece
           /\ NextCommand.buf = req.buf /\ NextCommand.write = (op = "in")
           /\ NextCommand.disk = super_getid(req.lba) % NumDisks
           /\ NextCommand.lba = super_getdisklba(NumDisks, req.lba)
<1>1. /\ TypeOK /\ RunOK /\ ReqOK /\ pc = "submit"
      /\ pc' \in {"submit", "poll"} /\ (pc' = "submit" => req.count > Piece)
      /\ queue' = queue \cup {NextCommand}
      /\ UNCHANGED <<disk, executed, mem, padding, out, op, file, todo, faults>>
      /\ req' = [req EXCEPT !.lba = @ + Piece, !.count = @ - Piece, !.off = @ + Piece]
  BY DEF submits, buf_vars, cp_vars, IOInv
<1>2. /\ req \in [lba : Nat, count : Nat, off : Nat, buf : {"mem", "padding"}]
      /\ file \in Files /\ req.count > 0
  BY <1>1 DEF TypeOK, RunOK, ReqOK
<1>3. Piece \in Nat /\ 0 < Piece /\ Piece <= req.count
  BY <1>1, <1>2, PieceFacts
<1>4. /\ req'.lba = req.lba + Piece /\ req'.count = req.count - Piece
      /\ req'.off = req.off + Piece /\ req'.buf = req.buf
  BY <1>1, <1>2
<1>5. InFlight' = InFlight \cup {NextCommand}
  BY <1>1 DEF InFlight
<1>6. /\ NextCommand.off = req.off /\ NextCommand.count = Piece
      /\ NextCommand.buf = req.buf /\ NextCommand.write = (op = "in")
      /\ NextCommand.disk = super_getid(req.lba) % NumDisks
      /\ NextCommand.lba = super_getdisklba(NumDisks, req.lba)
  BY DEF NextCommand, NextDisk, super_getdisk
<1>7. QED
  BY <1>1, <1>2, <1>3, <1>4, <1>5, <1>6

LEMMA ChunkSubmits ==
    ASSUME IOInv, ChunkOK, submits
    PROVE  ChunkOK'
<1>1. /\ pc = "submit" /\ pc' \in {"submit", "poll"}
      /\ pc' = "submit" => req.count > Piece
      /\ InFlight' = InFlight \cup {NextCommand}
      /\ todo' = todo /\ Piece \in Nat /\ 0 < Piece /\ Piece <= req.count
      /\ req.lba \in Nat /\ req.count \in Nat /\ req.off \in Nat
      /\ req'.lba = req.lba + Piece /\ req'.count = req.count - Piece /\ req'.buf = req.buf
      /\ NextCommand.off = req.off /\ NextCommand.buf = req.buf
      /\ NextCommand.disk = super_getid(req.lba) % NumDisks
  BY SubmitsFacts
<1>2. PICK n : n = NextCommand
  OBVIOUS
<1>3. /\ InFlight' = InFlight \cup {n} /\ n.off = req.off /\ n.buf = req.buf
      /\ n.disk = super_getid(req.lba) % NumDisks
  BY <1>1, <1>2
<1>4. Chunk' = Chunk /\ Chunk \in Nat /\ TypeOK /\ ReqOK /\ req.count > 0
  BY <1>1, ChunkFacts DEF Chunk, IOInv, ReqOK
<1>5. CASE req.buf = "padding"
  <2>1. req.count = 1 /\ InFlight = {}
    BY <1>1, <1>4, <1>5 DEF ReqOK, ChunkOK
  <2>2. pc' = "poll" /\ req'.count = 0
    BY <1>1, <2>1
  <2>3. OfChunk' = {} /\ \A a, b \in OfPadding' : a = b
    BY <1>3, <1>5, <2>1 DEF OfChunk, OfPadding
  <2>4. QED
    BY <2>2, <2>3 DEF ChunkOK
<1>6. CASE req.buf = "mem"
  <2>1. req.lba = todo.lba + req.off /\ req.off + req.count <= Chunk
    BY <1>1, <1>4, <1>6 DEF ReqOK
  <2>2. super_getid(todo.lba + n.off) = super_getid(req.lba) /\ n.off < Chunk
    BY <1>1, <1>3, <1>4, <2>1
  <2>3. OfChunk' = OfChunk \cup {n} /\ OfPadding' = OfPadding
    BY <1>3, <1>6 DEF OfChunk, OfPadding
  <2>4. \A c \in OfChunk : super_getid(todo.lba + c.off) < super_getid(req.lba)
    BY <1>1, <1>4 DEF ChunkOK, Super
  <2>5. /\ super_getid(req.lba) \in Nat
        /\ \A c \in OfChunk : super_getid(todo.lba + c.off) \in Nat
    <3>1. super_getid(req.lba) \in Nat
      BY <1>1, DivMod, SuperSectorAssumption DEF super_getid
    <3>2. ASSUME NEW c \in OfChunk PROVE super_getid(todo.lba + c.off) \in Nat
      <4>1. todo.lba + c.off \in Nat
        BY <1>4, CommandTypes DEF OfChunk, TypeOK
      <4>2. QED
        BY <4>1, DivMod, SuperSectorAssumption DEF super_getid
    <3>3. QED
      BY <3>1, <3>2
  <2>6. req'.count > 0 => super_getid(req'.lba) = super_getid(req.lba) + 1
    <3>1. ASSUME req'.count > 0
          PROVE  Piece = SUPERSECTORNUM - (req.lba % SUPERSECTORNUM)
      BY <1>1, <3>1 DEF Piece
    <3>2. QED
      BY <1>1, <3>1, NextSuper
  <2>7. ASSUME NEW c \in OfChunk'
        PROVE  /\ c.off < Chunk'
               /\ c.disk = Super(c)' % NumDisks
               /\ req'.count > 0 => Super(c)' < super_getid(req'.lba)
    <3>1. CASE c \in OfChunk
      BY <1>1, <1>4, <2>4, <2>5, <2>6, <3>1 DEF ChunkOK, Super
    <3>2. CASE c = n
      BY <1>1, <1>3, <1>4, <2>2, <2>5, <2>6, <3>2 DEF Super
    <3>3. QED
      BY <2>3, <2>7, <3>1, <3>2
  <2>8. ASSUME NEW a \in OfChunk', NEW b \in OfChunk', Super(a)' = Super(b)'
        PROVE  a = b
    <3>1. super_getid(todo.lba + a.off) = super_getid(todo.lba + b.off)
      BY <1>1, <2>8 DEF Super
    <3>2. \A c \in OfChunk : super_getid(todo.lba + c.off) # super_getid(todo.lba + n.off)
      BY <2>2, <2>4, <2>5
    <3>3. CASE a \in OfChunk /\ b \in OfChunk
      BY <3>1, <3>3 DEF ChunkOK, Super
    <3>4. QED
      BY <2>3, <3>1, <3>2, <3>3
  <2>9. QED
    BY <1>1, <1>6, <2>3, <2>7, <2>8 DEF ChunkOK
<1>7. QED
  BY <1>4, <1>5, <1>6 DEF TypeOK

LEMMA ChunkInit == Init => ChunkOK
  BY DEF Init, ChunkOK, OfChunk, OfPadding, InFlight

LEMMA ChunkNext == IOInv /\ ChunkOK /\ [Next]_vars => ChunkOK'
<1> SUFFICES ASSUME IOInv, ChunkOK, [Next]_vars
             PROVE  ChunkOK'
  OBVIOUS
<1>1. CASE pad
  <2>1. InFlight' = {} /\ OfChunk' = {} /\ pc' = "submit"
    BY <1>1 DEF pad, disk_vars, IOInv, QuietOK, InFlight, OfChunk
  <2>2. QED
    BY <2>1, ChunkStarts
<1>2. CASE rw_pinit
  <2>1. OfChunk' = {} /\ OfPadding' \subseteq OfPadding
    BY <1>2 DEF rw_pinit, disk_vars, IOInv, QuietOK, InFlight, OfChunk, OfPadding
  <2>2. pc' = "submit" /\ req'.buf = "mem"
    BY <1>2 DEF rw_pinit
  <2>3. QED
    BY <2>1, <2>2, ChunkStarts
<1>3. CASE pinitReturns
  BY <1>3, ChunkStays DEF pinitReturns, disk_vars, InFlight
<1>4. CASE submits
  BY <1>4, ChunkSubmits
<1>5. CASE submitFails
  <2>1. UNCHANGED <<queue, executed, todo>> /\ pc = "submit"
        /\ pc' \in {"poll", "loop", "exit", "wait"}
    BY <1>5 DEF submitFails, disk_vars, AfterCall
  <2>2. req'.lba = req.lba /\ req'.count = 0
    BY <1>5 DEF submitFails, IOInv, TypeOK
  <2>3. QED
    BY <2>1, <2>2, ChunkStays DEF InFlight
<1>6. CASE poll
  <2>1. UNCHANGED <<queue, todo, req>> /\ executed' = {} /\ pc = "poll"
        /\ pc' \in {"submit", "loop", "exit", "wait"}
        /\ (pc' = "submit" => req.count > 0)
    BY <1>6 DEF poll, processCompletions, AfterCall
  <2>2. QED
    BY <2>1, ChunkStays DEF InFlight
<1>7. CASE sio_waittasks
  BY <1>7, ChunkStays DEF sio_waittasks, processCompletions, InFlight
<1>8. CASE chunkDone
  <2>1. InFlight' = {} /\ OfChunk' = {} /\ pc' = "loop"
    BY <1>8, NothingLeft DEF chunkDone, disk_vars, IOInv, InFlight, OfChunk
  <2>2. QED
    BY <2>1, ChunkStarts
<1>9. CASE mainReturns \/ Crash
  <2>1. InFlight' = {} /\ OfChunk' = {} /\ pc' = "off"
    BY <1>9 DEF mainReturns, Crash, Ends, InFlight, OfChunk
  <2>2. QED
    BY <2>1, ChunkStarts
<1>10. CASE Device
  <2>1. InFlight' \subseteq InFlight /\ UNCHANGED <<todo, pc, req>>
    BY <1>10 DEF Device, Execute, InFlight
  <2>2. QED
    BY <2>1, ChunkStays
<1>11. CASE \E o \in Ops, f \in Files : Launch(o, f)
  <2>1. InFlight' = {} /\ OfChunk' = {} /\ pc' \in {"pad", "loop"}
    BY <1>11 DEF Launch, disk_vars, IOInv, RunOK, InFlight, OfChunk
  <2>2. QED
    BY <2>1, ChunkStarts
<1>12. CASE UNCHANGED vars
  BY <1>12, ChunkStays DEF vars, InFlight
<1>13. QED
  BY <1>1, <1>2, <1>3, <1>4, <1>5, <1>6, <1>7, <1>8, <1>9, <1>10, <1>11, <1>12
     DEF Next, Step

\* A chunk reaches over one super-sector more than there are disks.
LEMMA SuperRange ==
    ASSUME NEW x \in Nat, NEW y \in Nat, y < GIGASECTORNUM
    PROVE  super_getid(x + y) \in super_getid(x) .. super_getid(x) + NumDisks
<1> DEFINE S == SUPERSECTORNUM
           k == x \div S
           m == (x + y) \div S
<1>1. S \in Nat \ {0} /\ NumDisks \in Nat \ {0}
  BY SuperSectorAssumption, IOAssumption
<1>2. k \in Nat /\ (x % S) \in 0 .. S - 1 /\ x = S * k + (x % S)
  BY <1>1, DivMod
<1>3. x + y \in Nat
  OBVIOUS
<1>4. m \in Nat /\ ((x + y) % S) \in 0 .. S - 1 /\ x + y = S * m + ((x + y) % S)
  BY <1>1, <1>3, DivMod
<1>5. y < S * NumDisks
  BY DEF GIGASECTORNUM
<1> HIDE DEF k, m
<1>6. S * k \in Nat /\ S * m \in Nat /\ S * NumDisks \in Nat
  BY <1>1, <1>2, <1>4
<1>7. ~(m < k)
  <2> SUFFICES ASSUME m < k
               PROVE  FALSE
    OBVIOUS
  <2>1. PICK e \in Nat : k = m + 1 + e
    BY <1>2, <1>4
  <2>2. S * k = S * m + S + S * e /\ S * e \in Nat
    BY <1>1, <1>4, <2>1
  <2>3. QED
    BY <1>1, <1>2, <1>4, <1>6, <2>2
<1>8. ~(m > k + NumDisks)
  <2> SUFFICES ASSUME m > k + NumDisks
               PROVE  FALSE
    OBVIOUS
  <2>1. PICK e \in Nat : m = k + NumDisks + 1 + e
    BY <1>1, <1>2, <1>4
  <2>2. S * m = S * k + S * NumDisks + S + S * e /\ S * e \in Nat
    BY <1>1, <1>2, <2>1
  <2>3. QED
    BY <1>1, <1>2, <1>4, <1>5, <1>6, <2>2
<1>9. m \in k .. k + NumDisks
  BY <1>1, <1>2, <1>4, <1>7, <1>8
<1>10. QED
  BY <1>9 DEF m, k, super_getid

LEMMA ThreeAtMost ==
    ASSUME IOInv, ChunkOK, NEW d \in Disks
    PROVE  Cardinality(Outstanding(d)) <= 3
<1> DEFINE k == super_getid(todo.lba)
           F == [c \in Outstanding(d) |->
                   IF c.buf = "padding" THEN 2 ELSE IF Super(c) = k THEN 0 ELSE 1]
           places == 0 .. 2
<1>1. TypeOK /\ todo.lba \in Nat /\ NumDisks \in Nat \ {0}
  BY IOAssumption DEF IOInv, TypeOK
<1>2. k \in Nat
  BY <1>1, DivMod, SuperSectorAssumption DEF super_getid
<1>3. ASSUME NEW c \in Outstanding(d), c.buf # "padding"
      PROVE  c \in OfChunk /\ Super(c) \in k .. k + NumDisks /\ Super(c) % NumDisks = d
  <2>1. c \in InFlight /\ c.disk = d
    BY DEF Outstanding, InFlight
  <2>2. c.off \in Nat /\ c \in OfChunk
    BY <1>1, <1>3, <2>1, CommandTypes DEF OfChunk
  <2>3. c.off < Chunk /\ c.disk = Super(c) % NumDisks
    BY <2>2 DEF ChunkOK
  <2>4. c.off < GIGASECTORNUM
    BY <1>1, <2>2, <2>3, ChunkFacts, GigaFacts
  <2>5. Super(c) \in k .. k + NumDisks
    BY <1>1, <2>2, <2>4, SuperRange DEF Super
  <2>6. QED
    BY <2>1, <2>2, <2>3, <2>5
<1> HIDE DEF k
<1>4. ASSUME NEW a \in Outstanding(d), NEW b \in Outstanding(d), F[a] = F[b]
      PROVE  a = b
  <2>1. CASE a.buf = "padding"
    <3>1. b.buf = "padding"
      BY <1>4, <2>1
    <3>2. a \in OfPadding /\ b \in OfPadding
      BY <2>1, <3>1 DEF OfPadding, Outstanding, InFlight
    <3>3. QED
      BY <3>2 DEF ChunkOK
  <2>2. CASE a.buf # "padding"
    <3>1. b.buf # "padding"
      BY <1>4, <2>2
    <3>2. /\ a \in OfChunk /\ Super(a) \in k .. k + NumDisks /\ Super(a) % NumDisks = d
          /\ b \in OfChunk /\ Super(b) \in k .. k + NumDisks /\ Super(b) % NumDisks = d
      BY <1>3, <2>2, <3>1
    <3>3. Super(a) = k <=> Super(b) = k
      BY <1>4, <2>2, <3>1
    <3>4. CASE Super(a) = k
      BY <3>2, <3>3, <3>4 DEF ChunkOK
    <3>5. CASE Super(a) # k
      <4> DEFINE x == Super(a)
                 y == Super(b)
      <4>1. x \in k + 1 .. k + NumDisks /\ y \in k + 1 .. k + NumDisks
            /\ x % NumDisks = y % NumDisks
        BY <1>1, <1>2, <3>2, <3>3, <3>5
      <4> HIDE DEF x, y
      <4>2. k \in Int /\ 0 <= k + 1 /\ NumDisks \in Nat \ {0}
        BY <1>1, <1>2
      <4>3. x = y
        BY <4>1, <4>2, OneOfARow
      <4>4. QED
        BY <3>2, <4>3 DEF ChunkOK, x, y
    <3>6. QED
      BY <3>4, <3>5
  <2>3. QED
    BY <2>1, <2>2
<1>5. F \in Injection(Outstanding(d), places)
  BY <1>4 DEF Injection, IsInjective
<1>6. IsFiniteSet(0 .. 2) /\ Cardinality(0 .. 2) = IF 0 > 2 THEN 0 ELSE 2 - 0 + 1
  <2>1. 0 \in Int /\ 2 \in Int
    OBVIOUS
  <2>2. QED
    BY <2>1, FS_Interval, Zenon
<1>7. IsFiniteSet(places) /\ Cardinality(places) = 3
  BY <1>6
<1> HIDE DEF F, places
<1>8. Cardinality(Outstanding(d)) <= Cardinality(places)
  BY <1>5, <1>7, FS_Injection
<1>9. QED
  BY <1>7, <1>8

\* Whatever the number of disks, the super-sector, the file and the faults, a disk has
\* three commands to look after at most, where simpleio.c prepares for 128
\* (lines 153 and 235): so none is refused for want of room.
THEOREM QueueBoundedCorrect == Spec => []QueueBounded
<1>1. IOInv /\ ChunkOK => QueueBounded
  BY ThreeAtMost DEF QueueBounded
<1>2. QED
  BY <1>1, IOInductive, ChunkInit, ChunkNext, PTL DEF Spec

-----------------------------------------------------------------------------
(* A copy leaves nothing out.                                              *)

\* A behaviour without a fault had none before either.
LEMMA FaultlessBefore ==
    ASSUME IOInv, [Next]_vars, Faultless', pc # "off"
    PROVE  /\ Faultless /\ file' = file /\ op' = op /\ Total' = Total
           /\ faults' = faults /\ ~submitFails /\ ~Crash /\ ~mainReturns
<1>1. faults \in Nat /\ faults' = 0 /\ pc' # "off"
  BY DEF IOInv, TypeOK, Faultless
<1>2. ~submitFails /\ ~Crash /\ ~mainReturns
  <2>1. ~submitFails
    <3>1. submitFails => faults' = faults + 1
      BY Zenon DEF submitFails
    <3>2. QED
      BY <1>1, <3>1
  <2>2. Ends => pc' = "off"
    BY DEF Ends
  <2>3. ~Crash /\ ~mainReturns
    BY <1>1, <2>2 DEF Crash, mainReturns
  <2>4. QED
    BY <2>1, <2>3
<1>3. UNCHANGED <<file, op>> /\ faults' \in {faults, faults + 1}
  BY <1>2 DEF Next, Step, pad, rw_pinit, pinitReturns, submits, poll, sio_waittasks,
     chunkDone, Device, Execute, Transfer, TransferError, Launch, vars, cp_vars
<1>4. faults = 0 /\ faults' = faults
  BY <1>1, <1>3
<1>5. Regular(file)
  BY <1>3 DEF Faultless
<1>6. QED
  BY <1>2, <1>3, <1>4, <1>5 DEF Faultless, Total

\* What there is to move, and how much of it is behind the loop.
LEMMA TotalFacts ==
    ASSUME IOInv, pc # "off"
    PROVE  /\ file \in Files /\ op \in {"in", "out"}
           /\ Total \in Nat /\ Blocks(file) \in Nat /\ Total <= Blocks(file)
           /\ file.startBlock \in Nat /\ file.whole \in Nat
           /\ todo.lba = file.startBlock + todo.off
           /\ todo.lba \in Nat /\ todo.off \in Nat /\ todo.count \in Nat
           /\ Chunk \in Nat /\ Chunk <= todo.count /\ Chunk <= GIGASECTORNUM
           /\ todo.off + todo.count <= Total
<1>1. TypeOK /\ RunOK /\ TodoOK
  BY DEF IOInv
<1>2. /\ file \in Files /\ op \in {"in", "out"}
      /\ todo.lba = file.startBlock + todo.off
      /\ todo.off + todo.count <= Total
  BY <1>1 DEF RunOK, TodoOK, Total
<1>3. /\ file.startBlock \in Nat /\ file.whole \in Nat
      /\ Blocks(file) \in Nat /\ file.whole <= Blocks(file)
  BY <1>2, BlocksFacts
<1>4. todo.lba \in Nat /\ todo.off \in Nat /\ todo.count \in Nat
  BY <1>1 DEF TypeOK
<1>5. Chunk \in Nat /\ Chunk <= todo.count /\ Chunk <= GIGASECTORNUM
  BY <1>1, ChunkFacts
<1>6. Total \in Nat /\ Total <= Blocks(file)
  BY <1>3 DEF Total
<1>7. QED
  BY <1>2, <1>3, <1>4, <1>5, <1>6

LEMMA LaunchCounts ==
    ASSUME NEW o \in Ops, NEW f \in Files, Blocks(f) < Word32
    PROVE  (IF o = "in" THEN f.whole ELSE Blocks(f)) % Word32
             = IF o = "in" THEN f.whole ELSE Blocks(f)
<1> DEFINE all == IF o = "in" THEN f.whole ELSE Blocks(f)
<1>1. Word32 \in Nat \ {0} /\ all \in Nat /\ all < Word32
  BY BlocksFacts, IOAssumption
<1> HIDE DEF all
<1>2. /\ all \div Word32 \in Nat /\ (all % Word32) \in 0 .. Word32 - 1
      /\ all = Word32 * (all \div Word32) + (all % Word32)
  BY <1>1, DivMod
<1>3. Word32 * 0 + all = Word32 * (all \div Word32) + (all % Word32)
      /\ all \in 0 .. Word32 - 1 /\ 0 \in Nat
  BY <1>1, <1>2
<1>4. all = all % Word32
  BY <1>1, <1>2, <1>3, DivModUnique
<1>5. QED
  BY <1>4 DEF all

LEMMA ProgressNext == IOInv /\ ChunkOK /\ ProgressOK /\ [Next]_vars => ProgressOK'
<1> SUFFICES ASSUME IOInv, ChunkOK, ProgressOK, [Next]_vars, Faultless'
             PROVE  /\ (todo.off + todo.count = Total)'
                    /\ pc' \in {"submit", "poll"} /\ req'.buf = "mem" =>
                         req'.off + req'.count = Chunk'
                    /\ pc' = "pad" \/ (pc' \in {"submit", "poll"} /\ req'.buf = "padding") =>
                         todo'.off = 0
                    /\ pc' = "exit" => todo'.count = 0
                    /\ pc' \in {"loop", "exit"} /\ todo'.off > 0 => InFlight' = {}
  BY DEF ProgressOK
<1>1. CASE pc = "off"
  <2>1. PICK o \in Ops, f \in Files : Launch(o, f) \/ UNCHANGED vars
    BY <1>1, IOAssumption DEF Next, Step, pad, rw_pinit, pinitReturns, submits, submitFails,
       poll, sio_waittasks, chunkDone, mainReturns, Crash, Device, IOInv, RunOK, InFlight,
       Faultless, vars
  <2>2. Launch(o, f)
    BY <1>1, <2>1 DEF vars, Faultless
  <2>3. file' = f /\ op' = o /\ pc' \in {"pad", "loop"} /\ Blocks(f) < Word32
    BY <2>2 DEF Launch, Faultless, Regular
  <2>4. todo' = [lba |-> f.startBlock,
                 count |-> IF o = "in" THEN f.whole ELSE Blocks(f), off |-> 0]
    BY <2>2, <2>3, LaunchCounts DEF Launch
  <2>5. f.whole \in Nat /\ Blocks(f) \in Nat
    BY BlocksFacts
  <2>6. (todo.off + todo.count = Total)' /\ todo'.off = 0
    BY <2>3, <2>4, <2>5 DEF Total, Blocks
  <2>7. QED
    BY <2>3, <2>6
<1>2. CASE pc # "off"
  <2>1. /\ Faultless /\ file' = file /\ op' = op /\ Total' = Total
        /\ faults' = faults /\ ~submitFails /\ ~Crash /\ ~mainReturns
    BY <1>2, FaultlessBefore
  <2>2. /\ todo.off + todo.count = Total
        /\ pc \in {"submit", "poll"} /\ req.buf = "mem" => req.off + req.count = Chunk
        /\ pc = "pad" \/ (pc \in {"submit", "poll"} /\ req.buf = "padding") => todo.off = 0
        /\ pc = "exit" => todo.count = 0
        /\ pc \in {"loop", "exit"} /\ todo.off > 0 => InFlight = {}
    BY <2>1 DEF ProgressOK
  <2>3. /\ Total \in Nat /\ todo.off \in Nat /\ todo.count \in Nat
        /\ Chunk \in Nat /\ Chunk <= todo.count
    BY <1>2, TotalFacts
  <2>4. CASE pad
    <3>1. todo' = todo /\ pc = "pad" /\ pc' = "submit" /\ req'.buf = "padding"
      BY <2>4 DEF pad
    <3>2. QED
      BY <2>1, <2>2, <3>1
  <2>5. CASE rw_pinit
    <3>1. todo' = todo /\ pc' = "submit" /\ Chunk' = Chunk
          /\ req' = [lba |-> todo.lba, count |-> Chunk, off |-> 0, buf |-> "mem"]
      BY <2>5 DEF rw_pinit, Chunk
    <3>2. req'.off + req'.count = Chunk' /\ req'.buf = "mem"
      BY <2>3, <3>1
    <3>3. QED
      BY <2>1, <2>2, <3>1, <3>2
  <2>6. CASE pinitReturns
    <3>1. UNCHANGED <<todo, queue, executed>> /\ pc = "loop" /\ pc' = "exit"
          /\ todo.count = 0
      BY <2>6 DEF pinitReturns, disk_vars
    <3>2. QED
      BY <2>1, <2>2, <3>1 DEF InFlight
  <2>7. CASE submits
    <3>1. /\ pc = "submit" /\ pc' \in {"submit", "poll"} /\ todo' = todo
          /\ Piece \in Nat /\ Piece <= req.count
          /\ req.count \in Nat /\ req.off \in Nat
          /\ req'.count = req.count - Piece /\ req'.off = req.off + Piece /\ req'.buf = req.buf
      BY <2>7, SubmitsFacts
    <3>2. Chunk' = Chunk
      BY <3>1 DEF Chunk
    <3>3. QED
      BY <2>1, <2>2, <3>1, <3>2
  <2>8. CASE poll
    <3>1. /\ UNCHANGED <<todo, req>> /\ pc = "poll" /\ Chunk' = Chunk
          /\ pc' \in {"submit", "wait", "loop"}
          /\ pc' = "loop" => req.buf = "padding"
      BY <2>8 DEF poll, AfterCall, Chunk
    <3>2. QED
      BY <2>1, <2>2, <3>1
  <2>9. CASE sio_waittasks
    <3>1. UNCHANGED <<todo, req, pc>> /\ pc = "wait"
      BY <2>9 DEF sio_waittasks
    <3>2. QED
      BY <2>1, <2>2, <3>1
  <2>10. CASE chunkDone
    <3>1. InFlight' = {} /\ pc' = "loop"
          /\ todo' = [lba |-> todo.lba + Chunk, count |-> todo.count - Chunk,
                      off |-> todo.off + Chunk]
      BY <2>10, NothingLeft DEF chunkDone, disk_vars, IOInv, InFlight
    <3>2. todo'.off + todo'.count = Total
      BY <2>2, <2>3, <3>1
    <3>3. QED
      BY <2>1, <3>1, <3>2
  <2>11. CASE Device
    <3>1. UNCHANGED <<todo, req, pc>> /\ InFlight' = InFlight /\ Chunk' = Chunk
      BY <2>11 DEF Device, Execute, InFlight, Chunk
    <3>2. QED
      BY <2>1, <2>2, <3>1
  <2>12. CASE UNCHANGED vars
    <3>1. UNCHANGED <<todo, req, pc, queue, executed>> /\ Chunk' = Chunk
      BY <2>12 DEF vars, Chunk
    <3>2. QED
      BY <2>1, <2>2, <3>1 DEF InFlight
  <2>13. QED
    BY <1>2, <2>1, <2>4, <2>5, <2>6, <2>7, <2>8, <2>9, <2>10, <2>11, <2>12
       DEF Next, Step, Launch
<1>3. QED
  BY <1>1, <1>2

-----------------------------------------------------------------------------
(* A copy into the raid.                                                   *)

\* The sectors a command covers are those of the blocks from its first one on.
LEMMA NextPlaces ==
    ASSUME IOInv, pc = "submit", NEW b \in Nat, NEW k \in Nat, k < Piece,
           file.startBlock + b = req.lba + k
    PROVE  Place(file, b) = <<NextCommand.disk, NextCommand.lba + k>>
<1>1. TypeOK /\ req.count > 0 /\ req.lba \in Nat
  BY DEF IOInv, ReqOK, TypeOK
<1>2. Piece \in Nat /\ (req.lba % SUPERSECTORNUM) + Piece <= SUPERSECTORNUM
  BY <1>1, PieceFacts
<1>3. (req.lba % SUPERSECTORNUM) \in 0 .. SUPERSECTORNUM - 1
  BY <1>1, DivMod, SuperSectorAssumption
<1>4. (req.lba % SUPERSECTORNUM) + k < SUPERSECTORNUM
  BY <1>2, <1>3, SuperSectorAssumption
<1>5. /\ super_getdisk(NumDisks, req.lba + k) = super_getdisk(NumDisks, req.lba)
      /\ super_getdisklba(NumDisks, req.lba + k) = super_getdisklba(NumDisks, req.lba) + k
  BY <1>1, <1>4, SuperSectorContiguous, IOAssumption
<1>6. /\ NextCommand.disk = super_getdisk(NumDisks, req.lba)
      /\ NextCommand.lba = super_getdisklba(NumDisks, req.lba)
  BY DEF NextCommand, NextDisk
<1>7. QED
  BY <1>5, <1>6 DEF Place, Location

\* A place of the disks is that of one block.
LEMMA PlaceInjective ==
    ASSUME NEW f \in Files, NEW a \in Nat, NEW b \in Nat, Place(f, a) = Place(f, b)
    PROVE  a = b
<1>1. f.startBlock \in Nat
  BY BlocksFacts
<1>2. f.startBlock + a \in Nat /\ f.startBlock + b \in Nat
  BY <1>1
<1>3. f.startBlock + a = f.startBlock + b
  BY <1>2, LocationInjective, IOAssumption DEF Place
<1>4. QED
  BY <1>1, <1>3

\* What has reached the disks or is on its way stays so when commands are added.
LEMMA MovedStays ==
    ASSUME NEW b, Moved(b), disk' = disk, file' = file, queue \subseteq queue'
    PROVE  Moved(b)'
  BY DEF Moved, Place, Content

\* How far the commands of a chunk have come is never beyond the chunk.
LEMMA SentFacts ==
    ASSUME IOInv, pc # "off"
    PROVE  Sent \in Nat /\ todo.off <= Sent /\ Sent <= todo.off + Chunk /\ Sent <= Blocks(file)
<1>1. /\ Total \in Nat /\ Blocks(file) \in Nat /\ Total <= Blocks(file)
      /\ todo.off \in Nat /\ todo.count \in Nat /\ Chunk \in Nat /\ Chunk <= todo.count
      /\ todo.off + todo.count <= Total
  BY TotalFacts
<1>2. req.off \in Nat /\ req.count \in Nat
  BY DEF IOInv, TypeOK
<1>3. pc \in {"submit", "poll"} /\ req.buf = "mem" => req.off <= Chunk
  BY <1>1, <1>2 DEF IOInv, ReqOK
<1>4. QED
  BY <1>1, <1>2, <1>3 DEF Sent

\* A command that moves sectors of the file is inside its disk.
LEMMA InsideDisk ==
    ASSUME TypeOK, NEW c \in queue, Regular(file), c.count > 0,
           NEW b \in 0 .. Blocks(file) - 1,
           Place(file, b) = <<c.disk, c.lba + (c.count - 1)>>
    PROVE  c.lba + c.count <= DiskSectors[c.disk]
<1>1. /\ c.disk \in Disks /\ c.lba \in Nat /\ c.count \in Nat
      /\ DiskSectors[c.disk] \in Nat
  BY CommandTypes, IOAssumption DEF InFlight, Disks
<1>2. <<c.disk, c.lba + (c.count - 1)>> \in Sectors
  BY DEF Regular
<1>3. PICK d \in Disks : <<c.disk, c.lba + (c.count - 1)>> \in {d} \X (0 .. DiskSectors[d] - 1)
  BY <1>2 DEF Sectors
<1>4. d = c.disk /\ c.lba + (c.count - 1) \in 0 .. DiskSectors[c.disk] - 1
  BY <1>3
<1>5. QED
  BY <1>1, <1>4

\* What a command writes in a sector of the file is the block that belongs there.
LEMMA ExecuteWrites ==
    ASSUME IOInv, pc # "off", NEW c \in queue, Transfer(c), c.write,
           NEW b \in 0 .. Blocks(file) - 1, Place(file, b) \in Sectors
    PROVE  \/ disk'[Place(file, b)] = Content(file, b)
           \/ /\ disk'[Place(file, b)] = disk[Place(file, b)]
              /\ \A i \in 0 .. c.count - 1 : Place(file, b) # <<c.disk, c.lba + i>>
<1>1. PICK p : p = Place(file, b)
  OBVIOUS
<1>2. /\ file \in Files /\ c.lba \in Nat /\ c.count \in Nat
      /\ p \in Sectors /\ p = <<p[1], p[2]>>
  <2>1. file \in Files /\ p \in Sectors
    BY <1>1 DEF IOInv, RunOK
  <2>2. p = <<p[1], p[2]>>
    BY <1>1 DEF Place, Location
  <2>3. QED
    BY <2>1, <2>2, CommandTypes DEF IOInv, InFlight
<1>3. disk'[p] = IF p[1] = c.disk /\ p[2] \in c.lba .. c.lba + c.count - 1
                 THEN BufferAt(c, p[2] - c.lba) ELSE disk[p]
  BY <1>2 DEF Transfer
<1>4. CASE p[1] = c.disk /\ p[2] \in c.lba .. c.lba + c.count - 1
  <2>1. p[2] - c.lba \in 0 .. c.count - 1 /\ c.lba + (p[2] - c.lba) = p[2]
    BY <1>2, <1>4
  <2>2. PICK x \in 0 .. Blocks(file) - 1 :
          /\ Place(file, x) = <<c.disk, c.lba + (p[2] - c.lba)>>
          /\ BufferAt(c, p[2] - c.lba) = Content(file, x)
    BY <2>1 DEF IOInv, BuffersStable
  <2>3. Place(file, x) = Place(file, b)
    BY <1>1, <1>2, <1>4, <2>1, <2>2
  <2>4. x \in Nat /\ b \in Nat
    OBVIOUS
  <2>5. x = b
    BY <1>2, <2>3, <2>4, PlaceInjective
  <2>6. QED
    BY <1>1, <1>3, <1>4, <2>2, <2>5
<1>5. CASE ~(p[1] = c.disk /\ p[2] \in c.lba .. c.lba + c.count - 1)
  <2>1. ASSUME NEW i \in 0 .. c.count - 1, p = <<c.disk, c.lba + i>>
        PROVE  FALSE
    BY <1>2, <1>5, <2>1
  <2>2. QED
    BY <1>1, <1>3, <1>5, <2>1
<1>6. QED
  BY <1>4, <1>5

\* A disk that carries out a command takes nothing back.
LEMMA MovedExecute ==
    ASSUME IOInv, pc # "off", op = "in", Regular(file), faults' = faults,
           NEW c \in queue, Execute(c), NEW b \in 0 .. Blocks(file) - 1, Moved(b)
    PROVE  Moved(b)'
<1>1. /\ file' = file /\ queue' = queue \ {c} /\ c.write
      /\ c.lba \in Nat /\ c.count \in Nat /\ c.disk \in Disks
      /\ Place(file, b) \in Sectors
  <2>1. c.lba \in Nat /\ c.count \in Nat /\ c.disk \in Disks
    BY CommandTypes DEF IOInv, InFlight
  <2>2. c.write
    BY DEF IOInv, CommandOK, InFlight
  <2>3. QED
    BY <2>1, <2>2 DEF Execute, cp_vars, Regular
<1>2. Place(file, b)' = Place(file, b) /\ Content(file, b)' = Content(file, b)
  BY <1>1 DEF Place, Content
<1>3. CASE Transfer(c)
  <2>1. CASE disk'[Place(file, b)] = Content(file, b)
    BY <1>1, <2>1 DEF Moved, Place, Content
  <2>2. CASE /\ disk'[Place(file, b)] = disk[Place(file, b)]
             /\ \A i \in 0 .. c.count - 1 : Place(file, b) # <<c.disk, c.lba + i>>
    <3>1. CASE disk[Place(file, b)] = Content(file, b)
      BY <1>1, <2>2, <3>1 DEF Moved, Place, Content
    <3>2. CASE \E d \in queue : \E i \in 0 .. d.count - 1 :
                 Place(file, b) = <<d.disk, d.lba + i>>
      <4>1. PICK d \in queue : \E i \in 0 .. d.count - 1 :
                 Place(file, b) = <<d.disk, d.lba + i>>
        BY <3>2
      <4>2. d \in queue'
        BY <1>1, <2>2, <4>1
      <4>3. QED
        BY <1>1, <4>1, <4>2 DEF Moved, Place
    <3>3. QED
      BY <3>1, <3>2 DEF Moved
  <2>3. QED
    BY <1>1, <1>3, <2>1, <2>2, ExecuteWrites
<1>4. CASE TransferError(c)
  <2>1. disk' = disk /\ c.lba + c.count > DiskSectors[c.disk]
    <3>1. faults \in Nat
      BY DEF IOInv, TypeOK
    <3>2. QED
      BY <1>4, <3>1 DEF TransferError
  <2>2. c.count = 0
    <3> SUFFICES ASSUME c.count > 0
                 PROVE  FALSE
      BY <1>1
    <3>1. c.count - 1 \in 0 .. c.count - 1
      BY <1>1
    <3>2. PICK x \in 0 .. Blocks(file) - 1 : Place(file, x) = <<c.disk, c.lba + (c.count - 1)>>
      BY <1>1, <3>1 DEF IOInv, BuffersStable
    <3>3. c.lba + c.count <= DiskSectors[c.disk]
      BY <3>2, InsideDisk DEF IOInv
    <3>4. DiskSectors[c.disk] \in Nat
      BY <1>1, IOAssumption DEF Disks
    <3>5. QED
      BY <1>1, <2>1, <3>3, <3>4
  <2>3. CASE disk[Place(file, b)] = Content(file, b)
    BY <1>1, <2>1, <2>3 DEF Moved, Place, Content
  <2>4. CASE \E d \in queue : \E i \in 0 .. d.count - 1 :
               Place(file, b) = <<d.disk, d.lba + i>>
    <3>1. PICK d \in queue : \E i \in 0 .. d.count - 1 :
               Place(file, b) = <<d.disk, d.lba + i>>
      BY <2>4
    <3>2. d # c
      BY <2>2, <3>1
    <3>3. QED
      BY <1>1, <3>1, <3>2 DEF Moved, Place
  <2>5. QED
    BY <2>3, <2>4 DEF Moved
<1>5. QED
  BY <1>3, <1>4 DEF Execute

\* The command that is sent next moves its blocks.
LEMMA MovedSubmits ==
    ASSUME IOInv, submits, NEW b \in Nat, NEW k \in Nat, k < Piece,
           file.startBlock + b = req.lba + k
    PROVE  Moved(b)'
<1>1. /\ pc = "submit" /\ queue' = queue \cup {NextCommand} /\ file' = file
      /\ NextCommand.count = Piece /\ Piece \in Nat
  BY SubmitsFacts
<1>2. PICK n : n = NextCommand
  OBVIOUS
<1>3. Place(file, b) = <<n.disk, n.lba + k>> /\ n \in queue' /\ k \in 0 .. n.count - 1
  BY <1>1, <1>2, NextPlaces
<1>4. Place(file, b)' = Place(file, b)
  BY <1>1 DEF Place
<1>5. QED
  BY <1>1, <1>3 DEF Moved, Place

LEMMA CopyInNext == IOInv /\ ChunkOK /\ ProgressOK /\ CopyInOK /\ [Next]_vars => CopyInOK'
<1> SUFFICES ASSUME IOInv, ChunkOK, ProgressOK, CopyInOK, [Next]_vars, Faultless', op' = "in"
             PROVE  /\ \A b \in 0 .. Sent' - 1 : Moved(b)'
                    /\ file'.rest /\ pc' # "pad" /\ ~(pc' = "submit" /\ req'.buf = "padding") =>
                         Moved(file.whole)'
  BY DEF CopyInOK
<1>1. CASE pc = "off"
  <2>1. PICK o \in Ops, f \in Files : Launch(o, f) \/ UNCHANGED vars
    BY <1>1, IOAssumption DEF Next, Step, pad, rw_pinit, pinitReturns, submits, submitFails,
       poll, sio_waittasks, chunkDone, mainReturns, Crash, Device, IOInv, RunOK, InFlight,
       Faultless, vars
  <2>2. Launch(o, f)
    BY <1>1, <2>1 DEF vars, Faultless
  <2>3. file' = f /\ op' = o /\ pc' = (IF o = "in" /\ f.rest THEN "pad" ELSE "loop")
        /\ todo'.off = 0
    BY <2>2 DEF Launch
  <2>4. Sent' = 0
    BY <2>3 DEF Sent
  <2>5. QED
    BY <2>3, <2>4
<1>2. CASE pc # "off"
  <2>1. /\ Faultless /\ file' = file /\ op' = op /\ faults' = faults
        /\ ~submitFails /\ ~Crash /\ ~mainReturns
    BY <1>2, FaultlessBefore
  <2>2. /\ op = "in" /\ \A b \in 0 .. Sent - 1 : Moved(b)
        /\ file.rest /\ pc # "pad" /\ ~(pc = "submit" /\ req.buf = "padding") =>
             Moved(file.whole)
    BY <2>1 DEF CopyInOK
  <2>3. /\ file \in Files /\ Blocks(file) \in Nat /\ file.whole \in Nat
        /\ file.startBlock \in Nat
        /\ todo.lba = file.startBlock + todo.off /\ todo.off \in Nat
        /\ Sent \in Nat /\ Sent <= Blocks(file) /\ Chunk \in Nat
    BY <1>2, TotalFacts, SentFacts
  <2>4. file.rest => file.whole \in 0 .. Blocks(file) - 1
    BY <2>3, BlocksFacts
  <2>5. /\ req.off \in Nat /\ req.count \in Nat /\ req.lba \in Nat
        /\ req.buf \in {"mem", "padding"}
    BY DEF IOInv, TypeOK
  \* With the disks and the commands as they were, it is enough to look at what is
  \* said to be sent.
  <2>6. ASSUME disk' = disk, queue \subseteq queue', Sent' = Sent,
               pc' = "pad" \/ (pc' = "submit" /\ req'.buf = "padding")
                 \/ ~(pc = "pad" \/ (pc = "submit" /\ req.buf = "padding"))
        PROVE  /\ \A b \in 0 .. Sent' - 1 : Moved(b)'
               /\ file'.rest /\ pc' # "pad" /\ ~(pc' = "submit" /\ req'.buf = "padding") =>
                    Moved(file.whole)'
    <3>1. \A b \in 0 .. Sent' - 1 : Moved(b)'
      BY <2>1, <2>2, <2>6, MovedStays
    <3>2. file.rest /\ Moved(file.whole) => Moved(file.whole)'
      <4>1. PICK w : w = file.whole
        OBVIOUS
      <4>2. Moved(w) => Moved(w)'
        BY <2>1, <2>6, MovedStays
      <4>3. Moved(file.whole)' <=> Moved(w)'
        BY <2>1, <4>1 DEF Moved, Place, Content
      <4>4. QED
        BY <4>1, <4>2, <4>3
    <3>3. QED
      BY <2>1, <2>2, <2>6, <3>1, <3>2
  <2>7. CASE pad
    <3>1. UNCHANGED <<disk, queue, todo>> /\ pc = "pad" /\ pc' = "submit"
          /\ req'.buf = "padding"
      BY <2>7 DEF pad, disk_vars
    <3>2. QED
      BY <2>6, <3>1 DEF Sent
  <2>8. CASE rw_pinit
    <3>1. UNCHANGED <<disk, queue, todo>> /\ pc = "loop" /\ pc' = "submit"
          /\ req'.buf = "mem" /\ req'.off = 0
      BY <2>8 DEF rw_pinit, disk_vars
    <3>2. Sent' = Sent
      BY <2>3, <3>1 DEF Sent
    <3>3. QED
      BY <2>6, <3>1, <3>2
  <2>9. CASE pinitReturns
    <3>1. UNCHANGED <<disk, queue, todo>> /\ pc = "loop" /\ pc' = "exit"
      BY <2>9 DEF pinitReturns, disk_vars
    <3>2. QED
      BY <2>6, <3>1 DEF Sent
  <2>10. CASE submits
    <3>1. /\ pc = "submit" /\ pc' \in {"submit", "poll"}
          /\ queue' = queue \cup {NextCommand}
          /\ UNCHANGED <<disk, file, todo>>
          /\ Piece \in Nat /\ 0 < Piece /\ Piece <= req.count
          /\ req'.off = req.off + Piece /\ req'.buf = req.buf
      BY <2>10, SubmitsFacts
    <3>2. CASE req.buf = "mem"
      <4>1. Sent = todo.off + req.off /\ Sent' = Sent + Piece
        BY <2>3, <2>5, <3>1, <3>2 DEF Sent
      <4>2. req.lba = todo.lba + req.off
        BY <3>1, <3>2 DEF IOInv, ReqOK
      <4>3. ASSUME NEW b \in 0 .. Sent' - 1
            PROVE  Moved(b)'
        <5>1. CASE b < Sent
          <6>1. b \in 0 .. Sent - 1
            BY <2>3, <5>1
          <6>2. QED
            BY <2>2, <3>1, <6>1, MovedStays
        <5>2. CASE ~(b < Sent)
          <6>1. /\ b \in Nat /\ b - Sent \in Nat /\ b - Sent < Piece
                /\ file.startBlock + b = req.lba + (b - Sent)
            BY <2>3, <2>5, <3>1, <4>1, <4>2, <5>2
          <6>2. QED
            BY <2>10, <6>1, MovedSubmits
        <5>3. QED
          BY <5>1, <5>2
      <4>4. PICK w : w = file.whole
        OBVIOUS
      <4>5. file.rest => Moved(w)'
        BY <2>2, <3>1, <3>2, <4>4, MovedStays
      <4>6. Moved(file.whole)' <=> Moved(w)'
        BY <2>1, <4>4 DEF Moved, Place, Content
      <4>7. QED
        BY <2>1, <4>3, <4>5, <4>6
    <3>3. CASE req.buf = "padding"
      <4>1. /\ req.lba = file.startBlock + file.whole + req.off
            /\ req.off + req.count <= 1
        BY <3>1, <3>3 DEF IOInv, ReqOK
      <4>2. Sent' = Sent
        BY <3>1, <3>3 DEF Sent
      <4>3. \A b \in 0 .. Sent' - 1 : Moved(b)'
        BY <2>2, <3>1, <4>2, MovedStays
      <4>4. PICK w : w = file.whole
        OBVIOUS
      <4>5. Moved(w)'
        <5>1. w \in Nat /\ file.startBlock + w = req.lba + 0 /\ 0 \in Nat
          BY <2>3, <2>5, <3>1, <4>1, <4>4
        <5>2. QED
          BY <2>10, <3>1, <5>1, MovedSubmits
      <4>6. Moved(file.whole)' <=> Moved(w)'
        BY <2>1, <4>4 DEF Moved, Place, Content
      <4>7. QED
        BY <4>3, <4>5, <4>6
    <3>4. QED
      BY <2>5, <3>2, <3>3
  <2>11. CASE poll
    <3>1. /\ UNCHANGED <<disk, queue, todo, req>> /\ pc = "poll" /\ Chunk' = Chunk
          /\ pc' = IF req.count > 0 THEN "submit" ELSE AfterCall(FALSE)
      BY <2>11 DEF poll, Chunk
    <3>2. req.buf = "mem" => req.off + req.count = Chunk
      BY <2>1, <3>1 DEF ProgressOK
    <3>3. req.buf = "padding" => req.count = 0
      BY <3>1 DEF ChunkOK
    <3>4. CASE req.buf = "mem"
      <4>1. pc' = (IF req.count > 0 THEN "submit" ELSE "wait")
        BY <3>1, <3>4 DEF AfterCall
      <4>2. Sent' = Sent
        <5>1. Sent = todo.off + req.off
          BY <3>1, <3>4 DEF Sent
        <5>2. CASE req.count > 0
          BY <3>1, <3>4, <4>1, <5>1, <5>2 DEF Sent
        <5>3. CASE ~(req.count > 0)
          <6>1. req.off = Chunk
            BY <2>3, <2>5, <3>2, <3>4, <5>3
          <6>2. Sent' = todo.off + Chunk
            BY <3>1, <4>1, <5>3 DEF Sent
          <6>3. QED
            BY <5>1, <6>1, <6>2
        <5>4. QED
          BY <5>2, <5>3
      <4>3. QED
        BY <2>6, <3>1, <3>4, <4>2
    <3>5. CASE req.buf = "padding"
      <4>1. pc' = "loop"
        BY <2>5, <3>1, <3>3, <3>5 DEF AfterCall
      <4>2. Sent' = Sent
        BY <3>1, <3>5, <4>1 DEF Sent
      <4>3. QED
        BY <2>6, <3>1, <4>1, <4>2
    <3>6. QED
      BY <2>5, <3>4, <3>5
  <2>12. CASE sio_waittasks
    <3>1. UNCHANGED <<disk, queue, todo, req, pc>> /\ pc = "wait" /\ Chunk' = Chunk
      BY <2>12 DEF sio_waittasks, Chunk
    <3>2. QED
      BY <2>6, <3>1 DEF Sent
  <2>13. CASE chunkDone
    <3>1. UNCHANGED <<disk, queue, req>> /\ pc = "wait" /\ pc' = "loop"
          /\ todo'.off = todo.off + Chunk
      BY <2>13 DEF chunkDone, disk_vars
    <3>2. Sent' = Sent
      BY <2>3, <3>1 DEF Sent
    <3>3. QED
      BY <2>6, <3>1, <3>2
  <2>14. CASE Device
    <3>1. PICK c \in queue : Execute(c)
      BY <2>14 DEF Device
    <3>2. UNCHANGED <<pc, req, todo>> /\ Chunk' = Chunk /\ Regular(file)
      BY <2>1, <3>1 DEF Execute, Chunk, Faultless
    <3>3. Sent' = Sent
      BY <3>2 DEF Sent
    <3>4. \A b \in 0 .. Blocks(file) - 1 : Moved(b) => Moved(b)'
      BY <1>2, <2>1, <2>2, <3>1, <3>2, MovedExecute
    <3>5. \A b \in 0 .. Sent' - 1 : Moved(b)'
      <4>1. \A b \in 0 .. Sent - 1 : b \in 0 .. Blocks(file) - 1
        BY <2>3
      <4>2. QED
        BY <2>2, <3>3, <3>4, <4>1
    <3>6. PICK w : w = file.whole
      OBVIOUS
    <3>7. file.rest /\ Moved(w) => Moved(w)'
      BY <2>4, <3>4, <3>6
    <3>8. Moved(file.whole)' <=> Moved(w)'
      BY <2>1, <3>6 DEF Moved, Place, Content
    <3>9. QED
      BY <2>1, <2>2, <3>2, <3>5, <3>6, <3>7, <3>8
  <2>15. CASE UNCHANGED vars
    <3>1. UNCHANGED <<disk, queue, todo, req, pc>> /\ Chunk' = Chunk
      BY <2>15 DEF vars, Chunk
    <3>2. QED
      BY <2>6, <3>1 DEF Sent
  <2>16. QED
    BY <1>2, <2>1, <2>7, <2>8, <2>9, <2>10, <2>11, <2>12, <2>13, <2>14, <2>15
       DEF Next, Step, Launch
<1>3. QED
  BY <1>1, <1>2

-----------------------------------------------------------------------------
(* A copy out of the raid.                                                 *)

\* Only a copy into the raid writes sectors.
LEMMA OutKeepsDisk ==
    ASSUME IOInv, op = "out", [Next]_vars
    PROVE  disk' = disk
<1>1. ASSUME NEW c \in queue, Execute(c)
      PROVE  disk' = disk
  <2>1. ~c.write
    BY DEF IOInv, CommandOK, InFlight
  <2>2. QED
    BY <1>1, <2>1 DEF Execute, Transfer, TransferError
<1>2. QED
  BY <1>1 DEF Next, Step, pad, rw_pinit, pinitReturns, submits, submitFails, poll,
     sio_waittasks, chunkDone, mainReturns, Ends, Crash, Device, Launch, vars, disk_vars

\* A disk that carries out a command leaves in the buffer what it read, and nothing
\* else changes there.
LEMMA GotExecute ==
    ASSUME IOInv, pc # "off", op = "out", Regular(file), faults' = faults,
           NEW c \in queue, Execute(c), ReadsRight(c), NEW i \in 0 .. Chunk - 1, Got(i)
    PROVE  Got(i)'
<1>1. /\ file' = file /\ queue' = queue \ {c} /\ ~c.write /\ todo' = todo
      /\ c.lba \in Nat /\ c.count \in Nat /\ c.disk \in Disks /\ c.off \in Nat
  <2>1. c.lba \in Nat /\ c.count \in Nat /\ c.disk \in Disks /\ c.off \in Nat
    BY CommandTypes DEF IOInv, InFlight
  <2>2. ~c.write
    BY DEF IOInv, CommandOK, InFlight
  <2>3. QED
    BY <2>1, <2>2 DEF Execute, cp_vars
<1>2. /\ todo.off \in Nat /\ todo.count \in Nat /\ Chunk \in Nat /\ Chunk <= todo.count
      /\ Chunk <= GIGASECTORNUM /\ GIGASECTORNUM \in Nat
      /\ Blocks(file) \in Nat /\ todo.off + todo.count <= Blocks(file)
  <2>1. /\ todo.off \in Nat /\ todo.count \in Nat /\ Chunk \in Nat /\ Chunk <= todo.count
        /\ Chunk <= GIGASECTORNUM
        /\ Blocks(file) \in Nat /\ Total \in Nat
        /\ todo.off + todo.count <= Total /\ Total <= Blocks(file)
    BY TotalFacts
  <2>2. QED
    BY <2>1, GigaFacts
<1>3. disk' = disk
  BY <1>1 DEF Execute, Transfer, TransferError
<1>4. Place(file, todo.off + i)' = Place(file, todo.off + i)
  BY <1>1 DEF Place
<1>5. CASE Transfer(c)
  <2>1. i \in MemIdx
    BY <1>2 DEF MemIdx
  <2>2. mem'[i] = IF i \in c.off .. c.off + c.count - 1
                  THEN disk[<<c.disk, c.lba + i - c.off>>] ELSE mem[i]
    BY <1>1, <1>5, <2>1 DEF Transfer
  <2>3. CASE i \in c.off .. c.off + c.count - 1
    <3>1. PICK j : j = i - c.off
      OBVIOUS
    <3>2. j \in 0 .. c.count - 1 /\ c.lba + i - c.off = c.lba + j
          /\ todo.off + c.off + j = todo.off + i
      BY <1>1, <1>2, <2>3, <3>1
    <3>3. Place(file, todo.off + c.off + j) = <<c.disk, c.lba + j>>
      BY <3>2 DEF ReadsRight
    <3>4. mem'[i] = disk[Place(file, todo.off + i)]
      BY <2>2, <2>3, <3>2, <3>3
    <3>5. QED
      BY <1>1, <1>3, <1>4, <3>4 DEF Got
  <2>4. CASE i \notin c.off .. c.off + c.count - 1
    <3>1. mem'[i] = mem[i]
      BY <2>2, <2>4
    <3>2. CASE mem[i] = disk[Place(file, todo.off + i)]
      BY <1>3, <1>4, <3>1, <3>2 DEF Got
    <3>3. CASE \E d \in queue : i \in d.off .. d.off + d.count - 1
      BY <1>1, <2>4, <3>3 DEF Got
    <3>4. QED
      BY <3>2, <3>3 DEF Got
  <2>5. QED
    BY <2>3, <2>4
<1>6. CASE TransferError(c)
  <2>1. mem' = mem /\ c.lba + c.count > DiskSectors[c.disk]
    <3>1. faults \in Nat
      BY DEF IOInv, TypeOK
    <3>2. QED
      BY <1>6, <3>1 DEF TransferError
  <2>2. c.count = 0
    <3> SUFFICES ASSUME c.count > 0
                 PROVE  FALSE
      BY <1>1
    <3>1. PICK b : b = todo.off + c.off + (c.count - 1)
      OBVIOUS
    <3>2. c.count - 1 \in 0 .. c.count - 1 /\ b \in 0 .. Blocks(file) - 1
      BY <1>1, <1>2, <3>1 DEF ReadsRight
    <3>3. Place(file, b) = <<c.disk, c.lba + (c.count - 1)>>
      BY <3>1, <3>2 DEF ReadsRight
    <3>4. c.lba + c.count <= DiskSectors[c.disk]
      BY <3>2, <3>3, InsideDisk DEF IOInv
    <3>5. DiskSectors[c.disk] \in Nat
      BY <1>1, IOAssumption DEF Disks
    <3>6. QED
      BY <1>1, <2>1, <3>4, <3>5
  <2>3. CASE mem[i] = disk[Place(file, todo.off + i)]
    BY <1>3, <1>4, <2>1, <2>3 DEF Got
  <2>4. CASE \E d \in queue : i \in d.off .. d.off + d.count - 1
    <3>1. PICK d \in queue : i \in d.off .. d.off + d.count - 1
      BY <2>4
    <3>2. d # c
      BY <1>1, <2>2, <3>1
    <3>3. QED
      BY <1>1, <3>1, <3>2 DEF Got
  <2>5. QED
    BY <2>3, <2>4 DEF Got
<1>7. QED
  BY <1>5, <1>6 DEF Execute

\* Without a new chunk, nothing that was asked for is lost.
LEMMA GotStays ==
    ASSUME NEW i, Got(i), UNCHANGED <<disk, file, mem, todo>>, queue \subseteq queue'
    PROVE  Got(i)'
<1>1. Place(file, todo.off + i)' = Place(file, todo.off + i)
  BY DEF Place
<1>2. QED
  BY <1>1 DEF Got

LEMMA CopyOutNext == IOInv /\ ProgressOK /\ CopyOutOK /\ [Next]_vars => CopyOutOK'
<1> SUFFICES ASSUME IOInv, ProgressOK, CopyOutOK, [Next]_vars, Faultless', op' = "out"
             PROVE  /\ DOMAIN out' = 0 .. Blocks(file)' - 1
                    /\ \A b \in 0 .. todo'.off - 1 : out'[b] = disk'[Place(file, b)']
                    /\ \A i \in 0 .. Sent' - todo'.off - 1 : Got(i)'
                    /\ \A c \in InFlight' : ReadsRight(c)'
  BY DEF CopyOutOK
<1>1. CASE pc = "off"
  <2>1. PICK o \in Ops, f \in Files : Launch(o, f) \/ UNCHANGED vars
    BY <1>1, IOAssumption DEF Next, Step, pad, rw_pinit, pinitReturns, submits, submitFails,
       poll, sio_waittasks, chunkDone, mainReturns, Crash, Device, IOInv, RunOK, InFlight,
       Faultless, vars
  <2>2. Launch(o, f)
    BY <1>1, <2>1 DEF vars, Faultless
  <2>3. file' = f /\ op' = o /\ pc' = "loop" /\ todo'.off = 0
        /\ out' = [b \in 0 .. Blocks(f) - 1 |-> NoData]
    BY <2>2 DEF Launch
  <2>4. Sent' = 0 /\ Blocks(file)' = Blocks(f)
    BY <2>3 DEF Sent, Blocks
  <2>5. InFlight' = {}
    BY <1>1, <2>2 DEF Launch, disk_vars, IOInv, RunOK, InFlight
  <2>6. QED
    BY <2>3, <2>4, <2>5
<1>2. CASE pc # "off"
  <2>1. /\ Faultless /\ file' = file /\ op' = op /\ faults' = faults /\ op = "out"
        /\ ~submitFails /\ ~Crash /\ ~mainReturns
    BY <1>2, FaultlessBefore
  <2>2. /\ DOMAIN out = 0 .. Blocks(file) - 1
        /\ \A b \in 0 .. todo.off - 1 : out[b] = disk[Place(file, b)]
        /\ \A i \in 0 .. Sent - todo.off - 1 : Got(i)
        /\ \A c \in InFlight : ReadsRight(c)
    BY <2>1 DEF CopyOutOK
  <2>3. /\ file \in Files /\ Blocks(file) \in Nat /\ file.startBlock \in Nat
        /\ todo.lba = file.startBlock + todo.off /\ todo.lba \in Nat
        /\ todo.off \in Nat /\ todo.count \in Nat
        /\ Chunk \in Nat /\ Chunk <= todo.count /\ todo.off + todo.count <= Blocks(file)
        /\ Sent \in Nat /\ todo.off <= Sent /\ Sent <= todo.off + Chunk
    <3>1. /\ Total \in Nat /\ Total <= Blocks(file) /\ todo.off + todo.count <= Total
          /\ file \in Files /\ Blocks(file) \in Nat /\ file.startBlock \in Nat
          /\ todo.lba = file.startBlock + todo.off /\ todo.lba \in Nat
          /\ todo.off \in Nat /\ todo.count \in Nat
          /\ Chunk \in Nat /\ Chunk <= todo.count
      BY <1>2, TotalFacts
    <3>2. Sent \in Nat /\ todo.off <= Sent /\ Sent <= todo.off + Chunk
      BY <1>2, SentFacts
    <3>3. QED
      BY <3>1, <3>2
  <2>4. /\ req.off \in Nat /\ req.count \in Nat /\ req.lba \in Nat
        /\ req.buf \in {"mem", "padding"}
        /\ pc \in {"submit", "poll"} => req.buf = "mem"
        /\ pc # "pad"
    BY <2>1 DEF IOInv, TypeOK, ReqOK, RunOK
  <2>5. disk' = disk /\ Blocks(file)' = Blocks(file)
        /\ \A b : Place(file, b)' = Place(file, b)
    BY <2>1, OutKeepsDisk DEF Blocks, Place
  \* With the buffer and the commands as they were, it is enough to look at what is
  \* said to be sent.
  <2>6. ASSUME UNCHANGED <<out, todo, mem>>, queue \subseteq queue',
               InFlight' \subseteq InFlight, Sent' = Sent
        PROVE  /\ DOMAIN out' = 0 .. Blocks(file)' - 1
               /\ \A b \in 0 .. todo'.off - 1 : out'[b] = disk'[Place(file, b)']
               /\ \A i \in 0 .. Sent' - todo'.off - 1 : Got(i)'
               /\ \A c \in InFlight' : ReadsRight(c)'
    <3>1. Chunk' = Chunk
      BY <2>6 DEF Chunk
    <3>2. \A i \in 0 .. Sent' - todo'.off - 1 : Got(i)'
      BY <2>1, <2>2, <2>5, <2>6, GotStays
    <3>3. \A c \in InFlight' : ReadsRight(c)'
      BY <2>1, <2>2, <2>6, <3>1 DEF ReadsRight, Place
    <3>4. QED
      BY <2>2, <2>5, <2>6, <3>2, <3>3
  <2>7. CASE rw_pinit
    <3>1. UNCHANGED <<queue, executed, todo, out>> /\ pc = "loop" /\ pc' = "submit"
          /\ req'.buf = "mem" /\ req'.off = 0
      BY <2>7 DEF rw_pinit, disk_vars
    <3>2. InFlight' = {}
      BY <2>2, <3>1 DEF IOInv, QuietOK, ReadsRight, InFlight
    <3>3. Sent' = todo.off
      BY <2>3, <3>1 DEF Sent
    <3>4. QED
      BY <2>2, <2>3, <2>5, <3>1, <3>2, <3>3
  <2>8. CASE pinitReturns
    <3>1. UNCHANGED <<queue, executed, todo, out, mem>> /\ pc = "loop" /\ pc' = "exit"
      BY <2>8 DEF pinitReturns, disk_vars, buf_vars
    <3>2. QED
      BY <2>6, <3>1 DEF Sent, InFlight
  <2>9. CASE submits
    <3>1. /\ pc = "submit" /\ pc' \in {"submit", "poll"}
          /\ queue' = queue \cup {NextCommand} /\ InFlight' = InFlight \cup {NextCommand}
          /\ UNCHANGED <<disk, file, todo, out, mem>>
          /\ Piece \in Nat /\ 0 < Piece /\ Piece <= req.count
          /\ req'.off = req.off + Piece /\ req'.buf = req.buf
          /\ NextCommand.off = req.off /\ NextCommand.count = Piece
          /\ NextCommand.buf = req.buf
      BY <2>9, SubmitsFacts
    <3>2. /\ req.buf = "mem" /\ req.lba = todo.lba + req.off
          /\ req.off + req.count <= Chunk /\ Chunk' = Chunk
      BY <2>4, <3>1 DEF IOInv, ReqOK, Chunk
    <3>3. Sent = todo.off + req.off /\ Sent' = Sent + Piece
      BY <2>3, <2>4, <3>1, <3>2 DEF Sent
    <3>4. PICK n : n = NextCommand
      OBVIOUS
    <3>5. n.off = req.off /\ n.count = Piece /\ n.buf = "mem" /\ n \in queue'
          /\ InFlight' = InFlight \cup {n}
      BY <3>1, <3>2, <3>4
    <3>6. ASSUME NEW i \in 0 .. Piece - 1
          PROVE  Place(file, todo.off + n.off + i) = <<n.disk, n.lba + i>>
      <4>1. /\ i \in Nat /\ i < Piece /\ todo.off + n.off + i \in Nat
            /\ file.startBlock + (todo.off + n.off + i) = req.lba + i
        BY <2>3, <2>4, <3>1, <3>2, <3>5
      <4>2. QED
        BY <3>1, <3>4, <4>1, NextPlaces
    <3>7. ReadsRight(n)
      BY <2>3, <2>4, <3>1, <3>2, <3>5, <3>6 DEF ReadsRight
    <3>8. \A c \in InFlight' : ReadsRight(c)'
      BY <2>1, <2>2, <3>1, <3>2, <3>5, <3>7 DEF ReadsRight, Place
    <3>9. ASSUME NEW i \in 0 .. Sent' - todo'.off - 1
          PROVE  Got(i)'
      <4>1. CASE i < req.off
        <5>1. i \in 0 .. Sent - todo.off - 1
          BY <2>3, <2>4, <3>3, <4>1
        <5>2. QED
          BY <2>2, <3>1, <5>1, GotStays
      <4>2. CASE ~(i < req.off)
        <5>1. i \in n.off .. n.off + n.count - 1
          BY <2>3, <2>4, <3>1, <3>3, <3>5, <4>2
        <5>2. QED
          BY <3>5, <5>1 DEF Got
      <4>3. QED
        BY <4>1, <4>2
    <3>10. QED
      BY <2>2, <2>5, <3>1, <3>8, <3>9
  <2>10. CASE poll
    <3>1. /\ UNCHANGED <<queue, todo, req, out, mem>> /\ executed' = {} /\ pc = "poll"
          /\ Chunk' = Chunk
          /\ pc' = IF req.count > 0 THEN "submit" ELSE AfterCall(FALSE)
      BY <2>10 DEF poll, processCompletions, buf_vars, Chunk
    <3>2. req.buf = "mem" /\ req.off + req.count = Chunk
      BY <2>1, <2>4, <3>1 DEF ProgressOK
    <3>3. pc' = (IF req.count > 0 THEN "submit" ELSE "wait")
      BY <3>1, <3>2 DEF AfterCall
    <3>4. Sent = todo.off + req.off
      BY <3>1, <3>2 DEF Sent
    <3>5. Sent' = Sent
      <4>1. CASE req.count > 0
        BY <3>1, <3>2, <3>3, <3>4, <4>1 DEF Sent
      <4>2. CASE ~(req.count > 0)
        <5>1. req.off = Chunk
          BY <2>3, <2>4, <3>2, <4>2
        <5>2. Sent' = todo.off + Chunk
          BY <3>1, <3>3, <4>2 DEF Sent
        <5>3. QED
          BY <3>4, <5>1, <5>2
      <4>3. QED
        BY <4>1, <4>2
    <3>6. QED
      BY <2>6, <3>1, <3>5 DEF InFlight
  <2>11. CASE sio_waittasks
    <3>1. UNCHANGED <<queue, todo, req, pc, out, mem>> /\ pc = "wait" /\ Chunk' = Chunk
          /\ executed' = {}
      BY <2>11 DEF sio_waittasks, processCompletions, buf_vars, Chunk
    <3>2. QED
      BY <2>6, <3>1 DEF Sent, InFlight
  <2>12. CASE chunkDone
    <3>1. /\ UNCHANGED <<queue, executed, mem>> /\ pc = "wait" /\ pc' = "loop"
          /\ todo'.off = todo.off + Chunk
          /\ out' = [b \in DOMAIN out |->
                       IF b \in todo.off .. todo.off + Chunk - 1
                       THEN mem[b - todo.off] ELSE out[b]]
      BY <2>1, <2>12 DEF chunkDone, disk_vars
    <3>2. queue = {} /\ InFlight' = {}
      BY <2>12, NothingLeft DEF chunkDone, disk_vars, IOInv, InFlight
    <3>3. Sent = todo.off + Chunk /\ Sent' = todo'.off
      BY <2>3, <3>1 DEF Sent
    <3>4. ASSUME NEW b \in 0 .. todo'.off - 1
          PROVE  out'[b] = disk'[Place(file, b)']
      <4>1. b \in DOMAIN out
        BY <2>2, <2>3, <3>1
      <4>2. CASE b < todo.off
        <5>1. out'[b] = out[b] /\ b \in 0 .. todo.off - 1
          BY <2>3, <3>1, <4>1, <4>2
        <5>2. QED
          BY <2>2, <2>5, <5>1
      <4>3. CASE ~(b < todo.off)
        <5>1. PICK i : i = b - todo.off
          OBVIOUS
        <5>2. i \in 0 .. Sent - todo.off - 1 /\ todo.off + i = b
              /\ b \in todo.off .. todo.off + Chunk - 1
          BY <2>3, <3>1, <3>3, <4>3, <5>1
        <5>3. out'[b] = mem[i]
          BY <3>1, <4>1, <5>1, <5>2
        <5>4. mem[i] = disk[Place(file, b)]
          BY <2>2, <3>2, <5>2 DEF Got
        <5>5. QED
          BY <2>5, <5>3, <5>4
      <4>4. QED
        BY <4>2, <4>3
    <3>5. DOMAIN out' = DOMAIN out /\ 0 .. Sent' - todo'.off - 1 = {}
      <4>1. todo'.off \in Nat /\ Sent' - todo'.off - 1 = -1
        BY <2>3, <3>1, <3>3
      <4>2. QED
        BY <3>1, <4>1
    <3>6. QED
      BY <2>2, <2>5, <3>2, <3>4, <3>5
  <2>13. CASE Device
    <3>1. PICK c \in queue : Execute(c)
      BY <2>13 DEF Device
    <3>2. UNCHANGED <<pc, req, todo, out>> /\ Chunk' = Chunk /\ Regular(file)
          /\ InFlight' = InFlight
      BY <2>1, <3>1 DEF Execute, Chunk, Faultless, InFlight
    <3>3. Sent' = Sent
      BY <3>2 DEF Sent
    <3>4. \A x \in InFlight' : ReadsRight(x)'
      BY <2>1, <2>2, <3>2 DEF ReadsRight, Place
    <3>5. ReadsRight(c)
      BY <2>2, <3>1 DEF InFlight
    <3>6. \A i \in 0 .. Sent' - todo'.off - 1 : Got(i)'
      <4>1. \A i \in 0 .. Sent' - todo'.off - 1 : i \in 0 .. Chunk - 1 /\ Got(i)
        BY <2>2, <2>3, <3>2, <3>3
      <4>2. \A i \in 0 .. Chunk - 1 : Got(i) => Got(i)'
        BY <1>2, <2>1, <3>1, <3>2, <3>5, GotExecute
      <4>3. QED
        BY <4>1, <4>2
    <3>7. QED
      BY <2>2, <2>5, <3>2, <3>4, <3>6
  <2>14. CASE UNCHANGED vars
    <3>1. UNCHANGED <<queue, executed, todo, req, pc, out, mem>> /\ Chunk' = Chunk
      BY <2>14 DEF vars, Chunk
    <3>2. QED
      BY <2>6, <3>1 DEF Sent, InFlight
  <2>15. QED
    BY <1>2, <2>1, <2>4, <2>7, <2>8, <2>9, <2>10, <2>11, <2>12, <2>13, <2>14
       DEF Next, Step, Launch, pad
<1>3. QED
  BY <1>1, <1>2

-----------------------------------------------------------------------------
(* What a copy has done when it ends.                                      *)

\* All that is said of a copy under way, of both directions, with or without faults.
THEOREM CopyInvCorrect == Spec => []CopyInv
<1>1. Init => CopyInv
  <2>1. Init => ~Faultless
    BY DEF Init, Faultless
  <2>2. QED
    BY <2>1, InitSafe, ChunkInit DEF CopyInv, ProgressOK, CopyInOK, CopyOutOK
<1>2. CopyInv /\ [Next]_vars => CopyInv'
  BY IOInvStep, ChunkNext, ProgressNext, CopyInNext, CopyOutNext DEF CopyInv
<1>3. QED
  BY <1>1, <1>2, PTL DEF Spec

\* A cp into the raid that ends without a failure (cp.c:212-231) has put every block
\* of the file in its place: for every number of disks and size of super-sector, and
\* for every file that fits and has a whole sector.
THEOREM CopiedInCorrect == Spec => []CopiedIn
<1>1. CopyInv => CopiedIn
  <2> SUFFICES ASSUME CopyInv, pc = "exit", op = "in", faults = 0, Regular(file),
                      file.whole > 0, NEW b \in 0 .. Blocks(file) - 1
               PROVE  Place(file, b) \in Sectors /\ disk[Place(file, b)] = Content(file, b)
    BY DEF CopiedIn, InRaid
  <2>1. Faultless /\ IOInv /\ Place(file, b) \in Sectors
    BY DEF CopyInv, Faultless, Regular
  <2>2. file \in Files /\ file.whole \in Nat /\ todo.off \in Nat
    BY <2>1, TotalFacts
  <2>3. todo.off = file.whole /\ InFlight = {}
    BY <2>1, <2>2 DEF CopyInv, ProgressOK, Total
  <2>4. Sent = file.whole
    BY <2>2, <2>3 DEF Sent
  <2>5. b \in 0 .. file.whole - 1 \/ (file.rest /\ b = file.whole)
    BY <2>2, BlocksFacts DEF Blocks
  <2>6. Moved(b)
    BY <2>1, <2>4, <2>5 DEF CopyInv, CopyInOK
  <2>7. QED
    BY <2>1, <2>3, <2>6 DEF Moved, InFlight
<1>2. QED
  BY <1>1, CopyInvCorrect, PTL

\* A cp out of the raid that ends without a failure (cp.c:247-274) has given the file
\* of the system what the raid holds in the places of its blocks.
THEOREM CopiedOutCorrect == Spec => []CopiedOut
<1>1. CopyInv => CopiedOut
  <2> SUFFICES ASSUME CopyInv, pc = "exit", op = "out", faults = 0, Regular(file),
                      NEW b \in 0 .. Blocks(file) - 1
               PROVE  out[b] = disk[Place(file, b)]
    BY DEF CopiedOut
  <2>1. Faultless /\ IOInv
    BY DEF CopyInv, Faultless
  <2>2. Blocks(file) \in Nat /\ todo.off \in Nat
    BY <2>1, TotalFacts
  <2>3. todo.off = Blocks(file)
    BY <2>1, <2>2 DEF CopyInv, ProgressOK, Total
  <2>4. QED
    BY <2>1, <2>3 DEF CopyInv, CopyOutOK
<1>2. QED
  BY <1>1, CopyInvCorrect, PTL
=============================================================================

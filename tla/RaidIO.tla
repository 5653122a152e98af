------------------------------- MODULE RaidIO -------------------------------
(***************************************************************************)
(* The content of the files: cp copies a file into the raid or out of it   *)
(* through the asynchronous transfers of simpleio.c.  A transfer is cut    *)
(* into commands that stay inside one super-sector; the disks carry them   *)
(* out in any order, and the process learns of it only when it polls.      *)
(*                                                                         *)
(* A file is an extent of blocks that RaidFS has given to it.              *)
(***************************************************************************)
EXTENDS Striping, FiniteSets, FiniteSetsExt

CONSTANTS
    NumDisks,      \* nvmeRaid.numdisks
    DiskSectors,   \* sectors of each disk, which need not be of one size
    Files,         \* [startBlock, whole, rest]: whole blocks, and whether a
                   \* part of a block follows
    NoFile,        \* no file is being copied
    NoData,        \* what a sector or a buffer holds before it is written
    Ops,           \* the directions cp is used in: "in", "out"
    Word32,        \* 2^32, the modulus of the parameter lba_count
    MaxFaults,     \* bound: failures and crashes of a behaviour
    SubmitFaults,  \* whether a command may be refused
    DeviceFaults   \* whether a command may complete with an error

ASSUME IOAssumption ==
    /\ NumDisks \in Nat \ {0}
    /\ DiskSectors \in [0 .. NumDisks - 1 -> Nat]
    /\ Files \subseteq [startBlock : Nat, whole : Nat, rest : BOOLEAN]
    /\ NoFile \notin Files
    /\ Ops \subseteq {"in", "out"}
    /\ Word32 \in Nat \ {0}
    /\ MaxFaults \in Nat
    /\ SubmitFaults \in BOOLEAN
    /\ DeviceFaults \in BOOLEAN

VARIABLES
    disk,            \* what every sector of every disk holds
    queue,           \* commands the disks have still to carry out
    executed,        \* commands carried out that no poll has seen
    task_scheduled,
    task_completed,
    mem,             \* the pinned buffer of sio_rread_pinit, sio_rwrite_pinit
    padding,         \* the pinned sector for the end of the file
    out,             \* the file of the system that is written
    op, file,        \* what cp was asked for
    pc,
    todo,            \* lba, lba_count and payload in sio_rread_pinit and the like
    req,             \* the same in sio_rread, sio_rwrite
    looped,          \* whether their loop has sent a command
    faults           \* failures and crashes so far

disk_vars == <<disk, queue, executed>>
task_vars == <<task_scheduled, task_completed>>
buf_vars  == <<mem, padding, out>>
cp_vars   == <<op, file>>
vars == <<disk, queue, executed, task_scheduled, task_completed, mem, padding, out,
          op, file, pc, todo, req, looped, faults>>

GIGASECTORNUM == SUPERSECTORNUM * NumDisks

Disks   == 0 .. NumDisks - 1
Sectors == UNION {{d} \X (0 .. DiskSectors[d] - 1) : d \in Disks}
MemIdx  == 0 .. GIGASECTORNUM - 1

Blocks(f) == f.whole + IF f.rest THEN 1 ELSE 0

Place(f, b) == Location(NumDisks, f.startBlock + b)

\* Block b of the file of the system.
Content(f, b) == <<f.startBlock, b>>

Data == {NoData} \cup UNION {{Content(f, b) : b \in 0 .. Blocks(f) - 1} : f \in Files}

Command == [id : Nat, write : BOOLEAN, disk : Disks, lba : Nat, count : Nat,
            buf : {"mem", "padding"}, off : Nat]

NoTransfer == [lba |-> 0, count |-> 0, off |-> 0]
NoRequest  == [lba |-> 0, count |-> 0, off |-> 0, buf |-> "mem"]
NoBuffer   == [i \in MemIdx |-> NoData]

-----------------------------------------------------------------------------
Init ==
    /\ disk = [p \in Sectors |-> NoData]
    /\ queue = {} /\ executed = {}
    /\ task_scheduled = 0 /\ task_completed = 0
    /\ mem = NoBuffer /\ padding = NoData /\ out = <<>>
    /\ op = "none" /\ file = NoFile /\ pc = "off"
    /\ todo = NoTransfer /\ req = NoRequest /\ looped = FALSE
    /\ faults = 0

\* The process ends; its queues are gone with it.
Ends ==
    /\ queue' = {} /\ executed' = {}
    /\ task_scheduled' = 0 /\ task_completed' = 0
    /\ mem' = NoBuffer /\ padding' = NoData /\ out' = <<>>
    /\ op' = "none" /\ file' = NoFile /\ pc' = "off"
    /\ todo' = NoTransfer /\ req' = NoRequest /\ looped' = FALSE
    /\ UNCHANGED disk

\* app_run, up to the first transfer.
Launch(o, f) ==
    /\ pc = "off"
    /\ op' = o
    /\ file' = f
    /\ todo' = [lba   |-> f.startBlock,
                count |-> (IF o = "in" THEN f.whole ELSE Blocks(f)) % Word32,
                off   |-> 0]
    /\ out' = IF o = "out" THEN [b \in 0 .. Blocks(f) - 1 |-> NoData] ELSE <<>>
    /\ pc' = IF o = "in" /\ f.rest THEN "pad" ELSE "loop"
    /\ UNCHANGED <<disk_vars, task_vars, mem, padding, req, looped, faults>>

\* The end of the file is padded to a sector, which is written on its own.
pad ==
    /\ pc = "pad"
    /\ padding' = Content(file, file.whole)
    /\ req' = [lba |-> file.startBlock + file.whole, count |-> 1, off |-> 0,
               buf |-> "padding"]
    /\ looped' = FALSE
    /\ pc' = "submit"
    /\ UNCHANGED <<disk_vars, task_vars, mem, out, cp_vars, todo, faults>>

\* How much of the file one turn of the loop of sio_rwrite_pinit moves.
Chunk == IF todo.count >= GIGASECTORNUM THEN GIGASECTORNUM ELSE todo.count

\* The loop of sio_rread_pinit or sio_rwrite_pinit calls sio_rread or sio_rwrite.
rw_pinit ==
    /\ pc = "loop"
    /\ todo.count > 0
    /\ mem' = IF op = "in"
              THEN [i \in MemIdx |->
                      IF i < Chunk THEN Content(file, todo.off + i) ELSE mem[i]]
              ELSE mem
    /\ req' = [lba |-> todo.lba, count |-> Chunk, off |-> 0, buf |-> "mem"]
    /\ looped' = FALSE
    /\ pc' = "submit"
    /\ UNCHANGED <<disk_vars, task_vars, padding, out, cp_vars, todo, faults>>

pinitReturns ==
    /\ pc = "loop"
    /\ todo.count = 0
    /\ pc' = "exit"
    /\ UNCHANGED <<disk_vars, task_vars, buf_vars, cp_vars, todo, req, looped, faults>>

-----------------------------------------------------------------------------
(* sio_rread and sio_rwrite, with their calls of themselves for the head   *)
(* and the tail of a transfer unrolled.                                    *)

\* Mutant: where the first block is in its super-sector is forgotten.
PieceUnaligned ==
    IF req.count <= SUPERSECTORNUM THEN req.count ELSE SUPERSECTORNUM

\* How many blocks the next command moves.
Piece ==
    LET room == SUPERSECTORNUM - (req.lba % SUPERSECTORNUM)
    IN  IF req.count <= room THEN req.count ELSE room

\* The next command is one of the loop over whole super-sectors.
InLoop == req.lba % SUPERSECTORNUM = 0 /\ req.count >= SUPERSECTORNUM

Outstanding(d) == {c \in queue \cup executed : c.disk = d}

NextDisk == super_getdisk(NumDisks, req.lba)

NextCommand ==
    [id |-> task_scheduled, write |-> op = "in", disk |-> NextDisk,
     lba |-> super_getdisklba(NumDisks, req.lba), count |-> Piece,
     buf |-> req.buf, off |-> req.off]

\* Where app_run or the loop of sio_rwrite_pinit goes on.
AfterCall(failed) ==
    IF req.buf = "padding" THEN "loop"
    ELSE IF failed /\ todo.count >= GIGASECTORNUM THEN "exit" ELSE "wait"

\* Mutant: the command is not counted.
submitsUncounted ==
    /\ pc = "submit"
    /\ queue' = queue \cup {NextCommand}
    /\ req' = [req EXCEPT !.lba = @ + Piece, !.count = @ - Piece, !.off = @ + Piece]
    /\ looped' = (looped \/ InLoop)
    /\ pc' = IF InLoop /\ req.count > Piece THEN "submit" ELSE "poll"
    /\ UNCHANGED <<disk, executed, task_vars, buf_vars, cp_vars, todo, faults>>

\* Mutant: the tail of a transfer is left out.
submitsNoTail ==
    /\ pc = "submit"
    /\ queue' = queue \cup {NextCommand}
    /\ task_scheduled' = task_scheduled + 1
    /\ req' = [req EXCEPT !.lba = @ + Piece, !.count = 0, !.off = @ + Piece]
    /\ looped' = (looped \/ InLoop)
    /\ pc' = "poll"
    /\ UNCHANGED <<disk, executed, task_completed, buf_vars, cp_vars, todo, faults>>

\* A command is queued.  Only the loop goes on without a poll.
submits ==
    /\ pc = "submit"
    /\ queue' = queue \cup {NextCommand}
    /\ task_scheduled' = task_scheduled + 1
    /\ req' = [req EXCEPT !.lba = @ + Piece, !.count = @ - Piece, !.off = @ + Piece]
    /\ looped' = (looped \/ InLoop)
    /\ pc' = IF InLoop /\ req.count > Piece THEN "submit" ELSE "poll"
    /\ UNCHANGED <<disk, executed, task_completed, buf_vars, cp_vars, todo, faults>>

\* Mutant: a command that was refused is counted all the same.
submitFailsCounted ==
    /\ pc = "submit"
    /\ SubmitFaults /\ faults < MaxFaults
    /\ faults' = faults + 1
    /\ task_scheduled' = task_scheduled + 1
    /\ pc' = AfterCall(TRUE)
    /\ req' = NoRequest
    /\ UNCHANGED <<disk_vars, task_completed, buf_vars, cp_vars, todo, looped>>

\* SPDK refuses a command: it never does so for want of room, since QueueBounded
\* holds.  The result is dropped when it was the tail after the
\* loop; otherwise every call returns it at once, without a poll.
submitFails ==
    /\ pc = "submit"
    /\ SubmitFaults
    /\ faults < MaxFaults
    /\ faults' = faults + 1
    /\ LET tail == looped /\ ~InLoop
       IN  /\ pc' = IF tail THEN "poll" ELSE AfterCall(TRUE)
           /\ req' = [req EXCEPT !.count = 0]
    /\ UNCHANGED <<disk_vars, task_vars, buf_vars, cp_vars, todo, looped>>

\* spdk_nvme_qpair_process_completions on all the disks calls the callbacks of
\* the commands that are done.
processCompletions ==
    /\ executed' = {}
    /\ task_completed' = task_completed + Cardinality(executed)

\* "check completations" and the return, or the call for the aligned rest.
poll ==
    /\ pc = "poll"
    /\ processCompletions
    /\ pc' = IF req.count > 0 THEN "submit" ELSE AfterCall(FALSE)
    /\ UNCHANGED <<disk, queue, task_scheduled, buf_vars, cp_vars, todo, req, looped, faults>>

sio_waittasks ==
    /\ pc = "wait"
    /\ task_scheduled > task_completed
    /\ executed # {}
    /\ processCompletions
    /\ UNCHANGED <<disk, queue, task_scheduled, buf_vars, cp_vars, pc, todo, req, looped, faults>>

\* Mutant: the chunk is done as soon as its commands are queued.
chunkDoneEarly ==
    /\ pc = "wait"
    /\ todo' = [lba |-> todo.lba + Chunk, count |-> todo.count - Chunk,
                off |-> todo.off + Chunk]
    /\ out' = IF op = "out"
              THEN [b \in DOMAIN out |->
                      IF b \in todo.off .. todo.off + Chunk - 1
                      THEN mem[b - todo.off] ELSE out[b]]
              ELSE out
    /\ pc' = "loop"
    /\ UNCHANGED <<disk_vars, task_vars, mem, padding, cp_vars, req, looped, faults>>

\* sio_waittasks returns; what was read is copied to the file.
chunkDone ==
    /\ pc = "wait"
    /\ task_scheduled <= task_completed
    /\ todo' = [lba |-> todo.lba + Chunk, count |-> todo.count - Chunk,
                off |-> todo.off + Chunk]
    /\ out' = IF op = "out"
              THEN [b \in DOMAIN out |->
                      IF b \in todo.off .. todo.off + Chunk - 1
                      THEN mem[b - todo.off] ELSE out[b]]
              ELSE out
    /\ pc' = "loop"
    /\ UNCHANGED <<disk_vars, task_vars, mem, padding, cp_vars, req, looped, faults>>

mainReturns ==
    /\ pc = "exit"
    /\ Ends
    /\ UNCHANGED faults

Crash ==
    /\ pc # "off"
    /\ faults < MaxFaults
    /\ faults' = faults + 1
    /\ Ends

-----------------------------------------------------------------------------
(* The disks.                                                              *)

BufferAt(c, i) == IF c.buf = "padding" THEN padding ELSE mem[c.off + i]

\* The disk moves the sectors of command c and reports that it did.
Transfer(c) ==
    /\ c.lba + c.count <= DiskSectors[c.disk]
    /\ IF c.write
       THEN /\ disk' = [p \in Sectors |->
                          IF p[1] = c.disk /\ p[2] \in c.lba .. c.lba + c.count - 1
                          THEN BufferAt(c, p[2] - c.lba) ELSE disk[p]]
            /\ UNCHANGED mem
       ELSE /\ mem' = [i \in MemIdx |->
                         IF i \in c.off .. c.off + c.count - 1
                         THEN disk[<<c.disk, c.lba + i - c.off>>] ELSE mem[i]]
            /\ UNCHANGED disk
    /\ UNCHANGED faults

\* The disk reports an error, which the callback does not look at: the command
\* is beyond its last sector, or something went wrong.
TransferError(c) ==
    /\ \/ /\ c.lba + c.count > DiskSectors[c.disk]
          /\ UNCHANGED faults
       \/ /\ DeviceFaults
          /\ faults < MaxFaults
          /\ faults' = faults + 1
    /\ UNCHANGED <<disk, mem>>

Execute(c) ==
    /\ Transfer(c) \/ TransferError(c)
    /\ queue' = queue \ {c}
    /\ executed' = executed \cup {c}
    /\ UNCHANGED <<task_vars, padding, out, cp_vars, pc, todo, req, looped>>

-----------------------------------------------------------------------------
Step ==
    \/ pad
    \/ rw_pinit
    \/ pinitReturns
    \/ submits
    \/ submitFails
    \/ poll
    \/ sio_waittasks
    \/ chunkDone
    \/ mainReturns

Device == \E c \in queue : Execute(c)

Next == Step \/ Device \/ Crash \/ \E o \in Ops, f \in Files : Launch(o, f)

Spec == Init /\ [][Next]_vars

\* The process is scheduled and every command is answered.
FairSpec == Spec /\ WF_vars(Step) /\ WF_vars(Device)
-----------------------------------------------------------------------------
(* Properties.                                                             *)

\* The variables have the types of the C declarations.
TypeOK ==
    /\ disk \in [Sectors -> Data]
    /\ queue \subseteq Command
    /\ executed \subseteq Command
    /\ task_scheduled \in Nat
    /\ task_completed \in Nat
    /\ mem \in [MemIdx -> Data]
    /\ padding \in Data
    /\ op \in {"in", "out", "none"}
    /\ file \in Files \cup {NoFile}
    /\ pc \in {"off", "pad", "loop", "submit", "poll", "wait", "exit"}
    /\ todo \in [lba : Nat, count : Nat, off : Nat]
    /\ req \in [lba : Nat, count : Nat, off : Nat, buf : {"mem", "padding"}]
    /\ looped \in BOOLEAN
    /\ faults \in Nat

\* As long as a disk may take data from a buffer, the buffer holds what belongs
\* in the sectors the command goes to: neither buffer is filled anew (simpleio.c:306,
\* 318) before the commands that use it are done, and every command is cut at the
\* end of a super-sector, so that the striping places all its blocks.
BuffersStable ==
    \A c \in queue : c.write =>
      \A i \in 0 .. c.count - 1 :
        \E b \in 0 .. Blocks(file) - 1 :
          /\ Place(file, b) = <<c.disk, c.lba + i>>
          /\ BufferAt(c, i) = Content(file, b)

\* sio_waittasks waits for all the tasks (simpleio.c:330-338): when it returns no
\* command is on its way, whatever was refused or failed before.
WaitsForAll ==
    [][pc = "wait" /\ pc' = "loop" => queue = {} /\ executed = {}]_vars

\* No disk ever has more than three commands to look after: two of a chunk and the
\* padding, far from the 128 that simpleio.c:153 and 235 prepare for.
QueueBounded ==
    \A d \in Disks : Cardinality(Outstanding(d)) <= 3

\* The file is small enough for the parameter and all its places exist.
Regular(f) ==
    /\ Blocks(f) < Word32
    /\ \A b \in 0 .. Blocks(f) - 1 : Place(f, b) \in Sectors

InRaid(f) == \A b \in 0 .. Blocks(f) - 1 :
                Place(f, b) \in Sectors /\ disk[Place(f, b)] = Content(f, b)

\* A cp into the raid that ends without a failure has put every block of the file
\* in its place, the padded one as well (cp.c:212-231), unless the file has no
\* whole sector.
CopiedIn ==
    pc = "exit" /\ op = "in" /\ faults = 0 /\ Regular(file) /\ file.whole > 0 =>
      InRaid(file)

\* The same for a cp out of the raid (cp.c:247-274): the file of the system gets
\* what the raid holds, each block from where the striping put it.
CopiedOut ==
    pc = "exit" /\ op = "out" /\ faults = 0 /\ Regular(file) =>
      \A b \in 0 .. Blocks(file) - 1 : out[b] = disk[Place(file, b)]

\* Every transfer comes to its end: no wait of sio_waittasks is for a command that
\* was never queued, whatever was refused or failed.
Terminates == pc # "off" ~> pc = "off"

\* Copying writes the sectors of its file and no others, each with its own block,
\* in whatever order the disks work and wherever the process is killed.
SectorsOf(f) == {Place(f, b) : b \in 0 .. Blocks(f) - 1}
Wanted(f) == [p \in SectorsOf(f) |->
                Content(f, CHOOSE b \in 0 .. Blocks(f) - 1 : Place(f, b) = p)]
Store == INSTANCE BlockStore WITH sectors <- disk, owner <- file
ImplementsBlockStore == Store!Spec

\* cp adds the file to the raid (README.md:66), which "Copying %lu sectors into
\* raid" (cp.c:216) says too, however long or short it is.
CopyComplete == pc = "exit" /\ op = "in" /\ faults = 0 => InRaid(file)
=============================================================================

----------------------------- MODULE RaidIOInv ------------------------------
(***************************************************************************)
(* The inductive invariants behind the properties of RaidIO: IOInv for     *)
(* BuffersStable, WaitsForAll and the refinement of BlockStore, and        *)
(* CopyInv for QueueBounded, CopiedIn and CopiedOut.                       *)
(***************************************************************************)
EXTENDS RaidIO

InFlight == queue \cup executed

\* A process that does not run has nothing; one that runs copies a file.
RunOK == /\ pc = "off" => InFlight = {} /\ file = NoFile
         /\ pc # "off" => file \in Files /\ op \in {"in", "out"}
         /\ pc = "pad" => op = "in" /\ file.rest

\* The counters of simpleio.c agree with the commands.
CountersOK == /\ IsFiniteSet(queue) /\ IsFiniteSet(executed)
              /\ queue \cap executed = {}
              /\ \A c \in InFlight : c.id < task_scheduled
              /\ task_scheduled = task_completed + Cardinality(queue) + Cardinality(executed)

\* Before a buffer is filled, no command uses it.
QuietOK ==
    /\ pc = "pad" => InFlight = {}
    /\ pc = "loop" \/ (pc \in {"submit", "poll"} /\ req.buf = "padding") =>
         \A c \in InFlight : c.buf = "padding"

\* Where the loop of sio_rwrite_pinit is in the file.
TodoOK ==
    pc # "off" => /\ todo.lba = file.startBlock + todo.off
                  /\ todo.off + todo.count <= IF op = "in" THEN file.whole ELSE Blocks(file)

\* The buffer holds the chunk that is being written.
BufferOK ==
    op = "in" /\ (pc = "wait" \/ (pc \in {"submit", "poll"} /\ req.buf = "mem")) =>
      \A i \in 0 .. Chunk - 1 : mem[i] = Content(file, todo.off + i)

\* What is left to do is a part of the buffer.
ReqOK ==
    pc \in {"submit", "poll"} =>
      /\ pc = "submit" => req.count > 0
      /\ \/ /\ req.buf = "mem"
            /\ req.lba = todo.lba + req.off
            /\ req.off + req.count <= Chunk
         \/ /\ req.buf = "padding"
            /\ op = "in"
            /\ file.rest
            /\ req.lba = file.startBlock + file.whole + req.off
            /\ req.off + req.count <= 1
            /\ padding = Content(file, file.whole)

\* A command goes the way of the copy and stays inside its buffer.
CommandOK ==
    \A c \in InFlight : /\ c.write <=> op = "in"
                        /\ c.off + c.count <= GIGASECTORNUM

IOInv ==
    /\ TypeOK
    /\ RunOK
    /\ CountersOK
    /\ QuietOK
    /\ TodoOK
    /\ BufferOK
    /\ ReqOK
    /\ CommandOK
    /\ BuffersStable

-----------------------------------------------------------------------------
(* How far a copy has come.                                                *)

\* The super-sector of the raid that a command of the chunk goes to.
Super(c) == super_getid(todo.lba + c.off)

OfChunk == {c \in InFlight : c.buf = "mem"}
OfPadding == {c \in InFlight : c.buf = "padding"}

\* The commands of a chunk go to super-sectors of their own, one after the other, and
\* the padding is one command, sent before there are others.
ChunkOK ==
    /\ \A c \in OfChunk :
         /\ c.off < Chunk
         /\ c.disk = Super(c) % NumDisks
         /\ pc \in {"submit", "poll"} /\ req.count > 0 => Super(c) < super_getid(req.lba)
    /\ \A a, b \in OfChunk : Super(a) = Super(b) => a = b
    /\ \A a, b \in OfPadding : a = b
    /\ pc = "submit" /\ req.buf = "padding" => InFlight = {}
    /\ pc = "poll" /\ req.buf = "padding" => req.count = 0

Faultless == pc # "off" /\ faults = 0 /\ Regular(file)

\* What the loop of sio_rwrite_pinit or sio_rread_pinit has to move.
Total == IF op = "in" THEN file.whole ELSE Blocks(file)

\* The blocks that commands were sent for.
Sent == todo.off + IF pc \in {"submit", "poll"} /\ req.buf = "mem" THEN req.off
                   ELSE IF pc = "wait" THEN Chunk ELSE 0

\* Nothing is left out on the way, and the copy does not end before it is done.
ProgressOK ==
    Faultless =>
      /\ todo.off + todo.count = Total
      /\ pc \in {"submit", "poll"} /\ req.buf = "mem" => req.off + req.count = Chunk
      /\ pc = "pad" \/ (pc \in {"submit", "poll"} /\ req.buf = "padding") => todo.off = 0
      /\ pc = "exit" => todo.count = 0
      /\ pc \in {"loop", "exit"} /\ todo.off > 0 => InFlight = {}

\* Block b of the file is in its place, or a disk is about to put it there.
Moved(b) ==
    \/ disk[Place(file, b)] = Content(file, b)
    \/ \E c \in queue : \E i \in 0 .. c.count - 1 : Place(file, b) = <<c.disk, c.lba + i>>

\* A copy into the raid without a failure: every block that a command was sent for is
\* in its place or on its way, and so is the padded end once it was sent.
CopyInOK ==
    Faultless /\ op = "in" =>
      /\ \A b \in 0 .. Sent - 1 : Moved(b)
      /\ file.rest /\ pc # "pad" /\ ~(pc = "submit" /\ req.buf = "padding") =>
           Moved(file.whole)

\* Block i of the chunk is in the buffer, or a disk is about to put it there.
Got(i) ==
    \/ mem[i] = disk[Place(file, todo.off + i)]
    \/ \E c \in queue : i \in c.off .. c.off + c.count - 1

\* A command of a copy out of the raid reads the blocks that its part of the buffer is for.
ReadsRight(c) ==
    /\ c.buf = "mem" /\ c.off + c.count <= Chunk
    /\ \A i \in 0 .. c.count - 1 :
         Place(file, todo.off + c.off + i) = <<c.disk, c.lba + i>>

\* A copy out of the raid without a failure: what is behind the loop is in the file,
\* what was asked for is in the buffer or on its way to it.
CopyOutOK ==
    Faultless /\ op = "out" =>
      /\ DOMAIN out = 0 .. Blocks(file) - 1
      /\ \A b \in 0 .. todo.off - 1 : out[b] = disk[Place(file, b)]
      /\ \A i \in 0 .. Sent - todo.off - 1 : Got(i)
      /\ \A c \in InFlight : ReadsRight(c)

\* All that is said of a copy under way.
CopyInv == IOInv /\ ChunkOK /\ ProgressOK /\ CopyInOK /\ CopyOutOK
=============================================================================

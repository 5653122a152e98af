# A TLA+ model of NVMe-DPDK-PCAPReplay

The program keeps packet captures on a set of NVMe disks, striped like a RAID-0,
with a small file system of its own, and replays them at line rate. Every tool
(`cp`, `rm`, `ls`, `format`, `replay`) is one process: it attaches the disks through
SPDK, reads the metadata, does its work and ends. The specifications here follow
the sources under `src/`; line numbers in comments are lines of those files.

## 1. Inventory

| Component | State | Operations | Interacts with |
|---|---|---|---|
| Metadata file system, `src/src/fs.c`, `src/include/fs.h` | sector 0 of each disk (`metaSector`: magic, diskId, totalDisks, totalFiles, 12 entries of name, startBlock, endBlock) and its copy in memory in `nvmeRaid` | `createRaid`, `formatRaid`, `updateRaid`, `findFile`, `addFile`, `delFile`, `rightFreeBlock(s)` | reads and writes sector 0 with simpleio; called by every tool |
| Striping, `fs.c:212-224` | none | `super_getid`, `super_getdisk`, `super_getdisklba` | used by every transfer of content |
| Start-up, `src/src/main.c` | the static `myRaid` | probe and attach callbacks, `main` | calls `app_config`, `app_init`, `createRaid`, `app_run` in that order |
| Tools, `src/src/{rm,ls,format,cp}` | options | `app_run` (and `app_init` of `format`) | file system, simpleio, spcap |
| Block I/O, `src/src/simpleio.c` | `task_scheduled`, `task_completed`, queues of the disks | synchronous `sio_read/write(_pinit)`, asynchronous `sio_rread/rwrite(_pinit)`, `sio_waittasks` | SPDK |
| Capture writer, `src/src/spcap.c` | per disk: a buffer, a pointer into it, the next lba, the bytes written; the file's endBlock | `initSpcap`, `writePkt`, `writeBuff`, `flushBuffs`, `freeSpcap` | simpleio (synchronous), the file's entry |
| Replay, `src/src/replay` | cores, ports, queues, pools, rings | `config.c` (options), `init.c` (pools, rings, ports), `runtime.c` (receive and transmit loops) | DPDK |

Where it is hard:

* **Crashes.** `updateRaid` and `formatRaid` write one disk after the other. A process
  killed in between leaves tables of two generations, and no journal repairs them. What
  saves the file system is that *any* prefix of those writes is a consistent set of
  tables. That is an invariant no test reaches, and the one that is proved.
* **Unnoticed failures.** The results of all transfers of metadata are ignored.
* **Order of attachment.** Disks come up in any order and are put in place by `qsort` and
  a check of their ids.
* **Arithmetic.** Unsigned differences (`rightFreeBlocks`, `super_getdisklba`), an 8-bit count.
* **Asynchronous content.** Commands complete in any order; memory and queue slots are
  in use until completions are polled.
* **State kept twice.** A capture has blocks of the raid in its entry and sectors of each disk
  in `curlba`; the replay has a table of queues for the ports and one for the cores.
* **Shared pools.** The cores of the replay share pools of mbufs with the rings of the ports,
  which give them back when they please; every core that sends takes them from one pool.
* **What cannot be reached yet.** At this commit `--ifile` is mandatory (`config.c:447`) and
  `parse_arg_ifile` ends the process (`config.c:355-359`), so that what follows the options of the
  replay, `init.c` and `runtime.c`, is compiled and never run. It is modelled from `app_init` on,
  for any tables that the options fill, as it will run once the option is written.

What makes each part correct:

* file system: no two files share a block, no two have one name, no file is lost but by
  `rm` or `format`, the count agrees with the entries, a tool that ends has saved what it did;
* striping: injective, away from the metadata, contiguous within a super-sector;
* start-up: disk *i* is in entry *i*, a healthy raid is never refused;
* block I/O: every block gets its content, buffers are stable while a command uses them, waits end;
* capture writer: the disks fill evenly, everything written reaches its disk in blocks that
  the file claims, full super-sectors are flushed;
* a file reads back as it was written, by whatever processes, killed wherever, came between;
* replay: the tables of ports and cores agree, whatever options come in whatever order; what the
  cores poll was set up; links are reported before they run; no mbuf is lost or freed twice;
  no queue of a core that runs is starved while the pools are large enough.

## 2. Modules

| Module | Stands for |
|---|---|
| `Striping` | the three functions that place a block of the raid |
| `StripingProofs` | what they guarantee, for every number of disks |
| `RaidFS` | `fs.c`, `main.c` and the tools: the metadata through the life of the processes |
| `ExtentStore` | the abstract file system: a set of named extents that are apart |
| `RaidFSInv` | the inductive invariants of the tables: that they stay consistent (`RaidInv`), that they are saved (`SavedOK`), which disk is which (`NumbersOK`, and `IdsOK` as long as nothing is formatted anew), where files end (`EndsOK`), how far the count of files is off (`DriftInv`) |
| `RaidFSProofs` | types, safety of the tables, the refinement of `ExtentStore` |
| `RaidTablesProofs` | what is saved, the numbers and the order of the disks, what a format leaves, healthy disks are not refused, the end of the raid, sectors that are apart, the count of files |
| `RaidIO` | `simpleio.c` and the copies of `cp`: the content of the files |
| `BlockStore` | the abstract store: while a file is copied its sectors get its blocks, and nothing else changes |
| `RaidIOInv`, `RaidIOProofs` | the inductive invariants of the transfers (`IOInv`) and of the copies (`CopyInv`), and their theorems, the refinement of `BlockStore` among them |
| `RaidContent` | `RaidFS` with the content of the sectors: what a file reads back as, over the life of several processes |
| `RaidContentInv`, `RaidContentProofs` | its inductive invariant; files read back as they were written, and no block is written before its file is in the tables |
| `Spcap` | `spcap.c`: captures spread packet by packet over the disks |
| `SpcapInv`, `SpcapProofs` | its inductive invariant; the balance of the disks, captures that are kept, writes in the row of blocks that the entry claims |
| `ReplayConfig` | `replay/config.c`: the options of the replay and the tables they fill |
| `ReplayConfigProofs` | the tables after any options: each queue is handled by one core, once, and stays with it |
| `Replay` | `replay/init.c`, `replay/runtime.c` and the look-ups of `config.c`: from the pools to the loops of the cores |
| `ReplayProofs` | types, queues that are ready, links that are reported, reasons to give up, mbufs that are not lost |
| `MCRaidFS`, `MCRaidContent`, `MCRaidIO`, `MCSpcap`, `MCReplay` | instances for TLC |

`RaidFS`, `RaidIO` and `Spcap` use `Striping`. An extent that `RaidFS` gives to a file is a file
of `RaidIO` and the startBlock of a capture in `Spcap`. `MediaDisjoint` (extents are apart)
and `LocationInjective` (blocks are apart on the disks) together are what lets `RaidIO` take
the files for apart. `RaidContent` extends `RaidFS` and takes from `RaidIO` what it was shown to
implement, the `Put` of `BlockStore`: blocks of one file reach their sectors in any order. `Replay` takes
from `ReplayConfig` what `QueuesHandled` says of the tables (`OneCoreEach`).

### RaidFS

`media` is sector 0 of each device; `ns`, `msector`, `numdisks`, `totalBlocks` and
`numFiles` are the fields of `nvmeRaid`; `tool`, `pc`, `ret`, `widx`, `cur`, `left` are
the control of the one process that runs. `pc` goes

    off -> probe -> [format ->] create -> [format ->] sort -> run -> [update ->] ... -> exit -> off

`Launch` starts a tool; `register_ns` attaches one namespace, in any order; `app_init`
goes on when the probe is over. `formatRaid` and `updateRaid` are one step per sector
written, since that is where a crash tells. `readMeta` is the first loop of `createRaid`
with the decision after it (reading changes no disk, so the reads are one step);
`readMetaFails` is the same with one read that failed, and
with what `sio_read_pinit` then leaves in memory. `sortDisks` is `qsort` with the check after
it. `rmFile`, `cpOverwrites`, `cpAdds`, `cpCannotAdd`, `freeSpcap`, `pcapNotOpened` and
`runReturns` are the branches of the `app_run` of the tools up to their call of
`updateRaid`. `Crash` is possible wherever a process runs.

Data that is abstracted: a name is a model value (what `cmpFile` tells apart), the magic
number a Boolean, the version is left out as nothing reads it, options are the choice
of the action's parameters. The comparison function of `qsort` answers 0 or 1, never less
than 0; glibc sorts by merging and keeps the order of disks it takes for equal, which is
modelled. In `freeSpcap` each disk adds one super-sector to the file if its buffer is not
exactly full; how the capture fills the buffers is in `Spcap`.

### RaidIO

`disk` is what the sectors hold. `queue` holds the commands the disks have still to carry out,
`executed` those they did and no poll has seen: `task_completed` only moves when the process
polls. `mem` and `padding` are the two pinned buffers, `todo` and `req` the arguments of
`sio_rread_pinit`/`sio_rwrite_pinit` and of `sio_rread`/`sio_rwrite`. `pc` goes

    off -> [pad -> submit -> poll ->] loop -> submit -> ... poll -> wait -> loop ... -> exit -> off

The calls of `sio_rwrite` of itself, for a head that does not begin a super-sector and for
the tail, are unrolled: `Piece` is the next command of any of them, `InLoop` tells which
commands follow each other without a poll, and `looped` whether the tail is one whose result
is dropped (`simpleio.c:245`). Polls that follow each other as these calls return are one
poll. The flush inside the loop, after `numdisks * 128` commands, is not reached by any
caller, which hand over at most `numdisks` super-sectors: `QueueBounded`. A disk carries
out its commands in any order and one at a time, each at once (`Execute`); a
command beyond the last sector completes with an error, and any other may
(`DeviceFaults`). Commands on their way are lost when the process ends, since its queues are.
The disks may differ in size (`DiskSectors`), which the sum in `main.c:82` allows for and the
striping does not. `Word32` is the modulus of the 32-bit parameter
`lba_count`, to which `cp` passes 64 bits.

### RaidContent

`content` is what each sector holds: block b of copy number c, or nothing yet. `copy` is the copy that a
process is about, with the blocks that are left to write. `beginCopy` is the step of `RaidFS` in which `cp`
enters the file in the tables in memory; `put` writes one block, once `updateRaid` has returned (`pc` is
"exit"). Which device that sector is on follows from `ns`, the order of this process. `metaStep` is any other
step of `RaidFS`; when the process ends, killed or not, the blocks left are never written. `versions` is
history: for each name the last copy that came to its end and those that were begun on top of it; a file that
no copy has finished since it was added is `Unwritten`, and nothing is promised about it.

A format that writes a sector makes every file `Unwritten`. It numbers the disks anew, in the order of its probe, and
if it is killed, or a write of it is lost, the files on the disks it has not come to are still in the tables while
the order of the disks is another one: nothing is said of what they read back as. It may also leave two disks with one
number, which the check of `fs.c:90` accepts; from then on the order of the disks is that of the probe, and `ReadsBack`
says nothing until a format has come to its end (`Numbered`). That it goes on is the price of the check that `fs_absent_disk`
shows. A copy whose tables were not saved (`Saved`) does not make its predecessors history: the next process has the
length they were saved with. Captures are left out here; their content is in `Spcap`.

### Spcap

Sizes are in units, of which `SECTORLENGTH` make a sector, so that a header and a payload are
a few units. `sp` is `struct spcap`; `out` is what a step hands to `sio_write`, which is
synchronous. A step is one packet, one trailer, or one disk of `flushBuffs`. `file` has
the startBlock and endBlock of the capture; its field `intact` and the variable `stream`
(what `writeBuff` was asked to write, per disk) are not in the code: they say what should
be on the disks. `NextBlock` stands for `rightFreeBlock`: behind the last
capture, and behind files that were added meanwhile (`Gaps`), which may end inside a super-sector.
A process that writes beyond a buffer, or through the pointer that `spdk_zmalloc`
did not give, goes to `undefined` and is not followed.

The comment at `spcap.c:115` takes a packet to be no longer than a super-sector; so does
`SpcapAssumption`. With it `writeBuff` calls itself once at most.

### ReplayConfig

`mask` is the set of queues whose `nic_rx_queue_mask` or `nic_tx_queue_mask` is 1, `nvme` is
`nic_tx_queue_nvme`, `queues` the array `nic_queues` of each core. An option `--rx` or `--tx`
is a step for each of its tuples, which may be refused in each of the places the parser
refuses it, with the tables as they are then. `malformed` and `badOption` are the texts
the parsers refuse; a text that is not a number leads `str_to_unsigned_vals` to store
2^32 - 1 values through pointers it was not given, from where the process is not followed.
The cores that `rte_lcore_is_enabled` answers for are a parameter: the options are parsed
before the environment is initialised (`main.c:140-141`), so the model relies on nothing
about them but that they are in the table. So `QueuesHandled` says that the tables of the ports and of the cores
agree, not that the core named there is ever launched; what follows from that is in `Replay`. `nic_tx_queue_nvme` is a
`uint8_t` (`replay.h:275`); that `config.c:261` cuts a larger number is left out, and nothing reads the array. The type of a core is never `WORKER`: nothing sets it.

### Replay

`queues` are the tables that the options filled; `pc` is where the main core is:

    pools -> ports -> link -> launch -> run

The tables may name any core (`Lcores`), since the options are parsed before `rte_eal_init` knows the mask (`main.c:140-141`);
`EalCores` are those of the mask, which is "0xf" (`main.c:136`) or the option `--c` (`config.c:391`), and
`rte_eal_mp_remote_launch` starts no other (`replay.c:101`). The queues of a core that is not started are set up, their rings
are filled, and no core ever comes to them.

`replay_init_mbuf_pools` and `replay_init_nics` (one port a step) can end in `panic`: any call of DPDK may
fail (`rte_panic`), a port refuses a queue whose number is beyond the number of queues it was configured with, and
a receive ring is filled from the pool when the port starts. `check_all_ports_link_status` is one turn of the
loop that polls the links. From `run` on the cores go through their queues at the same time:
`core` has for each the queue it is at and the mbufs it holds, and `rx_burst`, `rx_free` (one mbuf),
`tx_alloc` and `tx_burst` are the calls in which cores and ports touch what they share. `avail` counts the mbufs in
each pool; `arrived`, `unsent` and `sent` those with a packet in a receive ring, those in a
transmit ring that the port has to send, and those it has sent and not given back. `arrives` and `leaves` are
the ports. A driver gives back some of the sent mbufs when it is called for the same queue, and at least one if it has no room.
The receive driver modelled here is one that hands over the mbufs with the packets and takes as many others from the pool.

Each core keeps mbufs that it freed in a cache of the pool (`init.c:141`), up to one and a half times `CacheSize`, out of
which no other core can take them. Which ones these are is not modelled, only what it means: a core may get none as long as the
pool has no more than the caches of the other cores can hold (`InOtherCaches`), and gets one otherwise. A turn of
a core that gets none changes nothing but its place, and nothing at all if it has one queue only; the bit `turn` makes it a step.

`tx_burst` hands `burst_size_io_tx_write` as the number of mbufs of an array of one (`runtime.c:155`).
With a burst of one (`--bsz "144,1"`) that is right, and that is what the run has. With any other, the default of 144 among them,
a driver with room for more than one reads behind the variable: that goes to `undefined` and is not followed. A driver with room for one
takes it, and one without room takes none; what was not taken is counted as `TxBurst - n` and `tmpbuf` is freed as often (`runtime.c:157-160`),
which the model follows: the pool then counts the same mbuf several times. What a pool that holds an mbuf twice hands out
later is not followed any further than that count. The process goes to `undefined` as well for a core on a socket beyond the table of pools (`init.c:160`), and for sending when no core is on
socket 0, whose pool is then a null pointer (`runtime.c:145`).

## 3. Runs

| Run | Instance | Shows |
|---|---|---|
| `fs_content` | 3 disks, 1 entry each, 2 names, 2 crashes, 2 copies; cp, rm, format | properties of the file system with crashes at any point, in the middle of a format as well; files read back as they were written; `ContentInv`, on which the proof of that rests |
| `fs_captures` | 2 disks, 1 entry each, 3 names, super-sectors of 2 blocks, 2 lost writes or crashes; cp, rm, ls and captures | `RaidInv`, the inductive invariant of the proofs; the refinement of `ExtentStore`, with files that grow; the count of files |
| `fs_live` | 2 disks, all faults, fairness | every process ends |
| `io_copy` | 3 disks, super-sectors of 2 blocks, disks of 14, 12 and 11 sectors, four files, 1 refused command, device error or crash, fairness | content arrives, buffers are stable, waits end; the refinement of `BlockStore`; `CopyInv`, the inductive invariant of the proofs |
| `spcap` | 2 disks, buffers of 2 super-sectors, 2 captures, 4 packets, 1 failed write or crash | balance, content of captures that fit a super-sector per disk, writes in the row that the entry claims; `WriterInv`, the inductive invariant of the proofs |
| `replay_config` | 1 port, 3 queues, 2 cores of 2 queues each, 3 options | agreement of the tables |
| `replay_run` | 9 tables of queues, 4 cores on 3 sockets, of which 3 are in the mask, 2 ports of 2 queues, rings of 3 and 2, 14 mbufs, caches of 1, bursts of 2 and 1, 1 failed call, fairness | mbufs are conserved, what is polled was set up, links are reported, no queue of a launched core is starved |
| `fs_absent_disk`, `fs_read_fault`, `io_full_raid`, `spcap_flush`, `spcap_unaligned` | | disagreements between code and its own words, see below |

The type invariants of `RaidFS` and `RaidIO` are checked as parts of `RaidInv` and `CopyInv`, those of the other
modules by their own name. Properties of `RaidFS`:

* `MediaDisjoint`, `MediaNamesUnique`: at every moment, over *all* disks, whatever
  generation of the table each of them holds.
* `OnlyRmAndFormatRemove`: an action property; a file that is on a disk stays there, at its
  place, unless `rm` or `format` runs.
* `ImplementsExtentStore`: the set of entries on the disks is a behaviour of
  `ExtentStore`, where a file is added apart from all others, resized in place with nothing
  in its way, or removed.
* `CountDriftBounded`: the count of files may differ from the number of files by one for
  each crash or lost write, never by more. It is checked in `fs_captures`, without `format`, which removes
  several files at once and may be killed in between.
* `ReadsBack` and `TablesBeforeContent`, of `RaidContent`: block b of a file is block b of the last finished copy or
  of one that was begun or not saved on top of it, in whatever order this process and the one that wrote it have attached
  the disks; and no sector is written before the tables on the disks give it to the file, so that a copy that
  is killed has touched nothing that the next process may give away.
* `RaidOrdered`, `NumbersKept`, `FormattedAtExit`: the tools find disk *i* at index *i* as long as no two disks have one
  number; no step but a write of `format` gives them one; and a format that comes to its end without a lost write leaves
  every disk empty, with a number of its own.
* `SavedAtExit`, `WithinRaid`, `SectorsDisjoint`, `NeverRefusedWithoutFault`, `Terminates`.

Properties of `RaidIO`: `BuffersStable` and `WaitsForAll` whatever fails; `CopiedIn` and
`CopiedOut` where nothing does; `QueueBounded`; `ImplementsBlockStore`: the refinement maps
`sectors` to `disk` and `owner` to `file`, and says that neither order of completion nor crash ever puts a
block where it does not belong; `Terminates`.

Properties of `Spcap`: `Balanced`; `CapturesKept`, for captures that begin at a super-sector
and fit one on each disk: the two restrictions are the two disagreements below;
`WritesInside`: what is written for a capture that begins at a super-sector lies in the row of `NumDisks` super-sectors at its start,
and the entry that is saved claims exactly this row, if the data of no disk ends with a super-sector. If that of a disk does,
`flushBuffs` takes it for flushed (`spcap.c:68`): it is not written, `endBlock` grows by one super-sector less, and as the row is claimed from its
start, what lies on the last disk is beyond the file, where the next one is laid. This is one more consequence of `spcap_flush`. Of `ReplayConfig`: `QueuesHandled`, `QueuesKept`.

Properties of `Replay`: `MbufsConserved`, the sum of pool, rings and hands: it is the size of the pool, and, in the pool of socket 0,
a multiple of `TxBurst - 1` more, for the calls that freed their mbuf as often as the burst had mbufs left; `QueuesReady`, the start of the ports
against the tables of the cores; `PanicsForAReason`, queues numbered without a gap start; `LinksReported`, the
off-by-one of the loop; `KeepsSending` and `KeepsReceiving`, that under the fairness below no transmit queue
runs dry and no receive ring stays full, if their core is one of the mask (`Served`). Both ask for pools that are `Ample`: all senders use the pool of
socket 0, out of which receive rings are filled too, and if rings, bursts and the caches of the other cores can hold all of it, they may.
The rings of cores that are not launched count as well.

Bounds of the file system. Two disks are enough for a torn update to separate two tables; a third one
makes orders of attachment that are not their own inverse. One entry per disk
fills up within a few commands, so that `rm`, reuse of an entry and a full table are
reached; three names allow two files and a third one in between. A super-sector of one or two blocks and disks of three
sectors make the raid fill up and files straddle disks. `MaxFaults` bounds crashes and lost
writes; a second one after a first is what both runs have two for, such as a killed format and then a killed copy. In
`fs_content` three disks are needed for `format` too: with two, one that was killed leaves either the old order or two
equal numbers; with three it may leave different numbers in a new order. Its two copies are one before a format or
an `rm` and one after it, or one over the other; a file of one block fits beside one of four, and two of four do
not. Its writes are not lost, since `TablesBeforeContent` asks for that; `ContentInv` and `ReadsBack` are proved with lost
writes as well. The devices of `fs_content` have one size and names are only compared, so
devices and names are symmetric. `MaxBlock` bounds
the growth of captures, which nothing in the code bounds; `MaxArgs` the arguments of `rm`.
`Word` is larger than any block number reached except below zero, where it wraps as
`uint64_t` does; `Byte` is 256, or small enough to wrap in `fs_live` and `fs_captures`.

Bounds of the transfers. The files of `io_copy` are one of three turns of the loop that
begins and ends inside a super-sector and has a padded rest, one of whole super-sectors, one
shorter than a sector: head, loop, tail, and each of them missing; and one of 16 blocks where `Word32` is 15, which is
cut short, and most of whose blocks are beyond the smaller disks. Files are copied in and out
over and over, so that old content is there to be taken for new.

Bounds of the captures. A packet may be empty, small, or cross the end of a super-sector with a part
that was not captured. Four packets overrun a buffer of two super-sectors; the
second capture begins 0, 1 or 2 blocks behind the first. `spcap` and `replay_config` are
checked without deadlock: the behaviours end at `MaxCaptures`, `MaxPackets` and at the
end of the process that parses.

Bounds of the options. Three options are an `--rx` and a `--tx` with a third one of any kind
between or after them; tuples name ports, queues and cores inside and outside the tables. One
more tuple than `MaxTuples` and one more queue than a core takes are reached.

Bounds of the replay. The tables have cores that receive and send, one core with several queues and
several cores with one, a pool that is exactly ample and one that is short by one or two mbufs, a port with queue 1 and no queue 0, no core on
socket 0, a core on socket 2, queues to receive and to send of core 3, which is not in the mask. Without the mask, the caches or the size
of the pool in their conditions, `KeepsSending` and `KeepsReceiving` are violated by these tables. Rings of three and two and bursts of two make rings full, empty and in between while
several mbufs are in the hands of a core; four turns of the link loop have the first, the last and one in between.
The run is checked without deadlock: it ends in `panic` and `undefined`.

Fairness. `FairSpec` of `RaidFS` has weak fairness of `Step`, the steps of a process that runs: the
process is scheduled, and a synchronous transfer returns. Launching a tool and crashing are never
forced. It says nothing of which argument or file is taken: any step is progress, because
each of the loops of the code is bounded (`widx`, `left`). `FairSpec` of `RaidIO` adds weak fairness
of `Device`: an NVMe controller answers every command, if only with an error, and SPDK
completes it; the code has no timeout of its own. `FairSpec` of `Replay` has weak fairness of the start-up, of
the loop of each core of the mask, which is a thread of its own on a core of its own and never waits, and of each port sending
what it was given. That packets arrive, or that a driver gives back more than it must, is never forced.

### Where code and words disagree

* `fs_absent_disk`: the "check integrity" of `fs.c:88-95` asks for both
  fields to be wrong before it refuses, and the tools run on half a raid.
* `fs_read_fault`: one read error in `ls` of a one-disk raid formats it, since a disk that could
  not be read counts as one without metadata.
* `io_full_raid`: the last `numdisks` super-sectors that `addFile` grants are beyond the ends of
  the disks, as room for the metadata is kept twice (`fs.c:125` and `223`).
* `spcap_flush`: `!dataWrote % SUPERSECTORLENGTH` (`spcap.c:100`) is 0 for all that was
  written; a full super-sector is never flushed, and `flushBuffs` takes a disk that is exactly full for flushed.
* `spcap_unaligned`: a capture that begins inside a super-sector writes consecutive sectors of each
  disk, of which some are not its blocks, and a later file overwrites them.

Three more were seen while modelling and have no run: a file of less than a sector is queued and not
waited for, so that `cp` may end before it is in the raid (`cp.c:223-228`; `CopiedIn` is stated for the others); after a crash inside `updateRaid`, `ls` says "Showing all
n files" of another number than it lists (`ls.c:88`; `CountDriftBounded` says by how much), and a capture
grows after the check for space (`fs.c:169`), past the end of the raid if the raid is full: `WithinRaid` is
checked without captures.

## 4. Proofs

Every theorem below is checked by TLAPS for every value of the constants that satisfies the named
assumptions of the modules (`SuperSectorAssumption`, `FSAssumption`, `ContentAssumption`, `IOAssumption`,
`SpcapAssumption`, `ReplayAssumption`, `RunAssumption`) and the condition in brackets. A condition
is there where the code does not do without it: with disks that are absent
(`MissingAllowed`) or that cannot be read (`ReadFaults`) the tables are not kept, as `fs_absent_disk` and
`fs_read_fault` show. Writes may be lost and processes killed at any step unless the condition says otherwise.

| Theorem | Property | Condition |
|---|---|---|
| `StripingProofs!KeepsMetasector`, `LocationInjective`, `SuperSectorContiguous` | where blocks are | |
| `RaidFSProofs!TypeCorrect` | `TypeOK` | |
| `RaidFSProofs!DisjointCorrect`, `NamesCorrect` | `MediaDisjoint`, `MediaNamesUnique` | `~MissingAllowed`, `~ReadFaults` |
| `RaidFSProofs!RaidInvCorrect` | `RaidInv`, the inductive invariant | the same |
| `RaidFSProofs!FilesKept` | `OnlyRmAndFormatRemove` | the same |
| `RaidFSProofs!StoreImplemented` | `ImplementsExtentStore` | the same |
| `RaidTablesProofs!SectorsCorrect` | `SectorsDisjoint` | the same |
| `RaidTablesProofs!SavedCorrect` | `SavedAtExit` | `~ReadFaults` |
| `RaidTablesProofs!NeverRefused` | `NeverRefusedWithoutFault` | `~MissingAllowed` |
| `RaidTablesProofs!OrderCorrect`, `NumbersKeptCorrect`, `FormattedCorrect` | `RaidOrdered`, `NumbersKept`, `FormattedAtExit` | `~MissingAllowed`, `~ReadFaults` |
| `RaidTablesProofs!WithinRaidCorrect` | `WithinRaid` | `~MissingAllowed`, no captures, each disk a super-sector or more |
| `RaidTablesProofs!CountDriftCorrect` | `CountDriftBounded` | `~MissingAllowed`, `~ReadFaults`, no `format` |
| `RaidContentProofs!ContentInvCorrect`, `ReadsBackCorrect` | `ContentInv`, `ReadsBack` | `~MissingAllowed`, `~ReadFaults` |
| `RaidContentProofs!TablesFirst` | `TablesBeforeContent` | `~MissingAllowed`, `~ReadFaults`, `~WriteFaults` |
| `RaidIOProofs!IOTypeCorrect`, `BuffersStableCorrect`, `WaitsForAllCorrect`, `QueueBoundedCorrect` | `TypeOK`, `BuffersStable`, `WaitsForAll`, `QueueBounded` | |
| `RaidIOProofs!CopyInvCorrect`, `CopiedInCorrect`, `CopiedOutCorrect` | `CopyInv`, `CopiedIn`, `CopiedOut` | |
| `RaidIOProofs!BlockStoreCorrect` | `ImplementsBlockStore` | |
| `SpcapProofs!WriterCorrect`, `SpcapTypeCorrect`, `BalancedCorrect`, `CapturesKeptCorrect`, `WritesInsideCorrect` | `WriterInv`, `TypeOK`, `Balanced`, `CapturesKept`, `WritesInside` | |
| `ReplayConfigProofs!ConfigTypeCorrect`, `QueuesHandledCorrect`, `QueuesKeptCorrect` | `TypeOK`, `QueuesHandled`, `QueuesKept` | |
| `ReplayProofs!RunTypeCorrect`, `LinksReportedCorrect`, `QueuesReadyCorrect`, `PanicsCorrect`, `MbufsCorrect` | `TypeOK`, `LinksReported`, `QueuesReady`, `PanicsForAReason`, `MbufsConserved` | |

**The tables.** `MediaDisjoint` alone is not inductive, for a step of `updateRaid` puts a table from
memory beside tables of other disks. `MemoryOK` is the strengthening: each entry in memory is
compatible with each other entry in memory *and* with each entry of the other disks as
they are now. So any subset of the pending writes gives a consistent set of tables.
Adding a file keeps it because memory agrees with the disks then (`SyncOK`) and the file
is right of everything (`RightFree`); a capture keeps it while it grows because it stays
to the right (`CurOK`); removing needs nothing. `FormatOK`, `MagicOK` and `BlankOK` keep
`createRaid` from formatting over files: a disk with a file has the magic number. What a step does to the
set of files needs more: `RmOK` (what `rm` has not saved is free in memory), `ChangeOK` (`cp` has changed one
entry) and `FormatToolOK`. All of them together are `RaidInv`; from it each write of a sector is a stutter of
`ExtentStore`, or one file added behind all others, resized or removed. TLC checks `RaidInv` in `fs_captures` and, as a part of `ContentInv`, with `format` in `fs_content`.

**What is saved, and the disks.** `SavedCorrect`: as far as `widx` has come, disks and memory agree
(`SavedOK`). `OrderCorrect`: the numbers on the disks are among 0 .. N - 1
(`MediaTotals`), those in memory are those of the disks (`MemoryNumbers`), and the loop of `formatRaid` gives disk *i* the number *i*
(`FormatNumbers`). That is inductive with `format` at any place and killed anywhere; that no two disks have
one number is not, so it is a hypothesis of the order (`Numbered`) instead of a part of the invariant. If it holds, `qsort` puts disk *i* in
entry *i*, the only order in which the numbers do not fall. `NumbersKeptCorrect`: `createRaid` formats only disks none of
which has a number, and `updateRaid` writes the numbers back that it has read, so that only `format` takes `Numbered`
away; `FormattedCorrect` shows that it also brings it back: as far as `widx` has come, a disk that is written is empty and
has the number of its index (`FormattedOK`). `NeverRefused`: as long as nothing was lost, all disks have the magic number or none
(`NothingLostOK`). `WithinRaidCorrect`: `totalBlocks` counts the sectors of the disks that are there (`BlocksOK`),
so that what `rightFreeBlock` grants ends before it (`EndsOK`).

**The count of files.** `fs.c` counts the files in one byte of each sector 0, and adds and subtracts one where a
file is added or removed; it never counts the entries. `CountDriftCorrect` follows the disk that has id 0. In
memory its count is off by the same *e* from the files in memory as long as the process lives (`Counts`).
On the disks, *l* writes were lost since it began: the changes that the count of the disk lacks (*v*), and the files in
which the entries of disks and memory differ (`Stale`), are at most *l* each, and one more while `updateRaid`
is on its way to them. A process removes files or adds them, never both (`RunDrift`), so the two errors have opposite
signs and do not add up: whatever the process leaves at its end, or where it is killed, is off by no more than the
faults so far. All this is modulo 256, as the byte wraps. With `format` the bound does not hold,
since one killed process leaves the entries of several files.

**Content.** Where a block is depends on the order in which a process has attached the disks; where it
belongs does not: `Home`, in `RaidContentInv`, takes the disk by its id in sector 0. Once the raid is in order the two are
the same. As long as all the disks have metadata and different numbers (`Whole`), each file that some copy has finished
has all its blocks at home, and so it will be when the tables in memory are saved (`EntriesOK`); a copy under way has those
it has put (`CopyOK`). A step of `updateRaid` may put tables of memory beside tables of the disks, or be lost: so what the copy is about
is apart from the other files of memory and of the disks alike (`CopyApart`). Formatting makes disks `Whole` again that were not, and
the order another one: no file of theirs is promised anything then, for a format has made all of them `Unwritten`, and `createRaid`
formats only what has no files (`FreshOK`). A step that writes a block moves no other, as `LocationInjective` and `MediaDisjoint` keep them
apart. `TablesFirst` is `SavedOK` with the fact that a copy puts blocks when `updateRaid` has returned. TLC checks
`ContentInv` in `fs_content`.

**The transfers.** `BuffersStable` needs that a buffer is only filled while no
command uses it (`QuietOK`), which `sio_waittasks` gives if the counters agree with the
commands there are (`CountersOK`: scheduled = completed + on their way), refused ones not counted.
It needs as well that the buffer holds the chunk that is being written (`BufferOK`), and that what
is left of it to submit is a part of the buffer that belongs where it goes (`TodoOK`, `ReqOK`,
`CommandOK`); then `SuperSectorContiguous` places all the blocks of a command. The
refinement follows: a disk that carries out a write puts blocks of the file in their places.
`QueueBounded` counts the commands of a chunk: at most one that is not a whole super-sector at each end (`ChunkOK`,
`ThreeAtMost`). `CopiedIn` and `CopiedOut` are the converse, that nothing is left out: each block behind
which the copy has come is in its place or a command for it is on its way (`ProgressOK`, `CopyInOK`, `CopyOutOK`), and after the
last wait none is. TLC checks `CopyInv`, all of these together, in `io_copy`.

**Captures.** A packet goes to a disk with the least data (`DstDisk`, which
rests on the least element of a set of numbers) and adds its header and length to it, in one part
or two (`BuffWrote`, `PacketWrote`). `WriterInv` says what the buffers hold: as long as all that goes to a disk fits a
super-sector, its buffer has what `writeBuff` was asked to write (`BuffersOK`), a disk that was not flushed yet is at the first
super-sector of the capture and one that was has its part there (`FlushOK`), and so has each disk of each capture that was
closed (`CapturesOK`). The types are a part of it: the pointers stay in the buffers (`SpcapTypeCorrect`). `CapturesKept` and
`WritesInside` follow with `SuperSectorContiguous` for captures that begin at a super-sector. That the entry claims the row takes one more
count (`EndOK`): if the data of no disk ends with a super-sector, `endBlock` has grown by one for each disk to which `flushBuffs` has come. TLC checks
`WriterInv` in `spcap`.

**Replay.** `ConfigInv` says that the queues of the cores are those of the masks, each once; an option that is refused in
the middle leaves the tables between two such states, but the process ends. `LinkInv` says that the flag is set when
the last turn begins. `RunInv` follows the start-up port by port: the queues of the ports that were started are
`ready`. `MbufsCorrect` adds up the mbufs of a pool, rings and hands over the queues and cores; each call moves one term of
the sum into another (`Moves`), and `tx_burst` adds `TxBurst - 1` to the pool of socket 0 whatever the port took.
It holds for every burst, the default one too, as long as the process is not in `undefined`. `PanicsCorrect` needs that the pools are only used by receive rings until the cores run (`PoolsOK`).

Only model-checked: `Terminates` (of `RaidFS` and of `RaidIO`), `KeepsSending` and `KeepsReceiving`, which are out
of the prover's reach since they need fairness. Each invariant and action property of the passing runs is a
theorem, and so are the two refinements. Three theorems reach further than their runs: `StoreImplemented` has `format`
among the tools, `ContentInvCorrect` and `ReadsBackCorrect` lost writes of the tables. The properties of the five runs that expect a violation are not
theorems, of course.

## 5. Plan

1. `Striping`, `RaidFS` with `ExtentStore`: done.
2. `RaidIO` with `BlockStore`, on disks of different sizes: done.
3. `Spcap`: done.
4. `ReplayConfig`, `Replay`: done.
5. `RaidContent`, the metadata and the content together: done.
6. The theorems of section 4: done.
7. The conditions of the theorems weakened to what the code needs: done. What is left of them is there because
   the property fails without it: absent disks and bad reads for the tables (`fs_absent_disk`, `fs_read_fault`), `format` for
   `CountDriftBounded`, captures for `WithinRaid`, lost writes of the tables for `TablesBeforeContent`.

## 6. Not modelled

* SPDK, DPDK, libpcap and glibc: submodules or system libraries, modelled where they are
  called by what the callers rely on.
* The counter `n_mbufs` of `runtime.c:163`, which nobody reads. It is indexed by the port in an array of 16, while
  ports may have larger numbers: what is overwritten then has no meaning in the model.
* `replay_init_rings_tx`, which does nothing, since no core is a worker, and the printing of the parameters.
* Option parsing of the other tools, except that it can keep a tool from starting; printing.
* A tear inside one sector: a sector is written as a whole.
* Two tools at a time: SPDK takes the device for one process.
* What happens after a null pointer is used (`cp.c:207`) or an array is overrun (`main.c:74`).
* `blocksLeft` and `findFileDisk`: no caller.

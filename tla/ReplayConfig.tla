---------------------------- MODULE ReplayConfig ----------------------------
(***************************************************************************)
(* The options of the replay, config.c: --rx and --tx hand queues of the   *)
(* ports to cores, --rsz and --bsz set sizes.  Options may come in any     *)
(* order and more than once.  What starts the ports and the cores after    *)
(* that relies on the tables that are filled here.                         *)
(***************************************************************************)
EXTENDS Integers, Sequences, FiniteSets

CONSTANTS
    MaxPorts,      \* REPLAY_MAX_NIC_PORTS
    MaxQueues,     \* REPLAY_MAX_RX_ and _TX_QUEUES_PER_NIC_PORT
    MaxLcores,     \* REPLAY_MAX_LCORES
    PerLcore,      \* REPLAY_MAX_NIC_RX_ and _TX_QUEUES_PER_IO_LCORE
    MaxTuples,     \* REPLAY_ARG_RX_ and _TX_MAX_TUPLES
    ArraySize,     \* REPLAY_MBUF_ARRAY_SIZE
    Enabled,       \* the cores rte_lcore_is_enabled answers for
    ArgPorts, ArgQueues, ArgLcores, ArgDisks, ArgSizes,  \* what a user types
    MaxOptions     \* bound: options of a command line

ASSUME ReplayAssumption ==
    /\ MaxPorts \in Nat /\ MaxQueues \in Nat /\ MaxLcores \in Nat
    /\ PerLcore \in Nat /\ MaxTuples \in Nat /\ ArraySize \in Nat
    /\ Enabled \subseteq 0 .. MaxLcores - 1
    /\ ArgPorts \cup ArgQueues \cup ArgLcores \cup ArgDisks \cup ArgSizes \subseteq Nat
    /\ MaxOptions \in Nat

VARIABLES
    mask,       \* the (port, queue) whose nic_rx_queue_mask, nic_tx_queue_mask is 1
    nvme,       \* nic_tx_queue_nvme of the queues in the mask
    type,       \* of each core: "disabled" or "io"
    queues,     \* nic_queues of each core and direction
    rsz, bsz,   \* ring sizes and burst sizes
    args,       \* the mandatory options seen
    pc,
    n_tuples,   \* of the option that is parsed
    ret,        \* what the parser of the option returned
    options     \* options so far

vars == <<mask, nvme, type, queues, rsz, bsz, args, pc, n_tuples, ret, options>>

Dirs   == {"rx", "tx"}
Lcores == 0 .. MaxLcores - 1
Queues == (0 .. MaxPorts - 1) \X (0 .. MaxQueues - 1)

DefaultRing  == <<1024, 1024>>
DefaultBurst == <<144, 144>>

Init ==
    /\ mask = [dir \in Dirs |-> {}]
    /\ nvme = <<>>
    /\ type = [l \in Lcores |-> "disabled"]
    /\ queues = [dir \in Dirs |-> [l \in Lcores |-> <<>>]]
    /\ rsz = <<0, 0>> /\ bsz = <<0, 0>>
    /\ args = {} /\ pc = "options" /\ n_tuples = 0 /\ ret = 0 /\ options = 0

\* The parser of an option returns an error; replay_parse_args does so too, and
\* app_config ends the process.
Reject(code) == ret' = code /\ pc' = "rejected"

-----------------------------------------------------------------------------
\* The next option is --rx or --tx.
option(dir) ==
    /\ pc = "options"
    /\ options < MaxOptions
    /\ options' = options + 1
    /\ pc' = dir
    /\ args' = args \cup {dir}
    /\ n_tuples' = 0
    /\ UNCHANGED <<mask, nvme, type, queues, rsz, bsz, ret>>

\* A tuple without ) or of too few numbers is refused.  What is not a number makes
\* str_to_unsigned_array return -1, which str_to_unsigned_vals takes for 2^32 - 1
\* values that it stores wherever its stack points.
malformed(dir) ==
    /\ pc = dir
    /\ Reject(-2) \/ (pc' = "undefined" /\ UNCHANGED ret)
    /\ UNCHANGED <<mask, nvme, type, queues, rsz, bsz, args, n_tuples, options>>

\* Mutant: a queue may be taken twice.
RefusedOnlyIfAbsent(dir, q) == IF q \notin Queues THEN -3 ELSE 0

\* The port or the queue does not exist, or another tuple has taken the queue.
Refused(dir, q) ==
    IF q \notin Queues THEN -3 ELSE IF q \in mask[dir] THEN -4 ELSE 0

refuseQueue(dir, q) ==
    /\ pc = dir
    /\ Refused(dir, q) # 0
    /\ Reject(Refused(dir, q))
    /\ UNCHANGED <<mask, nvme, type, queues, rsz, bsz, args, n_tuples, options>>

\* The queue is entered in the tables of the port before the core is looked at.
TakeQueue(dir, q, disk) ==
    /\ pc = dir
    /\ Refused(dir, q) = 0
    /\ mask' = [mask EXCEPT ![dir] = @ \cup {q}]
    /\ nvme' = IF dir = "tx" THEN [x \in mask'[dir] |-> IF x = q THEN disk ELSE nvme[x]]
                             ELSE nvme
    /\ UNCHANGED <<rsz, bsz, args, options>>

\* The core is not enabled; one beyond the table (config.c:192, 268) never is.
refuseLcore(dir, q, disk, lcore) ==
    /\ TakeQueue(dir, q, disk)
    /\ lcore \notin Enabled
    /\ Reject(-5)
    /\ UNCHANGED <<type, queues, n_tuples>>

HasQueue(dir, l, q) == \E i \in DOMAIN queues[dir][l] : queues[dir][l][i] = q

\* Mutant: a core may be given one queue too many.
FullTooLate(dir, l) == Len(queues[dir][l]) > PerLcore

Full(dir, l) == Len(queues[dir][l]) >= PerLcore

\* The core gets the queue, unless it has it or has too many.
giveLcore(dir, q, disk, lcore) ==
    /\ TakeQueue(dir, q, disk)
    /\ lcore \in Enabled
    /\ type' = [type EXCEPT ![lcore] = "io"]
    /\ IF HasQueue(dir, lcore, q)
         THEN Reject(-8) /\ UNCHANGED <<queues, n_tuples>>
       ELSE IF Full(dir, lcore)
         THEN Reject(-9) /\ UNCHANGED <<queues, n_tuples>>
       ELSE /\ queues' = [queues EXCEPT ![dir][lcore] = Append(@, q)]
            /\ n_tuples' = n_tuples + 1
            /\ IF n_tuples' > MaxTuples THEN Reject(-10) ELSE UNCHANGED <<pc, ret>>

\* There is no further tuple.
endOption(dir) ==
    /\ pc = dir
    /\ IF n_tuples = 0 THEN Reject(-11) ELSE ret' = 0 /\ pc' = "options"
    /\ UNCHANGED <<mask, nvme, type, queues, rsz, bsz, args, n_tuples, options>>

\* --rsz or --bsz with one number, or with none: what is there is stored.
sizesMissing(a) ==
    /\ pc = "options" /\ options < MaxOptions
    /\ options' = options + 1
    /\ \/ rsz' = <<a, rsz[2]>> /\ UNCHANGED bsz
       \/ bsz' = <<a, bsz[2]>> /\ UNCHANGED rsz
    /\ Reject(-2)
    /\ UNCHANGED <<mask, nvme, type, queues, args, n_tuples>>

\* --rsz: the sizes are stored before they are checked.
parse_arg_rsz(a, b) ==
    /\ pc = "options" /\ options < MaxOptions
    /\ options' = options + 1
    /\ rsz' = <<a, b>>
    /\ IF a = 0 \/ b = 0 THEN Reject(-3) ELSE UNCHANGED <<pc, ret>>
    /\ UNCHANGED <<mask, nvme, type, queues, bsz, args, n_tuples>>

\* --bsz: the sizes are stored before they are checked.
parse_arg_bsz(a, b) ==
    /\ pc = "options" /\ options < MaxOptions
    /\ options' = options + 1
    /\ bsz' = <<a, b>>
    /\ IF a = 0 \/ b = 0 THEN Reject(-7)
       ELSE IF a > ArraySize \/ b > ArraySize THEN Reject(-8)
       ELSE UNCHANGED <<pc, ret>>
    /\ UNCHANGED <<mask, nvme, type, queues, rsz, args, n_tuples>>

\* --ifile is not implemented: the process ends.
parse_arg_ifile ==
    /\ pc = "options" /\ options < MaxOptions
    /\ options' = options + 1
    /\ pc' = "exited"
    /\ UNCHANGED <<mask, nvme, type, queues, rsz, bsz, args, n_tuples, ret>>

\* An option that does not exist or is too long, or a size that is not a number.
badOption ==
    /\ pc = "options" /\ options < MaxOptions
    /\ options' = options + 1
    /\ Reject(-1) \/ (pc' = "undefined" /\ UNCHANGED ret)
    /\ UNCHANGED <<mask, nvme, type, queues, rsz, bsz, args, n_tuples>>

\* getopt_long has no further option.
replay_parse_args ==
    /\ pc = "options"
    /\ IF {"rx", "tx", "ifile"} \subseteq args
       THEN /\ rsz' = IF rsz = <<0, 0>> THEN DefaultRing ELSE rsz
            /\ bsz' = IF bsz = <<0, 0>> THEN DefaultBurst ELSE bsz
            /\ pc' = "accepted"
            /\ UNCHANGED ret
       ELSE Reject(-1) /\ UNCHANGED <<rsz, bsz>>
    /\ UNCHANGED <<mask, nvme, type, queues, args, n_tuples, options>>

Tuple(dir) ==
    \E q \in ArgPorts \X ArgQueues :
      \/ refuseQueue(dir, q)
      \/ \E lcore \in ArgLcores, disk \in IF dir = "tx" THEN ArgDisks ELSE {0} :
           refuseLcore(dir, q, disk, lcore) \/ giveLcore(dir, q, disk, lcore)

Next ==
    \/ \E dir \in Dirs : option(dir) \/ malformed(dir) \/ Tuple(dir) \/ endOption(dir)
    \/ \E a, b \in ArgSizes : parse_arg_rsz(a, b) \/ parse_arg_bsz(a, b)
    \/ \E a \in ArgSizes : sizesMissing(a)
    \/ parse_arg_ifile
    \/ badOption
    \/ replay_parse_args

Spec == Init /\ [][Next]_vars
-----------------------------------------------------------------------------
(* replay_get_lcore_for_nic_rx and _tx, which the start of the ports calls. *)

\* The first core that handles queue q, or -1.
replay_get_lcore_for_nic(dir, q) ==
    LET found == {l \in Lcores : type[l] = "io" /\ HasQueue(dir, l, q)}
    IN  IF found = {} THEN -1 ELSE CHOOSE l \in found : \A x \in found : l <= x

Handlers(dir, q) ==
    {h \in Lcores \X (1 .. PerLcore) :
       h[2] <= Len(queues[dir][h[1]]) /\ queues[dir][h[1]][h[2]] = q}

-----------------------------------------------------------------------------
(* Properties.                                                             *)

\* The variables have the types of the C declarations.
TypeOK ==
    /\ mask \in [Dirs -> SUBSET Queues]
    /\ DOMAIN nvme = mask["tx"]
    /\ type \in [Lcores -> {"disabled", "io"}]
    /\ queues \in [Dirs -> [Lcores -> Seq(Queues)]]
    /\ \A dir \in Dirs, l \in Lcores : Len(queues[dir][l]) <= PerLcore
    /\ rsz \in Nat \X Nat /\ bsz \in Nat \X Nat
    /\ args \subseteq {"rx", "tx", "ifile"}
    /\ pc \in {"options", "rx", "tx", "rejected", "exited", "undefined", "accepted"}
    /\ n_tuples \in 0 .. MaxTuples + 1
    /\ ret \in -11 .. 0

\* The table of the ports (config.c:185 and 260), from which init.c sets the queues
\* up, and the tables of the cores (config.c:209 and 285), which the main loops go
\* through, agree as long as nothing was refused: every queue that is set up is
\* handled by one core, once, and the look-up finds that core.
QueuesHandled ==
    pc \notin {"rejected", "undefined"} =>
      \A dir \in Dirs, q \in Queues :
        IF q \in mask[dir]
        THEN \E l \in Lcores, i \in 1 .. PerLcore :
               /\ Handlers(dir, q) = {<<l, i>>}
               /\ replay_get_lcore_for_nic(dir, q) = l
               /\ l \in Enabled
        ELSE Handlers(dir, q) = {}

\* A queue that was handed out stays with its core and its disk (config.c:257 and
\* 261), whatever options follow and whatever they are refused for.
QueuesKept ==
    [][\A dir \in Dirs : \A q \in mask[dir] :
         /\ q \in mask'[dir]
         /\ Handlers(dir, q) \subseteq Handlers(dir, q)'
         /\ dir = "tx" => nvme'[q] = nvme[q]]_vars
=============================================================================

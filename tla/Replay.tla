------------------------------- MODULE Replay -------------------------------
(***************************************************************************)
(* The replay from app_init on: init.c makes the pools of mbufs, starts    *)
(* the queues of the ports and waits for their links; runtime.c is what    *)
(* every core with queues then does for ever, all of them at once.  DPDK   *)
(* is external: its drivers keep mbufs in the rings of the queues and give *)
(* them back when they please.                                             *)
(*                                                                         *)
(* The tables are any that the options may fill (ReplayConfig).  At this   *)
(* commit --ifile still ends the process (config.c:355-359): the module    *)
(* starts where the options leave off once it does not.                    *)
(***************************************************************************)
EXTENDS Integers, Sequences, FiniteSets, FiniteSetsExt

CONSTANTS
    Lcores,            \* the cores that the tables may name
    EalCores,          \* those of the core mask, which rte_eal_init starts
    SocketOf,          \* rte_lcore_to_socket_id
    MaxSockets,        \* REPLAY_MAX_SOCKETS
    MaxPorts,          \* REPLAY_MAX_NIC_PORTS
    MaxQueues,         \* REPLAY_MAX_RX_ and _TX_QUEUES_PER_NIC_PORT
    Tables,            \* nic_queues of each direction and core
    PoolSize,          \* REPLAY_DEFAULT_MEMPOOL_BUFFERS
    CacheSize,         \* REPLAY_DEFAULT_MEMPOOL_CACHE_SIZE
    RxRing, TxRing,    \* nic_rx_ring_size, nic_tx_ring_size
    RxBurst, TxBurst,  \* burst_size_io_rx_read, burst_size_io_tx_write
    MAX_CHECK_TIME,
    MaxFaults          \* bound: calls of DPDK that fail in a behaviour

Dirs    == {"rx", "tx"}
Ports   == 0 .. MaxPorts - 1
Queues  == Ports \X (0 .. MaxQueues - 1)
Sockets == 0 .. MaxSockets - 1

\* What QueuesHandled of ReplayConfig says of the tables: no queue is there twice.
OneCoreEach(t) ==
    \A dir \in Dirs, l, m \in Lcores :
      \A i \in DOMAIN t[dir][l], j \in DOMAIN t[dir][m] :
        t[dir][l][i] = t[dir][m][j] => l = m /\ i = j

ASSUME RunAssumption ==
    /\ IsFiniteSet(Lcores) /\ EalCores \subseteq Lcores
    /\ Tables \subseteq [Dirs -> [Lcores -> Seq(Queues)]]
    /\ SocketOf \in [Lcores -> Nat]
    /\ MaxSockets \in Nat /\ MaxPorts \in Nat /\ MaxQueues \in Nat
    /\ \A t \in Tables : OneCoreEach(t)
    /\ {PoolSize, RxRing, TxRing, RxBurst, TxBurst, MAX_CHECK_TIME} \subseteq Nat \ {0}
    /\ CacheSize \in Nat /\ MaxFaults \in Nat

VARIABLES
    queues,      \* nic_queues
    pc,          \* where the main core is: see TypeOK
    port,        \* the next port that is started
    ready,       \* the queues that were set up, with the socket of the pool
    count,       \* of check_all_ports_link_status
    print_flag,
    reported,    \* the ports whose link was printed
    core,        \* of each core: its place in its queues, the mbufs it holds, and a
                 \* bit that makes a turn of its loop that gets no mbuf a step
    avail,       \* mbufs in the pool of each socket
    arrived,     \* packets that wait in each receive queue
    unsent,      \* mbufs in each transmit queue that the port has still to send
    sent,        \* mbufs in it that were sent and are not back in the pool
    faults       \* calls that failed so far

link_vars == <<count, print_flag, reported>>
mbuf_vars == <<core, avail, arrived, unsent, sent>>
vars == <<queues, pc, port, ready, link_vars, mbuf_vars, faults>>

\* The queues whose nic_rx_queue_mask or nic_tx_queue_mask is 1, by QueuesHandled.
Mask(dir) == UNION {{queues[dir][l][i] : i \in DOMAIN queues[dir][l]} : l \in Lcores}
MaskOf(dir, p) == {q \in Mask(dir) : q[1] = p}

\* Mutant: the number of queues of a port is the largest number of a queue.
queues_per_port_last(dir, p) == Max({q[2] : q \in MaskOf(dir, p)} \cup {0})

\* replay_get_nic_rx_queues_per_port and _tx_.
queues_per_port(dir, p) == Cardinality(MaskOf(dir, p))

\* Mutant: a port needs queues of both directions.
UsedPortsBothWays == {p \in Ports : \A dir \in Dirs : queues_per_port(dir, p) > 0}

UsedPorts == {p \in Ports : \E dir \in Dirs : queues_per_port(dir, p) > 0}

\* Every core with a queue is e_REPLAY_LCORE_IO, the others are disabled.
IoCores == {l \in Lcores : \E dir \in Dirs : queues[dir][l] # <<>>}

replay_get_lcore_for_nic(dir, q) ==
    CHOOSE l \in Lcores : \E i \in DOMAIN queues[dir][l] : queues[dir][l][i] = q

replay_is_socket_used(s) == \E l \in IoCores : SocketOf[l] = s

First(dir) == [dir |-> dir, i |-> 1, held |-> 0, turn |-> FALSE]

Init ==
    /\ queues \in Tables
    /\ pc = "pools" /\ port = 0 /\ ready = {}
    /\ count = 0 /\ print_flag = FALSE /\ reported = {}
    /\ core = [l \in Lcores |-> First("rx")]
    /\ avail = [s \in Sockets |-> 0]
    /\ arrived = [q \in Queues |-> 0]
    /\ unsent = [q \in Queues |-> 0] /\ sent = [q \in Queues |-> 0]
    /\ faults = 0

-----------------------------------------------------------------------------
(* replay_init: any call of DPDK may fail, and then rte_panic is called.   *)

rte_panic ==
    /\ pc \in {"pools", "ports"}
    /\ faults < MaxFaults
    /\ faults' = faults + 1
    /\ pc' = "panic"
    /\ UNCHANGED <<queues, port, ready, link_vars, mbuf_vars>>

\* A pool for every socket that is used.  A core of a socket beyond the table gets
\* what lies behind it for a pool.  replay_init_rings_tx finds no worker.
replay_init_mbuf_pools ==
    /\ pc = "pools"
    /\ avail' = [s \in Sockets |-> IF replay_is_socket_used(s) THEN PoolSize ELSE 0]
    /\ pc' = IF \A l \in IoCores : SocketOf[l] \in Sockets THEN "ports" ELSE "undefined"
    /\ UNCHANGED <<queues, port, ready, link_vars, core, arrived, unsent, sent, faults>>

SetUp(dir) == {[dir |-> dir, queue |-> q,
                socket |-> SocketOf[replay_get_lcore_for_nic(dir, q)]] :
                  q \in MaskOf(dir, port)}

\* The mbufs that the receive rings of the port take from the pool of socket s.
Filled(s) == RxRing * Cardinality({r \in SetUp("rx") : r.socket = s})

\* The port is told how many queues it has; it then refuses one with a number
\* beyond that, and does not start if a ring cannot be filled.
Refused ==
    \/ \E dir \in Dirs : \E q \in MaskOf(dir, port) : q[2] >= queues_per_port(dir, port)
    \/ \E s \in Sockets : Filled(s) > avail[s]

\* One port of replay_init_nics.
replay_init_nics ==
    /\ pc = "ports" /\ port < MaxPorts
    /\ \/ /\ port \notin UsedPorts
          /\ port' = port + 1
          /\ UNCHANGED <<pc, ready, avail>>
       \/ /\ port \in UsedPorts /\ Refused
          /\ pc' = "panic"
          /\ UNCHANGED <<port, ready, avail>>
       \/ /\ port \in UsedPorts /\ ~Refused
          /\ ready' = ready \cup SetUp("rx") \cup SetUp("tx")
          /\ avail' = [s \in Sockets |-> avail[s] - Filled(s)]
          /\ port' = port + 1
          /\ UNCHANGED pc
    /\ UNCHANGED <<queues, link_vars, core, arrived, unsent, sent, faults>>

portsStarted ==
    /\ pc = "ports" /\ port = MaxPorts
    /\ pc' = "link"
    /\ UNCHANGED <<queues, port, ready, link_vars, mbuf_vars, faults>>

\* Mutant: the flag is set in the last turn of the loop.
TimeIsOverLate == count = MAX_CHECK_TIME

TimeIsOver == count = MAX_CHECK_TIME - 1

\* A turn of the loop of check_all_ports_link_status, which finds some ports up.  The
\* links are printed in the turn after they were all up, or the time was over; the
\* loop ends then, or with its counter.
check_all_ports_link_status ==
    /\ pc = "link"
    /\ reported' = IF print_flag THEN UsedPorts ELSE reported
    /\ IF print_flag \/ count = MAX_CHECK_TIME
       THEN pc' = "launch" /\ count' = 0 /\ print_flag' = FALSE
       ELSE /\ \E up \in SUBSET UsedPorts : print_flag' = (up = UsedPorts \/ TimeIsOver)
            /\ count' = count + 1
            /\ UNCHANGED pc
    /\ UNCHANGED <<queues, port, ready, mbuf_vars, faults>>

\* The main loop is launched on every core of the mask, the main one included.  The
\* options were parsed before the environment was set up (main.c:140), when every core
\* counts as enabled: a core of the tables may be none of them.
app_run ==
    /\ pc = "launch"
    /\ pc' = "run"
    /\ core' = [l \in Lcores |-> First(IF queues["rx"][l] # <<>> THEN "rx" ELSE "tx")]
    /\ UNCHANGED <<queues, port, ready, link_vars, avail, arrived, unsent, sent, faults>>

-----------------------------------------------------------------------------
(* replay_lcore_main_loop_io, on core l.                                   *)

Queue(l) == queues[core[l].dir][l][core[l].i]

Other(dir) == IF dir = "rx" THEN "tx" ELSE "rx"

\* Mutant: the loop over the queues is left after the first of them.
NextQueueReturns(l) ==
    LET dir == core[l].dir
    IN  First(IF queues[Other(dir)][l] # <<>> THEN Other(dir) ELSE dir)

\* The next queue in the loop over the queues of one direction, or the first one of
\* the other direction, if the core has any.
NextQueue(l) ==
    LET dir == core[l].dir
    IN  IF core[l].i < Len(queues[dir][l])
        THEN [First(dir) EXCEPT !.i = core[l].i + 1]
        ELSE First(IF queues[Other(dir)][l] # <<>> THEN Other(dir) ELSE dir)

\* The cores whose loop runs: the others of the tables were never launched.
LaunchedCores == IoCores \cap EalCores

\* The pool had no mbuf for the core.
Missed(l) == [NextQueue(l) EXCEPT !.turn = ~core[l].turn]

AtQueue(l, dir) == pc = "run" /\ l \in LaunchedCores /\ core[l].dir = dir

Undefined == pc' = "undefined" /\ UNCHANGED mbuf_vars

\* The mbufs of a pool that core l does not get: those in the caches of the others, of
\* which each keeps less than one and a half times the size of a cache.
InOtherCaches(l) == (CacheSize + CacheSize \div 2) * Cardinality(EalCores \ {l})

\* Mutant: all that has arrived, whatever the array has room for.
BurstOfRing(q) == arrived[q]

Burst(q) == Min({RxBurst, arrived[q]})

\* rte_eth_rx_burst hands over mbufs with packets; the driver puts others in their
\* places in the ring, which it takes from the pool of the queue, as long as it gets some.
rx_burst(l) ==
    /\ AtQueue(l, "rx") /\ core[l].held = 0
    /\ LET s == SocketOf[l]
       IN  \E n \in 0 .. Min({Burst(Queue(l)), avail[s]}) :
           /\ n < Burst(Queue(l)) => avail[s] - n <= InOtherCaches(l)
           /\ core' = [core EXCEPT ![l] = IF n > 0 THEN [@ EXCEPT !.held = n]
                                          ELSE IF arrived[Queue(l)] > 0 THEN Missed(l)
                                          ELSE NextQueue(l)]
           /\ arrived' = [arrived EXCEPT ![Queue(l)] = @ - n]
           /\ avail' = [avail EXCEPT ![s] = @ - n]
    /\ UNCHANGED <<queues, pc, port, ready, link_vars, unsent, sent, faults>>

\* "Drop all packets": one turn of the loop that frees them.
rx_free(l) ==
    /\ AtQueue(l, "rx") /\ core[l].held > 0
    /\ avail' = [avail EXCEPT ![SocketOf[l]] = @ + 1]
    /\ core' = [core EXCEPT ![l] = IF core[l].held = 1 THEN NextQueue(l)
                                   ELSE [@ EXCEPT !.held = core[l].held - 1]]
    /\ UNCHANGED <<queues, pc, port, ready, link_vars, arrived, unsent, sent, faults>>

\* An mbuf is taken from the pool of socket 0, whichever socket the core is on.
tx_alloc(l) ==
    /\ AtQueue(l, "tx") /\ core[l].held = 0
    /\ \/ /\ ~replay_is_socket_used(0)
          /\ Undefined
       \/ /\ replay_is_socket_used(0)
          /\ \/ /\ avail[0] <= InOtherCaches(l)
                /\ core' = [core EXCEPT ![l] = Missed(l)] /\ UNCHANGED avail
             \/ /\ avail[0] > 0
                /\ core' = [core EXCEPT ![l].held = 1]
                /\ avail' = [avail EXCEPT ![0] = @ - 1]
          /\ UNCHANGED <<pc, arrived, unsent, sent>>
    /\ UNCHANGED <<queues, port, ready, link_vars, faults>>

\* Mutant: what the port did not take is not freed.
NotFreed(n) == 0

\* while (n_pkts < n_mbufs) rte_ctrlmbuf_free (tmpbuf): as often as the burst has
\* mbufs that were not taken.
FreedAfterBurst(n) == TxBurst - n

\* rte_eth_tx_burst is told of TxBurst mbufs where there is one: if more than one fit into
\* the ring the driver looks behind the variable, which is undefined; it may stop there.
\* Before it the driver gives back some of those that were sent, at least one if the
\* ring is full.
tx_burst(l) ==
    /\ AtQueue(l, "tx") /\ core[l].held = 1
    /\ \E cleaned \in 0 .. sent[Queue(l)] :
         LET q    == Queue(l)
             room == TxRing - unsent[q] - sent[q]
             fit  == Min({TxBurst, room + cleaned})
             n    == Min({1, fit})
         IN  /\ room = 0 /\ sent[q] > 0 => cleaned > 0
             /\ \/ fit > 1 /\ Undefined
                \/ /\ core' = [core EXCEPT ![l] = NextQueue(l)]
                   /\ avail' = [avail EXCEPT ![0] = @ + cleaned + FreedAfterBurst(n)]
                   /\ unsent' = [unsent EXCEPT ![q] = @ + n]
                   /\ sent' = [sent EXCEPT ![q] = @ - cleaned]
                   /\ UNCHANGED <<pc, arrived>>
    /\ UNCHANGED <<queues, port, ready, link_vars, faults>>

-----------------------------------------------------------------------------
(* The ports.                                                              *)

arrives(q) ==
    /\ pc = "run"
    /\ q \in Mask("rx") /\ arrived[q] < RxRing
    /\ arrived' = [arrived EXCEPT ![q] = @ + 1]
    /\ UNCHANGED <<queues, pc, port, ready, link_vars, core, avail, unsent, sent, faults>>

leaves(q) ==
    /\ pc = "run"
    /\ unsent[q] > 0
    /\ unsent' = [unsent EXCEPT ![q] = @ - 1]
    /\ sent' = [sent EXCEPT ![q] = @ + 1]
    /\ UNCHANGED <<queues, pc, port, ready, link_vars, core, avail, arrived, faults>>

-----------------------------------------------------------------------------
StartUp ==
    \/ replay_init_mbuf_pools
    \/ replay_init_nics
    \/ portsStarted
    \/ check_all_ports_link_status
    \/ app_run

main_loop_io(l) == rx_burst(l) \/ rx_free(l) \/ tx_alloc(l) \/ tx_burst(l)

Next ==
    \/ StartUp
    \/ rte_panic
    \/ \E l \in Lcores : main_loop_io(l)
    \/ \E q \in Queues : arrives(q) \/ leaves(q)

Spec == Init /\ [][Next]_vars

\* Every core that was launched runs its loop, and a port sends what it was given.
FairSpec ==
    /\ Spec
    /\ WF_vars(StartUp)
    /\ \A l \in EalCores : WF_vars(main_loop_io(l))
    /\ \A q \in Queues : WF_vars(leaves(q))
-----------------------------------------------------------------------------
(* Properties.                                                             *)

\* The variables have the types of the C declarations.
TypeOK ==
    /\ queues \in Tables
    /\ pc \in {"pools", "ports", "link", "launch", "run", "panic", "undefined"}
    /\ port \in 0 .. MaxPorts
    /\ ready \subseteq [dir : Dirs, queue : Queues, socket : Nat]
    /\ reported \subseteq Ports
    /\ count \in 0 .. MAX_CHECK_TIME
    /\ print_flag \in BOOLEAN
    /\ core \in [Lcores -> [dir : Dirs, i : Nat \ {0}, held : 0 .. RxBurst, turn : BOOLEAN]]
    /\ avail \in [Sockets -> Nat]
    /\ arrived \in [Queues -> 0 .. RxRing]
    /\ unsent \in [Queues -> Nat] /\ sent \in [Queues -> Nat]
    /\ \A q \in Queues : unsent[q] + sent[q] <= TxRing
    /\ faults \in 0 .. MaxFaults

\* All that f counts, one pair for each: its size is the sum of the values of f.
Heap(f) == UNION {{d} \X (1 .. f[d]) : d \in DOMAIN f}

\* What each core holds of the mbufs of socket s, and what each transmit queue does.
Held(s) == [l \in Lcores |->
              IF (IF core[l].dir = "rx" THEN SocketOf[l] ELSE 0) = s THEN core[l].held ELSE 0]
InTx(s) == [q \in Queues |-> IF s = 0 THEN unsent[q] + sent[q] ELSE 0]

\* The places of the receive rings that were filled from the pool of socket s.
ReadyOn(s) == {r \in ready : r.dir = "rx" /\ r.socket = s}

\* The mbufs in the pool of socket s, in the receive rings filled from it, in the
\* hands of the cores and, for socket 0, in the transmit rings.
Accounted(s) == avail[s] + RxRing * Cardinality(ReadyOn(s))
                  + Cardinality(Heap(Held(s))) + Cardinality(Heap(InTx(s)))

\* How often a burst that is sent frees its mbuf too often.
FreedAgain(s) == IF s = 0 THEN TxBurst - 1 ELSE 0

\* No mbuf is lost, whatever the cores and the ports do at once, and none is freed twice
\* but by the loop behind a burst of more than one, which does it TxBurst - 1 times for
\* every call (runtime.c:129-130, 145, 155-160): with a burst of one, and in every pool but
\* that of socket 0, every mbuf is in one place.
MbufsConserved ==
    pc = "run" =>
      \A s \in Sockets : replay_is_socket_used(s) =>
        \E calls \in 0 .. Accounted(s) : Accounted(s) = PoolSize + calls * FreedAgain(s)

\* The cores only poll queues that were set up, on ports that were started, and
\* their mbufs come from the socket of the core (init.c:263-325).
QueuesReady ==
    pc = "run" =>
      \A l \in Lcores, dir \in Dirs : \A i \in DOMAIN queues[dir][l] :
        [dir |-> dir, queue |-> queues[dir][l][i], socket |-> SocketOf[l]] \in ready

\* The receive queues whose cores are on socket s.
OnSocket(s) == {q \in Mask("rx") : SocketOf[replay_get_lcore_for_nic("rx", q)] = s}

Dense == \A dir \in Dirs : \A q \in Mask(dir) :
           \A k \in 0 .. q[2] : <<q[1], k>> \in Mask(dir)

\* Ports whose queues are numbered from 0 on start, unless a call fails or the rings
\* are more than the pools can fill (init.c:275-326).
PanicsForAReason ==
    [][pc' = "panic" =>
         \/ faults' > 0
         \/ ~Dense
         \/ \E s \in Sockets : RxRing * Cardinality(OnSocket(s)) > PoolSize]_vars

\* "check the link status of all ports in up to 9s, and print them finally"
\* (init.c:193): the cores are launched after the links were printed, also when they
\* come up at the last moment or not at all (init.c:203, 235, 245).
LinksReported == pc = "run" => reported = UsedPorts

\* The pool of socket s holds more than the rings, the cores and the caches of all cores but
\* one ever have of it.
Ample(s) ==
    LET Receiving == {l \in LaunchedCores : SocketOf[l] = s /\ queues["rx"][l] # <<>>}
        Sending   == {l \in LaunchedCores : queues["tx"][l] # <<>>}
        ForTx     == TxRing * Cardinality(Mask("tx")) + Cardinality(Sending)
        Cached    == (CacheSize + CacheSize \div 2) * (Cardinality(EalCores) - 1)
    IN  RxRing * Cardinality(OnSocket(s)) + RxBurst * Cardinality(Receiving) + Cached
          + (IF s = 0 THEN ForTx ELSE 0) <= PoolSize

\* A queue that a launched core goes to: its core is one of the mask.
Served(dir, q) == q \in Mask(dir) /\ replay_get_lcore_for_nic(dir, q) \in EalCores

\* No transmit queue of a launched core runs dry if the pool of socket 0 is ample: the rings,
\* the other cores and their caches do not keep all the mbufs (runtime.c:145-148, 157-160).
KeepsSending ==
    \A q \in Queues :
      pc = "run" /\ Served("tx", q) /\ Ample(0) ~> unsent[q] > 0 \/ pc = "undefined"

\* No receive ring of a launched core stays full if the pools are ample (runtime.c:121,
\* 128-131).
KeepsReceiving ==
    \A q \in Queues :
      arrived[q] = RxRing /\ Served("rx", q) /\ (\A s \in Sockets : Ample(s)) ~>
        arrived[q] < RxRing \/ pc = "undefined"
=============================================================================

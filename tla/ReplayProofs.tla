---------------------------- MODULE ReplayProofs ----------------------------
(***************************************************************************)
(* The replay from the pools to the loops of the cores, for every table of *)
(* queues, number of cores, sockets and ports, and size of the pools and   *)
(* rings: the links are reported before the cores run, the types are kept, *)
(* what is polled was set up, a start only fails for a reason, and no mbuf *)
(* is lost.                                                                *)
(***************************************************************************)
EXTENDS Replay, FiniteSetTheorems, TLAPS

\* The flag is set when the last turn of the loop begins, so that the loop does not
\* come to its end without having printed.
LinkInv ==
    /\ count \in Nat
    /\ pc \in {"pools", "ports"} => count = 0
    /\ pc = "link" => count <= MAX_CHECK_TIME /\ (count = MAX_CHECK_TIME => print_flag)
    /\ pc \in {"launch", "run"} => reported = UsedPorts

\* The tables of the queues do not change after the options were parsed.
LEMMA TablesKept ==
    ASSUME queues' = queues
    PROVE  UsedPorts' = UsedPorts
  BY DEF UsedPorts, queues_per_port, MaskOf, Mask, Ports, Dirs

\* The invariant of the loop of check_all_ports_link_status holds at its start.
LEMMA LinkInit == Init => LinkInv
  BY DEF Init, LinkInv

\* A step outside check_all_ports_link_status keeps the invariant.
LEMMA ElsewhereKeeps ==
    ASSUME LinkInv, queues' = queues, UNCHANGED link_vars,
           pc' \in {pc, "panic", "undefined"}
    PROVE  LinkInv'
  BY TablesKept DEF LinkInv, link_vars

\* Every turn of the loop, and every other step, keeps the invariant.
LEMMA LinkNext == LinkInv /\ [Next]_vars => LinkInv'
<1> SUFFICES ASSUME LinkInv, [Next]_vars
             PROVE  LinkInv'
  OBVIOUS
<1>1. CASE replay_init_mbuf_pools
  BY <1>1, RunAssumption DEF replay_init_mbuf_pools, LinkInv, link_vars
<1>2. CASE replay_init_nics
  BY <1>2, ElsewhereKeeps DEF replay_init_nics
<1>3. CASE portsStarted
  BY <1>3, RunAssumption DEF portsStarted, LinkInv, link_vars
<1>4. CASE check_all_ports_link_status
  <2>1. UsedPorts' = UsedPorts
    BY <1>4, TablesKept DEF check_all_ports_link_status
  <2>2. CASE print_flag
    BY <1>4, <2>1, <2>2 DEF check_all_ports_link_status, LinkInv
  <2>3. CASE ~print_flag
    <3>1. count < MAX_CHECK_TIME
      BY <1>4, <2>3, RunAssumption DEF check_all_ports_link_status, LinkInv
    <3>2. count' = count + 1 /\ pc' = "link" /\ (TimeIsOver => print_flag')
      BY <1>4, <2>3, <3>1, RunAssumption DEF check_all_ports_link_status, LinkInv
    <3>3. QED
      BY <2>1, <3>1, <3>2, RunAssumption DEF LinkInv, TimeIsOver
  <2>4. QED
    BY <2>2, <2>3
<1>5. CASE app_run
  BY <1>5, TablesKept DEF app_run, LinkInv, link_vars
<1>6. CASE rte_panic
  BY <1>6, ElsewhereKeeps DEF rte_panic
<1>7. CASE \E l \in Lcores : main_loop_io(l)
  BY <1>7, ElsewhereKeeps
     DEF main_loop_io, rx_burst, rx_free, tx_alloc, tx_burst, Undefined
<1>8. CASE \E q \in Queues : arrives(q) \/ leaves(q)
  BY <1>8, ElsewhereKeeps DEF arrives, leaves
<1>9. CASE UNCHANGED vars
  BY <1>9, ElsewhereKeeps DEF vars
<1>10. QED
  BY <1>1, <1>2, <1>3, <1>4, <1>5, <1>6, <1>7, <1>8, <1>9 DEF Next, StartUp

\* The cores are launched after the links of all the ports in use were printed
\* (init.c:193-250), also when the links come up at the last moment or not at all.
THEOREM LinksReportedCorrect == Spec => []LinksReported
<1>1. LinkInv => LinksReported
  BY DEF LinkInv, LinksReported
<1>2. QED
  BY <1>1, LinkInit, LinkNext, PTL DEF Spec

-----------------------------------------------------------------------------
(* The tables, and the sets the mbufs are counted with.                    *)

LEMMA MinOfTwo ==
    ASSUME NEW a \in Nat, NEW b \in Nat
    PROVE  Min({a, b}) \in {a, b} /\ Min({a, b}) <= a /\ Min({a, b}) <= b
<1>1. \E x \in {a, b} : \A y \in {a, b} : x <= y
  <2>1. CASE a <= b
    BY <2>1
  <2>2. CASE b <= a
    BY <2>2
  <2>3. QED
    BY <2>1, <2>2
<1>2. QED
  BY <1>1 DEF Min

\* Every core has a sequence of queues for each direction.
LEMMA TableFacts ==
    ASSUME queues \in Tables
    PROVE  /\ \A dir \in Dirs : \A l \in Lcores : queues[dir][l] \in Seq(Queues)
           /\ OneCoreEach(queues)
  BY RunAssumption

LEMMA QueuesFinite == IsFiniteSet(Queues)
<1> DEFINE numbers == 0 .. MaxQueues - 1
<1>1. 0 \in Int /\ MaxPorts - 1 \in Int /\ MaxQueues - 1 \in Int
  BY RunAssumption
<1>2. IsFiniteSet(Ports) /\ IsFiniteSet(numbers)
  BY <1>1, FS_Interval DEF Ports
<1>3. Queues = Ports \X numbers
  BY DEF Queues
<1> HIDE DEF numbers
<1>4. QED
  BY <1>2, <1>3, FS_Product

LEMMA MaskFacts ==
    ASSUME queues \in Tables, NEW dir \in Dirs
    PROVE  Mask(dir) \subseteq Queues /\ IsFiniteSet(Mask(dir))
<1>1. Mask(dir) \subseteq Queues
  BY TableFacts DEF Mask
<1>2. QED
  BY <1>1, QueuesFinite, FS_Subset

\* A queue in use has a core, which is in use too.
LEMMA LcoreOfQueue ==
    ASSUME queues \in Tables, NEW dir \in Dirs, NEW q \in Mask(dir)
    PROVE  /\ replay_get_lcore_for_nic(dir, q) \in IoCores
           /\ replay_get_lcore_for_nic(dir, q) \in Lcores
           /\ \E i \in DOMAIN queues[dir][replay_get_lcore_for_nic(dir, q)] :
                queues[dir][replay_get_lcore_for_nic(dir, q)][i] = q
<1>1. \E l \in Lcores : \E i \in DOMAIN queues[dir][l] : queues[dir][l][i] = q
  BY DEF Mask
<1> DEFINE m == replay_get_lcore_for_nic(dir, q)
<1>2. m \in Lcores /\ \E i \in DOMAIN queues[dir][m] : queues[dir][m][i] = q
  BY <1>1 DEF replay_get_lcore_for_nic
<1>3. queues[dir][m] # <<>>
  BY <1>2, TableFacts
<1>4. QED
  BY <1>2, <1>3 DEF IoCores

\* It is the core that polls the queue: there is no other one.
LEMMA OnlyLcoreOfQueue ==
    ASSUME queues \in Tables, NEW dir \in Dirs, NEW l \in Lcores,
           NEW i \in DOMAIN queues[dir][l]
    PROVE  /\ queues[dir][l][i] \in Mask(dir)
           /\ replay_get_lcore_for_nic(dir, queues[dir][l][i]) = l
<1>1. queues[dir][l][i] \in Mask(dir)
  BY DEF Mask
<1>2. PICK j \in DOMAIN queues[dir][replay_get_lcore_for_nic(dir, queues[dir][l][i])] :
        queues[dir][replay_get_lcore_for_nic(dir, queues[dir][l][i])][j] = queues[dir][l][i]
  BY <1>1, LcoreOfQueue
<1>3. replay_get_lcore_for_nic(dir, queues[dir][l][i]) \in Lcores
  BY <1>1, LcoreOfQueue
<1>4. QED
  BY <1>1, <1>2, <1>3, TableFacts DEF OneCoreEach

LEMMA Column ==
    ASSUME NEW d, NEW n \in Nat
    PROVE  IsFiniteSet({d} \X (1 .. n)) /\ Cardinality({d} \X (1 .. n)) = n
<1> DEFINE numbers == 1 .. n
           single == {d}
<1>1. IsFiniteSet(single) /\ Cardinality(single) = 1
  BY FS_Singleton
<1>2. 1 \in Int /\ n \in Int
  OBVIOUS
<1>3. IsFiniteSet(numbers) /\ Cardinality(numbers) = n
  BY <1>2, FS_Interval
<1> HIDE DEF numbers, single
<1>4. IsFiniteSet(single \X numbers) /\ Cardinality(single \X numbers) = 1 * n
  BY <1>1, <1>3, FS_Product, Zenon
<1>5. QED
  BY <1>4 DEF numbers, single

\* A heap without the part that belongs to d is finite.
LEMMA RestFinite ==
    ASSUME NEW D, IsFiniteSet(D), NEW f \in [D -> Nat]
    PROVE  IsFiniteSet(UNION {{e} \X (1 .. f[e]) : e \in D})
<1> DEFINE Part(e) == {e} \X (1 .. f[e])
           Parts == {Part(e) : e \in D}
           part == [e \in D |-> Part(e)]
<1>1. part \in Surjection(D, Parts)
  BY DEF Surjection
<1>2. \A T \in Parts : IsFiniteSet(T)
  <2> SUFFICES ASSUME NEW e \in D
               PROVE  IsFiniteSet({e} \X (1 .. f[e]))
    OBVIOUS
  <2> DEFINE n == f[e]
  <2>1. n \in Nat
    OBVIOUS
  <2> HIDE DEF n
  <2>2. IsFiniteSet({e} \X (1 .. n))
    BY <2>1, Column
  <2>3. QED
    BY <2>2 DEF n
<1> HIDE DEF Parts, part
<1>3. IsFiniteSet(Parts)
  BY <1>1, FS_Surjection
<1>4. IsFiniteSet(UNION Parts)
  BY <1>2, <1>3, FS_UNION
<1>5. QED
  BY <1>4 DEF Parts

LEMMA HeapFinite ==
    ASSUME NEW D, IsFiniteSet(D), NEW f \in [D -> Nat]
    PROVE  IsFiniteSet(Heap(f)) /\ Cardinality(Heap(f)) \in Nat
<1>1. Heap(f) = UNION {{e} \X (1 .. f[e]) : e \in D}
  BY DEF Heap
<1>2. QED
  BY <1>1, RestFinite, FS_CardinalityType

\* The size of a heap changes as the one value that changes.
LEMMA HeapPart ==
    ASSUME NEW D, IsFiniteSet(D), NEW f \in [D -> Nat], NEW d \in D
    PROVE  LET rest == UNION {{e} \X (1 .. f[e]) : e \in D \ {d}}
           IN  Cardinality(rest) \in Nat /\ Cardinality(Heap(f)) = Cardinality(rest) + f[d]
<1> DEFINE rest == UNION {{e} \X (1 .. f[e]) : e \in D \ {d}}
           own == {d} \X (1 .. f[d])
           g == [e \in D \ {d} |-> f[e]]
<1>1. IsFiniteSet(D \ {d})
  BY FS_RemoveElement
<1>2. IsFiniteSet(UNION {{e} \X (1 .. g[e]) : e \in D \ {d}})
  <2>1. g \in [D \ {d} -> Nat]
    OBVIOUS
  <2> HIDE DEF g
  <2>2. QED
    BY <1>1, <2>1, RestFinite
<1>3. rest = UNION {{e} \X (1 .. g[e]) : e \in D \ {d}}
  OBVIOUS
<1>4. IsFiniteSet(own) /\ Cardinality(own) = f[d]
  BY Column
<1>5. Heap(f) = rest \cup own
  BY DEF Heap
<1>6. rest \cap own = {}
  OBVIOUS
<1> HIDE DEF rest, own, g
<1>7. IsFiniteSet(rest)
  BY <1>2, <1>3
<1>8. Cardinality(rest \cup own) = Cardinality(rest) + Cardinality(own) - Cardinality({})
  BY <1>4, <1>6, <1>7, FS_Union
<1>9. Cardinality({}) = 0 /\ Cardinality(rest) \in Nat
  BY <1>7, FS_EmptySet, FS_CardinalityType
<1>10. Cardinality(Heap(f)) = Cardinality(rest) + f[d]
  BY <1>4, <1>5, <1>8, <1>9
<1>11. QED
  BY <1>9, <1>10 DEF rest

LEMMA HeapChange ==
    ASSUME NEW D, IsFiniteSet(D), NEW f \in [D -> Nat], NEW g \in [D -> Nat],
           NEW d \in D, \A e \in D \ {d} : g[e] = f[e]
    PROVE  Cardinality(Heap(g)) + f[d] = Cardinality(Heap(f)) + g[d]
<1> DEFINE rest(h) == UNION {{e} \X (1 .. h[e]) : e \in D \ {d}}
<1>1. rest(f) = rest(g)
  OBVIOUS
<1>2. Cardinality(rest(f)) \in Nat /\ Cardinality(Heap(f)) = Cardinality(rest(f)) + f[d]
  BY HeapPart
<1>3. Cardinality(Heap(g)) = Cardinality(rest(g)) + g[d]
  BY HeapPart
<1> HIDE DEF rest
<1>4. QED
  BY <1>1, <1>2, <1>3

\* Nothing is in the heap of a function that is 0 everywhere.
LEMMA HeapOfNothing ==
    ASSUME NEW D, NEW f, DOMAIN f = D, \A d \in D : f[d] = 0
    PROVE  Cardinality(Heap(f)) = 0
<1>1. Heap(f) = {}
  BY DEF Heap
<1>2. QED
  BY <1>1, FS_EmptySet

-----------------------------------------------------------------------------
(* The types.  A core indexes its table, the pools and the mask with what  *)
(* it finds in its own place, so the invariant says where every core is.   *)

\* The ports are started one after the other, before the links are looked at.
PortOK ==
    /\ pc = "pools" => port = 0
    /\ pc \in {"link", "launch", "run"} => port = MaxPorts

\* The cores in use have a pool from the moment the pools are there.
SocketsOK ==
    pc \in {"ports", "link", "launch", "run"} => \A l \in IoCores : SocketOf[l] \in Sockets

\* Nobody has an mbuf before the cores run.
QuietOK ==
    pc \in {"pools", "ports", "link", "launch"} =>
      /\ \A l \in Lcores : core[l].held = 0
      /\ \A q \in Queues : unsent[q] = 0 /\ sent[q] = 0

\* A core that runs is at one of its queues.
CoreOK ==
    pc = "run" => \A l \in IoCores : core[l].i \in DOMAIN queues[core[l].dir][l]

Set == [dir : Dirs, queue : Queues, socket : Nat]

IsReady(r) ==
    /\ r.queue \in Mask(r.dir) /\ r.queue[1] < port
    /\ r.socket = SocketOf[replay_get_lcore_for_nic(r.dir, r.queue)]

\* The queues that were set up are those of the ports that were started.
ReadyOK ==
    pc \in {"pools", "ports", "link", "launch", "run"} =>
      \A r \in Set : r \in ready <=> IsReady(r)

PlacesInv == PortOK /\ SocketsOK /\ QuietOK /\ CoreOK /\ ReadyOK

RunInv == TypeOK /\ PlacesInv

\* What is computed from the tables stays as it is with them.
LEMMA TablesStay ==
    ASSUME queues' = queues
    PROVE  /\ \A dir \in Dirs : Mask(dir)' = Mask(dir)
           /\ IoCores' = IoCores
           /\ \A dir \in Dirs : \A q \in Queues :
                replay_get_lcore_for_nic(dir, q)' = replay_get_lcore_for_nic(dir, q)
           /\ \A s \in Sockets : replay_is_socket_used(s)' <=> replay_is_socket_used(s)
<1>1. \A dir \in Dirs : Mask(dir)' = Mask(dir)
  BY DEF Mask
<1>2. IoCores' = IoCores
  BY DEF IoCores
<1>3. \A dir \in Dirs : \A q \in Queues :
        replay_get_lcore_for_nic(dir, q)' = replay_get_lcore_for_nic(dir, q)
  BY DEF replay_get_lcore_for_nic
<1>4. \A s \in Sockets : replay_is_socket_used(s)' <=> replay_is_socket_used(s)
  BY <1>2 DEF replay_is_socket_used
<1>5. QED
  BY <1>1, <1>2, <1>3, <1>4

\* A burst and the ring it is taken from or put into are positive numbers.
LEMMA Sizes ==
    /\ PoolSize \in Nat /\ PoolSize > 0 /\ RxRing \in Nat /\ RxRing > 0
    /\ TxRing \in Nat /\ TxRing > 0 /\ RxBurst \in Nat /\ RxBurst > 0
    /\ TxBurst \in Nat /\ TxBurst > 0 /\ MAX_CHECK_TIME \in Nat /\ MAX_CHECK_TIME > 0
    /\ MaxPorts \in Nat /\ MaxQueues \in Nat /\ MaxSockets \in Nat /\ MaxFaults \in Nat
  BY RunAssumption

\* Nothing is asked of the places any more once the process has stopped.
LEMMA StoppedPlaces ==
    ASSUME pc' \in {"panic", "undefined"}
    PROVE  PlacesInv'
  BY DEF PlacesInv, PortOK, SocketsOK, QuietOK, CoreOK, ReadyOK

\* While the cores run, nothing but their own places changes.
LEMMA RunningPlaces ==
    ASSUME RunInv, pc = "run", UNCHANGED <<queues, pc, port, ready>>, CoreOK'
    PROVE  PlacesInv'
<1>1. PortOK' /\ QuietOK'
  BY DEF RunInv, PlacesInv, PortOK, QuietOK
<1>2. SocketsOK'
  BY TablesStay DEF RunInv, PlacesInv, SocketsOK
<1>3. ReadyOK'
  <2>1. ASSUME NEW r \in Set PROVE IsReady(r)' <=> IsReady(r)
    BY <2>1, TablesStay DEF IsReady, Set
  <2>2. QED
    BY <2>1 DEF RunInv, PlacesInv, ReadyOK
<1>4. QED
  BY <1>1, <1>2, <1>3 DEF PlacesInv

Place == [dir : Dirs, i : Nat \ {0}, held : 0 .. RxBurst, turn : BOOLEAN]

\* The next place of a core is at one of its queues, with no mbuf, whether or not the pool
\* had one for it.
LEMMA NextPlace ==
    ASSUME RunInv, NEW l \in IoCores, pc = "run"
    PROVE  /\ NextQueue(l) \in Place /\ Missed(l) \in Place
           /\ NextQueue(l).i \in DOMAIN queues[NextQueue(l).dir][l]
           /\ NextQueue(l).held = 0 /\ Missed(l).held = 0
           /\ Missed(l).dir = NextQueue(l).dir /\ Missed(l).i = NextQueue(l).i
<1> DEFINE dir == core[l].dir
<1>1. l \in Lcores /\ dir \in Dirs /\ core[l].i \in Nat \ {0} /\ core[l] \in Place
  BY DEF RunInv, TypeOK, IoCores, Place
<1>2. queues[dir][l] \in Seq(Queues) /\ queues[Other(dir)][l] \in Seq(Queues)
  BY <1>1, TableFacts DEF RunInv, TypeOK, Other, Dirs
<1>3. core[l].i \in DOMAIN queues[dir][l]
  BY DEF RunInv, PlacesInv, CoreOK
<1>4. ASSUME NEW d \in Dirs
      PROVE  First(d) = [dir |-> d, i |-> 1, held |-> 0, turn |-> FALSE] /\ First(d) \in Place
  BY Sizes DEF First, Place
<1>5. /\ NextQueue(l) \in Place /\ NextQueue(l).held = 0
      /\ NextQueue(l).i \in DOMAIN queues[NextQueue(l).dir][l]
  <2>1. CASE core[l].i < Len(queues[dir][l])
    <3>1. NextQueue(l) = [First(dir) EXCEPT !.i = core[l].i + 1]
      BY <2>1 DEF NextQueue
    <3>2. NextQueue(l) = [dir |-> dir, i |-> core[l].i + 1, held |-> 0, turn |-> FALSE]
      BY <3>1 DEF First
    <3>3. core[l].i + 1 \in 1 .. Len(queues[dir][l])
      <4>1. PICK mine \in Seq(Queues) : mine = queues[dir][l]
        BY <1>2
      <4>2. core[l].i < Len(mine) /\ Len(mine) \in Nat
        BY <2>1, <4>1
      <4>3. core[l].i + 1 \in 1 .. Len(mine)
        BY <1>1, <4>2
      <4>4. QED
        BY <4>1, <4>3
    <3> HIDE DEF dir
    <3>4. QED
      BY <1>1, <1>2, <3>2, <3>3, Sizes DEF Place
  <2>2. CASE ~(core[l].i < Len(queues[dir][l])) /\ queues[Other(dir)][l] # <<>>
    <3>1. NextQueue(l) = First(Other(dir)) /\ Other(dir) \in Dirs
      BY <2>2 DEF NextQueue, Other, Dirs
    <3>2. QED
      BY <1>2, <1>4, <2>2, <3>1
  <2>3. CASE ~(core[l].i < Len(queues[dir][l])) /\ queues[Other(dir)][l] = <<>>
    <3>1. NextQueue(l) = First(dir)
      BY <2>3 DEF NextQueue
    <3>2. QED
      BY <1>1, <1>2, <1>3, <1>4, <3>1
  <2>4. QED
    BY <2>1, <2>2, <2>3
<1>6. PICK n : n = NextQueue(l)
  OBVIOUS
<1>7. n \in Place /\ Missed(l) = [n EXCEPT !.turn = ~core[l].turn] /\ core[l].turn \in BOOLEAN
  BY <1>1, <1>5, <1>6 DEF Missed, Place
<1>8. /\ Missed(l) \in Place /\ Missed(l).held = n.held
      /\ Missed(l).dir = n.dir /\ Missed(l).i = n.i
  BY <1>7 DEF Place
<1>9. QED
  BY <1>5, <1>6, <1>8

\* A core that runs has a pool, and polls a queue that is in use.
LEMMA AtAQueue ==
    ASSUME RunInv, NEW l \in IoCores, pc = "run"
    PROVE  /\ l \in Lcores /\ core[l].dir \in Dirs /\ Queue(l) \in Mask(core[l].dir)
           /\ Queue(l) \in Queues
           /\ SocketOf[l] \in Sockets /\ replay_is_socket_used(SocketOf[l])
<1>1. l \in Lcores /\ core[l].dir \in Dirs
  BY DEF RunInv, TypeOK, IoCores
<1>2. Queue(l) \in Mask(core[l].dir)
  BY <1>1 DEF RunInv, PlacesInv, CoreOK, Queue, Mask
<1>3. QED
  BY <1>1, <1>2, MaskFacts DEF RunInv, TypeOK, PlacesInv, SocketsOK, replay_is_socket_used

\* A receive ring has a queue of its own: there are no more rings than queues.
LEMMA RingsCounted ==
    ASSUME NEW s, NEW Q, IsFiniteSet(Q), NEW R,
           \A r \in R : r \in Set /\ r.dir = "rx" /\ r.socket = s /\ r.queue \in Q
    PROVE  /\ IsFiniteSet(R) /\ Cardinality(R) \in Nat /\ Cardinality(Q) \in Nat
           /\ Cardinality(R) <= Cardinality(Q)
<1> DEFINE queue == [r \in R |-> r.queue]
<1>1. queue \in [R -> Q]
  OBVIOUS
<1>2. ASSUME NEW a \in R, NEW b \in R, queue[a] = queue[b]
      PROVE  a = b
  <2>1. a \in Set /\ b \in Set /\ a.queue = b.queue /\ a.dir = b.dir /\ a.socket = b.socket
    BY <1>2
  <2>2. QED
    BY <2>1 DEF Set
<1>3. queue \in Injection(R, Q)
  BY <1>1, <1>2 DEF Injection, IsInjective
<1> HIDE DEF queue
<1>4. IsFiniteSet(R) /\ Cardinality(R) <= Cardinality(Q)
  BY <1>3, FS_Injection
<1>5. QED
  BY <1>4, FS_CardinalityType

\* What is set up for a port is set up once, for the core that polls it.
LEMMA SetUpFacts ==
    ASSUME RunInv, NEW dir \in Dirs, NEW r \in SetUp(dir)
    PROVE  /\ r \in Set /\ r.dir = dir
           /\ r.queue \in Mask(dir) /\ r.queue[1] = port
           /\ r.socket = SocketOf[replay_get_lcore_for_nic(dir, r.queue)]
           /\ replay_is_socket_used(r.socket)
<1>1. PICK q \in MaskOf(dir, port) :
        r = [dir |-> dir, queue |-> q, socket |-> SocketOf[replay_get_lcore_for_nic(dir, q)]]
  BY DEF SetUp
<1>2. q \in Mask(dir) /\ q[1] = port /\ queues \in Tables
  BY DEF MaskOf, RunInv, TypeOK
<1>3. /\ replay_get_lcore_for_nic(dir, q) \in IoCores
      /\ replay_get_lcore_for_nic(dir, q) \in Lcores
  BY <1>2, LcoreOfQueue
<1>4. q \in Queues /\ SocketOf[replay_get_lcore_for_nic(dir, q)] \in Nat
  BY <1>2, <1>3, MaskFacts, RunAssumption
<1>5. r \in Set
  BY <1>1, <1>4 DEF Set
<1>6. r.dir = dir /\ r.queue = q /\ r.socket = SocketOf[replay_get_lcore_for_nic(dir, q)]
  BY <1>1
<1>7. replay_is_socket_used(r.socket)
  BY <1>3, <1>6 DEF replay_is_socket_used
<1>8. QED
  BY <1>2, <1>5, <1>6, <1>7

FilledRings(s) == {r \in SetUp("rx") : r.socket = s}

LEMMA FilledNat ==
    ASSUME RunInv, NEW s \in Sockets
    PROVE  /\ IsFiniteSet(FilledRings(s)) /\ Cardinality(FilledRings(s)) \in Nat
           /\ Filled(s) = RxRing * Cardinality(FilledRings(s)) /\ Filled(s) \in Nat
<1>1. "rx" \in Dirs /\ queues \in Tables
  BY DEF Dirs, RunInv, TypeOK
<1>2. IsFiniteSet(Mask("rx"))
  BY <1>1, MaskFacts
<1>3. \A r \in FilledRings(s) :
        r \in Set /\ r.dir = "rx" /\ r.socket = s /\ r.queue \in Mask("rx")
  BY <1>1, SetUpFacts DEF FilledRings
<1>4. IsFiniteSet(FilledRings(s)) /\ Cardinality(FilledRings(s)) \in Nat
  BY <1>2, <1>3, RingsCounted
<1>5. Filled(s) = RxRing * Cardinality(FilledRings(s))
  BY DEF Filled, FilledRings
<1>6. QED
  BY <1>4, <1>5, Sizes

LEMMA ReadyFinite ==
    ASSUME RunInv, pc \in {"pools", "ports", "link", "launch", "run"}, NEW s \in Sockets
    PROVE  IsFiniteSet(ReadyOn(s)) /\ Cardinality(ReadyOn(s)) \in Nat
<1>1. "rx" \in Dirs /\ queues \in Tables /\ ready \subseteq Set
  BY DEF Dirs, RunInv, TypeOK, Set
<1>2. IsFiniteSet(Mask("rx"))
  BY <1>1, MaskFacts
<1>3. ASSUME NEW r \in ReadyOn(s)
      PROVE  r \in Set /\ r.dir = "rx" /\ r.socket = s /\ r.queue \in Mask("rx")
  BY <1>1 DEF ReadyOn, RunInv, PlacesInv, ReadyOK, IsReady
<1>4. QED
  BY <1>2, <1>3, RingsCounted

-----------------------------------------------------------------------------
(* Every step keeps the types and the places.                              *)

LEMMA RunInit == Init => RunInv
<1> SUFFICES ASSUME Init
             PROVE  RunInv
  OBVIOUS
<1>1. TypeOK
  <2>1. First("rx") \in [dir : Dirs, i : Nat \ {0}, held : 0 .. RxBurst, turn : BOOLEAN]
    BY Sizes DEF First, Dirs
  <2>2. port \in 0 .. MaxPorts /\ count \in 0 .. MAX_CHECK_TIME /\ faults \in 0 .. MaxFaults
    BY Sizes DEF Init
  <2>3. arrived \in [Queues -> 0 .. RxRing]
    BY Sizes DEF Init
  <2>4. /\ unsent \in [Queues -> Nat] /\ sent \in [Queues -> Nat]
        /\ \A q \in Queues : unsent[q] + sent[q] <= TxRing
    BY Sizes DEF Init
  <2>5. QED
    BY <2>1, <2>2, <2>3, <2>4 DEF Init, TypeOK
<1>2. ReadyOK
  <2>1. ASSUME NEW r \in Set PROVE ~IsReady(r)
    <3>1. r.dir \in Dirs /\ queues \in Tables /\ port = 0
      BY DEF Init, Set
    <3>2. ASSUME r.queue \in Mask(r.dir) PROVE r.queue[1] >= 0
      BY <3>1, <3>2, MaskFacts, Sizes DEF Queues, Ports
    <3>3. QED
      BY <3>1, <3>2, Sizes DEF IsReady, Queues, Ports, Set
  <2>2. QED
    BY <2>1 DEF Init, ReadyOK
<1>3. QED
  BY <1>1, <1>2 DEF Init, RunInv, PlacesInv, PortOK, SocketsOK, QuietOK, CoreOK, First

\* ReadyOK only depends on the tables, the ports that were started and the queues.
LEMMA SameReady ==
    ASSUME RunInv, pc \in {"pools", "ports", "link", "launch", "run"},
           UNCHANGED <<queues, port, ready>>
    PROVE  ReadyOK'
<1>1. ASSUME NEW r \in Set PROVE IsReady(r)' <=> IsReady(r)
  BY <1>1, TablesStay DEF IsReady, Set
<1>2. QED
  BY <1>1 DEF RunInv, PlacesInv, ReadyOK

LEMMA PoolsStep == RunInv /\ replay_init_mbuf_pools => RunInv'
<1> SUFFICES ASSUME RunInv, replay_init_mbuf_pools
             PROVE  RunInv'
  OBVIOUS
<1>1. avail' \in [Sockets -> Nat] /\ pc' \in {"ports", "undefined"} /\ pc = "pools"
  BY Sizes DEF replay_init_mbuf_pools
<1>2. TypeOK'
  BY <1>1 DEF RunInv, TypeOK, replay_init_mbuf_pools, link_vars
<1>3. SocketsOK'
  BY <1>1, TablesStay DEF replay_init_mbuf_pools, SocketsOK
<1>4. ReadyOK'
  BY <1>1, SameReady DEF replay_init_mbuf_pools
<1>5. PortOK' /\ QuietOK' /\ CoreOK'
  BY <1>1 DEF replay_init_mbuf_pools, PortOK, QuietOK, CoreOK, RunInv, PlacesInv
<1>6. QED
  BY <1>2, <1>3, <1>4, <1>5 DEF RunInv, PlacesInv

\* A port that is not in use has no queues.
LEMMA UnusedPort ==
    ASSUME RunInv, NEW p \in Ports, p \notin UsedPorts, NEW dir \in Dirs
    PROVE  MaskOf(dir, p) = {}
<1>1. ~(Cardinality(MaskOf(dir, p)) > 0)
  BY DEF UsedPorts, queues_per_port
<1>2. IsFiniteSet(Mask(dir))
  BY MaskFacts DEF RunInv, TypeOK
<1>3. IsFiniteSet(MaskOf(dir, p))
  BY <1>2, FS_Subset DEF MaskOf
<1>4. Cardinality(MaskOf(dir, p)) = 0
  BY <1>1, <1>3, FS_CardinalityType
<1>5. QED
  BY <1>3, <1>4, FS_EmptySet

\* The queues of the next port, and no others, become ready.
LEMMA ReadyGrows ==
    ASSUME RunInv, pc = "ports", port < MaxPorts, queues' = queues, port' = port + 1,
           \/ port \notin UsedPorts /\ ready' = ready
           \/ ready' = ready \cup SetUp("rx") \cup SetUp("tx")
    PROVE  ready' \subseteq Set /\ ReadyOK'
<1>1. port \in Ports /\ port \in Nat /\ queues \in Tables /\ ready \subseteq Set
  BY Sizes DEF RunInv, TypeOK, Ports, Set
<1>2. ready' \subseteq Set
  BY <1>1, SetUpFacts DEF Dirs
<1>3. ASSUME NEW r \in Set PROVE r \in ready' <=> IsReady(r)'
  <2>1. r.dir \in Dirs /\ r.queue \in Queues /\ r.queue[1] \in Nat
    BY Sizes DEF Set, Queues, Ports
  <2>2. r \in ready <=> IsReady(r)
    BY DEF RunInv, PlacesInv, ReadyOK
  <2>3. IsReady(r)' <=> \/ IsReady(r)
                        \/ /\ r.queue \in MaskOf(r.dir, port)
                           /\ r.socket = SocketOf[replay_get_lcore_for_nic(r.dir, r.queue)]
    BY <1>1, <2>1, TablesStay DEF IsReady, MaskOf
  <2>4. r \in SetUp(r.dir) <=> 
          /\ r.queue \in MaskOf(r.dir, port)
          /\ r.socket = SocketOf[replay_get_lcore_for_nic(r.dir, r.queue)]
    <3>1. r = [dir |-> r.dir, queue |-> r.queue, socket |-> r.socket]
      BY DEF Set
    <3>2. ASSUME r.queue \in MaskOf(r.dir, port),
                 r.socket = SocketOf[replay_get_lcore_for_nic(r.dir, r.queue)]
          PROVE  r \in SetUp(r.dir)
      BY <3>1, <3>2 DEF SetUp
    <3>3. ASSUME r \in SetUp(r.dir)
          PROVE  /\ r.queue \in MaskOf(r.dir, port)
                 /\ r.socket = SocketOf[replay_get_lcore_for_nic(r.dir, r.queue)]
      BY <2>1, <3>3, SetUpFacts DEF MaskOf
    <3>4. QED
      BY <3>2, <3>3
  <2>5. \A dir \in Dirs : r \in SetUp(dir) => dir = r.dir
    BY SetUpFacts
  <2>6. CASE port \notin UsedPorts /\ ready' = ready
    BY <1>1, <2>1, <2>2, <2>3, <2>6, UnusedPort
  <2>7. CASE ready' = ready \cup SetUp("rx") \cup SetUp("tx")
    <3>1. r \in SetUp("rx") \cup SetUp("tx") <=> r \in SetUp(r.dir)
      BY <2>1, <2>5 DEF Dirs
    <3>2. QED
      BY <2>2, <2>3, <2>4, <2>7, <3>1
  <2>8. QED
    BY <2>6, <2>7
<1>4. QED
  BY <1>2, <1>3 DEF ReadyOK

LEMMA NicsStep == RunInv /\ replay_init_nics => RunInv'
<1> SUFFICES ASSUME RunInv, replay_init_nics
             PROVE  RunInv'
  OBVIOUS
<1>1. /\ pc = "ports" /\ port < MaxPorts /\ port \in Nat /\ queues' = queues
      /\ UNCHANGED <<link_vars, core, arrived, unsent, sent, faults>>
  BY Sizes DEF replay_init_nics, RunInv, TypeOK
<1>2. CASE pc' = "panic"
  <2>1. port' = port /\ ready' = ready /\ avail' = avail
    BY <1>1, <1>2 DEF replay_init_nics
  <2>2. TypeOK'
    BY <1>1, <1>2, <2>1 DEF RunInv, TypeOK, link_vars
  <2>3. QED
    BY <1>2, <2>2, StoppedPlaces DEF RunInv
<1>3. CASE pc' # "panic"
  <2>1. /\ pc' = "ports" /\ port' = port + 1 /\ port' \in 0 .. MaxPorts
        /\ \/ port \notin UsedPorts /\ ready' = ready /\ avail' = avail
           \/ /\ ready' = ready \cup SetUp("rx") \cup SetUp("tx")
              /\ avail' = [s \in Sockets |-> avail[s] - Filled(s)] /\ ~Refused
    BY <1>1, <1>3, Sizes DEF replay_init_nics
  <2>2. ready' \subseteq Set /\ ReadyOK'
    BY <1>1, <2>1, ReadyGrows
  <2>3. avail' \in [Sockets -> Nat]
    <3>1. avail \in [Sockets -> Nat]
      BY DEF RunInv, TypeOK
    <3>2. CASE avail' = avail
      BY <3>1, <3>2
    <3>3. CASE avail' = [s \in Sockets |-> avail[s] - Filled(s)] /\ ~Refused
      <4>1. ASSUME NEW s \in Sockets PROVE avail[s] - Filled(s) \in Nat
        BY <3>1, <3>3, FilledNat DEF Refused
      <4>2. QED
        BY <3>3, <4>1
    <3>4. QED
      BY <2>1, <3>2, <3>3
  <2>4. TypeOK'
    BY <1>1, <2>1, <2>2, <2>3 DEF RunInv, TypeOK, Set, link_vars
  <2>5. SocketsOK' /\ PortOK' /\ QuietOK' /\ CoreOK'
    BY <1>1, <2>1, TablesStay
       DEF SocketsOK, PortOK, QuietOK, CoreOK, RunInv, PlacesInv
  <2>6. QED
    BY <2>2, <2>4, <2>5 DEF RunInv, PlacesInv
<1>4. QED
  BY <1>2, <1>3

LEMMA StartedStep == RunInv /\ portsStarted => RunInv'
<1> SUFFICES ASSUME RunInv, portsStarted
             PROVE  RunInv'
  OBVIOUS
<1>1. pc = "ports" /\ pc' = "link" /\ port = MaxPorts
  BY DEF portsStarted
<1>2. TypeOK'
  BY <1>1 DEF RunInv, TypeOK, portsStarted, link_vars, mbuf_vars
<1>3. SocketsOK' /\ ReadyOK'
  BY <1>1, TablesStay, SameReady DEF portsStarted, SocketsOK, RunInv, PlacesInv
<1>4. PortOK' /\ QuietOK' /\ CoreOK'
  BY <1>1 DEF portsStarted, mbuf_vars, PortOK, QuietOK, CoreOK, RunInv, PlacesInv
<1>5. QED
  BY <1>2, <1>3, <1>4 DEF RunInv, PlacesInv

LEMMA LinkStep == RunInv /\ check_all_ports_link_status => RunInv'
<1> SUFFICES ASSUME RunInv, check_all_ports_link_status
             PROVE  RunInv'
  OBVIOUS
<1>1. /\ pc = "link" /\ pc' \in {"link", "launch"}
      /\ UNCHANGED <<queues, port, ready, mbuf_vars, faults>>
  BY DEF check_all_ports_link_status
<1>2. count' \in 0 .. MAX_CHECK_TIME
  BY Sizes DEF check_all_ports_link_status, RunInv, TypeOK
<1>3. print_flag' \in BOOLEAN
  BY DEF check_all_ports_link_status, RunInv, TypeOK
<1>4. reported' \subseteq Ports
  BY DEF check_all_ports_link_status, RunInv, TypeOK, UsedPorts
<1>5. TypeOK'
  BY <1>1, <1>2, <1>3, <1>4 DEF RunInv, TypeOK, mbuf_vars
<1>6. SocketsOK' /\ ReadyOK'
  BY <1>1, TablesStay, SameReady DEF SocketsOK, RunInv, PlacesInv
<1>7. PortOK' /\ QuietOK' /\ CoreOK'
  BY <1>1 DEF mbuf_vars, PortOK, QuietOK, CoreOK, RunInv, PlacesInv
<1>8. QED
  BY <1>5, <1>6, <1>7 DEF RunInv, PlacesInv

LEMMA LaunchStep == RunInv /\ app_run => RunInv'
<1> SUFFICES ASSUME RunInv, app_run
             PROVE  RunInv'
  OBVIOUS
<1>1. /\ pc = "launch" /\ pc' = "run"
      /\ UNCHANGED <<queues, port, ready, link_vars, avail, arrived, unsent, sent, faults>>
  BY DEF app_run
<1>2. core' \in [Lcores -> [dir : Dirs, i : Nat \ {0}, held : 0 .. RxBurst, turn : BOOLEAN]]
  BY Sizes DEF app_run, First, Dirs
<1>3. TypeOK'
  BY <1>1, <1>2 DEF RunInv, TypeOK, link_vars
<1>4. SocketsOK' /\ ReadyOK'
  BY <1>1, TablesStay, SameReady DEF SocketsOK, RunInv, PlacesInv
<1>5. PortOK' /\ QuietOK'
  BY <1>1 DEF PortOK, QuietOK, RunInv, PlacesInv
<1>6. CoreOK'
  <2> SUFFICES ASSUME NEW l \in IoCores
               PROVE  core'[l].i \in DOMAIN queues[core'[l].dir][l]
    BY <1>1, TablesStay DEF CoreOK
  <2> DEFINE dir == IF queues["rx"][l] # <<>> THEN "rx" ELSE "tx"
  <2>1. l \in Lcores /\ dir \in Dirs /\ queues[dir][l] # <<>>
    BY DEF IoCores, Dirs
  <2>2. queues[dir][l] \in Seq(Queues)
    BY <2>1, TableFacts DEF RunInv, TypeOK
  <2>3. core'[l].dir = dir /\ core'[l].i = 1
    BY <2>1 DEF app_run, First
  <2> HIDE DEF dir
  <2>4. QED
    BY <2>1, <2>2, <2>3
<1>7. QED
  BY <1>3, <1>4, <1>5, <1>6 DEF RunInv, PlacesInv

LEMMA PanicStep == RunInv /\ rte_panic => RunInv'
<1> SUFFICES ASSUME RunInv, rte_panic
             PROVE  RunInv'
  OBVIOUS
<1>1. faults' \in 0 .. MaxFaults /\ pc' = "panic"
  BY Sizes DEF rte_panic, RunInv, TypeOK
<1>2. TypeOK'
  BY <1>1 DEF rte_panic, RunInv, TypeOK, link_vars, mbuf_vars
<1>3. QED
  BY <1>1, <1>2, StoppedPlaces DEF RunInv

\* A core that moves to another place, or takes mbufs at its own, is at one of its queues.
LEMMA CoreMoves ==
    ASSUME RunInv, pc = "run", NEW l \in IoCores, UNCHANGED queues,
           NEW place \in [dir : Dirs, i : Nat \ {0}, held : 0 .. RxBurst, turn : BOOLEAN],
           \/ place.dir = NextQueue(l).dir /\ place.i = NextQueue(l).i
           \/ place.dir = core[l].dir /\ place.i = core[l].i,
           core' = [core EXCEPT ![l] = place]
    PROVE  /\ CoreOK'
           /\ core' \in [Lcores -> [dir : Dirs, i : Nat \ {0}, held : 0 .. RxBurst, turn : BOOLEAN]]
<1>1. core \in [Lcores -> [dir : Dirs, i : Nat \ {0}, held : 0 .. RxBurst, turn : BOOLEAN]] /\ l \in Lcores
  BY DEF RunInv, TypeOK, IoCores
<1>2. core' \in [Lcores -> [dir : Dirs, i : Nat \ {0}, held : 0 .. RxBurst, turn : BOOLEAN]]
  BY <1>1
<1>3. place.i \in DOMAIN queues[place.dir][l]
  BY NextPlace DEF RunInv, PlacesInv, CoreOK
<1>4. ASSUME NEW m \in IoCores
      PROVE  core'[m].i \in DOMAIN queues[core'[m].dir][m]
  <2>1. m \in Lcores
    BY DEF IoCores
  <2>2. core'[m] = IF m = l THEN place ELSE core[m]
    BY <1>1, <2>1
  <2>3. QED
    BY <1>3, <2>2 DEF RunInv, PlacesInv, CoreOK
<1>5. QED
  BY <1>2, <1>4, TablesStay DEF CoreOK

\* What changes while the cores run keeps its types.
LEMMA RunningTypes ==
    ASSUME RunInv, pc = "run", UNCHANGED <<queues, pc, port, ready, link_vars, faults>>,
           core' \in [Lcores -> Place], avail' \in [Sockets -> Nat],
           arrived' \in [Queues -> 0 .. RxRing],
           unsent' \in [Queues -> Nat], sent' \in [Queues -> Nat],
           \A q \in Queues : unsent'[q] + sent'[q] <= TxRing,
           CoreOK'
    PROVE  RunInv'
<1>1. TypeOK'
  BY DEF RunInv, TypeOK, link_vars, Place
<1>2. QED
  BY <1>1, RunningPlaces DEF RunInv

LEMMA Types ==
    ASSUME RunInv
    PROVE  /\ core \in [Lcores -> Place] /\ avail \in [Sockets -> Nat]
           /\ arrived \in [Queues -> 0 .. RxRing]
           /\ unsent \in [Queues -> Nat] /\ sent \in [Queues -> Nat]
           /\ \A q \in Queues : unsent[q] + sent[q] <= TxRing
  BY DEF RunInv, TypeOK, Place

\* A burst is at most what the array has room for, what has arrived and what the
\* pool has.
LEMMA RxBurstFacts ==
    ASSUME RunInv, NEW l \in Lcores, rx_burst(l)
    PROVE  /\ l \in IoCores /\ pc = "run" /\ core[l].dir = "rx" /\ core[l].held = 0
           /\ SocketOf[l] \in Sockets /\ Queue(l) \in Queues
           /\ \E n \in 0 .. RxBurst : \E place \in Place :
                /\ n <= arrived[Queue(l)] /\ n <= avail[SocketOf[l]]
                /\ place.held = n
                /\ \/ place.dir = NextQueue(l).dir /\ place.i = NextQueue(l).i
                   \/ place.dir = core[l].dir /\ place.i = core[l].i
                /\ n > 0 => place.dir = core[l].dir
                /\ core' = [core EXCEPT ![l] = place]
                /\ arrived' = [arrived EXCEPT ![Queue(l)] = @ - n]
                /\ avail' = [avail EXCEPT ![SocketOf[l]] = @ - n]
<1> DEFINE s == SocketOf[l]
           q == Queue(l)
<1>1. l \in IoCores /\ pc = "run" /\ core[l].dir = "rx" /\ core[l].held = 0
  BY DEF rx_burst, AtQueue, LaunchedCores
<1>2. s \in Sockets /\ q \in Queues
  BY <1>1, AtAQueue
<1>3. arrived[q] \in Nat /\ avail[s] \in Nat /\ core[l] \in Place /\ l \in Lcores
  BY <1>2, Types, Sizes
<1>4. Burst(q) \in Nat /\ Burst(q) <= RxBurst /\ Burst(q) <= arrived[q]
  BY <1>3, MinOfTwo, Sizes DEF Burst
<1>5. PICK most : most = Min({Burst(q), avail[s]})
  OBVIOUS
<1>6. most \in Nat /\ most <= Burst(q) /\ most <= avail[s]
  BY <1>3, <1>4, <1>5, MinOfTwo
<1>7. PICK n \in 0 .. most :
        /\ core' = [core EXCEPT ![l] = IF n > 0 THEN [@ EXCEPT !.held = n]
                                       ELSE IF arrived[q] > 0 THEN Missed(l)
                                       ELSE NextQueue(l)]
        /\ arrived' = [arrived EXCEPT ![q] = @ - n]
        /\ avail' = [avail EXCEPT ![s] = @ - n]
  BY <1>5 DEF rx_burst
<1>8. n \in 0 .. RxBurst /\ n <= arrived[q] /\ n <= avail[s]
  BY <1>3, <1>4, <1>6, Sizes
<1> HIDE DEF q, s
<1> DEFINE place == IF n > 0 THEN [core[l] EXCEPT !.held = n]
                    ELSE IF arrived[q] > 0 THEN Missed(l) ELSE NextQueue(l)
<1>9. core' = [core EXCEPT ![l] = place]
  BY <1>7
<1>10. /\ place \in Place /\ place.held = n
       /\ \/ place.dir = NextQueue(l).dir /\ place.i = NextQueue(l).i
          \/ place.dir = core[l].dir /\ place.i = core[l].i
       /\ n > 0 => place.dir = core[l].dir
  <2>1. CASE n > 0
    <3>1. place = [core[l] EXCEPT !.held = n]
      BY <2>1
    <3> HIDE DEF place
    <3>2. QED
      BY <1>3, <1>8, <3>1 DEF Place
  <2>2. CASE ~(n > 0)
    <3>1. n = 0 /\ place \in {Missed(l), NextQueue(l)}
      BY <1>8, <2>2
    <3> HIDE DEF place
    <3>2. QED
      BY <1>1, <2>2, <3>1, NextPlace
  <2>3. QED
    BY <2>1, <2>2
<1> HIDE DEF place
<1>11. QED
  BY <1>1, <1>2, <1>7, <1>8, <1>9, <1>10 DEF q, s

LEMMA RxBurstStep == \A l \in Lcores : RunInv /\ rx_burst(l) => RunInv'
<1> SUFFICES ASSUME NEW l \in Lcores, RunInv, rx_burst(l)
             PROVE  RunInv'
  OBVIOUS
<1>1. /\ l \in IoCores /\ pc = "run" /\ SocketOf[l] \in Sockets /\ Queue(l) \in Queues
  BY RxBurstFacts
<1>2. PICK n \in 0 .. RxBurst, place \in Place :
        /\ n <= arrived[Queue(l)] /\ n <= avail[SocketOf[l]]
        /\ \/ place.dir = NextQueue(l).dir /\ place.i = NextQueue(l).i
           \/ place.dir = core[l].dir /\ place.i = core[l].i
        /\ core' = [core EXCEPT ![l] = place]
        /\ arrived' = [arrived EXCEPT ![Queue(l)] = @ - n]
        /\ avail' = [avail EXCEPT ![SocketOf[l]] = @ - n]
  BY RxBurstFacts
<1>3. UNCHANGED <<queues, pc, port, ready, link_vars, unsent, sent, faults>>
  BY DEF rx_burst
<1>4. CoreOK' /\ core' \in [Lcores -> Place]
  BY <1>1, <1>2, <1>3, CoreMoves DEF Place
<1>5. avail' \in [Sockets -> Nat]
  <2>1. avail[SocketOf[l]] - n \in Nat
    BY <1>1, <1>2, Types
  <2>2. QED
    BY <1>2, <2>1, Types
<1>6. arrived' \in [Queues -> 0 .. RxRing]
  <2>1. arrived[Queue(l)] - n \in 0 .. RxRing
    BY <1>1, <1>2, Types, Sizes
  <2>2. QED
    BY <1>2, <2>1, Types
<1>7. QED
  BY <1>1, <1>3, <1>4, <1>5, <1>6, Types, RunningTypes

LEMMA RxFreeStep == \A l \in Lcores : RunInv /\ rx_free(l) => RunInv'
<1> SUFFICES ASSUME NEW l \in Lcores, RunInv, rx_free(l)
             PROVE  RunInv'
  OBVIOUS
<1> DEFINE place == IF core[l].held = 1 THEN NextQueue(l)
                    ELSE [core[l] EXCEPT !.held = @ - 1]
<1>1. l \in IoCores /\ pc = "run" /\ core[l].held > 0 /\ core[l] \in Place
  BY Types DEF rx_free, AtQueue, LaunchedCores
<1>2. UNCHANGED <<queues, pc, port, ready, link_vars, arrived, unsent, sent, faults>>
  BY DEF rx_free
<1>3. core' = [core EXCEPT ![l] = place]
  <2>1. core' = [core EXCEPT ![l] = IF core[l].held = 1 THEN NextQueue(l)
                                    ELSE [core[l] EXCEPT !.held = core[l].held - 1]]
    BY DEF rx_free
  <2>2. QED
    BY <2>1
<1>4. place \in Place
  BY <1>1, NextPlace, Sizes DEF Place
<1>5. \/ place.dir = NextQueue(l).dir /\ place.i = NextQueue(l).i
      \/ place.dir = core[l].dir /\ place.i = core[l].i
  BY <1>1 DEF Place
<1> HIDE DEF place
<1>6. CoreOK' /\ core' \in [Lcores -> Place]
  BY <1>1, <1>2, <1>3, <1>4, <1>5, CoreMoves DEF Place
<1>7. avail' \in [Sockets -> Nat]
  <2>1. SocketOf[l] \in Sockets
    BY <1>1, AtAQueue
  <2>2. avail[SocketOf[l]] + 1 \in Nat
    BY <2>1, Types
  <2>3. avail' = [avail EXCEPT ![SocketOf[l]] = @ + 1]
    BY DEF rx_free
  <2>4. QED
    BY <2>1, <2>2, <2>3, Types
<1>8. QED
  BY <1>1, <1>2, <1>6, <1>7, Types, RunningTypes

\* An outcome that is undefined ends what the model says of the process.
LEMMA UndefinedStep ==
    ASSUME RunInv, Undefined, UNCHANGED <<queues, port, ready, link_vars, faults>>
    PROVE  RunInv'
<1>1. TypeOK'
  BY DEF RunInv, TypeOK, Undefined, mbuf_vars, link_vars
<1>2. QED
  BY <1>1, StoppedPlaces DEF RunInv, Undefined

\* A core that finds the pool empty goes on to its next queue without an mbuf.
LEMMA TxAllocFacts ==
    ASSUME RunInv, NEW l \in Lcores, tx_alloc(l)
    PROVE  /\ l \in IoCores /\ pc = "run" /\ core[l].dir = "tx" /\ core[l].held = 0
           /\ UNCHANGED <<queues, port, ready, link_vars, faults>>
           /\ \/ Undefined
              \/ /\ 0 \in Sockets /\ UNCHANGED <<pc, arrived, unsent, sent>>
                 /\ \E n \in {0, 1} : \E place \in Place :
                      /\ n <= avail[0] /\ place.held = n
                      /\ \/ place.dir = NextQueue(l).dir /\ place.i = NextQueue(l).i
                         \/ place.dir = core[l].dir /\ place.i = core[l].i
                      /\ n > 0 => place.dir = core[l].dir
                      /\ core' = [core EXCEPT ![l] = place]
                      /\ avail' = [avail EXCEPT ![0] = @ - n]
<1>1. /\ l \in IoCores /\ pc = "run" /\ core[l].dir = "tx" /\ core[l].held = 0
      /\ UNCHANGED <<queues, port, ready, link_vars, faults>>
      /\ core[l] \in Place
  BY Types DEF tx_alloc, AtQueue, LaunchedCores
<1>2. CASE Undefined
  BY <1>1, <1>2
<1>3. CASE ~Undefined
  <2>1. replay_is_socket_used(0) /\ UNCHANGED <<pc, arrived, unsent, sent>>
    BY <1>3 DEF tx_alloc
  <2>2. 0 \in Sockets /\ avail[0] \in Nat
    BY <1>1, <2>1, Types
       DEF replay_is_socket_used, RunInv, PlacesInv, SocketsOK, IoCores
  <2>3. CASE core' = [core EXCEPT ![l] = Missed(l)] /\ avail' = avail
    <3>1. avail' = [avail EXCEPT ![0] = @ - 0]
      BY <2>2, <2>3, Types
    <3>2. /\ Missed(l) \in Place /\ Missed(l).held = 0
          /\ Missed(l).dir = NextQueue(l).dir /\ Missed(l).i = NextQueue(l).i
      BY <1>1, NextPlace
    <3>3. 0 <= avail[0] /\ ~(0 > 0)
      BY <2>2
    <3>4. QED
      BY <1>1, <2>1, <2>2, <2>3, <3>1, <3>2, <3>3
  <2>4. CASE /\ avail[0] > 0 /\ core' = [core EXCEPT ![l].held = 1]
             /\ avail' = [avail EXCEPT ![0] = @ - 1]
    <3> DEFINE place == [core[l] EXCEPT !.held = 1]
    <3>1. core' = [core EXCEPT ![l] = place] /\ avail' = [avail EXCEPT ![0] = @ - 1]
      BY <2>4
    <3>2. place \in Place /\ place.held = 1 /\ place.dir = core[l].dir
          /\ place.i = core[l].i
      BY <1>1, Sizes DEF Place
    <3>3. 1 <= avail[0]
      BY <2>2, <2>4
    <3> HIDE DEF place
    <3>4. QED
      BY <1>1, <2>1, <2>2, <3>1, <3>2, <3>3
  <2>5. QED
    BY <1>3, <2>3, <2>4 DEF tx_alloc
<1>4. QED
  BY <1>2, <1>3

LEMMA TxAllocStep == \A l \in Lcores : RunInv /\ tx_alloc(l) => RunInv'
<1> SUFFICES ASSUME NEW l \in Lcores, RunInv, tx_alloc(l)
             PROVE  RunInv'
  OBVIOUS
<1>1. l \in IoCores /\ pc = "run" /\ UNCHANGED <<queues, port, ready, link_vars, faults>>
  BY TxAllocFacts
<1>2. CASE Undefined
  BY <1>1, <1>2, UndefinedStep
<1>3. CASE ~Undefined
  <2>1. 0 \in Sockets /\ UNCHANGED <<pc, arrived, unsent, sent>>
    BY <1>3, TxAllocFacts
  <2>2. PICK n \in {0, 1}, place \in Place :
          /\ n <= avail[0]
          /\ \/ place.dir = NextQueue(l).dir /\ place.i = NextQueue(l).i
             \/ place.dir = core[l].dir /\ place.i = core[l].i
          /\ core' = [core EXCEPT ![l] = place]
          /\ avail' = [avail EXCEPT ![0] = @ - n]
    BY <1>3, TxAllocFacts
  <2>3. CoreOK' /\ core' \in [Lcores -> Place]
    BY <1>1, <2>2, CoreMoves DEF Place
  <2>4. avail' \in [Sockets -> Nat]
    <3>1. avail[0] - n \in Nat
      BY <2>1, <2>2, Types
    <3>2. QED
      BY <2>2, <3>1, Types
  <2>5. QED
    BY <1>1, <2>1, <2>3, <2>4, Types, RunningTypes
<1>4. QED
  BY <1>2, <1>3

\* A ring takes no more than it has room for, and gives back what was sent.
LEMMA TxBurstFacts ==
    ASSUME RunInv, NEW l \in Lcores, tx_burst(l)
    PROVE  /\ l \in IoCores /\ pc = "run" /\ core[l].dir = "tx" /\ core[l].held = 1
           /\ Queue(l) \in Queues
           /\ UNCHANGED <<queues, port, ready, link_vars, faults>>
           /\ \/ Undefined
              \/ /\ UNCHANGED <<pc, arrived>>
                 /\ core' = [core EXCEPT ![l] = NextQueue(l)]
                 /\ \E cleaned \in Nat, n \in 0 .. TxBurst :
                      /\ cleaned <= sent[Queue(l)]
                      /\ unsent[Queue(l)] + sent[Queue(l)] + n <= TxRing + cleaned
                      /\ avail' = [avail EXCEPT ![0] = @ + cleaned + (TxBurst - n)]
                      /\ unsent' = [unsent EXCEPT ![Queue(l)] = @ + n]
                      /\ sent' = [sent EXCEPT ![Queue(l)] = @ - cleaned]
<1> DEFINE q == Queue(l)
           room == TxRing - unsent[q] - sent[q]
           fit(cleaned) == Min({TxBurst, room + cleaned})
           n(cleaned) == Min({1, fit(cleaned)})
<1>1. /\ l \in IoCores /\ pc = "run" /\ core[l].dir = "tx" /\ core[l].held = 1
      /\ UNCHANGED <<queues, port, ready, link_vars, faults>>
  BY DEF tx_burst, AtQueue, LaunchedCores
<1>2. q \in Queues
  BY <1>1, AtAQueue
<1>3. PICK cleaned \in 0 .. sent[q] :
        \/ Undefined
        \/ /\ core' = [core EXCEPT ![l] = NextQueue(l)]
           /\ avail' = [avail EXCEPT ![0] = @ + cleaned + FreedAfterBurst(n(cleaned))]
           /\ unsent' = [unsent EXCEPT ![q] = @ + n(cleaned)]
           /\ sent' = [sent EXCEPT ![q] = @ - cleaned]
           /\ UNCHANGED <<pc, arrived>>
  BY DEF tx_burst
<1> HIDE DEF q
<1>4. unsent[q] \in Nat /\ sent[q] \in Nat /\ unsent[q] + sent[q] <= TxRing
  BY <1>2, Types
<1>5. room \in Nat /\ cleaned \in Nat /\ room + cleaned \in Nat /\ cleaned <= sent[q]
  BY <1>4, Sizes
<1>6. n(cleaned) \in 0 .. TxBurst /\ n(cleaned) <= room + cleaned
  <2> DEFINE all == room + cleaned
  <2>1. all \in Nat
    BY <1>5
  <2> HIDE DEF room
  <2>2. fit(cleaned) = Min({TxBurst, all})
    OBVIOUS
  <2> HIDE DEF all, fit
  <2>3. fit(cleaned) \in Nat /\ fit(cleaned) <= TxBurst /\ fit(cleaned) <= all
    BY <2>1, <2>2, MinOfTwo, Sizes
  <2>4. n(cleaned) = Min({1, fit(cleaned)})
    OBVIOUS
  <2> HIDE DEF n
  <2>5. n(cleaned) \in Nat /\ n(cleaned) <= fit(cleaned)
    BY <2>3, <2>4, MinOfTwo
  <2>6. QED
    BY <2>1, <2>3, <2>5, Sizes DEF all
<1> HIDE DEF n
<1>7. unsent[q] + sent[q] + n(cleaned) <= TxRing + cleaned
  BY <1>4, <1>5, <1>6, Sizes
<1> HIDE DEF room
<1>8. QED
  BY <1>1, <1>2, <1>3, <1>5, <1>6, <1>7 DEF q, FreedAfterBurst

LEMMA TxBurstStep == \A l \in Lcores : RunInv /\ tx_burst(l) => RunInv'
<1> SUFFICES ASSUME NEW l \in Lcores, RunInv, tx_burst(l)
             PROVE  RunInv'
  OBVIOUS
<1> DEFINE q == Queue(l)
<1>1. /\ l \in IoCores /\ pc = "run" /\ q \in Queues
      /\ UNCHANGED <<queues, port, ready, link_vars, faults>>
  BY TxBurstFacts
<1>2. CASE Undefined
  BY <1>1, <1>2, UndefinedStep
<1>3. CASE ~Undefined
  <2>1. UNCHANGED <<pc, arrived>> /\ core' = [core EXCEPT ![l] = NextQueue(l)]
    BY <1>3, TxBurstFacts
  <2>2. PICK cleaned \in Nat, n \in 0 .. TxBurst :
          /\ cleaned <= sent[q]
          /\ unsent[q] + sent[q] + n <= TxRing + cleaned
          /\ avail' = [avail EXCEPT ![0] = @ + cleaned + (TxBurst - n)]
          /\ unsent' = [unsent EXCEPT ![q] = @ + n]
          /\ sent' = [sent EXCEPT ![q] = @ - cleaned]
    BY <1>3, TxBurstFacts
  <2> HIDE DEF q
  <2>3. NextQueue(l) \in Place
    BY <1>1, NextPlace DEF Place
  <2>4. CoreOK' /\ core' \in [Lcores -> Place]
    BY <1>1, <2>1, <2>3, CoreMoves DEF Place
  <2>5. avail' \in [Sockets -> Nat]
    <3>1. CASE 0 \in Sockets
      <4>1. avail[0] + cleaned + (TxBurst - n) \in Nat
        BY <3>1, Types, Sizes
      <4>2. QED
        BY <2>2, <4>1, Types
    <3>2. CASE 0 \notin Sockets
      BY <2>2, <3>2, Types
    <3>3. QED
      BY <3>1, <3>2
  <2>6. unsent[q] \in Nat /\ sent[q] \in Nat
    BY <1>1, Types
  <2>7. unsent[q] + n \in Nat /\ sent[q] - cleaned \in Nat
        /\ (unsent[q] + n) + (sent[q] - cleaned) <= TxRing
    BY <2>2, <2>6, Sizes
  <2>8. unsent' \in [Queues -> Nat] /\ sent' \in [Queues -> Nat]
    BY <2>2, <2>7, Types
  <2>9. \A e \in Queues : unsent'[e] + sent'[e] <= TxRing
    BY <1>1, <2>2, <2>7, Types
  <2>10. QED
    BY <1>1, <2>1, <2>4, <2>5, <2>8, <2>9, Types, RunningTypes
<1>4. QED
  BY <1>2, <1>3

LEMMA ArrivesStep == \A q \in Queues : RunInv /\ arrives(q) => RunInv'
<1> SUFFICES ASSUME NEW q \in Queues, RunInv, arrives(q)
             PROVE  RunInv'
  OBVIOUS
<1>1. /\ pc = "run" /\ arrived[q] < RxRing
      /\ arrived' = [arrived EXCEPT ![q] = @ + 1]
      /\ UNCHANGED <<queues, pc, port, ready, link_vars, core, avail, unsent, sent, faults>>
  BY DEF arrives
<1>2. arrived[q] + 1 \in 0 .. RxRing
  BY <1>1, Types, Sizes
<1>3. arrived' \in [Queues -> 0 .. RxRing]
  BY <1>1, <1>2, Types
<1>4. CoreOK'
  BY <1>1, TablesStay DEF CoreOK, RunInv, PlacesInv
<1>5. QED
  BY <1>1, <1>3, <1>4, Types, RunningTypes

LEMMA LeavesStep == \A q \in Queues : RunInv /\ leaves(q) => RunInv'
<1> SUFFICES ASSUME NEW q \in Queues, RunInv, leaves(q)
             PROVE  RunInv'
  OBVIOUS
<1>1. /\ pc = "run" /\ unsent[q] > 0
      /\ unsent' = [unsent EXCEPT ![q] = @ - 1] /\ sent' = [sent EXCEPT ![q] = @ + 1]
      /\ UNCHANGED <<queues, pc, port, ready, link_vars, core, avail, arrived, faults>>
  BY DEF leaves
<1>2. /\ unsent[q] \in Nat /\ sent[q] \in Nat /\ unsent[q] - 1 \in Nat /\ sent[q] + 1 \in Nat
      /\ (unsent[q] - 1) + (sent[q] + 1) = unsent[q] + sent[q]
  BY <1>1, Types
<1>3. unsent' \in [Queues -> Nat] /\ sent' \in [Queues -> Nat]
  BY <1>1, <1>2, Types
<1>4. \A e \in Queues : unsent'[e] + sent'[e] <= TxRing
  BY <1>1, <1>2, Types
<1>5. CoreOK'
  BY <1>1, TablesStay DEF CoreOK, RunInv, PlacesInv
<1>6. QED
  BY <1>1, <1>3, <1>4, <1>5, Types, RunningTypes

LEMMA RunNext == RunInv /\ [Next]_vars => RunInv'
<1> SUFFICES ASSUME RunInv, [Next]_vars
             PROVE  RunInv'
  OBVIOUS
<1>1. CASE StartUp
  BY <1>1, PoolsStep, NicsStep, StartedStep, LinkStep, LaunchStep DEF StartUp
<1>2. CASE rte_panic
  BY <1>2, PanicStep
<1>3. CASE \E l \in Lcores : main_loop_io(l)
  BY <1>3, RxBurstStep, RxFreeStep, TxAllocStep, TxBurstStep DEF main_loop_io
<1>4. CASE \E q \in Queues : arrives(q) \/ leaves(q)
  BY <1>4, ArrivesStep, LeavesStep
<1>5. CASE UNCHANGED vars
  <2>1. TypeOK'
    BY <1>5 DEF vars, link_vars, mbuf_vars, RunInv, TypeOK
  <2>2. SocketsOK'
    BY <1>5, TablesStay DEF vars, SocketsOK, RunInv, PlacesInv
  <2>3. ReadyOK'
    <3>1. ASSUME NEW r \in Set PROVE IsReady(r)' <=> IsReady(r)
      BY <1>5, <3>1, TablesStay DEF vars, IsReady, Set
    <3>2. QED
      BY <1>5, <3>1 DEF vars, RunInv, PlacesInv, ReadyOK
  <2>4. CoreOK' /\ PortOK' /\ QuietOK'
    BY <1>5, TablesStay
       DEF vars, mbuf_vars, CoreOK, PortOK, QuietOK, RunInv, PlacesInv
  <2>5. QED
    BY <2>1, <2>2, <2>3, <2>4 DEF RunInv, PlacesInv
<1>6. QED
  BY <1>1, <1>2, <1>3, <1>4, <1>5 DEF Next

\* The variables keep their types: a core never reads beyond its table of queues, no
\* ring holds more than it has room for, and no pool is taken from when it is empty
\* (runtime.c:113-166).
THEOREM RunTypeCorrect == Spec => []TypeOK
<1>1. RunInv => TypeOK
  BY DEF RunInv
<1>2. QED
  BY <1>1, RunInit, RunNext, PTL DEF Spec

\* Whatever the options put into the tables, the queues that the cores poll were set
\* up on ports that were started, with the pool of the socket of their core
\* (init.c:263-325).
THEOREM QueuesReadyCorrect == Spec => []QueuesReady
<1>1. RunInv => QueuesReady
  <2> SUFFICES ASSUME RunInv, pc = "run", NEW l \in Lcores, NEW dir \in Dirs,
                      NEW i \in DOMAIN queues[dir][l]
               PROVE  [dir |-> dir, queue |-> queues[dir][l][i],
                       socket |-> SocketOf[l]] \in ready
    BY DEF QueuesReady
  <2> DEFINE q == queues[dir][l][i]
             r == [dir |-> dir, queue |-> q, socket |-> SocketOf[l]]
  <2>1. q \in Mask(dir) /\ replay_get_lcore_for_nic(dir, q) = l
    BY OnlyLcoreOfQueue DEF RunInv, TypeOK
  <2>2. q \in Queues /\ q[1] < MaxPorts
    BY <2>1, MaskFacts, Sizes DEF RunInv, TypeOK, Queues, Ports
  <2>3. port = MaxPorts
    BY DEF RunInv, PlacesInv, PortOK
  <2> HIDE DEF q
  <2>4. r \in Set
    BY <2>2, RunAssumption DEF Set
  <2>5. r.dir = dir /\ r.queue = q /\ r.socket = SocketOf[l]
    OBVIOUS
  <2> HIDE DEF r
  <2>6. IsReady(r)
    BY <2>1, <2>2, <2>3, <2>5 DEF IsReady
  <2>7. r \in ready
    BY <2>4, <2>6 DEF RunInv, PlacesInv, ReadyOK
  <2>8. QED
    BY <2>7 DEF r, q
<1>2. QED
  BY <1>1, RunInit, RunNext, PTL DEF Spec

-----------------------------------------------------------------------------
(* The mbufs.  Until the cores run they are in the pools and in the rings; *)
(* then every step moves some from one place to another.                   *)

\* What is not in the pool of a socket in use fills the receive rings.
PoolsOK ==
    pc \in {"ports", "link", "launch"} =>
      \A s \in Sockets : replay_is_socket_used(s) =>
        avail[s] + RxRing * Cardinality(ReadyOn(s)) = PoolSize

LEMMA PoolsMade ==
    ASSUME RunInv, replay_init_mbuf_pools
    PROVE  PoolsOK'
<1>1. pc = "pools" /\ port = 0 /\ UNCHANGED <<queues, ready>>
  BY DEF replay_init_mbuf_pools, RunInv, PlacesInv, PortOK
<1>2. ASSUME NEW s \in Sockets, replay_is_socket_used(s)'
      PROVE  avail'[s] + RxRing * Cardinality(ReadyOn(s)') = PoolSize
  <2>1. avail'[s] = PoolSize
    BY <1>1, <1>2, TablesStay DEF replay_init_mbuf_pools
  <2>2. ReadyOn(s) = {}
    <3>1. ASSUME NEW r \in ready PROVE FALSE
      <4>1. r \in Set /\ IsReady(r)
        BY <1>1 DEF RunInv, TypeOK, PlacesInv, ReadyOK, Set
      <4>2. r.queue[1] \in Nat
        BY <4>1, Sizes DEF Set, Queues, Ports
      <4>3. QED
        BY <1>1, <4>1, <4>2 DEF IsReady
    <3>2. QED
      BY <3>1 DEF ReadyOn
  <2>3. ReadyOn(s)' = {}
    BY <1>1, <2>2 DEF ReadyOn
  <2>4. QED
    BY <2>1, <2>3, FS_EmptySet, Sizes
<1>3. QED
  BY <1>2 DEF PoolsOK

\* The rings of the next port are filled with what leaves the pools.
LEMMA PoolsFill ==
    ASSUME RunInv, PoolsOK, replay_init_nics
    PROVE  PoolsOK'
<1>1. pc = "ports" /\ port < MaxPorts /\ queues' = queues
  BY DEF replay_init_nics
<1>2. CASE pc' = "panic"
  BY <1>2 DEF PoolsOK
<1>3. CASE pc' # "panic"
  <2>1. \/ avail' = avail /\ ready' = ready
        \/ /\ ready' = ready \cup SetUp("rx") \cup SetUp("tx")
           /\ avail' = [s \in Sockets |-> avail[s] - Filled(s)]
    BY <1>3 DEF replay_init_nics
  <2> SUFFICES ASSUME NEW s \in Sockets, replay_is_socket_used(s)
               PROVE  avail'[s] + RxRing * Cardinality(ReadyOn(s)') = PoolSize
    BY <1>1, TablesStay DEF PoolsOK
  <2>2. avail[s] + RxRing * Cardinality(ReadyOn(s)) = PoolSize /\ avail[s] \in Nat
    BY <1>1, Types DEF PoolsOK
  <2>3. CASE avail' = avail /\ ready' = ready
    <3>1. ReadyOn(s)' = ReadyOn(s)
      BY <2>3 DEF ReadyOn
    <3>2. QED
      BY <2>2, <2>3, <3>1
  <2>4. CASE /\ ready' = ready \cup SetUp("rx") \cup SetUp("tx")
             /\ avail' = [e \in Sockets |-> avail[e] - Filled(e)]
    <3> DEFINE old == ReadyOn(s)
               new == FilledRings(s)
    <3>1. ReadyOn(s)' = old \cup new
      <4>1. \A r \in SetUp("rx") : r.dir = "rx"
        BY SetUpFacts DEF Dirs
      <4>2. \A r \in SetUp("tx") : r.dir = "tx"
        BY SetUpFacts DEF Dirs
      <4>3. QED
        BY <2>4, <4>1, <4>2 DEF ReadyOn, FilledRings
    <3>2. old \cap new = {}
      <4>1. ASSUME NEW r \in old PROVE r.queue[1] < port
        BY <1>1, <4>1 DEF ReadyOn, RunInv, TypeOK, PlacesInv, ReadyOK, IsReady, Set
      <4>2. ASSUME NEW r \in new PROVE r.queue[1] = port /\ port \in Nat
        BY <4>2, SetUpFacts, Sizes DEF FilledRings, Dirs, RunInv, TypeOK
      <4>3. QED
        BY <4>1, <4>2
    <3>3. IsFiniteSet(old) /\ Cardinality(old) \in Nat
      BY <1>1, ReadyFinite
    <3>4. /\ IsFiniteSet(new) /\ Cardinality(new) \in Nat
          /\ Filled(s) = RxRing * Cardinality(new)
      BY FilledNat
    <3>5. avail'[s] = avail[s] - Filled(s)
      BY <2>4
    <3>6. avail[s] + RxRing * Cardinality(old) = PoolSize
      BY <2>2
    <3> HIDE DEF old, new
    <3>7. Cardinality(old \cup new) = Cardinality(old) + Cardinality(new) - Cardinality({})
      BY <3>2, <3>3, <3>4, FS_Union
    <3>8. Cardinality(ReadyOn(s)') = Cardinality(old) + Cardinality(new)
      BY <3>1, <3>3, <3>4, <3>7, FS_EmptySet
    <3>9. RxRing * (Cardinality(old) + Cardinality(new))
            = RxRing * Cardinality(old) + RxRing * Cardinality(new)
      BY <3>3, <3>4, Sizes
    <3>10. RxRing * Cardinality(old) \in Nat /\ RxRing * Cardinality(new) \in Nat
      BY <3>3, <3>4, Sizes
    <3>11. QED
      BY <2>2, <3>4, <3>5, <3>6, <3>8, <3>9, <3>10
  <2>5. QED
    BY <2>1, <2>3, <2>4
<1>4. QED
  BY <1>2, <1>3

\* PoolsOK only depends on the tables, the pools and the queues that are ready.
LEMMA PoolsStay ==
    ASSUME PoolsOK, UNCHANGED <<queues, ready, avail>>,
           \/ pc' \in {"panic", "undefined", "run"}
           \/ pc \in {"ports", "link", "launch"} \/ pc' = pc
    PROVE  PoolsOK'
<1>1. \A s \in Sockets : ReadyOn(s)' = ReadyOn(s)
  BY DEF ReadyOn
<1>2. QED
  BY <1>1, TablesStay DEF PoolsOK

LEMMA PoolsNext == RunInv /\ PoolsOK /\ [Next]_vars => PoolsOK'
<1> SUFFICES ASSUME RunInv, PoolsOK, [Next]_vars
             PROVE  PoolsOK'
  OBVIOUS
<1>1. CASE replay_init_mbuf_pools
  BY <1>1, PoolsMade
<1>2. CASE replay_init_nics
  BY <1>2, PoolsFill
<1>3. CASE portsStarted
  BY <1>3, PoolsStay DEF portsStarted, mbuf_vars
<1>4. CASE check_all_ports_link_status
  BY <1>4, PoolsStay DEF check_all_ports_link_status, mbuf_vars
<1>5. CASE app_run
  BY <1>5, PoolsStay DEF app_run
<1>6. CASE rte_panic
  BY <1>6, PoolsStay DEF rte_panic, mbuf_vars
<1>7. CASE \E l \in Lcores : main_loop_io(l)
  <2>1. pc' \in {"run", "undefined"}
    BY <1>7 DEF main_loop_io, rx_burst, rx_free, tx_alloc, tx_burst, AtQueue, Undefined
  <2>2. QED
    BY <2>1 DEF PoolsOK
<1>8. CASE \E q \in Queues : arrives(q) \/ leaves(q)
  BY <1>8 DEF arrives, leaves, PoolsOK
<1>9. CASE UNCHANGED vars
  BY <1>9, PoolsStay DEF vars, mbuf_vars
<1>10. QED
  BY <1>1, <1>2, <1>3, <1>4, <1>5, <1>6, <1>7, <1>8, <1>9 DEF Next, StartUp

\* A port whose queues are numbered from 0 has more queues than the number of any.
LEMMA DensePorts ==
    ASSUME RunInv, Dense, NEW dir \in Dirs, NEW p, NEW q \in MaskOf(dir, p)
    PROVE  q[2] < queues_per_port(dir, p)
<1>1. q \in Mask(dir) /\ q[1] = p /\ q \in Queues /\ q[2] \in Nat
  BY MaskFacts, Sizes DEF MaskOf, RunInv, TypeOK, Queues
<1> DEFINE numbers == 0 .. q[2]
           own == MaskOf(dir, p)
           f == [k \in numbers |-> <<p, k>>]
<1>2. \A k \in numbers : <<p, k>> \in own
  BY <1>1 DEF Dense, MaskOf
<1>3. f \in Injection(numbers, own)
  BY <1>2 DEF Injection, IsInjective
<1>4. IsFiniteSet(own)
  <2>1. IsFiniteSet(Mask(dir))
    BY MaskFacts DEF RunInv, TypeOK
  <2>2. QED
    BY <2>1, FS_Subset DEF MaskOf
<1>5. 0 \in Int /\ q[2] \in Int
  BY <1>1
<1>6. Cardinality(numbers) = q[2] + 1
  BY <1>1, <1>5, FS_Interval
<1> HIDE DEF f, numbers, own
<1>7. Cardinality(numbers) <= Cardinality(own) /\ Cardinality(own) \in Nat
  BY <1>3, <1>4, FS_Injection, FS_CardinalityType
<1>8. QED
  BY <1>1, <1>6, <1>7 DEF own, queues_per_port

\* A pool that cannot fill the rings of the next port is smaller than the rings of
\* all the queues that are polled from its socket.
LEMMA TooManyRings ==
    ASSUME RunInv, PoolsOK, pc = "ports", NEW s \in Sockets, Filled(s) > avail[s]
    PROVE  RxRing * Cardinality(OnSocket(s)) > PoolSize
<1> DEFINE old == ReadyOn(s)
           new == FilledRings(s)
<1>1. IsFiniteSet(old) /\ Cardinality(old) \in Nat
  BY ReadyFinite
<1>2. /\ IsFiniteSet(new) /\ Cardinality(new) \in Nat
      /\ Filled(s) = RxRing * Cardinality(new)
  BY FilledNat
<1>3. avail[s] \in Nat
  BY Types
<1>4. new # {}
  BY <1>2, <1>3, FS_EmptySet, Sizes
<1>5. replay_is_socket_used(s)
  BY <1>4, SetUpFacts DEF FilledRings, Dirs
<1>6. avail[s] + RxRing * Cardinality(old) = PoolSize
  BY <1>5 DEF PoolsOK
<1>7. IsFiniteSet(OnSocket(s))
  <2>1. IsFiniteSet(Mask("rx"))
    BY MaskFacts DEF RunInv, TypeOK, Dirs
  <2>2. QED
    BY <2>1, FS_Subset DEF OnSocket
<1>8. ASSUME NEW r \in old
      PROVE  /\ r \in Set /\ r.dir = "rx" /\ r.socket = s /\ r.queue \in OnSocket(s)
             /\ r.queue[1] < port
  <2>1. r \in Set /\ IsReady(r) /\ r.dir = "rx" /\ r.socket = s
    BY <1>8 DEF ReadyOn, RunInv, TypeOK, PlacesInv, ReadyOK, Set
  <2>2. QED
    BY <2>1 DEF IsReady, OnSocket
<1>9. ASSUME NEW r \in new
      PROVE  /\ r \in Set /\ r.dir = "rx" /\ r.socket = s /\ r.queue \in OnSocket(s)
             /\ r.queue[1] = port /\ port \in Nat
  BY <1>9, SetUpFacts, Sizes DEF FilledRings, Dirs, OnSocket, RunInv, TypeOK
<1>10. old \cap new = {}
  BY <1>8, <1>9
<1> HIDE DEF old, new
<1>11. Cardinality(old \cup new) = Cardinality(old) + Cardinality(new) - Cardinality({})
  BY <1>1, <1>2, <1>10, FS_Union
<1>12. \A r \in old \cup new :
         r \in Set /\ r.dir = "rx" /\ r.socket = s /\ r.queue \in OnSocket(s)
  BY <1>8, <1>9
<1> DEFINE all == old \cup new
<1>13. \A r \in all :
         r \in Set /\ r.dir = "rx" /\ r.socket = s /\ r.queue \in OnSocket(s)
  BY <1>12
<1>14. Cardinality(all) = Cardinality(old) + Cardinality(new)
  BY <1>1, <1>2, <1>11, FS_EmptySet
<1> HIDE DEF all
<1>15. Cardinality(all) <= Cardinality(OnSocket(s)) /\ Cardinality(OnSocket(s)) \in Nat
  BY <1>7, <1>13, RingsCounted
<1>16. RxRing * Cardinality(old) + RxRing * Cardinality(new)
         <= RxRing * Cardinality(OnSocket(s))
  <2> DEFINE a == Cardinality(old)
             b == Cardinality(new)
             c == Cardinality(OnSocket(s))
  <2>1. a \in Nat /\ b \in Nat /\ c \in Nat /\ a + b <= c
    BY <1>1, <1>2, <1>14, <1>15
  <2> HIDE DEF a, b, c
  <2>2. PICK k \in Nat : c = a + b + k
    BY <2>1
  <2>3. RxRing * c = RxRing * a + RxRing * b + RxRing * k /\ RxRing * k >= 0
    BY <2>1, <2>2, Sizes
  <2>4. RxRing * a \in Int /\ RxRing * b \in Int /\ RxRing * k \in Int
    BY <2>1, <2>2, Sizes
  <2>5. RxRing * a + RxRing * b <= RxRing * c
    BY <2>3, <2>4
  <2>6. QED
    BY <2>5 DEF a, b, c
<1>17. RxRing * Cardinality(old) \in Nat /\ RxRing * Cardinality(new) \in Nat
       /\ RxRing * Cardinality(OnSocket(s)) \in Nat
  BY <1>1, <1>2, <1>15, Sizes
<1>18. QED
  BY <1>2, <1>3, <1>6, <1>16, <1>17, Sizes

LEMMA PoolsInit == Init => PoolsOK
  BY DEF Init, PoolsOK

\* The start only ends in a panic if a call fails, a port has a gap in the numbers of
\* its queues or the rings are more than the pools can fill (init.c:275-326): the
\* number of queues that a port is told is the number it needs.
THEOREM PanicsCorrect == Spec => PanicsForAReason
<1>1. ASSUME RunInv, PoolsOK, [Next]_vars
      PROVE  [pc' = "panic" =>
                \/ faults' > 0
                \/ ~Dense
                \/ \E s \in Sockets : RxRing * Cardinality(OnSocket(s)) > PoolSize]_vars
  <2> SUFFICES ASSUME Next, pc' = "panic", ~(faults' > 0), Dense
               PROVE  \E s \in Sockets : RxRing * Cardinality(OnSocket(s)) > PoolSize
    BY <1>1
  <2>1. ~rte_panic
    BY <1>1 DEF rte_panic, RunInv, TypeOK
  <2>2. replay_init_nics
    <3>1. ~replay_init_mbuf_pools /\ ~portsStarted /\ ~app_run
      BY DEF replay_init_mbuf_pools, portsStarted, app_run
    <3>2. ~check_all_ports_link_status
      BY DEF check_all_ports_link_status
    <3>3. ~ \E l \in Lcores : main_loop_io(l)
      BY DEF main_loop_io, rx_burst, rx_free, tx_alloc, tx_burst, AtQueue, Undefined
    <3>4. ~ \E q \in Queues : arrives(q) \/ leaves(q)
      BY DEF arrives, leaves
    <3>5. QED
      BY <2>1, <3>1, <3>2, <3>3, <3>4 DEF Next, StartUp
  <2>3. pc = "ports" /\ Refused
    BY <2>2 DEF replay_init_nics
  <2>4. ~ \E dir \in Dirs : \E q \in MaskOf(dir, port) : q[2] >= queues_per_port(dir, port)
    <3> SUFFICES ASSUME NEW dir \in Dirs, NEW q \in MaskOf(dir, port)
                 PROVE  ~(q[2] >= queues_per_port(dir, port))
      OBVIOUS
    <3>1. q[2] < queues_per_port(dir, port)
      BY <1>1, DensePorts
    <3>2. q[2] \in Nat
      BY <1>1, MaskFacts, Sizes DEF MaskOf, RunInv, TypeOK, Queues
    <3>3. queues_per_port(dir, port) \in Nat
      <4>1. IsFiniteSet(Mask(dir))
        BY <1>1, MaskFacts DEF RunInv, TypeOK
      <4>2. IsFiniteSet(MaskOf(dir, port))
        BY <4>1, FS_Subset DEF MaskOf
      <4>3. QED
        BY <4>2, FS_CardinalityType DEF queues_per_port
    <3>4. QED
      BY <3>1, <3>2, <3>3
  <2>5. PICK s \in Sockets : Filled(s) > avail[s]
    BY <2>3, <2>4 DEF Refused
  <2>6. QED
    BY <1>1, <2>3, <2>5, TooManyRings
<1>2. QED
  BY <1>1, RunInit, RunNext, PoolsInit, PoolsNext, PTL DEF Spec, PanicsForAReason

\* What a core at a place holds of the mbufs of socket s.
Share(s, l, place) ==
    IF (IF place.dir = "rx" THEN SocketOf[l] ELSE 0) = s THEN place.held ELSE 0

LEMMA HeapTypes ==
    ASSUME RunInv, NEW s
    PROVE  /\ Held(s) \in [Lcores -> Nat] /\ InTx(s) \in [Queues -> Nat]
           /\ Cardinality(Heap(Held(s))) \in Nat /\ Cardinality(Heap(InTx(s))) \in Nat
           /\ IsFiniteSet(Lcores)
<1>1. Held(s) \in [Lcores -> Nat]
  BY Types, Sizes DEF Held, Place
<1>2. InTx(s) \in [Queues -> Nat]
  BY Types DEF InTx
<1>3. IsFiniteSet(Lcores)
  BY RunAssumption
<1> DEFINE f == Held(s)
           g == InTx(s)
<1>4. f \in [Lcores -> Nat] /\ g \in [Queues -> Nat]
  BY <1>1, <1>2
<1> HIDE DEF f, g
<1>5. Cardinality(Heap(f)) \in Nat
  BY <1>3, <1>4, HeapFinite
<1>6. Cardinality(Heap(g)) \in Nat
  BY <1>4, QueuesFinite, HeapFinite
<1>7. QED
  BY <1>1, <1>2, <1>3, <1>5, <1>6 DEF f, g

\* When a core moves, the mbufs of the cores change by what it got or gave away.
LEMMA HeldChanges ==
    ASSUME RunInv, RunInv', NEW s, NEW l \in Lcores, NEW place,
           core' = [core EXCEPT ![l] = place]
    PROVE  /\ Cardinality(Heap(Held(s)')) + Share(s, l, core[l])
                = Cardinality(Heap(Held(s))) + Share(s, l, place)
           /\ Cardinality(Heap(Held(s)')) \in Nat /\ Cardinality(Heap(Held(s))) \in Nat
<1> DEFINE f == Held(s)
           g == Held(s)'
<1>1. core \in [Lcores -> Place] /\ core' \in [Lcores -> Place]
  BY Types DEF RunInv, TypeOK, Place
<1>2. f \in [Lcores -> Nat] /\ Cardinality(Heap(f)) \in Nat /\ IsFiniteSet(Lcores)
  BY HeapTypes
<1>3. g \in [Lcores -> Nat]
  BY <1>1, Sizes DEF Held, Place
<1>4. \A m \in Lcores \ {l} : g[m] = f[m]
  BY <1>1 DEF Held
<1>5. f[l] = Share(s, l, core[l]) /\ g[l] = Share(s, l, place)
  BY <1>1 DEF Held, Share
<1> HIDE DEF f, g
<1>6. Cardinality(Heap(g)) + f[l] = Cardinality(Heap(f)) + g[l]
  BY <1>2, <1>3, <1>4, HeapChange
<1>7. Cardinality(Heap(g)) \in Nat
  BY <1>2, <1>3, HeapFinite
<1>8. QED
  BY <1>2, <1>5, <1>6, <1>7 DEF f, g

\* When a transmit ring changes, the mbufs of all of them do as it does.
LEMMA InTxChanges ==
    ASSUME RunInv, RunInv', NEW s, NEW q \in Queues,
           \A e \in Queues \ {q} : unsent'[e] = unsent[e] /\ sent'[e] = sent[e]
    PROVE  /\ s # 0 => Cardinality(Heap(InTx(s)')) = Cardinality(Heap(InTx(s)))
           /\ s = 0 => Cardinality(Heap(InTx(s)')) + unsent[q] + sent[q]
                         = Cardinality(Heap(InTx(s))) + unsent'[q] + sent'[q]
           /\ Cardinality(Heap(InTx(s)')) \in Nat /\ Cardinality(Heap(InTx(s))) \in Nat
<1> DEFINE f == InTx(s)
           g == InTx(s)'
<1>1. /\ unsent \in [Queues -> Nat] /\ sent \in [Queues -> Nat]
      /\ unsent' \in [Queues -> Nat] /\ sent' \in [Queues -> Nat]
  BY DEF RunInv, TypeOK
<1>2. f \in [Queues -> Nat] /\ Cardinality(Heap(f)) \in Nat
  BY HeapTypes
<1>3. g \in [Queues -> Nat]
  BY <1>1 DEF InTx
<1>4. \A e \in Queues \ {q} : g[e] = f[e]
  BY DEF InTx
<1>5. /\ f[q] = IF s = 0 THEN unsent[q] + sent[q] ELSE 0
      /\ g[q] = IF s = 0 THEN unsent'[q] + sent'[q] ELSE 0
  BY DEF InTx
<1> HIDE DEF f, g
<1>6. Cardinality(Heap(g)) + f[q] = Cardinality(Heap(f)) + g[q]
  BY <1>2, <1>3, <1>4, QueuesFinite, HeapChange
<1>7. Cardinality(Heap(g)) \in Nat
  BY <1>3, QueuesFinite, HeapFinite
<1>8. CASE s = 0
  BY <1>1, <1>2, <1>5, <1>6, <1>7, <1>8 DEF f, g
<1>9. CASE s # 0
  BY <1>2, <1>5, <1>6, <1>7, <1>9 DEF f, g
<1>10. QED
  BY <1>8, <1>9

\* The mbufs of socket s that are not in receive rings.
Loose(s) == avail[s] + Cardinality(Heap(Held(s))) + Cardinality(Heap(InTx(s)))

\* One more call that frees its mbuf f times too often is one more of the calls.
LEMMA OneMoreCall ==
    ASSUME NEW a \in Nat, NEW f \in Nat, NEW calls \in 0 .. a, a = PoolSize + calls * f
    PROVE  \E c \in 0 .. a + f : a + f = PoolSize + c * f
<1>1. PoolSize \in Nat /\ calls \in Nat
  BY Sizes
<1>2. CASE f = 0
  BY <1>1, <1>2
<1>3. CASE f > 0
  <2>1. (calls + 1) * f = calls * f + f /\ calls * f \in Nat
    BY <1>1
  <2>2. calls + 1 \in 0 .. a + f
    BY <1>1, <1>3
  <2> WITNESS calls + 1 \in 0 .. a + f
  <2>3. QED
    BY <1>1, <2>1
<1>4. QED
  BY <1>2, <1>3

LEMMA Moves ==
    ASSUME RunInv, RunInv', MbufsConserved, pc = "run", UNCHANGED <<queues, pc, ready>>,
           \A s \in Sockets : replay_is_socket_used(s) =>
             (Loose(s)' = Loose(s) \/ Loose(s)' = Loose(s) + FreedAgain(s))
    PROVE  MbufsConserved'
<1> SUFFICES ASSUME NEW s \in Sockets, replay_is_socket_used(s)
             PROVE  \E calls \in 0 .. Accounted(s)' :
                      Accounted(s)' = PoolSize + calls * FreedAgain(s)
  BY TablesStay DEF MbufsConserved, FreedAgain
<1> DEFINE rings == RxRing * Cardinality(ReadyOn(s))
           a == avail[s]
           h == Cardinality(Heap(Held(s)))
           t == Cardinality(Heap(InTx(s)))
           a1 == avail'[s]
           h1 == Cardinality(Heap(Held(s)'))
           t1 == Cardinality(Heap(InTx(s)'))
<1>1. ReadyOn(s)' = ReadyOn(s)
  BY DEF ReadyOn
<1>2. Accounted(s) = a + rings + h + t
  BY DEF Accounted
<1>3. Accounted(s)' = a1 + rings + h1 + t1
  BY <1>1 DEF Accounted
<1>4. a1 + h1 + t1 = a + h + t \/ a1 + h1 + t1 = a + h + t + FreedAgain(s)
  BY DEF Loose
<1>5. a \in Nat /\ h \in Nat /\ t \in Nat /\ rings \in Nat
  <2>1. Cardinality(ReadyOn(s)) \in Nat
    BY ReadyFinite
  <2>2. QED
    BY <2>1, Types, HeapTypes, Sizes
<1>6. a1 \in Nat /\ h1 \in Nat /\ t1 \in Nat
  <2>1. a1 \in Nat
    BY DEF RunInv, TypeOK
  <2> DEFINE f == Held(s)'
             g == InTx(s)'
  <2>2. f \in [Lcores -> Nat] /\ g \in [Queues -> Nat]
    BY Sizes DEF RunInv, TypeOK, Held, InTx
  <2> HIDE DEF f, g
  <2>3. Cardinality(Heap(f)) \in Nat
    BY <2>2, RunAssumption, HeapFinite
  <2>4. Cardinality(Heap(g)) \in Nat
    BY <2>2, QueuesFinite, HeapFinite
  <2>5. QED
    BY <2>1, <2>3, <2>4 DEF f, g
<1> HIDE DEF a, h, t, a1, h1, t1, rings
<1>7. PICK before : before = Accounted(s)
  OBVIOUS
<1>8. PICK now : now = Accounted(s)'
  OBVIOUS
<1>9. FreedAgain(s) \in Nat /\ before \in Nat
  BY <1>2, <1>5, <1>7, Sizes DEF FreedAgain
<1>10. PICK calls \in 0 .. before : before = PoolSize + calls * FreedAgain(s)
  BY <1>7 DEF MbufsConserved
<1>11. now = before \/ now = before + FreedAgain(s)
  BY <1>2, <1>3, <1>4, <1>5, <1>6, <1>7, <1>8, <1>9
<1>12. \E c \in 0 .. before + FreedAgain(s) :
         before + FreedAgain(s) = PoolSize + c * FreedAgain(s)
  BY <1>9, <1>10, OneMoreCall
<1>13. \E c \in 0 .. now : now = PoolSize + c * FreedAgain(s)
  BY <1>10, <1>11, <1>12
<1>14. QED
  BY <1>8, <1>13

\* The mbufs of a burst leave the pool of the core's socket for its hands.
LEMMA RxBurstMoves ==
    \A l \in Lcores : RunInv /\ RunInv' /\ MbufsConserved /\ rx_burst(l) => MbufsConserved'
<1> SUFFICES ASSUME NEW l \in Lcores, RunInv, RunInv', MbufsConserved, rx_burst(l)
             PROVE  MbufsConserved'
  OBVIOUS
<1>1. /\ l \in IoCores /\ pc = "run" /\ core[l].dir = "rx" /\ core[l].held = 0
      /\ SocketOf[l] \in Sockets
  BY RxBurstFacts
<1>2. PICK n \in 0 .. RxBurst, place \in Place :
        /\ place.held = n /\ (n > 0 => place.dir = core[l].dir)
        /\ core' = [core EXCEPT ![l] = place]
        /\ avail' = [avail EXCEPT ![SocketOf[l]] = @ - n]
  BY RxBurstFacts
<1>3. UNCHANGED <<queues, pc, ready, unsent, sent>>
  BY DEF rx_burst
<1>4. ASSUME NEW s \in Sockets
      PROVE  Loose(s)' = Loose(s)
  <2>1. avail'[s] = IF s = SocketOf[l] THEN avail[s] - n ELSE avail[s]
    BY <1>2, Types
  <2>2. Share(s, l, core[l]) = 0
    BY <1>1 DEF Share
  <2>3. Share(s, l, place) = IF s = SocketOf[l] THEN n ELSE 0
    BY <1>1, <1>2, Sizes DEF Share
  <2>4. /\ Cardinality(Heap(Held(s)')) + Share(s, l, core[l])
             = Cardinality(Heap(Held(s))) + Share(s, l, place)
        /\ Cardinality(Heap(Held(s)')) \in Nat /\ Cardinality(Heap(Held(s))) \in Nat
    BY <1>2, HeldChanges
  <2>5. InTx(s)' = InTx(s)
    BY <1>3 DEF InTx
  <2>6. avail[s] \in Nat /\ Cardinality(Heap(InTx(s))) \in Nat
    BY Types, HeapTypes
  <2>7. Cardinality(Heap(Held(s)'))
          = Cardinality(Heap(Held(s))) + IF s = SocketOf[l] THEN n ELSE 0
    BY <2>2, <2>3, <2>4
  <2>8. QED
    BY <2>1, <2>4, <2>5, <2>6, <2>7 DEF Loose
<1>5. QED
  BY <1>1, <1>3, <1>4, Moves

LEMMA RxFreeMoves ==
    \A l \in Lcores : RunInv /\ RunInv' /\ MbufsConserved /\ rx_free(l) => MbufsConserved'
<1> SUFFICES ASSUME NEW l \in Lcores, RunInv, RunInv', MbufsConserved, rx_free(l)
             PROVE  MbufsConserved'
  OBVIOUS
<1> DEFINE place == IF core[l].held = 1 THEN NextQueue(l)
                    ELSE [core[l] EXCEPT !.held = core[l].held - 1]
<1>1. /\ l \in IoCores /\ pc = "run" /\ core[l].dir = "rx"
      /\ core[l].held > 0 /\ core[l].held \in Nat /\ core[l] \in Place
  BY Types, Sizes DEF rx_free, AtQueue, LaunchedCores, Place
<1>2. UNCHANGED <<queues, pc, ready, unsent, sent>>
  BY DEF rx_free
<1>3. /\ core' = [core EXCEPT ![l] = place]
      /\ avail' = [avail EXCEPT ![SocketOf[l]] = @ + 1]
  BY DEF rx_free
<1>4. place.held = core[l].held - 1 /\ (place.held > 0 => place.dir = "rx")
  BY <1>1, NextPlace DEF Place
<1> HIDE DEF place
<1>5. ASSUME NEW s \in Sockets
      PROVE  Loose(s)' = Loose(s)
  <2>1. avail'[s] = IF s = SocketOf[l] THEN avail[s] + 1 ELSE avail[s]
    BY <1>3, Types
  <2>2. Share(s, l, core[l]) = IF s = SocketOf[l] THEN core[l].held ELSE 0
    BY <1>1 DEF Share
  <2>3. Share(s, l, place) = IF s = SocketOf[l] THEN core[l].held - 1 ELSE 0
    BY <1>1, <1>4, AtAQueue DEF Share
  <2>4. /\ Cardinality(Heap(Held(s)')) + Share(s, l, core[l])
             = Cardinality(Heap(Held(s))) + Share(s, l, place)
        /\ Cardinality(Heap(Held(s)')) \in Nat /\ Cardinality(Heap(Held(s))) \in Nat
    BY <1>3, HeldChanges
  <2>5. InTx(s)' = InTx(s)
    BY <1>2 DEF InTx
  <2>6. avail[s] \in Nat /\ Cardinality(Heap(InTx(s))) \in Nat
    BY Types, HeapTypes
  <2>7. Cardinality(Heap(Held(s)')) + (IF s = SocketOf[l] THEN 1 ELSE 0)
          = Cardinality(Heap(Held(s)))
    BY <1>1, <2>2, <2>3, <2>4
  <2>8. QED
    BY <2>1, <2>4, <2>5, <2>6, <2>7 DEF Loose
<1>6. QED
  BY <1>1, <1>2, <1>5, Moves

\* An mbuf to send leaves the pool of socket 0, whichever core it is for.
LEMMA TxAllocMoves ==
    \A l \in Lcores : RunInv /\ RunInv' /\ MbufsConserved /\ tx_alloc(l) => MbufsConserved'
<1> SUFFICES ASSUME NEW l \in Lcores, RunInv, RunInv', MbufsConserved, tx_alloc(l)
             PROVE  MbufsConserved'
  OBVIOUS
<1>1. /\ l \in IoCores /\ pc = "run" /\ core[l].dir = "tx" /\ core[l].held = 0
      /\ UNCHANGED <<queues, ready>>
  BY TxAllocFacts
<1>2. CASE Undefined
  BY <1>2 DEF Undefined, MbufsConserved
<1>3. CASE ~Undefined
  <2>1. 0 \in Sockets /\ UNCHANGED <<pc, unsent, sent>>
    BY <1>3, TxAllocFacts
  <2>2. PICK n \in {0, 1}, place \in Place :
          /\ place.held = n /\ (n > 0 => place.dir = core[l].dir)
          /\ core' = [core EXCEPT ![l] = place]
          /\ avail' = [avail EXCEPT ![0] = @ - n]
    BY <1>3, TxAllocFacts
  <2>3. ASSUME NEW s \in Sockets
        PROVE  Loose(s)' = Loose(s)
    <3>1. avail'[s] = IF s = 0 THEN avail[s] - n ELSE avail[s]
      BY <2>1, <2>2, Types
    <3>2. Share(s, l, core[l]) = 0
      BY <1>1 DEF Share
    <3>3. Share(s, l, place) = IF s = 0 THEN n ELSE 0
      BY <1>1, <2>2 DEF Share
    <3>4. /\ Cardinality(Heap(Held(s)')) + Share(s, l, core[l])
               = Cardinality(Heap(Held(s))) + Share(s, l, place)
          /\ Cardinality(Heap(Held(s)')) \in Nat /\ Cardinality(Heap(Held(s))) \in Nat
      BY <2>2, HeldChanges
    <3>5. InTx(s)' = InTx(s)
      BY <2>1 DEF InTx
    <3>6. avail[s] \in Nat /\ Cardinality(Heap(InTx(s))) \in Nat
      BY Types, HeapTypes
    <3>7. Cardinality(Heap(Held(s)'))
            = Cardinality(Heap(Held(s))) + IF s = 0 THEN n ELSE 0
      BY <3>2, <3>3, <3>4
    <3>8. QED
      BY <3>1, <3>4, <3>5, <3>6, <3>7 DEF Loose
  <2>4. QED
    BY <1>1, <2>1, <2>3, Moves
<1>4. QED
  BY <1>2, <1>3

\* The mbuf is in the ring of the port or back in the pool, where it is freed as often
\* as the burst has mbufs that were not taken.
LEMMA TxBurstMoves ==
    \A l \in Lcores : RunInv /\ RunInv' /\ MbufsConserved /\ tx_burst(l) => MbufsConserved'
<1> SUFFICES ASSUME NEW l \in Lcores, RunInv, RunInv', MbufsConserved, tx_burst(l)
             PROVE  MbufsConserved'
  OBVIOUS
<1> DEFINE q == Queue(l)
           place == NextQueue(l)
<1>1. /\ l \in IoCores /\ pc = "run" /\ core[l].dir = "tx" /\ core[l].held = 1
      /\ q \in Queues /\ UNCHANGED <<queues, ready>>
  BY TxBurstFacts
<1>2. CASE Undefined
  BY <1>2 DEF Undefined, MbufsConserved
<1>3. CASE ~Undefined
  <2>1. pc' = pc /\ core' = [core EXCEPT ![l] = place]
    BY <1>3, TxBurstFacts
  <2>2. PICK cleaned \in Nat, n \in 0 .. TxBurst :
          /\ cleaned <= sent[q]
          /\ avail' = [avail EXCEPT ![0] = @ + cleaned + (TxBurst - n)]
          /\ unsent' = [unsent EXCEPT ![q] = @ + n]
          /\ sent' = [sent EXCEPT ![q] = @ - cleaned]
    BY <1>3, TxBurstFacts
  <2>3. place.held = 0
    BY <1>1, NextPlace
  <2> HIDE DEF q, place
  <2>4. ASSUME NEW s \in Sockets
        PROVE  Loose(s)' = Loose(s) + FreedAgain(s)
    <3>1. avail'[s] = IF s = 0 THEN avail[s] + cleaned + (TxBurst - n) ELSE avail[s]
      BY <2>2, Types
    <3>2. Share(s, l, core[l]) = IF s = 0 THEN 1 ELSE 0
      BY <1>1 DEF Share
    <3>3. Share(s, l, place) = 0
      BY <2>3 DEF Share
    <3>4. /\ Cardinality(Heap(Held(s)')) + Share(s, l, core[l])
               = Cardinality(Heap(Held(s))) + Share(s, l, place)
          /\ Cardinality(Heap(Held(s)')) \in Nat /\ Cardinality(Heap(Held(s))) \in Nat
      BY <2>1, HeldChanges
    <3>5. \A e \in Queues \ {q} : unsent'[e] = unsent[e] /\ sent'[e] = sent[e]
      BY <2>2, Types
    <3>6. /\ s # 0 => Cardinality(Heap(InTx(s)')) = Cardinality(Heap(InTx(s)))
          /\ s = 0 => Cardinality(Heap(InTx(s)')) + unsent[q] + sent[q]
                        = Cardinality(Heap(InTx(s))) + unsent'[q] + sent'[q]
          /\ Cardinality(Heap(InTx(s)')) \in Nat /\ Cardinality(Heap(InTx(s))) \in Nat
      BY <1>1, <3>5, InTxChanges
    <3>7. unsent'[q] = unsent[q] + n /\ sent'[q] = sent[q] - cleaned
          /\ unsent[q] \in Nat /\ sent[q] \in Nat
      BY <1>1, <2>2, Types
    <3>8. avail[s] \in Nat /\ n \in Nat /\ TxBurst \in Nat
      BY Types, Sizes
    <3>9. CASE s = 0
      <4>1. Cardinality(Heap(Held(s)')) + 1 = Cardinality(Heap(Held(s)))
        BY <3>2, <3>3, <3>4, <3>9
      <4>2. Cardinality(Heap(InTx(s)')) = Cardinality(Heap(InTx(s))) + n - cleaned
        BY <3>6, <3>7, <3>8, <3>9
      <4>3. QED
        BY <3>1, <3>4, <3>6, <3>8, <3>9, <4>1, <4>2 DEF Loose, FreedAgain
    <3>10. CASE s # 0
      <4>1. Cardinality(Heap(Held(s)')) = Cardinality(Heap(Held(s)))
        BY <3>2, <3>3, <3>4, <3>10
      <4>2. QED
        BY <3>1, <3>4, <3>6, <3>8, <3>10, <4>1 DEF Loose, FreedAgain
    <3>11. QED
      BY <3>9, <3>10
  <2>5. QED
    BY <1>1, <2>1, <2>4, Moves
<1>4. QED
  BY <1>2, <1>3

\* A port sends an mbuf, which stays in its ring.
LEMMA LeavesMoves ==
    \A q \in Queues : RunInv /\ RunInv' /\ MbufsConserved /\ leaves(q) => MbufsConserved'
<1> SUFFICES ASSUME NEW q \in Queues, RunInv, RunInv', MbufsConserved, leaves(q)
             PROVE  MbufsConserved'
  OBVIOUS
<1>1. /\ pc = "run" /\ unsent[q] > 0
      /\ unsent' = [unsent EXCEPT ![q] = @ - 1] /\ sent' = [sent EXCEPT ![q] = @ + 1]
      /\ UNCHANGED <<queues, pc, ready, core, avail>>
  BY DEF leaves
<1>2. ASSUME NEW s \in Sockets
      PROVE  Loose(s)' = Loose(s)
  <2>1. \A e \in Queues : unsent'[e] + sent'[e] = unsent[e] + sent[e]
    BY <1>1, Types
  <2>2. InTx(s)' = InTx(s)
    BY <2>1 DEF InTx
  <2>3. Held(s)' = Held(s)
    BY <1>1 DEF Held
  <2>4. QED
    BY <1>1, <2>2, <2>3 DEF Loose
<1>3. QED
  BY <1>1, <1>2, Moves

\* The cores are launched when nobody holds an mbuf yet.
LEMMA LaunchMoves ==
    ASSUME RunInv, PoolsOK, app_run
    PROVE  MbufsConserved'
<1>1. /\ pc = "launch" /\ UNCHANGED <<queues, ready, avail, unsent, sent>>
      /\ core' = [l \in Lcores |-> First(IF queues["rx"][l] # <<>> THEN "rx" ELSE "tx")]
  BY DEF app_run
<1> SUFFICES ASSUME NEW s \in Sockets, replay_is_socket_used(s)
             PROVE  \E calls \in 0 .. Accounted(s)' :
                      Accounted(s)' = PoolSize + calls * FreedAgain(s)
  BY <1>1, TablesStay DEF MbufsConserved, FreedAgain
<1>2. Cardinality(Heap(Held(s)')) = 0
  <2> DEFINE f == Held(s)'
  <2>1. DOMAIN f = Lcores /\ \A l \in Lcores : f[l] = 0
    BY <1>1 DEF Held, First
  <2> HIDE DEF f
  <2>2. Cardinality(Heap(f)) = 0
    BY <2>1, HeapOfNothing
  <2>3. QED
    BY <2>2 DEF f
<1>3. Cardinality(Heap(InTx(s)')) = 0
  <2> DEFINE f == InTx(s)'
  <2>1. DOMAIN f = Queues /\ \A q \in Queues : f[q] = 0
    BY <1>1 DEF InTx, RunInv, PlacesInv, QuietOK
  <2> HIDE DEF f
  <2>2. Cardinality(Heap(f)) = 0
    BY <2>1, HeapOfNothing
  <2>3. QED
    BY <2>2 DEF f
<1>4. avail[s] + RxRing * Cardinality(ReadyOn(s)) = PoolSize
  BY <1>1 DEF PoolsOK
<1>5. avail'[s] = avail[s] /\ ReadyOn(s)' = ReadyOn(s)
  BY <1>1 DEF ReadyOn
<1>6. Accounted(s)' = avail[s] + RxRing * Cardinality(ReadyOn(s)) + 0 + 0
  BY <1>2, <1>3, <1>5 DEF Accounted
<1>7. Accounted(s)' = PoolSize /\ PoolSize \in Nat
  BY <1>4, <1>6, Sizes
<1>8. FreedAgain(s) \in Nat
  BY Sizes DEF FreedAgain
<1>9. 0 \in 0 .. PoolSize /\ PoolSize = PoolSize + 0 * FreedAgain(s)
  BY <1>7, <1>8
<1>10. QED
  BY <1>7, <1>9

\* Whatever the cores and the ports do at once (runtime.c:113-166) and however large the
\* bursts are, no mbuf of a pool in use is lost, and what the pool, the rings and the cores
\* have beyond its size are the mbufs that calls of rte_eth_tx_burst freed TxBurst - 1 times
\* too often (runtime.c:157-160): none, with a burst of one.
THEOREM MbufsCorrect == Spec => []MbufsConserved
<1>1. Init => MbufsConserved
  BY DEF Init, MbufsConserved
<1>2. RunInv /\ RunInv' /\ PoolsOK /\ MbufsConserved /\ [Next]_vars => MbufsConserved'
  <2> SUFFICES ASSUME RunInv, RunInv', PoolsOK, MbufsConserved, [Next]_vars
               PROVE  MbufsConserved'
    OBVIOUS
  <2>1. CASE StartUp /\ ~app_run
    <3>1. pc' # "run"
      BY <2>1 DEF StartUp, replay_init_mbuf_pools, replay_init_nics, portsStarted,
                  check_all_ports_link_status
    <3>2. QED
      BY <3>1 DEF MbufsConserved
  <2>2. CASE app_run
    BY <2>2, LaunchMoves
  <2>3. CASE rte_panic
    BY <2>3 DEF rte_panic, MbufsConserved
  <2>4. CASE \E l \in Lcores : main_loop_io(l)
    BY <2>4, RxBurstMoves, RxFreeMoves, TxAllocMoves, TxBurstMoves DEF main_loop_io
  <2>5. CASE \E q \in Queues : arrives(q)
    <3>1. pc = "run" /\ UNCHANGED <<queues, pc, ready, core, avail, unsent, sent>>
      BY <2>5 DEF arrives
    <3>2. \A s \in Sockets : Loose(s)' = Loose(s)
      BY <3>1 DEF Loose, Held, InTx
    <3>3. QED
      BY <3>1, <3>2, Moves
  <2>6. CASE \E q \in Queues : leaves(q)
    BY <2>6, LeavesMoves
  <2>7. CASE UNCHANGED vars
    <3>1. UNCHANGED <<queues, pc, ready, core, avail, unsent, sent>>
      BY <2>7 DEF vars, mbuf_vars
    <3>2. \A s \in Sockets : Loose(s)' = Loose(s)
      BY <3>1 DEF Loose, Held, InTx
    <3>3. CASE pc = "run"
      BY <3>1, <3>2, <3>3, Moves
    <3>4. CASE pc # "run"
      BY <3>1, <3>4 DEF MbufsConserved
    <3>5. QED
      BY <3>3, <3>4
  <2>8. QED
    BY <2>1, <2>2, <2>3, <2>4, <2>5, <2>6, <2>7 DEF Next
<1>3. QED
  BY <1>1, <1>2, RunInit, RunNext, PoolsInit, PoolsNext, PTL DEF Spec
=============================================================================

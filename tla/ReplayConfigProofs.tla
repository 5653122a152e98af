------------------------- MODULE ReplayConfigProofs -------------------------
(***************************************************************************)
(* The tables of queues after any options: each queue that is set up is    *)
(* handled by one core, once, and stays with it.                           *)
(***************************************************************************)
EXTENDS ReplayConfig, SequenceTheorems, TLAPS

-----------------------------------------------------------------------------
(* The tables of the cores.                                                *)

\* A core whose tables have a queue is an I/O core, and it was enabled.
CoresOK == \A dir \in Dirs, l \in Lcores :
             queues[dir][l] # <<>> => type[l] = "io" /\ l \in Enabled

\* The number of tuples of the option that is parsed is not yet too large.
TuplesOK == pc \in Dirs => n_tuples <= MaxTuples

\* A queue that the mask of its port has is handled once, and no other one is.
OnceOK ==
    pc \notin {"rejected", "undefined"} =>
      \A dir \in Dirs, q \in Queues :
        IF q \in mask[dir] THEN \E h \in Lcores \X (1 .. PerLcore) : Handlers(dir, q) = {h}
                           ELSE Handlers(dir, q) = {}

ConfigInv == TypeOK /\ CoresOK /\ TuplesOK /\ OnceOK

LEMMA ConfigInit == Init => ConfigInv
<1> SUFFICES ASSUME Init
             PROVE  ConfigInv
  OBVIOUS
<1>1. \A dir \in Dirs, l \in Lcores : queues[dir][l] = <<>> /\ mask[dir] = {}
  BY DEF Init
<1>2. TypeOK
  <2>1. queues \in [Dirs -> [Lcores -> Seq(Queues)]]
    BY DEF Init
  <2>2. DOMAIN nvme = mask["tx"]
    BY DEF Init, Dirs
  <2>3. \A dir \in Dirs, l \in Lcores : Len(queues[dir][l]) <= PerLcore
    BY <1>1, ReplayAssumption
  <2>4. mask \in [Dirs -> SUBSET Queues]
    BY DEF Init
  <2>5. type \in [Lcores -> {"disabled", "io"}]
    BY DEF Init
  <2>6. /\ rsz \in Nat \X Nat /\ bsz \in Nat \X Nat
        /\ args \subseteq {"rx", "tx", "ifile"}
    BY DEF Init
  <2>7. n_tuples \in 0 .. MaxTuples + 1 
    BY ReplayAssumption DEF Init
  <2>8. ret \in -11 .. 0 /\ pc = "options"
    BY DEF Init
  <2>9. QED
    BY <2>1, <2>2, <2>3, <2>4, <2>5, <2>6, <2>7, <2>8 DEF TypeOK
<1>3. CoresOK /\ TuplesOK
  BY <1>1 DEF Init, CoresOK, TuplesOK, Dirs
<1>4. OnceOK
  <2>1. \A dir \in Dirs, h \in Lcores \X (1 .. PerLcore) : ~(h[2] <= Len(queues[dir][h[1]]))
    BY <1>1
  <2>2. \A dir \in Dirs, q \in Queues : Handlers(dir, q) = {}
    BY <2>1 DEF Handlers
  <2>3. \A dir \in Dirs : mask[dir] = {}
    BY DEF Init
  <2>4. QED
    BY <2>2, <2>3 DEF OnceOK
<1>5. QED
  BY <1>2, <1>3, <1>4 DEF ConfigInv

\* A core gets one queue more.
LEMMA Appended ==
    ASSUME TypeOK, NEW dir \in Dirs, NEW lcore \in Lcores, NEW q \in Queues,
           queues' = [queues EXCEPT ![dir][lcore] = Append(@, q)]
    PROVE  /\ queues' \in [Dirs -> [Lcores -> Seq(Queues)]]
           /\ \A d \in Dirs, l \in Lcores :
                queues'[d][l] = IF d = dir /\ l = lcore THEN Append(queues[d][l], q)
                                                         ELSE queues[d][l]
<1>1. queues \in [Dirs -> [Lcores -> Seq(Queues)]] /\ queues[dir][lcore] \in Seq(Queues)
  BY DEF TypeOK
<1>2. Append(queues[dir][lcore], q) \in Seq(Queues)
  BY <1>1
<1> DEFINE longer == Append(queues[dir][lcore], q)
<1> DEFINE row == [queues[dir] EXCEPT ![lcore] = longer]
<1>3. queues' = [queues EXCEPT ![dir] = row]
  OBVIOUS
<1>4. longer \in Seq(Queues)
  BY <1>2
<1> HIDE DEF longer
<1>5. queues[dir] \in [Lcores -> Seq(Queues)]
  BY <1>1
<1>6. /\ row \in [Lcores -> Seq(Queues)]
      /\ \A l \in Lcores : row[l] = IF l = lcore THEN longer ELSE queues[dir][l]
  BY <1>4, <1>5
<1> HIDE DEF row
<1>7. /\ queues' \in [Dirs -> [Lcores -> Seq(Queues)]]
      /\ \A d \in Dirs : queues'[d] = IF d = dir THEN row ELSE queues[d]
  BY <1>1, <1>3, <1>6
<1>8. QED
  BY <1>6, <1>7 DEF longer

\* What the tables say of the other queues does not change, and the core is the
\* handler of the new one.
LEMMA AppendedHandlers ==
    ASSUME TypeOK, NEW dir \in Dirs, NEW lcore \in Lcores, NEW q \in Queues,
           queues' = [queues EXCEPT ![dir][lcore] = Append(@, q)],
           ~Full(dir, lcore)
    PROVE  /\ \A d \in Dirs, x \in Queues :
                ~(d = dir /\ x = q) => Handlers(d, x)' = Handlers(d, x)
           /\ Handlers(dir, q)' =
                Handlers(dir, q) \cup {<<lcore, Len(queues[dir][lcore]) + 1>>}
           /\ <<lcore, Len(queues[dir][lcore]) + 1>> \in Lcores \X (1 .. PerLcore)
<1>1. \A d \in Dirs, l \in Lcores : queues[d][l] \in Seq(Queues)
  BY DEF TypeOK
<1>2. \A d \in Dirs, l \in Lcores :
        queues'[d][l] = IF d = dir /\ l = lcore THEN Append(queues[d][l], q)
                                                 ELSE queues[d][l]
  BY Appended
<1> DEFINE n == Len(queues[dir][lcore])
<1>3. n \in Nat /\ n + 1 \in 1 .. PerLcore
  BY <1>1, ReplayAssumption DEF Full
<1>4. /\ Len(queues'[dir][lcore]) = n + 1
      /\ queues'[dir][lcore][n + 1] = q
      /\ \A i \in 1 .. n : queues'[dir][lcore][i] = queues[dir][lcore][i]
  <2>1. queues[dir][lcore] \in Seq(Queues)
    BY <1>1
  <2>2. queues'[dir][lcore] = Append(queues[dir][lcore], q)
    BY <1>2
  <2>3. QED
    BY <2>1, <2>2, AppendProperties
<1> HIDE DEF n
<1>5. ASSUME NEW d \in Dirs, NEW x \in Queues, NEW h \in Lcores \X (1 .. PerLcore)
      PROVE  (h[2] <= Len(queues'[d][h[1]]) /\ queues'[d][h[1]][h[2]] = x) <=>
               \/ h[2] <= Len(queues[d][h[1]]) /\ queues[d][h[1]][h[2]] = x
               \/ d = dir /\ x = q /\ h = <<lcore, n + 1>>
  <2>1. h = <<h[1], h[2]>> /\ h[1] \in Lcores /\ h[2] \in Nat /\ h[2] >= 1
    OBVIOUS
  <2>2. CASE d = dir /\ h[1] = lcore
    <3>1. h[2] <= n + 1 <=> h[2] <= n \/ h[2] = n + 1
      BY <1>3, <2>1
    <3>2. ~(n + 1 <= n)
      BY <1>3
    <3>3. h[2] <= n => queues'[dir][lcore][h[2]] = queues[dir][lcore][h[2]]
      BY <1>3, <1>4, <2>1
    <3>4. QED
      BY <1>4, <2>1, <2>2, <3>1, <3>2, <3>3 DEF n
  <2>3. CASE ~(d = dir /\ h[1] = lcore)
    BY <1>2, <2>1, <2>3
  <2>4. QED
    BY <2>2, <2>3
<1>6. \A d \in Dirs, x \in Queues :
        Handlers(d, x)' = {h \in Lcores \X (1 .. PerLcore) :
                             \/ h[2] <= Len(queues[d][h[1]]) /\ queues[d][h[1]][h[2]] = x
                             \/ d = dir /\ x = q /\ h = <<lcore, n + 1>>}
  BY <1>5 DEF Handlers
<1>7. <<lcore, n + 1>> \in Lcores \X (1 .. PerLcore)
  BY <1>3
<1>8. QED
  BY <1>6, <1>7 DEF Handlers, n

LEMMA SameHandlers ==
    ASSUME queues' = queues
    PROVE  \A d \in Dirs, x \in Queues : Handlers(d, x)' = Handlers(d, x)
  BY DEF Handlers

-----------------------------------------------------------------------------
(* The steps.                                                              *)

\* A queue is entered in the tables of its port.
LEMMA TakeQueueType ==
    ASSUME TypeOK, NEW dir \in Dirs, NEW q, NEW disk, TakeQueue(dir, q, disk)
    PROVE  /\ q \in Queues /\ q \notin mask[dir]
           /\ mask' \in [Dirs -> SUBSET Queues]
           /\ \A d \in Dirs : mask'[d] = IF d = dir THEN mask[d] \cup {q} ELSE mask[d]
           /\ DOMAIN nvme' = mask'["tx"]
           /\ \A x \in mask["tx"] : nvme'[x] = nvme[x]
<1>1. q \in Queues /\ q \notin mask[dir]
  BY DEF TakeQueue, Refused
<1>2. mask \in [Dirs -> SUBSET Queues] /\ mask' = [mask EXCEPT ![dir] = @ \cup {q}]
  BY DEF TakeQueue, TypeOK
<1>3. /\ mask' \in [Dirs -> SUBSET Queues]
      /\ \A d \in Dirs : mask'[d] = IF d = dir THEN mask[d] \cup {q} ELSE mask[d]
  BY <1>1, <1>2
<1>4. "tx" \in Dirs /\ DOMAIN nvme = mask["tx"]
  BY DEF Dirs, TypeOK
<1>5. CASE dir = "tx"
  <2>1. nvme' = [x \in mask'[dir] |-> IF x = q THEN disk ELSE nvme[x]]
    BY <1>5 DEF TakeQueue
  <2>2. QED
    BY <1>1, <1>3, <1>4, <1>5, <2>1
<1>6. CASE dir # "tx"
  BY <1>1, <1>3, <1>4, <1>6 DEF TakeQueue
<1>7. QED
  BY <1>1, <1>3, <1>5, <1>6

\* The tables of ports and cores do not change.
LEMMA TablesSame ==
    ASSUME ConfigInv, TypeOK', TuplesOK', UNCHANGED <<mask, type, queues>>,
           pc' \notin {"rejected", "undefined"} => pc \notin {"rejected", "undefined"}
    PROVE  ConfigInv'
<1>1. CoresOK'
  BY DEF ConfigInv, CoresOK
<1>2. OnceOK'
  BY SameHandlers DEF ConfigInv, OnceOK
<1>3. QED
  BY <1>1, <1>2 DEF ConfigInv

LEMMA RefuseLcoreKeeps ==
    ASSUME ConfigInv, NEW dir \in Dirs, NEW q, NEW disk, NEW lcore,
           refuseLcore(dir, q, disk, lcore)
    PROVE  ConfigInv'
<1>1. /\ TypeOK /\ TakeQueue(dir, q, disk)
      /\ ret' = -5 /\ pc' = "rejected" /\ UNCHANGED <<type, queues, n_tuples>>
  BY DEF ConfigInv, refuseLcore, Reject
<1>1a. /\ mask' \in [Dirs -> SUBSET Queues] /\ DOMAIN nvme' = mask'["tx"]
  BY <1>1, TakeQueueType
<1>1b. TypeOK'
  BY <1>1, <1>1a DEF TakeQueue, TypeOK
<1>2. CoresOK' /\ TuplesOK' /\ OnceOK'
  BY DEF ConfigInv, refuseLcore, Reject, CoresOK, TuplesOK, OnceOK, Dirs
<1>3. QED
  BY <1>1b, <1>2 DEF ConfigInv

LEMMA GiveLcoreKeeps ==
    ASSUME ConfigInv, NEW dir \in Dirs, NEW q, NEW disk, NEW lcore,
           giveLcore(dir, q, disk, lcore)
    PROVE  ConfigInv'
<1>1. /\ TypeOK /\ TakeQueue(dir, q, disk) /\ lcore \in Enabled /\ lcore \in Lcores
      /\ type' = [type EXCEPT ![lcore] = "io"]
      /\ pc = dir
  BY ReplayAssumption DEF ConfigInv, giveLcore, TakeQueue, Lcores
<1>1a. /\ mask' \in [Dirs -> SUBSET Queues] /\ DOMAIN nvme' = mask'["tx"]
       /\ UNCHANGED <<rsz, bsz, args>>
  BY <1>1, TakeQueueType DEF TakeQueue
<1>2. type' \in [Lcores -> {"disabled", "io"}]
      /\ \A l \in Lcores : type'[l] = IF l = lcore THEN "io" ELSE type[l]
  BY <1>1 DEF TypeOK
<1>3. n_tuples \in Nat /\ n_tuples <= MaxTuples
  BY <1>1, ReplayAssumption DEF ConfigInv, TuplesOK, TypeOK
<1>4. CASE (Reject(-8) \/ Reject(-9)) /\ UNCHANGED <<queues, n_tuples>>
  <2>1. TypeOK'
    BY <1>1, <1>1a, <1>2, <1>4 DEF Reject, TypeOK
  <2>2. CoresOK' /\ TuplesOK' /\ OnceOK'
    BY <1>1, <1>2, <1>4 DEF ConfigInv, Reject, CoresOK, TuplesOK, OnceOK, Dirs
  <2>3. QED
    BY <2>1, <2>2 DEF ConfigInv
<1>5. CASE /\ ~Full(dir, lcore)
           /\ queues' = [queues EXCEPT ![dir][lcore] = Append(@, q)]
           /\ n_tuples' = n_tuples + 1
           /\ IF n_tuples' > MaxTuples THEN Reject(-10) ELSE UNCHANGED <<pc, ret>>
  <2>1. /\ q \in Queues /\ q \notin mask[dir]
        /\ \A d \in Dirs : mask'[d] = IF d = dir THEN mask[d] \cup {q} ELSE mask[d]
    BY <1>1, TakeQueueType
  <2>2. /\ queues' \in [Dirs -> [Lcores -> Seq(Queues)]]
        /\ \A d \in Dirs, l \in Lcores :
             queues'[d][l] = IF d = dir /\ l = lcore THEN Append(queues[d][l], q)
                                                      ELSE queues[d][l]
    <3>1. TypeOK /\ lcore \in Lcores
      BY <1>1
    <3>2. queues' = [queues EXCEPT ![dir][lcore] = Append(@, q)]
      BY <1>5
    <3>3. q \in Queues
      BY <2>1
    <3>4. QED
      BY <3>1, <3>2, <3>3, Appended
  <2>3. \A d \in Dirs, l \in Lcores : Len(queues'[d][l]) <= PerLcore
    <3>1. queues[dir][lcore] \in Seq(Queues)
      BY <1>1 DEF TypeOK
    <3>2. Len(Append(queues[dir][lcore], q)) <= PerLcore
      BY <1>5, <3>1, ReplayAssumption DEF Full
    <3>3. QED
      BY <1>1, <2>2, <3>2 DEF TypeOK
  <2>4. TypeOK'
    <3>1. n_tuples' \in 0 .. MaxTuples + 1
      BY <1>3, <1>5, ReplayAssumption
    <3>2. /\ pc' \in {"options", "rx", "tx", "rejected", "exited", "undefined", "accepted"}
          /\ ret' \in -11 .. 0
      <4>1. pc' \in {pc, "rejected"} /\ ret' \in {ret, -10}
        BY <1>5 DEF Reject
      <4>2. /\ pc \in {"options", "rx", "tx", "rejected", "exited", "undefined", "accepted"}
            /\ ret \in -11 .. 0
        BY <1>1 DEF TypeOK
      <4>3. QED
        BY <4>1, <4>2
    <3>3. /\ queues' \in [Dirs -> [Lcores -> Seq(Queues)]]
          /\ type' \in [Lcores -> {"disabled", "io"}]
      BY <1>2, <2>2
    <3>4. rsz' \in Nat \X Nat /\ bsz' \in Nat \X Nat /\ args' \subseteq {"rx", "tx", "ifile"}
      BY <1>1, <1>1a DEF TypeOK
    <3>5. QED
      BY <1>1a, <2>3, <3>1, <3>2, <3>3, <3>4 DEF TypeOK
  <2>5. CoresOK'
    BY <1>1, <1>2, <2>2 DEF ConfigInv, CoresOK
  <2>6. TuplesOK'
    BY <1>3, <1>5, ReplayAssumption DEF TuplesOK, Reject, Dirs
  <2>7. OnceOK'
    <3>1. pc \notin {"rejected", "undefined"}
      BY <1>1 DEF Dirs
    <3>2. /\ \A d \in Dirs, x \in Queues :
               ~(d = dir /\ x = q) => Handlers(d, x)' = Handlers(d, x)
          /\ Handlers(dir, q)' =
               Handlers(dir, q) \cup {<<lcore, Len(queues[dir][lcore]) + 1>>}
          /\ <<lcore, Len(queues[dir][lcore]) + 1>> \in Lcores \X (1 .. PerLcore)
      BY <1>1, <1>5, <2>1, AppendedHandlers
    <3>3. Handlers(dir, q) = {}
      BY <2>1, <3>1 DEF ConfigInv, OnceOK
    <3>4. \E h \in Lcores \X (1 .. PerLcore) : Handlers(dir, q)' = {h}
      BY <3>2, <3>3
    <3>5. ASSUME NEW d \in Dirs, NEW x \in Queues
          PROVE  IF x \in mask'[d]
                 THEN \E h \in Lcores \X (1 .. PerLcore) : Handlers(d, x)' = {h}
                 ELSE Handlers(d, x)' = {}
      <4>1. CASE d = dir /\ x = q
        BY <2>1, <3>4, <4>1
      <4>2. CASE ~(d = dir /\ x = q)
        <5>1. Handlers(d, x)' = Handlers(d, x) /\ (x \in mask'[d] <=> x \in mask[d])
          BY <2>1, <3>2, <4>2
        <5>2. QED
          BY <3>1, <5>1 DEF ConfigInv, OnceOK
      <4>3. QED
        BY <4>1, <4>2
    <3>6. QED
      BY <3>5 DEF OnceOK
  <2>8. QED
    BY <2>4, <2>5, <2>6, <2>7 DEF ConfigInv
<1>6. QED
  BY <1>4, <1>5 DEF giveLcore

LEMMA ConfigNext == ConfigInv /\ [Next]_vars => ConfigInv'
<1> SUFFICES ASSUME ConfigInv, [Next]_vars
             PROVE  ConfigInv'
  OBVIOUS
<1>1. TypeOK /\ TuplesOK
  BY DEF ConfigInv
<1>2. ASSUME NEW dir \in Dirs, option(dir) PROVE ConfigInv'
  <2>1. TypeOK' /\ TuplesOK'
    BY <1>1, <1>2, ReplayAssumption DEF option, TypeOK, TuplesOK, Dirs
  <2>2. /\ UNCHANGED <<mask, type, queues>>
        /\ pc' \notin {"rejected", "undefined"} => pc \notin {"rejected", "undefined"}
    BY <1>1, <1>2 DEF option, Dirs
  <2>3. QED
    BY <2>1, <2>2, TablesSame
<1>3. ASSUME NEW dir \in Dirs, malformed(dir) PROVE ConfigInv'
  BY <1>1, <1>3, TablesSame DEF malformed, Reject, TypeOK, TuplesOK, Dirs
<1>4. ASSUME NEW dir \in Dirs, NEW q, refuseQueue(dir, q) PROVE ConfigInv'
  <2>1. TypeOK' /\ TuplesOK'
    BY <1>1, <1>4 DEF refuseQueue, Refused, Reject, TypeOK, TuplesOK, Dirs
  <2>2. QED
    BY <1>4, <2>1, TablesSame DEF refuseQueue, Reject
<1>5. ASSUME NEW dir \in Dirs, Tuple(dir) PROVE ConfigInv'
  BY <1>4, <1>5, RefuseLcoreKeeps, GiveLcoreKeeps DEF Tuple
<1>6. ASSUME NEW dir \in Dirs, endOption(dir) PROVE ConfigInv'
  <2>1. TypeOK' /\ TuplesOK'
    BY <1>1, <1>6 DEF endOption, Reject, TypeOK, TuplesOK, Dirs
  <2>2. /\ UNCHANGED <<mask, type, queues>>
        /\ pc' \notin {"rejected", "undefined"} => pc \notin {"rejected", "undefined"}
    BY <1>1, <1>6 DEF endOption, Reject, Dirs
  <2>3. QED
    BY <2>1, <2>2, TablesSame
<1>7. ASSUME NEW a \in ArgSizes, sizesMissing(a) PROVE ConfigInv'
  <2>1. a \in Nat /\ rsz[1] \in Nat /\ rsz[2] \in Nat /\ bsz[1] \in Nat /\ bsz[2] \in Nat
    BY <1>1, ReplayAssumption DEF TypeOK
  <2>2. TypeOK' /\ TuplesOK'
    BY <1>1, <1>7, <2>1 DEF sizesMissing, Reject, TypeOK, TuplesOK, Dirs
  <2>3. QED
    BY <1>7, <2>2, TablesSame DEF sizesMissing, Reject
<1>8. ASSUME NEW a \in ArgSizes, NEW b \in ArgSizes, parse_arg_rsz(a, b) PROVE ConfigInv'
  <2>1. TypeOK' /\ TuplesOK'
    BY <1>1, <1>8, ReplayAssumption, SMTT(30) DEF parse_arg_rsz, Reject, TypeOK, TuplesOK, Dirs
  <2>2. /\ UNCHANGED <<mask, type, queues>>
        /\ pc' \notin {"rejected", "undefined"} => pc \notin {"rejected", "undefined"}
    BY <1>1, <1>8 DEF parse_arg_rsz, Reject
  <2>3. QED
    BY <2>1, <2>2, TablesSame
<1>9. ASSUME NEW a \in ArgSizes, NEW b \in ArgSizes, parse_arg_bsz(a, b) PROVE ConfigInv'
  <2>1. TypeOK' /\ TuplesOK'
    BY <1>1, <1>9, ReplayAssumption, SMTT(30) DEF parse_arg_bsz, Reject, TypeOK, TuplesOK, Dirs
  <2>2. /\ UNCHANGED <<mask, type, queues>>
        /\ pc' \notin {"rejected", "undefined"} => pc \notin {"rejected", "undefined"}
    BY <1>1, <1>9 DEF parse_arg_bsz, Reject
  <2>3. QED
    BY <2>1, <2>2, TablesSame
<1>10. CASE parse_arg_ifile
  BY <1>1, <1>10, TablesSame DEF parse_arg_ifile, TypeOK, TuplesOK, Dirs
<1>11. CASE badOption
  BY <1>1, <1>11, TablesSame, SMTT(30) DEF badOption, Reject, TypeOK, TuplesOK, Dirs
<1>12. CASE replay_parse_args
  <2>1. TypeOK' /\ TuplesOK'
    BY <1>1, <1>12, SMTT(30) DEF replay_parse_args, Reject, DefaultRing, DefaultBurst, TypeOK, TuplesOK, Dirs
  <2>2. /\ UNCHANGED <<mask, type, queues>>
        /\ pc' \notin {"rejected", "undefined"} => pc \notin {"rejected", "undefined"}
    BY <1>1, <1>12 DEF replay_parse_args, Reject, DefaultRing, DefaultBurst
  <2>3. QED
    BY <2>1, <2>2, TablesSame
<1>13. CASE UNCHANGED vars
  BY <1>1, <1>13, TablesSame DEF vars, TypeOK, TuplesOK
<1>14. QED
  BY <1>2, <1>3, <1>5, <1>6, <1>7, <1>8, <1>9, <1>10, <1>11, <1>12, <1>13 DEF Next

\* A queue that is handled once is found with the core that handles it.
LEMMA LookUp ==
    ASSUME TypeOK, CoresOK, NEW dir \in Dirs, NEW q \in Queues,
           NEW h \in Lcores \X (1 .. PerLcore), Handlers(dir, q) = {h}
    PROVE  replay_get_lcore_for_nic(dir, q) = h[1] /\ h[1] \in Enabled
<1> DEFINE found == {l \in Lcores : type[l] = "io" /\ HasQueue(dir, l, q)}
<1>1. \A l \in Lcores : queues[dir][l] \in Seq(Queues) /\ Len(queues[dir][l]) <= PerLcore
  BY DEF TypeOK
<1>2. \A l \in Lcores : \A i \in DOMAIN queues[dir][l] :
        queues[dir][l][i] = q => <<l, i>> \in Handlers(dir, q)
  BY <1>1, ReplayAssumption DEF Handlers
<1>3. h = <<h[1], h[2]>> /\ h[1] \in Lcores /\ h[2] \in DOMAIN queues[dir][h[1]]
      /\ queues[dir][h[1]][h[2]] = q
  BY <1>1 DEF Handlers
<1>4. type[h[1]] = "io" /\ h[1] \in Enabled
  BY <1>3 DEF CoresOK
<1>5. found = {h[1]}
  BY <1>2, <1>3, <1>4 DEF HasQueue
<1>6. h[1] \in Int
  BY <1>3 DEF Lcores
<1>7. (CHOOSE l \in found : \A x \in found : l <= x) = h[1]
  BY <1>5, <1>6
<1>8. QED
  BY <1>4, <1>5, <1>7 DEF replay_get_lcore_for_nic

-----------------------------------------------------------------------------
(* The theorems.                                                           *)

LEMMA ConfigInductive == Spec => []ConfigInv
  BY ConfigInit, ConfigNext, PTL DEF Spec

\* The tables keep the types of the C declarations (replay.h, config.c:113-420),
\* whatever options are typed in whatever order.
THEOREM ConfigTypeCorrect == Spec => []TypeOK
<1>1. ConfigInv => TypeOK
  BY DEF ConfigInv
<1>2. QED
  BY <1>1, ConfigInductive, PTL

\* As long as no option was refused, every queue that init.c will set up is handled
\* by one enabled core, once, and the look-up of config.c finds that core.
THEOREM QueuesHandledCorrect == Spec => []QueuesHandled
<1>1. ConfigInv => QueuesHandled
  <2>1. SUFFICES ASSUME ConfigInv, pc \notin {"rejected", "undefined"},
                        NEW dir \in Dirs, NEW q \in Queues
                 PROVE  IF q \in mask[dir]
                        THEN \E l \in Lcores, i \in 1 .. PerLcore :
                               /\ Handlers(dir, q) = {<<l, i>>}
                               /\ replay_get_lcore_for_nic(dir, q) = l
                               /\ l \in Enabled
                        ELSE Handlers(dir, q) = {}
    BY DEF QueuesHandled
  <2>2. CASE q \in mask[dir]
    <3>1. PICK h \in Lcores \X (1 .. PerLcore) : Handlers(dir, q) = {h}
      BY <2>1, <2>2 DEF ConfigInv, OnceOK
    <3>2. replay_get_lcore_for_nic(dir, q) = h[1] /\ h[1] \in Enabled
      BY <2>1, <3>1, LookUp DEF ConfigInv
    <3>3. h = <<h[1], h[2]>> /\ h[1] \in Lcores /\ h[2] \in 1 .. PerLcore
      OBVIOUS
    <3>4. QED
      BY <2>2, <3>1, <3>2, <3>3
  <2>3. CASE q \notin mask[dir]
    BY <2>1, <2>3 DEF ConfigInv, OnceOK
  <2>4. QED
    BY <2>2, <2>3
<1>2. QED
  BY <1>1, ConfigInductive, PTL

\* A queue that was handed out keeps its core and its disk, whatever follows.
THEOREM QueuesKeptCorrect == Spec => QueuesKept
<1> DEFINE Kept == \A dir \in Dirs : \A q \in mask[dir] :
                     /\ q \in mask'[dir]
                     /\ Handlers(dir, q) \subseteq Handlers(dir, q)'
                     /\ dir = "tx" => nvme'[q] = nvme[q]
<1>1. ConfigInv /\ [Next]_vars => Kept
  <2>1. SUFFICES ASSUME ConfigInv, [Next]_vars
                 PROVE  Kept
    OBVIOUS
  <2>2. TypeOK /\ \A dir \in Dirs : mask[dir] \subseteq Queues
    BY <2>1 DEF ConfigInv, TypeOK
  <2>3. CASE UNCHANGED <<mask, nvme, queues>>
    BY <2>2, <2>3, SameHandlers
  <2>4. ASSUME NEW dir \in Dirs, NEW q, NEW disk, TakeQueue(dir, q, disk),
               queues' = queues
        PROVE  Kept
    BY <2>2, <2>4, SameHandlers, TakeQueueType
  <2>5. ASSUME NEW dir \in Dirs, NEW q, NEW disk, NEW lcore, giveLcore(dir, q, disk, lcore)
        PROVE  Kept
    <3>1. TakeQueue(dir, q, disk) /\ lcore \in Lcores
      BY <2>5, ReplayAssumption DEF giveLcore, Lcores
    <3>2. CASE queues' = queues
      BY <2>4, <3>1, <3>2
    <3>3. CASE ~Full(dir, lcore) /\ queues' = [queues EXCEPT ![dir][lcore] = Append(@, q)]
      <4>1. q \in Queues
        BY <2>2, <3>1, TakeQueueType
      <4>2. \A d \in Dirs, x \in Queues : Handlers(d, x) \subseteq Handlers(d, x)'
        BY <2>2, <3>1, <3>3, <4>1, AppendedHandlers
      <4>3. QED
        BY <2>2, <3>1, <4>2, TakeQueueType
    <3>4. QED
      BY <2>5, <3>2, <3>3 DEF giveLcore
  <2>6. ASSUME NEW dir \in Dirs, NEW q, NEW disk, NEW lcore, refuseLcore(dir, q, disk, lcore)
        PROVE  Kept
    BY <2>4, <2>6 DEF refuseLcore
  <2>7. \/ UNCHANGED <<mask, nvme, queues>>
        \/ \E dir \in Dirs : Tuple(dir)
    BY <2>1 DEF Next, vars, option, malformed, endOption, sizesMissing, parse_arg_rsz,
                parse_arg_bsz, parse_arg_ifile, badOption, replay_parse_args
  <2>8. ASSUME NEW dir \in Dirs, Tuple(dir)
        PROVE  UNCHANGED <<mask, nvme, queues>> \/ Kept
    BY <2>5, <2>6, <2>8 DEF Tuple, refuseQueue
  <2>9. QED
    BY <2>3, <2>7, <2>8
<1>2. QED
  BY <1>1, ConfigInductive, PTL DEF Spec, QueuesKept
=============================================================================

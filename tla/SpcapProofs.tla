---------------------------- MODULE SpcapProofs -----------------------------
(***************************************************************************)
(* The capture writer: the disks stay balanced, only the super-sectors of  *)
(* a capture are written, and a capture that fits is kept; for every       *)
(* number of disks, size of buffer, set of packets and fault.              *)
(***************************************************************************)
EXTENDS SpcapInv, StripingProofs, SequenceTheorems, WellFoundedInduction

\* t is s with data behind what there was in the buffer of disk d.
Appended(s, t, d, data) ==
    /\ IsSpcap(t)
    /\ t.dataWrote = [s.dataWrote EXCEPT ![d] = @ + Len(data)]
    /\ t.curlba = s.curlba
    /\ \A e \in Disks \ {d} : t.buffs[e] = s.buffs[e]
    /\ s.dataWrote[d] + Len(data) < SUPERSECTORLENGTH =>
         /\ \A i \in 0 .. s.dataWrote[d] - 1 : t.buffs[d][i] = s.buffs[d][i]
         /\ \A j \in 1 .. Len(data) : t.buffs[d][s.dataWrote[d] + j - 1] = data[j]

-----------------------------------------------------------------------------
(* Sizes.                                                                  *)

LEMMA Lengths ==
    /\ SUPERSECTORLENGTH \in Nat \ {0}
    /\ HEADER \in 1 .. SUPERSECTORLENGTH
    /\ \A p \in Packets : p.len \in 0 .. SUPERSECTORLENGTH
<1>1. SUPERSECTORLENGTH \in Nat \ {0}
  BY SuperSectorAssumption, SpcapAssumption DEF SUPERSECTORLENGTH
<1>2. QED
  BY <1>1, SpcapAssumption

LEMMA BufferSize == BUFFSIZE \in Nat /\ SUPERSECTORLENGTH <= BUFFSIZE
<1> DEFINE S == SUPERSECTORLENGTH
<1>1. S \in Nat \ {0} /\ NUMBUFS \in Nat \ {0}
  BY Lengths, SpcapAssumption
<1> HIDE DEF S
<1>2. PICK e \in Nat : NUMBUFS = e + 1
  BY <1>1
<1>3. S * NUMBUFS = S * e + S /\ S * e \in Nat
  BY <1>1, <1>2
<1>4. QED
  BY <1>1, <1>3 DEF BUFFSIZE, S

LEMMA FunctionIsSeq ==
    ASSUME NEW n \in Nat, NEW S, NEW f \in [1 .. n -> S]
    PROVE  f \in Seq(S) /\ Len(f) = n
  OBVIOUS

\* What is copied for a header or a packet.
LEMMA HeaderSeq ==
    ASSUME NEW k \in 0 .. MaxPackets
    PROVE  HeaderData(k) \in Seq(Data) /\ Len(HeaderData(k)) = HEADER
<1>1. HEADER \in Nat /\ HEADER <= SUPERSECTORLENGTH /\ SUPERSECTORLENGTH \in Nat
  BY Lengths
<1>2. ASSUME NEW j \in 1 .. HEADER
      PROVE  <<k, "header", j>> \in Data
  BY <1>1 DEF Data
<1>3. HeaderData(k) \in [1 .. HEADER -> Data]
  BY <1>2 DEF HeaderData
<1>4. QED
  BY <1>1, <1>3, FunctionIsSeq

LEMMA PayloadSeq ==
    ASSUME NEW k \in 0 .. MaxPackets, NEW p \in Packets
    PROVE  PayloadData(k, p) \in Seq(Data) /\ Len(PayloadData(k, p)) = p.len
<1>1. p.len \in Nat /\ p.len <= SUPERSECTORLENGTH /\ SUPERSECTORLENGTH \in Nat
  BY Lengths
<1>2. ASSUME NEW j \in 1 .. p.len
      PROVE  (IF j <= p.caplen THEN <<k, "payload", j>> ELSE NoData) \in Data
  BY <1>1 DEF Data
<1>3. PayloadData(k, p) \in [1 .. p.len -> Data]
  BY <1>2 DEF PayloadData
<1>4. QED
  BY <1>1, <1>3, FunctionIsSeq

\* writeBuff has nothing to flush once there is data.
LEMMA NoFlush == ASSUME NEW w \in Nat, w > 0 PROVE ~FlushDue(w)
<1>1. (0 % SUPERSECTORLENGTH) = 0
  <2>1. /\ (0 \div SUPERSECTORLENGTH) \in Nat
        /\ (0 % SUPERSECTORLENGTH) \in 0 .. SUPERSECTORLENGTH - 1
        /\ 0 = SUPERSECTORLENGTH * (0 \div SUPERSECTORLENGTH) + (0 % SUPERSECTORLENGTH)
    BY Lengths, DivMod
  <2>2. SUPERSECTORLENGTH * (0 \div SUPERSECTORLENGTH) \in Nat
    BY <2>1, Lengths
  <2>3. QED
    BY <2>1, <2>2
<1>2. QED
  BY <1>1 DEF FlushDue

LEMMA UsedFacts ==
    ASSUME NEW w \in Nat
    PROVE  /\ (w % SUPERSECTORLENGTH) \in Nat /\ (w % SUPERSECTORLENGTH) <= w
           /\ (w % SUPERSECTORLENGTH) < SUPERSECTORLENGTH
           /\ w < SUPERSECTORLENGTH => (w % SUPERSECTORLENGTH) = w
<1> DEFINE S == SUPERSECTORLENGTH
           q == w \div S
           r == w % S
<1>1. S \in Nat \ {0}
  BY Lengths
<1>2. q \in Nat /\ r \in 0 .. S - 1 /\ w = S * q + r
  BY <1>1, DivMod
<1> HIDE DEF S, q, r
<1>3. S * q \in Nat
  BY <1>1, <1>2
<1>4. r \in Nat /\ r <= w /\ r < S
  BY <1>1, <1>2, <1>3
<1>5. ASSUME w < S
      PROVE  r = w
  <2>1. q = 0
    <3> SUFFICES ASSUME q # 0
                 PROVE  FALSE
      OBVIOUS
    <3>1. PICK e \in Nat : q = e + 1
      BY <1>2
    <3>2. S * q = S * e + S /\ S * e \in Nat
      BY <1>1, <3>1
    <3>3. QED
      BY <1>1, <1>2, <1>5, <3>2
  <2>2. S * q = 0
    BY <1>1, <2>1
  <2>3. QED
    BY <1>1, <1>2, <2>2
<1>6. QED
  BY <1>4, <1>5 DEF S, r

-----------------------------------------------------------------------------
(* What is copied to a buffer.                                             *)

LEMMA PartAppends ==
    ASSUME NEW s, IsSpcap(s), NEW d \in Disks, NEW data \in Seq(Data),
           Len(data) > 0 \/ s.dataWrote[d] > 0
    PROVE  Appended(s, writePart(s, d, data), d, data)
<1> DEFINE t == Copy(s, d, data)
           n == Len(data)
           w == s.dataWrote[d]
           old == s.buffs[d]
           new == [i \in DOMAIN old |-> IF i \in w .. w + n - 1 THEN data[i - w + 1] ELSE old[i]]
<1>1. n \in Nat /\ w \in Nat /\ old \in [0 .. BUFFSIZE - 1 -> Data]
  BY LenProperties DEF IsSpcap
<1>2. /\ DOMAIN s = Fields /\ s.dataWrote \in [Disks -> Nat] /\ s.currPtr = s.dataWrote
      /\ s.curlba \in [Disks -> Nat] /\ s.buffs \in [Disks -> [0 .. BUFFSIZE - 1 -> Data]]
      /\ s.out = <<>>
  BY DEF IsSpcap
<1>3. /\ DOMAIN t = Fields
      /\ t.dataWrote = [s.dataWrote EXCEPT ![d] = w + n]
      /\ t.currPtr = [s.currPtr EXCEPT ![d] = w + n]
      /\ t.buffs = [s.buffs EXCEPT ![d] = new]
      /\ t.curlba = s.curlba /\ t.out = s.out
  BY <1>2 DEF Copy, Fields
<1>4. new \in [0 .. BUFFSIZE - 1 -> Data]
  <2>1. ASSUME NEW i \in 0 .. BUFFSIZE - 1
        PROVE  (IF i \in w .. w + n - 1 THEN data[i - w + 1] ELSE old[i]) \in Data
    <3>1. CASE i \in w .. w + n - 1
      <4>1. i - w + 1 \in 1 .. n
        BY <1>1, <3>1
      <4>2. data[i - w + 1] \in Data
        BY <4>1, ElementOfSeq
      <4>3. QED
        BY <3>1, <4>2
    <3>2. CASE i \notin w .. w + n - 1
      BY <1>1, <3>2
    <3>3. QED
      BY <3>1, <3>2
  <2>2. QED
    BY <1>1, <2>1
<1>5. writePart(s, d, data) = t
  <2>1. t.dataWrote[d] = w + n /\ w + n \in Nat /\ w + n > 0
    BY <1>1, <1>2, <1>3
  <2>2. ~FlushDue(t.dataWrote[d])
    BY <2>1, NoFlush
  <2>3. QED
    BY <2>2 DEF writePart
<1>6. ASSUME w + n < SUPERSECTORLENGTH
      PROVE  /\ \A i \in 0 .. w - 1 : new[i] = old[i]
             /\ \A j \in 1 .. n : new[w + j - 1] = data[j]
  <2>1. \A i \in 0 .. w + n - 1 : i \in 0 .. BUFFSIZE - 1
    BY <1>1, <1>6, BufferSize, Lengths
  <2>2. ASSUME NEW i \in 0 .. w - 1
        PROVE  new[i] = old[i]
    <3>1. i \notin w .. w + n - 1 /\ i \in 0 .. w + n - 1
      BY <1>1
    <3>2. i \in DOMAIN old
      BY <1>1, <2>1, <3>1
    <3>3. QED
      BY <3>1, <3>2
  <2>3. ASSUME NEW j \in 1 .. n
        PROVE  new[w + j - 1] = data[j]
    <3>1. PICK i : i = w + j - 1
      OBVIOUS
    <3>2. i \in w .. w + n - 1 /\ i \in 0 .. w + n - 1 /\ i - w + 1 = j
      BY <1>1, <3>1
    <3>3. i \in DOMAIN old
      BY <1>1, <2>1, <3>2
    <3>4. QED
      BY <3>1, <3>2, <3>3
  <2>4. QED
    BY <2>2, <2>3
<1> HIDE DEF t, new
<1>7. t.buffs[d] = new /\ \A e \in Disks \ {d} : t.buffs[e] = s.buffs[e]
  BY <1>2, <1>3
<1>8. IsSpcap(t)
  <2>1. t.dataWrote \in [Disks -> Nat] /\ t.currPtr = t.dataWrote
    BY <1>1, <1>2, <1>3
  <2>2. t.buffs \in [Disks -> [0 .. BUFFSIZE - 1 -> Data]]
    BY <1>2, <1>3, <1>4
  <2>3. QED
    BY <1>2, <1>3, <2>1, <2>2 DEF IsSpcap
<1>9. QED
  BY <1>3, <1>5, <1>6, <1>7, <1>8 DEF Appended

LEMMA AppendedTwice ==
    ASSUME NEW r, NEW s, NEW t, NEW d \in Disks, NEW a \in Seq(Data), NEW b \in Seq(Data),
           IsSpcap(r), Appended(r, s, d, a), Appended(s, t, d, b)
    PROVE  Appended(r, t, d, a \o b)
<1> DEFINE m == Len(a)
           n == Len(b)
           w == r.dataWrote[d]
<1>1. /\ m \in Nat /\ n \in Nat /\ w \in Nat
      /\ Len(a \o b) = m + n
      /\ \A j \in 1 .. m + n : (a \o b)[j] = IF j <= m THEN a[j] ELSE b[j - m]
  BY LenProperties, ConcatProperties DEF IsSpcap
<1>2. r.dataWrote \in [Disks -> Nat]
  BY DEF IsSpcap
<1>3. s.dataWrote = [r.dataWrote EXCEPT ![d] = w + m] /\ s.dataWrote[d] = w + m
  BY <1>2 DEF Appended
<1>4. t.dataWrote = [r.dataWrote EXCEPT ![d] = w + (m + n)]
  <2>1. t.dataWrote = [s.dataWrote EXCEPT ![d] = (w + m) + n]
    BY <1>3 DEF Appended
  <2>2. (w + m) + n = w + (m + n)
    BY <1>1
  <2>3. [s.dataWrote EXCEPT ![d] = (w + m) + n] = [r.dataWrote EXCEPT ![d] = (w + m) + n]
    BY <1>2, <1>3
  <2>4. QED
    BY <2>1, <2>2, <2>3
<1>5. ASSUME w + (m + n) < SUPERSECTORLENGTH
      PROVE  /\ \A i \in 0 .. w - 1 : t.buffs[d][i] = r.buffs[d][i]
             /\ \A j \in 1 .. m + n : t.buffs[d][w + j - 1] = (a \o b)[j]
  <2>1. w + m < SUPERSECTORLENGTH /\ (w + m) + n < SUPERSECTORLENGTH
    BY <1>1, <1>5, Lengths
  <2>2. /\ \A i \in 0 .. w - 1 : s.buffs[d][i] = r.buffs[d][i]
        /\ \A j \in 1 .. m : s.buffs[d][w + j - 1] = a[j]
    BY <2>1 DEF Appended
  <2>3. /\ \A i \in 0 .. (w + m) - 1 : t.buffs[d][i] = s.buffs[d][i]
        /\ \A j \in 1 .. n : t.buffs[d][(w + m) + j - 1] = b[j]
    BY <1>3, <2>1 DEF Appended
  <2>4. ASSUME NEW i \in 0 .. w - 1
        PROVE  t.buffs[d][i] = r.buffs[d][i]
    <3>1. i \in 0 .. (w + m) - 1
      BY <1>1
    <3>2. QED
      BY <2>2, <2>3, <3>1
  <2>5. ASSUME NEW j \in 1 .. m + n
        PROVE  t.buffs[d][w + j - 1] = (a \o b)[j]
    <3>1. CASE j <= m
      <4>1. j \in 1 .. m /\ w + j - 1 \in 0 .. (w + m) - 1
        BY <1>1, <3>1
      <4>2. t.buffs[d][w + j - 1] = a[j]
        BY <2>2, <2>3, <4>1
      <4>3. QED
        BY <1>1, <3>1, <4>2
    <3>2. CASE ~(j <= m)
      <4>1. j - m \in 1 .. n /\ (w + m) + (j - m) - 1 = w + j - 1
        BY <1>1, <3>2
      <4>2. t.buffs[d][w + j - 1] = b[j - m]
        BY <2>3, <4>1
      <4>3. QED
        BY <1>1, <3>2, <4>2
    <3>3. QED
      BY <3>1, <3>2
  <2>6. QED
    BY <2>4, <2>5
<1>6. t.curlba = r.curlba /\ IsSpcap(t) /\ \A e \in Disks \ {d} : t.buffs[e] = r.buffs[e]
  BY DEF Appended
<1>7. QED
  BY <1>1, <1>4, <1>5, <1>6 DEF Appended

\* writeBuff copies all of the data, in one part or in two.
LEMMA BuffAppends ==
    ASSUME NEW s, IsSpcap(s), NEW d \in Disks, NEW data \in Seq(Data),
           Len(data) <= SUPERSECTORLENGTH, Len(data) > 0 \/ s.dataWrote[d] > 0
    PROVE  Appended(s, writeBuff(s, d, data), d, data)
<1> DEFINE w == s.dataWrote[d]
           size == Len(data)
           n == ToWrite(s, d, size)
           part == SubSeq(data, 1, n)
           left == size - n
           rest == SubSeq(data, 1, left)
           once == writePart(s, d, part)
<1>1. size \in Nat /\ w \in Nat /\ SUPERSECTORLENGTH \in Nat \ {0}
  BY LenProperties, Lengths DEF IsSpcap
<1>2. /\ (w % SUPERSECTORLENGTH) \in Nat /\ (w % SUPERSECTORLENGTH) <= w
      /\ (w % SUPERSECTORLENGTH) < SUPERSECTORLENGTH
  BY <1>1, UsedFacts
<1>3. /\ n \in 0 .. size
      /\ n = size \/ (n > 0 /\ w + size > SUPERSECTORLENGTH)
  BY <1>1, <1>2 DEF ToWrite
<1>4. left \in 0 .. size
  BY <1>1, <1>3
<1>5. writeBuff(s, d, data) = IF left = 0 THEN once ELSE writePart(once, d, rest)
  BY DEF writeBuff
<1>6. ASSUME NEW m \in 0 .. size
      PROVE  SubSeq(data, 1, m) \in Seq(Data) /\ Len(SubSeq(data, 1, m)) = m
  <2>1. \A i \in 1 .. m : data[i] \in Data
    BY <1>1, ElementOfSeq
  <2>2. QED
    BY <1>1, <2>1, SubSeqProperties
<1>7. /\ part \in Seq(Data) /\ Len(part) = n
      /\ rest \in Seq(Data) /\ Len(rest) = left
  BY <1>3, <1>4, <1>6
<1>8. left = 0 => part = data
  BY <1>1, <1>3, SubSeqFull
<1> HIDE DEF n, part, left, rest, once
<1>9. Appended(s, writePart(s, d, part), d, part)
  <2>1. Len(part) > 0 \/ s.dataWrote[d] > 0
    BY <1>1, <1>3, <1>7
  <2>2. QED
    BY <1>7, <2>1, PartAppends
<1>10. CASE left = 0
  BY <1>5, <1>8, <1>9, <1>10 DEF once
<1>11. CASE left # 0
  <2>1. left > 0 /\ n > 0 /\ w + size > SUPERSECTORLENGTH /\ n + left = size
    BY <1>1, <1>3, <1>4, <1>11 DEF left
  <2>2. Appended(s, once, d, part)
    BY <1>9 DEF once
  <2>3. IsSpcap(once)
    BY <2>2 DEF Appended
  <2>4. Appended(once, writePart(once, d, rest), d, rest)
    BY <1>7, <2>1, <2>3, PartAppends
  <2>5. PICK t : t = writePart(once, d, rest)
    OBVIOUS
  <2>6. Appended(s, t, d, part \o rest)
    BY <1>7, <2>2, <2>4, <2>5, AppendedTwice
  <2>7. Len(part \o rest) = size
    BY <1>1, <1>3, <1>4, <1>7, <2>1, ConcatProperties
  <2>8. ~(s.dataWrote[d] + Len(data) < SUPERSECTORLENGTH)
    BY <1>1, <2>1
  <2>9. Appended(s, t, d, data)
    BY <2>6, <2>7, <2>8 DEF Appended
  <2>10. QED
    BY <1>5, <1>11, <2>5, <2>9
<1>12. QED
  BY <1>10, <1>11

\* A packet goes to one disk, its header before its payload.
LEMMA PacketAppends ==
    ASSUME NEW s, IsSpcap(s), NEW d \in Disks, NEW k \in 0 .. MaxPackets, NEW p \in Packets
    PROVE  Appended(s, afterPkt(s, d, k, p), d, HeaderData(k) \o PayloadData(k, p))
<1>1. /\ HeaderData(k) \in Seq(Data) /\ Len(HeaderData(k)) = HEADER
      /\ PayloadData(k, p) \in Seq(Data) /\ Len(PayloadData(k, p)) = p.len
  BY HeaderSeq, PayloadSeq
<1>2. /\ HEADER \in Nat /\ 0 < HEADER /\ HEADER <= SUPERSECTORLENGTH
      /\ p.len \in Nat /\ p.len <= SUPERSECTORLENGTH
  BY Lengths
<1>3. PICK t : t = writeBuff(s, d, HeaderData(k))
  OBVIOUS
<1>4. Appended(s, t, d, HeaderData(k))
  BY <1>1, <1>2, <1>3, BuffAppends
<1>5. IsSpcap(t) /\ t.dataWrote[d] > 0
  <2>1. t.dataWrote = [s.dataWrote EXCEPT ![d] = @ + HEADER]
    BY <1>1, <1>4 DEF Appended
  <2>2. s.dataWrote \in [Disks -> Nat]
    BY DEF IsSpcap
  <2>3. QED
    BY <1>2, <1>4, <2>1, <2>2 DEF Appended
<1>6. PICK u : u = writeBuff(t, d, PayloadData(k, p))
  OBVIOUS
<1>7. Appended(t, u, d, PayloadData(k, p))
  BY <1>1, <1>2, <1>5, <1>6, BuffAppends
<1>8. Appended(s, u, d, HeaderData(k) \o PayloadData(k, p))
  BY <1>1, <1>4, <1>7, AppendedTwice
<1>9. afterPkt(s, d, k, p) = u
  BY <1>3, <1>6 DEF afterPkt
<1>10. QED
  BY <1>8, <1>9

-----------------------------------------------------------------------------
(* Where a capture begins on its disks.                                    *)

\* Every disk has one of the super-sectors in a row that a capture gets, and begins there.
LEMMA FirstLbaOf ==
    ASSUME NEW start \in Nat, NEW d \in Disks
    PROVE  /\ FirstLba(start, d) \in Nat
           /\ \E i \in Disks :
                /\ super_getdisk(NumDisks, start + i * SUPERSECTORNUM) = d
                /\ FirstLba(start, d) = super_getdisklba(NumDisks, start + i * SUPERSECTORNUM)
                /\ FirstLba(start, d) =
                     SUPERSECTORNUM * ((super_getid(start) + i) \div NumDisks)
                       + (start % SUPERSECTORNUM) + SUPERSECTORNUM
<1> DEFINE Has(i) == super_getdisk(NumDisks, start + i * SUPERSECTORNUM) = d
           c == CHOOSE i \in Disks : Has(i)
           x == start + c * SUPERSECTORNUM
<1>1. /\ NumDisks \in Nat \ {0} /\ SUPERSECTORNUM \in Nat \ {0} /\ Disks \subseteq Nat
      /\ super_getid(start) \in Nat /\ (start % SUPERSECTORNUM) \in Nat
  BY SpcapAssumption, SuperSectorAssumption, DivMod DEF Disks, super_getid
<1>2. \E i \in Disks : Has(i)
  <2>1. d \in 0 .. NumDisks - 1
    BY DEF Disks
  <2>2. PICK i \in 0 .. NumDisks - 1 : (super_getid(start) + i) % NumDisks = d
    BY <1>1, <2>1, SomeOfARow
  <2>3. super_getid(start + i * SUPERSECTORNUM) = super_getid(start) + i
    BY <2>2, SuperShift
  <2>4. QED
    BY <2>2, <2>3 DEF super_getdisk, Disks
<1> HIDE DEF Has
<1>3. c \in Disks /\ Has(c)
  BY <1>2, Zenon
<1>4. FirstLba(start, d) = super_getdisklba(NumDisks, x)
  BY DEF FirstLba, Has
<1> HIDE DEF c
<1>5. /\ x \in Nat /\ super_getid(x) = super_getid(start) + c
      /\ (x % SUPERSECTORNUM) = (start % SUPERSECTORNUM)
  BY <1>1, <1>3, SuperShift
<1> HIDE DEF x
<1>6. super_getdisklba(NumDisks, x) =
        SUPERSECTORNUM * (super_getid(x) \div NumDisks) + (x % SUPERSECTORNUM) + SUPERSECTORNUM
  BY <1>1, <1>5, DiskLba
<1>7. super_getid(x) \in Nat /\ super_getid(x) \div NumDisks \in Nat
  <2>1. super_getid(x) \in Nat
    BY <1>1, <1>3, <1>5
  <2>2. QED
    BY <1>1, <2>1, DivMod
<1>8. FirstLba(start, d) \in Nat
  <2>1. SUPERSECTORNUM * (super_getid(x) \div NumDisks) \in Nat
    BY <1>1, <1>7
  <2>2. QED
    BY <1>1, <1>4, <1>5, <1>6, <2>1
<1>9. FirstLba(start, d) = SUPERSECTORNUM * ((super_getid(start) + c) \div NumDisks)
                             + (start % SUPERSECTORNUM) + SUPERSECTORNUM
  BY <1>4, <1>5, <1>6
<1>10. QED
  BY <1>3, <1>4, <1>8, <1>9 DEF Has, x

\* No disk has two of them.
LEMMA FirstLbaIs ==
    ASSUME NEW start \in Nat, NEW i \in Disks
    PROVE  /\ super_getdisk(NumDisks, start + i * SUPERSECTORNUM) \in Disks
           /\ FirstLba(start, super_getdisk(NumDisks, start + i * SUPERSECTORNUM)) =
                super_getdisklba(NumDisks, start + i * SUPERSECTORNUM)
<1> DEFINE k == super_getid(start)
           d == super_getdisk(NumDisks, start + i * SUPERSECTORNUM)
<1>1. NumDisks \in Nat \ {0} /\ k \in Nat /\ i \in Nat /\ i < NumDisks
  BY SpcapAssumption, SuperSectorAssumption, DivMod DEF Disks, super_getid
<1>2. \A h \in Disks : super_getid(start + h * SUPERSECTORNUM) = k + h
  BY SuperShift DEF Disks
<1> HIDE DEF k
<1>3. d = (k + i) % NumDisks
  BY <1>2 DEF super_getdisk
<1>4. d \in Disks
  <2>1. k + i \in Nat
    BY <1>1
  <2>2. QED
    BY <1>1, <1>3, <2>1, DivMod DEF Disks
<1> HIDE DEF d
<1>5. PICK h \in Disks :
        /\ super_getdisk(NumDisks, start + h * SUPERSECTORNUM) = d
        /\ FirstLba(start, d) = super_getdisklba(NumDisks, start + h * SUPERSECTORNUM)
  BY <1>4, FirstLbaOf
<1>6. (k + h) % NumDisks = (k + i) % NumDisks
  BY <1>2, <1>3, <1>5 DEF super_getdisk
<1>7. h = i
  <2> DEFINE m == k - 1
  <2>1. h \in Nat /\ h < NumDisks
    BY <1>1 DEF Disks
  <2>2. /\ m \in Int /\ 0 <= m + 1
        /\ k + h \in m + 1 .. m + NumDisks /\ k + i \in m + 1 .. m + NumDisks
    BY <1>1, <2>1
  <2> HIDE DEF m
  <2>3. k + h = k + i
    BY <1>1, <1>6, <2>2, OneOfARow
  <2>4. QED
    BY <1>1, <2>1, <2>3
<1>8. QED
  BY <1>4, <1>5, <1>7 DEF d

\* A capture that begins at a super-sector ends, on every disk, before one begins that is
\* behind its blocks.
LEMMA RowsApart ==
    ASSUME NEW a \in Nat, NEW b \in Nat, NEW d \in Disks,
           a % SUPERSECTORNUM = 0, a + NumDisks * SUPERSECTORNUM <= b
    PROVE  FirstLba(a, d) + SUPERSECTORNUM <= FirstLba(b, d)
<1> DEFINE S == SUPERSECTORNUM
           n == NumDisks
           k == super_getid(a)
           m == super_getid(b)
           r == b % S
<1>1. S \in Nat \ {0} /\ n \in Nat \ {0} /\ k \in Nat /\ m \in Nat /\ r \in 0 .. S - 1
      /\ a = S * k /\ b = S * m + r
  <2>1. S \in Nat \ {0} /\ n \in Nat \ {0}
    BY SpcapAssumption, SuperSectorAssumption
  <2>2. a \div S \in Nat /\ a = S * (a \div S) + (a % S)
    BY <2>1, DivMod
  <2>3. b \div S \in Nat /\ r \in 0 .. S - 1 /\ b = S * (b \div S) + r
    BY <2>1, DivMod
  <2>4. S * (a \div S) \in Nat
    BY <2>1, <2>2
  <2>5. QED
    BY <2>1, <2>2, <2>3, <2>4 DEF super_getid
<1>2. \A c \in Disks : c \in Nat /\ c < n
  BY <1>1 DEF Disks
<1>3. PICK i \in Disks :
        /\ super_getdisk(n, a + i * S) = d
        /\ FirstLba(a, d) = S * ((k + i) \div n) + (a % S) + S
  BY FirstLbaOf
<1>4. PICK j \in Disks :
        /\ super_getdisk(n, b + j * S) = d
        /\ FirstLba(b, d) = S * ((m + j) \div n) + r + S
  BY FirstLbaOf
<1>5. (k + i) % n = d /\ (m + j) % n = d
  <2>1. super_getid(a + i * S) = k + i /\ super_getid(b + j * S) = m + j
    BY <1>2, SuperShift
  <2>2. QED
    BY <1>3, <1>4, <2>1 DEF super_getdisk
<1>6. (a % S) = 0
  OBVIOUS
<1> DEFINE p == (k + i) \div n
           q == (m + j) \div n
<1>7. p \in Nat /\ q \in Nat /\ k + i = n * p + d /\ m + j = n * q + d
  <2> DEFINE x == k + i
             y == m + j
  <2>1. x \in Nat /\ y \in Nat
    BY <1>1, <1>2
  <2>2. (x % n) = d /\ (y % n) = d
    BY <1>5
  <2> HIDE DEF x, y
  <2>3. /\ x \div n \in Nat /\ x = n * (x \div n) + (x % n)
        /\ y \div n \in Nat /\ y = n * (y \div n) + (y % n)
    BY <1>1, <2>1, DivMod
  <2>4. QED
    BY <2>2, <2>3 DEF x, y
<1>8. FirstLba(a, d) = S * p + S /\ FirstLba(b, d) = S * q + r + S /\ S * p \in Nat
  <2>1. S * p \in Nat
    BY <1>1, <1>7
  <2>2. QED
    BY <1>1, <1>3, <1>4, <1>6, <2>1
<1>9. a + n * S <= b
  OBVIOUS
<1> HIDE DEF S, n, k, m, r, p, q
<1>10. k + n <= m
  <2> SUFFICES ASSUME ~(k + n <= m)
               PROVE  FALSE
    OBVIOUS
  <2>1. PICK e \in Nat : k + n = m + 1 + e
    BY <1>1
  <2>2. S * (k + n) = S * k + n * S
    BY <1>1
  <2>3. S * (m + 1 + e) = S * m + S + S * e /\ S * e \in Nat /\ S * m \in Nat
    BY <1>1, <2>1
  <2>4. S * k + n * S <= S * m + r
    BY <1>1, <1>9
  <2>5. S * m + S + S * e <= S * m + r
    BY <2>1, <2>2, <2>3, <2>4
  <2>6. QED
    BY <1>1, <2>3, <2>5
<1>11. p < q
  <2> SUFFICES ASSUME ~(p < q)
               PROVE  FALSE
    OBVIOUS
  <2>1. PICK e \in Nat : p = q + e
    BY <1>7
  <2>2. n * p = n * q + n * e /\ n * e \in Nat /\ n * q \in Nat
    BY <1>1, <1>7, <2>1
  <2>3. d \in Nat /\ i \in Nat /\ i < n /\ j \in Nat
    BY <1>2
  <2>4. m + j <= k + i
    BY <1>7, <2>2, <2>3
  <2>5. QED
    BY <1>1, <1>10, <2>3, <2>4
<1>12. PICK e \in Nat : q = p + 1 + e
  BY <1>7, <1>11
<1>13. S * q = S * p + S + S * e /\ S * e \in Nat
  BY <1>1, <1>7, <1>12
<1>14. FirstLba(a, d) + S <= FirstLba(b, d)
  BY <1>1, <1>8, <1>13
<1>15. QED
  BY <1>14 DEF S

\* The next file begins behind all captures.
LEMMA NextBlockBehind ==
    ASSUME NEW gap \in Gaps, \A c \in captures : c.endBlock \in Nat,
           captures # {} => \E last \in captures : \A c \in captures : c.endBlock <= last.endBlock
    PROVE  /\ NextBlock(gap) \in Nat
           /\ \A c \in captures : c.endBlock <= NextBlock(gap)
<1> DEFINE ends == {c.endBlock : c \in captures} \cup {NumDisks * SUPERSECTORNUM}
           Last(e) == \A x \in ends : x <= e
           top == CHOOSE e \in ends : Last(e)
<1>1. NumDisks * SUPERSECTORNUM \in Nat /\ gap \in Nat
  BY SpcapAssumption, SuperSectorAssumption
<1>2. \E e \in ends : Last(e)
  <2>1. CASE captures = {}
    BY <1>1, <2>1
  <2>2. CASE captures # {}
    <3>1. PICK last \in captures : \A c \in captures : c.endBlock <= last.endBlock
      BY <2>2
    <3>2. CASE last.endBlock <= NumDisks * SUPERSECTORNUM
      <4>1. \A c \in captures : c.endBlock <= NumDisks * SUPERSECTORNUM
        BY <1>1, <3>1, <3>2
      <4>2. QED
        BY <1>1, <4>1
    <3>3. CASE ~(last.endBlock <= NumDisks * SUPERSECTORNUM)
      <4>1. NumDisks * SUPERSECTORNUM <= last.endBlock
        BY <1>1, <3>3
      <4>2. QED
        BY <3>1, <4>1
    <3>4. QED
      BY <3>2, <3>3
  <2>3. QED
    BY <2>1, <2>2
<1>3. ends \subseteq Nat /\ NextBlock(gap) = gap + top
  BY <1>1 DEF NextBlock
<1>4. \A c \in captures : c.endBlock \in ends
  OBVIOUS
<1> HIDE DEF ends
<1>5. top \in ends /\ \A x \in ends : x <= top
  <2> HIDE DEF Last
  <2>1. top \in ends /\ Last(top)
    BY <1>2, Zenon
  <2>2. QED
    BY <2>1 DEF Last
<1> HIDE DEF top
<1>6. QED
  BY <1>1, <1>3, <1>4, <1>5

-----------------------------------------------------------------------------
(* What is written to the disks.                                           *)

\* w is the write of the buffer of disk d that flushBuffs asks for.
IsFlush(s, d, w) ==
    /\ w.disk = d
    /\ w.lba = s.curlba[d]
    /\ w.data \in [0 .. SUPERSECTORLENGTH - 1 -> Data]
    /\ s.dataWrote[d] < SUPERSECTORLENGTH =>
         \A i \in 0 .. SUPERSECTORLENGTH - 1 : w.data[i] = s.buffs[d][i]

\* flushBuffs writes from the beginning of the super-sector that the pointer is in, and
\* all of it is in the buffer.
LEMMA FlushInside ==
    ASSUME NEW w \in Nat, w <= BUFFSIZE, (w % SUPERSECTORLENGTH) # 0
    PROVE  /\ w - (w % SUPERSECTORLENGTH) \in Nat
           /\ w - (w % SUPERSECTORLENGTH) + SUPERSECTORLENGTH <= BUFFSIZE
           /\ w # BUFFSIZE
<1> DEFINE S == SUPERSECTORLENGTH
           N == NUMBUFS
           q == w \div S
           r == w % S
<1>1. S \in Nat \ {0} /\ N \in Nat \ {0}
  BY Lengths, SpcapAssumption
<1>2. q \in Nat /\ r \in 0 .. S - 1 /\ w = S * q + r /\ r # 0
  BY <1>1, DivMod
<1>3. w <= S * N
  BY DEF BUFFSIZE
<1> HIDE DEF S, N, q, r
<1>4. S * q \in Nat
  BY <1>1, <1>2
<1>5. q < N
  <2> SUFFICES ASSUME ~(q < N)
               PROVE  FALSE
    OBVIOUS
  <2>1. PICK e \in Nat : q = N + e
    BY <1>1, <1>2
  <2>2. S * q = S * N + S * e /\ S * e \in Nat /\ S * N \in Nat
    BY <1>1, <2>1
  <2>3. QED
    BY <1>2, <1>3, <2>2
<1>6. PICK e \in Nat : N = q + 1 + e
  BY <1>1, <1>2, <1>5
<1>7. S * N = S * q + S + S * e /\ S * e \in Nat
  BY <1>1, <1>2, <1>6
<1>8. w - r \in Nat /\ w - r + S <= S * N /\ w # S * N
  BY <1>1, <1>2, <1>4, <1>7
<1>9. QED
  BY <1>8 DEF BUFFSIZE, S, N, r

LEMMA FlushIs ==
    ASSUME NEW s, IsSpcap(s), NEW d \in Disks,
           s.dataWrote[d] <= BUFFSIZE, (s.dataWrote[d] % SUPERSECTORLENGTH) # 0
    PROVE  LET t == Flush(s, d, FlushFrom(s, d))
           IN  /\ DOMAIN t = Fields
               /\ t.dataWrote = s.dataWrote /\ t.currPtr = s.dataWrote /\ t.buffs = s.buffs
               /\ t.curlba = [s.curlba EXCEPT ![d] = @ + SUPERSECTORNUM]
               /\ \E w : t.out = <<w>> /\ IsFlush(s, d, w)
<1> DEFINE from == FlushFrom(s, d)
           t == Flush(s, d, from)
           w == [disk |-> d, lba |-> s.curlba[d],
                 data |-> [i \in 0 .. SUPERSECTORLENGTH - 1 |-> s.buffs[d][from + i]]]
<1>1. /\ DOMAIN s = Fields /\ s.dataWrote \in [Disks -> Nat] /\ s.currPtr = s.dataWrote
      /\ s.curlba \in [Disks -> Nat] /\ s.buffs \in [Disks -> [0 .. BUFFSIZE - 1 -> Data]]
      /\ s.out = <<>>
  BY DEF IsSpcap
<1>2. from = s.dataWrote[d] - (s.dataWrote[d] % SUPERSECTORLENGTH)
  BY <1>1 DEF FlushFrom
<1>3. /\ s.dataWrote[d] \in Nat
      /\ from \in Nat /\ from + SUPERSECTORLENGTH <= BUFFSIZE /\ s.dataWrote[d] # BUFFSIZE
  BY <1>1, <1>2, FlushInside
<1>4. s.dataWrote[d] < SUPERSECTORLENGTH => from = 0
  BY <1>2, <1>3, UsedFacts
<1> HIDE DEF from
<1>5. t.out = <<w>>
  <2>1. t.out = Append(s.out, w)
    BY <1>1 DEF Flush, Fields
  <2> HIDE DEF t, w
  <2>2. Append(<<>>, w) = <<w>>
    OBVIOUS
  <2>3. QED
    BY <1>1, <2>1, <2>2
<1>6. /\ DOMAIN t = Fields
      /\ t.dataWrote = s.dataWrote /\ t.buffs = s.buffs
      /\ t.curlba = [s.curlba EXCEPT ![d] = @ + SUPERSECTORNUM]
      /\ t.currPtr = [s.currPtr EXCEPT ![d] = IF @ = BUFFSIZE THEN 0 ELSE @]
  BY <1>1 DEF Flush, Fields
<1>7. t.currPtr = s.dataWrote
  BY <1>1, <1>3, <1>6
<1>8. IsFlush(s, d, w)
  <2>1. w.data \in [0 .. SUPERSECTORLENGTH - 1 -> Data]
    <3>1. ASSUME NEW i \in 0 .. SUPERSECTORLENGTH - 1
          PROVE  s.buffs[d][from + i] \in Data
      <4>1. from + i \in 0 .. BUFFSIZE - 1
        BY <1>3, BufferSize, Lengths
      <4>2. QED
        BY <1>1, <4>1
    <3>2. QED
      BY <3>1
  <2>2. ASSUME s.dataWrote[d] < SUPERSECTORLENGTH, NEW i \in 0 .. SUPERSECTORLENGTH - 1
        PROVE  w.data[i] = s.buffs[d][i]
    <3>1. from + i = i
      BY <1>4, <2>2, Lengths
    <3>2. QED
      BY <3>1
  <2>3. w.disk = d /\ w.lba = s.curlba[d]
    OBVIOUS
  <2> HIDE DEF w
  <2>4. QED
    BY <2>1, <2>2, <2>3 DEF IsFlush
<1> HIDE DEF t, w
<1>9. \E v : t.out = <<v>> /\ IsFlush(s, d, v)
  BY <1>5, <1>8
<1>10. QED
  BY <1>6, <1>7, <1>9 DEF t, from

\* The units of a super-sector.
LEMMA SuperSectorUnits ==
    ASSUME NEW lba \in Nat
    PROVE  /\ lba * SECTORLENGTH \in Nat
           /\ (lba + SUPERSECTORNUM) * SECTORLENGTH = lba * SECTORLENGTH + SUPERSECTORLENGTH
  BY SpcapAssumption, SuperSectorAssumption DEF SUPERSECTORLENGTH

LEMMA SectorsGrow ==
    ASSUME NEW a \in Nat, NEW b \in Nat, a <= b
    PROVE  a * SECTORLENGTH <= b * SECTORLENGTH
<1>1. PICK e \in Nat : b = a + e
  OBVIOUS
<1>2. b * SECTORLENGTH = a * SECTORLENGTH + e * SECTORLENGTH /\ e * SECTORLENGTH \in Nat
      /\ a * SECTORLENGTH \in Nat
  BY <1>1, SpcapAssumption
<1>3. QED
  BY <1>2

\* A super-sector that is on the disk.
LEMMA UnitOnDisk ==
    ASSUME NEW d \in Disks, NEW lba \in Nat, lba + SUPERSECTORNUM <= DiskSectors,
           NEW i \in 0 .. SUPERSECTORLENGTH - 1
    PROVE  <<d, lba * SECTORLENGTH + i>> \in Units
<1>1. /\ lba * SECTORLENGTH \in Nat
      /\ (lba + SUPERSECTORNUM) * SECTORLENGTH = lba * SECTORLENGTH + SUPERSECTORLENGTH
  BY SuperSectorUnits
<1>2. lba + SUPERSECTORNUM \in Nat /\ DiskSectors \in Nat
  BY SpcapAssumption, SuperSectorAssumption
<1>3. (lba + SUPERSECTORNUM) * SECTORLENGTH <= DiskSectors * SECTORLENGTH
  BY <1>2, SectorsGrow
<1>4. DiskSectors * SECTORLENGTH \in Nat
  BY <1>2, SpcapAssumption
<1> DEFINE x == lba * SECTORLENGTH
           y == DiskSectors * SECTORLENGTH
<1> HIDE DEF x, y
<1>5. x \in Nat /\ y \in Nat /\ x + SUPERSECTORLENGTH <= y
  BY <1>1, <1>3, <1>4 DEF x, y
<1>6. x + i \in 0 .. y - 1
  BY <1>5, Lengths
<1>7. QED
  BY <1>6 DEF Units, x, y

\* What a disk holds after a write that it accepts.
LEMMA StoredIs ==
    ASSUME disk \in [Units -> Data], NEW s, NEW d \in Disks, NEW w, IsFlush(s, d, w),
           s.curlba[d] \in Nat
    PROVE  /\ Stored(w) \in [Units -> Data]
           /\ \A u \in Units : u \notin SuperSectorAt(d, w.lba) => Stored(w)[u] = disk[u]
           /\ w.lba + SUPERSECTORNUM <= DiskSectors =>
                \A i \in 0 .. SUPERSECTORLENGTH - 1 :
                  Stored(w)[<<d, w.lba * SECTORLENGTH + i>>] = w.data[i]
<1> DEFINE x == w.lba * SECTORLENGTH
<1>1. /\ w.disk = d /\ w.lba \in Nat
      /\ w.data \in [0 .. SUPERSECTORLENGTH - 1 -> Data]
  BY DEF IsFlush
<1>2. /\ x \in Nat
      /\ SuperSectorAt(d, w.lba) = {d} \X (x .. x + SUPERSECTORLENGTH - 1)
  <2> DEFINE y == (w.lba + SUPERSECTORNUM) * SECTORLENGTH
  <2>1. x \in Nat /\ y = x + SUPERSECTORLENGTH
    BY <1>1, SuperSectorUnits
  <2>2. SuperSectorAt(d, w.lba) = {d} \X (x .. y - 1)
    BY DEF SuperSectorAt
  <2> HIDE DEF x, y
  <2>3. QED
    BY <2>1, <2>2, Lengths
<1>3. w.lba + SUPERSECTORNUM \in Nat /\ DiskSectors \in Nat
  BY <1>1, SpcapAssumption, SuperSectorAssumption
<1>4. CASE w.lba + SUPERSECTORNUM > DiskSectors
  <2>1. Stored(w) = disk
    BY <1>4 DEF Stored
  <2>2. ~(w.lba + SUPERSECTORNUM <= DiskSectors)
    BY <1>3, <1>4
  <2>3. QED
    BY <2>1, <2>2
<1>5. CASE ~(w.lba + SUPERSECTORNUM > DiskSectors)
  <2>1. w.lba + SUPERSECTORNUM <= DiskSectors
    BY <1>3, <1>5
  <2>2. Stored(w) = [u \in Units |-> IF u \in SuperSectorAt(d, w.lba) THEN w.data[u[2] - x]
                                                                      ELSE disk[u]]
    BY <1>1, <1>5 DEF Stored
  <2>3. \A i \in 0 .. SUPERSECTORLENGTH - 1 : <<d, x + i>> \in Units
    BY <1>1, <2>1, UnitOnDisk
  <2> HIDE DEF x
  <2>4. ASSUME NEW u \in Units
        PROVE  (IF u \in SuperSectorAt(d, w.lba) THEN w.data[u[2] - x] ELSE disk[u]) \in Data
    <3>1. CASE u \in SuperSectorAt(d, w.lba)
      <4>1. u[2] \in x .. x + SUPERSECTORLENGTH - 1
        BY <1>2, <3>1
      <4>2. u[2] - x \in 0 .. SUPERSECTORLENGTH - 1
        BY <1>2, <4>1, Lengths
      <4>3. QED
        BY <1>1, <3>1, <4>2
    <3>2. CASE u \notin SuperSectorAt(d, w.lba)
      BY <3>2
    <3>3. QED
      BY <3>1, <3>2
  <2>5. Stored(w) \in [Units -> Data]
    BY <2>2, <2>4
  <2>6. ASSUME NEW i \in 0 .. SUPERSECTORLENGTH - 1
        PROVE  Stored(w)[<<d, x + i>>] = w.data[i]
    <3>1. x + i \in x .. x + SUPERSECTORLENGTH - 1 /\ x + i - x = i
      BY <1>2, Lengths
    <3>2. <<d, x + i>> \in SuperSectorAt(d, w.lba)
      BY <1>2, <3>1
    <3>3. PICK u \in Units : u = <<d, x + i>>
      BY <2>3
    <3>4. u[2] - x = i
      <4>1. u[2] = x + i
        BY <3>3
      <4>2. QED
        BY <1>2, <4>1, Lengths
    <3>5. Stored(w)[u] = w.data[u[2] - x]
      BY <2>2, <3>2, <3>3
    <3>6. QED
      BY <3>3, <3>4, <3>5
  <2>7. QED
    BY <2>2, <2>5, <2>6 DEF x
<1>6. QED
  BY <1>4, <1>5

\* Writes when there is nothing to write.
LEMMA WritesNone ==
    ASSUME NEW s, IsSpcap(s), Writes(s)
    PROVE  /\ IsSpcap(sp') /\ sp'.dataWrote = s.dataWrote
           /\ sp'.curlba = s.curlba /\ sp'.buffs = s.buffs
           /\ disk' = disk /\ file' = file /\ faults' = faults
<1>1. DOMAIN s = Fields /\ s.out = <<>> /\ sp' = [s EXCEPT !.out = <<>>]
  BY DEF IsSpcap, Writes
<1>2. /\ DOMAIN sp' = Fields /\ sp'.out = <<>>
      /\ sp'.dataWrote = s.dataWrote /\ sp'.currPtr = s.currPtr
      /\ sp'.curlba = s.curlba /\ sp'.buffs = s.buffs
  BY <1>1 DEF Fields
<1>3. IsSpcap(sp')
  BY <1>2 DEF IsSpcap
<1>4. DOMAIN s.out = {}
  BY <1>1
<1>5. disk' = disk /\ file' = file /\ faults' = faults
  BY <1>4 DEF Writes
<1>6. QED
  BY <1>2, <1>3, <1>5

\* Writes of one super-sector.
LEMMA WritesOne ==
    ASSUME NEW s, NEW w, DOMAIN s = Fields, s.out = <<w>>, Writes(s)
    PROVE  /\ DOMAIN sp' = Fields /\ sp'.out = <<>>
           /\ sp'.dataWrote = s.dataWrote /\ sp'.currPtr = s.currPtr
           /\ sp'.curlba = s.curlba /\ sp'.buffs = s.buffs
           /\ \/ /\ disk' = Stored(w) /\ faults' = faults
                 /\ file' = [file EXCEPT !.endBlock = @ + SUPERSECTORNUM,
                                         !.intact = @ /\ w.lba + SUPERSECTORNUM <= DiskSectors]
              \/ /\ disk' = disk /\ faults < MaxFaults /\ faults' = faults + 1
                 /\ file' = [file EXCEPT !.endBlock = @ + SUPERSECTORNUM, !.intact = FALSE]
<1>1. sp' = [s EXCEPT !.out = <<>>]
  BY DEF Writes
<1>2. /\ DOMAIN sp' = Fields /\ sp'.out = <<>>
      /\ sp'.dataWrote = s.dataWrote /\ sp'.currPtr = s.currPtr
      /\ sp'.curlba = s.curlba /\ sp'.buffs = s.buffs
  BY <1>1 DEF Fields
<1>3. s.out # <<>> /\ DOMAIN s.out = {1} /\ s.out[1] = w
  OBVIOUS
<1>4. PICK i \in DOMAIN s.out :
        \/ /\ disk' = Stored(s.out[i]) /\ faults' = faults
           /\ file' = [file EXCEPT !.endBlock = @ + SUPERSECTORNUM,
                                   !.intact = @ /\ s.out[i].lba + SUPERSECTORNUM <= DiskSectors]
        \/ /\ disk' = disk /\ faults < MaxFaults /\ faults' = faults + 1
           /\ file' = [file EXCEPT !.endBlock = @ + SUPERSECTORNUM, !.intact = FALSE]
  BY <1>3 DEF Writes
<1>5. s.out[i] = w
  BY <1>3, <1>4
<1>6. QED
  BY <1>2, <1>4, <1>5

\* What is on a disk stays when something is written to another disk or behind it.
LEMMA StaysOnDisk ==
    ASSUME disk \in [Units -> Data], NEW s, NEW d \in Disks, NEW w, IsFlush(s, d, w),
           s.curlba[d] \in Nat, disk' = Stored(w) \/ disk' = disk,
           NEW start \in Nat, NEW str, NEW e \in Disks,
           str[e] \in Seq(Data), Len(str[e]) < SUPERSECTORLENGTH,
           OnDisk(start, str, e),
           e # d \/ FirstLba(start, e) + SUPERSECTORNUM <= w.lba
    PROVE  OnDisk(start, str, e)'
<1> DEFINE x == FirstLba(start, e) * SECTORLENGTH
<1>1. /\ FirstLba(start, e) \in Nat /\ FirstLba(start, e) + SUPERSECTORNUM <= DiskSectors
      /\ w.lba \in Nat /\ Len(str[e]) \in Nat /\ DOMAIN str[e] = 1 .. Len(str[e])
  BY FirstLbaOf, LenProperties DEF OnDisk, IsFlush
<1>2. ASSUME NEW j \in DOMAIN str[e]
      PROVE  disk'[<<e, x + j - 1>>] = str[e][j]
  <2>1. j - 1 \in 0 .. SUPERSECTORLENGTH - 1 /\ j \in Nat
    BY <1>1, Lengths
  <2>2. x \in Nat
    BY <1>1, SuperSectorUnits
  <2>3. <<e, x + (j - 1)>> \in Units
    BY <1>1, <2>1, UnitOnDisk
  <2>4. x + (j - 1) = x + j - 1
    BY <2>1, <2>2
  <2>5. <<e, x + j - 1>> \in Units
    BY <2>3, <2>4
  <2>6. <<e, x + j - 1>> \notin SuperSectorAt(d, w.lba)
    <3>1. CASE e # d
      BY <3>1 DEF SuperSectorAt
    <3>2. CASE FirstLba(start, e) + SUPERSECTORNUM <= w.lba
      <4>1. (FirstLba(start, e) + SUPERSECTORNUM) * SECTORLENGTH <= w.lba * SECTORLENGTH
        BY <1>1, <3>2, SectorsGrow, SuperSectorAssumption
      <4>2. (FirstLba(start, e) + SUPERSECTORNUM) * SECTORLENGTH = x + SUPERSECTORLENGTH
            /\ w.lba * SECTORLENGTH \in Nat
        BY <1>1, SuperSectorUnits
      <4> DEFINE y == w.lba * SECTORLENGTH
                 z == (w.lba + SUPERSECTORNUM) * SECTORLENGTH - 1
      <4>3. x + SUPERSECTORLENGTH <= y /\ y \in Nat
        BY <4>1, <4>2
      <4>4. SuperSectorAt(d, w.lba) = {d} \X (y .. z)
        BY DEF SuperSectorAt
      <4> HIDE DEF x, y, z
      <4>5. ~(y <= x + j - 1)
        BY <2>1, <2>2, <4>3, Lengths
      <4>6. x + j - 1 \notin y .. z
        BY <4>5
      <4>7. QED
        BY <4>4, <4>6
    <3>3. QED
      BY <3>1, <3>2
  <2>7. disk'[<<e, x + j - 1>>] = disk[<<e, x + j - 1>>]
    <3> HIDE DEF x
    <3>1. CASE disk' = disk
      BY <3>1
    <3>2. CASE disk' = Stored(w)
      BY <2>5, <2>6, <3>2, StoredIs
    <3>3. QED
      BY <3>1, <3>2
  <2>8. disk[<<e, x + j - 1>>] = str[e][j]
    BY DEF OnDisk
  <2>9. QED
    BY <2>7, <2>8
<1>3. QED
  BY <1>1, <1>2 DEF OnDisk

-----------------------------------------------------------------------------
(* What the buffers hold.                                                  *)

LEMMA HeldGrows ==
    ASSUME NEW s, IsSpcap(s), NEW t, NEW d \in Disks, NEW data \in Seq(Data),
           Appended(s, t, d, data),
           NEW f \in [Disks -> Seq(Data)], Held(s, f)
    PROVE  LET g == [f EXCEPT ![d] = @ \o data]
           IN  /\ g \in [Disks -> Seq(Data)]
               /\ Held(t, g)
               /\ Short(g) => Short(f)
<1> DEFINE g == [f EXCEPT ![d] = @ \o data]
           n == Len(data)
<1>1. n \in Nat /\ \A e \in Disks : Len(f[e]) \in Nat /\ DOMAIN f[e] = 1 .. Len(f[e])
  BY LenProperties
<1>2. /\ f[d] \o data \in Seq(Data)
      /\ Len(f[d] \o data) = Len(f[d]) + n
      /\ \A j \in 1 .. Len(f[d]) + n :
           (f[d] \o data)[j] = IF j <= Len(f[d]) THEN f[d][j] ELSE data[j - Len(f[d])]
  <2>1. f[d] \in Seq(Data)
    OBVIOUS
  <2>2. QED
    BY <2>1, ConcatProperties
<1>3. /\ g \in [Disks -> Seq(Data)] /\ g[d] = f[d] \o data
      /\ \A e \in Disks \ {d} : g[e] = f[e]
  BY <1>2
<1>4. /\ s.dataWrote \in [Disks -> Nat]
      /\ t.dataWrote = [s.dataWrote EXCEPT ![d] = @ + n]
      /\ \A e \in Disks \ {d} : t.buffs[e] = s.buffs[e]
  BY DEF IsSpcap, Appended
<1> HIDE DEF g
<1>5. ASSUME NEW e \in Disks
      PROVE  /\ Len(g[e]) = t.dataWrote[e]
             /\ t.dataWrote[e] < SUPERSECTORLENGTH =>
                  \A j \in DOMAIN g[e] : t.buffs[e][j - 1] = g[e][j]
  <2>1. CASE e # d
    <3>1. g[e] = f[e] /\ t.buffs[e] = s.buffs[e] /\ t.dataWrote[e] = s.dataWrote[e]
      BY <1>3, <1>4, <2>1
    <3>2. /\ Len(f[e]) = s.dataWrote[e]
          /\ s.dataWrote[e] < SUPERSECTORLENGTH =>
               \A j \in DOMAIN f[e] : s.buffs[e][j - 1] = f[e][j]
      BY DEF Held
    <3>3. QED
      BY <3>1, <3>2
  <2>2. CASE e = d
    <3> DEFINE w == s.dataWrote[d]
    <3>1. w \in Nat /\ Len(f[d]) = w /\ t.dataWrote[d] = w + n
      BY <1>4 DEF Held
    <3>2. Len(g[d]) = w + n /\ DOMAIN g[d] = 1 .. w + n
      <4>1. Len(g[d]) = w + n
        BY <1>2, <1>3, <3>1
      <4>2. g[d] \in Seq(Data)
        BY <1>3
      <4>3. QED
        BY <4>1, <4>2, LenProperties
    <3>3. ASSUME w + n < SUPERSECTORLENGTH, NEW j \in 1 .. w + n
          PROVE  t.buffs[d][j - 1] = g[d][j]
      <4>1. w < SUPERSECTORLENGTH
        BY <1>1, <3>1, <3>3, Lengths
      <4>2. /\ \A i \in 0 .. w - 1 : t.buffs[d][i] = s.buffs[d][i]
            /\ \A i \in 1 .. n : t.buffs[d][w + i - 1] = data[i]
        BY <3>3 DEF Appended
      <4>3. \A i \in 1 .. w : s.buffs[d][i - 1] = f[d][i]
        BY <1>1, <3>1, <4>1 DEF Held
      <4>4. CASE j <= w
        <5>1. j \in 1 .. w /\ j - 1 \in 0 .. w - 1
          BY <3>1, <4>4
        <5>2. g[d][j] = f[d][j]
          BY <1>2, <1>3, <3>1, <4>4
        <5>3. QED
          BY <4>2, <4>3, <5>1, <5>2
      <4>5. CASE ~(j <= w)
        <5>1. j - w \in 1 .. n /\ w + (j - w) - 1 = j - 1
          BY <1>1, <3>1, <4>5
        <5>2. g[d][j] = data[j - w]
          BY <1>2, <1>3, <3>1, <4>5
        <5>3. t.buffs[d][w + (j - w) - 1] = data[j - w]
          BY <4>2, <5>1
        <5>4. QED
          BY <5>1, <5>2, <5>3
      <4>6. QED
        BY <4>4, <4>5
    <3>4. QED
      BY <2>2, <3>1, <3>2, <3>3
  <2>3. QED
    BY <2>1, <2>2
<1>6. ASSUME Short(g)
      PROVE  Short(f)
  <2>1. ASSUME NEW e \in Disks
        PROVE  Len(f[e]) < SUPERSECTORLENGTH
    <3>1. Len(g[e]) < SUPERSECTORLENGTH
      BY <1>6 DEF Short
    <3>2. Len(f[e]) \in Nat /\ (Len(g[e]) = Len(f[e]) \/ Len(g[e]) = Len(f[e]) + n)
      BY <1>1, <1>2, <1>3
    <3>3. QED
      BY <1>1, <3>1, <3>2, Lengths
  <2>2. QED
    BY <2>1 DEF Short
<1>7. Held(t, g)
  BY <1>5 DEF Held
<1>8. QED
  BY <1>3, <1>6, <1>7 DEF g

-----------------------------------------------------------------------------
(* The balance of the disks.                                               *)

LEMMA SizesNat == \A size \in {0} \cup {p.len : p \in Packets} : size \in Nat
  BY Lengths

LEMMA DisksNotEmpty == 0 \in Disks
  BY SpcapAssumption DEF Disks

LEMMA LeastNat ==
    ASSUME NEW T \in SUBSET Nat, T # {}
    PROVE  \E x \in T : \A y \in T : x <= y
<1> DEFINE R == OpToRel(<, Nat)
<1>1. \A x, y \in Nat : <<x, y>> \in R <=> x < y
  BY DEF OpToRel
<1>2. IsWellFoundedOn(R, Nat)
  BY NatLessThanWellFounded, Zenon
<1> HIDE DEF R
<1>3. PICK x \in T : \A y \in T : <<y, x>> \notin R
  BY <1>2, WFMin
<1>4. ASSUME NEW y \in T PROVE x <= y
  <2>1. x \in Nat /\ y \in Nat OBVIOUS
  <2>2. ~ (y < x) BY <1>1, <1>3, <2>1
  <2> QED
    BY <2>1, <2>2
<1> QED
  BY <1>4

\* There is a first disk with the least data.
LEMMA DstDisk ==
    ASSUME NEW s, IsSpcap(s)
    PROVE  /\ spcapDstDisk(s) \in Disks
           /\ \A e \in Disks : s.dataWrote[spcapDstDisk(s)] <= s.dataWrote[e]
<1> DEFINE f == s.dataWrote
           First(d) == \A e \in Disks : f[d] <= f[e] /\ (e < d => f[d] < f[e])
<1>1. f \in [Disks -> Nat] /\ spcapDstDisk(s) = CHOOSE d \in Disks : First(d)
  BY DEF IsSpcap, spcapDstDisk
<1> HIDE DEF f
<1>2. PICK n \in Nat : n \in {f[d] : d \in Disks} /\ \A e \in Disks : n <= f[e]
  <2> DEFINE T == {f[d] : d \in Disks}
  <2>1. T \in SUBSET Nat /\ T # {} BY <1>1, DisksNotEmpty
  <2> HIDE DEF T
  <2>2. PICK n \in T : \A y \in T : n <= y BY <2>1, LeastNat
  <2> QED
    BY <2>1, <2>2 DEF T
<1>3. PICK d \in Disks : f[d] = n /\ \A e \in Disks : f[e] = n => d <= e
  <2> DEFINE T == {d \in Disks : f[d] = n}
  <2>1. T \in SUBSET Nat /\ T # {} BY <1>2 DEF Disks
  <2> HIDE DEF T
  <2>2. PICK d \in T : \A y \in T : d <= y BY <2>1, LeastNat
  <2> QED
    BY <2>2 DEF T
<1>4. First(d) BY <1>1, <1>2, <1>3 DEF Disks
<1> QED
  BY <1>1, <1>4 DEF f

\* One packet more on the disk with the least data keeps the disks within a packet.
LEMMA PacketKeepsBalance ==
    ASSUME NEW f, NEW g, NEW d \in Disks, NEW p \in Packets,
           f \in [Disks -> Nat], g = [f EXCEPT ![d] = @ + (HEADER + p.len)],
           \A e \in Disks : f[d] <= f[e],
           \A a, e \in Disks : \E size \in {0} \cup {q.len : q \in Packets} :
             f[a] <= f[e] + HEADER + size
    PROVE  \A a, e \in Disks : \E size \in {0} \cup {q.len : q \in Packets} :
             g[a] <= g[e] + HEADER + size
<1> DEFINE Sizes == {0} \cup {q.len : q \in Packets}
<1> SUFFICES ASSUME NEW a \in Disks, NEW e \in Disks
             PROVE  \E size \in Sizes : g[a] <= g[e] + HEADER + size
  OBVIOUS
<1>1. HEADER \in Nat /\ p.len \in Nat /\ p.len \in Sizes BY Lengths
<1>2. f[a] \in Nat /\ f[e] \in Nat /\ f[d] <= f[e] OBVIOUS
<1>3. f[e] <= g[e] BY <1>1, <1>2
<1>4. CASE a = d
  <2>1. g[a] = f[d] + (HEADER + p.len) BY <1>4
  <2>2. g[e] \in Nat BY <1>1, <1>2
  <2>3. g[a] <= g[e] + HEADER + p.len BY <2>1, <2>2, <1>1, <1>2, <1>3
  <2> QED
    BY <2>3, <1>1
<1>5. CASE a # d
  <2>1. PICK size \in Sizes : f[a] <= f[e] + HEADER + size OBVIOUS
  <2>2. size \in Nat BY SizesNat
  <2>3. g[a] = f[a] /\ g[e] \in Nat BY <1>1, <1>2, <1>5
  <2>4. g[a] <= g[e] + HEADER + size BY <2>1, <2>2, <2>3, <1>1, <1>2, <1>3
  <2> QED
    BY <2>4
<1> QED
  BY <1>4, <1>5

\* Where the loops of freeSpcap and flushBuffs go on.
LEMMA ContinueKeepsCur ==
    ASSUME cur \in Disks, NEW loop, NEW next, Continue(loop, next)
    PROVE  /\ cur' \in Disks
           /\ \/ pc' = loop /\ cur' = cur + 1
              \/ pc' = next /\ cur' = 0 /\ cur + 1 = NumDisks
  BY SpcapAssumption DEF Continue, Disks

-----------------------------------------------------------------------------
(* The invariant.                                                          *)

LEMMA NoSpcapIs ==
    /\ IsSpcap(NoSpcap) /\ NoStream \in [Disks -> Seq(Data)]
    /\ \A d \in Disks : NoSpcap.dataWrote[d] = 0 /\ Len(NoStream[d]) = 0
<1>1. NoData \in Data
  BY DEF Data
<1>2. NoBuffer \in [0 .. BUFFSIZE - 1 -> Data]
  BY <1>1 DEF NoBuffer
<1>3. IsSpcap(NoSpcap)
  BY <1>2 DEF NoSpcap, IsSpcap, Fields
<1>4. <<>> \in Seq(Data) /\ Len(<<>>) = 0
  OBVIOUS
<1>5. NoStream \in [Disks -> Seq(Data)] /\ \A d \in Disks : Len(NoStream[d]) = 0
  BY <1>4 DEF NoStream
<1>6. QED
  BY <1>3, <1>5 DEF NoSpcap

\* A capture begins, or none has begun.
LEMMA NothingHeld ==
    ASSUME NEW s, IsSpcap(s), \A d \in Disks : s.dataWrote[d] = 0
    PROVE  /\ Held(s, NoStream)
           /\ \A d \in Disks : s.dataWrote[d] <= BUFFSIZE
           /\ \A d, e \in Disks : \E size \in {0} \cup {p.len : p \in Packets} :
                s.dataWrote[d] <= s.dataWrote[e] + HEADER + size
<1>1. \A d \in Disks : NoStream[d] = <<>> /\ Len(NoStream[d]) = 0
  BY NoSpcapIs DEF NoStream
<1>2. Held(s, NoStream)
  BY <1>1 DEF Held
<1>3. 0 \in {0} \cup {p.len : p \in Packets}
  OBVIOUS
<1>4. \A d, e \in Disks : s.dataWrote[d] <= s.dataWrote[e] + HEADER + 0
  BY Lengths
<1>5. \A d \in Disks : s.dataWrote[d] <= BUFFSIZE
  BY BufferSize
<1>6. QED
  BY <1>2, <1>3, <1>4, <1>5

\* The captures are not touched.
LEMMA CapturesStay ==
    ASSUME CapturesOK, disk' = disk, captures' = captures,
           Active' => \A c \in captures : c.endBlock <= file'.startBlock
    PROVE  CapturesOK'
  BY Zenon DEF CapturesOK, OnDisk

LEMMA WriterInit == Init => WriterInv
<1> SUFFICES ASSUME Init
             PROVE  WriterInv
  OBVIOUS
<1>1. /\ disk = [u \in Units |-> NoData] /\ captures = {} /\ file = NoFile
      /\ sp = NoSpcap /\ stream = NoStream /\ pc = "off" /\ cur = 0
      /\ packets = 0 /\ faults = 0
  BY DEF Init
<1>2. IsSpcap(sp) /\ \A d \in Disks : sp.dataWrote[d] = 0
  BY <1>1, NoSpcapIs
<1>3. TypeOK
  <2>1. disk \in [Units -> Data]
    BY <1>1 DEF Data
  <2>2. file \in [startBlock : Nat, endBlock : Nat, intact : BOOLEAN]
    BY <1>1 DEF NoFile
  <2>3. packets \in 0 .. MaxPackets /\ faults \in 0 .. MaxFaults
    BY <1>1, SpcapAssumption
  <2>4. \A d \in Disks : sp.currPtr[d] <= BUFFSIZE
    BY <1>2, NothingHeld DEF IsSpcap
  <2>5. QED
    BY <1>1, <1>2, <2>1, <2>2, <2>3, <2>4, NoSpcapIs, DisksNotEmpty DEF TypeOK, IsSpcap
<1>4. Balanced /\ BuffersOK /\ FlushOK /\ CapturesOK
  BY <1>1 DEF Balanced, BuffersOK, FlushOK, CapturesOK, Active
<1>5. QED
  BY <1>2, <1>3, <1>4 DEF WriterInv

\* What the steps below use of the invariant.
LEMMA WriterParts ==
    ASSUME WriterInv
    PROVE  /\ TypeOK /\ IsSpcap(sp) /\ Balanced /\ BuffersOK /\ FlushOK /\ CapturesOK
           /\ disk \in [Units -> Data] /\ captures \subseteq Capture
           /\ file \in [startBlock : Nat, endBlock : Nat, intact : BOOLEAN]
           /\ stream \in [Disks -> Seq(Data)] /\ cur \in Disks
           /\ packets \in 0 .. MaxPackets /\ faults \in 0 .. MaxFaults
           /\ \A c \in captures : /\ c.startBlock \in Nat /\ c.endBlock \in Nat
                                  /\ c.stream \in [Disks -> Seq(Data)]
<1>1. \A c \in Capture : /\ c.startBlock \in Nat /\ c.endBlock \in Nat
                         /\ c.stream \in [Disks -> Seq(Data)]
  BY DEF Capture
<1>2. QED
  BY <1>1 DEF WriterInv, TypeOK

LEMMA initSpcapKeeps ==
    ASSUME WriterInv, NEW gap \in Gaps, initSpcap(gap)
    PROVE  WriterInv'
<1> DEFINE lbas(b) == [d \in Disks |-> FirstLba(b, d)]
<1>1. PICK start : start = NextBlock(gap)
  OBVIOUS
<1>2. /\ pc = "off" /\ pc' = "pcap"
      /\ file' = [startBlock |-> start, endBlock |-> start, intact |-> TRUE]
      /\ sp' = [NoSpcap EXCEPT !.curlba = lbas(start)]
      /\ UNCHANGED <<disk, captures, stream, cur, packets, faults>>
  BY <1>1 DEF initSpcap
<1>3. start \in Nat /\ \A c \in captures : c.endBlock <= start
  <2>1. captures # {} => \E last \in captures : \A c \in captures : c.endBlock <= last.endBlock
    BY WriterParts DEF CapturesOK
  <2>2. QED
    BY <1>1, <2>1, WriterParts, NextBlockBehind
<1>4. IsSpcap(sp') /\ sp'.curlba = lbas(start) /\ \A d \in Disks : sp'.dataWrote[d] = 0
  <2>1. lbas(start) \in [Disks -> Nat]
    BY <1>3, FirstLbaOf
  <2>2. /\ DOMAIN NoSpcap = Fields /\ NoSpcap.out = <<>> /\ NoSpcap.currPtr = NoSpcap.dataWrote
        /\ NoSpcap.dataWrote \in [Disks -> Nat]
        /\ NoSpcap.buffs \in [Disks -> [0 .. BUFFSIZE - 1 -> Data]]
    BY NoSpcapIs DEF IsSpcap
  <2> HIDE DEF lbas
  <2>3. /\ DOMAIN sp' = Fields /\ sp'.out = <<>> /\ sp'.curlba = lbas(start)
        /\ sp'.currPtr = NoSpcap.currPtr /\ sp'.dataWrote = NoSpcap.dataWrote
        /\ sp'.buffs = NoSpcap.buffs
    BY <1>2, <2>2 DEF Fields
  <2>4. QED
    BY <2>1, <2>2, <2>3, NoSpcapIs DEF IsSpcap
<1>5. /\ Held(sp', NoStream) /\ \A d \in Disks : sp'.dataWrote[d] <= BUFFSIZE
      /\ \A d, e \in Disks : \E size \in {0} \cup {p.len : p \in Packets} :
           sp'.dataWrote[d] <= sp'.dataWrote[e] + HEADER + size
  <2>1. PICK s : s = sp'
    OBVIOUS
  <2>2. QED
    BY <1>4, <2>1, NothingHeld
<1>6. TypeOK'
  <2>1. file' \in [startBlock : Nat, endBlock : Nat, intact : BOOLEAN]
    BY <1>2, <1>3
  <2>2. \A d \in Disks : sp'.currPtr[d] <= BUFFSIZE
    BY <1>4, <1>5 DEF IsSpcap
  <2>3. QED
    BY <1>2, <1>4, <2>1, <2>2, WriterParts DEF TypeOK, IsSpcap
<1>7. Balanced'
  BY <1>5 DEF Balanced
<1>8. BuffersOK'
  <2>1. stream = NoStream
    BY <1>2, WriterParts DEF BuffersOK
  <2>2. Held(sp, stream)'
    BY <1>2, <1>5, <2>1 DEF Held
  <2>3. Trailed' = 0 /\ \A d \in Disks : ~(d < 0)
    BY <1>2 DEF Trailed, Disks
  <2>4. QED
    BY <1>2, <2>2, <2>3 DEF BuffersOK
<1>9. FlushOK'
  <2>1. Flushed' = 0 /\ \A d \in Disks : ~(d < 0)
    BY <1>2 DEF Flushed, Disks
  <2>2. file'.startBlock = start /\ file'.endBlock = start
    BY <1>2
  <2>3. start = start + 0 * SUPERSECTORNUM
    BY <1>3, SuperSectorAssumption
  <2>4. QED
    BY <1>4, <2>1, <2>2, <2>3 DEF FlushOK
<1>10. CapturesOK'
  BY <1>2, <1>3, WriterParts, CapturesStay
<1>11. IsSpcap(sp)'
  BY <1>4 DEF IsSpcap
<1>12. QED
  BY <1>6, <1>7, <1>8, <1>9, <1>10, <1>11 DEF WriterInv

\* A step that copies data to the buffer of disk d and writes nothing: what it keeps of
\* the invariant.
LEMMA CopyKeeps ==
    ASSUME WriterInv, pc \in {"pcap", "trailer"},
           NEW d \in Disks, NEW data \in Seq(Data), NEW s, Appended(sp, s, d, data),
           Writes(s), stream' = [stream EXCEPT ![d] = @ \o data], captures' = captures,
           pc' \in {"pcap", "trailer", "undefined"} \/ (pc' = "flush" /\ cur' = 0)
    PROVE  /\ IsSpcap(sp') /\ sp'.dataWrote = [sp.dataWrote EXCEPT ![d] = @ + Len(data)]
           /\ disk' = disk /\ file' = file /\ faults' = faults
           /\ stream' \in [Disks -> Seq(Data)]
           /\ Held(sp, stream)' /\ FlushOK' /\ CapturesOK'
<1>1. Active /\ Flushed = 0 /\ Flushed' = 0 /\ \A e \in Disks : ~(e < 0) /\ e >= 0
  BY DEF Active, Flushed, Disks
<1>2. IsSpcap(s)
  BY DEF Appended
<1>3. /\ IsSpcap(sp') /\ sp'.dataWrote = s.dataWrote
      /\ sp'.curlba = s.curlba /\ sp'.buffs = s.buffs
      /\ disk' = disk /\ file' = file /\ faults' = faults
  BY <1>2, WritesNone
<1>4. sp'.dataWrote = [sp.dataWrote EXCEPT ![d] = @ + Len(data)] /\ sp'.curlba = sp.curlba
  BY <1>3 DEF Appended
<1>5. IsSpcap(sp) /\ stream \in [Disks -> Seq(Data)] /\ Held(sp, stream)
  BY <1>1, WriterParts DEF BuffersOK
<1>6. PICK g : g = stream'
  OBVIOUS
<1>7. g \in [Disks -> Seq(Data)] /\ Held(s, g) /\ (Short(g) => Short(stream))
  BY <1>5, <1>6, HeldGrows
<1>8. Held(sp, stream)'
  BY <1>3, <1>6, <1>7 DEF Held
<1>9. FlushOK'
  <2>1. \A e \in Disks : sp'.curlba[e] = FirstLba(file'.startBlock, e)
    BY <1>1, <1>3, <1>4, WriterParts DEF FlushOK
  <2>2. Short(stream)' => file'.endBlock = file'.startBlock + 0 * SUPERSECTORNUM
    <3>1. Short(stream)' => Short(stream)
      BY <1>6, <1>7 DEF Short
    <3>2. QED
      BY <1>1, <1>3, <3>1, WriterParts DEF FlushOK
  <2>3. QED
    BY <1>1, <2>1, <2>2 DEF FlushOK
<1>10. CapturesOK'
  <2>1. \A c \in captures : c.endBlock <= file'.startBlock
    BY <1>1, <1>3, WriterParts DEF CapturesOK
  <2>2. QED
    BY <1>3, <2>1, WriterParts, CapturesStay
<1>11. QED
  BY <1>3, <1>4, <1>6, <1>7, <1>8, <1>9, <1>10

LEMMA writePktKeeps ==
    ASSUME WriterInv, NEW p \in Packets, writePkt(p)
    PROVE  WriterInv'
<1>1. PICK k : k = packets'
  OBVIOUS
<1>2. PICK d : d = spcapDstDisk(sp)
  OBVIOUS
<1>3. PICK s : s = afterPkt(sp, d, k, p)
  OBVIOUS
<1> DEFINE data == HeaderData(k) \o PayloadData(k, p)
<1>4. /\ pc = "pcap" /\ packets < MaxPackets /\ k = packets + 1 /\ Writes(s)
      /\ stream' = [stream EXCEPT ![d] = (@ \o HeaderData(k)) \o PayloadData(k, p)]
      /\ pc' = IF Overrun(s) THEN "undefined" ELSE "pcap"
      /\ captures' = captures /\ cur' = cur
  BY <1>1, <1>2, <1>3 DEF writePkt
<1>5. k \in 0 .. MaxPackets
  BY <1>4, WriterParts, SpcapAssumption
<1>6. d \in Disks /\ \A e \in Disks : sp.dataWrote[d] <= sp.dataWrote[e]
  BY <1>2, WriterParts, DstDisk
<1>7. /\ HeaderData(k) \in Seq(Data) /\ Len(HeaderData(k)) = HEADER
      /\ PayloadData(k, p) \in Seq(Data) /\ Len(PayloadData(k, p)) = p.len
  BY <1>5, HeaderSeq, PayloadSeq
<1>8. data \in Seq(Data) /\ Len(data) = HEADER + p.len
  <2>1. PICK h : h = HeaderData(k)
    OBVIOUS
  <2>2. PICK w : w = PayloadData(k, p)
    OBVIOUS
  <2>3. h \in Seq(Data) /\ w \in Seq(Data) /\ Len(h) = HEADER /\ Len(w) = p.len
    BY <1>7, <2>1, <2>2
  <2>4. h \o w \in Seq(Data) /\ Len(h \o w) = Len(h) + Len(w)
    BY <2>3, ConcatProperties, Zenon
  <2>5. QED
    BY <2>1, <2>2, <2>3, <2>4
<1>9. stream' = [stream EXCEPT ![d] = @ \o data]
  <2>1. stream[d] \in Seq(Data)
    BY <1>6, WriterParts
  <2>2. (stream[d] \o HeaderData(k)) \o PayloadData(k, p) = stream[d] \o data
    <3> DEFINE a == stream[d]
               b == HeaderData(k)
               c == PayloadData(k, p)
    <3>1. a \in Seq(Data) /\ b \in Seq(Data) /\ c \in Seq(Data)
      BY <1>7, <2>1
    <3> HIDE DEF a, b, c
    <3>2. (a \o b) \o c = a \o (b \o c)
      BY <3>1, ConcatAssociative
    <3>3. QED
      BY <3>2 DEF a, b, c
  <2> HIDE DEF data
  <2>3. QED
    BY <1>4, <2>2
<1>10. Appended(sp, s, d, data)
  BY <1>3, <1>5, <1>6, WriterParts, PacketAppends
<1> HIDE DEF data
<1>11. /\ IsSpcap(sp') /\ sp'.dataWrote = [sp.dataWrote EXCEPT ![d] = @ + Len(data)]
       /\ disk' = disk /\ file' = file /\ faults' = faults
       /\ stream' \in [Disks -> Seq(Data)]
       /\ Held(sp, stream)' /\ FlushOK' /\ CapturesOK'
  <2>1. pc' \in {"pcap", "trailer", "undefined"}
    BY <1>4
  <2>2. QED
    BY <1>4, <1>6, <1>8, <1>9, <1>10, <2>1, CopyKeeps
<1>12. TypeOK'
  <2>1. packets' \in 0 .. MaxPackets
    BY <1>1, <1>5
  <2>2. pc' # "undefined" => \A e \in Disks : sp'.currPtr[e] <= BUFFSIZE
    <3>1. sp'.currPtr = s.currPtr
      <4>1. sp' = [s EXCEPT !.out = <<>>] /\ DOMAIN s = Fields
        BY <1>4, <1>10 DEF Writes, Appended, IsSpcap
      <4>2. QED
        BY <4>1 DEF Fields
    <3>2. \A e \in Disks : s.currPtr[e] \in Nat
      BY <1>10 DEF Appended, IsSpcap
    <3>3. pc' # "undefined" => \A e \in Disks : ~(s.currPtr[e] > BUFFSIZE)
      BY <1>4 DEF Overrun
    <3>4. QED
      BY <3>1, <3>2, <3>3, BufferSize
  <2>3. QED
    BY <1>4, <1>11, <2>1, <2>2, WriterParts DEF TypeOK, IsSpcap
<1>13. Balanced'
  <2> DEFINE f == sp.dataWrote
             g == sp'.dataWrote
  <2>1. /\ f \in [Disks -> Nat] /\ g = [f EXCEPT ![d] = @ + (HEADER + p.len)]
        /\ \A e \in Disks : f[d] <= f[e]
        /\ \A a, e \in Disks : \E size \in {0} \cup {q.len : q \in Packets} :
             f[a] <= f[e] + HEADER + size
    BY <1>4, <1>6, <1>8, <1>11, WriterParts DEF IsSpcap, Balanced
  <2> HIDE DEF f, g
  <2>2. \A a, e \in Disks : \E size \in {0} \cup {q.len : q \in Packets} :
          g[a] <= g[e] + HEADER + size
    BY <1>6, <2>1, PacketKeepsBalance
  <2>3. QED
    BY <2>2 DEF Balanced, g
<1>14. BuffersOK'
  <2>1. Trailed' = 0 /\ \A e \in Disks : ~(e < 0)
    BY <1>4 DEF Trailed, Disks
  <2>2. QED
    BY <1>4, <1>11, <2>1 DEF BuffersOK
<1>15. IsSpcap(sp)'
  BY <1>11 DEF IsSpcap
<1>16. QED
  BY <1>11, <1>12, <1>13, <1>14, <1>15 DEF WriterInv

LEMMA freeSpcapKeeps ==
    ASSUME WriterInv, freeSpcap
    PROVE  WriterInv'
<1>1. /\ pc = "pcap" /\ pc' = "trailer" /\ cur' = 0
      /\ UNCHANGED <<disk, captures, file, sp, stream, packets, faults>>
  BY DEF freeSpcap
<1>2. /\ Active /\ Flushed = 0 /\ Flushed' = 0 /\ Trailed' = 0
      /\ \A e \in Disks : ~(e < 0) /\ e >= 0
  BY <1>1 DEF Active, Flushed, Trailed, Disks
<1>3. TypeOK'
  BY <1>1, WriterParts, DisksNotEmpty DEF TypeOK
<1>4. IsSpcap(sp)' /\ Balanced'
  BY <1>1, WriterParts DEF IsSpcap, Balanced
<1>5. BuffersOK'
  <2>1. Held(sp, stream)'
    BY <1>1, <1>2, WriterParts DEF BuffersOK, Held
  <2>2. QED
    BY <1>1, <1>2, <2>1 DEF BuffersOK
<1>6. FlushOK'
  <2>1. Short(stream)' <=> Short(stream)
    BY <1>1 DEF Short
  <2>2. QED
    BY <1>1, <1>2, <2>1, WriterParts DEF FlushOK
<1>7. CapturesOK'
  BY <1>1, <1>2, WriterParts, CapturesStay DEF CapturesOK
<1>8. QED
  BY <1>3, <1>4, <1>5, <1>6, <1>7 DEF WriterInv

LEMMA writeTrailerKeeps ==
    ASSUME WriterInv, writeTrailer
    PROVE  WriterInv'
<1>1. PICK d : d = cur
  OBVIOUS
<1> DEFINE data == HeaderData(0)
<1>2. PICK s : s = writeBuff(sp, d, data)
  OBVIOUS
<1>3. /\ pc = "trailer" /\ Writes(s) /\ stream' = [stream EXCEPT ![d] = @ \o data]
      /\ captures' = captures /\ packets' = packets
      /\ IF Overrun(s) THEN pc' = "undefined" /\ cur' = cur ELSE Continue("trailer", "flush")
  BY <1>1, <1>2 DEF writeTrailer
<1>4. data \in Seq(Data) /\ Len(data) = HEADER /\ 0 < HEADER /\ HEADER <= SUPERSECTORLENGTH
      /\ HEADER \in Nat
  <2>1. 0 \in 0 .. MaxPackets
    BY SpcapAssumption
  <2>2. data \in Seq(Data) /\ Len(data) = HEADER
    BY <2>1, HeaderSeq
  <2>3. QED
    BY <2>2, Lengths
<1> HIDE DEF data
<1>5. d \in Disks
  BY <1>1, WriterParts
<1>6. Appended(sp, s, d, data)
  <2>1. Len(data) <= SUPERSECTORLENGTH /\ Len(data) > 0
    BY <1>4
  <2>2. QED
    BY <1>2, <1>4, <1>5, <2>1, WriterParts, BuffAppends
<1>7. /\ cur' \in Disks
      /\ \/ pc' = "undefined" /\ cur' = cur
         \/ pc' = "trailer" /\ cur' = cur + 1
         \/ pc' = "flush" /\ cur' = 0 /\ cur + 1 = NumDisks
  BY <1>3, WriterParts, ContinueKeepsCur
<1>8. /\ IsSpcap(sp') /\ sp'.dataWrote = [sp.dataWrote EXCEPT ![d] = @ + Len(data)]
      /\ disk' = disk /\ file' = file /\ faults' = faults
      /\ stream' \in [Disks -> Seq(Data)]
      /\ Held(sp, stream)' /\ FlushOK' /\ CapturesOK'
  <2>1. pc' \in {"pcap", "trailer", "undefined"} \/ (pc' = "flush" /\ cur' = 0)
    BY <1>7
  <2>2. QED
    BY <1>3, <1>4, <1>5, <1>6, <2>1, CopyKeeps
<1>9. TypeOK'
  <2>1. pc' # "undefined" => \A e \in Disks : sp'.currPtr[e] <= BUFFSIZE
    <3>1. sp'.currPtr = s.currPtr
      <4>1. sp' = [s EXCEPT !.out = <<>>] /\ DOMAIN s = Fields
        BY <1>3, <1>6 DEF Writes, Appended, IsSpcap
      <4>2. QED
        BY <4>1 DEF Fields
    <3>2. \A e \in Disks : s.currPtr[e] \in Nat
      BY <1>6 DEF Appended, IsSpcap
    <3>3. pc' # "undefined" => \A e \in Disks : ~(s.currPtr[e] > BUFFSIZE)
      BY <1>3 DEF Overrun
    <3>4. QED
      BY <3>1, <3>2, <3>3, BufferSize
  <2>2. QED
    BY <1>3, <1>7, <1>8, <2>1, WriterParts DEF TypeOK, IsSpcap
<1>10. Balanced'
  BY <1>7 DEF Balanced
<1>11. BuffersOK'
  <2>1. \A e \in Disks : e \in Nat /\ cur \in Nat
    BY WriterParts, SpcapAssumption DEF Disks
  <2>2. \A e \in Disks : e < Trailed' => e < cur \/ e = cur
    <3>1. Trailed' \in {0, cur + 1}
      BY <1>7 DEF Trailed
    <3>2. QED
      BY <2>1, <3>1
  <2>3. \A e \in Disks : e < cur => sp.dataWrote[e] > 0
    BY <1>3, WriterParts DEF BuffersOK, Active, Trailed
  <2>4. ASSUME NEW e \in Disks, e < Trailed'
        PROVE  sp'.dataWrote[e] > 0
    <3>1. sp.dataWrote \in [Disks -> Nat]
      BY WriterParts DEF IsSpcap
    <3>2. CASE e = d
      BY <1>4, <1>5, <1>8, <3>1, <3>2
    <3>3. CASE e # d
      <4>1. e < cur
        BY <1>1, <2>2, <2>4, <3>3
      <4>2. sp'.dataWrote[e] = sp.dataWrote[e]
        BY <1>8, <3>1, <3>3
      <4>3. QED
        BY <2>3, <4>1, <4>2
    <3>4. QED
      BY <3>2, <3>3
  <2>5. QED
    BY <1>7, <1>8, <2>4 DEF BuffersOK
<1>12. IsSpcap(sp)'
  BY <1>8 DEF IsSpcap
<1>13. QED
  BY <1>8, <1>9, <1>10, <1>11, <1>12 DEF WriterInv

\* What flushBuffs writes, which is at the first super-sector of the disk.
LEMMA flushBuffsWrites ==
    ASSUME WriterInv, flushBuffs, (sp.dataWrote[cur] % SUPERSECTORLENGTH) # 0
    PROVE  \E w :
             /\ IsFlush(sp, cur, w) /\ w.lba = FirstLba(file.startBlock, cur)
             /\ IsSpcap(sp') /\ sp'.dataWrote = sp.dataWrote /\ sp'.buffs = sp.buffs
             /\ sp'.curlba = [sp.curlba EXCEPT ![cur] = @ + SUPERSECTORNUM]
             /\ \/ /\ disk' = Stored(w) /\ faults' = faults
                   /\ file' = [file EXCEPT !.endBlock = @ + SUPERSECTORNUM,
                                           !.intact = @ /\ w.lba + SUPERSECTORNUM <= DiskSectors]
                \/ /\ disk' = disk /\ faults < MaxFaults /\ faults' = faults + 1
                   /\ file' = [file EXCEPT !.endBlock = @ + SUPERSECTORNUM, !.intact = FALSE]
<1>1. pc = "flush" /\ cur \in Disks /\ IsSpcap(sp)
  BY WriterParts DEF flushBuffs
<1>2. PICK t : t = Flush(sp, cur, FlushFrom(sp, cur))
  OBVIOUS
<1>3. Writes(t)
  BY <1>2 DEF flushBuffs
<1>4. sp.dataWrote[cur] <= BUFFSIZE
  BY <1>1, WriterParts DEF TypeOK, IsSpcap
<1>5. /\ DOMAIN t = Fields
      /\ t.dataWrote = sp.dataWrote /\ t.currPtr = sp.dataWrote /\ t.buffs = sp.buffs
      /\ t.curlba = [sp.curlba EXCEPT ![cur] = @ + SUPERSECTORNUM]
      /\ \E w : t.out = <<w>> /\ IsFlush(sp, cur, w)
  BY <1>1, <1>2, <1>4, FlushIs
<1>6. PICK w : t.out = <<w>> /\ IsFlush(sp, cur, w)
  BY <1>5
<1>7. /\ DOMAIN sp' = Fields /\ sp'.out = <<>>
      /\ sp'.dataWrote = t.dataWrote /\ sp'.currPtr = t.currPtr
      /\ sp'.curlba = t.curlba /\ sp'.buffs = t.buffs
      /\ \/ /\ disk' = Stored(w) /\ faults' = faults
            /\ file' = [file EXCEPT !.endBlock = @ + SUPERSECTORNUM,
                                    !.intact = @ /\ w.lba + SUPERSECTORNUM <= DiskSectors]
         \/ /\ disk' = disk /\ faults < MaxFaults /\ faults' = faults + 1
            /\ file' = [file EXCEPT !.endBlock = @ + SUPERSECTORNUM, !.intact = FALSE]
  BY <1>3, <1>5, <1>6, WritesOne
<1>8. IsSpcap(sp')
  <2>1. /\ sp.dataWrote \in [Disks -> Nat] /\ sp.curlba \in [Disks -> Nat]
        /\ sp.buffs \in [Disks -> [0 .. BUFFSIZE - 1 -> Data]]
    BY <1>1 DEF IsSpcap
  <2>2. sp'.curlba \in [Disks -> Nat]
    BY <1>1, <1>5, <1>7, <2>1, SuperSectorAssumption
  <2>3. QED
    BY <1>5, <1>7, <2>1, <2>2 DEF IsSpcap
<1>9. w.lba = FirstLba(file.startBlock, cur)
  <2>1. Active /\ cur >= Flushed
    BY <1>1 DEF Active, Flushed, Disks
  <2>2. sp.curlba[cur] = FirstLba(file.startBlock, cur)
    BY <1>1, <2>1, WriterParts DEF FlushOK
  <2>3. QED
    BY <1>6, <2>2 DEF IsFlush
<1>10. QED
  BY <1>5, <1>6, <1>7, <1>8, <1>9

LEMMA flushBuffsKeeps ==
    ASSUME WriterInv, flushBuffs
    PROVE  WriterInv'
<1>1. PICK d : d = cur
  OBVIOUS
<1>2. PICK start : start = file.startBlock
  OBVIOUS
<1>3. PICK str : str = stream
  OBVIOUS
<1>4. /\ pc = "flush" /\ d \in Disks /\ start \in Nat /\ str \in [Disks -> Seq(Data)]
      /\ stream' = str /\ captures' = captures /\ packets' = packets
  BY <1>1, <1>2, <1>3, WriterParts DEF flushBuffs
<1>5. /\ cur' \in Disks
      /\ \/ pc' = "flush" /\ cur' = d + 1
         \/ pc' = "save" /\ cur' = 0 /\ d + 1 = NumDisks
  BY <1>1, WriterParts, ContinueKeepsCur DEF flushBuffs
<1>6. /\ Active /\ Active' /\ Flushed = d /\ Flushed' = d + 1
      /\ Trailed = NumDisks /\ Trailed' = NumDisks
  BY <1>1, <1>4, <1>5 DEF Active, Flushed, Trailed
<1>7. Held(sp, str) /\ \A e \in Disks : e \in Nat /\ e < NumDisks /\ sp.dataWrote[e] > 0
  BY <1>3, <1>6, WriterParts, SpcapAssumption DEF BuffersOK, Disks
<1>8. sp.dataWrote \in [Disks -> Nat]
  BY WriterParts DEF IsSpcap
<1>9. Short(str) => /\ \A e \in Disks : sp.dataWrote[e] < SUPERSECTORLENGTH
                    /\ (sp.dataWrote[d] % SUPERSECTORLENGTH) # 0
  <2>1. ASSUME Short(str), NEW e \in Disks
        PROVE  sp.dataWrote[e] < SUPERSECTORLENGTH
    BY <1>7, <2>1 DEF Held, Short
  <2>2. ASSUME sp.dataWrote[d] < SUPERSECTORLENGTH
        PROVE  (sp.dataWrote[d] % SUPERSECTORLENGTH) # 0
    <3>1. (sp.dataWrote[d] % SUPERSECTORLENGTH) = sp.dataWrote[d]
      BY <1>4, <1>8, <2>2, UsedFacts
    <3>2. sp.dataWrote[d] > 0 /\ sp.dataWrote[d] \in Nat
      BY <1>4, <1>7, <1>8
    <3>3. QED
      BY <3>1, <3>2
  <2>3. QED
    BY <1>4, <2>1, <2>2
\* The disks and the files, in both cases.
<1>10. ASSUME IsSpcap(sp'), sp'.dataWrote = sp.dataWrote, sp'.buffs = sp.buffs,
              disk' \in [Units -> Data], faults' \in 0 .. MaxFaults,
              file' \in [startBlock : Nat, endBlock : Nat, intact : BOOLEAN],
              FlushOK', CapturesOK'
       PROVE  WriterInv'
  <2>1. TypeOK'
    <3>1. \A e \in Disks : sp'.currPtr[e] <= BUFFSIZE
      <4>1. \A e \in Disks : sp.currPtr[e] <= BUFFSIZE
        BY <1>4, WriterParts DEF TypeOK
      <4>2. sp'.currPtr = sp.currPtr
        BY <1>10, WriterParts DEF IsSpcap
      <4>3. QED
        BY <4>1, <4>2
    <3>2. QED
      BY <1>4, <1>5, <1>10, <3>1, WriterParts DEF TypeOK, IsSpcap
  <2>2. Balanced'
    BY <1>5 DEF Balanced
  <2>3. BuffersOK'
    <3>1. Held(sp, stream)'
      BY <1>4, <1>7, <1>10 DEF Held
    <3>2. QED
      BY <1>5, <1>7, <1>10, <3>1 DEF BuffersOK
  <2>4. IsSpcap(sp)'
    BY <1>10 DEF IsSpcap
  <2>5. QED
    BY <1>10, <2>1, <2>2, <2>3, <2>4 DEF WriterInv
<1>11. CASE (sp.dataWrote[cur] % SUPERSECTORLENGTH) = 0
  <2>1. Writes(sp)
    BY <1>11 DEF flushBuffs
  <2>2. PICK s : s = sp
    OBVIOUS
  <2>3. /\ IsSpcap(sp') /\ sp'.dataWrote = sp.dataWrote
        /\ sp'.curlba = sp.curlba /\ sp'.buffs = sp.buffs
        /\ disk' = disk /\ file' = file /\ faults' = faults
    BY <2>1, <2>2, WriterParts, WritesNone
  <2>4. ~Short(str)
    BY <1>1, <1>9, <1>11
  <2>5. FlushOK'
    <3>1. \A e \in Disks : e >= d + 1 => e >= d
      BY <1>4, <1>7
    <3>2. ~Short(stream)'
      BY <1>4, <2>4 DEF Short
    <3>3. \A e \in Disks : e >= Flushed' => sp'.curlba[e] = FirstLba(file'.startBlock, e)
      BY <1>6, <2>3, <3>1, WriterParts DEF FlushOK
    <3>4. QED
      BY <3>2, <3>3 DEF FlushOK
  <2>6. CapturesOK'
    <3>1. \A c \in captures : c.endBlock <= file'.startBlock
      BY <1>6, <2>3, WriterParts DEF CapturesOK
    <3>2. QED
      BY <1>4, <2>3, <3>1, WriterParts, CapturesStay
  <2>7. QED
    BY <1>10, <2>3, <2>5, <2>6, WriterParts
<1>12. CASE (sp.dataWrote[cur] % SUPERSECTORLENGTH) # 0
  <2>1. PICK s : s = sp
    OBVIOUS
  <2>2. PICK w :
          /\ IsFlush(s, d, w) /\ w.lba = FirstLba(start, d)
          /\ IsSpcap(sp') /\ sp'.dataWrote = sp.dataWrote /\ sp'.buffs = sp.buffs
          /\ sp'.curlba = [sp.curlba EXCEPT ![d] = @ + SUPERSECTORNUM]
          /\ \/ /\ disk' = Stored(w) /\ faults' = faults
                /\ file' = [file EXCEPT !.endBlock = @ + SUPERSECTORNUM,
                                        !.intact = @ /\ w.lba + SUPERSECTORNUM <= DiskSectors]
             \/ /\ disk' = disk /\ faults < MaxFaults /\ faults' = faults + 1
                /\ file' = [file EXCEPT !.endBlock = @ + SUPERSECTORNUM, !.intact = FALSE]
    BY <1>1, <1>2, <1>12, <2>1, flushBuffsWrites
  <2>3. disk \in [Units -> Data] /\ s.curlba[d] \in Nat /\ w.lba \in Nat
    <3>1. sp.curlba \in [Disks -> Nat]
      BY WriterParts DEF IsSpcap
    <3>2. w.lba \in Nat
      BY <1>4, <2>2, FirstLbaOf
    <3>3. QED
      BY <1>4, <2>1, <3>1, <3>2, WriterParts
  <2>4. disk' \in [Units -> Data] /\ (disk' = Stored(w) \/ disk' = disk)
    BY <1>4, <2>2, <2>3, StoredIs
  <2>5. /\ file' \in [startBlock : Nat, endBlock : Nat, intact : BOOLEAN]
        /\ file'.startBlock = start /\ file'.endBlock = file.endBlock + SUPERSECTORNUM
        /\ file'.intact => /\ file.intact /\ w.lba + SUPERSECTORNUM <= DiskSectors
                           /\ disk' = Stored(w)
    <3>1. file \in [startBlock : Nat, endBlock : Nat, intact : BOOLEAN]
          /\ file.endBlock + SUPERSECTORNUM \in Nat
      BY WriterParts, SuperSectorAssumption
    <3> DEFINE kept == file.intact /\ w.lba + SUPERSECTORNUM <= DiskSectors
    <3>2. kept \in BOOLEAN
      OBVIOUS
    <3>3. CASE disk' = Stored(w) /\ file' = [file EXCEPT !.endBlock = @ + SUPERSECTORNUM,
                                                        !.intact = kept]
      <4>1. kept => file.intact /\ w.lba + SUPERSECTORNUM <= DiskSectors
        OBVIOUS
      <4> HIDE DEF kept
      <4>2. /\ file'.startBlock = start /\ file'.intact = kept
            /\ file'.endBlock = file.endBlock + SUPERSECTORNUM
            /\ file' \in [startBlock : Nat, endBlock : Nat, intact : BOOLEAN]
        BY <1>2, <3>1, <3>2, <3>3
      <4>3. QED
        BY <3>3, <4>1, <4>2
    <3>4. CASE file' = [file EXCEPT !.endBlock = @ + SUPERSECTORNUM, !.intact = FALSE]
      BY <1>2, <3>1, <3>4
    <3>5. QED
      BY <2>2, <3>3, <3>4
  <2>6. faults' \in 0 .. MaxFaults
    BY <2>2, WriterParts, SpcapAssumption
  <2>7. FlushOK'
    <3>1. ASSUME NEW e \in Disks, e >= d + 1
          PROVE  sp'.curlba[e] = FirstLba(start, e)
      <4>1. e >= d /\ e # d
        BY <1>4, <1>7, <3>1
      <4>2. sp.curlba[e] = FirstLba(start, e)
        BY <1>2, <1>6, <4>1, WriterParts DEF FlushOK
      <4>3. sp.curlba \in [Disks -> Nat]
        BY WriterParts DEF IsSpcap
      <4>4. QED
        BY <2>2, <4>1, <4>2, <4>3
    <3>2. ASSUME Short(str)
          PROVE  /\ file'.endBlock = start + (d + 1) * SUPERSECTORNUM
                 /\ file'.intact => \A e \in Disks : e < d + 1 => OnDisk(start, str, e)'
      <4>1. /\ file.endBlock = start + d * SUPERSECTORNUM
            /\ file.intact => \A e \in Disks : e < d => OnDisk(start, str, e)
        BY <1>2, <1>3, <1>6, <3>2, WriterParts DEF FlushOK
      <4>2. file'.endBlock = start + (d + 1) * SUPERSECTORNUM
        <5>1. (d + 1) * SUPERSECTORNUM = d * SUPERSECTORNUM + SUPERSECTORNUM
              /\ d * SUPERSECTORNUM \in Nat
          BY <1>4, <1>7, SuperSectorAssumption
        <5>2. QED
          BY <1>4, <2>5, <4>1, <5>1, SuperSectorAssumption
      <4>3. \A e \in Disks : str[e] \in Seq(Data) /\ Len(str[e]) < SUPERSECTORLENGTH
        BY <1>4, <3>2 DEF Short
      <4>4. ASSUME file'.intact, NEW e \in Disks, e < d + 1
            PROVE  OnDisk(start, str, e)'
        <5>1. CASE e = d
          <6>1. /\ FirstLba(start, d) + SUPERSECTORNUM <= DiskSectors
                /\ \A i \in 0 .. SUPERSECTORLENGTH - 1 :
                     disk'[<<d, FirstLba(start, d) * SECTORLENGTH + i>>] = w.data[i]
            BY <1>4, <2>2, <2>3, <2>5, <4>4, StoredIs
          <6>2. ASSUME NEW j \in DOMAIN str[d]
                PROVE  disk'[<<d, FirstLba(start, d) * SECTORLENGTH + j - 1>>] = str[d][j]
            <7>1. j \in Nat /\ j - 1 \in 0 .. SUPERSECTORLENGTH - 1
              BY <1>4, <4>3, LenProperties, Lengths
            <7>2. w.data[j - 1] = s.buffs[d][j - 1]
              BY <1>4, <1>9, <2>1, <2>2, <3>2, <7>1 DEF IsFlush
            <7>3. s.buffs[d][j - 1] = str[d][j]
              BY <1>4, <1>7, <1>9, <2>1, <3>2 DEF Held
            <7> DEFINE x == FirstLba(start, d) * SECTORLENGTH
            <7>4. x \in Nat
              BY <1>4, FirstLbaOf, SuperSectorUnits
            <7>5. disk'[<<d, x + (j - 1)>>] = w.data[j - 1]
              BY <6>1, <7>1
            <7> HIDE DEF x
            <7>6. x + (j - 1) = x + j - 1
              BY <7>1, <7>4
            <7>7. disk'[<<d, x + j - 1>>] = str[d][j]
              BY <7>2, <7>3, <7>5, <7>6
            <7>8. QED
              BY <7>7 DEF x
          <6>3. QED
            BY <5>1, <6>1, <6>2 DEF OnDisk
        <5>2. CASE e # d
          <6>1. OnDisk(start, str, e)
            BY <1>4, <1>7, <2>5, <4>1, <4>4, <5>2
          <6>2. QED
            BY <1>4, <2>2, <2>3, <2>4, <4>3, <5>2, <6>1, StaysOnDisk
        <5>3. QED
          BY <5>1, <5>2
      <4>5. QED
        BY <4>2, <4>4
    <3>3. Short(stream)' => Short(str)
      BY <1>4 DEF Short
    <3>4. QED
      BY <1>4, <1>6, <2>5, <3>1, <3>2, <3>3 DEF FlushOK, OnDisk
  <2>8. CapturesOK'
    <3>1. ASSUME NEW c \in captures, c.intact, Aligned(c), Short(c.stream)
          PROVE  /\ c.endBlock = c.startBlock + NumDisks * SUPERSECTORNUM
                 /\ \A e \in Disks : OnDisk(c.startBlock, c.stream, e)'
      <4>1. /\ c.endBlock = c.startBlock + NumDisks * SUPERSECTORNUM
            /\ \A e \in Disks : OnDisk(c.startBlock, c.stream, e)
            /\ c.endBlock <= start
        BY <1>2, <1>6, <3>1, WriterParts DEF CapturesOK
      <4>2. /\ c.startBlock \in Nat
            /\ \A e \in Disks : c.stream[e] \in Seq(Data) /\ Len(c.stream[e]) < SUPERSECTORLENGTH
        BY <3>1, WriterParts DEF Short
      <4>3. ASSUME NEW e \in Disks
            PROVE  OnDisk(c.startBlock, c.stream, e)'
        <5>1. e # d \/ FirstLba(c.startBlock, e) + SUPERSECTORNUM <= w.lba
          <6>1. CASE e = d
            <7>1. c.startBlock % SUPERSECTORNUM = 0
              BY <3>1 DEF Aligned
            <7>2. c.startBlock + NumDisks * SUPERSECTORNUM <= start
              BY <4>1
            <7>3. FirstLba(c.startBlock, d) + SUPERSECTORNUM <= FirstLba(start, d)
              BY <1>4, <4>2, <7>1, <7>2, RowsApart
            <7>4. QED
              BY <2>2, <6>1, <7>3
          <6>2. QED
            BY <6>1
        <5>2. QED
          BY <1>4, <2>2, <2>3, <2>4, <4>1, <4>2, <5>1, StaysOnDisk
      <4>4. QED
        BY <4>1, <4>3
    <3>2. \A c \in captures : c.endBlock <= start
      BY <1>2, <1>6, WriterParts DEF CapturesOK
    <3>3. captures # {} => \E last \in captures : \A c \in captures : c.endBlock <= last.endBlock
      BY WriterParts DEF CapturesOK
    <3>4. QED
      BY <1>4, <2>5, <3>1, <3>2, <3>3 DEF CapturesOK, OnDisk
  <2>9. QED
    BY <1>10, <2>2, <2>4, <2>5, <2>6, <2>7, <2>8
<1>13. QED
  BY <1>11, <1>12

\* The process ends, whatever the reason.
LEMMA EndsKeeps ==
    ASSUME WriterInv, Ends, disk' = disk, captures' \subseteq Capture,
           packets' = packets, faults' \in 0 .. MaxFaults, CapturesOK'
    PROVE  WriterInv'
<1>1. file' = NoFile /\ sp' = NoSpcap /\ stream' = NoStream /\ pc' = "off" /\ cur' = 0
  BY DEF Ends
<1>2. TypeOK'
  <2>1. file' \in [startBlock : Nat, endBlock : Nat, intact : BOOLEAN]
    BY <1>1 DEF NoFile
  <2>2. \A d \in Disks : sp'.currPtr[d] <= BUFFSIZE
    BY <1>1, NoSpcapIs, BufferSize DEF IsSpcap
  <2>3. cur' \in Disks /\ stream' \in [Disks -> Seq(Data)]
    BY <1>1, DisksNotEmpty, NoSpcapIs
  <2>4. IsSpcap(sp')
    BY <1>1, NoSpcapIs
  <2>5. QED
    BY <1>1, <2>1, <2>2, <2>3, <2>4, WriterParts DEF TypeOK, IsSpcap
<1>3. IsSpcap(sp)'
  BY <1>1, NoSpcapIs DEF IsSpcap
<1>4. Balanced' /\ BuffersOK' /\ FlushOK'
  BY <1>1 DEF Balanced, BuffersOK, FlushOK, Active
<1>5. QED
  BY <1>2, <1>3, <1>4 DEF WriterInv

LEMMA updateRaidKeeps ==
    ASSUME WriterInv, updateRaid
    PROVE  WriterInv'
<1>1. PICK new : new = [startBlock |-> file.startBlock, endBlock |-> file.endBlock,
                        intact |-> file.intact, stream |-> stream]
  OBVIOUS
<1>2. /\ pc = "save" /\ Ends /\ captures' = captures \cup {new}
      /\ disk' = disk /\ packets' = packets /\ faults' = faults
  BY <1>1 DEF updateRaid
<1>3. new \in Capture
  BY <1>1, WriterParts DEF Capture
<1>4. /\ new.startBlock = file.startBlock /\ new.endBlock = file.endBlock
      /\ new.intact = file.intact /\ new.stream = stream
  BY <1>1
<1>5. Active /\ Flushed = NumDisks /\ \A d \in Disks : d < NumDisks
  BY <1>2, SpcapAssumption DEF Active, Flushed, Disks
<1>6. CapturesOK'
  <2>1. \E last \in captures \cup {new} :
          \A c \in captures \cup {new} : c.endBlock <= last.endBlock
    <3>1. new.endBlock \in Nat /\ \A c \in captures : c.endBlock \in Nat
      BY <1>4, WriterParts
    <3>2. CASE captures = {}
      BY <3>1, <3>2
    <3>3. CASE captures # {}
      <4>1. PICK last \in captures : \A c \in captures : c.endBlock <= last.endBlock
        BY <3>3, WriterParts DEF CapturesOK
      <4>2. CASE new.endBlock <= last.endBlock
        BY <4>1, <4>2
      <4>3. CASE ~(new.endBlock <= last.endBlock)
        <5>1. \A c \in captures \cup {new} : c.endBlock <= new.endBlock
          BY <3>1, <4>1, <4>3
        <5>2. QED
          BY <5>1
      <4>4. QED
        BY <4>2, <4>3
    <3>4. QED
      BY <3>2, <3>3
  <2>2. ASSUME NEW c \in captures \cup {new}, c.intact, Aligned(c), Short(c.stream)
        PROVE  /\ c.endBlock = c.startBlock + NumDisks * SUPERSECTORNUM
               /\ \A d \in Disks : OnDisk(c.startBlock, c.stream, d)
    <3>1. CASE c \in captures
      BY <2>2, <3>1, WriterParts DEF CapturesOK
    <3>2. CASE c = new
      <4>1. /\ file.endBlock = file.startBlock + NumDisks * SUPERSECTORNUM
            /\ \A d \in Disks : OnDisk(file.startBlock, stream, d)
        BY <1>4, <1>5, <2>2, <3>2, WriterParts DEF FlushOK
      <4>2. QED
        BY <1>4, <3>2, <4>1
    <3>3. QED
      BY <2>2, <3>1, <3>2
  <2>3. ~Active'
    BY <1>2 DEF Ends, Active
  <2>4. QED
    BY <1>2, <2>1, <2>2, <2>3 DEF CapturesOK, OnDisk
<1>7. QED
  BY <1>2, <1>3, <1>6, WriterParts, EndsKeeps

LEMMA WriterNext == WriterInv /\ [Next]_vars => WriterInv'
<1> SUFFICES ASSUME WriterInv, [Next]_vars
             PROVE  WriterInv'
  OBVIOUS
<1>1. CASE \E gap \in Gaps : initSpcap(gap)
  BY <1>1, initSpcapKeeps
<1>2. CASE initSpcapFails
  <2>1. /\ pc' = "undefined" /\ faults < MaxFaults /\ faults' = faults + 1
        /\ UNCHANGED <<disk, captures, file, sp, stream, cur, packets>>
    BY <1>2 DEF initSpcapFails
  <2>2. faults' \in 0 .. MaxFaults
    BY <2>1, WriterParts, SpcapAssumption
  <2>3. TypeOK' /\ IsSpcap(sp)'
    BY <2>1, <2>2, WriterParts DEF TypeOK, IsSpcap
  <2>4. CapturesOK'
    BY <2>1, WriterParts, CapturesStay DEF Active
  <2>5. Balanced' /\ BuffersOK' /\ FlushOK'
    BY <2>1 DEF Balanced, BuffersOK, FlushOK, Active
  <2>6. QED
    BY <2>3, <2>4, <2>5 DEF WriterInv
<1>3. CASE \E p \in Packets : writePkt(p)
  BY <1>3, writePktKeeps
<1>4. CASE freeSpcap
  BY <1>4, freeSpcapKeeps
<1>5. CASE writeTrailer
  BY <1>5, writeTrailerKeeps
<1>6. CASE flushBuffs
  BY <1>6, flushBuffsKeeps
<1>7. CASE updateRaid
  BY <1>7, updateRaidKeeps
<1>8. CASE overruns \/ Crash
  <2>1. Ends /\ disk' = disk /\ captures' = captures /\ packets' = packets
    BY <1>8 DEF overruns, Crash
  <2>2. faults' \in 0 .. MaxFaults
    BY <1>8, WriterParts, SpcapAssumption DEF overruns, Crash
  <2>3. ~Active'
    BY <2>1 DEF Ends, Active
  <2>4. CapturesOK'
    BY <2>1, <2>3, WriterParts, CapturesStay
  <2>5. QED
    BY <2>1, <2>2, <2>4, WriterParts, EndsKeeps
<1>9. CASE UNCHANGED vars
  <2>1. UNCHANGED <<disk, captures, file, sp, stream, pc, cur, packets, faults>>
    BY <1>9 DEF vars
  <2>2. TypeOK' /\ IsSpcap(sp)' /\ Balanced'
    BY <2>1, WriterParts DEF TypeOK, IsSpcap, Balanced
  <2>3. BuffersOK'
    BY <2>1, WriterParts DEF BuffersOK, Active, Held, Trailed
  <2>4. FlushOK'
    BY <2>1, WriterParts DEF FlushOK, Active, Flushed, Short, OnDisk
  <2>5. CapturesOK'
    BY <2>1, WriterParts DEF CapturesOK, Active, OnDisk
  <2>6. QED
    BY <2>2, <2>3, <2>4, <2>5 DEF WriterInv
<1>10. QED
  BY <1>1, <1>2, <1>3, <1>4, <1>5, <1>6, <1>7, <1>8, <1>9 DEF Next

-----------------------------------------------------------------------------
(* The theorems.                                                           *)

\* Every step of cp leaves the writer in order: the variables have their types, no pointer
\* of a process that is followed is beyond its buffer, the buffers and the disks hold what
\* they should (spcap.c:17-154).
THEOREM WriterCorrect == Spec => []WriterInv
<1>1. QED
  BY WriterInit, WriterNext, PTL DEF Spec

\* As long as the process is followed the pointers of struct spcap stay inside its
\* buffers, in every order of packets, flushes and failed writes (spcap.h:11-18,
\* spcap.c:63-112).
THEOREM SpcapTypeCorrect == Spec => []TypeOK
<1>1. WriterInv => TypeOK
  BY DEF WriterInv
<1>2. QED
  BY <1>1, WriterCorrect, PTL

\* The disks are filled evenly: no two disks of a capture ever differ by more than a packet
\* (spcapDstDisk, spcap.c:47).
THEOREM BalancedCorrect == Spec => []Balanced
<1>1. WriterInv => Balanced
  BY DEF WriterInv
<1>2. QED
  BY <1>1, WriterCorrect, PTL

\* The capture that is in order is found where the raid's layout looks for it.
LEMMA OnDisksFollows ==
    ASSUME WriterInv, NEW c \in captures, c.intact, Aligned(c), Fits(c)
    PROVE  OnDisks(c)
<1>1. Short(c.stream)
  BY DEF Short, Fits
<1>2. /\ c.endBlock = c.startBlock + NumDisks * SUPERSECTORNUM
      /\ \A d \in Disks : OnDisk(c.startBlock, c.stream, d)
  BY <1>1, WriterParts DEF CapturesOK
<1>3. c.startBlock \in Nat
  BY WriterParts
<1>4. ASSUME NEW i \in Disks
      PROVE  LET b   == c.startBlock + i * SUPERSECTORNUM
                 d   == super_getdisk(NumDisks, b)
                 lba == super_getdisklba(NumDisks, b)
             IN  /\ b + SUPERSECTORNUM <= c.endBlock
                 /\ \A j \in DOMAIN c.stream[d] :
                      disk[<<d, lba * SECTORLENGTH + j - 1>>] = c.stream[d][j]
  <2> DEFINE b   == c.startBlock + i * SUPERSECTORNUM
             d   == super_getdisk(NumDisks, b)
             lba == super_getdisklba(NumDisks, b)
  <2>1. d \in Disks /\ FirstLba(c.startBlock, d) = lba
    BY <1>3, FirstLbaIs
  <2>2. b + SUPERSECTORNUM <= c.endBlock
    <3>1. i \in Nat /\ i < NumDisks /\ NumDisks \in Nat
      BY SpcapAssumption DEF Disks
    <3>2. PICK e \in Nat : NumDisks = i + 1 + e
      BY <3>1
    <3>3. NumDisks * SUPERSECTORNUM =
            i * SUPERSECTORNUM + SUPERSECTORNUM + e * SUPERSECTORNUM
          /\ e * SUPERSECTORNUM \in Nat /\ i * SUPERSECTORNUM \in Nat
      BY <3>1, <3>2, SuperSectorAssumption
    <3>4. QED
      BY <1>2, <1>3, <3>3, SuperSectorAssumption
  <2> HIDE DEF b, d, lba
  <2>3. \A j \in DOMAIN c.stream[d] :
          disk[<<d, lba * SECTORLENGTH + j - 1>>] = c.stream[d][j]
    BY <1>2, <2>1 DEF OnDisk
  <2>4. QED
    BY <2>2, <2>3 DEF b, d, lba
<1>5. QED
  BY <1>4 DEF OnDisks

\* A capture that was written without a failure is on the disks, every packet of it
\* (spcap.c:63-134), and no later capture and no crash takes it away: if it begins at a
\* super-sector and its parts are shorter than one.
THEOREM CapturesKeptCorrect == Spec => []CapturesKept
<1>1. WriterInv => CapturesKept
  BY OnDisksFollows DEF CapturesKept
<1>2. QED
  BY <1>1, WriterCorrect, PTL

\* The unit of a disk that flushBuffs changes is in a block of the capture.
LEMMA FlushedInside ==
    ASSUME NEW start \in Nat, start % SUPERSECTORNUM = 0, NEW d \in Disks, NEW u \in Units,
           u \in SuperSectorAt(d, FirstLba(start, d))
    PROVE  \E b \in start .. start + NumDisks * SUPERSECTORNUM - 1 :
             Location(NumDisks, b) = <<u[1], u[2] \div SECTORLENGTH>>
<1> DEFINE lba == FirstLba(start, d)
           q == u[2] \div SECTORLENGTH
           r == u[2] % SECTORLENGTH
           k == q - lba
<1>1. /\ NumDisks \in Nat \ {0} /\ SUPERSECTORNUM \in Nat \ {0}
      /\ SECTORLENGTH \in Nat \ {0}
  BY SpcapAssumption, SuperSectorAssumption
<1>2. lba \in Nat /\ \E i \in Disks :
        /\ super_getdisk(NumDisks, start + i * SUPERSECTORNUM) = d
        /\ lba = super_getdisklba(NumDisks, start + i * SUPERSECTORNUM)
  BY FirstLbaOf
<1>3. PICK i \in Disks :
        /\ super_getdisk(NumDisks, start + i * SUPERSECTORNUM) = d
        /\ lba = super_getdisklba(NumDisks, start + i * SUPERSECTORNUM)
  BY <1>2
<1>4. /\ u[1] = d
      /\ u[2] \in lba * SECTORLENGTH .. (lba + SUPERSECTORNUM) * SECTORLENGTH - 1
  BY DEF SuperSectorAt
<1> HIDE DEF lba
<1>5. /\ lba * SECTORLENGTH \in Nat /\ (lba + SUPERSECTORNUM) * SECTORLENGTH \in Nat
      /\ u[2] \in Nat /\ lba * SECTORLENGTH <= u[2]
      /\ u[2] < (lba + SUPERSECTORNUM) * SECTORLENGTH
  <2> DEFINE x == lba * SECTORLENGTH
             y == (lba + SUPERSECTORNUM) * SECTORLENGTH
  <2>1. x \in Nat /\ y \in Nat
    BY <1>1, <1>2
  <2>2. u[2] \in x .. y - 1
    BY <1>4
  <2> HIDE DEF x, y
  <2>3. u[2] \in Nat /\ x <= u[2] /\ u[2] < y
    BY <2>1, <2>2
  <2>4. QED
    BY <2>1, <2>3 DEF x, y
<1>6. q \in Nat /\ r \in 0 .. SECTORLENGTH - 1 /\ u[2] = SECTORLENGTH * q + r
  BY <1>1, <1>5, DivMod
<1> HIDE DEF q, r
<1>7. lba <= q /\ q < lba + SUPERSECTORNUM
  <2>1. CASE q < lba
    <3>1. PICK e \in Nat : lba = q + 1 + e
      <4>1. lba \in Nat /\ q \in Nat
        BY <1>2, <1>6
      <4>2. QED
        BY <2>1, <4>1
    <3>2. lba * SECTORLENGTH = SECTORLENGTH * q + SECTORLENGTH + e * SECTORLENGTH
          /\ e * SECTORLENGTH \in Nat /\ SECTORLENGTH * q \in Nat
      BY <1>1, <1>6, <3>1
    <3>3. QED
      BY <1>1, <1>5, <1>6, <3>2
  <2>2. CASE lba + SUPERSECTORNUM <= q
    <3>1. PICK e \in Nat : q = lba + SUPERSECTORNUM + e
      <4>1. lba \in Nat /\ q \in Nat
        BY <1>2, <1>6
      <4>2. QED
        BY <1>1, <2>2, <4>1
    <3> DEFINE z == lba + SUPERSECTORNUM
    <3>2. z \in Nat /\ q = z + e
      BY <1>1, <1>2, <3>1
    <3>3. z * SECTORLENGTH \in Nat /\ u[2] < z * SECTORLENGTH
      BY <1>5
    <3> HIDE DEF z
    <3>4. SECTORLENGTH * q = z * SECTORLENGTH + e * SECTORLENGTH
          /\ e * SECTORLENGTH \in Nat
      BY <1>1, <3>2
    <3>5. QED
      BY <1>1, <1>5, <1>6, <3>3, <3>4
  <2>3. QED
    BY <1>1, <1>2, <1>6, <2>1, <2>2
<1>8. k \in Nat /\ k < SUPERSECTORNUM /\ q = lba + k
  BY <1>1, <1>2, <1>6, <1>7
<1> HIDE DEF k
<1> DEFINE first == start + i * SUPERSECTORNUM
<1>9. i \in Nat /\ i < NumDisks
  BY <1>1 DEF Disks
<1>10. first \in Nat /\ (first % SUPERSECTORNUM) = 0
  BY <1>9, SuperShift
<1>11. (first % SUPERSECTORNUM) + k < SUPERSECTORNUM
  BY <1>8, <1>10
<1>12. first + k \in start .. start + NumDisks * SUPERSECTORNUM - 1
  <2>1. PICK e \in Nat : NumDisks = i + 1 + e
    BY <1>1, <1>9
  <2>2. NumDisks * SUPERSECTORNUM =
          i * SUPERSECTORNUM + SUPERSECTORNUM + e * SUPERSECTORNUM
        /\ e * SUPERSECTORNUM \in Nat /\ i * SUPERSECTORNUM \in Nat
    BY <1>1, <1>9, <2>1
  <2>3. QED
    BY <1>1, <1>8, <2>2
<1>13. super_getdisk(NumDisks, first) = d /\ super_getdisklba(NumDisks, first) = lba
  BY <1>3
<1> HIDE DEF first
<1>14. /\ super_getdisk(NumDisks, first + k) = d
       /\ super_getdisklba(NumDisks, first + k) = lba + k
  BY <1>1, <1>8, <1>10, <1>11, <1>13, SuperSectorContiguous
<1>15. Location(NumDisks, first + k) = <<u[1], q>>
  BY <1>4, <1>8, <1>14 DEF Location
<1>16. QED
  BY <1>12, <1>15 DEF q

\* Packets and headers of zeros only go to the buffers.
LEMMA BuffersOnly ==
    ASSUME WriterInv, (\E p \in Packets : writePkt(p)) \/ writeTrailer
    PROVE  disk' = disk /\ file' = file
<1>1. CASE \E p \in Packets : writePkt(p)
  <2>1. PICK p \in Packets : writePkt(p)
    BY <1>1
  <2>2. PICK k, d : k = packets' /\ d = spcapDstDisk(sp)
    OBVIOUS
  <2>3. Writes(afterPkt(sp, d, k, p)) /\ k = packets + 1 /\ packets < MaxPackets
    BY <2>1, <2>2 DEF writePkt
  <2>4. k \in 0 .. MaxPackets /\ d \in Disks
    BY <2>2, <2>3, WriterParts, DstDisk, SpcapAssumption
  <2>5. IsSpcap(afterPkt(sp, d, k, p))
    BY <2>4, WriterParts, PacketAppends DEF Appended
  <2>6. QED
    BY <2>3, <2>5, WritesNone
<1>2. CASE writeTrailer
  <2>1. Writes(writeBuff(sp, cur, HeaderData(0)))
    BY <1>2 DEF writeTrailer
  <2>2. HeaderData(0) \in Seq(Data) /\ Len(HeaderData(0)) = HEADER
    <3>1. 0 \in 0 .. MaxPackets
      BY SpcapAssumption
    <3>2. QED
      BY <3>1, HeaderSeq
  <2>3. Len(HeaderData(0)) <= SUPERSECTORLENGTH /\ Len(HeaderData(0)) > 0
    BY <2>2, Lengths
  <2>4. IsSpcap(writeBuff(sp, cur, HeaderData(0)))
    BY <2>2, <2>3, WriterParts, BuffAppends DEF Appended
  <2>5. QED
    BY <2>1, <2>4, WritesNone
<1>3. QED
  BY <1>1, <1>2

\* What cp has claimed so far: nothing before flushBuffs, then a super-sector for
\* every disk that it was at, if none was full.
LEMMA EndNext ==
    ASSUME WriterInv, EndOK, [Next]_vars
    PROVE  EndOK'
<1>1. cur \in Nat /\ cur < NumDisks /\ NumDisks \in Nat \ {0} /\ cur \in Disks
  BY WriterParts, SpcapAssumption DEF Disks
<1>2. file.startBlock \in Nat /\ file.endBlock \in Nat
      /\ DOMAIN file = {"startBlock", "endBlock", "intact"}
  BY WriterParts
<1>3. ASSUME Flushed' = 0, file'.startBlock \in Nat, file'.endBlock = file'.startBlock
      PROVE  EndOK'
  BY <1>3, SuperSectorAssumption DEF EndOK
<1>4. CASE \E gap \in Gaps : initSpcap(gap)
  <2>1. PICK gap \in Gaps : initSpcap(gap)
    BY <1>4
  <2>2. NextBlock(gap) \in Nat
    BY NextBlockBehind, WriterParts DEF CapturesOK
  <2>3. file'.startBlock = NextBlock(gap) /\ file'.endBlock = file'.startBlock /\ pc' = "pcap"
    BY <2>1 DEF initSpcap
  <2>4. QED
    BY <1>3, <2>2, <2>3 DEF Flushed
<1>5. CASE (\E p \in Packets : writePkt(p)) \/ writeTrailer \/ freeSpcap
  <2>1. file' = file
    BY <1>5, BuffersOnly DEF freeSpcap
  <2>2. /\ pc \in {"pcap", "trailer"}
        /\ pc' \in {"pcap", "trailer", "undefined"} \/ (pc' = "flush" /\ cur' = 0)
    <3>1. CASE writeTrailer
      <4>1. pc = "trailer" /\ (pc' = "undefined" \/ Continue("trailer", "flush"))
        BY <3>1 DEF writeTrailer
      <4>2. QED
        BY <1>1, <4>1, ContinueKeepsCur
    <3>2. CASE (\E p \in Packets : writePkt(p)) \/ freeSpcap
      <4>1. pc = "pcap" /\ pc' \in {"pcap", "trailer", "undefined"}
        BY <3>2 DEF writePkt, freeSpcap
      <4>2. QED
        BY <4>1
    <3>3. QED
      BY <1>5, <3>1, <3>2
  <2>3. Flushed = 0 /\ Active /\ Flushed' = 0
    BY <2>2 DEF Flushed, Active
  <2>4. file.endBlock = file.startBlock
    <3>1. file.endBlock = file.startBlock + 0 * SUPERSECTORNUM
      BY <1>2, <2>3 DEF EndOK
    <3>2. QED
      BY <1>2, <3>1, SuperSectorAssumption
  <2>5. QED
    BY <1>2, <1>3, <2>1, <2>3, <2>4
<1>6. CASE flushBuffs
  <2>1. pc = "flush" /\ Active /\ Flushed = cur /\ stream' = stream
    BY <1>6 DEF flushBuffs, Active, Flushed
  <2>2. Flushed' = cur + 1
    <3>1. \/ pc' = "flush" /\ cur' = cur + 1
          \/ pc' = "save" /\ cur' = 0 /\ cur + 1 = NumDisks
      BY <1>1, <1>6, ContinueKeepsCur DEF flushBuffs
    <3>2. QED
      BY <3>1 DEF Flushed
  <2>3. SUFFICES ASSUME NoneFull(stream)
                 PROVE  file'.endBlock = file'.startBlock + (cur + 1) * SUPERSECTORNUM
    BY <1>1, <2>1, <2>2 DEF EndOK, NoneFull
  <2>4. (sp.dataWrote[cur] % SUPERSECTORLENGTH) # 0
    BY <1>1, <2>1, <2>3, WriterParts DEF NoneFull, BuffersOK, Held
  <2>5. /\ file'.startBlock = file.startBlock
        /\ file'.endBlock = file.endBlock + SUPERSECTORNUM
    BY <1>2, <1>6, <2>4, flushBuffsWrites
  <2>6. file.endBlock = file.startBlock + cur * SUPERSECTORNUM
    BY <2>1, <2>3 DEF EndOK
  <2>7. (cur + 1) * SUPERSECTORNUM = cur * SUPERSECTORNUM + SUPERSECTORNUM
        /\ cur * SUPERSECTORNUM \in Nat
    BY <1>1, SuperSectorAssumption
  <2>8. QED
    BY <1>2, <2>5, <2>6, <2>7, SuperSectorAssumption
<1>7. CASE updateRaid \/ overruns \/ Crash \/ initSpcapFails
  BY <1>7 DEF EndOK, Active, updateRaid, overruns, Crash, initSpcapFails, Ends
<1>8. CASE UNCHANGED vars
  BY <1>8 DEF vars, EndOK, Active, Flushed, NoneFull
<1>9. QED
  BY <1>4, <1>5, <1>6, <1>7, <1>8 DEF Next

\* What is written for a capture that begins at a super-sector is in the row of blocks at
\* its start (spcap.c:17, 71 and 75), and its entry claims this row when it is saved
\* (spcap.c:76), if the data ends with a super-sector on no disk.
THEOREM WritesInsideCorrect == Spec => WritesInside
<1> DEFINE InRow == Aligned(file) =>
             \A u \in Units : disk'[u] # disk[u] =>
               \E b \in Row(file) : Location(NumDisks, b) = <<u[1], u[2] \div SECTORLENGTH>>
           Claimed == \A c \in captures' \ captures :
             NoneFull(c.stream) => Row(c) = c.startBlock .. c.endBlock - 1
<1>1. ASSUME WriterInv, [Next]_vars
      PROVE  InRow
  <2>1. CASE disk' = disk
    BY <2>1
  <2>2. CASE flushBuffs /\ (sp.dataWrote[cur] % SUPERSECTORLENGTH) # 0
    <3>1. PICK start, d, s : start = file.startBlock /\ d = cur /\ s = sp
      OBVIOUS
    <3>2. PICK w :
            /\ IsFlush(s, d, w) /\ w.lba = FirstLba(start, d)
            /\ disk' = Stored(w) \/ disk' = disk
      BY <1>1, <2>2, <3>1, flushBuffsWrites
    <3>3. start \in Nat /\ d \in Disks /\ s.curlba[d] \in Nat /\ disk \in [Units -> Data]
      <4>1. s.curlba \in [Disks -> Nat]
        BY <1>1, <3>1, WriterParts DEF IsSpcap
      <4>2. QED
        BY <1>1, <3>1, <4>1, WriterParts
    <3>4. ASSUME start % SUPERSECTORNUM = 0, NEW u \in Units, disk'[u] # disk[u]
          PROVE  \E b \in start .. start + NumDisks * SUPERSECTORNUM - 1 :
                   Location(NumDisks, b) = <<u[1], u[2] \div SECTORLENGTH>>
      <4>1. disk' = Stored(w)
        BY <3>2, <3>4
      <4>2. u \in SuperSectorAt(d, FirstLba(start, d))
        BY <3>2, <3>3, <3>4, <4>1, StoredIs
      <4>3. QED
        BY <3>3, <3>4, <4>2, FlushedInside
    <3>5. QED
      BY <3>1, <3>4 DEF Aligned, Row
  <2>3. CASE flushBuffs /\ (sp.dataWrote[cur] % SUPERSECTORLENGTH) = 0
    <3>1. Writes(sp)
      BY <2>3 DEF flushBuffs
    <3>2. QED
      BY <1>1, <2>1, <3>1, WriterParts, WritesNone
  <2>4. CASE (\E p \in Packets : writePkt(p)) \/ writeTrailer
    BY <1>1, <2>1, <2>4, BuffersOnly
  <2>5. QED
    BY <1>1, <2>1, <2>2, <2>3, <2>4
       DEF Next, vars, initSpcap, initSpcapFails, freeSpcap, updateRaid, overruns, Crash
<1>2. ASSUME WriterInv, EndOK, [Next]_vars
      PROVE  Claimed
  <2>1. SUFFICES ASSUME NEW c \in captures' \ captures, NoneFull(c.stream)
                 PROVE  Row(c) = c.startBlock .. c.endBlock - 1
    OBVIOUS
  <2>2. updateRaid
    BY <1>2, <2>1 DEF Next, vars, initSpcap, initSpcapFails, writePkt, freeSpcap,
                      writeTrailer, flushBuffs, overruns, Crash
  <2>3. /\ pc = "save" /\ c.startBlock = file.startBlock /\ c.endBlock = file.endBlock
        /\ c.stream = stream
    BY <2>1, <2>2 DEF updateRaid
  <2>4. file.endBlock = file.startBlock + NumDisks * SUPERSECTORNUM
    BY <1>2, <2>1, <2>3 DEF EndOK, Active, Flushed
  <2>5. PICK size \in Nat : size = NumDisks * SUPERSECTORNUM
    BY SpcapAssumption, SuperSectorAssumption
  <2>6. c.startBlock \in Nat /\ c.endBlock = c.startBlock + size
    BY <1>2, <2>3, <2>4, <2>5, WriterParts
  <2>7. Row(c) = c.startBlock .. c.startBlock + size - 1
    BY <2>5 DEF Row
  <2>8. QED
    BY <2>6, <2>7
<1>3. Init => EndOK
  BY DEF Init, EndOK, Active
<1>4. Spec => []EndOK
  BY <1>3, EndNext, WriterCorrect, PTL DEF Spec
<1>5. WriterInv /\ EndOK /\ [Next]_vars => [InRow /\ Claimed]_vars
  BY <1>1, <1>2
<1>6. QED
  BY <1>4, <1>5, WriterCorrect, PTL DEF Spec, WritesInside
=============================================================================

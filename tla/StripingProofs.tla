--------------------------- MODULE StripingProofs ---------------------------
(* That the super_* functions deal the blocks of the raid to the disks      *)
(* without ever giving two blocks, or a block and the metadata, one sector. *)
EXTENDS Striping, TLAPS

\* Euclidean division.
LEMMA DivMod ==
    ASSUME NEW a \in Nat, NEW m \in Nat \ {0}
    PROVE  /\ a \div m \in Nat
           /\ (a % m) \in 0 .. m - 1
           /\ a = m * (a \div m) + (a % m)
  BY SMT

\* A quotient and a remainder are those of one number only.
LEMMA DivModUnique ==
    ASSUME NEW m \in Nat \ {0},
           NEW p \in Nat, NEW q \in Nat, NEW r \in 0 .. m - 1, NEW s \in 0 .. m - 1,
           m * p + r = m * q + s
    PROVE  p = q /\ r = s
<1>1. CASE p < q
  <2>1. m * (q - p) >= m
    BY <1>1, SMT
  <2>2. m * (q - p) = r - s
    BY SMT
  <2>3. QED
    BY <2>1, <2>2
<1>2. CASE q < p
  <2>1. m * (p - q) >= m
    BY <1>2, SMT
  <2>2. m * (p - q) = s - r
    BY SMT
  <2>3. QED
    BY <2>1, <2>2
<1>3. CASE p = q
  BY <1>3
<1>4. QED
  BY <1>1, <1>2, <1>3

\* What super_getdisklba (fs.c:220-224) computes: the super-sectors of the same
\* disk that come before, the place inside the super-sector, and the one
\* super-sector that every disk keeps free.
LEMMA DiskLba ==
    ASSUME NEW n \in Nat \ {0}, NEW lba \in Nat
    PROVE  super_getdisklba(n, lba) =
             SUPERSECTORNUM * (super_getid(lba) \div n)
               + (lba % SUPERSECTORNUM) + SUPERSECTORNUM
<1> DEFINE id == super_getid(lba)
<1>1. /\ id \in Nat
      /\ (lba % SUPERSECTORNUM) \in Nat
      /\ lba = SUPERSECTORNUM * id + (lba % SUPERSECTORNUM)
  BY DivMod, SuperSectorAssumption DEF super_getid
<1>2. id \div n \in Nat
  BY <1>1, DivMod
<1> HIDE DEF id
<1>3. (id - id \div n) * SUPERSECTORNUM
         = SUPERSECTORNUM * id - SUPERSECTORNUM * (id \div n)
  BY <1>1, <1>2, SuperSectorAssumption, SMT
<1>4. SUPERSECTORNUM * id \in Nat /\ SUPERSECTORNUM * (id \div n) \in Nat
  BY <1>1, <1>2, SuperSectorAssumption, SMT
<1>5. super_getdisklba(n, lba) =
        (lba - (id - id \div n) * SUPERSECTORNUM) + SUPERSECTORNUM
  BY DEF super_getdisklba, id
<1>6. QED
  BY <1>1, <1>3, <1>4, <1>5, SuperSectorAssumption DEF id

\* No block of the raid is in the first super-sector of a disk, where its
\* metadata is.
THEOREM KeepsMetasector ==
    ASSUME NEW n \in Nat \ {0}, NEW lba \in Nat
    PROVE  super_getdisklba(n, lba) >= SUPERSECTORNUM
<1>1. super_getid(lba) \in Nat /\ (lba % SUPERSECTORNUM) \in Nat
  BY DivMod, SuperSectorAssumption DEF super_getid
<1>2. super_getid(lba) \div n \in Nat
  BY <1>1, DivMod
<1>3. SUPERSECTORNUM * (super_getid(lba) \div n) \in Nat
  BY <1>2, SuperSectorAssumption, SMT
<1>4. QED
  BY <1>1, <1>3, DiskLba, SuperSectorAssumption

\* Two blocks of the raid are never in the same sector of the same disk.
THEOREM LocationInjective ==
    ASSUME NEW n \in Nat \ {0}, NEW x \in Nat, NEW y \in Nat,
           Location(n, x) = Location(n, y)
    PROVE  x = y
<1> DEFINE i == super_getid(x)
           j == super_getid(y)
<1>1. /\ i \in Nat /\ (x % SUPERSECTORNUM) \in 0 .. SUPERSECTORNUM - 1
      /\ j \in Nat /\ (y % SUPERSECTORNUM) \in 0 .. SUPERSECTORNUM - 1
      /\ x = SUPERSECTORNUM * i + (x % SUPERSECTORNUM)
      /\ y = SUPERSECTORNUM * j + (y % SUPERSECTORNUM)
  BY DivMod, SuperSectorAssumption DEF super_getid
<1>2. /\ i \div n \in Nat /\ i = n * (i \div n) + (i % n)
      /\ j \div n \in Nat /\ j = n * (j \div n) + (j % n)
  BY <1>1, DivMod
<1>3. (i % n) = (j % n)
  BY DEF Location, super_getdisk
<1>4. super_getdisklba(n, x) = super_getdisklba(n, y)
  BY DEF Location
<1>5. super_getdisklba(n, x) =
        SUPERSECTORNUM * (i \div n) + (x % SUPERSECTORNUM) + SUPERSECTORNUM
  BY DiskLba
<1>6. super_getdisklba(n, y) =
        SUPERSECTORNUM * (j \div n) + (y % SUPERSECTORNUM) + SUPERSECTORNUM
  BY DiskLba
<1> HIDE DEF i, j
<1> DEFINE p == i \div n
           q == j \div n
           r == x % SUPERSECTORNUM
           s == y % SUPERSECTORNUM
<1>7. /\ p \in Nat /\ r \in 0 .. SUPERSECTORNUM - 1
      /\ q \in Nat /\ s \in 0 .. SUPERSECTORNUM - 1
      /\ SUPERSECTORNUM * p + r + SUPERSECTORNUM = SUPERSECTORNUM * q + s + SUPERSECTORNUM
  BY <1>1, <1>2, <1>4, <1>5, <1>6
<1>8. p = q /\ r = s
  <2> HIDE DEF p, q, r, s
  <2>1. SUPERSECTORNUM * p \in Nat /\ SUPERSECTORNUM * q \in Nat
    BY <1>7, SuperSectorAssumption, SMT
  <2>2. SUPERSECTORNUM * p + r = SUPERSECTORNUM * q + s
    BY <1>7, <2>1, SuperSectorAssumption
  <2>3. QED
    BY <1>7, <2>2, DivModUnique, SuperSectorAssumption
<1>9. i = j
  BY <1>2, <1>3, <1>8
<1>10. QED
  BY <1>1, <1>8, <1>9

\* The blocks of one super-sector follow one another on one disk, so a transfer
\* that does not leave the super-sector is one command of the disk
\* (simpleio.c:98-172, 174-254).
THEOREM SuperSectorContiguous ==
    ASSUME NEW n \in Nat \ {0}, NEW lba \in Nat, NEW k \in Nat,
           (lba % SUPERSECTORNUM) + k < SUPERSECTORNUM
    PROVE  /\ super_getdisk(n, lba + k) = super_getdisk(n, lba)
           /\ super_getdisklba(n, lba + k) = super_getdisklba(n, lba) + k
<1>1. /\ super_getid(lba) \in Nat
      /\ (lba % SUPERSECTORNUM) \in 0 .. SUPERSECTORNUM - 1
      /\ lba = SUPERSECTORNUM * super_getid(lba) + (lba % SUPERSECTORNUM)
  BY DivMod, SuperSectorAssumption DEF super_getid
<1>2. /\ super_getid(lba + k) \in Nat
      /\ ((lba + k) % SUPERSECTORNUM) \in 0 .. SUPERSECTORNUM - 1
      /\ lba + k = SUPERSECTORNUM * super_getid(lba + k) + ((lba + k) % SUPERSECTORNUM)
  <2>1. lba + k \in Nat
    OBVIOUS
  <2>2. QED
    BY <2>1, DivMod, SuperSectorAssumption DEF super_getid
<1>3. (lba % SUPERSECTORNUM) + k \in 0 .. SUPERSECTORNUM - 1
  BY <1>1, SuperSectorAssumption
<1>4. /\ SUPERSECTORNUM * super_getid(lba) \in Nat
      /\ SUPERSECTORNUM * super_getid(lba + k) \in Nat
  BY <1>1, <1>2, SuperSectorAssumption, SMT
<1>5. SUPERSECTORNUM * super_getid(lba + k) + ((lba + k) % SUPERSECTORNUM)
        = SUPERSECTORNUM * super_getid(lba) + ((lba % SUPERSECTORNUM) + k)
  BY <1>1, <1>2, <1>3, <1>4
<1>6. /\ super_getid(lba + k) = super_getid(lba)
      /\ ((lba + k) % SUPERSECTORNUM) = (lba % SUPERSECTORNUM) + k
  <2> DEFINE p == super_getid(lba + k)
             q == super_getid(lba)
             r == (lba + k) % SUPERSECTORNUM
             s == (lba % SUPERSECTORNUM) + k
  <2>1. /\ p \in Nat /\ r \in 0 .. SUPERSECTORNUM - 1
        /\ q \in Nat /\ s \in 0 .. SUPERSECTORNUM - 1
        /\ SUPERSECTORNUM * p + r = SUPERSECTORNUM * q + s
    BY <1>1, <1>2, <1>3, <1>5
  <2>2. p = q /\ r = s
    <3> HIDE DEF p, q, r, s
    <3>1. QED
      BY <2>1, DivModUnique, SuperSectorAssumption
  <2>3. QED
    BY <2>2
<1>7. super_getid(lba) \div n \in Nat
  BY <1>1, DivMod
<1>8. SUPERSECTORNUM * (super_getid(lba) \div n) \in Nat
  BY <1>7, SuperSectorAssumption, SMT
<1>9. super_getdisklba(n, lba + k) =
        SUPERSECTORNUM * (super_getid(lba + k) \div n)
          + ((lba + k) % SUPERSECTORNUM) + SUPERSECTORNUM
  BY DiskLba
<1>10. super_getdisklba(n, lba + k) = super_getdisklba(n, lba) + k
  <2> DEFINE A == SUPERSECTORNUM * (super_getid(lba) \div n)
             r == lba % SUPERSECTORNUM
  <2>1. super_getdisklba(n, lba + k) = A + (r + k) + SUPERSECTORNUM
    BY <1>6, <1>9
  <2>2. super_getdisklba(n, lba) = A + r + SUPERSECTORNUM
    BY DiskLba
  <2>3. A \in Nat /\ r \in Nat /\ SUPERSECTORNUM \in Nat
    BY <1>1, <1>8, SuperSectorAssumption
  <2> HIDE DEF A, r
  <2>4. QED
    BY <2>1, <2>2, <2>3
<1>11. QED
  BY <1>6, <1>10 DEF super_getdisk

\* Of n numbers in a row, no two have the same remainder.
LEMMA OneOfARow ==
    ASSUME NEW n \in Nat \ {0}, NEW k \in Int, 0 <= k + 1,
           NEW a \in k + 1 .. k + n, NEW b \in k + 1 .. k + n, a % n = b % n
    PROVE  a = b
<1> DEFINE p == a \div n
           q == b \div n
           r == a % n
<1>1. a \in Nat /\ b \in Nat
  OBVIOUS
<1>2. p \in Nat /\ r \in 0 .. n - 1 /\ a = n * p + r
  BY <1>1, DivMod
<1>3. q \in Nat /\ b = n * q + r
  BY <1>1, DivMod
<1> HIDE DEF p, q, r
<1>4. n * p \in Nat /\ n * q \in Nat
  BY <1>2, <1>3
<1>5. CASE p < q
  <2>1. PICK e \in Nat : q = p + 1 + e
    BY <1>2, <1>3, <1>5
  <2>2. n * q = n * p + n + n * e /\ n * e \in Nat
    BY <1>2, <2>1
  <2>3. b >= a + n
    BY <1>2, <1>3, <1>4, <2>2
  <2>4. QED
    BY <2>3
<1>6. CASE q < p
  <2>1. PICK e \in Nat : p = q + 1 + e
    BY <1>2, <1>3, <1>6
  <2>2. n * p = n * q + n + n * e /\ n * e \in Nat
    BY <1>3, <2>1
  <2>3. a >= b + n
    BY <1>2, <1>3, <1>4, <2>2
  <2>4. QED
    BY <2>3
<1>7. QED
  BY <1>2, <1>3, <1>5, <1>6

\* Every disk has one of n super-sectors in a row.
LEMMA SomeOfARow ==
    ASSUME NEW n \in Nat \ {0}, NEW k \in Nat, NEW d \in 0 .. n - 1
    PROVE  \E i \in 0 .. n - 1 : (k + i) % n = d
<1> DEFINE r == k % n
           p == k \div n
           i == IF d >= r THEN d - r ELSE d + n - r
           q == IF d >= r THEN p ELSE p + 1
<1>1. p \in Nat /\ r \in 0 .. n - 1 /\ k = n * p + r
  BY DivMod
<1> HIDE DEF p, r
<1>2. n * (p + 1) = n * p + n /\ n * p \in Nat
  BY <1>1
<1>3. i \in 0 .. n - 1 /\ q \in Nat /\ k + i = n * q + d
  <2>1. CASE d >= r
    BY <1>1, <1>2, <2>1
  <2>2. CASE ~(d >= r)
    BY <1>1, <1>2, <2>2
  <2>3. QED
    BY <2>1, <2>2
<1> HIDE DEF i, q
<1>4. k + i \in Nat
  BY <1>3
<1> DEFINE u == (k + i) \div n
           v == (k + i) % n
<1>5. u \in Nat /\ v \in 0 .. n - 1 /\ k + i = n * u + v
  BY <1>4, DivMod
<1> HIDE DEF u, v
<1>6. n * u + v = n * q + d
  BY <1>3, <1>5
<1>7. v = d
  BY <1>3, <1>5, <1>6, DivModUnique
<1>8. QED
  BY <1>3, <1>7 DEF v

\* The same block of the super-sector that is i super-sectors on.
LEMMA SuperShift ==
    ASSUME NEW x \in Nat, NEW i \in Nat
    PROVE  /\ x + i * SUPERSECTORNUM \in Nat
           /\ super_getid(x + i * SUPERSECTORNUM) = super_getid(x) + i
           /\ (x + i * SUPERSECTORNUM) % SUPERSECTORNUM = x % SUPERSECTORNUM
<1> DEFINE S == SUPERSECTORNUM
           p == x \div S
           r == x % S
           y == x + i * S
<1>1. S \in Nat \ {0} /\ p \in Nat /\ r \in 0 .. S - 1 /\ x = S * p + r
  BY SuperSectorAssumption, DivMod
<1>2. y \in Nat
  BY <1>1
<1> HIDE DEF S, p, r
<1>3. /\ S * (p + i) = S * p + i * S /\ p + i \in Nat
      /\ S * p \in Nat /\ i * S \in Nat
  BY <1>1
<1>4. y = S * (p + i) + r
  <2>1. y = S * p + r + i * S
    BY <1>1
  <2>2. QED
    BY <1>1, <1>3, <2>1
<1> HIDE DEF y
<1> DEFINE u == y \div S
           v == y % S
           w == p + i
<1>5. u \in Nat /\ v \in 0 .. S - 1 /\ y = S * u + v
  BY <1>1, <1>2, DivMod
<1>6. w \in Nat /\ S * u + v = S * w + r
  BY <1>3, <1>4, <1>5
<1> HIDE DEF u, v, w
<1>7. u = w /\ v = r
  BY <1>1, <1>5, <1>6, DivModUnique
<1>8. QED
  BY <1>2, <1>7 DEF S, p, r, y, u, v, w, super_getid
=============================================================================

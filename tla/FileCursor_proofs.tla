--------------------------- MODULE FileCursor_proofs ---------------------------
(***************************************************************************)
(* Proofs about FileCursor for every chain, size, sector and cluster shape *)
(* and length of the caller's buffer.                                      *)
(***************************************************************************)
EXTENDS FileCursor, TLAPS

-----------------------------------------------------------------------------
(* Arithmetic.                                                             *)

\* Quotient and remainder.
LEMMA DivMod ==
  \A a \in Nat, b \in Nat \ {0} :
    a \div b \in Nat /\ a % b \in 0..(b - 1) /\ a = b * (a \div b) + (a % b)
  OBVIOUS

\* The quotient is the only k with k * b <= a < (k + 1) * b.
LEMMA DivUnique ==
  ASSUME NEW a \in Nat, NEW b \in Nat \ {0}, NEW k \in Nat, k * b <= a, a < (k + 1) * b
  PROVE  a \div b = k /\ a % b = a - k * b
<1> DEFINE q == a \div b
<1>1. q \in Nat /\ a % b \in 0..(b - 1) /\ a = b * q + (a % b)
  BY DivMod
<1> HIDE DEF q
<1>2. ASSUME q < k PROVE FALSE
  <2>1. q + 1 <= k
    BY <1>1, <1>2
  <2>2. (q + 1) * b <= k * b
    BY <1>1, <2>1
  <2>3. (q + 1) * b = b * q + b
    BY <1>1
  <2> QED
    BY <1>1, <2>2, <2>3
<1>3. ASSUME k < q PROVE FALSE
  <2>1. k + 1 <= q
    BY <1>1, <1>3
  <2>2. (k + 1) * b <= q * b
    BY <1>1, <2>1
  <2>3. q * b = b * q
    BY <1>1
  <2> QED
    BY <1>1, <2>2, <2>3
<1> QED
  BY <1>1, <1>2, <1>3 DEF q

\* The least of three numbers.
LEMMA MinOfThree ==
  ASSUME NEW a \in Int, NEW b \in Int, NEW c \in Int
  PROVE  /\ Min({a, b, c}) \in {a, b, c}
         /\ Min({a, b, c}) <= a /\ Min({a, b, c}) <= b /\ Min({a, b, c}) <= c
<1> DEFINE Least(x) == x \in {a, b, c} /\ \A y \in {a, b, c} : x <= y
<1>1. \E x : Least(x)
  <2>1. CASE a <= b /\ a <= c
    BY <2>1
  <2>2. CASE b <= a /\ b <= c
    BY <2>2
  <2>3. CASE c <= a /\ c <= b
    BY <2>3
  <2> QED
    BY <2>1, <2>2, <2>3
<1>2. Min({a, b, c}) = CHOOSE x \in {a, b, c} : \A y \in {a, b, c} : x <= y
  BY DEF Min
<1> QED
  BY <1>1, <1>2

\* A cluster holds at least one byte.
LEMMA ClusterBytesType == ClusterBytes \in Nat \ {0}
  BY ShapeAssumption DEF ClusterBytes

\* A cluster is a whole number of sectors: the sector of the cursor ends inside of
\* the cluster, and the place in the sector is counted from either.
LEMMA SectorEnds ==
  ASSUME NEW k \in 1..Len(Chain), NEW s \in Nat, s = (k - 1) * ClusterBytes,
         NEW p \in Nat, s <= p, p - s < ClusterBytes
  PROVE  /\ p % BlockSize = (p - s) % BlockSize
         /\ BlockSize * ((p - s) \div BlockSize) + BlockSize <= ClusterBytes
<1> DEFINE d == p - s
<1> DEFINE b == d \div BlockSize
<1> DEFINE r == d % BlockSize
<1>1. ClusterBytes \in Nat \ {0} /\ BlockSize \in Nat \ {0} /\ Blocks \in Nat \ {0}
  BY ClusterBytesType, ShapeAssumption
<1>2. d \in Nat /\ p = s + d /\ d < ClusterBytes
  OBVIOUS
<1>3. b \in Nat /\ r \in 0..(BlockSize - 1) /\ d = BlockSize * b + r
  BY DivMod, <1>1, <1>2
<1> HIDE DEF d, b, r
<1>4. b < Blocks
  <2>1. SUFFICES ASSUME Blocks <= b PROVE FALSE
    BY <1>1, <1>3
  <2>2. BlockSize * Blocks <= BlockSize * b
    BY <1>1, <1>3, <2>1
  <2>3. ClusterBytes = BlockSize * Blocks
    BY <1>1 DEF ClusterBytes
  <2> QED
    BY <1>1, <1>2, <1>3, <2>2, <2>3
<1>5. BlockSize * b + BlockSize <= ClusterBytes
  <2>1. BlockSize * (b + 1) <= BlockSize * Blocks
    BY <1>1, <1>3, <1>4
  <2> QED
    BY <1>1, <1>3, <2>1 DEF ClusterBytes
<1> DEFINE m == (k - 1) * Blocks + b
<1>6. m \in Nat /\ m * BlockSize = s + BlockSize * b
  <2>1. ((k - 1) * Blocks) * BlockSize = (k - 1) * (Blocks * BlockSize)
    BY <1>1
  <2>2. m * BlockSize = ((k - 1) * Blocks) * BlockSize + b * BlockSize
    BY <1>1, <1>3
  <2> QED
    BY <1>1, <1>3, <2>1, <2>2 DEF ClusterBytes
<1>7. (m + 1) * BlockSize = m * BlockSize + BlockSize
  BY <1>1, <1>6
<1> HIDE DEF m
<1>8. p % BlockSize = r
  <2>1. m * BlockSize <= p /\ p < (m + 1) * BlockSize /\ p - m * BlockSize = r
    BY <1>1, <1>2, <1>3, <1>6, <1>7
  <2> QED
    BY DivUnique, <1>1, <1>6, <2>1
<1> QED
  BY <1>5, <1>8 DEF d, b, r

\* The bytes of the sector that data() computes from "last", "short" and the
\* cursor are bytes of the file: the ones at and after the cursor.
LEMMA SectorHoldsContent ==
  ASSUME NEW k \in 1..Len(Chain), NEW s \in Nat, s = (k - 1) * ClusterBytes,
         NEW p \in Nat, s <= p, p - s < ClusterBytes,
         NEW j \in Nat, (p % BlockSize) + j < BlockSize
  PROVE  Content(p + j) = <<DataSector(Chain[k], (p - s) \div BlockSize), (p % BlockSize) + j>>
<1> DEFINE d == p - s
<1> DEFINE b == d \div BlockSize
<1> DEFINE r == d % BlockSize
<1>1. ClusterBytes \in Nat \ {0} /\ BlockSize \in Nat \ {0} /\ Blocks \in Nat \ {0}
  BY ClusterBytesType, ShapeAssumption
<1>2. d \in Nat /\ p = s + d /\ d < ClusterBytes
  OBVIOUS
<1>3. b \in Nat /\ r \in 0..(BlockSize - 1) /\ d = BlockSize * b + r
  BY DivMod, <1>1, <1>2
<1> HIDE DEF d, b, r
<1>5. BlockSize * b + BlockSize <= ClusterBytes
  BY SectorEnds DEF d, b
<1> DEFINE m == (k - 1) * Blocks + b
<1>6. m \in Nat /\ m * BlockSize = s + BlockSize * b
  <2>1. ((k - 1) * Blocks) * BlockSize = (k - 1) * (Blocks * BlockSize)
    BY <1>1
  <2>2. m * BlockSize = ((k - 1) * Blocks) * BlockSize + b * BlockSize
    BY <1>1, <1>3
  <2> QED
    BY <1>1, <1>3, <2>1, <2>2 DEF ClusterBytes
<1>7. (m + 1) * BlockSize = m * BlockSize + BlockSize
  BY <1>1, <1>6
<1> HIDE DEF m
<1>8. p % BlockSize = r
  BY SectorEnds DEF d, r
<1>9. d + j \in Nat /\ d + j < ClusterBytes /\ p + j = s + (d + j) /\ p + j \in Nat
  BY <1>1, <1>2, <1>3, <1>5, <1>8
<1>10. (p + j) \div ClusterBytes = k - 1 /\ (p + j) % ClusterBytes = d + j
  <2>1. k - 1 \in Nat /\ ((k - 1) + 1) * ClusterBytes = s + ClusterBytes
    BY <1>1
  <2>2. (k - 1) * ClusterBytes <= p + j /\ p + j < ((k - 1) + 1) * ClusterBytes
    BY <1>1, <1>9, <2>1
  <2>3. (p + j) \div ClusterBytes = k - 1 /\ (p + j) % ClusterBytes = (p + j) - (k - 1) * ClusterBytes
    BY DivUnique, <1>1, <1>9, <2>1, <2>2
  <2> QED
    BY <1>1, <1>2, <1>9, <2>3
<1>11. (d + j) \div BlockSize = b
  <2>1. b * BlockSize <= d + j /\ d + j < (b + 1) * BlockSize
    <3>1. (b + 1) * BlockSize = BlockSize * b + BlockSize /\ b * BlockSize = BlockSize * b
      BY <1>1, <1>3
    <3> QED
      BY <1>1, <1>2, <1>3, <1>8, <3>1
  <2> QED
    BY DivUnique, <1>1, <1>3, <1>9, <2>1
<1>12. (p + j) % BlockSize = r + j
  <2>1. m * BlockSize <= p + j /\ p + j < (m + 1) * BlockSize /\ (p + j) - m * BlockSize = r + j
    BY <1>1, <1>2, <1>3, <1>8, <1>9, <1>6, <1>7
  <2> DEFINE a == p + j
  <2>2. a \in Nat /\ m * BlockSize <= a /\ a < (m + 1) * BlockSize
    BY <1>9, <2>1
  <2> HIDE DEF a
  <2>3. a % BlockSize = a - m * BlockSize
    BY DivUnique, <1>1, <1>6, <2>2
  <2> QED
    BY <2>1, <2>3 DEF a
<1>13. (k - 1) + 1 = k
  OBVIOUS
<1> QED
  BY <1>8, <1>10, <1>11, <1>12, <1>13 DEF Content, d, b
-----------------------------------------------------------------------------
(* The inductive invariant.                                                *)

\* In the middle of data() there is something to read, not before "short".
WalkInv == phase = "walk" => short <= pos /\ Len(got) < want /\ pos < size

\* The sector a read of a File believes is in the buffer is there, or the walk
\* has left the cluster of that sector for a later one of the chain.
TagInv ==
  kind = "file" /\ phase # "idle" /\ tag # None =>
    /\ short <= pos
    /\ \E j, k \in 1..Len(Chain), b \in Nat :
         /\ tag = DataSector(Chain[j], b)
         /\ last = Chain[k] /\ short = (k - 1) * ClusterBytes
         /\ j < k \/ (j = k /\ buf = tag)

Inv == TypeOK /\ CursorOK /\ WalkInv /\ TagInv /\ FileDelivers

\* What the chain links to: the next cluster of the file.
LEMMA NextOfChain ==
  ASSUME NEW k \in 1..Len(Chain)
  PROVE  /\ HasNext(Chain[k]) <=> k < Len(Chain)
         /\ k < Len(Chain) => NextOf(Chain[k]) = Chain[k + 1]
<1>1. Len(Chain) \in Nat
  BY ChainAssumption
<1>2. HasNext(Chain[k]) <=> k < Len(Chain)
  BY <1>1, ChainAssumption DEF HasNext
<1>3. ASSUME k < Len(Chain) PROVE NextOf(Chain[k]) = Chain[k + 1]
  <2>1. k \in 1..(Len(Chain) - 1)
    BY <1>1, <1>3
  <2> DEFINE i == CHOOSE i \in 1..(Len(Chain) - 1) : Chain[i] = Chain[k]
  <2>2. i \in 1..(Len(Chain) - 1) /\ Chain[i] = Chain[k]
    BY <2>1
  <2>3. i = k
    BY <1>1, <2>2, ChainAssumption
  <2> QED
    BY <2>3 DEF NextOf
<1> QED
  BY <1>2, <1>3

\* The first cluster, where a file is opened and where data() rewinds to.
LEMMA FirstCluster ==
  /\ Len(Chain) \in Nat /\ 1 \in 1..Len(Chain)
  /\ \A k \in 1..Len(Chain) : Chain[k] \in Nat
  /\ (1 - 1) * ClusterBytes = 0
<1>1. (1 - 1) * ClusterBytes = 0
  BY ClusterBytesType
<1> QED
  BY <1>1, ChainAssumption

\* The invariant holds when the file is opened.
LEMMA InitInv == Init => Inv
<1> SUFFICES ASSUME Init PROVE Inv
  OBVIOUS
<1>1. TypeOK
  BY FirstCluster, SizeAssumption DEF Init, TypeOK, Sectors, Junk, None, Cells
<1>2. CursorOK
  BY FirstCluster DEF Init, CursorOK
<1> QED
  BY <1>1, <1>2 DEF Init, Inv, WalkInv, TagInv, FileDelivers

\* A sector and a byte of it have their types.
LEMMA SectorTypes ==
  ASSUME TypeOK
  PROVE  /\ Junk \in Sectors /\ FatSector(last) \in Sectors
         /\ \A b \in Nat : DataSector(last, b) \in Sectors
         /\ \A b \in Nat : DataSector(last, b) # None
<1>1. last \div PerFat \in Nat
  BY DivMod, ShapeAssumption DEF TypeOK
<1> QED
  BY <1>1 DEF TypeOK, Sectors, Junk, None, FatSector, DataSector

\* A call starts.
LEMMA CallInv == ASSUME Inv, NEW t \in 1..MaxLen, Call(t) PROVE Inv'
<1> USE DEF Inv, Call
<1>1. TypeOK'
  BY SizeAssumption, SectorTypes DEF TypeOK
<1>2. CursorOK'
  BY DEF CursorOK
<1>3. WalkInv' /\ TagInv'
  BY DEF WalkInv, TagInv
<1>4. FileDelivers'
  BY DEF FileDelivers, GotIsFile, TypeOK
<1> QED
  BY <1>1, <1>2, <1>3, <1>4

\* A call returns without copying more: the loop ends, the chain ends or the
\* device fails.
LEMMA ReturnInv ==
  ASSUME Inv, phase' = "idle", res' \in {"ok", "err"},
         UNCHANGED <<pos, short, last, got, tag, call>>,
         buf' \in Sectors, cached' \in Sectors \union {None}
  PROVE  Inv'
<1> USE DEF Inv, call
<1>1. TypeOK'
  BY DEF TypeOK
<1>2. CursorOK'
  BY DEF CursorOK
<1> QED
  BY <1>1, <1>2 DEF WalkInv, TagInv, FileDelivers

\* data() starts; a rewind happens before the first sector of the call only.
LEMMA EnterInv == ASSUME Inv, Enter PROVE Inv'
<1> USE DEF Inv, Enter, call
<1>1. TypeOK'
  BY FirstCluster DEF TypeOK
<1>2. CursorOK' /\ short' <= pos
  BY FirstCluster DEF CursorOK, TypeOK
<1>3. WalkInv'
  BY <1>2 DEF WalkInv
<1>4. TagInv'
  BY DEF TagInv, TypeOK
<1>5. FileDelivers'
  BY DEF FileDelivers, GotIsFile
<1> QED
  BY <1>1, <1>2, <1>3, <1>4, <1>5

\* The walk moves to the next cluster and the next multiple of the cluster size.
LEMMA HopInv == ASSUME Inv, Hop PROVE Inv'
<1> USE DEF Inv
<1>1. PICK k \in 1..Len(Chain) : last = Chain[k] /\ short = (k - 1) * ClusterBytes
  BY DEF CursorOK
<1>2. /\ phase = "walk" /\ pos - short >= ClusterBytes
      /\ UNCHANGED <<pos, got, tag, kind, want, size>>
      /\ buf' \in Sectors /\ cached' \in Sectors
  BY SectorTypes DEF Hop, call, TypeOK
<1>3. CASE ~HasNext(last)
  BY <1>2, <1>3, ReturnInv DEF Hop, Return, call
<1>4. CASE HasNext(last)
  <2>1. k < Len(Chain) /\ k + 1 \in 1..Len(Chain)
    BY <1>1, <1>4, NextOfChain, FirstCluster
  <2>2. /\ last' = Chain[k + 1]
        /\ short' = short + ClusterBytes
        /\ phase' = phase /\ res' = res
    BY <1>1, <1>4, <2>1, NextOfChain DEF Hop
  <2>3. short' = ((k + 1) - 1) * ClusterBytes
    BY <1>1, <2>2, ClusterBytesType, FirstCluster
  <2>4. short' \in Nat /\ short' <= pos /\ last' \in Nat
    BY <1>2, <2>1, <2>2, ClusterBytesType, FirstCluster DEF TypeOK
  <2>5. TypeOK'
    BY <1>2, <2>2, <2>4 DEF TypeOK
  <2>6. CursorOK'
    BY <2>1, <2>2, <2>3 DEF CursorOK
  <2>7. WalkInv'
    BY <1>2, <2>2, <2>4 DEF WalkInv
  <2>8. TagInv'
    <3>1. SUFFICES ASSUME kind = "file", tag # None
                   PROVE  \E j \in 1..Len(Chain), b \in Nat : tag = DataSector(Chain[j], b) /\ j < k + 1
      BY <1>2, <2>1, <2>2, <2>3, <2>4 DEF TagInv
    <3>2. PICK j \in 1..Len(Chain), l \in 1..Len(Chain), b \in Nat :
            /\ tag = DataSector(Chain[j], b)
            /\ last = Chain[l] /\ j <= l
      BY <1>2, <3>1 DEF TagInv
    <3>3. l = k
      BY <1>1, <3>2, ChainAssumption
    <3> QED
      BY <3>2, <3>3, FirstCluster
  <2>9. FileDelivers'
    BY <1>2, <2>2 DEF FileDelivers, GotIsFile
  <2> QED
    BY <2>5, <2>6, <2>7, <2>8, <2>9
<1> QED
  BY <1>3, <1>4

\* At least one byte is copied, up to the end of the sector, of the caller's
\* buffer or of the file.
LEMMA FetchCount ==
  ASSUME TypeOK, WalkInv, phase = "walk"
  PROVE  /\ Offset \in 0..(BlockSize - 1) /\ Offset \in Nat
         /\ Count \in Nat \ {0} /\ Count <= BlockSize - Offset
         /\ Count <= want - Len(got) /\ Count <= size - pos
         /\ (pos - short) \div BlockSize \in Nat
<1>2. short <= pos /\ Len(got) < want /\ pos < size
  BY DEF WalkInv
<1>3. Offset \in 0..(BlockSize - 1) /\ Offset \in Nat
  BY DivMod, ShapeAssumption DEF Offset, TypeOK
<1>4. Count \in Nat \ {0} /\ Count <= BlockSize - Offset /\ Count <= want - Len(got) /\ Count <= size - pos
  <2>1. BlockSize - Offset \in Nat \ {0} /\ want - Len(got) \in Nat \ {0} /\ size - pos \in Nat \ {0}
    BY <1>2, <1>3, ShapeAssumption, SizeAssumption DEF TypeOK
  <2> DEFINE x == BlockSize - Offset
  <2> DEFINE y == want - Len(got)
  <2> DEFINE z == size - pos
  <2>2. x \in Nat \ {0} /\ y \in Nat \ {0} /\ z \in Nat \ {0} /\ Count = Min({x, y, z})
    BY <2>1 DEF Count
  <2> HIDE DEF x, y, z
  <2>3. Count \in {x, y, z} /\ Count <= x /\ Count <= y /\ Count <= z
    <3>1. x \in Int /\ y \in Int /\ z \in Int
      BY <2>2
    <3>2. Min({x, y, z}) \in {x, y, z} /\ Min({x, y, z}) <= x /\ Min({x, y, z}) <= y /\ Min({x, y, z}) <= z
      BY ONLY <3>1, MinOfThree
    <3> QED
      BY <2>2, <3>2
  <2>4. Count \in Nat \ {0}
    BY <2>2, <2>3
  <2> QED
    BY <2>3, <2>4 DEF x, y, z
<1>5. (pos - short) \div BlockSize \in Nat
  <2>1. pos - short \in Nat
    BY <1>2 DEF TypeOK
  <2> QED
    BY <2>1, DivMod, ShapeAssumption
<1> QED
  BY <1>3, <1>4, <1>5

\* With the sector that data() asked for in the buffer, the bytes copied are the
\* next ones of the file, and they lie inside of the chain.
LEMMA FetchCopies ==
  ASSUME TypeOK, CursorOK, WalkInv, Fetch, buf' = Target
  PROVE  /\ got' = got \o [i \in 1..Count |-> Content(pos + i - 1)]
         /\ pos' = pos + Count /\ pos' <= Capacity
<1>1. PICK k \in 1..Len(Chain) : last = Chain[k] /\ short = (k - 1) * ClusterBytes
  BY DEF CursorOK
<1>2. /\ phase = "walk" /\ short <= pos /\ pos - short < ClusterBytes
      /\ pos' = pos + Count
      /\ got' = got \o [i \in 1..Count |-> <<Target, Offset + i - 1>>]
  BY DEF Fetch, WalkInv
<1>3. pos \in Nat /\ short \in Nat /\ Offset \in Nat /\ Count \in Nat /\ Count <= BlockSize - Offset
  BY <1>2, FetchCount DEF TypeOK
<1>4. ASSUME NEW i \in 1..Count PROVE <<Target, Offset + i - 1>> = Content(pos + i - 1)
  <2>1. i - 1 \in Nat /\ Offset + (i - 1) < BlockSize
    BY <1>3, ShapeAssumption
  <2>2. Content(pos + (i - 1)) =
          <<DataSector(Chain[k], (pos - short) \div BlockSize), Offset + (i - 1)>>
    BY <1>1, <1>2, <1>3, <2>1, SectorHoldsContent DEF Offset
  <2>3. pos + i - 1 = pos + (i - 1) /\ Offset + i - 1 = Offset + (i - 1)
    BY <1>3
  <2> QED
    BY <1>1, <2>2, <2>3 DEF Target
<1>5. pos' <= Capacity
  <2> DEFINE b == (pos - short) \div BlockSize
  <2>1. /\ Offset = (pos - short) % BlockSize
        /\ BlockSize * b + BlockSize <= ClusterBytes
    BY <1>1, <1>2, <1>3, SectorEnds DEF Offset
  <2>2. b \in Nat /\ pos - short = BlockSize * b + Offset /\ BlockSize \in Nat \ {0}
    <3>1. pos - short \in Nat /\ BlockSize \in Nat \ {0}
      BY <1>2, <1>3, ShapeAssumption
    <3> QED
      BY <2>1, <3>1, DivMod
  <2> HIDE DEF b
  <2>3. pos' <= short + ClusterBytes
    BY <1>2, <1>3, <2>1, <2>2, ClusterBytesType
  <2>4. short + ClusterBytes = k * ClusterBytes
    BY <1>1, ClusterBytesType
  <2>5. k * ClusterBytes <= Capacity
    BY ClusterBytesType, FirstCluster DEF Capacity
  <2>6. pos' \in Nat /\ Capacity \in Nat /\ k * ClusterBytes \in Nat
    BY <1>2, <1>3, ClusterBytesType, FirstCluster DEF Capacity
  <2> QED
    BY <2>3, <2>4, <2>5, <2>6
<1> QED
  BY <1>2, <1>4, <1>5

\* Bytes of the file appended to bytes of the file.
LEMMA CopyExtends ==
  ASSUME TypeOK, GotIsFile, NEW n \in Nat, pos' = pos + n,
         got' = got \o [i \in 1..n |-> Content(pos + i - 1)]
  PROVE  GotIsFile'
<1>1. pos \in Nat /\ Len(got) \in Nat /\ got \in Seq(Cells)
  BY DEF TypeOK
<1> DEFINE piece == [i \in 1..n |-> Content(pos + i - 1)]
<1> DEFINE bytes == Cells \union {Content(pos + i - 1) : i \in 1..n}
<1>2. piece \in Seq(bytes) /\ Len(piece) = n /\ got \in Seq(bytes)
  <2>1. piece \in [1..n -> bytes] /\ Cells \subseteq bytes
    OBVIOUS
  <2> HIDE DEF bytes, piece
  <2>2. Len(piece) = n /\ piece \in Seq(bytes)
    BY <2>1
  <2> QED
    BY <1>1, <2>1, <2>2
<1>3. /\ Len(got') = Len(got) + n
      /\ \A i \in 1..Len(got) : got'[i] = got[i]
      /\ \A i \in 1..n : got'[Len(got) + i] = Content(pos + i - 1)
  BY <1>1, <1>2
<1> HIDE DEF piece
<1>4. Len(got') <= pos' /\ pos' - Len(got') = pos - Len(got)
  BY <1>1, <1>3 DEF GotIsFile
<1>5. ASSUME NEW i \in 1..Len(got) PROVE got'[i] = Content(pos' - Len(got') + i - 1)
  BY <1>3, <1>4 DEF GotIsFile
<1>6. ASSUME NEW i \in 1..n
      PROVE  got'[Len(got) + i] = Content(pos' - Len(got') + (Len(got) + i) - 1)
  <2>1. pos' - Len(got') + (Len(got) + i) - 1 = pos + i - 1
    BY <1>1, <1>4
  <2> QED
    BY <1>3, <2>1
<1>7. \A m \in 1..Len(got') : m \in 1..Len(got) \/ \E i \in 1..n : m = Len(got) + i
  <2>1. SUFFICES ASSUME NEW m \in 1..Len(got'), m \notin 1..Len(got)
                 PROVE  \E i \in 1..n : m = Len(got) + i
    OBVIOUS
  <2>2. m - Len(got) \in 1..n /\ m = Len(got) + (m - Len(got))
    BY <1>1, <1>3, <2>1
  <2> QED
    BY <2>2
<1> QED
  BY <1>4, <1>5, <1>6, <1>7 DEF GotIsFile

\* A File that finds the sector it asks for remembered finds it in the buffer.
LEMMA FetchFile == ASSUME Inv, Fetch, kind = "file" PROVE buf' = Target
<1>1. phase = "walk" /\ (pos - short) \div BlockSize \in Nat
  BY FetchCount DEF Inv, Fetch
<1>2. Target # None
  BY <1>1, SectorTypes DEF Target, Inv
<1>3. SUFFICES ASSUME tag = Target PROVE buf = Target
  BY DEF Fetch
<1>4. PICK j \in 1..Len(Chain), k \in 1..Len(Chain), b \in Nat :
        /\ tag = DataSector(Chain[j], b)
        /\ last = Chain[k]
        /\ j < k \/ (j = k /\ buf = tag)
  BY <1>1, <1>2, <1>3 DEF Inv, TagInv
<1>5. Chain[j] = last
  BY <1>3, <1>4 DEF Target, DataSector
<1>6. j = k
  BY <1>4, <1>5, ChainAssumption
<1> QED
  BY <1>3, <1>4, <1>6, FirstCluster

\* The copy: the sector in the buffer is the one data() asked for, and the
\* bytes copied are the next ones of the file.
LEMMA FetchInv == ASSUME Inv, Fetch PROVE Inv'
<1> USE DEF Inv
<1>1. PICK k \in 1..Len(Chain) : last = Chain[k] /\ short = (k - 1) * ClusterBytes
  BY DEF CursorOK
<1>2. /\ phase = "walk" /\ phase' = "loop" /\ short <= pos /\ pos - short < ClusterBytes
      /\ Len(got) < want /\ pos < size
      /\ UNCHANGED <<short, last, cached, res, kind, want, size>>
      /\ tag' = Target /\ pos' = pos + Count
      /\ got' = got \o [i \in 1..Count |-> <<buf', Offset + i - 1>>]
  BY DEF Fetch, call, WalkInv
<1>3. Offset \in 0..(BlockSize - 1) /\ Offset \in Nat
  BY <1>2, FetchCount
<1>4. Count \in Nat /\ Count <= BlockSize - Offset /\ Count <= want - Len(got) /\ Count <= size - pos
  BY <1>2, FetchCount
<1>5. (pos - short) \div BlockSize \in Nat
  BY <1>2, FetchCount
<1>6. Target \in Sectors /\ Target # None
  BY <1>5, SectorTypes DEF Target
<1>7. buf' \in Sectors
  BY <1>6 DEF Fetch, TypeOK
<1> HIDE DEF Inv
<1>8. /\ pos \in Nat /\ want \in Nat /\ size \in Nat /\ short \in Nat
      /\ got \in Seq(Cells) /\ Len(got) \in Nat
  BY SizeAssumption DEF Inv, TypeOK
<1>9. [i \in 1..Count |-> <<buf', Offset + i - 1>>] \in Seq(Cells)
  <2>1. \A i \in 1..Count : Offset + i - 1 \in Nat
    BY <1>3, <1>4
  <2>2. \A i \in 1..Count : <<buf', Offset + i - 1>> \in Cells
    BY <1>7, <2>1 DEF Cells
  <2> QED
    BY <1>4, <2>2
<1>10. /\ got' \in Seq(Cells) /\ Len(got') = Len(got) + Count
       /\ \A i \in 1..Len(got) : got'[i] = got[i]
       /\ \A i \in 1..Count : got'[Len(got) + i] = <<buf', Offset + i - 1>>
  BY <1>2, <1>4, <1>8, <1>9
<1>11. TypeOK'
  BY <1>2, <1>4, <1>6, <1>7, <1>8, <1>10 DEF Inv, TypeOK
<1>12. CursorOK'
  BY <1>2 DEF Inv, CursorOK
<1>13. WalkInv'
  BY <1>2 DEF WalkInv
<1>14. kind = "file" => buf' = Target
  BY FetchFile
<1>15. TagInv'
  <2>1. SUFFICES ASSUME kind = "file"
                 PROVE  /\ short <= pos + Count
                        /\ \E b \in Nat : Target = DataSector(Chain[k], b)
    BY <1>1, <1>2, <1>14 DEF TagInv
  <2>2. short <= pos + Count
    BY <1>2, <1>4, <1>8
  <2>3. Target = DataSector(Chain[k], (pos - short) \div BlockSize)
    BY <1>1 DEF Target
  <2> QED
    BY <1>5, <2>2, <2>3
<1>16. FileDelivers'
  BY <1>2, <1>4, <1>14, FetchCopies, CopyExtends DEF Inv, FileDelivers
<1> QED
  BY <1>11, <1>12, <1>13, <1>15, <1>16 DEF Inv

\* What the program does between reads.
LEMMA IdleInv == ASSUME Inv, Seek \/ Truncate \/ IntoReader \/ IntoFile PROVE Inv'
<1> USE DEF Inv
<1>1. CASE Seek
  <2>1. pos' \in Nat
    BY <1>1, SizeAssumption DEF Seek, SeekTarget, TypeOK
  <2>2. TypeOK'
    BY <1>1, <2>1 DEF Seek, TypeOK, call
  <2> QED
    BY <1>1, <2>2 DEF Seek, call, CursorOK, WalkInv, TagInv, FileDelivers
<1>2. CASE Truncate
  <2>1. TypeOK'
    BY <1>2, SizeAssumption DEF Truncate, TypeOK
  <2> QED
    BY <1>2, <2>1 DEF Truncate, CursorOK, WalkInv, TagInv, FileDelivers
<1>3. CASE IntoReader
  <2>1. TypeOK'
    BY <1>3, SectorTypes DEF IntoReader, TypeOK
  <2> QED
    BY <1>3, <2>1 DEF IntoReader, CursorOK, WalkInv, TagInv, FileDelivers
<1>4. CASE IntoFile
  <2>1. TypeOK'
    BY <1>4 DEF IntoFile, TypeOK
  <2> QED
    BY <1>4, <2>1 DEF IntoFile, CursorOK, WalkInv, TagInv, FileDelivers
<1> QED
  BY <1>1, <1>2, <1>3, <1>4

\* Every step preserves the invariant.
LEMMA StepInv == Inv /\ [Next]_vars => Inv'
<1> SUFFICES ASSUME Inv, [Next]_vars PROVE Inv'
  OBVIOUS
<1>1. ASSUME Done PROVE Inv'
  BY <1>1, ReturnInv DEF Done, Return, Inv, TypeOK
<1>2. ASSUME HopFails PROVE Inv'
  BY <1>2, ReturnInv, SectorTypes DEF HopFails, Spoil, Return, Inv, TypeOK
<1>3. ASSUME FetchFails PROVE Inv'
  BY <1>3, ReturnInv, SectorTypes DEF FetchFails, Spoil, Return, Inv, TypeOK
<1>4. CASE UNCHANGED vars
  BY <1>4 DEF vars, Inv, TypeOK, CursorOK, WalkInv, TagInv, FileDelivers, GotIsFile
<1> QED
  BY <1>1, <1>2, <1>3, <1>4, CallInv, EnterInv, HopInv, FetchInv, IdleInv DEF Next, Step

-----------------------------------------------------------------------------
\* Type correctness of the cursor, the buffers and the copied bytes.
THEOREM TypeCorrect == Spec => []TypeOK
<1>1. Inv => TypeOK
  BY DEF Inv
<1> QED
  BY <1>1, InitInv, StepInv, PTL DEF Spec

\* "last" and "short" always agree with the FAT chain, after any number of
\* reads, seeks, truncations, conversions and failed device reads.
THEOREM CursorAgreesWithChain == Spec => []CursorOK
<1>1. Inv => CursorOK
  BY DEF Inv
<1> QED
  BY <1>1, InitInv, StepInv, PTL DEF Spec

\* File::read copies the bytes of the file that follow the cursor and nothing
\* else, for every chain, size and cluster shape, and whatever failed before.
THEOREM FileReadsItsBytes == Spec => []FileDelivers
<1>1. Inv => FileDelivers
  BY DEF Inv
<1> QED
  BY <1>1, InitInv, StepInv, PTL DEF Spec

\* A file is read right: types, the cursor on the chain and the copied bytes.
THEOREM SpecConsistent == Spec => []Consistent
<1>1. TypeOK /\ CursorOK /\ FileDelivers => Consistent
  BY DEF Consistent
<1> QED
  BY <1>1, TypeCorrect, CursorAgreesWithChain, FileReadsItsBytes, PTL

-----------------------------------------------------------------------------
(* A Reader keeps its sector from one call to the next, and the walk of    *)
(* data() overwrites the buffer behind its back.                           *)

\* Between accesses the sector a Reader remembers is in the buffer and belongs to
\* the cluster of the cursor.  During a walk it may be overwritten, but then the
\* walk has left its cluster for good: it is behind, or it is ahead and the cursor
\* lies before it, so that the walk stops before it gets there.
ReaderTag ==
  tag # None =>
    \E j, k \in 1..Len(Chain), b \in Nat :
      /\ tag = DataSector(Chain[j], b)
      /\ last = Chain[k] /\ short = (k - 1) * ClusterBytes
      /\ \/ j = k /\ buf = tag
         \/ phase = "walk" /\ (j < k \/ (k < j /\ pos < (j - 1) * ClusterBytes))

ReaderInv ==
  kind = "reader" =>
    /\ size <= Capacity
    /\ phase # "idle" => GotIsFile
    /\ ReaderTag

\* data() starts for a Reader: a rewind passes the remembered sector only when
\* the cursor lies before its cluster.
LEMMA EnterReader == ASSUME Inv, ReaderInv, Enter, kind = "reader" PROVE ReaderTag'
<1>1. SUFFICES ASSUME tag # None
               PROVE  \E j, k \in 1..Len(Chain), b \in Nat :
                        /\ tag = DataSector(Chain[j], b)
                        /\ last' = Chain[k] /\ short' = (k - 1) * ClusterBytes
                        /\ \/ j = k /\ buf = tag
                           \/ k < j /\ pos < (j - 1) * ClusterBytes
  BY DEF ReaderTag, Enter
<1>2. PICK j \in 1..Len(Chain), b \in Nat :
        /\ tag = DataSector(Chain[j], b)
        /\ last = Chain[j] /\ short = (j - 1) * ClusterBytes
        /\ buf = tag
  BY <1>1 DEF Enter, ReaderInv, ReaderTag
<1>3. CASE ~(pos < short)
  BY <1>2, <1>3 DEF Enter
<1>4. CASE pos < short
  <2>1. short' = (1 - 1) * ClusterBytes /\ last' = Chain[1] /\ 1 \in 1..Len(Chain)
    BY <1>4, FirstCluster DEF Enter
  <2>2. pos \in Nat /\ short \in Nat
    BY DEF Inv, TypeOK
  <2>3. j # 1
    BY <1>2, <1>4, <2>2, FirstCluster
  <2>4. 1 < j
    BY <2>3, FirstCluster
  <2> QED
    BY <1>2, <1>4, <2>1, <2>4
<1> QED
  BY <1>3, <1>4

\* The walk moves on: away from a sector behind, not as far as one ahead.
LEMMA HopReader ==
  ASSUME Inv, ReaderInv, Hop, HasNext(last), kind = "reader" PROVE ReaderTag'
<1>1. SUFFICES ASSUME tag # None
               PROVE  \E j, k \in 1..Len(Chain), b \in Nat :
                        /\ tag = DataSector(Chain[j], b)
                        /\ last' = Chain[k] /\ short' = (k - 1) * ClusterBytes
                        /\ j < k \/ (k < j /\ pos < (j - 1) * ClusterBytes)
  BY DEF ReaderTag, Hop
<1>2. PICK j \in 1..Len(Chain), k \in 1..Len(Chain), b \in Nat :
        /\ tag = DataSector(Chain[j], b)
        /\ last = Chain[k] /\ short = (k - 1) * ClusterBytes
        /\ j <= k \/ (k < j /\ pos < (j - 1) * ClusterBytes)
  BY <1>1 DEF ReaderInv, ReaderTag
<1>3. k < Len(Chain) /\ k + 1 \in 1..Len(Chain) /\ last' = Chain[k + 1]
  BY <1>2, NextOfChain, FirstCluster DEF Hop
<1>4. /\ short' = ((k + 1) - 1) * ClusterBytes
      /\ k * ClusterBytes <= pos
  <2>1. short' = short + ClusterBytes /\ pos - short >= ClusterBytes /\ short <= pos
    BY DEF Hop, Inv, WalkInv
  <2>2. pos \in Nat /\ short \in Nat /\ short + ClusterBytes = k * ClusterBytes
    BY <1>2, ClusterBytesType DEF Inv, TypeOK
  <2> QED
    BY <2>1, <2>2, ClusterBytesType
<1>5. CASE j <= k
  BY <1>2, <1>3, <1>4, <1>5, FirstCluster
<1>6. CASE k < j /\ pos < (j - 1) * ClusterBytes
  <2>1. k # j - 1
    <3>1. SUFFICES ASSUME k = j - 1 PROVE FALSE
      OBVIOUS
    <3>2. pos < k * ClusterBytes /\ pos \in Nat /\ k * ClusterBytes \in Nat
      BY <1>6, <3>1, ClusterBytesType DEF Inv, TypeOK
    <3> QED
      BY <1>4, <3>2
  <2>2. k + 1 < j
    BY <1>6, <2>1, FirstCluster
  <2> QED
    BY <1>2, <1>3, <1>4, <1>6, <2>2
<1> QED
  BY <1>2, <1>5, <1>6

\* A Reader that finds the sector it asks for remembered finds it in the buffer.
LEMMA FetchReader == ASSUME Inv, ReaderInv, Fetch, kind = "reader" PROVE buf' = Target
<1>1. (pos - short) \div BlockSize \in Nat
  BY FetchCount DEF Inv, Fetch
<1>2. Target # None
  BY <1>1, SectorTypes DEF Target, Inv
<1>3. SUFFICES ASSUME tag = Target PROVE buf = Target
  BY DEF Fetch
<1>4. PICK j \in 1..Len(Chain), k \in 1..Len(Chain), b \in Nat :
        /\ tag = DataSector(Chain[j], b)
        /\ last = Chain[k]
        /\ (j = k /\ buf = tag) \/ j < k \/ k < j
  BY <1>2, <1>3 DEF ReaderInv, ReaderTag
<1>5. Chain[j] = last
  BY <1>3, <1>4 DEF Target, DataSector
<1>6. j = k
  BY <1>4, <1>5, ChainAssumption
<1> QED
  BY <1>3, <1>4, <1>6, FirstCluster

\* The chain of a Reader does not end before the file.
LEMMA ReaderHasNext ==
  ASSUME Inv, ReaderInv, kind = "reader", phase = "walk", pos - short >= ClusterBytes
  PROVE  HasNext(last)
<1>1. PICK k \in 1..Len(Chain) : last = Chain[k] /\ short = (k - 1) * ClusterBytes
  BY DEF Inv, CursorOK
<1>2. SUFFICES ASSUME k = Len(Chain) PROVE FALSE
  BY <1>1, NextOfChain, FirstCluster
<1>3. short + ClusterBytes = Capacity /\ Capacity \in Nat
  BY <1>1, <1>2, ClusterBytesType, FirstCluster DEF Capacity
<1>4. pos \in Nat /\ short \in Nat /\ size \in Nat /\ pos < size /\ size <= Capacity
  BY SizeAssumption DEF Inv, TypeOK, WalkInv, ReaderInv
<1> QED
  BY <1>3, <1>4, ClusterBytesType

\* What File and Reader have in common: the access delivers the sector asked for.
LEMMA FetchRight == ASSUME Inv, ReaderInv, Fetch PROVE buf' = Target
<1>1. kind \in {"file", "reader"}
  BY DEF Inv, TypeOK
<1>2. ASSUME kind = "file" PROVE buf' = Target
  BY <1>2, FetchFile
<1> QED
  BY <1>1, <1>2, FetchReader

\* Every step of a Reader preserves what it relies on.
LEMMA ReaderStep == ASSUME Careful PROVE Inv /\ ReaderInv /\ [Next]_vars => ReaderInv'
<1> SUFFICES ASSUME Inv, ReaderInv, [Next]_vars, kind' = "reader" PROVE ReaderInv'
  BY DEF ReaderInv
<1> USE DEF call
<1>1. ASSUME NEW t \in 1..MaxLen, Call(t) PROVE ReaderInv'
  <2>1. kind = "reader" /\ GotIsFile'
    BY <1>1 DEF Call, GotIsFile, Inv, TypeOK
  <2> QED
    BY <1>1, <2>1 DEF Call, ReaderInv, ReaderTag
<1>2. CASE Done
  BY <1>2 DEF Done, Return, ReaderInv, ReaderTag
<1>3. CASE Enter
  <2>1. kind = "reader" /\ GotIsFile'
    BY <1>3 DEF Enter, GotIsFile, ReaderInv
  <2> QED
    BY <1>3, <2>1, EnterReader DEF Enter, ReaderInv
<1>4. CASE Hop
  <2>1. kind = "reader" /\ GotIsFile'
    BY <1>4 DEF Hop, GotIsFile, ReaderInv
  <2>2. HasNext(last)
    BY <1>4, <2>1, ReaderHasNext DEF Hop
  <2> QED
    BY <1>4, <2>1, <2>2, HopReader DEF Hop, ReaderInv
<1>5. CASE HopFails \/ FetchFails
  BY <1>5 DEF HopFails, FetchFails, ReadsFail
<1>6. CASE Fetch
  <2>1. kind = "reader" /\ GotIsFile /\ buf' = Target
    BY <1>6, FetchReader DEF Fetch, ReaderInv
  <2>2. GotIsFile'
    <3>1. Count \in Nat
      BY <1>6, FetchCount DEF Inv, Fetch
    <3> QED
      BY <1>6, <2>1, <3>1, FetchCopies, CopyExtends DEF Inv
  <2>3. ReaderTag'
    <3>1. PICK k \in 1..Len(Chain) : last = Chain[k] /\ short = (k - 1) * ClusterBytes
      BY DEF Inv, CursorOK
    <3>2. (pos - short) \div BlockSize \in Nat
      BY <1>6, FetchCount DEF Inv, Fetch
    <3> QED
      BY <1>6, <2>1, <3>1, <3>2 DEF Fetch, Target, ReaderTag
  <2> QED
    BY <1>6, <2>1, <2>2, <2>3 DEF Fetch, ReaderInv
<1>7. CASE Seek
  BY <1>7 DEF Seek, ReaderInv, ReaderTag, Inv
<1>8. CASE Truncate
  BY <1>8 DEF Truncate
<1>9. CASE IntoReader
  BY <1>9 DEF IntoReader, ReaderInv, ReaderTag
<1>10. CASE IntoFile
  BY <1>10 DEF IntoFile
<1>11. CASE UNCHANGED vars
  BY <1>11 DEF vars, ReaderInv, ReaderTag, GotIsFile
<1> QED
  BY <1>1, <1>2, <1>3, <1>4, <1>5, <1>6, <1>7, <1>8, <1>9, <1>10, <1>11 DEF Next, Step

-----------------------------------------------------------------------------
(* The abstract file.                                                      *)

\* What the byte file sees of an opened file.
LEMMA InitMaps == Init => Bytes!Init
  BY SizeAssumption DEF Init, Bytes!Init

\* Each step of the cursor is a step of the byte file or changes nothing of it.
LEMMA StepMaps ==
  ASSUME Careful PROVE Inv /\ ReaderInv /\ [Next]_vars => [Bytes!Next]_(Bytes!vars)
<1> SUFFICES ASSUME Inv, ReaderInv, [Next]_vars PROVE [Bytes!Next]_(Bytes!vars)
  OBVIOUS
<1> USE DEF call
<1>0. /\ pos \in Nat /\ size \in Nat /\ want \in Nat /\ Len(got) \in Nat
      /\ Capacity \in Nat /\ Bytes!End <= size /\ Bytes!End <= Capacity
      /\ Bytes!End \in {size, Capacity}
  BY SizeAssumption, ClusterBytesType, FirstCluster DEF Inv, TypeOK, Capacity, Bytes!End
<1>1. ASSUME NEW t \in 1..MaxLen, Call(t) PROVE Bytes!Call
  BY <1>1 DEF Call, Bytes!Call
<1>2. ASSUME Done PROVE Bytes!Done
  <2>1. phase = "loop" /\ phase' = "idle" /\ res' = "ok" /\ UNCHANGED <<pos, size, want, got>>
    BY <1>2 DEF Done, Return
  <2>2. Len(got) = want \/ pos >= Bytes!End
    BY <1>0, <1>2 DEF Done
  <2> QED
    BY <2>1, <2>2 DEF Bytes!Done
<1>3. CASE Enter
  BY <1>3 DEF Enter, Bytes!vars
<1>4. ASSUME Hop PROVE Bytes!Done \/ UNCHANGED Bytes!vars
  <2>1. CASE HasNext(last)
    BY <1>4, <2>1 DEF Hop, Bytes!vars
  <2>2. CASE ~HasNext(last)
    <3>1. phase = "walk" /\ phase' = "idle" /\ res' = "ok" /\ UNCHANGED <<pos, size, want, got>>
      BY <1>4, <2>2 DEF Hop, Return
    <3>2. pos >= Capacity
      <4>1. PICK k \in 1..Len(Chain) : last = Chain[k] /\ short = (k - 1) * ClusterBytes
        BY DEF Inv, CursorOK
      <4>2. k = Len(Chain)
        BY <2>2, <4>1, NextOfChain, FirstCluster
      <4>3. short + ClusterBytes = Capacity
        BY <4>1, <4>2, ClusterBytesType, FirstCluster DEF Capacity
      <4>4. pos - short >= ClusterBytes /\ short \in Nat
        BY <1>4 DEF Hop, Inv, TypeOK
      <4> QED
        BY <1>0, <4>3, <4>4, ClusterBytesType
    <3>3. pos >= Bytes!End
      BY <1>0, <3>2
    <3> QED
      BY <3>1, <3>3 DEF Bytes!Done
  <2> QED
    BY <2>1, <2>2
<1>5. ASSUME HopFails \/ FetchFails PROVE Bytes!Fail
  BY <1>5 DEF HopFails, FetchFails, Return, Bytes!Fail
<1>6. ASSUME Fetch PROVE Bytes!Deliver
  <2>1. /\ got' = got \o [i \in 1..Count |-> Content(pos + i - 1)]
        /\ pos' = pos + Count /\ pos + Count <= Capacity
    BY <1>6, FetchRight, FetchCopies DEF Inv
  <2>2. Count \in Nat \ {0} /\ Count <= want - Len(got) /\ Count <= size - pos
    BY <1>6, FetchCount DEF Inv, Fetch
  <2>3. Count \in 1..(want - Len(got)) /\ pos + Count <= Bytes!End
    BY <1>0, <2>1, <2>2
  <2>4. phase = "walk" /\ phase' = "loop" /\ UNCHANGED <<size, want, res>>
    BY <1>6 DEF Fetch
  <2> QED
    BY <2>1, <2>3, <2>4 DEF Bytes!Deliver
<1>7. ASSUME Seek PROVE Bytes!Seek
  <2>1. pos' \in 0..size
    BY <1>0, <1>7 DEF Seek, SeekTarget
  <2> QED
    BY <1>7, <2>1 DEF Seek, Bytes!Seek
<1>8. ASSUME Truncate PROVE Bytes!Truncate
  BY <1>8 DEF Truncate, Bytes!Truncate
<1>9. CASE IntoReader \/ IntoFile
  BY <1>9 DEF IntoReader, IntoFile, Bytes!vars
<1>10. CASE UNCHANGED vars
  BY <1>10 DEF vars, Bytes!vars
<1> QED
  BY <1>1, <1>2, <1>3, <1>4, <1>5, <1>6, <1>7, <1>8, <1>9, <1>10 DEF Next, Step, Bytes!Next

\* Reading is reading from the byte file: what a File or a Reader does implements
\* the abstract file, for every chain, size and cluster shape.  A File may meet a
\* failing read and a chain that is too short at any point; a Reader may not, and
\* that hypothesis is what the program needs: it keeps a sector that such a read
\* has overwritten.
THEOREM ReadsByteFile == ASSUME Careful PROVE Spec => RefinesByteFile
<1>1. Init => ReaderInv
  BY DEF Init, ReaderInv
<1>2. Inv /\ ReaderInv /\ [Next]_vars => ReaderInv'
  BY ReaderStep
<1>3. Inv /\ ReaderInv /\ [Next]_vars => [Bytes!Next]_(Bytes!vars)
  BY StepMaps
<1> QED
  BY <1>1, <1>2, <1>3, InitInv, StepInv, InitMaps, PTL DEF Spec, Bytes!Spec, RefinesByteFile
=============================================================================

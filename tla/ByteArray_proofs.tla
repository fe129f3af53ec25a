-------------------------- MODULE ByteArray_proofs --------------------------
(***************************************************************************)
(* The array of bytes for every size of its blocks, every input and every  *)
(* bound: m_cur is where the position is, and the array implements         *)
(* ByteSequence.                                                           *)
(***************************************************************************)
EXTENDS MCByteArray, SequenceTheorems, WellFoundedInduction, TLAPS

(* The byte at a place of a list of blocks, and the first n of them.         *)
ByteAt(list, q) == list[q \div BaseSize + 1][q % BaseSize]
Flat(list, n) == [k \in 1..n |-> ByteAt(list, k - 1)]

(* m_cur for a position of a list.                                           *)
PointerAt(list, p) == IF p = BaseSize * Len(list) THEN 0 ELSE p \div BaseSize + 1

IInv == CurIsAtPosition /\ nodes # <<>>
-----------------------------------------------------------------------------
(* Division by the size of the blocks.                                       *)
LEMMA Product == \A x, y \in Nat : x * y \in Nat
  OBVIOUS

LEMMA Division ==
  ASSUME NEW a \in Int, NEW b \in Int, b > 0, NEW q \in Int, NEW r \in Int,
         q = a \div b, r = a % b
  PROVE  a = b * q + r
  OBVIOUS

LEMMA DivMod ==
  ASSUME NEW a \in Nat
  PROVE  \E q \in Nat, r \in 0..(BaseSize - 1) :
           /\ a \div BaseSize = q /\ a % BaseSize = r
           /\ a = BaseSize * q + r
<1>1. BaseSize \in Nat /\ BaseSize \in Int /\ BaseSize > 0
  BY ArrayAssumption
<1>2. PICK q \in Nat : q = a \div BaseSize
  BY <1>1
<1>3. PICK r \in 0..(BaseSize - 1) : r = a % BaseSize
  BY <1>1
<1>4. a \in Int /\ q \in Int /\ r \in Int
  BY <1>1
<1>5. a = BaseSize * q + r
  BY <1>1, <1>2, <1>3, <1>4, Division
<1> QED BY <1>2, <1>3, <1>5, Zenon

LEMMA Quotient ==
  ASSUME NEW a \in Int, NEW b \in Int, b > 0, NEW q \in Int, NEW r \in 0..(b - 1),
         a = b * q + r
  PROVE  q = a \div b
  OBVIOUS

LEMMA Remainder ==
  ASSUME NEW a \in Int, NEW b \in Int, b > 0, NEW q \in Int, NEW r \in 0..(b - 1),
         a = b * q + r
  PROVE  r = a % b
  OBVIOUS

LEMMA DivUnique ==
  ASSUME NEW q \in Nat, NEW r \in 0..(BaseSize - 1)
  PROVE  (BaseSize * q + r) \div BaseSize = q /\ (BaseSize * q + r) % BaseSize = r
<1>1. BaseSize \in Int /\ BaseSize > 0 /\ q \in Int
  BY ArrayAssumption
<1>2. BaseSize * q + r \in Int
  BY <1>1
<1> QED BY <1>1, <1>2, Quotient, Remainder

(* A place before the end of the list is in one of its blocks, the end is    *)
(* beyond the last.                                                          *)
LEMMA BlockOf ==
  ASSUME NEW n \in Nat, NEW q \in Nat
  PROVE  /\ q < BaseSize * n => q \div BaseSize < n
         /\ q = BaseSize * n => q \div BaseSize = n /\ q % BaseSize = 0
         /\ q \div BaseSize < n => q < BaseSize * n
<1>1. BaseSize \in Nat \ {0}
  BY ArrayAssumption
<1>0. PICK d \in Nat, r \in 0..(BaseSize - 1) :
        q \div BaseSize = d /\ q % BaseSize = r /\ q = BaseSize * d + r
  BY DivMod
<1>2. q = BaseSize * n => d = n /\ r = 0
  <2> SUFFICES ASSUME q = BaseSize * n PROVE d = n /\ r = 0
    OBVIOUS
  <2>1. 0 \in 0..(BaseSize - 1) /\ BaseSize * n + 0 = q
    BY <1>1, Product
  <2> QED
    BY <1>0, <2>1, DivUnique
<1>3. ASSUME d >= n PROVE q >= BaseSize * n
  <2>1. PICK x \in Nat : d = n + x
    <3>1. d - n \in Nat
      BY <1>1, <1>3
    <3> QED
      BY <1>1, <3>1
  <2>2. BaseSize * x \in Nat /\ BaseSize * d = BaseSize * n + BaseSize * x
        /\ BaseSize * n \in Nat
    BY <1>1, <2>1, Product
  <2> QED
    BY <1>0, <1>1, <2>2, Product
<1>4. ASSUME d < n PROVE q < BaseSize * n
  <2>1. PICK x \in Nat : n = d + 1 + x
    <3>1. n - d - 1 \in Nat
      BY <1>1, <1>4
    <3> QED
      BY <1>1, <3>1
  <2>2. BaseSize * x \in Nat /\ BaseSize * n = BaseSize * d + BaseSize + BaseSize * x
        /\ BaseSize * d \in Nat
    BY <1>1, <2>1, Product
  <2> QED
    BY <1>0, <1>1, <2>2, Product
<1>5. BaseSize * n \in Nat
  BY <1>1, Product
<1>6. (q < BaseSize * n => d < n) /\ (d < n => q < BaseSize * n)
  BY <1>1, <1>3, <1>4, <1>5
<1> QED
  BY <1>0, <1>2, <1>6, Zenon

(* Walking k bytes from a place leads to the place k bytes on.               *)
LEMMA CellIs ==
  ASSUME NEW p \in Nat, NEW k \in Nat
  PROVE  Cell(p \div BaseSize + 1, p % BaseSize, k)
           = <<(p + k) \div BaseSize + 1, (p + k) % BaseSize>>
<1>1. PICK d \in Nat, s \in 0..(BaseSize - 1) :
        p \div BaseSize = d /\ p % BaseSize = s /\ p = BaseSize * d + s
  BY DivMod
<1>2. BaseSize \in Nat \ {0} /\ s \in Nat /\ s + k \in Nat
  BY ArrayAssumption
<1>3. PICK e \in Nat, r \in 0..(BaseSize - 1) :
        /\ (s + k) \div BaseSize = e /\ (s + k) % BaseSize = r
        /\ s + k = BaseSize * e + r
  BY <1>2, DivMod
<1>4. d + e \in Nat /\ BaseSize * (d + e) = BaseSize * d + BaseSize * e
  BY <1>2
<1>5. BaseSize * d \in Nat /\ BaseSize * e \in Nat
  BY <1>2, Product
<1>6. p + k = BaseSize * (d + e) + r
  BY <1>1, <1>2, <1>3, <1>4, <1>5
<1>7. (p + k) \div BaseSize = d + e /\ (p + k) % BaseSize = r
  BY <1>4, <1>6, DivUnique
<1>8. Cell(d + 1, s, k) = <<(d + 1) + e, r>>
  BY <1>3 DEF Cell
<1>9. (d + 1) + e = (d + e) + 1
  OBVIOUS
<1> QED
  BY <1>1, <1>7, <1>8, <1>9

LEMMA WalkIs ==
  ASSUME NEW list \in Seq(Block), NEW p \in Nat, NEW k \in Nat,
         p + k <= BaseSize * Len(list)
  PROVE  /\ Walk(list, p \div BaseSize + 1, p % BaseSize, k) = PointerAt(list, p + k)
         /\ PointerAt(list, p + k) \in 0..Len(list)
<1> DEFINE q == p + k
           d == q \div BaseSize
           n == Len(list)
<1>1. Cell(p \div BaseSize + 1, p % BaseSize, k)[1] = d + 1
  BY CellIs
<1>2. q \in Nat /\ n \in Nat /\ BaseSize \in Nat \ {0} /\ BaseSize * n \in Nat
  BY LenProperties, ArrayAssumption, Product
<1>3. d \in Nat
  BY <1>2
<1>4. (q < BaseSize * n => d < n) /\ (q = BaseSize * n => d = n)
  BY <1>2, BlockOf
<1>5. Walk(list, p \div BaseSize + 1, p % BaseSize, k) = IF d + 1 <= n THEN d + 1 ELSE 0
  BY <1>1 DEF Walk
<1>6. PointerAt(list, q) = IF q = BaseSize * n THEN 0 ELSE d + 1
  BY DEF PointerAt
<1> HIDE DEF q, d, n
<1>7. CASE q = BaseSize * n
  BY <1>2, <1>3, <1>4, <1>5, <1>6, <1>7 DEF q, n
<1>8. CASE q < BaseSize * n
  BY <1>2, <1>3, <1>4, <1>5, <1>6, <1>8 DEF q, n
<1> QED
  BY <1>2, <1>7, <1>8 DEF q, n
-----------------------------------------------------------------------------
(* The bytes of a list.                                                      *)
LEMMA ByteType ==
  ASSUME NEW list \in Seq(Block), NEW q \in Nat, q < BaseSize * Len(list)
  PROVE  ByteAt(list, q) \in Bytes
<1>1. PICK d \in Nat, r \in 0..(BaseSize - 1) :
        q \div BaseSize = d /\ q % BaseSize = r /\ q = BaseSize * d + r
  BY DivMod
<1>2. Len(list) \in Nat
  BY LenProperties
<1>3. d + 1 \in 1..Len(list)
  BY <1>1, <1>2, BlockOf
<1>4. list[d + 1] \in Block
  BY <1>3
<1> QED
  BY <1>1, <1>4 DEF ByteAt, Block

LEMMA FlatType ==
  ASSUME NEW list \in Seq(Block), NEW n \in Nat, n <= BaseSize * Len(list)
  PROVE  /\ Flat(list, n) \in Seq(Bytes) /\ Len(Flat(list, n)) = n
         /\ \A k \in 1..n : Flat(list, n)[k] = ByteAt(list, k - 1)
<1>1. BaseSize * Len(list) \in Nat
  BY LenProperties, Product, ArrayAssumption
<1>2. ASSUME NEW k \in 1..n PROVE ByteAt(list, k - 1) \in Bytes
  <2>1. k - 1 \in Nat /\ k - 1 < BaseSize * Len(list)
    BY <1>1
  <2> QED
    BY <2>1, ByteType
<1> QED
  BY <1>2 DEF Flat

(* A walk from a place reads the bytes that follow it.                       *)
LEMMA BytesIs ==
  ASSUME nodes \in Seq(Block), NEW p \in Nat, NEW n \in Nat,
         p + n <= BaseSize * Len(nodes)
  PROVE  LET s == BytesFrom(p \div BaseSize + 1, p % BaseSize, n) IN
         /\ s \in Seq(Bytes) /\ Len(s) = n
         /\ \A k \in 1..n : s[k] = ByteAt(nodes, p + k - 1) /\ s[k] \in Bytes
<1> DEFINE s == BytesFrom(p \div BaseSize + 1, p % BaseSize, n)
<1>1. BaseSize * Len(nodes) \in Nat
  BY LenProperties, Product, ArrayAssumption
<1>2. ASSUME NEW k \in 1..n
      PROVE  /\ s[k] = ByteAt(nodes, p + k - 1)
             /\ s[k] \in Bytes
  <2>1. k - 1 \in Nat /\ p + k - 1 \in Nat /\ p + (k - 1) = p + k - 1
    OBVIOUS
  <2>2. Cell(p \div BaseSize + 1, p % BaseSize, k - 1)
          = <<(p + k - 1) \div BaseSize + 1, (p + k - 1) % BaseSize>>
    BY <2>1, CellIs
  <2>3. s[k] = ByteAt(nodes, p + k - 1)
    BY <2>2 DEF BytesFrom, ByteAt
  <2>4. p + k - 1 < BaseSize * Len(nodes)
    BY <1>1
  <2> QED
    BY <2>1, <2>3, <2>4, ByteType
<1>3. DOMAIN s = 1..n
  BY DEF BytesFrom
<1>4. s = [k \in 1..n |-> s[k]]
  BY DEF BytesFrom
<1> HIDE DEF s
<1>5. s \in Seq(Bytes) /\ Len(s) = n
  BY <1>2, <1>4, IsASeq
<1> QED
  BY <1>2, <1>5 DEF s

(* The user sees the bytes of the list up to the size.                       *)
LEMMA ContentsIs ==
  ASSUME nodes \in Seq(Block), size \in Nat, size <= BaseSize * Len(nodes)
  PROVE  Contents = Flat(nodes, size)
<1> DEFINE s == BytesFrom(0 \div BaseSize + 1, 0 % BaseSize, size)
<1>1. 0 \div BaseSize = 0 /\ 0 % BaseSize = 0
  <2>1. BaseSize * 0 + 0 = 0 /\ 0 \in 0..(BaseSize - 1)
    BY ArrayAssumption
  <2> QED
    BY <2>1, DivUnique
<1>2. Contents = s
  BY <1>1 DEF Contents
<1>3. s \in Seq(Bytes) /\ Len(s) = size
      /\ \A k \in 1..size : s[k] = ByteAt(nodes, 0 + k - 1)
  BY BytesIs
<1>4. \A k \in 1..size : 0 + k - 1 = k - 1
  OBVIOUS
<1> HIDE DEF s
<1>5. \A k \in 1..size : s[k] = Flat(nodes, size)[k]
  BY <1>3, <1>4, FlatType
<1>6. s = Flat(nodes, size)
  BY <1>3, <1>5, FlatType, SeqEqual
<1> QED
  BY <1>2, <1>6

(* Bytes that are put from a place on are found from there on, the others    *)
(* are where they were.                                                      *)
LEMMA PutIs ==
  ASSUME NEW list \in Seq(Block), NEW p \in Nat, NEW bytes \in Seq(Bytes)
  PROVE  LET new == Put(list, p \div BaseSize + 1, p % BaseSize, bytes) IN
         /\ new \in Seq(Block) /\ Len(new) = Len(list)
         /\ \A q \in Nat : q < BaseSize * Len(list) =>
              ByteAt(new, q) = IF q - p \in 0..(Len(bytes) - 1)
                               THEN bytes[q - p + 1] ELSE ByteAt(list, q)
<1> DEFINE c == p \div BaseSize + 1
           at == p % BaseSize
           Index(i, o) == (i - c) * BaseSize + o - at
           Byte(i, o) == IF Index(i, o) \in 0..(Len(bytes) - 1)
                         THEN bytes[Index(i, o) + 1] ELSE list[i][o]
           new == Put(list, c, at, bytes)
<1>1. new = [i \in 1..Len(list) |-> [o \in 0..(BaseSize - 1) |-> Byte(i, o)]]
  BY DEF Put
<1>2. Len(list) \in Nat /\ Len(bytes) \in Nat /\ BaseSize \in Nat \ {0}
  BY ArrayAssumption
<1>3. PICK d \in Nat, s \in 0..(BaseSize - 1) :
        p \div BaseSize = d /\ p % BaseSize = s /\ p = BaseSize * d + s
  BY DivMod
<1>4. c = d + 1 /\ at = s
  BY <1>3
<1> HIDE DEF c, at
<1>5. ASSUME NEW i \in 1..Len(list), NEW o \in 0..(BaseSize - 1)
      PROVE  Byte(i, o) \in Bytes
  <2>1. list[i] \in Block
    OBVIOUS
  <2>2. list[i][o] \in Bytes
    BY <2>1 DEF Block
  <2> DEFINE x == Index(i, o)
  <2> HIDE DEF x
  <2>3. x \in 0..(Len(bytes) - 1) => bytes[x + 1] \in Bytes
    BY <1>2
  <2> QED
    BY <2>2, <2>3 DEF x
<1> HIDE DEF Byte, new
<1>6. \A i \in 1..Len(list) : [o \in 0..(BaseSize - 1) |-> Byte(i, o)] \in Block
  BY <1>5 DEF Block
<1>7. new \in Seq(Block)
  BY <1>1, <1>2, <1>6, IsASeq
<1>8. Len(new) = Len(list)
  BY <1>1, <1>2, <1>7
<1>9. ASSUME NEW q \in Nat, q < BaseSize * Len(list)
      PROVE  ByteAt(new, q) = IF q - p \in 0..(Len(bytes) - 1)
                              THEN bytes[q - p + 1] ELSE ByteAt(list, q)
  <2>1. PICK e \in Nat, r \in 0..(BaseSize - 1) :
          q \div BaseSize = e /\ q % BaseSize = r /\ q = BaseSize * e + r
    BY DivMod
  <2>2. e + 1 \in 1..Len(list)
    <3>1. e < Len(list)
      BY <1>2, <1>9, <2>1, BlockOf
    <3> QED
      BY <1>2, <3>1
  <2>3. ByteAt(new, q) = new[e + 1][r] /\ ByteAt(list, q) = list[e + 1][r]
    BY <2>1 DEF ByteAt
  <2>4. new[e + 1][r] = Byte(e + 1, r)
    BY <1>1, <2>1, <2>2
  <2>5. Index(e + 1, r) = q - p
    <3>1. (e + 1 - c) = e - d
      BY <1>4
    <3>2. (e - d) * BaseSize = BaseSize * e - BaseSize * d
      BY <1>2
    <3>3. BaseSize * e \in Nat /\ BaseSize * d \in Nat
      BY <1>2, Product
    <3>4. BaseSize * e - BaseSize * d + r - s = q - p
      BY <1>2, <1>3, <2>1, <3>3
    <3> QED
      BY <1>4, <3>1, <3>2, <3>4
  <2> HIDE DEF Index
  <2> QED
    BY <2>3, <2>4, <2>5 DEF Byte
<1> QED
  BY <1>7, <1>8, <1>9 DEF new, c, at

(* The place behind the last block and the pointer there.                    *)
LEMMA Ends ==
  ASSUME IInv
  PROVE  /\ BaseSize \in Nat \ {0} /\ BaseSize * Len(nodes) \in Nat
         /\ Len(nodes) \in Nat
         /\ capacity = BaseSize * Len(nodes) /\ cur = PointerAt(nodes, position)
         /\ position < capacity => cur = position \div BaseSize + 1
         /\ position = capacity => position \div BaseSize + 1 = Len(nodes) + 1
<1>1. BaseSize \in Nat \ {0}
  BY ArrayAssumption
<1>2. Len(nodes) \in Nat
  BY DEF IInv, CurIsAtPosition, TypeOK
<1>3. BaseSize * Len(nodes) \in Nat
  BY <1>1, <1>2, Product
<1>4. capacity = BaseSize * Len(nodes) /\ cur = PointerAt(nodes, position)
  BY DEF IInv, CurIsAtPosition, PointerAt
<1>5. position < capacity => cur = position \div BaseSize + 1
  BY <1>1, <1>3 DEF IInv, CurIsAtPosition, TypeOK
<1>6. position = capacity => position \div BaseSize + 1 = Len(nodes) + 1
  BY <1>2, <1>4, BlockOf DEF IInv, CurIsAtPosition, TypeOK
<1> QED
  BY <1>1, <1>2, <1>3, <1>4, <1>5, <1>6

(* addCapacity() makes room, changes no byte and leaves a pointer that is    *)
(* not null.                                                                 *)
LEMMA ExtendIs ==
  ASSUME IInv, NEW n \in Nat \ {0}, NEW list \in Extended(n)
  PROVE  /\ list \in Seq(Block) /\ Len(list) \in Nat
         /\ Len(list) >= Len(nodes) /\ list # <<>>
         /\ \A i \in 1..Len(nodes) : list[i] = nodes[i]
         /\ position + n <= BaseSize * Len(list)
         /\ BaseSize * Len(list) \in Nat /\ capacity <= BaseSize * Len(list)
         /\ capacity + (Len(list) - Len(nodes)) * BaseSize = BaseSize * Len(list)
         /\ CurExtended(list) = position \div BaseSize + 1
<1> DEFINE missing == n - (capacity - position)
           m == (missing + BaseSize - 1) \div BaseSize
<1>1. /\ BaseSize \in Nat \ {0} /\ BaseSize * Len(nodes) \in Nat /\ Len(nodes) \in Nat
      /\ capacity = BaseSize * Len(nodes)
      /\ position < capacity => cur = position \div BaseSize + 1
      /\ position = capacity => position \div BaseSize + 1 = Len(nodes) + 1
  BY Ends
<1>2. /\ nodes \in Seq(Block) /\ nodes # <<>>
      /\ position \in Nat /\ capacity \in Nat /\ position <= capacity
  BY DEF IInv, CurIsAtPosition, TypeOK
<1>3. missing \in Int
  BY <1>2
<1>4. CASE missing <= 0
  <2>1. list = nodes
    BY <1>4 DEF Extended
  <2>2. position + n <= capacity /\ position < capacity
    BY <1>2, <1>4
  <2>3. (Len(list) - Len(nodes)) * BaseSize = 0
    BY <1>1, <2>1
  <2>4. CurExtended(list) = cur
    BY <2>2, <1>2 DEF CurExtended
  <2> QED
    BY <1>1, <1>2, <2>1, <2>2, <2>3, <2>4
<1>5. CASE missing > 0
  <2>1. PICK new \in [1..m -> NewBlocks] : list = nodes \o new
    BY <1>3, <1>5 DEF Extended
  <2>2. missing + BaseSize - 1 \in Nat
    <3> HIDE DEF missing
    <3>1. BaseSize \in Nat \ {0}
      BY <1>1
    <3> QED
      BY <1>3, <1>5, <3>1
  <2>3. PICK q \in Nat, r \in 0..(BaseSize - 1) :
          m = q /\ missing + BaseSize - 1 = BaseSize * q + r
    BY <2>2, DivMod
  <2> HIDE DEF m, missing
  <2>4. BaseSize * q \in Nat
    BY <1>1, Product
  <2>5. missing <= BaseSize * q
    BY <1>1, <1>3, <2>3, <2>4
  <2>6. q > 0
    BY <1>1, <1>3, <1>5, <2>5
  <2>7. new \in Seq(Block) /\ Len(new) = q
    <3>1. \A i \in 1..q : new[i] \in Block
      BY <2>1, <2>3, ArrayAssumption DEF NewBlocks, Block
    <3>2. new = [i \in 1..q |-> new[i]]
      BY <2>1, <2>3
    <3> QED
      BY <3>1, <3>2, IsASeq
  <2>8. /\ list \in Seq(Block) /\ Len(list) = Len(nodes) + q
        /\ \A i \in 1..Len(nodes) : list[i] = nodes[i]
    <3>1. /\ list \in Seq(Block) /\ Len(list) = Len(nodes) + Len(new)
          /\ \A i \in 1..(Len(nodes) + Len(new)) :
               list[i] = IF i <= Len(nodes) THEN nodes[i] ELSE new[i - Len(nodes)]
      BY <1>2, <2>1, <2>7, ConcatProperties
    <3>2. \A i \in 1..Len(nodes) : i \in 1..(Len(nodes) + Len(new)) /\ i <= Len(nodes)
      BY <1>1, <2>7
    <3> QED
      BY <2>7, <3>1, <3>2
  <2>9. BaseSize * Len(list) = capacity + BaseSize * q
    BY <1>1, <2>8
  <2>10. (Len(list) - Len(nodes)) * BaseSize = BaseSize * q
    BY <1>1, <2>8
  <2>11. position + n <= capacity + BaseSize * q
    <3>1. missing = n - (capacity - position)
      BY DEF missing
    <3> QED
      BY <1>2, <2>4, <2>5, <3>1
  <2>12. CurExtended(list) = position \div BaseSize + 1
    <3>1. Len(list) > Len(nodes)
      BY <1>1, <2>6, <2>8
    <3>2. CASE position < capacity
      BY <1>1, <1>2, <3>2 DEF CurExtended
    <3>3. CASE position = capacity
      BY <1>1, <3>1, <3>3 DEF CurExtended
    <3> QED
      BY <1>2, <3>2, <3>3
  <2>13. list # <<>>
    BY <1>1, <2>6, <2>8
  <2>14. Len(list) \in Nat /\ Len(list) >= Len(nodes)
    BY <1>1, <2>8
  <2>15. BaseSize * Len(list) \in Nat /\ capacity <= BaseSize * Len(list)
         /\ position + n <= BaseSize * Len(list)
    BY <1>2, <2>4, <2>9, <2>11
  <2>16. capacity + (Len(list) - Len(nodes)) * BaseSize = BaseSize * Len(list)
    BY <2>9, <2>10
  <2> QED
    BY <2>8, <2>12, <2>13, <2>14, <2>15, <2>16
<1> QED
  BY <1>3, <1>4, <1>5

(* The bytes there were stay.                                                *)
LEMMA ExtendKeeps ==
  ASSUME IInv, NEW list \in Seq(Block), Len(list) >= Len(nodes),
         \A i \in 1..Len(nodes) : list[i] = nodes[i],
         NEW q \in Nat, q < capacity
  PROVE  ByteAt(list, q) = ByteAt(nodes, q)
<1>1. PICK e \in Nat, r \in 0..(BaseSize - 1) :
        q \div BaseSize = e /\ q % BaseSize = r /\ q = BaseSize * e + r
  BY DivMod
<1>2. Len(nodes) \in Nat /\ capacity = BaseSize * Len(nodes)
  BY Ends
<1>3. e < Len(nodes)
  BY <1>1, <1>2, BlockOf
<1>4. e + 1 \in 1..Len(nodes)
  BY <1>2, <1>3
<1> QED
  BY <1>1, <1>4 DEF ByteAt
-----------------------------------------------------------------------------
LEMMA PointerType ==
  ASSUME NEW list \in Seq(Block), NEW p \in Nat, p <= BaseSize * Len(list)
  PROVE  PointerAt(list, p) \in 0..Len(list)
<1>1. p + 0 = p
  OBVIOUS
<1>2. p + 0 <= BaseSize * Len(list)
  BY <1>1
<1> QED
  BY <1>1, <1>2, WalkIs

(* Every state after a step that leaves the pointer at its place.            *)
LEMMA Placed ==
  ASSUME nodes' \in Seq(Block), nodes' # <<>>, capacity' = BaseSize * Len(nodes'),
         position' \in Nat, size' \in Nat, position' <= size', size' <= capacity',
         cur' = PointerAt(nodes', position'), out' \in Out
  PROVE  IInv'
<1>1. BaseSize * Len(nodes') \in Nat
  BY LenProperties, Product, ArrayAssumption
<1>2. position' <= BaseSize * Len(nodes')
  BY <1>1
<1>3. cur' \in 0..Len(nodes')
  BY <1>2, PointerType
<1>4. capacity' \in Nat
  BY <1>1
<1>5. TypeOK'
  BY <1>3, <1>4 DEF TypeOK
<1> QED
  BY <1>5 DEF IInv, CurIsAtPosition, PointerAt

LEMMA OutType ==
  /\ Nothing \in Out /\ OutOfRange \in Out
  /\ \A s \in Seq(Bytes) : [Nothing EXCEPT !.bytes = s] \in Out
  /\ \A v \in Int : [Nothing EXCEPT !.value = v] \in Out
<1>1. <<>> \in Seq(Bytes)
  BY EmptySeq
<1>2. Nothing \in Out
  BY <1>1 DEF Nothing, Out
<1>3. OutOfRange \in Out
  BY <1>2 DEF OutOfRange, Out
<1>4. \A s \in Seq(Bytes) : [Nothing EXCEPT !.bytes = s] \in Out
  BY <1>2 DEF Out
<1>5. \A v \in Int : [Nothing EXCEPT !.value = v] \in Out
  BY <1>2 DEF Out
<1> QED
  BY <1>2, <1>3, <1>4, <1>5

(* A step along the list leads from the pointer of the position to the       *)
(* pointer of the new position.                                              *)
LEMMA StepOn ==
  ASSUME IInv, NEW k \in Nat \ {0}, position + k <= capacity
  PROVE  /\ cur = position \div BaseSize + 1
         /\ Walk(nodes, cur, position % BaseSize, k) = PointerAt(nodes, position + k)
<1>1. position \in Nat /\ capacity \in Nat /\ nodes \in Seq(Block)
  BY DEF IInv, CurIsAtPosition, TypeOK
<1>2. capacity = BaseSize * Len(nodes)
      /\ (position < capacity => cur = position \div BaseSize + 1)
  BY Ends
<1>3. position < capacity
  BY <1>1
<1> QED
  BY <1>1, <1>2, <1>3, WalkIs

(* setPosition() to a place of a list.                                       *)
LEMMA SeekIs ==
  ASSUME NEW list \in Seq(Block), NEW v \in Nat, v <= BaseSize * Len(list)
  PROVE  Seek(list, v) = PointerAt(list, v)
<1>1. 0 \div BaseSize = 0 /\ 0 % BaseSize = 0
  <2>1. BaseSize * 0 + 0 = 0 /\ 0 \in 0..(BaseSize - 1)
    BY ArrayAssumption
  <2> QED
    BY <2>1, DivUnique
<1>2. 0 + v = v
  OBVIOUS
<1>3. Walk(list, 0 \div BaseSize + 1, 0 % BaseSize, v) = PointerAt(list, v)
  BY <1>2, WalkIs
<1> QED
  BY <1>1, <1>3 DEF Seek

(* What write() and the socket store.                                        *)
LEMMA Stored ==
  ASSUME IInv, NEW bytes \in Seq(Bytes), NEW n \in Nat \ {0}, Len(bytes) \in 1..n,
         NEW list \in Extended(n),
         nodes' = Put(list, CurExtended(list), position % BaseSize, bytes),
         capacity' = capacity + (Len(list) - Len(nodes)) * BaseSize
  PROVE  /\ list \in Seq(Block) /\ nodes' \in Seq(Block) /\ nodes' # <<>>
         /\ Len(nodes') = Len(list) /\ CurExtended(list) = position \div BaseSize + 1
         /\ capacity' = BaseSize * Len(nodes') /\ capacity' \in Nat
         /\ capacity <= capacity' /\ position + n <= capacity'
         /\ \A q \in Nat : q < capacity' /\ q - position \in 0..(Len(bytes) - 1) =>
              ByteAt(nodes', q) = bytes[q - position + 1]
         /\ \A q \in Nat : q < capacity /\ q - position \notin 0..(Len(bytes) - 1) =>
              ByteAt(nodes', q) = ByteAt(nodes, q)
<1>1. /\ list \in Seq(Block) /\ Len(list) \in Nat
      /\ Len(list) >= Len(nodes) /\ list # <<>>
      /\ \A i \in 1..Len(nodes) : list[i] = nodes[i]
      /\ position + n <= BaseSize * Len(list)
      /\ BaseSize * Len(list) \in Nat /\ capacity <= BaseSize * Len(list)
      /\ capacity' = BaseSize * Len(list)
      /\ CurExtended(list) = position \div BaseSize + 1
  BY ExtendIs
<1>2. position \in Nat /\ capacity \in Nat
  BY DEF IInv, CurIsAtPosition, TypeOK
<1>3. nodes' = Put(list, position \div BaseSize + 1, position % BaseSize, bytes)
  BY <1>1
<1>4. /\ nodes' \in Seq(Block) /\ Len(nodes') = Len(list)
      /\ \A q \in Nat : q < BaseSize * Len(list) =>
           ByteAt(nodes', q) = IF q - position \in 0..(Len(bytes) - 1)
                               THEN bytes[q - position + 1] ELSE ByteAt(list, q)
  BY <1>1, <1>2, <1>3, PutIs
<1>5. nodes' # <<>>
  BY <1>1, <1>4
<1>6. ASSUME NEW q \in Nat, q < capacity, q - position \notin 0..(Len(bytes) - 1)
      PROVE  ByteAt(nodes', q) = ByteAt(nodes, q)
  <2>1. q < BaseSize * Len(list)
    BY <1>1, <1>2, <1>6
  <2>2. ByteAt(nodes', q) = ByteAt(list, q)
    BY <1>4, <1>6, <2>1
  <2>3. ByteAt(list, q) = ByteAt(nodes, q)
    BY <1>1, <1>6, ExtendKeeps
  <2> QED
    BY <2>2, <2>3
<1>7. \A q \in Nat : q < capacity' /\ q - position \in 0..(Len(bytes) - 1) =>
        ByteAt(nodes', q) = bytes[q - position + 1]
  BY <1>1, <1>4
<1>8. \A q \in Nat : q < capacity /\ q - position \notin 0..(Len(bytes) - 1) =>
        ByteAt(nodes', q) = ByteAt(nodes, q)
  BY <1>6
<1>9. capacity' = BaseSize * Len(nodes') /\ capacity' \in Nat
      /\ capacity <= capacity' /\ position + n <= capacity'
  BY <1>1, <1>4
<1> QED
  BY <1>1, <1>4, <1>5, <1>7, <1>8, <1>9
-----------------------------------------------------------------------------
LEMMA WriteInv ==
  ASSUME IInv, NEW bytes \in Seq(Bytes), bytes # <<>>, Write(bytes)
  PROVE  IInv'
<1> DEFINE n == Len(bytes)
<1>1. PICK list \in Extended(n) :
        /\ nodes' = Put(list, CurExtended(list), position % BaseSize, bytes)
        /\ cur' = Walk(list, CurExtended(list), position % BaseSize, n)
        /\ capacity' = capacity + (Len(list) - Len(nodes)) * BaseSize
  BY DEF Write
<1>2. n \in Nat \ {0}
  BY EmptySeq
<1> HIDE DEF n
<1>3. Len(bytes) \in 1..n
  BY <1>2 DEF n
<1>4. /\ list \in Seq(Block) /\ nodes' \in Seq(Block) /\ nodes' # <<>>
      /\ Len(nodes') = Len(list) /\ CurExtended(list) = position \div BaseSize + 1
      /\ capacity' = BaseSize * Len(nodes') /\ capacity' \in Nat
      /\ capacity <= capacity' /\ position + n <= capacity'
  BY <1>1, <1>2, <1>3, Stored
<1>5. /\ position \in Nat /\ size \in Nat /\ capacity \in Nat
      /\ position <= size /\ size <= capacity
  BY DEF IInv, CurIsAtPosition, TypeOK
<1>6. /\ position' = position + n
      /\ size' = IF position + n > size THEN position + n ELSE size
      /\ out' = Nothing
  BY DEF Write, n
<1>7. cur' = PointerAt(nodes', position')
  <2>1. position + n <= BaseSize * Len(list)
    BY <1>4
  <2>2. cur' = Walk(list, position \div BaseSize + 1, position % BaseSize, n)
    BY <1>1, <1>4
  <2>3. cur' = PointerAt(list, position + n)
    BY <1>2, <1>4, <1>5, <2>1, <2>2, WalkIs
  <2> QED
    BY <1>4, <1>6, <2>3 DEF PointerAt
<1>8. /\ position' \in Nat /\ size' \in Nat
      /\ position' <= size' /\ size' <= capacity'
  BY <1>2, <1>4, <1>5, <1>6
<1> QED
  BY <1>4, <1>6, <1>7, <1>8, OutType, Placed

(* The list and the size stay, the position goes to another place of it.     *)
LEMMA MovedInv ==
  ASSUME IInv, UNCHANGED listVars, position' \in Nat, size' \in Nat,
         position' <= size', size' <= capacity,
         cur' = PointerAt(nodes, position'), out' \in Out
  PROVE  IInv'
<1>1. nodes' = nodes /\ capacity' = capacity
  BY DEF listVars
<1>2. nodes \in Seq(Block) /\ nodes # <<>> /\ capacity = BaseSize * Len(nodes)
  BY DEF IInv, CurIsAtPosition, TypeOK
<1> QED
  BY <1>1, <1>2, Placed

LEMMA ReadInv ==
  ASSUME IInv, NEW n \in Lengths, Read(n) \/ Send(n)
  PROVE  IInv'
<1>1. n \in Nat \ {0}
  BY ArrayAssumption
<1>2. /\ position \in Nat /\ size \in Nat /\ capacity \in Nat /\ nodes \in Seq(Block)
      /\ position <= size /\ size <= capacity /\ capacity = BaseSize * Len(nodes)
  BY DEF IInv, CurIsAtPosition, TypeOK
<1>3. CASE Throw
  <2>1. /\ UNCHANGED listVars /\ position' = position /\ size' = size
        /\ cur' = cur /\ out' = OutOfRange
    BY <1>3 DEF Throw
  <2> QED
    BY <1>2, <2>1, Ends, OutType, MovedInv
<1>4. CASE n <= ReadSize /\ ~Throw
  <2>1. position + n \in Nat /\ position + n <= size /\ position + n <= capacity
    BY <1>1, <1>2, <1>4 DEF ReadSize
  <2>2. /\ cur = position \div BaseSize + 1
        /\ Walk(nodes, cur, position % BaseSize, n) = PointerAt(nodes, position + n)
    BY <1>1, <2>1, StepOn
  <2>3. BytesFrom(cur, position % BaseSize, n) \in Seq(Bytes)
    BY <1>1, <1>2, <2>1, <2>2, BytesIs
  <2>4. out' = [Nothing EXCEPT !.bytes = BytesFrom(cur, position % BaseSize, n)]
    BY <1>4 DEF Read, Send
  <2>5. /\ UNCHANGED listVars /\ position' = position + n /\ size' = size
        /\ cur' = PointerAt(nodes, position + n)
    <3>1. CASE Read(n)
      BY <1>4, <2>2, <3>1 DEF Read
    <3>2. CASE Send(n)
      <4>1. Seek(nodes, position + n) = PointerAt(nodes, position + n)
        BY <1>2, <2>1, SeekIs
      <4>2. ~(position + n > size)
        BY <1>2, <2>1
      <4> QED
        BY <3>2, <4>1, <4>2 DEF Send, MoveTo
    <3> QED
      BY <3>1, <3>2
  <2>6. out' \in Out
    BY <2>3, <2>4, OutType
  <2> QED
    BY <1>2, <2>1, <2>5, <2>6, MovedInv
<1> QED
  BY <1>3, <1>4 DEF Read, Send

LEMMA ReadAtInv ==
  ASSUME IInv, NEW n \in Lengths, NEW p \in Positions, ReadAt(n, p)
  PROVE  IInv'
<1>1. n \in Nat \ {0} /\ p \in Nat
  BY ArrayAssumption
<1>2. /\ position \in Nat /\ size \in Nat /\ capacity \in Nat /\ nodes \in Seq(Block)
      /\ position <= size /\ size <= capacity /\ capacity = BaseSize * Len(nodes)
  BY DEF IInv, CurIsAtPosition, TypeOK
<1>3. UNCHANGED <<listVars, cur, position, size>>
  BY DEF ReadAt, Throw
<1>4. out' \in Out
  <2>1. CASE n <= size - p /\ out' = [Nothing EXCEPT !.bytes =
                                        BytesFrom(1 + p \div BaseSize, p % BaseSize, n)]
    <3>1. p + n <= BaseSize * Len(nodes) /\ p + n \in Nat
      BY <1>1, <1>2, <2>1
    <3>2. 1 + p \div BaseSize = p \div BaseSize + 1
      BY <1>1, ArrayAssumption
    <3>3. BytesFrom(p \div BaseSize + 1, p % BaseSize, n) \in Seq(Bytes)
      BY <1>1, <1>2, <3>1, BytesIs
    <3> QED
      BY <2>1, <3>2, <3>3, OutType
  <2>2. CASE out' = OutOfRange
    BY <2>2, OutType
  <2> QED
    BY <2>1, <2>2 DEF ReadAt, Throw
<1> QED
  BY <1>2, <1>3, <1>4, Ends, MovedInv

LEMMA SetPositionInv ==
  ASSUME IInv, NEW v \in Positions, SetPosition(v)
  PROVE  IInv'
<1>1. v \in Nat
  BY ArrayAssumption
<1>2. /\ position \in Nat /\ size \in Nat /\ capacity \in Nat /\ nodes \in Seq(Block)
      /\ position <= size /\ size <= capacity /\ capacity = BaseSize * Len(nodes)
  BY DEF IInv, CurIsAtPosition, TypeOK
<1>3. CASE Throw
  <2>1. /\ UNCHANGED listVars /\ position' = position /\ size' = size
        /\ cur' = cur /\ out' = OutOfRange
    BY <1>3 DEF Throw
  <2> QED
    BY <1>2, <2>1, Ends, OutType, MovedInv
<1>4. CASE v <= capacity /\ MoveTo(nodes, v) /\ out' = Nothing /\ UNCHANGED listVars
  <2>1. /\ position' = v /\ cur' = PointerAt(nodes, v)
        /\ size' = IF v > size THEN v ELSE size
    BY <1>1, <1>2, <1>4, SeekIs DEF MoveTo
  <2>2. size' \in Nat /\ position' <= size' /\ size' <= capacity
    BY <1>1, <1>2, <1>4, <2>1
  <2> QED
    BY <1>1, <1>4, <2>1, <2>2, OutType, MovedInv
<1> QED
  BY <1>3, <1>4 DEF SetPosition

LEMMA ReceiveInv ==
  ASSUME IInv, NEW bytes \in Seq(Bytes), bytes # <<>>, NEW n \in Lengths,
         Receive(bytes, n)
  PROVE  IInv'
<1>1. n \in Nat \ {0} /\ Len(bytes) \in Nat \ {0} /\ Len(bytes) <= n
  BY EmptySeq, ArrayAssumption DEF Receive, ReceiveAndMove
<1>2. PICK list \in Extended(n) :
        /\ nodes' = Put(list, CurExtended(list), position % BaseSize, bytes)
        /\ capacity' = capacity + (Len(list) - Len(nodes)) * BaseSize
        /\ MoveTo(list, position + Len(bytes))
  BY DEF Receive, ReceiveAndMove
<1>3. Len(bytes) \in 1..n
  BY <1>1
<1>4. /\ list \in Seq(Block) /\ nodes' \in Seq(Block) /\ nodes' # <<>>
      /\ Len(nodes') = Len(list)
      /\ capacity' = BaseSize * Len(nodes') /\ capacity' \in Nat
      /\ capacity <= capacity' /\ position + n <= capacity'
  BY <1>1, <1>2, <1>3, Stored
<1>5. /\ position \in Nat /\ size \in Nat /\ capacity \in Nat
      /\ position <= size /\ size <= capacity
  BY DEF IInv, CurIsAtPosition, TypeOK
<1> DEFINE v == position + Len(bytes)
<1>6. v \in Nat /\ v <= capacity'
  BY <1>1, <1>4, <1>5
<1>7. /\ position' = v /\ cur' = Seek(list, v)
      /\ size' = IF v > size THEN v ELSE size
  BY <1>2 DEF MoveTo
<1> HIDE DEF v
<1>8. cur' = PointerAt(nodes', position')
  <2>1. v <= BaseSize * Len(list)
    BY <1>4, <1>6
  <2>2. cur' = PointerAt(list, v)
    BY <1>4, <1>6, <1>7, <2>1, SeekIs
  <2> QED
    BY <1>4, <1>7, <2>2 DEF PointerAt
<1>9. /\ position' \in Nat /\ size' \in Nat
      /\ position' <= size' /\ size' <= capacity'
  BY <1>4, <1>5, <1>6, <1>7
<1>10. out' = Nothing
  BY DEF Receive, ReceiveAndMove
<1> QED
  BY <1>4, <1>8, <1>9, <1>10, OutType, Placed

LEMMA ReceiveFailsInv ==
  ASSUME IInv, NEW n \in Lengths, ReceiveFails(n)
  PROVE  IInv'
<1>1. n \in Nat \ {0}
  BY ArrayAssumption
<1>2. /\ nodes' \in Extended(n) /\ cur' = CurExtended(nodes')
      /\ capacity' = capacity + (Len(nodes') - Len(nodes)) * BaseSize
      /\ position' = position /\ size' = size /\ out' = out
  BY DEF ReceiveFails
<1>3. /\ nodes' \in Seq(Block) /\ Len(nodes') \in Nat /\ nodes' # <<>>
      /\ position + n <= BaseSize * Len(nodes')
      /\ BaseSize * Len(nodes') \in Nat /\ capacity <= BaseSize * Len(nodes')
      /\ capacity' = BaseSize * Len(nodes')
      /\ cur' = position \div BaseSize + 1
  BY <1>1, <1>2, ExtendIs
<1>4. /\ position \in Nat /\ size \in Nat /\ capacity \in Nat /\ out \in Out
      /\ position <= size /\ size <= capacity
  BY DEF IInv, CurIsAtPosition, TypeOK
<1>5. position < BaseSize * Len(nodes')
  BY <1>1, <1>3, <1>4
<1>6. position \div BaseSize < Len(nodes')
  BY <1>3, <1>4, <1>5, BlockOf
<1>7. cur' = PointerAt(nodes', position')
  <2>1. position \div BaseSize \in Nat
    BY <1>4, DivMod
  <2> QED
    BY <1>2, <1>3, <1>5, <1>6, <2>1 DEF PointerAt
<1>8. size' <= capacity'
  BY <1>2, <1>3, <1>4
<1> QED
  BY <1>2, <1>3, <1>4, <1>7, <1>8, Placed

LEMMA OneBlock ==
  ASSUME NEW b \in Block
  PROVE  /\ <<b>> \in Seq(Block) /\ <<b>> # <<>> /\ Len(<<b>>) = 1
         /\ BaseSize = BaseSize * Len(<<b>>) /\ PointerAt(<<b>>, 0) = 1
<1>1. BaseSize \in Nat \ {0} /\ <<b>> \in Seq(Block) /\ Len(<<b>>) = 1 /\ <<b>> # <<>>
  BY ArrayAssumption
<1>2. BaseSize * Len(<<b>>) = BaseSize
  BY <1>1
<1>3. 0 \div BaseSize = 0
  <2>1. BaseSize * 0 + 0 = 0 /\ 0 \in 0..(BaseSize - 1)
    BY ArrayAssumption
  <2> QED
    BY <2>1, DivUnique
<1> QED
  BY <1>1, <1>2, <1>3 DEF PointerAt

LEMMA ClearInv == ASSUME IInv, Clear PROVE IInv'
<1>1. nodes[1] \in Block
  BY EmptySeq DEF IInv, CurIsAtPosition, TypeOK
<1>2. /\ nodes' = <<nodes[1]>> /\ cur' = 1 /\ capacity' = BaseSize
      /\ position' = 0 /\ size' = 0 /\ out' = Nothing
  BY DEF Clear
<1>3. BaseSize \in Nat
  BY ArrayAssumption
<1> QED
  BY <1>1, <1>2, <1>3, OneBlock, OutType, Placed

LEMMA InitInv == ASSUME Init PROVE IInv
<1>1. nodes \in Seq(Block) /\ nodes # <<>> /\ Len(nodes) = 1
  <2>1. \A i \in 1..1 : nodes[i] \in Block
    BY ArrayAssumption DEF Init, NewBlocks, Block
  <2>2. nodes = [i \in 1..1 |-> nodes[i]]
    BY DEF Init
  <2> QED
    BY <2>1, <2>2, IsASeq
<1>2. /\ cur = 1 /\ position = 0 /\ capacity = BaseSize /\ size = 0 /\ out = Nothing
  BY DEF Init
<1>3. BaseSize \in Nat \ {0} /\ BaseSize * Len(nodes) = BaseSize
  BY <1>1, ArrayAssumption
<1>4. 0 \div BaseSize = 0
  <2>1. BaseSize * 0 + 0 = 0 /\ 0 \in 0..(BaseSize - 1)
    BY ArrayAssumption
  <2> QED
    BY <2>1, DivUnique
<1>5. TypeOK
  BY <1>1, <1>2, <1>3, OutType DEF TypeOK
<1> QED
  BY <1>1, <1>2, <1>3, <1>4, <1>5 DEF IInv, CurIsAtPosition
-----------------------------------------------------------------------------
(* A set of numbers that is not empty has a least one.                       *)
LEMMA Least ==
  ASSUME NEW S \in SUBSET Nat, S # {}
  PROVE  \E m \in S : \A k \in S : ~(k < m)
<1> DEFINE R == OpToRel(<, Nat)
<1>1. IsWellFoundedOn(R, Nat)
  BY NatLessThanWellFounded
<1>2. \A k, m \in Nat : k < m => <<k, m>> \in R
  BY DEF OpToRel
<1> HIDE DEF R
<1>3. PICK m \in S : \A k \in S : ~(<<k, m>> \in R)
  BY <1>1, WFMin
<1> QED
  BY <1>2, <1>3

LEMMA MaxBytesType == MaxBytes \in Nat \ {0}
<1> DEFINE a == Width + Group - 1
<1>1. a \in Nat /\ a >= Group /\ Group \in Nat /\ Group > 0
  BY CodingAssumption
<1> HIDE DEF a
<1>2. PICK q \in Nat : q = a \div Group
  BY <1>1
<1>3. PICK r \in 0..(Group - 1) : r = a % Group
  BY <1>1
<1>4. a = Group * q + r
  BY <1>1, <1>2, <1>3, Division
<1>5. q # 0
  BY <1>1, <1>3, <1>4
<1> QED
  BY <1>2, <1>5 DEF MaxBytes, a

-----------------------------------------------------------------------------
(* The codes of integers.  The library proves induction for operators, which *)
(* cannot be given to these provers; that a set of numbers has a least one    *)
(* can, and it gives induction for sets.                                     *)

(* Induction: a set with 0 and every successor has every number.             *)
LEMMA Inductive ==
  ASSUME NEW S, 0 \in S, \A n \in Nat : n \in S => n + 1 \in S
  PROVE  \A n \in Nat : n \in S
<1> SUFFICES ASSUME Nat \ S # {} PROVE FALSE
  OBVIOUS
<1>1. PICK m \in Nat \ S : \A k \in Nat \ S : ~(k < m)
  BY Least
<1>2. m - 1 \in Nat /\ m - 1 < m
  BY <1>1
<1>3. m - 1 \in S
  BY <1>1, <1>2
<1> QED
  BY <1>1, <1>2, <1>3

(* What steps of the numbers lead to from a first one is a function.         *)
LEMMA Iterated ==
  ASSUME NEW b \in Nat, NEW step \in [Nat -> [Nat -> Nat]]
  PROVE  \E f \in [Nat -> Nat] : f[0] = b /\ \A n \in Nat : f[n + 1] = step[n][f[n]]
<1> DEFINE Path(m) == {g \in [0..m -> Nat] :
                         g[0] = b /\ \A n \in 0..(m - 1) : g[n + 1] = step[n][g[n]]}
           Some == {m \in Nat : Path(m) # {}}
<1>1. \A m \in Nat : m \in Some
  <2>1. 0 \in Some
    <3>1. [i \in 0..0 |-> b] \in Path(0)
      OBVIOUS
    <3> QED
      BY <3>1
  <2>2. ASSUME NEW m \in Nat, m \in Some PROVE m + 1 \in Some
    <3>1. PICK g : g \in Path(m)
      BY <2>2
    <3> DEFINE h == [i \in 0..(m + 1) |-> IF i <= m THEN g[i] ELSE step[m][g[m]]]
    <3>2. g \in [0..m -> Nat] /\ m \in 0..m /\ g[m] \in Nat /\ g[0] = b
      <4>1. g \in [0..m -> Nat] /\ g[0] = b
        BY <3>1
      <4>2. m \in 0..m
        OBVIOUS
      <4> QED
        BY <4>1, <4>2
    <3>3. step[m] \in [Nat -> Nat]
      OBVIOUS
    <3>4. step[m][g[m]] \in Nat
      BY <3>2, <3>3
    <3>5. h \in [0..(m + 1) -> Nat] /\ h[0] = b
      <4>1. ASSUME NEW i \in 0..(m + 1) PROVE h[i] \in Nat
        <5>1. i <= m => i \in 0..m
          OBVIOUS
        <5> QED
          BY <3>2, <3>4, <5>1
      <4>2. h \in [0..(m + 1) -> Nat]
        BY <4>1
      <4>3. 0 \in 0..(m + 1) /\ 0 <= m
        OBVIOUS
      <4>4. h[0] = g[0]
        BY <4>3
      <4> QED
        BY <3>2, <4>2, <4>4
    <3>6. ASSUME NEW n \in 0..m PROVE h[n + 1] = step[n][h[n]]
      <4>1. CASE n = m
        BY <3>2, <4>1
      <4>2. CASE n # m
        <5>1. n \in 0..(m - 1) /\ n + 1 <= m /\ n <= m /\ n + 1 \in 0..(m + 1)
              /\ n \in 0..(m + 1)
          BY <4>2
        <5>2. g[n + 1] = step[n][g[n]]
          BY <3>1, <5>1
        <5>3. h[n + 1] = g[n + 1] /\ h[n] = g[n]
          BY <5>1
        <5> QED
          BY <5>2, <5>3
      <4> QED
        BY <4>1, <4>2
    <3>7. (m + 1) - 1 = m /\ m + 1 \in Nat
      OBVIOUS
    <3> HIDE DEF h
    <3>8. h \in Path(m + 1)
      BY <3>5, <3>6, <3>7
    <3> HIDE DEF Path
    <3> QED
      BY <3>7, <3>8
  <2> HIDE DEF Some
  <2> QED
    BY <2>1, <2>2, Inductive
<1>2. ASSUME NEW m \in Nat, NEW k \in Nat, NEW g \in Path(m), NEW h \in Path(k), m <= k
      PROVE  \A i \in 0..m : g[i] = h[i]
  <2> DEFINE Same == {i \in Nat : i <= m => g[i] = h[i]}
  <2>1. 0 \in Same
    OBVIOUS
  <2>2. ASSUME NEW i \in Nat, i \in Same PROVE i + 1 \in Same
    <3> SUFFICES ASSUME i + 1 <= m PROVE g[i + 1] = h[i + 1]
      OBVIOUS
    <3>1. i \in 0..(m - 1) /\ i \in 0..(k - 1) /\ g[i] = h[i]
      BY <1>2, <2>2
    <3> QED
      BY <3>1
  <2> HIDE DEF Same
  <2>3. \A i \in Nat : i \in Same
    BY <2>1, <2>2, Inductive
  <2> HIDE DEF Path
  <2>4. \A i \in 0..m : i \in Nat /\ i <= m
    OBVIOUS
  <2> QED
    BY <2>3, <2>4 DEF Same
<1>3. \A m \in Nat : \E g : g \in Path(m)
  BY <1>1
<1> DEFINE Pick(m) == CHOOSE g : g \in Path(m)
           f == [m \in Nat |-> Pick(m)[m]]
<1>4. \A m \in Nat : Pick(m) \in Path(m)
  BY <1>3
<1> HIDE DEF Pick
<1>5. f \in [Nat -> Nat] /\ f[0] = b
  <2>1. ASSUME NEW m \in Nat PROVE Pick(m)[m] \in Nat
    BY <1>4
  <2> QED
    BY <1>4, <2>1
<1>6. ASSUME NEW n \in Nat PROVE f[n + 1] = step[n][f[n]]
  <2>1. Pick(n) \in Path(n) /\ Pick(n + 1) \in Path(n + 1) /\ n + 1 \in Nat
    <3>1. n + 1 \in Nat
      OBVIOUS
    <3> HIDE DEF Path
    <3> QED
      BY <1>4, <3>1
  <2>2. Pick(n)[n] = Pick(n + 1)[n]
    <3>1. n \in 0..n /\ n <= n + 1
      OBVIOUS
    <3> HIDE DEF Path
    <3> QED
      BY <1>2, <2>1, <3>1
  <2>3. Pick(n + 1)[n + 1] = step[n][Pick(n + 1)[n]]
    <3>1. n \in 0..((n + 1) - 1)
      OBVIOUS
    <3> QED
      BY <2>1, <3>1
  <2> QED
    BY <2>1, <2>2, <2>3
<1> HIDE DEF f
<1> QED
  BY <1>5, <1>6

(* The powers of two.                                                        *)
LEMMA PowerIs ==
  /\ Power[0] = 1
  /\ \A n \in Nat : Power[n] \in Nat /\ Power[n + 1] = 2 * Power[n]
<1> DEFINE Def(f) == [n \in Nat |-> IF n = 0 THEN 1 ELSE 2 * f[n - 1]]
           step == [n \in Nat |-> [v \in Nat |-> 2 * v]]
<1>1. step \in [Nat -> [Nat -> Nat]]
  OBVIOUS
<1>2. PICK f \in [Nat -> Nat] : f[0] = 1 /\ \A n \in Nat : f[n + 1] = step[n][f[n]]
  <2> HIDE DEF step
  <2> QED
    BY <1>1, Iterated, 1 \in Nat
<1>3. \A n \in Nat : f[n + 1] = 2 * f[n]
  BY <1>2
<1>4. f = Def(f)
  <2>1. ASSUME NEW n \in Nat PROVE f[n] = IF n = 0 THEN 1 ELSE 2 * f[n - 1]
    <3>1. CASE n = 0
      BY <1>2, <3>1
    <3>2. CASE n # 0
      <4>1. n - 1 \in Nat /\ (n - 1) + 1 = n
        BY <3>2
      <4> QED
        BY <1>3, <3>2, <4>1
    <3> QED
      BY <3>1, <3>2
  <2> QED
    BY <2>1
<1>5. Power = CHOOSE g : g = Def(g)
  BY DEF Power
<1>6. Power = Def(Power)
  <2> HIDE DEF Def
  <2> QED
    BY <1>4, <1>5
<1>7. Power[0] = 1 /\ \A n \in Nat : Power[n + 1] = 2 * Power[n]
  <2>1. ASSUME NEW n \in Nat PROVE Power[n] = IF n = 0 THEN 1 ELSE 2 * Power[n - 1]
    BY <1>6
  <2>2. ASSUME NEW n \in Nat PROVE n + 1 \in Nat /\ n + 1 # 0 /\ (n + 1) - 1 = n
    OBVIOUS
  <2> QED
    BY <2>1, <2>2
<1>8. \A n \in Nat : Power[n] \in Nat
  <2> DEFINE S == {n \in Nat : Power[n] \in Nat}
  <2>1. 0 \in S
    BY <1>7
  <2>2. \A n \in Nat : n \in S => n + 1 \in S
    BY <1>7
  <2> HIDE DEF S
  <2>3. \A n \in Nat : n \in S
    BY <2>1, <2>2, Inductive
  <2> QED
    BY <2>3 DEF S
<1> QED
  BY <1>7, <1>8


LEMMA PowerPositive == \A n \in Nat : Power[n] \in Nat /\ Power[n] >= 1
<1> DEFINE S == {n \in Nat : Power[n] >= 1}
<1>1. 0 \in S
  BY PowerIs
<1>2. ASSUME NEW n \in Nat, n \in S PROVE n + 1 \in S
  <2>1. n + 1 \in Nat /\ Power[n] \in Nat /\ Power[n + 1] = 2 * Power[n]
    BY PowerIs
  <2> QED
    BY <1>2, <2>1
<1> HIDE DEF S
<1>3. \A n \in Nat : n \in S
  BY <1>1, <1>2, Inductive
<1> QED
  BY <1>3, PowerIs DEF S

LEMMA Distribute == \A x, y, z \in Nat : x * (y + z) = x * y + x * z
  OBVIOUS

LEMMA PowerSum == \A a, b \in Nat : Power[a + b] = Power[a] * Power[b]
<1> SUFFICES ASSUME NEW a \in Nat PROVE \A b \in Nat : Power[a + b] = Power[a] * Power[b]
  OBVIOUS
<1> DEFINE S == {b \in Nat : Power[a + b] = Power[a] * Power[b]}
<1>1. 0 \in S
  <2>1. a + 0 = a /\ Power[a] * 1 = Power[a]
    BY PowerIs
  <2> QED
    BY <2>1, PowerIs
<1>2. ASSUME NEW b \in Nat, b \in S PROVE b + 1 \in S
  <2>1. PICK x \in Nat : x = Power[a]
    BY PowerIs
  <2>2. PICK y \in Nat : y = Power[b]
    BY PowerIs
  <2>3. a + b \in Nat /\ a + (b + 1) = (a + b) + 1 /\ b + 1 \in Nat
    OBVIOUS
  <2>4. Power[a + (b + 1)] = 2 * (x * y)
    BY <1>2, <2>1, <2>2, <2>3, PowerIs
  <2>5. Power[b + 1] = 2 * y
    BY <2>2, PowerIs
  <2>6. 2 * (x * y) = x * (2 * y)
    OBVIOUS
  <2> QED
    BY <2>1, <2>3, <2>4, <2>5, <2>6
<1> HIDE DEF S
<1>3. \A b \in Nat : b \in S
  BY <1>1, <1>2, Inductive
<1> QED
  BY <1>3 DEF S

LEMMA PowerGrows == \A a, b \in Nat : a <= b => Power[a] <= Power[b]
<1> SUFFICES ASSUME NEW a \in Nat, NEW b \in Nat, a <= b PROVE Power[a] <= Power[b]
  OBVIOUS
<1>1. b - a \in Nat /\ a + (b - a) = b
  OBVIOUS
<1>2. PICK x \in Nat : x = Power[a]
  BY PowerIs
<1>3. PICK y \in Nat : y = Power[b - a] /\ y >= 1
  BY <1>1, PowerPositive
<1>4. Power[b] = x * y
  BY <1>1, <1>2, <1>3, PowerSum
<1>5. x <= x * y
  <2>1. y - 1 \in Nat /\ 1 + (y - 1) = y
    BY <1>3
  <2>2. x * (1 + (y - 1)) = x * 1 + x * (y - 1)
    BY <2>1, Distribute
  <2>3. x * (y - 1) \in Nat /\ x * 1 = x
    BY <2>1, Product
  <2> QED
    BY <2>1, <2>2, <2>3
<1> QED
  BY <1>2, <1>4, <1>5

(* The weight of the i-th group, from 0.                                     *)
Weight(i) == Power[Group * i]

LEMMA WeightIs ==
  /\ Mark \in Nat /\ Mark >= 2
  /\ Weight(0) = 1
  /\ \A i \in Nat : Weight(i) \in Nat /\ Weight(i) >= 1 /\ Weight(i + 1) = Weight(i) * Mark
<1>1. Group \in Nat /\ Group - 1 \in Nat /\ (Group - 1) + 1 = Group
  BY CodingAssumption
<1>2. Mark \in Nat /\ Mark >= 2
  <2>1. Power[Group - 1] \in Nat /\ Power[Group - 1] >= 1
    BY <1>1, PowerPositive
  <2>2. Power[Group] = 2 * Power[Group - 1]
    BY <1>1, PowerIs
  <2> QED
    BY <2>1, <2>2 DEF Mark
<1>3. Weight(0) = 1
  <2>1. Group * 0 = 0
    BY <1>1
  <2> QED
    BY <2>1, PowerIs DEF Weight
<1>4. ASSUME NEW i \in Nat
      PROVE  Weight(i) \in Nat /\ Weight(i) >= 1 /\ Weight(i + 1) = Weight(i) * Mark
  <2>1. Group * i \in Nat
    BY <1>1, Product
  <2>2. Group * (i + 1) = Group * i + Group
    BY <1>1, Distribute
  <2> QED
    BY <1>1, <2>1, <2>2, PowerPositive, PowerSum DEF Weight, Mark
<1> QED
  BY <1>2, <1>3, <1>4

LEMMA WeightGrows == \A i, k \in Nat : i <= k => Weight(i) <= Weight(k)
<1> SUFFICES ASSUME NEW i \in Nat, NEW k \in Nat, i <= k PROVE Weight(i) <= Weight(k)
  OBVIOUS
<1>1. Group \in Nat /\ k - i \in Nat /\ i + (k - i) = k
  BY CodingAssumption
<1>2. Group * i \in Nat /\ Group * (k - i) \in Nat /\ Group * k \in Nat
  BY <1>1, Product
<1>3. Group * k = Group * i + Group * (k - i)
  BY <1>1, Distribute
<1> QED
  BY <1>2, <1>3, PowerGrows DEF Weight

LEMMA DigitType == \A x, m \in Nat : m >= 1 => x % m \in Nat /\ x % m < m
  OBVIOUS

(* The loop of readUint32() is well defined.                                 *)
LEMMA ResultIs ==
  ASSUME NEW n \in Nat, NEW bytes, Len(bytes) = n,
         \A i \in 1..n : bytes[i] \in Nat
  PROVE  \E r \in [0..n -> Nat] :
           /\ r[0] = 0
           /\ \A i \in 1..n : r[i] = r[i - 1] + (bytes[i] % Mark) * Weight(i - 1)
           /\ VarintValue(bytes) = r[n] % Power[Width]
<1> DEFINE part(i) == (bytes[i] % Mark) * Weight(i - 1)
           add(i) == IF i < n THEN part(i + 1) ELSE 0
           step == [i \in Nat |-> [v \in Nat |-> v + add(i)]]
           Def(f) == [i \in 0..n |-> IF i = 0 THEN 0 ELSE f[i - 1] + part(i)]
<1>1. ASSUME NEW i \in Nat PROVE add(i) \in Nat
  <2>1. CASE i < n
    <3>1. i + 1 \in 1..n /\ (i + 1) - 1 = i
      BY <2>1
    <3>2. bytes[i + 1] \in Nat
      BY <3>1
    <3>3. bytes[i + 1] % Mark \in Nat
      <4>1. Mark \in Nat /\ Mark >= 1
        BY WeightIs
      <4> QED
        BY <3>2, <4>1, DigitType
    <3>4. part(i + 1) \in Nat
      BY <3>1, <3>3, WeightIs, Product
    <3> QED
      BY <2>1, <3>4
  <2> QED
    BY <2>1
<1> HIDE DEF add
<1>2. step \in [Nat -> [Nat -> Nat]] /\ \A i \in Nat, v \in Nat : step[i][v] = v + add(i)
  <2> DEFINE plus(i) == [v \in Nat |-> v + add(i)]
  <2>1. ASSUME NEW i \in Nat
        PROVE  plus(i) \in [Nat -> Nat] /\ \A v \in Nat : plus(i)[v] = v + add(i)
    <3>1. PICK c \in Nat : c = add(i)
      BY <1>1
    <3>2. \A v \in Nat : v + c \in Nat
      OBVIOUS
    <3> QED
      BY <3>1, <3>2
  <2> HIDE DEF plus
  <2>2. step = [i \in Nat |-> plus(i)]
    BY DEF plus
  <2> HIDE DEF step
  <2> QED
    BY <2>1, <2>2
<1>3. PICK f \in [Nat -> Nat] : f[0] = 0 /\ \A i \in Nat : f[i + 1] = step[i][f[i]]
  <2> HIDE DEF step
  <2> QED
    BY <1>2, Iterated, 0 \in Nat
<1>4. \A i \in Nat : f[i + 1] = f[i] + add(i)
  <2> HIDE DEF step
  <2> QED
    BY <1>2, <1>3
<1> DEFINE r == [i \in 0..n |-> f[i]]
<1>5. r \in [0..n -> Nat] /\ r[0] = 0
  BY <1>3
<1>6. ASSUME NEW i \in 1..n PROVE r[i] = r[i - 1] + part(i)
  <2>1. i - 1 \in Nat /\ i - 1 < n /\ (i - 1) + 1 = i /\ i \in 0..n /\ i - 1 \in 0..n
    OBVIOUS
  <2>2. f[i] = f[i - 1] + add(i - 1)
    BY <1>4, <2>1
  <2>3. add(i - 1) = part(i)
    BY <2>1 DEF add
  <2> QED
    BY <2>1, <2>2, <2>3
<1> HIDE DEF r
<1>7. \E g : g = Def(g)
  <2> HIDE DEF part
  <2>1. ASSUME NEW i \in 0..n PROVE r[i] = IF i = 0 THEN 0 ELSE r[i - 1] + part(i)
    <3>1. i # 0 => i \in 1..n
      OBVIOUS
    <3> QED
      BY <1>5, <1>6, <3>1
  <2>2. r = Def(r)
    BY <1>5, <2>1
  <2> QED
    BY <2>2
<1> DEFINE result == CHOOSE g : g = Def(g)
<1>8. result = Def(result)
  <2> HIDE DEF Def
  <2> QED
    BY <1>7
<1>9. VarintValue(bytes) = result[n] % Power[Width]
  BY DEF VarintValue, Weight
<1> HIDE DEF result
<1>10. result[0] = 0 /\ \A i \in 1..n : result[i] = result[i - 1] + part(i)
  <2> HIDE DEF part
  <2>1. 0 \in 0..n /\ \A i \in 1..n : i \in 0..n /\ i # 0
    OBVIOUS
  <2>2. \A i \in 0..n : result[i] = IF i = 0 THEN 0 ELSE result[i - 1] + part(i)
    BY <1>8
  <2> QED
    BY <2>1, <2>2
<1>11. \A i \in 0..n : result[i] = r[i]
  <2> DEFINE S == {i \in Nat : i <= n => result[i] = r[i]}
  <2>1. 0 \in S
    BY <1>5, <1>10
  <2>2. ASSUME NEW i \in Nat, i \in S PROVE i + 1 \in S
    <3> HIDE DEF part
    <3>1. ASSUME i + 1 <= n PROVE result[i + 1] = r[i + 1]
      <4>1. i + 1 \in 1..n /\ (i + 1) - 1 = i /\ i <= n
        BY <3>1
      <4>2. result[i] = r[i]
        BY <2>2, <4>1
      <4> QED
        BY <1>6, <1>10, <4>1, <4>2
    <3>2. i + 1 \in Nat
      OBVIOUS
    <3> QED
      BY <3>1, <3>2
  <2> HIDE DEF S
  <2>3. \A i \in Nat : i \in S
    BY <2>1, <2>2, Inductive
  <2> QED
    BY <2>3 DEF S
<1>12. VarintValue(bytes) = r[n] % Power[Width]
  <2>1. n \in 0..n
    OBVIOUS
  <2> QED
    BY <1>9, <1>11, <2>1
<1> QED
  BY <1>5, <1>6, <1>12

(* The lowest digits of a number are those of one digit fewer and one more.  *)
LEMMA NextDigit ==
  ASSUME NEW u \in Nat, NEW q \in Nat, q >= 1, NEW m \in Nat, m >= 1
  PROVE  u % (q * m) = (u % q) + ((u \div q) % m) * q
<1>1. PICK a \in Nat : a = u \div q
  OBVIOUS
<1>2. PICK r \in 0..(q - 1) : r = u % q
  OBVIOUS
<1>3. u = q * a + r
  BY <1>1, <1>2, Division
<1>4. PICK b \in Nat : b = a \div m
  OBVIOUS
<1>5. PICK s \in 0..(m - 1) : s = a % m
  OBVIOUS
<1>6. a = m * b + s
  BY <1>4, <1>5, Division
<1>7. q * a = (q * m) * b + q * s
  <2>1. q * (m * b + s) = q * (m * b) + q * s
    BY Product, Distribute
  <2>2. q * (m * b) = (q * m) * b
    OBVIOUS
  <2> QED
    BY <1>6, <2>1, <2>2
<1>8. q * s \in Nat /\ (q * m) * b \in Nat /\ q * m \in Nat
  BY Product
<1>9. q * s + r < q * m
  <2>1. m - 1 - s \in Nat /\ m = (s + 1) + (m - 1 - s)
    OBVIOUS
  <2>2. q * ((s + 1) + (m - 1 - s)) = q * (s + 1) + q * (m - 1 - s)
    BY <2>1, Distribute
  <2>3. q * (m - 1 - s) \in Nat
    BY <2>1, Product
  <2>4. q * (s + 1) = q * s + q
    OBVIOUS
  <2>5. q * m = (q * s + q) + q * (m - 1 - s)
    BY <2>1, <2>2, <2>4
  <2> QED
    BY <1>8, <2>3, <2>5
<1>10. q * s + r \in 0..(q * m - 1) /\ u = (q * m) * b + (q * s + r) /\ q * m > 0
  BY <1>3, <1>7, <1>8, <1>9
<1>11. q * s + r = u % (q * m)
  <2>1. PICK p \in Nat : p = q * m
    BY <1>8
  <2>2. PICK d \in Nat : d = q * s + r
    BY <1>8
  <2>3. d \in 0..(p - 1) /\ u = p * b + d /\ p > 0
    BY <1>10, <2>1, <2>2
  <2>4. u \in Int /\ p \in Int /\ b \in Int
    OBVIOUS
  <2>5. d = u % p
    BY <2>3, <2>4, Remainder, Zenon
  <2> QED
    BY <2>1, <2>2, <2>5
<1> QED
  BY <1>1, <1>2, <1>5, <1>11

LEMMA SmallRemainder == \A u, m \in Nat : u < m => u % m = u
<1> SUFFICES ASSUME NEW u \in Nat, NEW m \in Nat, u < m PROVE u = u % m
  OBVIOUS
<1>1. u \in 0..(m - 1) /\ u = m * 0 + u /\ m > 0
  OBVIOUS
<1> QED
  BY <1>1, Remainder

LEMMA WidthFits ==
  /\ Power[Width] \in Nat /\ Power[Width] >= 1
  /\ Power[Width] <= Weight(MaxBytes)
<1>1. Width \in Nat /\ Group \in Nat /\ Group > 0
  BY CodingAssumption
<1> DEFINE a == Width + Group - 1
<1>2. a \in Nat
  BY <1>1
<1>3. PICK q \in Nat : q = a \div Group
  BY <1>1, <1>2
<1>4. PICK r \in 0..(Group - 1) : r = a % Group
  BY <1>1, <1>2
<1>5. a = Group * q + r
  BY <1>1, <1>2, <1>3, <1>4, Division
<1>6. Group * q \in Nat
  BY <1>1, Product
<1>7. Width <= Group * q
  BY <1>1, <1>4, <1>5, <1>6
<1>8. MaxBytes = q
  BY <1>3 DEF MaxBytes
<1> QED
  BY <1>1, <1>6, <1>7, <1>8, PowerPositive, PowerGrows DEF Weight

(* How many bytes an integer takes: the first whose weight is beyond it.     *)
SizeOf(u) == CHOOSE n \in 1..MaxBytes :
               u < Weight(n) /\ (n = 1 \/ u >= Weight(n - 1))

LEMMA SizeIs ==
  ASSUME NEW u \in 0..(Power[Width] - 1)
  PROVE  SizeOf(u) \in 1..MaxBytes /\ u < Weight(SizeOf(u))
<1> DEFINE S == {n \in Nat : n >= 1 /\ u < Weight(n)}
<1>1. MaxBytes \in S
  BY WidthFits, MaxBytesType, WeightIs
<1>2. PICK n \in S : \A k \in S : ~(k < n)
  <2>1. S \in SUBSET Nat /\ S # {}
    BY <1>1
  <2> HIDE DEF S
  <2> QED
    BY <2>1, Least
<1>3. n \in 1..MaxBytes
  BY <1>1, <1>2, MaxBytesType
<1>4. n = 1 \/ u >= Weight(n - 1)
  <2> SUFFICES ASSUME n # 1 PROVE u >= Weight(n - 1)
    OBVIOUS
  <2>1. n - 1 \in Nat /\ n - 1 >= 1 /\ n - 1 < n
    BY <1>3
  <2>2. ~(u < Weight(n - 1))
    BY <1>2, <2>1
  <2>3. Weight(n - 1) \in Nat /\ u \in Nat
    BY <2>1, WeightIs, WidthFits
  <2> QED
    BY <2>2, <2>3
<1>5. u < Weight(n)
  BY <1>2
<1> QED
  BY <1>3, <1>4, <1>5 DEF SizeOf

(* The codes of unsigned integers, and what is read of any bytes.            *)
LEMMA VarintIs ==
  ASSUME NEW u \in 0..(Power[Width] - 1)
  PROVE  LET n == SizeOf(u) IN
         Varint(u) = [i \in 1..n |->
           ((u \div Weight(i - 1)) % Mark) + (IF i < n THEN Mark ELSE 0)]
BY DEF Varint, SizeOf, Weight

LEMMA CodeOf ==
  ASSUME NEW u \in 0..(Power[Width] - 1)
  PROVE  LET n == SizeOf(u)
             digit(i) == (u \div Weight(i - 1)) % Mark IN
         /\ n \in 1..MaxBytes /\ n \in Nat \ {0} /\ u < Weight(n) /\ u \in Nat
         /\ Varint(u) \in Seq(Bytes) /\ Len(Varint(u)) = n
         /\ \A i \in 1..n :
              /\ digit(i) \in Nat /\ digit(i) < Mark
              /\ Varint(u)[i] = digit(i) + (IF i < n THEN Mark ELSE 0)
              /\ Varint(u)[i] \in Nat /\ Varint(u)[i] % Mark = digit(i)
              /\ Varint(u)[i] < Mark <=> i = n
<1> DEFINE n == SizeOf(u)
           digit(i) == (u \div Weight(i - 1)) % Mark
<1>1. n \in 1..MaxBytes /\ u < Weight(n) /\ n \in Nat \ {0} /\ u \in Nat
  BY SizeIs, MaxBytesType, WidthFits
<1>2. Varint(u) = [i \in 1..n |-> digit(i) + (IF i < n THEN Mark ELSE 0)]
  BY VarintIs
<1> HIDE DEF n
<1>3. Mark \in Nat /\ Mark >= 2
  BY WeightIs
<1>4. ASSUME NEW i \in 1..n
      PROVE  /\ digit(i) \in Nat /\ digit(i) < Mark
             /\ Varint(u)[i] = digit(i) + (IF i < n THEN Mark ELSE 0)
             /\ Varint(u)[i] \in Nat /\ Varint(u)[i] % Mark = digit(i)
             /\ Varint(u)[i] < Mark <=> i = n
             /\ Varint(u)[i] \in Bytes
  <2>1. PICK w \in Nat : w = Weight(i - 1) /\ w >= 1
    <3>1. i - 1 \in Nat
      BY <1>1
    <3> QED
      BY <3>1, WeightIs
  <2>2. PICK m \in Nat : m = Mark /\ m >= 2
    BY <1>3
  <2>3. PICK a \in Nat : a = u \div w
    BY <1>1, <2>1
  <2>4. a % m \in Nat /\ a % m < m
    BY <2>2, DigitType
  <2>5. PICK d \in 0..(m - 1) : d = digit(i)
    BY <2>1, <2>2, <2>3, <2>4
  <2>6. Varint(u)[i] = d + (IF i < n THEN m ELSE 0)
    BY <1>2, <2>2, <2>5
  <2> HIDE DEF digit
  <2>7. d % m = d /\ (d + m) % m = d
    <3>1. d = m * 0 + d /\ d + m = m * 1 + d /\ m > 0
      BY <2>2
    <3> QED
      BY <3>1, Remainder
  <2>8. Varint(u)[i] \in Nat /\ Varint(u)[i] % m = d /\ Varint(u)[i] \in 0..(2 * m - 1)
    BY <2>2, <2>6, <2>7
  <2>9. Varint(u)[i] < m <=> i = n
    BY <1>1, <2>2, <2>6
  <2> QED
    BY <2>2, <2>5, <2>6, <2>8, <2>9 DEF Bytes
<1> HIDE DEF digit
<1>5. Varint(u) \in Seq(Bytes) /\ Len(Varint(u)) = n
  <2>1. \A i \in 1..n : Varint(u)[i] \in Bytes
    BY <1>4
  <2>2. Varint(u) \in [1..n -> Bytes]
    BY <1>2, <2>1
  <2> QED
    BY <1>1, <2>2, SeqDef, LenProperties
<1> QED
  BY <1>1, <1>4, <1>5 DEF n, digit

LEMMA ReadBack ==
  ASSUME NEW u \in 0..(Power[Width] - 1)
  PROVE  VarintValue(Varint(u)) = u
<1> DEFINE n == SizeOf(u)
           digit(i) == (u \div Weight(i - 1)) % Mark
<1>1. /\ n \in Nat \ {0} /\ u < Weight(n) /\ u \in Nat
      /\ Len(Varint(u)) = n
      /\ \A i \in 1..n : Varint(u)[i] \in Nat /\ Varint(u)[i] % Mark = digit(i)
  BY CodeOf
<1> HIDE DEF n
<1>2. PICK r \in [0..n -> Nat] :
        /\ r[0] = 0
        /\ \A i \in 1..n : r[i] = r[i - 1] + (Varint(u)[i] % Mark) * Weight(i - 1)
        /\ VarintValue(Varint(u)) = r[n] % Power[Width]
  BY <1>1, ResultIs
<1>3. \A i \in 0..n : r[i] = u % Weight(i)
  <2> DEFINE S == {i \in Nat : i <= n => r[i] = u % Weight(i)}
  <2>1. 0 \in S
    <3>1. 0 = u % 1
      BY <1>1
    <3> QED
      BY <1>2, <3>1, WeightIs
  <2>2. ASSUME NEW i \in Nat, i \in S PROVE i + 1 \in S
    <3>1. CASE i + 1 <= n
      <4>1. i + 1 \in 1..n /\ (i + 1) - 1 = i /\ i <= n
        BY <1>1, <3>1
      <4>2. r[i + 1] = r[i] + (Varint(u)[i + 1] % Mark) * Weight(i)
        BY <1>2, <4>1
      <4>3. Varint(u)[i + 1] % Mark = (u \div Weight(i)) % Mark
        BY <1>1, <4>1
      <4>4. r[i] = u % Weight(i)
        BY <2>2, <4>1
      <4>5. PICK q \in Nat : q = Weight(i) /\ q >= 1 /\ Weight(i + 1) = q * Mark
        BY WeightIs
      <4>6. PICK m \in Nat : m = Mark /\ m >= 1
        BY WeightIs
      <4>7. r[i + 1] = (u % q) + ((u \div q) % m) * q
        BY <4>2, <4>3, <4>4, <4>5, <4>6
      <4>8. u % (q * m) = (u % q) + ((u \div q) % m) * q
        <5>1. u \in Nat /\ q >= 1 /\ m >= 1
          BY <1>1, <4>5, <4>6
        <5> QED
          BY <5>1, NextDigit, Zenon
      <4>9. r[i + 1] = u % Weight(i + 1)
        BY <4>5, <4>6, <4>7, <4>8
      <4> QED
        BY <4>9
    <3>2. i + 1 \in Nat
      OBVIOUS
    <3> QED
      BY <3>1, <3>2
  <2> HIDE DEF S
  <2>3. \A i \in Nat : i \in S
    BY <2>1, <2>2, Inductive
  <2> QED
    BY <2>3 DEF S
<1>4. u % Weight(n) = u
  BY <1>1, WeightIs, SmallRemainder
<1>5. u % Power[Width] = u
  <2>1. Power[Width] \in Nat /\ u < Power[Width]
    BY WidthFits
  <2> QED
    BY <1>1, <2>1, SmallRemainder
<1>6. n \in 0..n
  BY <1>1
<1>7. r[n] = u
  BY <1>3, <1>4, <1>6
<1> QED
  BY <1>2, <1>5, <1>7

LEMMA ReadIsValue ==
  ASSUME NEW n \in Nat, NEW bytes \in [1..n -> Bytes]
  PROVE  VarintValue(bytes) \in 0..(Power[Width] - 1)
<1>1. bytes \in Seq(Bytes) /\ Len(bytes) = n
  BY SeqDef, LenProperties
<1>2. \A i \in 1..n : bytes[i] \in Nat
  <2>1. Mark \in Nat
    BY WeightIs
  <2>2. \A b \in Bytes : b \in Nat
    BY <2>1 DEF Bytes
  <2> QED
    BY <2>2
<1>3. PICK r \in [0..n -> Nat] : VarintValue(bytes) = r[n] % Power[Width]
  BY <1>1, <1>2, ResultIs
<1>4. r[n] \in Nat
  BY <1>3
<1>5. Power[Width] \in Nat /\ Power[Width] >= 1
  BY WidthFits
<1>6. r[n] % Power[Width] \in Nat /\ r[n] % Power[Width] < Power[Width]
  BY <1>4, <1>5, DigitType
<1> QED
  BY <1>3, <1>5, <1>6

(* Unsigned integers are read back.                                          *)
THEOREM VarintCorrect == VarintCodec
<1>1. ASSUME NEW u \in 0..(Power[Width] - 1)
      PROVE  /\ Varint(u) \in Seq(Bytes) /\ Len(Varint(u)) \in 1..MaxBytes
             /\ \A k \in 1..Len(Varint(u)) : Varint(u)[k] < Mark <=> k = Len(Varint(u))
             /\ VarintValue(Varint(u)) = u
  BY CodeOf, ReadBack
<1>2. ASSUME NEW n \in 1..MaxBytes, NEW bytes \in [1..n -> Bytes]
      PROVE  VarintValue(bytes) \in 0..(Power[Width] - 1)
  <2>1. n \in Nat
    BY MaxBytesType
  <2> QED
    BY <2>1, ReadIsValue
<1> QED
  BY <1>1, <1>2 DEF VarintCodec
-----------------------------------------------------------------------------
(* The byte after which the reading of an integer stops is well defined: the *)
(* first without a mark, the last of the widest code or one that is missing. *)
Ahead(k) == BytesFrom(cur, position % BaseSize, k)
Stop(n) == n = MaxBytes \/ n > ReadSize \/ Ahead(n)[n] < Mark
Marked(n) == \A k \in 1..(n - 1) : k <= ReadSize /\ Ahead(k)[k] >= Mark
Taken == CHOOSE n \in 1..MaxBytes : Stop(n) /\ Marked(n)

LEMMA AheadIs ==
  ASSUME IInv, NEW k \in Nat \ {0}, k <= ReadSize
  PROVE  /\ Ahead(k) \in Seq(Bytes) /\ Len(Ahead(k)) = k
         /\ \A i \in 1..k : Ahead(k)[i] = ByteAt(nodes, position + i - 1)
                            /\ Ahead(k)[i] \in Bytes
<1>1. /\ position \in Nat /\ size \in Nat /\ capacity \in Nat /\ nodes \in Seq(Block)
      /\ position <= size /\ size <= capacity /\ capacity = BaseSize * Len(nodes)
  BY DEF IInv, CurIsAtPosition, TypeOK
<1>2. position + k <= capacity
  BY <1>1 DEF ReadSize
<1>3. cur = position \div BaseSize + 1
  BY <1>2, StepOn
<1>4. Ahead(k) = BytesFrom(position \div BaseSize + 1, position % BaseSize, k)
  BY <1>3 DEF Ahead
<1>5. position + k <= BaseSize * Len(nodes) /\ k \in Nat
  BY <1>1, <1>2
<1>6. \A i \in 1..k :
        /\ BytesFrom(position \div BaseSize + 1, position % BaseSize, k)[i]
             = ByteAt(nodes, position + i - 1)
        /\ BytesFrom(position \div BaseSize + 1, position % BaseSize, k)[i] \in Bytes
  BY <1>1, <1>5, BytesIs
<1>7. /\ BytesFrom(position \div BaseSize + 1, position % BaseSize, k) \in Seq(Bytes)
      /\ Len(BytesFrom(position \div BaseSize + 1, position % BaseSize, k)) = k
  BY <1>1, <1>5, BytesIs
<1> QED
  BY <1>4, <1>6, <1>7, Zenon

LEMMA TakenIs ==
  ASSUME IInv
  PROVE  Taken \in 1..MaxBytes /\ Stop(Taken) /\ Marked(Taken)
<1>1. MaxBytes \in Nat \ {0}
  BY MaxBytesType
<1> DEFINE S == {n \in 1..MaxBytes : Stop(n)}
<1>2. MaxBytes \in S
  BY <1>1 DEF Stop
<1>3. PICK m \in S : \A k \in S : ~(k < m)
  <2>1. S \in SUBSET Nat /\ S # {}
    BY <1>2
  <2> HIDE DEF S
  <2> QED
    BY <2>1, Least
<1>4. m \in 1..MaxBytes /\ m \in Nat /\ Stop(m)
  BY <1>1, <1>3
<1>5. Marked(m)
  <2> SUFFICES ASSUME NEW k \in 1..(m - 1)
               PROVE  k <= ReadSize /\ Ahead(k)[k] >= Mark
    BY DEF Marked
  <2>1. k \in 1..MaxBytes /\ k < m /\ k \in Nat \ {0}
    BY <1>1, <1>4
  <2>2. ~Stop(k)
    BY <1>3, <2>1
  <2>3. ReadSize \in Nat
    BY DEF ReadSize, IInv, CurIsAtPosition, TypeOK
  <2>4. k <= ReadSize /\ ~(Ahead(k)[k] < Mark)
    BY <2>1, <2>2, <2>3 DEF Stop
  <2>5. Ahead(k)[k] \in Bytes
    BY <2>1, <2>4, AheadIs
  <2>6. Ahead(k)[k] \in Int /\ Mark \in Int
    BY <2>5, WeightIs DEF Bytes
  <2> QED
    BY <2>4, <2>6
<1>6. \E n \in 1..MaxBytes : Stop(n) /\ Marked(n)
  BY <1>4, <1>5
<1> QED
  BY <1>6 DEF Taken

LEMMA ReadValueIs ==
  ASSUME IInv, ReadValue
  PROVE  LET n == Taken
             taken == IF n <= ReadSize THEN n ELSE ReadSize IN
         /\ out' = IF taken < n THEN OutOfRange
                   ELSE [Nothing EXCEPT !.value = DecodeZigzag(VarintValue(Ahead(n)))]
         /\ position' = position + taken
         /\ cur' = IF taken = 0 THEN cur
                   ELSE Walk(nodes, cur, position % BaseSize, taken)
         /\ UNCHANGED <<listVars, size>>
BY DEF ReadValue, Taken, Stop, Marked, Ahead

(* The integers of the width, written with zigzag and read again: the least  *)
(* value, whose negation wraps, is no exception.                             *)
LEMMA Halves == Power[Width - 1] \in Nat \ {0} /\ Power[Width] = 2 * Power[Width - 1]
<1>1. Width - 1 \in Nat /\ (Width - 1) + 1 = Width
  BY CodingAssumption
<1> QED
  BY <1>1, PowerIs, PowerPositive

Codec ==
  /\ \A v \in Values :
       /\ Code(v) \in Seq(Bytes) /\ Len(Code(v)) \in 1..MaxBytes
       /\ \A k \in 1..Len(Code(v)) : Code(v)[k] < Mark <=> k = Len(Code(v))
       /\ DecodeZigzag(VarintValue(Code(v))) = v
  /\ \A n \in 1..MaxBytes : \A bytes \in [1..n -> Bytes] :
       DecodeZigzag(VarintValue(bytes)) \in Values

LEMMA ZigzagIs ==
  ASSUME NEW v \in Values
  PROVE  EncodeZigzag(v) \in 0..(Power[Width] - 1) /\ DecodeZigzag(EncodeZigzag(v)) = v
<1>1. PICK h \in Nat \ {0} : h = Power[Width - 1] /\ Power[Width] = 2 * h
  BY Halves
<1>2. v \in (-h)..(h - 1) /\ v \in Int
  BY <1>1 DEF Values
<1> DEFINE m == 2 * h
<1>3. m \in Int /\ m > 0 /\ m = 2 * h
  BY <1>1
<1> HIDE DEF m
<1>4. \A x \in 0..(m - 1) : x % m = x
  <2> SUFFICES ASSUME NEW x \in 0..(m - 1) PROVE x = x % m
    OBVIOUS
  <2>1. x \in Int /\ x = m * 0 + x
    BY <1>3
  <2> QED
    BY <1>3, <2>1, Remainder
<1>5. EncodeZigzag(v) = (IF v < 0 THEN ((-v) % m) * 2 - 1 ELSE v * 2) % m
  BY <1>1 DEF EncodeZigzag, m
<1>6. CASE v < 0
  <2>1. -v \in 0..(m - 1) /\ (-v) * 2 - 1 \in 0..(m - 1)
    BY <1>2, <1>3, <1>6
  <2>2. EncodeZigzag(v) = (-v) * 2 - 1
    BY <1>4, <1>5, <1>6, <2>1
  <2>3. DecodeZigzag((-v) * 2 - 1) = v
    BY <1>2 DEF DecodeZigzag
  <2> QED
    BY <1>1, <2>1, <2>2, <2>3 DEF m
<1>7. CASE ~(v < 0)
  <2>1. v * 2 \in 0..(m - 1)
    BY <1>2, <1>3, <1>7
  <2>2. EncodeZigzag(v) = v * 2
    BY <1>4, <1>5, <1>7, <2>1
  <2>3. DecodeZigzag(v * 2) = v
    BY <1>2 DEF DecodeZigzag
  <2> QED
    BY <1>1, <2>1, <2>2, <2>3 DEF m
<1> QED
  BY <1>6, <1>7

LEMMA ZigzagRange ==
  ASSUME NEW u \in 0..(Power[Width] - 1)
  PROVE  DecodeZigzag(u) \in Values
<1>1. PICK h \in Nat \ {0} : h = Power[Width - 1] /\ Power[Width] = 2 * h
  BY Halves
<1>2. u \in Int /\ 0 <= u /\ u < 2 * h
  BY <1>1
<1>3. DecodeZigzag(u) \in (-h)..(h - 1)
  BY <1>1, <1>2 DEF DecodeZigzag
<1> QED
  BY <1>1, <1>3 DEF Values

(* What readInt32() and readInt64() give for the bytes of writeInt32() and   *)
(* writeInt64() is what was written.                                         *)
THEOREM CodecCorrect == Codec
<1>1. ASSUME NEW v \in Values
      PROVE  /\ Code(v) \in Seq(Bytes) /\ Len(Code(v)) \in 1..MaxBytes
             /\ \A k \in 1..Len(Code(v)) : Code(v)[k] < Mark <=> k = Len(Code(v))
             /\ DecodeZigzag(VarintValue(Code(v))) = v
  <2>1. EncodeZigzag(v) \in 0..(Power[Width] - 1) /\ DecodeZigzag(EncodeZigzag(v)) = v
    BY ZigzagIs
  <2> QED
    BY <2>1, VarintCorrect DEF VarintCodec, Code
<1>2. ASSUME NEW n \in 1..MaxBytes, NEW bytes \in [1..n -> Bytes]
      PROVE  DecodeZigzag(VarintValue(bytes)) \in Values
  <2>1. VarintValue(bytes) \in 0..(Power[Width] - 1)
    BY VarintCorrect DEF VarintCodec
  <2> QED
    BY <2>1, ZigzagRange
<1> QED
  BY <1>1, <1>2 DEF Codec

LEMMA ReadValueInv == ASSUME Codec, IInv, ReadValue PROVE IInv'
<1> DEFINE n == Taken
           taken == IF n <= ReadSize THEN n ELSE ReadSize
<1>1. /\ out' = IF taken < n THEN OutOfRange
                ELSE [Nothing EXCEPT !.value = DecodeZigzag(VarintValue(Ahead(n)))]
      /\ position' = position + taken
      /\ cur' = IF taken = 0 THEN cur
                ELSE Walk(nodes, cur, position % BaseSize, taken)
      /\ UNCHANGED <<listVars, size>>
  BY ReadValueIs
<1>2. n \in 1..MaxBytes /\ n \in Nat \ {0}
  BY TakenIs, MaxBytesType
<1> HIDE DEF n
<1>3. /\ position \in Nat /\ size \in Nat /\ capacity \in Nat /\ nodes \in Seq(Block)
      /\ position <= size /\ size <= capacity /\ capacity = BaseSize * Len(nodes)
  BY DEF IInv, CurIsAtPosition, TypeOK
<1>4. taken \in Nat /\ taken <= ReadSize /\ position + taken <= size
      /\ position + taken <= capacity
  BY <1>2, <1>3 DEF ReadSize
<1>5. cur' = PointerAt(nodes, position')
  <2>1. CASE taken = 0
    <3>1. position' = position /\ cur' = cur
      BY <1>1, <1>3, <2>1
    <3> QED
      BY <3>1, Ends
  <2>2. CASE taken # 0
    <3> HIDE DEF taken
    <3>1. taken \in Nat \ {0}
      BY <1>4, <2>2
    <3> QED
      BY <1>1, <1>4, <2>2, <3>1, StepOn
  <2> QED
    BY <2>1, <2>2
<1>6. out' \in Out
  <2>1. CASE taken < n
    BY <1>1, <2>1, OutType
  <2>2. CASE ~(taken < n)
    <3>1. n <= ReadSize
      BY <1>2, <1>3, <2>2 DEF ReadSize
    <3>2. Ahead(n) \in [1..n -> Bytes]
      BY <1>2, <3>1, AheadIs
    <3>3. DecodeZigzag(VarintValue(Ahead(n))) \in Values
      BY <1>2, <3>2 DEF Codec
    <3>4. Values \subseteq Int
      BY DEF Values
    <3>5. out' = [Nothing EXCEPT !.value = DecodeZigzag(VarintValue(Ahead(n)))]
      BY <1>1, <2>2
    <3> QED
      BY <3>3, <3>4, <3>5, OutType
  <2> QED
    BY <2>1, <2>2
<1>7. position' \in Nat /\ size' = size /\ position' <= size' /\ UNCHANGED listVars
  BY <1>1, <1>3, <1>4
<1> QED
  BY <1>3, <1>5, <1>6, <1>7, MovedInv
-----------------------------------------------------------------------------
(* The pointer is at the block of the position after every sequence of       *)
(* calls, for every size of the blocks.                                      *)
Inv == Codec /\ IInv

LEMMA NextInv == ASSUME Inv, [Next]_vars PROVE Inv'
<1>1. Codec'
  BY DEF Inv, Codec
<1> SUFFICES IInv'
  BY <1>1 DEF Inv
<1>2. IInv
  BY DEF Inv
<1>3. ASSUME NEW bytes \in Data, Write(bytes) PROVE IInv'
  BY <1>2, <1>3, WriteInv, ArrayAssumption
<1>4. ASSUME NEW v \in Values, Write(Code(v)) PROVE IInv'
  <2>1. Code(v) \in Seq(Bytes) /\ Len(Code(v)) \in 1..MaxBytes
    BY DEF Inv, Codec
  <2>2. Code(v) # <<>>
    BY <2>1, EmptySeq
  <2> QED
    BY <1>2, <1>4, <2>1, <2>2, WriteInv
<1>5. ASSUME NEW n \in Lengths, Read(n) \/ Send(n) PROVE IInv'
  BY <1>2, <1>5, ReadInv
<1>6. ASSUME NEW n \in Lengths, NEW p \in Positions, ReadAt(n, p) PROVE IInv'
  BY <1>2, <1>6, ReadAtInv
<1>7. CASE ReadValue
  BY <1>2, <1>7, ReadValueInv DEF Inv
<1>8. CASE Clear
  BY <1>2, <1>8, ClearInv
<1>9. ASSUME NEW v \in Positions, SetPosition(v) PROVE IInv'
  BY <1>2, <1>9, SetPositionInv
<1>10. ASSUME NEW bytes \in Data, NEW n \in Lengths, Receive(bytes, n) PROVE IInv'
  BY <1>2, <1>10, ReceiveInv, ArrayAssumption
<1>11. ASSUME NEW n \in Lengths, ReceiveFails(n) PROVE IInv'
  BY <1>2, <1>11, ReceiveFailsInv
<1>12. CASE UNCHANGED vars
  BY <1>2, <1>12 DEF vars, listVars, IInv, CurIsAtPosition, TypeOK
<1> QED
  BY <1>3, <1>4, <1>5, <1>6, <1>7, <1>8, <1>9, <1>10, <1>11, <1>12 DEF Next

(* m_cur is where m_position is, whatever was called before.                 *)
THEOREM CurCorrect == Spec => []CurIsAtPosition
<1>1. Init => Inv
  BY CodecCorrect, InitInv DEF Inv
<1>2. Inv /\ [Next]_vars => Inv'
  BY NextInv
<1>3. Inv => CurIsAtPosition
  BY DEF Inv, IInv
<1> QED
  BY <1>1, <1>2, <1>3, PTL DEF Spec
-----------------------------------------------------------------------------
(* What the user sees of a state, and of what lies ahead of the position.    *)
ReadOK == Contents = Flat(nodes, size)

LEMMA ContentsType ==
  ASSUME IInv, ReadOK
  PROVE  /\ Contents \in Seq(Bytes) /\ Len(Contents) = size
         /\ \A k \in 1..size : Contents[k] = ByteAt(nodes, k - 1)
                               /\ Contents[k] \in Bytes
<1>1. nodes \in Seq(Block) /\ size \in Nat /\ size <= BaseSize * Len(nodes)
  BY DEF IInv, CurIsAtPosition, TypeOK
<1>2. /\ Contents \in Seq(Bytes) /\ Len(Contents) = size
      /\ \A k \in 1..size : Contents[k] = ByteAt(nodes, k - 1)
  BY <1>1, FlatType DEF ReadOK
<1>3. \A k \in 1..size : Contents[k] \in Bytes
  BY <1>2, ElementOfSeq
<1> QED
  BY <1>2, <1>3

LEMMA RestIs ==
  ASSUME IInv, ReadOK
  PROVE  /\ Sequence!Rest \in Seq(Bytes) /\ Len(Sequence!Rest) = ReadSize
         /\ ReadSize \in Nat
         /\ \A i \in 1..ReadSize : Sequence!Rest[i] = ByteAt(nodes, position + i - 1)
<1>1. position \in Nat /\ size \in Nat /\ position <= size
  BY DEF IInv, CurIsAtPosition, TypeOK
<1>2. /\ Len(Contents) = size
      /\ \A k \in 1..size : Contents[k] = ByteAt(nodes, k - 1)
                            /\ Contents[k] \in Bytes
  BY ContentsType
<1>3. Sequence!Rest = SubSeq(Contents, position + 1, size)
  BY <1>2 DEF Sequence!Rest
<1>4. \A k \in (position + 1)..size : Contents[k] \in Bytes
  BY <1>1, <1>2
<1>5. /\ SubSeq(Contents, position + 1, size) \in Seq(Bytes)
      /\ Len(SubSeq(Contents, position + 1, size))
           = IF position + 1 <= size THEN size - (position + 1) + 1 ELSE 0
      /\ \A i \in 1..(size - (position + 1) + 1) :
           SubSeq(Contents, position + 1, size)[i] = Contents[(position + 1) + i - 1]
  BY <1>1, <1>4, SubSeqProperties
<1>6. ReadSize \in Nat /\ size - (position + 1) + 1 = ReadSize
      /\ ReadSize = IF position + 1 <= size THEN ReadSize ELSE 0
  BY <1>1 DEF ReadSize
<1>7. ASSUME NEW i \in 1..ReadSize
      PROVE  Contents[(position + 1) + i - 1] = ByteAt(nodes, position + i - 1)
  <2>1. (position + 1) + i - 1 \in 1..size
        /\ ((position + 1) + i - 1) - 1 = position + i - 1
    BY <1>1 DEF ReadSize
  <2> QED
    BY <1>2, <2>1
<1> QED
  BY <1>3, <1>5, <1>6, <1>7

(* The bytes of a walk are the next of the sequence.                         *)
LEMMA AheadIsRest ==
  ASSUME IInv, ReadOK, NEW k \in Nat \ {0}, k <= ReadSize
  PROVE  Ahead(k) = SubSeq(Sequence!Rest, 1, k)
<1> DEFINE rest == Sequence!Rest
<1>1. /\ rest \in Seq(Bytes) /\ Len(rest) = ReadSize /\ ReadSize \in Nat
      /\ \A i \in 1..ReadSize : rest[i] = ByteAt(nodes, position + i - 1)
  BY RestIs
<1>2. /\ Ahead(k) \in Seq(Bytes) /\ Len(Ahead(k)) = k
      /\ \A i \in 1..k : Ahead(k)[i] = ByteAt(nodes, position + i - 1)
  BY AheadIs
<1> HIDE DEF rest
<1>3. \A i \in 1..k : i \in 1..ReadSize /\ rest[i] \in Bytes
  BY <1>1, ElementOfSeq
<1>4. /\ SubSeq(rest, 1, k) \in Seq(Bytes) /\ Len(SubSeq(rest, 1, k)) = k
      /\ \A i \in 1..k : SubSeq(rest, 1, k)[i] = rest[i]
  <2>1. /\ SubSeq(rest, 1, k) \in Seq(Bytes)
        /\ Len(SubSeq(rest, 1, k)) = IF 1 <= k THEN k - 1 + 1 ELSE 0
        /\ \A i \in 1..(k - 1 + 1) : SubSeq(rest, 1, k)[i] = rest[1 + i - 1]
    BY <1>3, SubSeqProperties
  <2>2. 1 <= k /\ k - 1 + 1 = k /\ \A i \in 1..k : 1 + i - 1 = i
    OBVIOUS
  <2> QED
    BY <2>1, <2>2
<1>5. \A i \in 1..k : Ahead(k)[i] = SubSeq(rest, 1, k)[i]
  BY <1>1, <1>2, <1>3, <1>4
<1>6. Ahead(k) = SubSeq(rest, 1, k)
  BY <1>2, <1>4, <1>5, SeqEqual
<1> QED
  BY <1>6 DEF rest

LEMMA SameContents ==
  ASSUME UNCHANGED <<nodes, size>> PROVE Contents' = Contents
BY DEF Contents, BytesFrom

LEMMA LongerOf ==
  \A p, n, s \in Nat :
    (IF p + n > s THEN p + n ELSE s) = (p + n) + (IF p + n < s THEN s - p - n ELSE 0)
  OBVIOUS

(* Bytes stored at the position replace those of the sequence or extend it.  *)
LEMMA Overwritten ==
  ASSUME IInv, IInv', ReadOK, ReadOK', NEW bytes \in Seq(Bytes),
         size' = IF position + Len(bytes) > size THEN position + Len(bytes) ELSE size,
         \A q \in Nat : q < capacity' /\ q - position \in 0..(Len(bytes) - 1) =>
           ByteAt(nodes', q) = bytes[q - position + 1],
         \A q \in Nat : q < capacity /\ q - position \notin 0..(Len(bytes) - 1) =>
           ByteAt(nodes', q) = ByteAt(nodes, q)
  PROVE  Contents' = SubSeq(Contents, 1, position) \o bytes
                     \o SubSeq(Contents, position + Len(bytes) + 1, Len(Contents))
<1> DEFINE p == position
           n == Len(bytes)
           a == SubSeq(Contents, 1, p)
           z == SubSeq(Contents, p + n + 1, size)
<1>1. /\ p \in Nat /\ size \in Nat /\ capacity \in Nat /\ n \in Nat
      /\ p <= size /\ size <= capacity
  BY DEF IInv, CurIsAtPosition, TypeOK
<1>2. /\ nodes' \in Seq(Block) /\ size' \in Nat /\ capacity' \in Nat
      /\ size' <= capacity' /\ capacity' = BaseSize * Len(nodes')
  BY DEF IInv, CurIsAtPosition, TypeOK
<1>3. /\ Len(Contents) = size
      /\ \A k \in 1..size : Contents[k] = ByteAt(nodes, k - 1)
                            /\ Contents[k] \in Bytes
  BY ContentsType
<1>4. /\ Contents' \in Seq(Bytes) /\ Len(Contents') = size'
      /\ \A k \in 1..size' : Contents'[k] = ByteAt(nodes', k - 1)
  BY <1>2, FlatType DEF ReadOK
<1>5. a \in Seq(Bytes) /\ Len(a) = p /\ \A i \in 1..p : a[i] = Contents[i]
  <2>1. \A i \in 1..p : Contents[i] \in Bytes
    BY <1>1, <1>3
  <2>2. /\ a \in Seq(Bytes) /\ Len(a) = IF 1 <= p THEN p - 1 + 1 ELSE 0
        /\ \A i \in 1..(p - 1 + 1) : a[i] = Contents[1 + i - 1]
    BY <1>1, <2>1, SubSeqProperties
  <2>3. (IF 1 <= p THEN p - 1 + 1 ELSE 0) = p /\ p - 1 + 1 = p
        /\ \A i \in 1..p : 1 + i - 1 = i
    BY <1>1
  <2> QED
    BY <2>2, <2>3
<1>6. /\ z \in Seq(Bytes) /\ Len(z) = IF p + n < size THEN size - p - n ELSE 0
      /\ \A i \in 1..(size - p - n) : z[i] = Contents[p + n + i]
  <2>1. \A i \in (p + n + 1)..size : Contents[i] \in Bytes
    BY <1>1, <1>3
  <2>2. /\ z \in Seq(Bytes)
        /\ Len(z) = IF p + n + 1 <= size THEN size - (p + n + 1) + 1 ELSE 0
        /\ \A i \in 1..(size - (p + n + 1) + 1) :
             z[i] = Contents[(p + n + 1) + i - 1]
    BY <1>1, <2>1, SubSeqProperties
  <2>3. /\ size - (p + n + 1) + 1 = size - p - n
        /\ p + n + 1 <= size <=> p + n < size
        /\ \A i \in 1..(size - p - n) : (p + n + 1) + i - 1 = p + n + i
    BY <1>1
  <2> QED
    BY <2>2, <2>3
<1> HIDE DEF a, z
<1>7. /\ a \o bytes \in Seq(Bytes) /\ Len(a \o bytes) = p + n
      /\ \A i \in 1..(p + n) :
           (a \o bytes)[i] = IF i <= p THEN a[i] ELSE bytes[i - p]
  BY <1>5, ConcatProperties
<1>8. /\ (a \o bytes) \o z \in Seq(Bytes)
      /\ Len((a \o bytes) \o z) = (p + n) + Len(z)
      /\ \A i \in 1..((p + n) + Len(z)) : ((a \o bytes) \o z)[i] =
           IF i <= p + n THEN (a \o bytes)[i] ELSE z[i - (p + n)]
  <2> DEFINE t == a \o bytes
  <2>1. t \in Seq(Bytes) /\ Len(t) = p + n /\ z \in Seq(Bytes)
    BY <1>6, <1>7
  <2> HIDE DEF t
  <2>2. /\ t \o z \in Seq(Bytes) /\ Len(t \o z) = Len(t) + Len(z)
        /\ \A i \in 1..(Len(t) + Len(z)) :
             (t \o z)[i] = IF i <= Len(t) THEN t[i] ELSE z[i - Len(t)]
    BY <2>1, ConcatProperties, SMTT(20)
  <2> QED
    BY <2>1, <2>2 DEF t
<1> DEFINE s == (a \o bytes) \o z
<1> HIDE DEF s
<1>9. size' = (p + n) + Len(z)
  <2>1. Len(z) = IF p + n < size THEN size - p - n ELSE 0
    BY <1>6
  <2>2. size' = IF p + n > size THEN p + n ELSE size
    OBVIOUS
  <2>3. (IF p + n > size THEN p + n ELSE size)
          = (p + n) + (IF p + n < size THEN size - p - n ELSE 0)
    <3> HIDE DEF p, n
    <3> QED
      BY <1>1, LongerOf
  <2> QED
    BY <2>1, <2>2, <2>3, Zenon
<1>10. s \in Seq(Bytes) /\ Len(s) = size'
  BY <1>8, <1>9 DEF s
<1>11. ASSUME NEW i \in 1..size' PROVE Contents'[i] = s[i]
  <2>1. /\ i - 1 \in Nat /\ i - 1 < capacity' /\ (i - 1) - p + 1 = i - p
        /\ i \in 1..((p + n) + Len(z)) /\ Contents'[i] = ByteAt(nodes', i - 1)
    BY <1>1, <1>2, <1>4, <1>9
  <2>2. CASE i <= p
    <3>1. /\ i \in 1..p /\ i \in 1..(p + n) /\ i <= p + n /\ i \in 1..size
          /\ i - 1 < capacity /\ (i - 1) - p \notin 0..(n - 1)
      BY <1>1, <2>2
    <3>2. s[i] = a[i]
      BY <1>7, <1>8, <2>1, <2>2, <3>1 DEF s
    <3>3. a[i] = ByteAt(nodes, i - 1)
      BY <1>3, <1>5, <3>1
    <3>4. ByteAt(nodes', i - 1) = ByteAt(nodes, i - 1)
      BY <2>1, <3>1
    <3> QED
      BY <2>1, <3>2, <3>3, <3>4
  <2>3. CASE p < i /\ i <= p + n
    <3>1. i \in 1..(p + n) /\ ~(i <= p) /\ (i - 1) - p \in 0..(n - 1)
      BY <1>1, <2>3
    <3>2. s[i] = bytes[i - p]
      BY <1>7, <1>8, <2>1, <2>3, <3>1 DEF s
    <3>3. ByteAt(nodes', i - 1) = bytes[i - p]
      BY <2>1, <3>1
    <3> QED
      BY <2>1, <3>2, <3>3
  <2>4. CASE p + n < i
    <3>1. /\ p + n < size /\ i \in 1..size
          /\ i - (p + n) \in 1..(size - p - n) /\ p + n + (i - (p + n)) = i
          /\ i - 1 < capacity /\ (i - 1) - p \notin 0..(n - 1) /\ ~(i <= p + n)
      BY <1>1, <2>4
    <3>2. s[i] = z[i - (p + n)]
      BY <1>8, <2>1, <3>1 DEF s
    <3>3. z[i - (p + n)] = Contents[i]
      BY <1>6, <3>1
    <3>4. Contents[i] = ByteAt(nodes, i - 1)
      BY <1>3, <3>1
    <3>5. ByteAt(nodes', i - 1) = ByteAt(nodes, i - 1)
      BY <2>1, <3>1
    <3> QED
      BY <2>1, <3>2, <3>3, <3>4, <3>5
  <2> QED
    BY <1>1, <2>2, <2>3, <2>4
<1>12. Contents' = s
  BY <1>4, <1>10, <1>11, SeqEqual
<1> QED
  BY <1>3, <1>12 DEF s, a, z
-----------------------------------------------------------------------------
(* The sequence has the same bytes, values and codes.                        *)
LEMMA SameCoding ==
  /\ Sequence!Bytes = Bytes /\ Sequence!Values = Values
  /\ \A v : Sequence!Code(v) = Code(v)
  /\ \A s, t : Sequence!IsPrefix(s, t) <=> IsPrefix(s, t)
<1>1. Sequence!Power = Power
  BY DEF Sequence!Power, Power
<1> QED
  BY <1>1
     DEF Sequence!Bytes, Bytes, Sequence!Mark, Mark, Sequence!Values, Values,
         Sequence!Code, Code, Sequence!Varint, Varint, Sequence!MaxBytes, MaxBytes,
         Sequence!EncodeZigzag, EncodeZigzag, Sequence!IsPrefix, IsPrefix

LEMMA SameOut == Sequence!Nothing = Nothing /\ Sequence!OutOfRange = OutOfRange
BY DEF Sequence!Nothing, Nothing, Sequence!OutOfRange, OutOfRange

Readable == IInv /\ IInv' /\ ReadOK /\ ReadOK'

LEMMA WriteMaps ==
  ASSUME Readable, NEW bytes \in Seq(Bytes), bytes # <<>>, Write(bytes)
  PROVE  Sequence!Write(bytes)
<1> USE DEF Readable
<1> DEFINE n == Len(bytes)
<1>1. n \in Nat \ {0}
  BY EmptySeq
<1>2. PICK list \in Extended(n) :
        /\ nodes' = Put(list, CurExtended(list), position % BaseSize, bytes)
        /\ capacity' = capacity + (Len(list) - Len(nodes)) * BaseSize
  BY DEF Write
<1>3. /\ position' = position + n
      /\ size' = IF position + n > size THEN position + n ELSE size
      /\ out' = Nothing
  BY DEF Write
<1>4. n \in 1..n
  BY <1>1
<1> HIDE DEF n
<1>5. /\ \A q \in Nat : q < capacity' /\ q - position \in 0..(n - 1) =>
           ByteAt(nodes', q) = bytes[q - position + 1]
      /\ \A q \in Nat : q < capacity /\ q - position \notin 0..(n - 1) =>
           ByteAt(nodes', q) = ByteAt(nodes, q)
  BY <1>1, <1>2, <1>4, Stored DEF n
<1>6. Contents' = SubSeq(Contents, 1, position) \o bytes
                  \o SubSeq(Contents, position + n + 1, Len(Contents))
  BY <1>3, <1>5, Overwritten DEF n
<1> QED
  BY <1>3, <1>6, SameOut DEF Sequence!Write, n

(* What the socket sends is written like what the user writes.               *)
LEMMA ReceiveMaps ==
  ASSUME Readable, NEW bytes \in Seq(Bytes), bytes # <<>>, NEW n \in Lengths,
         Receive(bytes, n)
  PROVE  Sequence!Write(bytes)
<1> USE DEF Readable
<1> DEFINE m == Len(bytes)
<1>1. n \in Nat \ {0} /\ m \in Nat \ {0} /\ m <= n
  BY EmptySeq, ArrayAssumption DEF Receive, ReceiveAndMove
<1>2. PICK list \in Extended(n) :
        /\ nodes' = Put(list, CurExtended(list), position % BaseSize, bytes)
        /\ capacity' = capacity + (Len(list) - Len(nodes)) * BaseSize
        /\ MoveTo(list, position + m)
  BY DEF Receive, ReceiveAndMove
<1>3. /\ position' = position + m
      /\ size' = IF position + m > size THEN position + m ELSE size
      /\ out' = Nothing
  BY <1>2 DEF MoveTo, Receive, ReceiveAndMove
<1>4. m \in 1..n
  BY <1>1
<1> HIDE DEF m
<1>5. /\ \A q \in Nat : q < capacity' /\ q - position \in 0..(m - 1) =>
           ByteAt(nodes', q) = bytes[q - position + 1]
      /\ \A q \in Nat : q < capacity /\ q - position \notin 0..(m - 1) =>
           ByteAt(nodes', q) = ByteAt(nodes, q)
  BY <1>1, <1>2, <1>4, Stored DEF m
<1>6. Contents' = SubSeq(Contents, 1, position) \o bytes
                  \o SubSeq(Contents, position + m + 1, Len(Contents))
  BY <1>3, <1>5, Overwritten DEF m
<1> QED
  BY <1>3, <1>6, SameOut DEF Sequence!Write, m

(* A receive that fails changes nothing the user sees.                       *)
LEMMA ReceiveFailsMaps ==
  ASSUME Readable, NEW n \in Lengths, ReceiveFails(n)
  PROVE  UNCHANGED Sequence!vars
<1> USE DEF Readable
<1>1. n \in Nat \ {0}
  BY ArrayAssumption
<1>2. /\ nodes' \in Extended(n) /\ position' = position /\ size' = size /\ out' = out
  BY DEF ReceiveFails
<1>3. /\ nodes' \in Seq(Block) /\ Len(nodes') \in Nat /\ Len(nodes') >= Len(nodes)
      /\ \A i \in 1..Len(nodes) : nodes'[i] = nodes[i]
      /\ BaseSize * Len(nodes') \in Nat /\ capacity <= BaseSize * Len(nodes')
  BY <1>1, <1>2, ExtendIs
<1>4. /\ nodes \in Seq(Block) /\ size \in Nat /\ capacity \in Nat
      /\ size <= capacity /\ capacity = BaseSize * Len(nodes)
  BY DEF IInv, CurIsAtPosition, TypeOK
<1>5. Contents = Flat(nodes, size) /\ Contents' = Flat(nodes', size)
  BY <1>2 DEF ReadOK
<1>6. /\ Flat(nodes, size) \in Seq(Bytes) /\ Len(Flat(nodes, size)) = size
      /\ \A k \in 1..size : Flat(nodes, size)[k] = ByteAt(nodes, k - 1)
  BY <1>4, FlatType
<1>7. /\ Flat(nodes', size) \in Seq(Bytes) /\ Len(Flat(nodes', size)) = size
      /\ \A k \in 1..size : Flat(nodes', size)[k] = ByteAt(nodes', k - 1)
  <2>1. size <= BaseSize * Len(nodes')
    BY <1>3, <1>4
  <2> QED
    BY <1>3, <1>4, <2>1, FlatType
<1>8. ASSUME NEW k \in 1..size PROVE ByteAt(nodes', k - 1) = ByteAt(nodes, k - 1)
  <2>1. k - 1 \in Nat /\ k - 1 < capacity
    BY <1>4
  <2> QED
    BY <1>3, <2>1, ExtendKeeps
<1>9. Flat(nodes', size) = Flat(nodes, size)
  <2>1. \A k \in 1..size : Flat(nodes', size)[k] = Flat(nodes, size)[k]
    BY <1>6, <1>7, <1>8
  <2> QED
    BY <1>6, <1>7, <2>1, SeqEqual
<1> QED
  BY <1>2, <1>5, <1>9 DEF Sequence!vars

LEMMA ReadMaps ==
  ASSUME Readable, NEW n \in Lengths, Read(n) \/ Send(n)
  PROVE  Sequence!Read(n)
<1> USE DEF Readable
<1>1. n \in Nat \ {0}
  BY ArrayAssumption
<1>2. Len(Sequence!Rest) = ReadSize /\ ReadSize \in Nat
  BY RestIs
<1>3. UNCHANGED <<nodes, size>>
  <2>1. CASE Read(n)
    BY <2>1 DEF Read, Throw, listVars
  <2>2. CASE Send(n)
    <3>1. position \in Nat /\ size \in Nat /\ ~(position + n > size)
      BY <1>1, <2>2 DEF Send, ReadSize, IInv, CurIsAtPosition, TypeOK
    <3> QED
      BY <2>2, <3>1 DEF Send, MoveTo, listVars
  <2> QED
    BY <2>1, <2>2
<1>4. Contents' = Contents
  BY <1>3, SameContents
<1>5. CASE n > ReadSize
  <2>1. position' = position /\ out' = OutOfRange
    BY <1>1, <1>2, <1>5 DEF Read, Send, Throw
  <2>2. ~(n <= Len(Sequence!Rest))
    BY <1>1, <1>2, <1>5
  <2> QED
    BY <1>4, <2>1, <2>2, SameOut DEF Sequence!Read
<1>6. CASE n <= ReadSize
  <2>1. position' = position + n /\ out' = [Nothing EXCEPT !.bytes = Ahead(n)]
    BY <1>1, <1>2, <1>6 DEF Read, Send, Throw, MoveTo, Ahead
  <2>2. Ahead(n) = SubSeq(Sequence!Rest, 1, n)
    BY <1>1, <1>6, AheadIsRest
  <2>3. n <= Len(Sequence!Rest)
    BY <1>2, <1>6
  <2> QED
    BY <1>4, <2>1, <2>2, <2>3, SameOut DEF Sequence!Read
<1> QED
  BY <1>1, <1>2, <1>5, <1>6

LEMMA ReadAtMaps ==
  ASSUME Readable, NEW n \in Lengths, NEW p \in Positions, ReadAt(n, p)
  PROVE  Sequence!ReadAt(n, p)
<1> USE DEF Readable
<1>1. n \in Nat \ {0} /\ p \in Nat
  BY ArrayAssumption
<1>2. /\ size \in Nat /\ nodes \in Seq(Block)
      /\ size <= capacity /\ capacity \in Nat /\ capacity = BaseSize * Len(nodes)
  BY DEF IInv, CurIsAtPosition, TypeOK
<1>3. /\ Len(Contents) = size
      /\ \A k \in 1..size : Contents[k] = ByteAt(nodes, k - 1)
                            /\ Contents[k] \in Bytes
  BY ContentsType
<1>4. Contents' = Contents /\ position' = position
  BY SameContents DEF ReadAt, Throw, listVars
<1>5. CASE p <= size /\ n > size - p /\ out' = OutOfRange
  <2>1. ~(p + n <= Len(Contents)) /\ p <= Len(Contents)
    BY <1>1, <1>2, <1>3, <1>5
  <2> QED
    BY <1>4, <1>5, <2>1, SameOut DEF Sequence!ReadAt
<1> DEFINE s == BytesFrom(p \div BaseSize + 1, p % BaseSize, n)
<1>6. CASE n <= size - p /\ out' = [Nothing EXCEPT !.bytes =
                                      BytesFrom(1 + p \div BaseSize, p % BaseSize, n)]
  <2>1. p <= size /\ p + n <= size /\ p + n <= capacity /\ p + n \in Nat
    BY <1>1, <1>2, <1>6
  <2>2. 1 + p \div BaseSize = p \div BaseSize + 1
    BY <1>1, ArrayAssumption
  <2>3. /\ s \in Seq(Bytes) /\ Len(s) = n
        /\ \A k \in 1..n : s[k] = ByteAt(nodes, p + k - 1)
    BY <1>1, <1>2, <2>1, BytesIs
  <2>4. out' = [Nothing EXCEPT !.bytes = s]
    BY <1>6, <2>2
  <2> HIDE DEF s
  <2> DEFINE t == SubSeq(Contents, p + 1, p + n)
  <2>5. \A i \in (p + 1)..(p + n) : Contents[i] \in Bytes
    BY <1>1, <1>2, <1>3, <2>1
  <2>6. /\ t \in Seq(Bytes)
        /\ Len(t) = IF p + 1 <= p + n THEN (p + n) - (p + 1) + 1 ELSE 0
        /\ \A i \in 1..((p + n) - (p + 1) + 1) : t[i] = Contents[(p + 1) + i - 1]
    BY <1>1, <2>1, <2>5, SubSeqProperties
  <2> HIDE DEF t
  <2>7. Len(t) = n /\ (p + n) - (p + 1) + 1 = n
    BY <1>1, <2>6
  <2>8. ASSUME NEW i \in 1..n PROVE s[i] = t[i]
    <3>1. /\ t[i] = Contents[(p + 1) + i - 1] /\ (p + 1) + i - 1 \in 1..size
          /\ ((p + 1) + i - 1) - 1 = p + i - 1
      BY <1>1, <1>2, <2>1, <2>6, <2>7
    <3> QED
      BY <1>3, <2>3, <3>1
  <2>9. s = t
    BY <2>3, <2>6, <2>7, <2>8, SeqEqual
  <2>10. p <= Len(Contents) /\ p + n <= Len(Contents)
    BY <1>3, <2>1
  <2> QED
    BY <1>4, <2>4, <2>9, <2>10, SameOut DEF Sequence!ReadAt, t
<1> QED
  BY <1>5, <1>6 DEF ReadAt, Throw

(* If the code of a value lies ahead, it is read to its end ...              *)
LEMMA CodeIsTaken ==
  ASSUME Codec, IInv, ReadOK, NEW v \in Values, IsPrefix(Code(v), Sequence!Rest)
  PROVE  Taken = Len(Code(v)) /\ Taken <= ReadSize /\ Ahead(Taken) = Code(v)
<1> DEFINE c == Code(v)
           m == Len(c)
           n == Taken
<1>1. /\ c \in Seq(Bytes) /\ m \in 1..MaxBytes
      /\ \A k \in 1..m : c[k] < Mark <=> k = m
  BY DEF Codec
<1>2. MaxBytes \in Nat \ {0}
  BY MaxBytesType
<1>3. n \in 1..MaxBytes /\ Stop(n) /\ Marked(n)
  BY TakenIs
<1>4. Len(Sequence!Rest) = ReadSize /\ ReadSize \in Nat
  BY RestIs
<1> HIDE DEF c, m, n
<1>5. m \in Nat \ {0} /\ n \in Nat \ {0}
  BY <1>1, <1>2, <1>3
<1>6. m <= ReadSize /\ SubSeq(c, 1, m) = SubSeq(Sequence!Rest, 1, m)
  BY <1>4 DEF IsPrefix, c, m
<1>7. Ahead(m) = c
  <2>1. Ahead(m) = SubSeq(Sequence!Rest, 1, m)
    BY <1>5, <1>6, AheadIsRest
  <2>2. SubSeq(c, 1, m) = c
    BY <1>1, SubSeqFull DEF m
  <2> QED
    BY <1>6, <2>1, <2>2
<1>8. \A k \in 1..m : Ahead(k)[k] = c[k] /\ c[k] \in Int
  <2> SUFFICES ASSUME NEW k \in 1..m PROVE Ahead(k)[k] = c[k] /\ c[k] \in Int
    OBVIOUS
  <2>1. k \in Nat \ {0} /\ k <= ReadSize /\ k \in 1..k
    BY <1>4, <1>5, <1>6
  <2>2. Ahead(k)[k] = ByteAt(nodes, position + k - 1) /\ Ahead(k)[k] \in Bytes
    BY <2>1, AheadIs
  <2>3. Ahead(m)[k] = ByteAt(nodes, position + k - 1)
    BY <1>5, <1>6, AheadIs
  <2> QED
    BY <1>7, <2>2, <2>3 DEF Bytes
<1>9. Mark \in Int
  BY WeightIs
<1>10. ~(n < m)
  <2> SUFFICES ASSUME n < m PROVE FALSE
    OBVIOUS
  <2>1. n \in 1..m /\ n # m /\ n # MaxBytes /\ ~(n > ReadSize)
    BY <1>1, <1>2, <1>4, <1>5, <1>6
  <2>2. Ahead(n)[n] < Mark
    BY <1>3, <2>1 DEF Stop
  <2> QED
    BY <1>1, <1>8, <2>1, <2>2
<1>11. ~(m < n)
  <2> SUFFICES ASSUME m < n PROVE FALSE
    OBVIOUS
  <2>1. m \in 1..(n - 1) /\ m \in 1..m
    BY <1>5
  <2>2. Ahead(m)[m] >= Mark
    BY <1>3, <2>1 DEF Marked
  <2>3. c[m] < Mark
    BY <1>1, <2>1
  <2> QED
    BY <1>8, <1>9, <2>1, <2>2, <2>3
<1>12. n = m
  BY <1>5, <1>10, <1>11
<1> QED
  BY <1>6, <1>7, <1>12 DEF c, m, n

(* ... and gives the value; other bytes give some value or an exception.     *)
LEMMA ReadValueMaps ==
  ASSUME Codec, Readable, ReadValue
  PROVE  Sequence!ReadValue
<1> USE DEF Readable
<1> DEFINE n == Taken
           taken == IF n <= ReadSize THEN n ELSE ReadSize
<1>1. /\ out' = IF taken < n THEN OutOfRange
                ELSE [Nothing EXCEPT !.value = DecodeZigzag(VarintValue(Ahead(n)))]
      /\ position' = position + taken
      /\ UNCHANGED <<nodes, size>>
  BY ReadValueIs DEF listVars
<1>2. n \in 1..MaxBytes /\ n \in Nat \ {0}
  BY TakenIs, MaxBytesType
<1>3. Contents' = Contents
  BY <1>1, SameContents
<1>4. ReadSize \in Nat
  BY RestIs
<1>5. CASE \E v \in Values : IsPrefix(Code(v), Sequence!Rest)
  <2>1. PICK v \in Values : IsPrefix(Code(v), Sequence!Rest)
    BY <1>5
  <2>2. n = Len(Code(v)) /\ n <= ReadSize /\ Ahead(n) = Code(v)
    BY <2>1, CodeIsTaken
  <2>3. DecodeZigzag(VarintValue(Ahead(n))) = v
    BY <2>2 DEF Codec
  <2> HIDE DEF n
  <2>4. taken = n /\ ~(taken < n)
    BY <1>2, <2>2
  <2>5. position' = position + Len(Code(v)) /\ out' = [Nothing EXCEPT !.value = v]
    BY <1>1, <2>2, <2>3, <2>4
  <2>6. \E w \in Sequence!Values :
          /\ Sequence!IsPrefix(Sequence!Code(w), Sequence!Rest)
          /\ position' = position + Len(Sequence!Code(w))
          /\ out' = [Sequence!Nothing EXCEPT !.value = w]
    BY <2>1, <2>5, SameCoding, SameOut
  <2> QED
    BY <1>3, <2>6 DEF Sequence!ReadValue
<1>6. CASE ~\E v \in Values : IsPrefix(Code(v), Sequence!Rest)
  <2>1. \A v \in Sequence!Values : ~Sequence!IsPrefix(Sequence!Code(v), Sequence!Rest)
    BY <1>6, SameCoding
  <2>2. Len(Contents) = size /\ position \in Nat /\ size \in Nat /\ position <= size
    BY ContentsType DEF IInv, CurIsAtPosition, TypeOK
  <2> HIDE DEF n
  <2>3. position + taken \in position..size
    BY <1>2, <1>4, <2>2 DEF ReadSize
  <2>4. position' \in position..Len(Contents)
    BY <1>1, <2>2, <2>3
  <2>5. out' = OutOfRange \/ \E v \in Values : out' = [Nothing EXCEPT !.value = v]
    <3>1. CASE taken < n
      BY <1>1, <3>1
    <3>2. CASE ~(taken < n)
      <4>1. n <= ReadSize
        BY <1>2, <1>4, <3>2
      <4>2. Ahead(n) \in [1..n -> Bytes]
        BY <1>2, <4>1, AheadIs
      <4>3. DecodeZigzag(VarintValue(Ahead(n))) \in Values
        BY <1>2, <4>2 DEF Codec
      <4> QED
        BY <1>1, <3>2, <4>3
    <3> QED
      BY <3>1, <3>2
  <2>6. out' = Sequence!OutOfRange
        \/ \E v \in Sequence!Values : out' = [Sequence!Nothing EXCEPT !.value = v]
    BY <2>5, SameCoding, SameOut
  <2> QED
    BY <1>3, <2>1, <2>4, <2>6 DEF Sequence!ReadValue
<1> QED
  BY <1>5, <1>6

(* A position beyond the size shows bytes that were already in the blocks.   *)
LEMMA SetPositionMaps ==
  ASSUME Readable, NEW v \in Positions, SetPosition(v)
  PROVE  Sequence!SetPosition(v)
<1> USE DEF Readable
<1>1. v \in Nat
  BY ArrayAssumption
<1>2. /\ size \in Nat /\ nodes \in Seq(Block) /\ capacity \in Nat
      /\ size <= capacity /\ capacity = BaseSize * Len(nodes)
  BY DEF IInv, CurIsAtPosition, TypeOK
<1>3. /\ Contents \in Seq(Bytes) /\ Len(Contents) = size
      /\ \A k \in 1..size : Contents[k] = ByteAt(nodes, k - 1)
  BY ContentsType
<1>4. CASE v > capacity /\ Throw
  <2>1. out' = OutOfRange /\ UNCHANGED <<nodes, size, position>>
    BY <1>4 DEF Throw, listVars
  <2>2. v > Len(Contents) /\ Contents' = Contents
    BY <1>1, <1>2, <1>3, <1>4, <2>1, SameContents
  <2> QED
    BY <2>1, <2>2, SameOut DEF Sequence!SetPosition
<1>5. CASE v <= capacity /\ MoveTo(nodes, v) /\ out' = Nothing /\ UNCHANGED listVars
  <2>1. /\ position' = v /\ size' = (IF v > size THEN v ELSE size)
        /\ nodes' = nodes /\ out' = Nothing
    BY <1>5 DEF MoveTo, listVars
  <2>2. CASE v <= size
    <3>1. size' = size
      BY <1>1, <1>2, <2>1, <2>2
    <3>2. Contents' = Contents
      BY <2>1, <3>1, SameContents
    <3> QED
      BY <1>3, <2>1, <2>2, <3>2, SameOut DEF Sequence!SetPosition
  <2>3. CASE v > size
    <3>1. size' = v
      BY <2>1, <2>3
    <3> DEFINE tail == [k \in 1..(v - size) |-> ByteAt(nodes, size + k - 1)]
    <3>2. \A k \in 1..(v - size) : ByteAt(nodes, size + k - 1) \in Bytes
      <4> SUFFICES ASSUME NEW k \in 1..(v - size)
                   PROVE  ByteAt(nodes, size + k - 1) \in Bytes
        OBVIOUS
      <4>1. size + k - 1 \in Nat /\ size + k - 1 < BaseSize * Len(nodes)
        BY <1>1, <1>2, <1>5
      <4> QED
        BY <1>2, <4>1, ByteType
    <3>3. tail \in [1..(v - size) -> Bytes]
      BY <3>2
    <3>4. v - size \in Nat
      BY <1>1, <1>2, <2>3
    <3>5. tail \in Seq(Bytes) /\ Len(tail) = v - size
      BY <3>2, <3>4, IsASeq
    <3>6. \A k \in 1..(v - size) : tail[k] = ByteAt(nodes, size + k - 1)
      OBVIOUS
    <3> HIDE DEF tail
    <3>7. /\ Contents \o tail \in Seq(Bytes)
          /\ Len(Contents \o tail) = Len(Contents) + Len(tail)
          /\ \A i \in 1..(Len(Contents) + Len(tail)) : (Contents \o tail)[i] =
               IF i <= Len(Contents) THEN Contents[i] ELSE tail[i - Len(Contents)]
      BY <1>3, <3>5, ConcatProperties
    <3>8. Len(Contents) + Len(tail) = v
      BY <1>1, <1>2, <1>3, <3>5
    <3>9. /\ Contents' \in Seq(Bytes) /\ Len(Contents') = v
          /\ \A k \in 1..v : Contents'[k] = ByteAt(nodes, k - 1)
      <4>1. ReadOK'
        OBVIOUS
      <4>2. Contents' = Flat(nodes, v)
        BY <2>1, <3>1, <4>1 DEF ReadOK
      <4>3. v <= BaseSize * Len(nodes)
        BY <1>2, <1>5
      <4> QED
        BY <1>1, <1>2, <4>2, <4>3, FlatType
    <3> DEFINE t == Contents \o tail
    <3>10. t \in Seq(Bytes) /\ Len(t) = v
           /\ \A i \in 1..v : t[i] = IF i <= size THEN Contents[i] ELSE tail[i - size]
      BY <1>3, <3>7, <3>8
    <3> HIDE DEF t
    <3>11. ASSUME NEW i \in 1..v PROVE Contents'[i] = t[i]
      <4>1. CASE i <= size
        <5>1. i \in 1..size
          BY <1>2, <4>1
        <5> QED
          BY <1>3, <3>9, <3>10, <4>1, <5>1
      <4>2. CASE ~(i <= size)
        <5>1. i - size \in 1..(v - size) /\ size + (i - size) - 1 = i - 1
          BY <1>1, <1>2, <4>2
        <5> QED
          BY <3>6, <3>9, <3>10, <4>2, <5>1
      <4> QED
        BY <4>1, <4>2
    <3>12. Contents' = t
      BY <3>9, <3>10, <3>11, SeqEqual
    <3>13. \E z \in [1..(v - Len(Contents)) -> Sequence!Bytes] : Contents' = Contents \o z
      BY <1>3, <3>3, <3>12, SameCoding DEF t
    <3> QED
      BY <1>3, <2>1, <2>3, <3>13, SameOut DEF Sequence!SetPosition
  <2> QED
    BY <1>1, <1>2, <2>2, <2>3
<1> QED
  BY <1>4, <1>5 DEF SetPosition

LEMMA ClearMaps == ASSUME Readable, Clear PROVE Sequence!Clear
<1> USE DEF Readable
<1>1. size' = 0 /\ position' = 0 /\ out' = Nothing
  BY DEF Clear
<1>2. Contents' = <<>>
  <2>1. Contents' \in Seq(Bytes) /\ Len(Contents') = 0
    <3>1. nodes' \in Seq(Block) /\ 0 <= BaseSize * Len(nodes') /\ ReadOK'
      BY <1>1 DEF IInv, CurIsAtPosition, TypeOK
    <3>2. Contents' = Flat(nodes', 0)
      BY <1>1, <3>1 DEF ReadOK
    <3> QED
      BY <3>1, <3>2, FlatType
  <2> QED
    BY <2>1, EmptySeq
<1> QED
  BY <1>1, <1>2, SameOut DEF Sequence!Clear

(* Every step is a step of the sequence or changes nothing of it.            *)
LEMMA StepMaps ==
  ASSUME Codec, Readable, [Next]_vars
  PROVE  [Sequence!Next]_(Sequence!vars)
<1>1. ASSUME NEW bytes \in Data, Write(bytes) PROVE Sequence!Next
  BY <1>1, WriteMaps, ArrayAssumption DEF Sequence!Next
<1>2. ASSUME NEW v \in Values, Write(Code(v)) PROVE Sequence!Next
  <2>1. Code(v) \in Seq(Bytes) /\ Len(Code(v)) \in 1..MaxBytes
    BY DEF Codec
  <2>2. Code(v) # <<>>
    BY <2>1, EmptySeq
  <2>3. Sequence!Write(Code(v))
    BY <1>2, <2>1, <2>2, WriteMaps
  <2>4. \E w \in Sequence!Values : Sequence!Write(Sequence!Code(w))
    BY <2>3, SameCoding
  <2> QED
    BY <2>4 DEF Sequence!Next
<1>3. ASSUME NEW n \in Lengths, Read(n) \/ Send(n) PROVE Sequence!Next
  BY <1>3, ReadMaps DEF Sequence!Next
<1>4. ASSUME NEW n \in Lengths, NEW p \in Positions, ReadAt(n, p) PROVE Sequence!Next
  BY <1>4, ReadAtMaps DEF Sequence!Next
<1>5. ASSUME ReadValue PROVE Sequence!Next
  BY <1>5, ReadValueMaps DEF Sequence!Next
<1>6. ASSUME Clear PROVE Sequence!Next
  BY <1>6, ClearMaps DEF Sequence!Next
<1>7. ASSUME NEW v \in Positions, SetPosition(v) PROVE Sequence!Next
  BY <1>7, SetPositionMaps DEF Sequence!Next
<1>8. ASSUME NEW bytes \in Data, NEW n \in Lengths, Receive(bytes, n)
      PROVE  Sequence!Next
  BY <1>8, ReceiveMaps, ArrayAssumption DEF Sequence!Next
<1>9. ASSUME NEW n \in Lengths, ReceiveFails(n) PROVE UNCHANGED Sequence!vars
  BY <1>9, ReceiveFailsMaps
<1>10. ASSUME UNCHANGED vars PROVE UNCHANGED Sequence!vars
  <2>1. UNCHANGED <<nodes, size>> /\ position' = position /\ out' = out
    BY <1>10 DEF vars, listVars
  <2> QED
    BY <2>1, SameContents DEF Sequence!vars
<1> QED
  BY <1>1, <1>2, <1>3, <1>4, <1>5, <1>6, <1>7, <1>8, <1>9, <1>10 DEF Next

LEMMA InitMaps == ASSUME Init PROVE Sequence!Init
<1>1. size = 0 /\ position = 0 /\ out = Nothing
  BY DEF Init
<1>2. IInv
  BY InitInv
<1>3. nodes \in Seq(Block) /\ size <= BaseSize * Len(nodes) /\ size \in Nat
  BY <1>2 DEF IInv, CurIsAtPosition, TypeOK
<1>4. Contents = Flat(nodes, size)
  BY <1>3, ContentsIs
<1>5. Contents \in Seq(Bytes) /\ Len(Contents) = 0
  BY <1>1, <1>3, <1>4, FlatType
<1>6. Contents = <<>>
  BY <1>5, EmptySeq
<1> QED
  BY <1>1, <1>6, SameOut DEF Sequence!Init

(* An integer is read back wherever its code lies.                           *)
THEOREM IntegersCorrect == Spec => []IntegersReadBack
<1>1. IntegersReadBack
  <2>1. ASSUME NEW v \in Values, BytesFrom(cur, position % BaseSize, Len(Code(v))) = Code(v)
        PROVE  LET n == Len(Code(v))
                   ahead == BytesFrom(cur, position % BaseSize, n) IN
               /\ \A k \in 1..n : ahead[k] < Mark <=> k = n
               /\ DecodeZigzag(VarintValue(ahead)) = v
    BY <2>1, CodecCorrect DEF Codec
  <2> QED
    BY <2>1, VarintCorrect DEF IntegersReadBack
<1> QED
  BY <1>1, PTL
-----------------------------------------------------------------------------
(* The blocks implement the sequence of bytes: the user of a ByteArray never *)
(* sees where one block ends and the next begins.                            *)
THEOREM SequenceCorrect == Spec => IsByteSequence
<1>1. Init => Inv /\ Sequence!Init
  BY CodecCorrect, InitInv, InitMaps DEF Inv
<1>2. Inv /\ [Next]_vars => Inv'
  BY NextInv
<1>3. Inv => Codec /\ IInv /\ ReadOK
  BY ContentsIs DEF Inv, IInv, CurIsAtPosition, TypeOK, ReadOK
<1>4. Codec /\ IInv /\ IInv' /\ ReadOK /\ ReadOK' /\ [Next]_vars
        => [Sequence!Next]_(Sequence!vars)
  BY StepMaps DEF Readable
<1> QED
  BY <1>1, <1>2, <1>3, <1>4, PTL DEF Spec, IsByteSequence, Sequence!Spec
=============================================================================

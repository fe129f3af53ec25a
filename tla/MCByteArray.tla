---------------------------- MODULE MCByteArray ----------------------------
(* ByteArray on blocks of two bytes, with integers of three bits.           *)
EXTENDS ByteArray

Strings == {<<1>>, <<1, 2, 1>>}

(* readUint32(), readUint64() give what writeUint32(), writeUint64() took: a  *)
(* code ends with its first byte without a mark and has the value again, and *)
(* bytes from elsewhere have some value of the width.                        *)
VarintCodec ==
  /\ \A u \in 0..(Power[Width] - 1) :
       /\ Varint(u) \in Seq(Bytes) /\ Len(Varint(u)) \in 1..MaxBytes
       /\ \A k \in 1..Len(Varint(u)) : Varint(u)[k] < Mark <=> k = Len(Varint(u))
       /\ VarintValue(Varint(u)) = u
  /\ \A n \in 1..MaxBytes : \A bytes \in [1..n -> Bytes] :
       VarintValue(bytes) \in 0..(Power[Width] - 1)

(* Where the code of an integer lies ahead, across however many blocks and   *)
(* after whatever seeks, readInt32() and readInt64() stop at its last byte   *)
(* and give that integer.                                                    *)
IntegersReadBack ==
  /\ VarintCodec
  /\ \A v \in Values :
       LET n == Len(Code(v))
           ahead == BytesFrom(cur, position % BaseSize, n) IN
       n <= ReadSize /\ ahead = Code(v) =>
         /\ \A k \in 1..n : ahead[k] < Mark <=> k = n
         /\ DecodeZigzag(VarintValue(ahead)) = v

(* bytearray.cpp: every operation leaves m_cur at the block of m_position,   *)
(* null exactly at the end of the last block, and the sizes in order; write, *)
(* read and getWriteBuffers all start from m_cur without looking.            *)
CurIsAtPosition ==
  /\ TypeOK
  /\ capacity = BaseSize * Len(nodes)
  /\ position <= size /\ size <= capacity
  /\ cur = IF position = capacity THEN 0 ELSE position \div BaseSize + 1

(* For its user the array is a sequence of bytes: what was written at a      *)
(* position is read there, across blocks, after seeks, partial receives and  *)
(* reads that throw half way, integers included.                             *)
IsByteSequence == Sequence!Spec
=============================================================================

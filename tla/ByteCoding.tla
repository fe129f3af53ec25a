----------------------------- MODULE ByteCoding -----------------------------
(***************************************************************************)
(* The variable-length integers of sylar_server/bytearray.cpp: zigzag, and *)
(* groups of bits from the lowest with a mark on all but the last.  The    *)
(* code has groups of 7 bits and widths 32 and 64.                         *)
(***************************************************************************)
EXTENDS Integers, SequencesExt

CONSTANTS
  Width,        (* bits of an integer                                       *)
  Group         (* bits of it in a byte                                     *)

ASSUME CodingAssumption == Width \in Nat \ {0} /\ Group \in Nat \ {0}

(* 1 << n                                                                    *)
Power[n \in Nat] == IF n = 0 THEN 1 ELSE 2 * Power[n - 1]

Mark == Power[Group]
Bytes == 0..(2 * Mark - 1)
MaxBytes == (Width + Group - 1) \div Group

Values == -Power[Width - 1] .. (Power[Width - 1] - 1)

(* EncodeZigzag32, EncodeZigzag64: -v wraps for the least value.             *)
EncodeZigzag(v) ==
  (IF v < 0 THEN ((-v) % Power[Width]) * 2 - 1 ELSE v * 2) % Power[Width]

(* DecodeZigzag32, DecodeZigzag64: the exclusive or with -(u & 1), which is  *)
(* 0 or all ones.                                                            *)
DecodeZigzag(u) == IF u % 2 = 0 THEN u \div 2 ELSE -(u \div 2) - 1

(* Mutant: a byte is taken for the last one too early, at Mark itself.  *)
VarintShort(u) ==
  LET n == CHOOSE n \in 1..MaxBytes :
             u <= Power[Group * n] /\ (n = 1 \/ u > Power[Group * (n - 1)])
      rest(i) == u \div Power[Group * (i - 1)] IN
  [i \in 1..n |-> IF i < n THEN (rest(i) % Mark) + Mark ELSE rest(i)]

(* writeUint32, writeUint64.                                                 *)
Varint(u) ==
  LET n == CHOOSE n \in 1..MaxBytes :
             u < Power[Group * n] /\ (n = 1 \/ u >= Power[Group * (n - 1)]) IN
  [i \in 1..n |->
     ((u \div Power[Group * (i - 1)]) % Mark) + (IF i < n THEN Mark ELSE 0)]

(* readUint32, readUint64: each byte without its mark, shifted to its place, *)
(* as far as the width goes.                                                 *)
VarintValue(bytes) ==
  LET result[i \in 0..Len(bytes)] ==
        IF i = 0 THEN 0
        ELSE result[i - 1] + (bytes[i] % Mark) * Power[Group * (i - 1)] IN
  result[Len(bytes)] % Power[Width]

(* writeInt32, writeInt64.                                                   *)
Code(v) == Varint(EncodeZigzag(v))
=============================================================================

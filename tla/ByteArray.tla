------------------------------ MODULE ByteArray ------------------------------
(***************************************************************************)
(* ByteArray of sylar_server/bytearray.{h,cpp}: a list of blocks with a    *)
(* pointer to the current one, and the reads and writes of SocketStream    *)
(* that go straight into its blocks.                                       *)
(***************************************************************************)
EXTENDS ByteCoding

CONSTANTS
  BaseSize,     (* m_baseSize                                               *)
  Data,         (* byte strings that are written or come from a socket      *)
  Lengths,      (* lengths that are read                                    *)
  Positions,    (* arguments of setPosition and the reads at a position     *)
  Fresh,        (* what the memory of a new block may hold                  *)
  MaxCapacity   (* bound: no write goes further                             *)

ASSUME ArrayAssumption ==
  /\ BaseSize \in Nat \ {0} /\ MaxCapacity \in Nat
  /\ Lengths \subseteq Nat \ {0} /\ Positions \subseteq Nat
  /\ Fresh \subseteq Bytes /\ Fresh # {}
  /\ Data \subseteq Seq(Bytes) \ {<<>>}

VARIABLES
  nodes,        (* the blocks from m_root                                   *)
  cur,          (* m_cur, 0 for NULL                                        *)
  position,     (* m_position                                               *)
  capacity,     (* m_capacity                                               *)
  size,         (* m_size                                                   *)
  out           (* what the last call returned or threw                     *)

listVars == <<nodes, capacity>>
vars == <<listVars, cur, position, size, out>>

Block == [0..(BaseSize - 1) -> Bytes]
NewBlocks == [0..(BaseSize - 1) -> Fresh]

Out == [ok : BOOLEAN, bytes : Seq(Bytes), value : Int]
Nothing == [ok |-> TRUE, bytes |-> <<>>, value |-> 0]
OutOfRange == [Nothing EXCEPT !.ok = FALSE]

TypeOK ==
  /\ nodes \in Seq(Block) /\ cur \in 0..Len(nodes)
  /\ position \in Nat /\ capacity \in Nat /\ size \in Nat
  /\ out \in Out

Init ==
  /\ nodes \in [{1} -> NewBlocks] /\ cur = 1
  /\ position = 0 /\ capacity = BaseSize /\ size = 0 /\ out = Nothing
-----------------------------------------------------------------------------
ReadSize == size - position

(* The k-th byte from offset `at' of block c, along the list.                *)
Cell(c, at, k) == <<c + (at + k) \div BaseSize, (at + k) % BaseSize>>

(* n bytes from offset `at' of block c.                                      *)
BytesFrom(c, at, n) ==
  [k \in 1..n |-> LET x == Cell(c, at, k - 1) IN nodes[x[1]][x[2]]]

(* Where a walk of n bytes leaves the pointer: in the next block if it used  *)
(* up the last one.                                                          *)
Walk(list, c, at, n) ==
  LET i == Cell(c, at, n)[1] IN IF i <= Len(list) THEN i ELSE 0

(* The list with the bytes at their places.                                  *)
Put(list, c, at, bytes) ==
  [i \in 1..Len(list) |-> [o \in 0..(BaseSize - 1) |->
     LET k == (i - c) * BaseSize + o - at IN
     IF k \in 0..(Len(bytes) - 1) THEN bytes[k + 1] ELSE list[i][o]]]

(* addCapacity(): enough blocks are added for n bytes ...                    *)
Extended(n) ==
  LET missing == n - (capacity - position) IN
  IF missing <= 0 THEN {nodes}
  ELSE {nodes \o new : new \in [1..((missing + BaseSize - 1) \div BaseSize) -> NewBlocks]}

(* ... and a pointer beyond the last one goes to the first of them.          *)
CurExtended(list) ==
  IF capacity = position /\ Len(list) > Len(nodes) THEN Len(nodes) + 1 ELSE cur

(* write().                                                                  *)
Write(bytes) ==
  LET at == position % BaseSize
      end == position + Len(bytes) IN
  /\ end <= MaxCapacity
  /\ \E list \in Extended(Len(bytes)) :
       LET c == CurExtended(list) IN
       /\ nodes' = Put(list, c, at, bytes)
       /\ cur' = Walk(list, c, at, Len(bytes))
       /\ capacity' = capacity + (Len(list) - Len(nodes)) * BaseSize
  /\ position' = end
  /\ size' = IF end > size THEN end ELSE size
  /\ out' = Nothing

Throw == out' = OutOfRange /\ UNCHANGED <<listVars, cur, position, size>>

(* read() from the position, of at least a byte: at the end of the last      *)
(* block a read of no bytes dereferences a null m_cur.                       *)
Read(n) ==
  LET at == position % BaseSize IN
  \/ n > ReadSize /\ Throw
  \/ /\ n <= ReadSize
     /\ out' = [Nothing EXCEPT !.bytes = BytesFrom(cur, at, n)]
     /\ cur' = Walk(nodes, cur, at, n)
     /\ position' = position + n
     /\ UNCHANGED <<listVars, size>>

(* read() from a position the user knows to hold data: m_size - position is  *)
(* unsigned.                                                                 *)
ReadAt(n, p) ==
  \/ p <= size /\ n > size - p /\ Throw
  \/ /\ n <= size - p
     /\ out' = [Nothing EXCEPT !.bytes = BytesFrom(1 + p \div BaseSize, p % BaseSize, n)]
     /\ UNCHANGED <<listVars, cur, position, size>>

(* readInt32, readInt64: byte after byte; what was read before the end of    *)
(* the data stays read.                                                      *)
ReadValue ==
  LET at == position % BaseSize
      n == CHOOSE n \in 1..MaxBytes :
             /\ n = MaxBytes \/ n > ReadSize \/ BytesFrom(cur, at, n)[n] < Mark
             /\ \A k \in 1..(n - 1) : k <= ReadSize /\ BytesFrom(cur, at, k)[k] >= Mark
      taken == IF n <= ReadSize THEN n ELSE ReadSize IN
  /\ out' = IF taken < n THEN OutOfRange
            ELSE [Nothing EXCEPT
                    !.value = DecodeZigzag(VarintValue(BytesFrom(cur, at, n)))]
  /\ position' = position + taken
  /\ cur' = IF taken = 0 THEN cur ELSE Walk(nodes, cur, at, taken)
  /\ UNCHANGED <<listVars, size>>

(* Mutant: a position at the end of a block stays in that block.             *)
SeekInBlock(list, v) == IF v = 0 THEN 1 ELSE (v - 1) \div BaseSize + 1

(* setPosition(): the walk from m_root.                                      *)
Seek(list, v) == Walk(list, 1, 0, v)

MoveTo(list, v) ==
  /\ position' = v /\ cur' = Seek(list, v)
  /\ size' = IF v > size THEN v ELSE size

SetPosition(v) ==
  \/ v > capacity /\ Throw
  \/ /\ v <= capacity /\ MoveTo(nodes, v)
     /\ out' = Nothing /\ UNCHANGED listVars

(* SocketStream::read(ba, length): room for the length is made, the socket   *)
(* fills part of the buffers of getWriteBuffers(), the position follows.     *)
ReceiveAndMove(bytes, n, moved) ==
  /\ Len(bytes) <= n /\ position + n <= MaxCapacity
  /\ \E list \in Extended(n) :
       /\ nodes' = Put(list, CurExtended(list), position % BaseSize, bytes)
       /\ capacity' = capacity + (Len(list) - Len(nodes)) * BaseSize
       /\ MoveTo(list, position + moved)
  /\ out' = Nothing

(* Mutant: the position moves by what was asked for.                         *)
ReceiveAsked(bytes, n) == ReceiveAndMove(bytes, n, n)

Receive(bytes, n) == ReceiveAndMove(bytes, n, Len(bytes))

(* ... or gives nothing: the room has been made all the same.                *)
ReceiveFails(n) ==
  /\ position + n <= MaxCapacity
  /\ nodes' \in Extended(n) /\ cur' = CurExtended(nodes')
  /\ capacity' = capacity + (Len(nodes') - Len(nodes)) * BaseSize
  /\ UNCHANGED <<position, size, out>>

(* SocketStream::write(ba, length): the socket takes part of the buffers of  *)
(* getReadBuffers(), the position follows.                                   *)
Send(n) ==
  /\ n <= ReadSize
  /\ out' = [Nothing EXCEPT !.bytes = BytesFrom(cur, position % BaseSize, n)]
  /\ MoveTo(nodes, position + n)
  /\ UNCHANGED listVars

(* clear(): all blocks but the first are freed.                              *)
Clear ==
  /\ nodes' = <<nodes[1]>> /\ cur' = 1 /\ capacity' = BaseSize
  /\ position' = 0 /\ size' = 0 /\ out' = Nothing
-----------------------------------------------------------------------------
Next ==
  \/ \E bytes \in Data : Write(bytes)
  \/ \E v \in Values : Write(Code(v))
  \/ \E n \in Lengths : Read(n) \/ Send(n) \/ ReceiveFails(n)
  \/ \E n \in Lengths, p \in Positions : ReadAt(n, p)
  \/ ReadValue \/ Clear
  \/ \E v \in Positions : SetPosition(v)
  \/ \E bytes \in Data, n \in Lengths : Receive(bytes, n)

Spec == Init /\ [][Next]_vars

(* The bytes the user sees, and the promise they keep.                       *)
Contents == BytesFrom(1, 0, size)

Sequence == INSTANCE ByteSequence WITH data <- Contents, pos <- position
=============================================================================

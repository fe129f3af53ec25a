---------------------------- MODULE ByteSequence ----------------------------
(***************************************************************************)
(* What a ByteArray promises to its user: a sequence of bytes with a       *)
(* position, whatever the size of the blocks it is kept in.                *)
(***************************************************************************)
EXTENDS ByteCoding

CONSTANTS Data, Lengths, Positions

VARIABLES data, pos, out

vars == <<data, pos, out>>

Out == [ok : BOOLEAN, bytes : Seq(Bytes), value : Int]
Nothing == [ok |-> TRUE, bytes |-> <<>>, value |-> 0]
OutOfRange == [Nothing EXCEPT !.ok = FALSE]

Init == data = <<>> /\ pos = 0 /\ out = Nothing

Rest == SubSeq(data, pos + 1, Len(data))

(* The bytes replace those at the position and extend the sequence.          *)
Write(bytes) ==
  /\ pos' = pos + Len(bytes)
  /\ data' = SubSeq(data, 1, pos) \o bytes \o SubSeq(data, pos + Len(bytes) + 1, Len(data))
  /\ out' = Nothing

Read(n) ==
  /\ IF n <= Len(Rest)
     THEN pos' = pos + n /\ out' = [Nothing EXCEPT !.bytes = SubSeq(Rest, 1, n)]
     ELSE pos' = pos /\ out' = OutOfRange
  /\ UNCHANGED data

ReadAt(n, p) ==
  /\ p <= Len(data)
  /\ out' = IF p + n <= Len(data)
            THEN [Nothing EXCEPT !.bytes = SubSeq(data, p + 1, p + n)] ELSE OutOfRange
  /\ UNCHANGED <<data, pos>>

(* The value whose code comes next, or anything if there is no code there.   *)
ReadValue ==
  /\ \/ \E v \in Values :
          /\ IsPrefix(Code(v), Rest)
          /\ pos' = pos + Len(Code(v))
          /\ out' = [Nothing EXCEPT !.value = v]
     \/ /\ \A v \in Values : ~IsPrefix(Code(v), Rest)
        /\ pos' \in pos..Len(data)
        /\ out' = OutOfRange \/ \E v \in Values : out' = [Nothing EXCEPT !.value = v]
  /\ UNCHANGED data

(* Beyond its end the sequence may be extended, with any bytes, or not.      *)
SetPosition(v) ==
  \/ v <= Len(data) /\ pos' = v /\ out' = Nothing /\ UNCHANGED data
  \/ /\ v > Len(data) /\ pos' = v /\ out' = Nothing
     /\ \E tail \in [1..(v - Len(data)) -> Bytes] : data' = data \o tail
  \/ v > Len(data) /\ out' = OutOfRange /\ UNCHANGED <<data, pos>>

Clear == data' = <<>> /\ pos' = 0 /\ out' = Nothing

Next ==
  \/ \E bytes \in Data : Write(bytes)
  \/ \E v \in Values : Write(Code(v))
  \/ \E n \in Lengths : Read(n) \/ \E p \in Positions : ReadAt(n, p)
  \/ ReadValue \/ Clear
  \/ \E v \in Positions : SetPosition(v)

Spec == Init /\ [][Next]_vars
=============================================================================

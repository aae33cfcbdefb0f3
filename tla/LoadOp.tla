------------------------------- MODULE LoadOp -------------------------------
(* Placing the bytes of an access on the eight lanes of the data bus: the     *)
(* class LoadOp of verilate/include/bus.h.  A word is a function from lanes   *)
(* to bytes; a shift by 8 * n moves lanes and brings in Zero.                 *)
EXTENDS Integers

CONSTANTS Byte, Zero

ASSUME ZeroAssumption == Zero \in Byte

Lanes  == 0 .. 7
Word   == [Lanes -> Byte]
Widths == {1, 2, 4, 8}
LoadOps == [size : Widths, shift : Lanes]
Discard == [size |-> 0, shift |-> 0]

(* SIZE<w>_SHT<n>: only the low bits of the address count, and a misaligned   *)
(* address is rounded down.                                                   *)
Parse(w, addr) == [size |-> w, shift |-> ((addr % 8) \div w) * w]

Strobe(op) == {k \in Lanes : op.shift <= k /\ k < op.shift + op.size}
WholeWord(op) == Lanes                 \* variant
Mask(op) == Strobe(op)                 \* the lanes that are all ones
Unplaced(op, data) == data             \* variant
Place(op, data) == [k \in Lanes |-> IF k < op.shift THEN Zero ELSE data[k - op.shift]]
Apply(op, data) == [k \in Lanes |-> IF op.size = 0 \/ k + op.shift > 7 THEN Zero
                                    ELSE data[k + op.shift]]

(* apply(data, dest): the stores fall through from the widest, so the bytes   *)
(* of dest below the size are written and the others kept.  The variant has   *)
(* no store of eight bytes.                                                   *)
UpToFour(op, data, dest) == [k \in Lanes |-> IF k < op.size /\ k < 4
                                             THEN Apply(op, data)[k] ELSE dest[k]]
ApplyTo(op, data, dest) == [k \in Lanes |-> IF k < op.size THEN Apply(op, data)[k]
                                            ELSE dest[k]]

(* apply_assert.                                                              *)
Agree(op, data, value) == \A k \in Mask(op) : data[k] = value[k]

(* What a memory does with a store (BlockMemory::store).                      *)
Write(old, strobe, data) == [k \in Lanes |-> IF k \in strobe THEN data[k] ELSE old[k]]
=============================================================================

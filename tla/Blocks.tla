------------------------------- MODULE Blocks -------------------------------
(***************************************************************************)
(* BS::blocks, which divides the indices first, ..., after - 1 into blocks *)
(* for detach_blocks, detach_loop and submit_*, and common_index_type,     *)
(* the type of the indices.                                                *)
(***************************************************************************)
EXTENDS Integers

(* A division is a record: lo and hi are the bounds of the index type T,     *)
(* promoted says that T is narrower than int, so that differences and sums   *)
(* of indices are taken in int; first, after and wanted are the arguments of *)
(* the constructor.  A conversion to T keeps the value modulo the size of T. *)
Conv(d, x) == d.lo + ((x - d.lo) % (d.hi - d.lo + 1))

(* What the constructor needs: wanted # 0, by which it may divide, and a     *)
(* difference that does not overflow.  An unsigned T has lo = 0.             *)
Legal(d) ==
  /\ d.lo \in Int /\ d.hi \in Int /\ d.lo <= 0 /\ 0 < d.hi
  /\ d.promoted \in BOOLEAN
  /\ d.first \in d.lo..d.hi /\ d.after \in d.lo..d.hi
  /\ d.wanted \in Nat \ {0}
  /\ d.promoted \/ d.after - d.first <= d.hi

Smaller(x, y) == IF x < y THEN x ELSE y

TotalSize(d) == IF d.after > d.first THEN d.after - d.first ELSE 0

(* Since num_blocks <= total_size, block_size is not 0 and the constructor's *)
(* last correction is never made (BlockSizePositive).                        *)
NumBlocks(d) == Smaller(d.wanted, TotalSize(d))
BlockSize(d) == TotalSize(d) \div NumBlocks(d)
Remainder(d) == TotalSize(d) % NumBlocks(d)

(* Faulty: the remainder is left to the last block.                          *)
StartEven(d, b) == Conv(d, d.first + Conv(d, b * BlockSize(d)))

Start(d, b) ==
  Conv(d, d.first + Conv(d, b * BlockSize(d)) + Conv(d, Smaller(b, Remainder(d))))

End(d, b) == IF b = NumBlocks(d) - 1 THEN d.after ELSE Start(d, b + 1)

BlockIndices(d, b) == Start(d, b)..End(d, b) - 1

(* Every index of the range is in exactly one block and no other index is in *)
(* any, no block is empty, and no two sizes differ by more than one:         *)
(* conversions to a narrow T lose nothing.                                   *)
Partition(d) ==
  LET B == 0..NumBlocks(d) - 1
  IN  /\ \A b \in B : /\ End(d, b) - Start(d, b) \in {BlockSize(d), BlockSize(d) + 1}
                      /\ Start(d, b) < End(d, b)
                      /\ d.first <= Start(d, b) /\ End(d, b) <= d.after
      /\ \A i \in d.first..d.after - 1 : \E b \in B : i \in BlockIndices(d, b)
      /\ \A b, c \in B : b < c => End(d, b) <= Start(d, c)

-----------------------------------------------------------------------------
(* common_index_type of two integer types, each given by its sign and size.  *)
IntegerTypes == [signed : BOOLEAN, bytes : {1, 2, 4, 8}]

Signed(n) == [signed |-> TRUE, bytes |-> n]

(* Faulty: a signed type of 64 bits for an unsigned one of 64 bits.          *)
MixedTypeSigned(s, u) ==
  LET larger == IF s > u THEN s ELSE u
  IN  IF larger = 8 THEN Signed(8)
      ELSE IF larger = 1 \/ (s = 2 /\ u = 1) THEN Signed(2)
      ELSE IF larger = 2 \/ (s = 4 /\ u < 4) THEN Signed(4)
      ELSE Signed(8)

MixedType(s, u) ==
  LET larger == IF s > u THEN s ELSE u
  IN  IF larger = 8
      THEN IF u = 8 THEN [signed |-> FALSE, bytes |-> 8] ELSE Signed(8)
      ELSE IF larger = 1 \/ (s = 2 /\ u = 1) THEN Signed(2)
      ELSE IF larger = 2 \/ (s = 4 /\ u < 4) THEN Signed(4)
      ELSE Signed(8)

CommonIndexType(t, u) ==
  IF t.signed = u.signed
  THEN IF t.bytes >= u.bytes THEN t ELSE u
  ELSE IF t.signed THEN MixedType(t.bytes, u.bytes) ELSE MixedType(u.bytes, t.bytes)

(* Every value of type u is a value of type t.                               *)
Holds(t, u) ==
  \/ t.signed = u.signed /\ t.bytes >= u.bytes
  \/ t.signed /\ ~u.signed /\ t.bytes > u.bytes

(* Every value of type u from 0 on is a value of type t.                     *)
ValueBits(t) == 8 * t.bytes - (IF t.signed THEN 1 ELSE 0)
HoldsFromZero(t, u) == ValueBits(t) >= ValueBits(u)

(* detach_loop and the rest convert both ends of the range to the common     *)
(* type.  An index from 0 on keeps its value whatever the two types are: a   *)
(* loop from the int 0 to a size_t is the loop it looks like.  One below 0   *)
(* keeps its value unless the type of the other end is uint64_t.             *)
CommonTypeHolds ==
  \A t, u \in IntegerTypes :
    LET common == CommonIndexType(t, u)
    IN  /\ HoldsFromZero(common, t) /\ HoldsFromZero(common, u)
        /\ \/ Holds(common, t) /\ Holds(common, u)
           \/ t.signed # u.signed /\ \E x \in {t, u} : ~x.signed /\ x.bytes = 8

=============================================================================

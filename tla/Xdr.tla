--------------------------------- MODULE Xdr ---------------------------------
(***************************************************************************)
(* The encoding of include/nanonet/xdr.h: integers with their high byte    *)
(* first in two's complement, numbers of the machine byte by byte as they  *)
(* are in memory, strings padded to a multiple of four.  A byte has        *)
(* ByteBase values (256 in the code, less to keep integers of eight bytes  *)
(* within TLC's reach).                                                    *)
(*                                                                         *)
(* A writer and a reader have iterators on the same characters; the reader *)
(* asks for what the writer wrote, item by item, some time later.          *)
(***************************************************************************)
EXTENDS Integers, Sequences

CONSTANT ByteBase
ASSUME ByteBaseAssumption == ByteBase \in Nat \ {0, 1}

VARIABLES
  items,   \* what was written
  out,     \* the characters written so far
  taken,   \* the number of them that the reader has passed
  got      \* the values it has read

\* ByteBase ^ k, the weight of byte k from the right.
Weight[k \in Nat] == IF k = 0 THEN 1 ELSE ByteBase * Weight[k - 1]

Sizes == {2, 4, 8}
SmallestInteger(signed, size) == IF signed THEN -(Weight[size] \div 2) ELSE 0
LargestInteger(signed, size) ==
  IF signed THEN Weight[size] \div 2 - 1 ELSE Weight[size] - 1

\* padsize(), pad() and skip().
Padsize(n) == IF n % 4 = 0 THEN 0 ELSE 4 - (n % 4)
Pad(n) == [k \in 1..n |-> 0]

\* write() and read_integer() of an integer of size bytes; bytes shifted
\* into an unsigned integer, then converted to its signed type.
WriteInteger(v, size) ==
  LET us == v % Weight[size]
  IN [k \in 1..size |-> (us \div Weight[size - k]) % ByteBase]

\* The loop of read_integer(): what is in us after k bytes, from place pos on.
Shifted(b, pos, size) ==
  LET us[k \in 0..size] == IF k = 0 THEN 0 ELSE ByteBase * us[k - 1] + b[pos + k]
  IN us[size]
ReadInteger(b, pos, signed, size) ==
  LET us == Shifted(b, pos, size)
  IN [val |-> IF us > LargestInteger(signed, size) THEN us - Weight[size] ELSE us,
      pos |-> pos + size]

\* write_raw() and read_raw() of the bytes of a float or a double.
WriteRaw(mem) == mem
ReadRaw(b, pos, size) == [val |-> SubSeq(b, pos + 1, pos + size), pos |-> pos + size]

\* write() of a string and read_string(), which is told its size.
WriteString(s) == s \o Pad(Padsize(Len(s)))
\* Mutation: the padding is not skipped.
ReadString_NoSkip(b, pos, size) ==
  [val |-> SubSeq(b, pos + 1, pos + size), pos |-> pos + size]

ReadString(b, pos, size) ==
  [val |-> SubSeq(b, pos + 1, pos + size), pos |-> pos + size + Padsize(size)]

-----------------------------------------------------------------------------
\* An item with what its reader has to know, and its encoding.
IntegerItem(signed, size, v) == [kind |-> "integer", signed |-> signed, size |-> size,
                                 val |-> v, bytes |-> WriteInteger(v, size)]
RawItem(mem) == [kind |-> "raw", signed |-> FALSE, size |-> Len(mem),
                 val |-> mem, bytes |-> WriteRaw(mem)]
StringItem(s) == [kind |-> "string", signed |-> FALSE, size |-> Len(s),
                  val |-> s, bytes |-> WriteString(s)]

\* Every item there can be: an integer of any type, a float or a double as four
\* or eight bytes of memory, a string of any length.
Bytes == 0..ByteBase - 1
IsItem(x) ==
  \/ \E signed \in BOOLEAN : \E size \in Sizes :
       \E v \in SmallestInteger(signed, size)..LargestInteger(signed, size) :
         x = IntegerItem(signed, size, v)
  \/ \E mem \in Seq(Bytes) : Len(mem) \in {4, 8} /\ x = RawItem(mem)
  \/ \E s \in Seq(Bytes) : x = StringItem(s)

XdrInit == items = <<>> /\ out = <<>> /\ taken = 0 /\ got = <<>>

Written(x) == /\ items' = Append(items, x) /\ out' = out \o x.bytes
              /\ UNCHANGED <<taken, got>>

\* The item x is read from place pos of b.
ReadFrom(b, pos, x) ==
  CASE x.kind = "integer" -> ReadInteger(b, pos, x.signed, x.size)
    [] x.kind = "raw"     -> ReadRaw(b, pos, x.size)
    [] x.kind = "string"  -> ReadString(b, pos, x.size)
ReadNext == /\ Len(got) < Len(items)
            /\ \E r \in {ReadFrom(out, taken, items[Len(got) + 1])} :
                 got' = Append(got, r.val) /\ taken' = r.pos
            /\ UNCHANGED <<items, out>>

\* The items of I are written and read.
XdrNext(I) == (\E x \in I : Written(x)) \/ ReadNext
XdrSpec(I) == XdrInit /\ [][XdrNext(I)]_<<items, out, taken, got>>

-----------------------------------------------------------------------------
\* What was written is read back item by item, in any mix of types and at the
\* ends of their ranges, and a reader that has read everything is where the
\* writer is; without 16 bit integers an item starts at a multiple of four.
XdrRoundTrip ==
  /\ Len(got) <= Len(items)
  /\ \A k \in 1..Len(got) : got[k] = items[k].val
  /\ Len(got) = Len(items) => taken = Len(out)
  /\ (\A k \in 1..Len(items) : items[k].kind = "integer" => items[k].size # 2)
       => Len(out) % 4 = 0
=============================================================================

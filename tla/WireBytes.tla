----------------------------- MODULE WireBytes ------------------------------
(***************************************************************************)
(* Numbers as bytes in network order, and structs whose fields travel one  *)
(* after the other.                                                        *)
(*                                                                         *)
(* A byte has Radix values: 256 in the code, fewer where TLC has to count  *)
(* a word of four of them.                                                 *)
(***************************************************************************)
EXTENDS Integers, Sequences

CONSTANT Radix

ASSUME RadixAssumption == Radix \in Nat /\ Radix >= 2

Byte == 0 .. Radix - 1
HalfSpace == Radix * Radix
WordSpace == HalfSpace * HalfSpace
Half == 0 .. HalfSpace - 1
Word == 0 .. WordSpace - 1

\* An i32 and the word it travels as.
SignedWord == -(WordSpace \div 2) .. (WordSpace - 1) \div 2
AsWord(n) == IF n < 0 THEN n + WordSpace ELSE n
AsSigned(w) == IF w > (WordSpace - 1) \div 2 THEN w - WordSpace ELSE w

-----------------------------------------------------------------------------
(* put_u16 and put_u32, and the reading of a number at an offset *)

PutU16(v) == <<v \div Radix, v % Radix>>

PutU32(v) ==
  LET v1 == v \div Radix
      v2 == v1 \div Radix
  IN  <<v2 \div Radix, v2 % Radix, v1 % Radix, v % Radix>>

GetU16(buf, at) == buf[at + 1] * Radix + buf[at + 2]

GetU32(buf, at) ==
  ((buf[at + 1] * Radix + buf[at + 2]) * Radix + buf[at + 3]) * Radix + buf[at + 4]

GetI32(buf, at) == AsSigned(GetU32(buf, at))

\* One put_u32 after the other.
PutWords(ws) ==
  [i \in 1 .. 4 * Len(ws) |-> PutU32(ws[((i - 1) \div 4) + 1])[((i - 1) % 4) + 1]]

-----------------------------------------------------------------------------
(* Structs of words: a layout is the order in which the fields are put or  *)
(* read, and says by name which of them are signed.                        *)

SignedFields == {"transfer_buffer_length", "start_frame", "number_of_packets", "interval",
                 "status", "actual_length", "error_count"}

FieldsOf(layout) == {layout[i] : i \in DOMAIN layout}
FieldValues(f) == IF f \in SignedFields THEN SignedWord ELSE Word
Place(layout, f) == CHOOSE i \in DOMAIN layout : layout[i] = f

PutStruct(layout, s) == PutWords([i \in DOMAIN layout |-> AsWord(s[layout[i]])])

GetStruct(layout, buf, at) ==
  [f \in FieldsOf(layout) |->
     LET offset == at + 4 * (Place(layout, f) - 1)
     IN  IF f \in SignedFields THEN GetI32(buf, offset) ELSE GetU32(buf, offset)]

\* size_of: a repr(C) struct that holds a word is padded to a multiple of one.
Aligned(n) == 4 * ((n + 3) \div 4)
=============================================================================

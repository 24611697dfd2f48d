-------------------------- MODULE WireBytesProofs --------------------------
(***************************************************************************)
(* What is put into a stream can be read from it again, for every radix,   *)
(* number and layout.                                                      *)
(***************************************************************************)
EXTENDS WireBytes, TLAPS

\* A number below Radix * n in two digits.
LEMMA TwoDigits ==
  ASSUME NEW n \in Nat \ {0}, NEW x \in 0 .. Radix * n - 1
  PROVE  /\ x \div Radix \in 0 .. n - 1
         /\ x % Radix \in Byte
         /\ (x \div Radix) * Radix + (x % Radix) = x
<1>1. Radix \in Nat /\ Radix >= 2 /\ x \in Nat
  BY RadixAssumption
<1> DEFINE q == x \div Radix
           r == x % Radix
<1>2. q \in Int /\ r \in 0 .. Radix - 1 /\ x = Radix * q + r
  BY <1>1
<1> HIDE DEF q, r
<1>3. q >= 0
  <2>1. ASSUME q <= -1 PROVE FALSE
    <3>1. Radix * q <= -Radix
      BY <1>1, <1>2, <2>1
    <3> QED BY <1>1, <1>2, <3>1
  <2> QED BY <1>2, <2>1
<1>4. q <= n - 1
  <2>1. ASSUME q >= n PROVE FALSE
    <3>1. Radix * q >= Radix * n
      BY <1>1, <1>2, <2>1
    <3> QED BY <1>1, <1>2, <3>1
  <2> QED BY <1>2, <2>1
<1> QED BY <1>1, <1>2, <1>3, <1>4 DEF Byte, q, r

LEMMA Spaces ==
  /\ Radix \in Nat \ {0} /\ Radix >= 2
  /\ HalfSpace \in Nat \ {0} /\ WordSpace \in Nat \ {0}
  /\ HalfSpace = Radix * Radix
  /\ Radix * HalfSpace \in Nat \ {0}
  /\ WordSpace = Radix * (Radix * HalfSpace)
<1>1. Radix \in Nat \ {0} /\ Radix >= 2
  BY RadixAssumption
<1>2. HalfSpace \in Nat \ {0}
  BY <1>1 DEF HalfSpace
<1>3. WordSpace \in Nat \ {0}
  BY <1>2 DEF WordSpace
<1>4. Radix * HalfSpace \in Nat \ {0}
  BY <1>1, <1>2
<1>5. WordSpace = Radix * (Radix * HalfSpace)
  BY <1>1 DEF WordSpace, HalfSpace
<1> QED BY <1>1, <1>2, <1>3, <1>4, <1>5 DEF HalfSpace

\* The four bytes of a word, and the word they are read as.
LEMMA WordBytes ==
  ASSUME NEW v \in Word
  PROVE  /\ PutU32(v) \in Seq(Byte) /\ Len(PutU32(v)) = 4
         /\ \A i \in 1 .. 4 : PutU32(v)[i] \in Byte
         /\ ((PutU32(v)[1] * Radix + PutU32(v)[2]) * Radix + PutU32(v)[3]) * Radix + PutU32(v)[4] = v
<1> DEFINE v1 == v \div Radix
           v2 == v1 \div Radix
<1>1. /\ v1 \in 0 .. Radix * HalfSpace - 1 /\ v % Radix \in Byte
      /\ v1 * Radix + (v % Radix) = v
  <2>1. v \in 0 .. Radix * (Radix * HalfSpace) - 1
    BY Spaces DEF Word
  <2> QED BY <2>1, Spaces, TwoDigits
<1>2. /\ v2 \in 0 .. HalfSpace - 1 /\ v1 % Radix \in Byte
      /\ v2 * Radix + (v1 % Radix) = v1
  BY <1>1, Spaces, TwoDigits
<1>3. /\ v2 \div Radix \in Byte /\ v2 % Radix \in Byte
      /\ (v2 \div Radix) * Radix + (v2 % Radix) = v2
  <2>1. v2 \in 0 .. Radix * Radix - 1
    BY <1>2, Spaces
  <2> QED BY <2>1, Spaces, TwoDigits DEF Byte
<1>4. PutU32(v) = <<v2 \div Radix, v2 % Radix, v1 % Radix, v % Radix>>
  BY DEF PutU32
<1> HIDE DEF v1, v2
<1> QED BY <1>1, <1>2, <1>3, <1>4

\* A word is read as it was put, wherever it stands in a stream.
THEOREM WordRoundTrip ==
  ASSUME NEW v \in Word, NEW buf \in Seq(Byte), NEW at \in Nat,
         at + 4 <= Len(buf),
         \A i \in 1 .. 4 : buf[at + i] = PutU32(v)[i]
  PROVE  GetU32(buf, at) = v
<1>1. /\ buf[at + 1] = PutU32(v)[1] /\ buf[at + 2] = PutU32(v)[2]
      /\ buf[at + 3] = PutU32(v)[3] /\ buf[at + 4] = PutU32(v)[4]
  OBVIOUS
<1> QED BY <1>1, WordBytes DEF GetU32

\* An i32 comes back with its sign.
LEMMA SignedRoundTrip ==
  ASSUME NEW n \in SignedWord
  PROVE  AsWord(n) \in Word /\ AsSigned(AsWord(n)) = n
<1>1. WordSpace \in Nat \ {0}
  BY Spaces
<1> DEFINE h == WordSpace \div 2
           g == (WordSpace - 1) \div 2
<1>2. h \in Nat /\ g \in Nat /\ h + g = WordSpace - 1
  BY <1>1
<1>3. n \in -h .. g
  BY DEF SignedWord
<1>4. AsSigned(AsWord(n)) = IF AsWord(n) > g THEN AsWord(n) - WordSpace ELSE AsWord(n)
  BY DEF AsSigned
<1> HIDE DEF h, g
<1> QED BY <1>1, <1>2, <1>3, <1>4 DEF AsWord, Word

-----------------------------------------------------------------------------
(* Structs *)

\* The bytes of one word after the other.
LEMMA WordsBytes ==
  ASSUME NEW ws \in Seq(Word)
  PROVE  /\ PutWords(ws) \in Seq(Byte) /\ Len(PutWords(ws)) = 4 * Len(ws)
         /\ \A k \in 1 .. Len(ws), j \in 1 .. 4 :
              PutWords(ws)[4 * (k - 1) + j] = PutU32(ws[k])[j]
<1>1. Len(ws) \in Nat /\ 4 * Len(ws) \in Nat
  OBVIOUS
<1>2. ASSUME NEW i \in 1 .. 4 * Len(ws)
      PROVE  PutU32(ws[((i - 1) \div 4) + 1])[((i - 1) % 4) + 1] \in Byte
  <2> DEFINE k == ((i - 1) \div 4) + 1
             j == ((i - 1) % 4) + 1
  <2>1. k \in 1 .. Len(ws) /\ j \in 1 .. 4
    BY <1>1
  <2> HIDE DEF k, j
  <2>2. ws[k] \in Word
    BY <2>1
  <2>3. PutU32(ws[k])[j] \in Byte
    BY <2>1, <2>2, WordBytes
  <2> QED BY <2>3 DEF k, j
<1>3. PutWords(ws) \in Seq(Byte) /\ Len(PutWords(ws)) = 4 * Len(ws)
  <2>1. PutWords(ws) \in [1 .. 4 * Len(ws) -> Byte]
    BY <1>2 DEF PutWords
  <2>2. PutWords(ws) \in Seq(Byte)
    BY <1>1, <2>1
  <2> QED BY <1>1, <2>1, <2>2
<1>4. ASSUME NEW k \in 1 .. Len(ws), NEW j \in 1 .. 4
      PROVE  PutWords(ws)[4 * (k - 1) + j] = PutU32(ws[k])[j]
  <2> DEFINE i == 4 * (k - 1) + j
  <2>1. i \in 1 .. 4 * Len(ws) /\ ((i - 1) \div 4) + 1 = k /\ ((i - 1) % 4) + 1 = j
    BY <1>1
  <2> HIDE DEF i
  <2>2. PutWords(ws)[i] = PutU32(ws[k])[j]
    BY <2>1 DEF PutWords
  <2> QED BY <2>2 DEF i
<1> QED BY <1>3, <1>4

\* A layout names no field twice.
IsLayout(layout) ==
  /\ Len(layout) \in Nat /\ DOMAIN layout = 1 .. Len(layout)
  /\ \A i, j \in DOMAIN layout : layout[i] = layout[j] => i = j

\* A struct that fits a layout.
Structs(layout) == {s \in [FieldsOf(layout) -> Int] : \A f \in FieldsOf(layout) : s[f] \in FieldValues(f)}

LEMMA PlaceOfField ==
  ASSUME NEW layout, IsLayout(layout), NEW f \in FieldsOf(layout)
  PROVE  Place(layout, f) \in 1 .. Len(layout) /\ layout[Place(layout, f)] = f
<1>1. \E i \in DOMAIN layout : layout[i] = f
  BY DEF FieldsOf
<1>2. Place(layout, f) \in DOMAIN layout /\ layout[Place(layout, f)] = f
  BY <1>1 DEF Place
<1> QED BY <1>2 DEF IsLayout

LEMMA PlaceIsIndex ==
  ASSUME NEW layout, IsLayout(layout), NEW i \in 1 .. Len(layout)
  PROVE  layout[i] \in FieldsOf(layout) /\ Place(layout, layout[i]) = i
<1>1. i \in DOMAIN layout /\ DOMAIN layout = 1 .. Len(layout)
  BY DEF IsLayout
<1>2. layout[i] \in FieldsOf(layout)
  BY <1>1 DEF FieldsOf
<1>3. Place(layout, layout[i]) \in DOMAIN layout /\ layout[Place(layout, layout[i])] = layout[i]
  BY <1>1, <1>2, PlaceOfField
<1> QED BY <1>1, <1>2, <1>3 DEF IsLayout

LEMMA FieldIsWord ==
  ASSUME NEW f, NEW n \in FieldValues(f)
  PROVE  AsWord(n) \in Word
<1>1. CASE n \in SignedWord
  BY <1>1, SignedRoundTrip
<1>2. CASE n \in Word
  BY <1>2 DEF Word, AsWord
<1> QED BY <1>1, <1>2 DEF FieldValues

LEMMA StructBytes ==
  ASSUME NEW layout, IsLayout(layout), NEW s \in Structs(layout)
  PROVE  /\ [i \in DOMAIN layout |-> AsWord(s[layout[i]])] \in Seq(Word)
         /\ PutStruct(layout, s) \in Seq(Byte)
         /\ Len(PutStruct(layout, s)) = 4 * Len(layout)
         /\ \A k \in 1 .. Len(layout), j \in 1 .. 4 :
              PutStruct(layout, s)[4 * (k - 1) + j] = PutU32(AsWord(s[layout[k]]))[j]
<1> DEFINE ws == [i \in DOMAIN layout |-> AsWord(s[layout[i]])]
<1>1. DOMAIN layout = 1 .. Len(layout) /\ Len(layout) \in Nat
  BY DEF IsLayout
<1>2. ASSUME NEW i \in 1 .. Len(layout) PROVE AsWord(s[layout[i]]) \in Word
  <2>1. s[layout[i]] \in FieldValues(layout[i])
    BY <1>2, PlaceIsIndex DEF Structs
  <2> QED BY <2>1, FieldIsWord
<1>3. ws \in Seq(Word) /\ Len(ws) = Len(layout) /\ \A k \in 1 .. Len(layout) : ws[k] = AsWord(s[layout[k]])
  BY <1>1, <1>2
<1>4. PutStruct(layout, s) = PutWords(ws)
  BY DEF PutStruct
<1> HIDE DEF ws
<1>5. /\ PutWords(ws) \in Seq(Byte) /\ Len(PutWords(ws)) = 4 * Len(layout)
      /\ \A k \in 1 .. Len(layout), j \in 1 .. 4 :
           PutWords(ws)[4 * (k - 1) + j] = PutU32(AsWord(s[layout[k]]))[j]
  BY <1>3, WordsBytes
<1> QED BY <1>3, <1>4, <1>5 DEF ws

\* buf holds, from `at` on, what was put there with a layout.
Holds(buf, at, layout, s) ==
  /\ at \in Nat /\ at + 4 * Len(layout) <= Len(buf)
  /\ \A i \in 1 .. 4 * Len(layout) : buf[at + i] = PutStruct(layout, s)[i]

\* Every field can be read at its offset.
LEMMA FieldAtOffset ==
  ASSUME NEW layout, IsLayout(layout), NEW s \in Structs(layout),
         NEW buf \in Seq(Byte), NEW at, Holds(buf, at, layout, s),
         NEW k \in 1 .. Len(layout)
  PROVE  /\ GetU32(buf, at + 4 * (k - 1)) = AsWord(s[layout[k]])
         /\ layout[k] \in SignedFields => GetI32(buf, at + 4 * (k - 1)) = s[layout[k]]
         /\ layout[k] \notin SignedFields => GetU32(buf, at + 4 * (k - 1)) = s[layout[k]]
<1> DEFINE v == AsWord(s[layout[k]])
           off == at + 4 * (k - 1)
<1>1. Len(layout) \in Nat /\ at \in Nat /\ Len(buf) \in Nat /\ k \in Nat
  BY DEF IsLayout, Holds
<1>2. off \in Nat /\ off + 4 <= Len(buf)
  BY <1>1 DEF Holds
<1>3. ASSUME NEW j \in 1 .. 4 PROVE buf[off + j] = PutU32(v)[j]
  <2>1. 4 * (k - 1) + j \in 1 .. 4 * Len(layout) /\ off + j = at + (4 * (k - 1) + j)
    BY <1>1
  <2>2. buf[at + (4 * (k - 1) + j)] = PutStruct(layout, s)[4 * (k - 1) + j]
    BY <2>1 DEF Holds
  <2>3. PutStruct(layout, s)[4 * (k - 1) + j] = PutU32(v)[j]
    BY <1>3, StructBytes
  <2> QED BY <2>1, <2>2, <2>3
<1>4. s[layout[k]] \in FieldValues(layout[k])
  BY PlaceIsIndex DEF Structs
<1>5. v \in Word
  BY <1>4, FieldIsWord
<1> HIDE DEF v, off
<1>6. GetU32(buf, off) = v
  BY <1>2, <1>3, <1>5, WordRoundTrip
<1>7. layout[k] \in SignedFields => AsSigned(v) = s[layout[k]]
  BY <1>4, SignedRoundTrip DEF FieldValues, v
<1>8. layout[k] \notin SignedFields => v = s[layout[k]]
  BY <1>4 DEF FieldValues, AsWord, Word, v
<1> QED BY <1>6, <1>7, <1>8 DEF GetI32, v, off

\* A struct is read as it was put, whatever the layout, if both agree on it.
THEOREM StructRoundTrip ==
  ASSUME NEW layout, IsLayout(layout), NEW s \in Structs(layout),
         NEW buf \in Seq(Byte), NEW at, Holds(buf, at, layout, s)
  PROVE  GetStruct(layout, buf, at) = s
<1>1. ASSUME NEW f \in FieldsOf(layout)
      PROVE  (LET offset == at + 4 * (Place(layout, f) - 1)
              IN  IF f \in SignedFields THEN GetI32(buf, offset) ELSE GetU32(buf, offset)) = s[f]
  <2>1. Place(layout, f) \in 1 .. Len(layout) /\ layout[Place(layout, f)] = f
    BY PlaceOfField
  <2> QED BY <2>1, FieldAtOffset
<1>2. s = [f \in FieldsOf(layout) |-> s[f]]
  BY DEF Structs
<1> QED BY <1>1, <1>2 DEF GetStruct
=============================================================================

------------------------------- MODULE Streams -------------------------------
(***************************************************************************)
(* Streams that carry frames one after the other.  A position function     *)
(* stands for the sums of lengths that a recursive definition would        *)
(* compute: where each frame begins.                                       *)
(***************************************************************************)
EXTENDS Integers, Sequences, WellFoundedInduction, TLAPS

\* Frame k of f, for k from a to b, begins behind p[k] elements.
Positions(f, a, b, p) ==
  /\ p \in [a .. b + 1 -> Nat]
  /\ p[a] = 0
  /\ \A k \in a .. b : p[k + 1] = p[k] + Len(f[k])
  /\ \A j, k \in a .. b + 1 : j <= k => p[j] <= p[k]

\* As far as the stream s goes it shows these frames; it may be cut short, and
\* there may be more behind them.
LaidOut(s, f, a, b, p) ==
  /\ Positions(f, a, b, p)
  /\ \A k \in a .. b : \A i \in 1 .. Len(f[k]) : p[k] + i <= Len(s) => s[p[k] + i] = f[k][i]

\* Frames a to b exist.
Frames(S, f, a, b) ==
  /\ a \in Nat /\ b \in Nat /\ a <= b + 1
  /\ \A k \in a .. b : f[k] \in Seq(S)

LEMMA JoinedElements ==
  ASSUME NEW S, NEW s \in Seq(S), NEW t \in Seq(S)
  PROVE  /\ s \o t \in Seq(S)
         /\ Len(s) \in Nat /\ Len(t) \in Nat
         /\ Len(s \o t) = Len(s) + Len(t)
         /\ \A i \in 1 .. Len(s) : (s \o t)[i] = s[i]
         /\ \A i \in 1 .. Len(t) : (s \o t)[Len(s) + i] = t[i]
OBVIOUS

\* Two sequences with the same elements are the same.
LEMMA SameElements ==
  ASSUME NEW S, NEW s \in Seq(S), NEW t \in Seq(S), Len(s) = Len(t),
         \A i \in 1 .. Len(s) : s[i] = t[i]
  PROVE  s = t
OBVIOUS

\* Frames that are laid out elsewhere alike.
LEMMA SameFrames ==
  ASSUME NEW f, NEW g, NEW a \in Nat, NEW b \in Nat, NEW s, NEW p, LaidOut(s, f, a, b, p),
         \A k \in a .. b : g[k] = f[k]
  PROVE  LaidOut(s, g, a, b, p)
BY DEF LaidOut, Positions

\* No frame at all.
LEMMA NoFrames ==
  ASSUME NEW f, NEW s, NEW a \in Nat
  PROVE  \E p : LaidOut(s, f, a + 1, a, p) /\ p[a + 1] = 0
<1> DEFINE p == [k \in a + 1 .. a + 1 |-> 0]
<1>1. p \in [a + 1 .. a + 1 -> Nat] /\ p[a + 1] = 0 /\ a + 1 .. a = {}
  OBVIOUS
<1> HIDE DEF p
<1>2. LaidOut(s, f, a + 1, a, p)
  BY <1>1 DEF LaidOut, Positions
<1> QED BY <1>1, <1>2

\* A stream that is cut still shows the same frames.
LEMMA CutStream ==
  ASSUME NEW S, NEW s \in Seq(S), NEW t \in Seq(S),
         NEW f, NEW a \in Nat, NEW b \in Nat, Frames(S, f, a, b), NEW p, LaidOut(s \o t, f, a, b, p)
  PROVE  LaidOut(s, f, a, b, p)
<1> DEFINE st == s \o t
<1>1. /\ Len(st) = Len(s) + Len(t) /\ Len(s) \in Nat /\ Len(t) \in Nat
      /\ \A i \in 1 .. Len(s) : st[i] = s[i]
  BY JoinedElements
<1> HIDE DEF st
<1>2. LaidOut(st, f, a, b, p)
  BY DEF st
<1>3. ASSUME NEW k \in a .. b, NEW i \in 1 .. Len(f[k]), p[k] + i <= Len(s)
      PROVE  s[p[k] + i] = f[k][i]
  <2>1. p[k] \in Nat /\ Len(f[k]) \in Nat
    BY <1>2 DEF LaidOut, Positions, Frames
  <2>2. p[k] + i \in 1 .. Len(s) /\ p[k] + i <= Len(st)
    BY <1>1, <1>3, <2>1
  <2>3. st[p[k] + i] = f[k][i]
    BY <1>2, <2>2 DEF LaidOut
  <2> QED BY <1>1, <2>2, <2>3
<1> QED BY <1>2, <1>3 DEF LaidOut

\* Positions lie within the stream, and the next frame lies behind this one.
LEMMA PositionTypes ==
  ASSUME NEW S, NEW f, NEW a \in Nat, NEW b \in Nat, Frames(S, f, a, b), NEW p, Positions(f, a, b, p),
         NEW k \in a .. b
  PROVE  /\ p[k] \in Nat /\ p[k + 1] \in Nat /\ Len(f[k]) \in Nat
         /\ p[k + 1] = p[k] + Len(f[k])
<1>1. k \in a .. b + 1 /\ k + 1 \in a .. b + 1
  OBVIOUS
<1> QED BY <1>1 DEF Positions, Frames

\* An element of a frame that ends within the stream is in the stream.
LEMMA ElementWithin ==
  ASSUME NEW x \in Nat, NEW y \in Nat, NEW n \in Nat, NEW m \in Nat,
         y = x + n, y <= m, NEW i \in 1 .. n
  PROVE  x + i \in 1 .. m
OBVIOUS

\* A frame is added behind the last one.
LEMMA AddLastFrame ==
  ASSUME NEW S, NEW s \in Seq(S), NEW t \in Seq(S), NEW f, NEW a \in Nat, NEW b \in Nat,
         Frames(S, f, a, b), NEW p, LaidOut(s, f, a, b, p), Len(s) = p[b + 1], f[b + 1] = t
  PROVE  \E q : /\ LaidOut(s \o t, f, a, b + 1, q)
                /\ q[b + 2] = Len(s \o t)
<1> DEFINE st == s \o t
           q == [k \in a .. b + 2 |-> IF k = b + 2 THEN Len(st) ELSE p[k]]
<1>1. /\ Len(st) = Len(s) + Len(t) /\ Len(s) \in Nat /\ Len(t) \in Nat
      /\ \A i \in 1 .. Len(s) : st[i] = s[i]
      /\ \A i \in 1 .. Len(t) : st[Len(s) + i] = t[i]
  BY JoinedElements
<1> HIDE DEF st
<1>2. /\ a <= b + 1
      /\ q[b + 2] = Len(st) /\ q[b + 1] = Len(s)
      /\ \A k \in a .. b + 1 : q[k] = p[k]
      /\ \A k \in a .. b + 1 : p[k] \in Nat /\ p[k] <= Len(s)
      /\ p[a] = 0
      /\ \A j, k \in a .. b + 1 : j <= k => p[j] <= p[k]
  BY DEF LaidOut, Positions, Frames
<1>3. q \in [a .. b + 2 -> Nat]
  BY <1>1, <1>2
<1> HIDE DEF q
<1>4. q[a] = 0
  BY <1>2
<1>5. ASSUME NEW k \in a .. b + 1
      PROVE  /\ q[k + 1] = q[k] + Len(f[k])
             /\ \A i \in 1 .. Len(f[k]) : q[k] + i <= Len(st) => st[q[k] + i] = f[k][i]
  <2>1. CASE k = b + 1
    <3>1. q[k] = Len(s) /\ q[k + 1] = Len(st) /\ f[k] = t
      BY <1>2, <2>1
    <3> QED BY <1>1, <3>1
  <2>2. CASE k \in a .. b
    <3>1. /\ q[k] = p[k] /\ q[k + 1] = p[k + 1] /\ p[k + 1] <= Len(s)
          /\ p[k] \in Nat /\ Len(f[k]) \in Nat /\ p[k + 1] = p[k] + Len(f[k])
      BY <1>2, <2>2 DEF LaidOut, Positions, Frames
    <3>2. ASSUME NEW i \in 1 .. Len(f[k]) PROVE st[q[k] + i] = f[k][i]
      <4>1. p[k] + i \in 1 .. Len(s)
        <5>1. Len(s) \in Nat
          BY <1>1
        <5>2. p[k] \in Nat /\ p[k + 1] \in Nat /\ Len(f[k]) \in Nat
          BY <1>2, <2>2, <3>1
        <5> QED BY <3>1, <5>1, <5>2, ElementWithin
      <4>2. s[p[k] + i] = f[k][i]
        BY <2>2, <4>1 DEF LaidOut
      <4>3. st[p[k] + i] = s[p[k] + i]
        BY <1>1, <4>1
      <4> QED BY <3>1, <4>2, <4>3
    <3> QED BY <3>1, <3>2
  <2> QED BY <2>1, <2>2
<1>6. ASSUME NEW j \in a .. b + 2, NEW k \in a .. b + 2, j <= k PROVE q[j] <= q[k]
  <2>1. CASE k = b + 2
    <3>1. CASE j = b + 2
      BY <1>1, <1>2, <2>1, <3>1
    <3>2. CASE j \in a .. b + 1
      BY <1>1, <1>2, <2>1, <3>2
    <3> QED BY <3>1, <3>2
  <2>2. CASE k \in a .. b + 1
    <3>1. j \in a .. b + 1
      BY <1>6, <2>2
    <3> QED BY <1>2, <1>6, <2>2, <3>1
  <2> QED BY <2>1, <2>2
<1>7. LaidOut(st, f, a, b + 1, q)
  <2>1. b + 1 + 1 = b + 2
    OBVIOUS
  <2> QED BY <1>3, <1>4, <1>5, <1>6, <2>1 DEF LaidOut, Positions
<1> QED BY <1>2, <1>7 DEF st

\* Whatever follows the last frame does not disturb those before it.
LEMMA AddBehind ==
  ASSUME NEW S, NEW s \in Seq(S), NEW t \in Seq(S), NEW f, NEW a \in Nat, NEW b \in Nat,
         Frames(S, f, a, b), NEW p, LaidOut(s, f, a, b, p), p[b + 1] <= Len(s)
  PROVE  /\ LaidOut(s \o t, f, a, b, p)
         /\ p[b + 1] <= Len(s \o t)
<1> DEFINE st == s \o t
<1>1. /\ Len(st) = Len(s) + Len(t) /\ Len(s) \in Nat /\ Len(t) \in Nat
      /\ \A i \in 1 .. Len(s) : st[i] = s[i]
  BY JoinedElements
<1> HIDE DEF st
<1>2. ASSUME NEW k \in a .. b, NEW i \in 1 .. Len(f[k]) PROVE st[p[k] + i] = f[k][i]
  <2>1. /\ p[k] \in Nat /\ p[k + 1] \in Nat /\ Len(f[k]) \in Nat /\ p[k + 1] = p[k] + Len(f[k])
    BY PositionTypes DEF LaidOut
  <2>2. p[k + 1] <= p[b + 1] /\ p[b + 1] \in Nat
    BY DEF LaidOut, Positions
  <2>3. p[k] + i \in 1 .. Len(s)
    <3>1. Len(s) \in Nat /\ p[k + 1] <= Len(s)
      BY <1>1, <2>1, <2>2
    <3> QED BY <2>1, <3>1, ElementWithin
  <2>4. s[p[k] + i] = f[k][i]
    BY <2>3 DEF LaidOut
  <2> QED BY <1>1, <2>3, <2>4
<1>3. LaidOut(st, f, a, b, p)
  BY <1>2 DEF LaidOut
<1>4. p[b + 1] <= Len(st)
  <2>1. p[b + 1] \in Nat
    BY DEF LaidOut, Positions, Frames
  <2> QED BY <1>1, <2>1
<1> QED BY <1>3, <1>4 DEF st

\* Elements as many as the first frame are this frame, and without them the
\* stream carries the frames that follow.
LEMMA DropFirstFrame ==
  ASSUME NEW S, NEW s \in Seq(S), NEW t \in Seq(S), NEW f, NEW a \in Nat, NEW b \in Nat,
         Frames(S, f, a, b), a <= b, NEW p, LaidOut(s \o t, f, a, b, p), Len(s) = Len(f[a])
  PROVE  /\ s = f[a]
         /\ \E q : LaidOut(t, f, a + 1, b, q) /\ p[b + 1] = Len(s) + q[b + 1]
<1> DEFINE st == s \o t
           q == [k \in a + 1 .. b + 1 |-> p[k] - Len(s)]
<1>1. /\ Len(st) = Len(s) + Len(t) /\ Len(s) \in Nat /\ Len(t) \in Nat
      /\ \A i \in 1 .. Len(s) : st[i] = s[i]
      /\ \A i \in 1 .. Len(t) : st[Len(s) + i] = t[i]
  <2>1. st = s \o t
    OBVIOUS
  <2> HIDE DEF st, q
  <2>2. Len(s \o t) = Len(s) + Len(t) /\ Len(s) \in Nat /\ Len(t) \in Nat
    OBVIOUS
  <2>3. ASSUME NEW i \in 1 .. Len(s) PROVE (s \o t)[i] = s[i]
    BY JoinedElements
  <2>4. ASSUME NEW i \in 1 .. Len(t) PROVE (s \o t)[Len(s) + i] = t[i]
    BY JoinedElements
  <2> QED BY <2>1, <2>2, <2>3, <2>4
<1> HIDE DEF st
<1>2. LaidOut(st, f, a, b, p)
  BY DEF st
<1>3. p[a] = 0 /\ p[a + 1] = Len(s) /\ a \in a .. b
  <2>1. a \in a .. b
    OBVIOUS
  <2>2. p[a] = 0
    BY <1>2 DEF LaidOut, Positions
  <2> QED BY <1>1, <1>2, <2>1, <2>2 DEF LaidOut, Positions
<1>4. s = f[a]
  <2>1. ASSUME NEW i \in 1 .. Len(s) PROVE s[i] = f[a][i]
    <3>1. i \in 1 .. Len(f[a]) /\ p[a] + i = i /\ i <= Len(st)
      BY <1>1, <1>3
    <3>2. st[i] = f[a][i]
      BY <1>2, <1>3, <3>1 DEF LaidOut
    <3> QED BY <1>1, <3>2
  <2>2. f[a] \in Seq(S)
    BY <1>3 DEF Frames
  <2> QED BY <2>1, <2>2, SameElements
<1>5. ASSUME NEW k \in a + 1 .. b + 1
      PROVE  p[k] \in Nat /\ p[k] >= Len(s) /\ q[k] = p[k] - Len(s)
  <2>1. k \in a .. b + 1 /\ a + 1 \in a .. b + 1 /\ a + 1 <= k
    OBVIOUS
  <2>2. p[k] \in Nat /\ p[a + 1] <= p[k]
    BY <1>2, <2>1 DEF LaidOut, Positions
  <2> QED BY <1>1, <1>3, <2>2
<1>6. q \in [a + 1 .. b + 1 -> Nat]
  BY <1>1, <1>5
<1> HIDE DEF q
<1>7. q[a + 1] = 0
  <2>1. a + 1 \in a + 1 .. b + 1
    OBVIOUS
  <2> QED BY <1>1, <1>3, <1>5, <2>1
<1>8. ASSUME NEW k \in a + 1 .. b
      PROVE  /\ q[k + 1] = q[k] + Len(f[k])
             /\ \A i \in 1 .. Len(f[k]) : q[k] + i <= Len(t) => t[q[k] + i] = f[k][i]
  <2>1. k \in a .. b /\ k \in a + 1 .. b + 1 /\ k + 1 \in a + 1 .. b + 1
    OBVIOUS
  <2>2. p[k] \in Nat /\ p[k + 1] \in Nat /\ Len(f[k]) \in Nat /\ p[k + 1] = p[k] + Len(f[k])
    BY <1>2, <2>1, PositionTypes DEF LaidOut
  <2>3. p[k] >= Len(s) /\ q[k] = p[k] - Len(s) /\ q[k + 1] = p[k + 1] - Len(s)
    BY <1>5, <2>1
  <2>4. ASSUME NEW i \in 1 .. Len(f[k]), q[k] + i <= Len(t) PROVE t[q[k] + i] = f[k][i]
    <3>1. q[k] + i \in 1 .. Len(t) /\ p[k] + i = Len(s) + (q[k] + i) /\ p[k] + i <= Len(st)
      <4>1. /\ Len(st) = Len(s) + Len(t) /\ Len(s) \in Nat /\ Len(t) \in Nat
            /\ p[k] \in Nat /\ q[k] = p[k] - Len(s) /\ p[k] >= Len(s)
            /\ i \in Nat /\ i >= 1 /\ q[k] + i <= Len(t)
        BY <1>1, <2>2, <2>3, <2>4
      <4>2. q[k] + i >= 1 /\ q[k] + i \in Int
        BY <4>1
      <4> QED BY <4>1, <4>2
    <3>2. st[p[k] + i] = f[k][i]
      BY <1>2, <2>1, <3>1 DEF LaidOut
    <3> QED BY <1>1, <3>1, <3>2
  <2> QED BY <1>1, <2>2, <2>3, <2>4
<1>9. ASSUME NEW j \in a + 1 .. b + 1, NEW k \in a + 1 .. b + 1, j <= k PROVE q[j] <= q[k]
  <2>1. p[j] <= p[k]
    <3>1. j \in a .. b + 1 /\ k \in a .. b + 1
      OBVIOUS
    <3> QED BY <1>2, <1>9, <3>1 DEF LaidOut, Positions
  <2>2. /\ p[j] \in Nat /\ p[k] \in Nat /\ Len(s) \in Nat
        /\ q[j] = p[j] - Len(s) /\ q[k] = p[k] - Len(s)
    BY <1>1, <1>5
  <2> QED BY <2>1, <2>2
<1>10. LaidOut(t, f, a + 1, b, q)
  BY <1>6, <1>7, <1>8, <1>9 DEF LaidOut, Positions
<1>11. p[b + 1] = Len(s) + q[b + 1]
  <2>1. b + 1 \in a + 1 .. b + 1
    OBVIOUS
  <2> QED BY <1>1, <1>5, <2>1
<1> QED BY <1>4, <1>10, <1>11

\* The first element of the stream is the first of the first frame.
LEMMA FirstOfFirstFrame ==
  ASSUME NEW S, NEW s \in Seq(S), NEW f, NEW a \in Nat, NEW b \in Nat,
         Frames(S, f, a, b), a <= b, NEW p, LaidOut(s, f, a, b, p), s # <<>>, f[a] # <<>>
  PROVE  s[1] = f[a][1]
<1>1. a \in a .. b /\ f[a] \in Seq(S)
  BY DEF Frames
<1>2. p[a] = 0
  BY DEF LaidOut, Positions
<1>3. Len(f[a]) >= 1 /\ Len(s) >= 1 /\ Len(f[a]) \in Nat /\ Len(s) \in Nat
  BY <1>1
<1>4. 1 \in 1 .. Len(f[a]) /\ p[a] + 1 = 1
  BY <1>2, <1>3
<1> QED BY <1>1, <1>3, <1>4 DEF LaidOut

\* A function on 1 .. n + 1 is its restriction to 1 .. n and one element more.
LEMMA OneMore ==
  ASSUME NEW n \in Nat, NEW q, NEW r,
         q = [k \in 1 .. n |-> q[k]], r = [k \in 1 .. n + 1 |-> r[k]],
         \A k \in 1 .. n : q[k] = r[k]
  PROVE  Len(q) = n /\ Len(r) = n + 1 /\ r = Append(q, r[n + 1])
<1> DEFINE S == {r[k] : k \in 1 .. n + 1}
<1>1. \A k \in 1 .. n + 1 : r[k] \in S
  OBVIOUS
<1>2. \A k \in 1 .. n : q[k] \in S
  <2>1. \A k \in 1 .. n : k \in 1 .. n + 1
    OBVIOUS
  <2> QED BY <1>1, <2>1
<1>3. DOMAIN q = 1 .. n /\ DOMAIN r = 1 .. n + 1 /\ n + 1 \in Nat
  OBVIOUS
<1> HIDE DEF S
<1>4. q \in [1 .. n -> S] /\ r \in [1 .. n + 1 -> S]
  BY <1>1, <1>2
<1>5. q \in Seq(S) /\ r \in Seq(S)
  BY <1>3, <1>4
<1>6. Len(q) = n /\ Len(r) = n + 1
  BY <1>3, <1>5
<1>7. r[n + 1] \in S
  BY <1>1
<1>8. Append(q, r[n + 1]) \in Seq(S) /\ Len(Append(q, r[n + 1])) = n + 1
  BY <1>5, <1>6, <1>7
<1>9. \A k \in 1 .. n + 1 : Append(q, r[n + 1])[k] = r[k]
  BY <1>5, <1>6, <1>7
<1> QED BY <1>5, <1>6, <1>8, <1>9, SameElements

\* A set of numbers has a least one.
LEMMA LeastNatural ==
  ASSUME NEW T, T \subseteq Nat, T # {}
  PROVE  \E x \in T : \A y \in T : x <= y
<1>1. PICK R : R = OpToRel(<, Nat)
  OBVIOUS
<1>2. IsWellFoundedOn(R, Nat)
  BY <1>1, NatLessThanWellFounded
<1>3. PICK x \in T : \A y \in T : ~ (<<y, x>> \in R)
  BY <1>2, WFMin
<1>4. \A y, z \in Nat : y < z => <<y, z>> \in R
  BY <1>1 DEF OpToRel
<1>5. ASSUME NEW y \in T PROVE x <= y
  <2>1. x \in Nat /\ y \in Nat
    OBVIOUS
  <2>2. ~(y < x)
    BY <1>3, <1>4, <2>1
  <2> QED BY <2>1, <2>2
<1> QED BY <1>5

\* Frames of at most m elements end within as many times m.
LEMMA FramesBounded ==
  ASSUME NEW S, NEW f, NEW a \in Nat, NEW b \in Nat, Frames(S, f, a, b), NEW p, Positions(f, a, b, p),
         NEW m \in Nat, \A k \in a .. b : Len(f[k]) <= m
  PROVE  p[b + 1] <= (b + 1 - a) * m
<1> DEFINE T == {k \in a .. b + 1 : ~(p[k] <= (k - a) * m)}
<1>1. b + 1 \in a .. b + 1
  BY DEF Frames
<1> SUFFICES ASSUME T # {} PROVE FALSE
  BY <1>1
<1>2. PICK k \in T : \A j \in T : k <= j
  <2>1. T \subseteq Nat
    OBVIOUS
  <2> HIDE DEF T
  <2> QED BY <2>1, LeastNatural
<1>3. k \in a .. b + 1 /\ ~(p[k] <= (k - a) * m)
  OBVIOUS
<1>4. k # a
  BY <1>3 DEF Positions
<1>5. PICK j \in a .. b : k = j + 1
  <2>1. k - 1 \in a .. b /\ k = (k - 1) + 1
    BY <1>3, <1>4
  <2> QED BY <2>1
<1>6. p[j] <= (j - a) * m
  <2>1. j \notin T /\ j \in a .. b + 1
    BY <1>2, <1>5
  <2> QED BY <2>1
<1>7. p[j] \in Nat /\ Len(f[j]) \in Nat /\ p[j + 1] = p[j] + Len(f[j]) /\ Len(f[j]) <= m
  <2>1. p[j] \in Nat /\ p[j + 1] \in Nat /\ Len(f[j]) \in Nat /\ p[j + 1] = p[j] + Len(f[j])
    BY PositionTypes
  <2> QED BY <2>1
<1>8. PICK x \in Int, y \in Int : x = (j - a) * m /\ y = (k - a) * m /\ y = x + m
  BY <1>5
<1>9. ~(p[j + 1] <= y) /\ p[j] <= x
  BY <1>3, <1>5, <1>6, <1>8
<1> QED BY <1>7, <1>8, <1>9

\* The first of some frames that are laid out ends where they all end, or before.
LEMMA FirstWithin ==
  ASSUME NEW S, NEW f, NEW a \in Nat, NEW b \in Nat, Frames(S, f, a, b), a <= b, f[a] # <<>>,
         NEW s, NEW p, LaidOut(s, f, a, b, p), Len(s) = p[b + 1]
  PROVE  Len(f[a]) <= Len(s) /\ Len(f[a]) >= 1
<1>1. a \in a .. b /\ a + 1 \in a .. b + 1 /\ b + 1 \in a .. b + 1 /\ a + 1 <= b + 1
  OBVIOUS
<1>2. p[a] = 0 /\ p[a + 1] = p[a] + Len(f[a]) /\ p[a + 1] <= p[b + 1]
  BY <1>1 DEF LaidOut, Positions
<1>3. f[a] \in Seq(S)
  BY <1>1 DEF Frames
<1>4. Len(f[a]) \in Nat /\ Len(f[a]) >= 1
  BY <1>3
<1> QED BY <1>2, <1>4
=============================================================================

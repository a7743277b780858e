-------------------------- MODULE RdpOrders_proofs --------------------------
(***************************************************************************)
(* Proofs about RdpOrders, for bytes of any width, drawings of any number  *)
(* of rectangles and any number of orders: the client paints what the      *)
(* server drew and remembers what it remembers.                            *)
(*                                                                         *)
(* What is on the wire is taken apart from the front: a flattened sequence *)
(* is its first part and the rest, and a reader that stands before a part  *)
(* stands, after reading it, before the rest, with the value that was      *)
(* written.  This is shown of a difference, of a rectangle, of a list, of  *)
(* a field, of all fields and of a whole order.  The invariant then says   *)
(* that the two sides agree, or that an order is on its way of which the   *)
(* client will make what the server means.                                 *)
(***************************************************************************)
EXTENDS RdpOrders, NaturalsInduction, WellFoundedInduction, SequenceTheorems, TLAPS

-----------------------------------------------------------------------------
(* Sequences of sequences.                                                 *)
\* A set of numbers that holds 0 and with each number the next holds all.
LEMMA SetInduction ==
  ASSUME NEW S, 0 \in S, \A n \in Nat : n \in S => n + 1 \in S
  PROVE  Nat \subseteq S
<1> SUFFICES ASSUME Nat \ S # {} PROVE FALSE
  OBVIOUS
<1>1. PICK m \in Nat \ S : \A k \in Nat \ S : <<k, m>> \notin OpToRel(<, Nat)
  BY WFMin, NatLessThanWellFounded, Zenon
<1>2. \A k \in Nat \ S : ~(k < m)
  BY <1>1 DEF OpToRel
<1>3. m # 0 /\ m - 1 \in S
  BY <1>2
<1> QED BY <1>3

\* g lists the values of flattening the first n parts, FlattenSeq's function.
Flattened(g, parts, n) == g = [i \in 1 .. n |-> IF i = 1 THEN parts[i] ELSE g[i - 1] \o parts[i]]

\* There is such a list for any number of parts.
LEMMA FlattenedExists ==
  ASSUME NEW parts
  PROVE  \A n \in Nat : \E g : Flattened(g, parts, n)
<1> DEFINE D == {n \in Nat : \E g : Flattened(g, parts, n)}
<1>1. 0 \in D
  <2>1. Flattened([i \in 1 .. 0 |-> 0], parts, 0)
    BY DEF Flattened
  <2> QED BY <2>1
<1>2. ASSUME NEW n \in Nat, n \in D PROVE n + 1 \in D
  <2>1. PICK g : Flattened(g, parts, n)
    BY <1>2
  <2> DEFINE more == [i \in 1 .. n + 1 |-> IF i <= n THEN g[i] ELSE IF i = 1 THEN parts[i] ELSE g[n] \o parts[i]]
  <2>2. \A i \in 1 .. n : g[i] = IF i = 1 THEN parts[i] ELSE g[i - 1] \o parts[i]
    BY <2>1 DEF Flattened
  <2>3. ASSUME NEW i \in 1 .. n + 1
        PROVE  more[i] = IF i = 1 THEN parts[i] ELSE more[i - 1] \o parts[i]
    <3>1. CASE i <= n
      <4>1. i \in 1 .. n /\ (i # 1 => i - 1 \in 1 .. n + 1 /\ i - 1 <= n)
        BY <3>1
      <4> QED BY <2>2, <4>1
    <3>2. CASE i = n + 1
      <4>1. i # 1 => i - 1 \in 1 .. n + 1 /\ i - 1 = n
        BY <3>2
      <4> QED BY <3>2, <4>1
    <3> QED BY <3>1, <3>2
  <2>4. more = [i \in 1 .. n + 1 |-> more[i]]
    OBVIOUS
  <2> HIDE DEF more
  <2>5. more = [i \in 1 .. n + 1 |-> IF i = 1 THEN parts[i] ELSE more[i - 1] \o parts[i]]
    BY <2>3, <2>4
  <2>6. Flattened(more, parts, n + 1)
    BY <2>5 DEF Flattened
  <2> QED BY <2>6
<1> HIDE DEF D
<1>3. Nat \subseteq D
  BY <1>1, <1>2, SetInduction
<1> QED BY <1>3 DEF D

\* Appending is associative.
LEMMA Assoc == \A S : \A a, b, c \in Seq(S) : (a \o b) \o c = a \o (b \o c)
  BY ConcatAssociative

\* What is left of a flattened sequence from each part on: the part, and what
\* is left from the next one on; `whole` is what is left from the first on.
FromPart(from, parts, n, S, whole) ==
    /\ from \in [1 .. n + 1 -> Seq(S)] /\ from[n + 1] = <<>> /\ whole = from[1]
    /\ \A i \in 1 .. n : from[i] = parts[i] \o from[i + 1]

\* One part more to flatten.
LEMMA OnePartMore ==
  ASSUME NEW S, NEW k \in Nat \ {0}, NEW parts, NEW whole, NEW old, FromPart(old, parts, k, S, whole),
         \A i \in 1 .. k + 1 : parts[i] \in Seq(S)
  PROVE  \E from : FromPart(from, parts, k + 1, S, whole \o parts[k + 1])
<1>1. PICK last \in Seq(S) : last = parts[k + 1] /\ <<>> \o last = last /\ last \o <<>> = last
  <2>1. k + 1 \in 1 .. k + 1
    OBVIOUS
  <2>2. parts[k + 1] \in Seq(S)
    BY <2>1
  <2> QED BY <2>2
<1> DEFINE from == [i \in 1 .. k + 2 |-> IF i <= k + 1 THEN old[i] \o last ELSE <<>>]
<1>2. /\ \A i \in 1 .. k + 1 : old[i] \in Seq(S)
      /\ old[k + 1] = <<>> /\ whole = old[1] /\ \A i \in 1 .. k : old[i] = parts[i] \o old[i + 1]
  BY DEF FromPart
<1>3. ASSUME NEW i \in 1 .. k + 1 PROVE old[i] \o last \in Seq(S) /\ from[i] = old[i] \o last
  <2>1. old[i] \in Seq(S)
    BY <1>2
  <2>2. old[i] \o last \in Seq(S)
    BY <2>1, ConcatProperties
  <2>3. i \in 1 .. k + 2 /\ i <= k + 1
    OBVIOUS
  <2> QED BY <2>2, <2>3
<1>4. from[k + 2] = <<>> /\ (k + 1) + 1 = k + 2
  OBVIOUS
<1>5. from \in [1 .. k + 2 -> Seq(S)]
  <2>1. ASSUME NEW i \in 1 .. k + 2 PROVE from[i] \in Seq(S)
    <3>1. CASE i \in 1 .. k + 1
      BY <1>3, <3>1
    <3>2. CASE i = k + 2
      BY <1>4, <3>2
    <3> QED BY <3>1, <3>2
  <2> QED BY <2>1
<1>6. ASSUME NEW i \in 1 .. k + 1 PROVE from[i] = parts[i] \o from[i + 1]
  <2>1. CASE i = k + 1
    BY <1>1, <1>2, <1>3, <1>4, <2>1
  <2>2. CASE i # k + 1
    <3>1. i \in 1 .. k /\ i + 1 \in 1 .. k + 1
      BY <2>2
    <3>2. parts[i] \in Seq(S) /\ old[i + 1] \in Seq(S) /\ old[i] = parts[i] \o old[i + 1]
      BY <1>2, <3>1
    <3>3. (parts[i] \o old[i + 1]) \o last = parts[i] \o (old[i + 1] \o last)
      <4>1. PICK a \in Seq(S), b \in Seq(S) : a = parts[i] /\ b = old[i + 1]
        BY <3>2
      <4>2. (a \o b) \o last = a \o (b \o last)
        <5>1. a \in Seq(S) /\ b \in Seq(S) /\ last \in Seq(S)
          BY <1>1, <4>1
        <5> QED BY <5>1, Assoc
      <4> QED BY <4>1, <4>2
    <3>4. from[i] = old[i] \o last /\ from[i + 1] = old[i + 1] \o last
      BY <1>3, <3>1
    <3> QED BY <3>2, <3>3, <3>4
  <2> QED BY <2>1, <2>2
<1>7. whole \o last = from[1]
  <2>1. 1 \in 1 .. k + 1
    OBVIOUS
  <2> QED BY <1>2, <1>3, <2>1
<1> HIDE DEF from
<1>8. FromPart(from, parts, k + 1, S, whole \o last)
  BY <1>4, <1>5, <1>6, <1>7 DEF FromPart
<1> QED BY <1>1, <1>8

\* A flattened sequence is its first part and what is left, and so on.
LEMMA FlattenSplits ==
  ASSUME NEW S, NEW parts \in Seq(Seq(S))
  PROVE  \E from : FromPart(from, parts, Len(parts), S, FlattenSeq(parts))
<1>0. PICK n \in Nat : n = Len(parts) /\ \A i \in 1 .. n : parts[i] \in Seq(S)
  OBVIOUS
<1>1. CASE n = 0
  <2>1. FlattenSeq(parts) = parts /\ parts = <<>>
    <3>1. parts = <<>>
      BY <1>0, <1>1, EmptySeq
    <3> QED BY <1>0, <1>1, <3>1 DEF FlattenSeq
  <2>2. <<>> \in Seq(S)
    OBVIOUS
  <2>3. FromPart([i \in 1 .. 1 |-> <<>>], parts, 0, S, <<>>)
    BY <1>1, <2>2 DEF FromPart
  <2> QED BY <1>0, <1>1, <2>1, <2>3
<1>2. CASE n # 0
  <2> DEFINE g == CHOOSE f : Flattened(f, parts, n)
  <2>1. Flattened(g, parts, n)
    BY <1>0, FlattenedExists, Zenon
  <2>2. FlattenSeq(parts) = g[n]
    BY <1>0, <1>2 DEF FlattenSeq, Flattened
  <2> HIDE DEF g
  <2>3. \A i \in 1 .. n : g[i] = IF i = 1 THEN parts[i] ELSE g[i - 1] \o parts[i]
    BY <2>1 DEF Flattened
  <2> DEFINE T == {k \in Nat : k = 0 \/ k > n \/ \E from : FromPart(from, parts, k, S, g[k])}
  <2>4. 0 \in T
    OBVIOUS
  <2>5. ASSUME NEW k \in Nat, k \in T PROVE k + 1 \in T
    <3>1. CASE k = 0
      <4> DEFINE from == [i \in 1 .. 2 |-> IF i = 1 THEN parts[1] ELSE <<>>]
      <4>1. parts[1] \in Seq(S) /\ <<>> \in Seq(S) /\ parts[1] \o <<>> = parts[1] /\ g[1] = parts[1]
        BY <1>0, <1>2, <2>3
      <4>2. from[1] = parts[1] /\ from[2] = <<>> /\ from \in [1 .. 2 -> Seq(S)]
        BY <4>1
      <4> HIDE DEF from
      <4>3. FromPart(from, parts, 1, S, g[1])
        BY <4>1, <4>2 DEF FromPart
      <4> QED BY <3>1, <4>3
    <3>2. CASE k > 0 /\ k + 1 <= n
      <4>1. PICK old : FromPart(old, parts, k, S, g[k])
        BY <2>5, <3>2
      <4>2. k + 1 \in 1 .. n /\ k + 1 # 1 /\ (k + 1) - 1 = k
        BY <1>0, <3>2
      <4>3. g[k + 1] = g[k] \o parts[k + 1]
        BY <2>3, <4>2
      <4>4. \A i \in 1 .. k + 1 : parts[i] \in Seq(S)
        BY <1>0, <3>2
      <4>5. \E from : FromPart(from, parts, k + 1, S, g[k] \o parts[k + 1])
        BY <3>2, <4>1, <4>4, OnePartMore
      <4>6. \E from : FromPart(from, parts, k + 1, S, g[k + 1])
        BY <4>3, <4>5, Zenon
      <4> QED BY <4>6
    <3>3. CASE k + 1 > n
      BY <3>3
    <3> QED BY <1>0, <3>1, <3>2, <3>3
  <2> HIDE DEF T
  <2>6. Nat \subseteq T
    BY <2>4, <2>5, SetInduction
  <2>7. \E from : FromPart(from, parts, n, S, g[n])
    BY <1>0, <1>2, <2>6 DEF T
  <2> QED BY <1>0, <2>2, <2>7
<1> QED BY <1>1, <1>2

-----------------------------------------------------------------------------
(* What is on the wire, and how the client reads one field.                *)
Sides == {"left", "top", "width", "height"}
Controls == {"standard", "typeChange", "delta", "bounds", "zeroBounds", "bit0", "bit1"}
BoundsGiven == {"left", "top", "right", "bottom"} \X {"abs", "delta"}
Vals == UNION {Int, Types, SUBSET Nat, SUBSET Controls, SUBSET BoundsGiven, (SUBSET Sides) \X (SUBSET Sides)}
Tokens == [size : {1, 2}, val : Vals]

\* The reader in the middle of an order it has understood so far.
Reading(buf, val, fields) == [buf |-> buf, val |-> val, fields |-> fields, err |-> "nil"]

\* One item ahead of a sequence.
LEMMA Ahead ==
  ASSUME NEW S, NEW a \in S, NEW rest \in Seq(S)
  PROVE  /\ <<a>> \o rest \in Seq(S) /\ <<a>> \o rest # <<>>
         /\ Head(<<a>> \o rest) = a /\ Tail(<<a>> \o rest) = rest
  OBVIOUS

\* A reader is its four parts.
LEMMA Rebuilt ==
  ASSUME NEW q, NEW buf, NEW val, NEW fields,
         DOMAIN q = {"buf", "val", "fields", "err"}, q = [x \in DOMAIN q |-> q[x]],
         q.buf = buf, q.val = val, q.fields = fields, q.err = "nil"
  PROVE  q = Reading(buf, val, fields)
<1>1. q = [buf |-> buf, val |-> val, fields |-> fields, err |-> "nil"]
  OBVIOUS
<1> QED BY <1>1 DEF Reading

\* What becomes of a reader when a value, or a field, is set.
LEMMA Found ==
  ASSUME NEW buf, NEW x, NEW F, NEW v, NEW r, r = Reading(buf, x, F)
  PROVE  [r EXCEPT !.val = v] = Reading(buf, v, F)
<1>1. /\ DOMAIN r = {"buf", "val", "fields", "err"} /\ r = [y \in DOMAIN r |-> r[y]]
      /\ r.buf = buf /\ r.val = x /\ r.fields = F /\ r.err = "nil"
  BY DEF Reading
<1>2. PICK q : q = [r EXCEPT !.val = v]
  OBVIOUS
<1>4. /\ DOMAIN q = {"buf", "val", "fields", "err"} /\ q = [y \in DOMAIN q |-> q[y]]
      /\ q.buf = buf /\ q.val = v /\ q.fields = F /\ q.err = "nil"
  BY <1>1, <1>2
<1>5. q = Reading(buf, v, F)
  BY <1>4, Rebuilt
<1> QED BY <1>2, <1>5

\* A function, and a reader, with another value of field f.
Put(F, f, v) == [F EXCEPT ![f] = v]
With(r, f, v) == [r EXCEPT !.fields[f] = v]
LEMMA Kept ==
  ASSUME NEW buf, NEW x, NEW F, NEW f, NEW v, NEW r, r = Reading(buf, x, F)
  PROVE  With(r, f, v) = Reading(buf, x, Put(F, f, v))
<1>1. /\ DOMAIN r = {"buf", "val", "fields", "err"} /\ r = [y \in DOMAIN r |-> r[y]]
      /\ r.buf = buf /\ r.val = x /\ r.fields = F /\ r.err = "nil"
  BY DEF Reading
<1>2. PICK q : q = [r EXCEPT !.fields[f] = v]
  OBVIOUS
<1>3. PICK G : G = [F EXCEPT ![f] = v]
  OBVIOUS
<1>4. /\ DOMAIN q = {"buf", "val", "fields", "err"} /\ q = [y \in DOMAIN q |-> q[y]]
      /\ q.buf = buf /\ q.val = x /\ q.fields = G /\ q.err = "nil"
  BY <1>1, <1>2, <1>3
<1>5. q = Reading(buf, x, G)
  BY <1>4, Rebuilt
<1> QED BY <1>2, <1>3, <1>5 DEF With, Put

\* The parts of a reader that has understood everything so far.
LEMMA ReadingIs == \A buf, val, fields :
    /\ Reading(buf, val, fields).buf = buf /\ Reading(buf, val, fields).val = val
    /\ Reading(buf, val, fields).fields = fields /\ Reading(buf, val, fields).err = "nil"
  BY DEF Reading

\* The sides of a rectangle.
LEMMA BoxSides == ToSet(Box) = Sides /\ DOMAIN Box = 1 .. 4 /\ Len(Box) = 4
                  /\ Box[1] = "left" /\ Box[2] = "top" /\ Box[3] = "width" /\ Box[4] = "height"
  BY DEF Box, ToSet, Sides

\* A field is read as it was written.
LEMMA TakeFrom ==
  ASSUME NEW buf, buf # <<>>, NEW x, NEW F
  PROVE  Take(Reading(buf, x, F), Head(buf).size) = Reading(Tail(buf), Head(buf).val, F)
<1>1. PICK r : r = Reading(buf, x, F)
  OBVIOUS
<1>2. r.err = "nil" /\ r.buf = buf
  BY <1>1 DEF Reading
<1>3. PICK v, rest : v = Head(buf).val /\ rest = Tail(buf)
  OBVIOUS
<1>4. Take(r, Head(buf).size) = [r EXCEPT !.buf = rest, !.val = v]
  BY <1>2, <1>3 DEF Take
<1>5. PICK q : q = [r EXCEPT !.buf = rest, !.val = v]
  OBVIOUS
<1>6. /\ DOMAIN q = {"buf", "val", "fields", "err"} /\ q = [y \in DOMAIN q |-> q[y]]
      /\ q.buf = rest /\ q.val = v /\ q.fields = F /\ q.err = "nil"
  <2>1. DOMAIN r = {"buf", "val", "fields", "err"} /\ r.fields = F /\ r.err = "nil"
    BY <1>1 DEF Reading
  <2> QED BY <1>5, <2>1
<1>7. q = Reading(rest, v, F)
  BY <1>6, Rebuilt
<1> QED BY <1>1, <1>3, <1>4, <1>5, <1>7

\* A field on the wire is read as it was written.
LEMMA TakeIs ==
  ASSUME NEW size \in {1, 2}, NEW v \in Vals, NEW rest \in Seq(Tokens), NEW x, NEW F
  PROVE  Take(Reading(<<Token(size, v)>> \o rest, x, F), size) = Reading(rest, v, F)
<1>1. Token(size, v) \in Tokens /\ Token(size, v).size = size /\ Token(size, v).val = v
  BY DEF Token, Tokens
<1>2. PICK a \in Tokens : a = Token(size, v) /\ a.size = size /\ a.val = v
  BY <1>1
<1>3. PICK buf : buf = <<a>> \o rest /\ buf # <<>> /\ Head(buf) = a /\ Tail(buf) = rest
  BY <1>2, Ahead
<1>4. Take(Reading(buf, x, F), size) = Reading(rest, v, F)
  BY <1>2, <1>3, TakeFrom
<1> QED BY <1>2, <1>3, <1>4

\* A number of a byte or two, taken as signed.
LEMMA SignedIs ==
  /\ \A v \in -(Byte \div 2) .. (Byte \div 2) - 1 : Signed(v % Byte, Byte) = v /\ v % Byte \in Int
  /\ \A v \in Int16 : Signed(v % (Byte * Byte), Byte * Byte) = v /\ v % (Byte * Byte) \in Int
<1>1. CASE Byte = 8
  BY <1>1 DEF Signed, Int16
<1>2. CASE Byte = 16
  BY <1>2 DEF Signed, Int16
<1>3. CASE Byte = 32
  BY <1>3 DEF Signed, Int16
<1>4. CASE Byte = 64
  BY <1>4 DEF Signed, Int16
<1>5. CASE Byte = 128
  BY <1>5 DEF Signed, Int16
<1>6. CASE Byte = 256
  BY <1>6 DEF Signed, Int16
<1> QED BY <1>1, <1>2, <1>3, <1>4, <1>5, <1>6, OrdersAssumption

\* Differences that two bytes can hold.
Deltas == -((Byte * Byte) \div 4) .. ((Byte * Byte) \div 4) - 1
SixBits(b) == IF (b \div (Byte \div 4)) % 2 = 1 THEN (b % (Byte \div 4)) - (Byte \div 4) ELSE b % (Byte \div 4)
ShortDelta(v) == v \in -(Byte \div 4) .. (Byte \div 4) - 1
High(v) == (Byte \div 2) + ((v \div Byte) % (Byte \div 2))

\* Of a byte of n values, d have its highest bit clear, and c of these the
\* next one: its signed numbers without the highest bit, the bits above and below,
\* and the two bytes of a number.
SignedBits(c, d) == \A h \in -c .. c - 1 : h % d = IF h < 0 THEN h + d ELSE h
LowerBits(c, d) == \A m \in 0 .. d - 1 :
    m % c = (IF m >= c THEN m - c ELSE m) /\ m \div c = IF m >= c THEN 1 ELSE 0
UpperBits(c, d) == \A m \in 0 .. d - 1 :
    (d + m) % c = (IF m >= c THEN m - c ELSE m) /\ (d + m) \div c = IF m >= c THEN 3 ELSE 2
TwoBytes(c, n, k) == \A v \in -k .. k - 1 :
    v \div n \in -c .. c - 1 /\ v % n \in Int /\ (v \div n) * n + (v % n) = v
BitsOfByte(c, d, n, k) == SignedBits(c, d) /\ LowerBits(c, d) /\ UpperBits(c, d) /\ TwoBytes(c, n, k)

\* A number of so many bits is told from its remainder and its sign bit.
LEMMA SignedBitsAre ==
  /\ SignedBits(2, 4)
  /\ SignedBits(4, 8)
  /\ SignedBits(8, 16)
  /\ SignedBits(16, 32)
  /\ SignedBits(32, 64)
  /\ SignedBits(64, 128)
<1>1. SignedBits(2, 4)
  BY DEF SignedBits
<1>2. SignedBits(4, 8)
  BY DEF SignedBits
<1>3. SignedBits(8, 16)
  BY DEF SignedBits
<1>4. SignedBits(16, 32)
  BY DEF SignedBits
<1>5. SignedBits(32, 64)
  BY DEF SignedBits
<1>6. SignedBits(64, 128)
  BY DEF SignedBits
<1> QED BY <1>1, <1>2, <1>3, <1>4, <1>5, <1>6

\* The six bits of a small difference and its sign.
LEMMA LowerBitsAre ==
  /\ LowerBits(2, 4)
  /\ LowerBits(4, 8)
  /\ LowerBits(8, 16)
  /\ LowerBits(16, 32)
  /\ LowerBits(32, 64)
  /\ LowerBits(64, 128)
<1>1. LowerBits(2, 4)
  BY DEF LowerBits
<1>2. LowerBits(4, 8)
  BY DEF LowerBits
<1>3. LowerBits(8, 16)
  BY DEF LowerBits
<1>4. LowerBits(16, 32)
  BY DEF LowerBits
<1>5. LowerBits(32, 64)
  BY DEF LowerBits
<1>6. LowerBits(64, 128)
  BY DEF LowerBits
<1> QED BY <1>1, <1>2, <1>3, <1>4, <1>5, <1>6

\* The six bits of a large one and its sign.
LEMMA UpperBitsAre ==
  /\ UpperBits(2, 4)
  /\ UpperBits(4, 8)
  /\ UpperBits(8, 16)
  /\ UpperBits(16, 32)
  /\ UpperBits(32, 64)
  /\ UpperBits(64, 128)
<1>1. UpperBits(2, 4)
  BY DEF UpperBits
<1>2. UpperBits(4, 8)
  BY DEF UpperBits
<1>3. UpperBits(8, 16)
  BY DEF UpperBits
<1>4. UpperBits(16, 32)
  BY DEF UpperBits
<1>5. UpperBits(32, 64)
  BY DEF UpperBits
<1>6. UpperBits(64, 128)
  BY DEF UpperBits
<1> QED BY <1>1, <1>2, <1>3, <1>4, <1>5, <1>6

\* A difference is its upper bits and its lower byte.
LEMMA TwoBytesAre ==
  /\ TwoBytes(2, 8, 16)
  /\ TwoBytes(4, 16, 64)
  /\ TwoBytes(8, 32, 256)
  /\ TwoBytes(16, 64, 1024)
  /\ TwoBytes(32, 128, 4096)
  /\ TwoBytes(64, 256, 16384)
<1>1. TwoBytes(2, 8, 16)
  BY DEF TwoBytes
<1>2. TwoBytes(4, 16, 64)
  BY DEF TwoBytes
<1>3. TwoBytes(8, 32, 256)
  BY DEF TwoBytes
<1>4. TwoBytes(16, 64, 1024)
  BY DEF TwoBytes
<1>5. TwoBytes(32, 128, 4096)
  BY DEF TwoBytes
<1>6. TwoBytes(64, 256, 16384)
  BY DEF TwoBytes
<1> QED BY <1>1, <1>2, <1>3, <1>4, <1>5, <1>6

\* All this for the bytes of the module.
LEMMA ByteBitsKnown ==
  \E c, d, k \in Nat \ {0} : /\ BitsOfByte(c, d, Byte, k) /\ d = c + c /\ Byte \div 2 = d /\ Byte \div 4 = c
                             /\ (Byte * Byte) \div 4 = k
<1>1. CASE Byte = 8
  <2>1. BitsOfByte(2, 4, 8, 16)
    BY SignedBitsAre, LowerBitsAre, UpperBitsAre, TwoBytesAre DEF BitsOfByte
  <2> QED BY <1>1, <2>1
<1>2. CASE Byte = 16
  <2>1. BitsOfByte(4, 8, 16, 64)
    BY SignedBitsAre, LowerBitsAre, UpperBitsAre, TwoBytesAre DEF BitsOfByte
  <2> QED BY <1>2, <2>1
<1>3. CASE Byte = 32
  <2>1. BitsOfByte(8, 16, 32, 256)
    BY SignedBitsAre, LowerBitsAre, UpperBitsAre, TwoBytesAre DEF BitsOfByte
  <2> QED BY <1>3, <2>1
<1>4. CASE Byte = 64
  <2>1. BitsOfByte(16, 32, 64, 1024)
    BY SignedBitsAre, LowerBitsAre, UpperBitsAre, TwoBytesAre DEF BitsOfByte
  <2> QED BY <1>4, <2>1
<1>5. CASE Byte = 128
  <2>1. BitsOfByte(32, 64, 128, 4096)
    BY SignedBitsAre, LowerBitsAre, UpperBitsAre, TwoBytesAre DEF BitsOfByte
  <2> QED BY <1>5, <2>1
<1>6. CASE Byte = 256
  <2>1. BitsOfByte(64, 128, 256, 16384)
    BY SignedBitsAre, LowerBitsAre, UpperBitsAre, TwoBytesAre DEF BitsOfByte
  <2> QED BY <1>6, <2>1
<1> QED BY <1>1, <1>2, <1>3, <1>4, <1>5, <1>6, OrdersAssumption

\* A difference is told from the bytes it is written in.
LEMMA DeltaSpelled ==
  /\ \A v \in Int : ShortDelta(v) => /\ SixBits(v % (Byte \div 2)) = v
                                /\ v % (Byte \div 2) \in Int /\ v % (Byte \div 2) < Byte \div 2
  /\ \A v \in Deltas : /\ SixBits(High(v)) * Byte + (v % Byte) = v /\ v \in Int
                       /\ High(v) \in Int /\ v % Byte \in Int /\ ~(High(v) < Byte \div 2)
<1>1. PICK c, d, k \in Nat \ {0} : /\ BitsOfByte(c, d, Byte, k) /\ d = c + c /\ Byte \div 2 = d /\ Byte \div 4 = c
                                   /\ (Byte * Byte) \div 4 = k
  BY ByteBitsKnown
<1>2. ASSUME NEW h \in -c .. c - 1
      PROVE  /\ h % d \in 0 .. d - 1
             /\ SixBits(h % d) = h /\ SixBits(d + (h % d)) = h
  <2>1. PICK m : m = h % d /\ m = IF h < 0 THEN h + d ELSE h
    BY <1>1 DEF BitsOfByte, SignedBits, LowerBits, UpperBits, TwoBytes
  <2>2. m \in 0 .. d - 1 /\ h = IF m >= c THEN m - d ELSE m
    BY <1>1, <2>1
  <2>3. /\ m % c = IF m >= c THEN m - c ELSE m
        /\ m \div c = IF m >= c THEN 1 ELSE 0
        /\ (d + m) % c = IF m >= c THEN m - c ELSE m
        /\ (d + m) \div c = IF m >= c THEN 3 ELSE 2
    BY <1>1, <2>2 DEF BitsOfByte, SignedBits, LowerBits, UpperBits, TwoBytes
  <2>4. SixBits(m) = h
    BY <1>1, <2>2, <2>3 DEF SixBits
  <2>5. SixBits(d + m) = h
    BY <1>1, <2>2, <2>3 DEF SixBits
  <2> QED BY <2>1, <2>2, <2>4, <2>5
<1>3. ASSUME NEW v \in Int, ShortDelta(v)
      PROVE  /\ SixBits(v % (Byte \div 2)) = v
             /\ v % (Byte \div 2) \in Int /\ v % (Byte \div 2) < Byte \div 2
  BY <1>1, <1>2, <1>3 DEF ShortDelta
<1>4. ASSUME NEW v \in Deltas
      PROVE  /\ SixBits(High(v)) * Byte + (v % Byte) = v /\ v \in Int
             /\ High(v) \in Int /\ v % Byte \in Int /\ ~(High(v) < Byte \div 2)
  <2>1. v \in -k .. k - 1
    BY <1>1 DEF Deltas
  <2>2. PICK h \in -c .. c - 1 : h = v \div Byte /\ v % Byte \in Int /\ h * Byte + (v % Byte) = v
    BY <1>1, <2>1 DEF BitsOfByte, SignedBits, LowerBits, UpperBits, TwoBytes
  <2>3. High(v) = d + (h % d)
    BY <1>1, <2>2 DEF High
  <2>4. SixBits(High(v)) = h /\ High(v) \in Int /\ ~(High(v) < Byte \div 2)
    <3>1. PICK m \in 0 .. d - 1 : m = h % d
      BY <1>2
    <3>2. High(v) = d + m /\ SixBits(d + m) = h
      BY <1>2, <2>3, <3>1
    <3> QED BY <1>1, <3>2
  <2> QED BY <1>1, <2>1, <2>2, <2>4
<1> QED BY <1>3, <1>4

-----------------------------------------------------------------------------
(* Differences.                                                            *)
\* What is left of a flattened sequence, and of `rest` after it, from each part on.
Left(left, parts, n, S, whole, rest) ==
    /\ left \in [1 .. n + 1 -> Seq(S)] /\ left[n + 1] = rest /\ left[1] = whole \o rest
    /\ \A i \in 1 .. n : left[i] = parts[i] \o left[i + 1]

\* The same, with something after the parts.
LEMMA PartsLeft ==
  ASSUME NEW S, NEW parts \in Seq(Seq(S)), NEW rest \in Seq(S)
  PROVE  /\ FlattenSeq(parts) \in Seq(S)
         /\ \E left : Left(left, parts, Len(parts), S, FlattenSeq(parts), rest)
<1>1. PICK n \in Nat : n = Len(parts) /\ \A i \in 1 .. n : parts[i] \in Seq(S)
  OBVIOUS
<1>2. PICK whole : whole = FlattenSeq(parts)
  OBVIOUS
<1>3. PICK from : FromPart(from, parts, n, S, whole)
  BY <1>1, <1>2, FlattenSplits
<1>4. /\ from \in [1 .. n + 1 -> Seq(S)] /\ from[n + 1] = <<>> /\ whole = from[1]
      /\ \A i \in 1 .. n : from[i] = parts[i] \o from[i + 1]
  BY <1>3 DEF FromPart
<1> DEFINE left == [i \in 1 .. n + 1 |-> from[i] \o rest]
<1>5. \A i \in 1 .. n + 1 : from[i] \in Seq(S) /\ from[i] \o rest \in Seq(S)
  BY <1>4
<1>6. left \in [1 .. n + 1 -> Seq(S)]
  BY <1>5
<1>7. left[n + 1] = rest
  BY <1>1, <1>4
<1>8. whole \in Seq(S) /\ left[1] = whole \o rest
  <2>1. 1 \in 1 .. n + 1
    BY <1>1
  <2> QED BY <1>4, <1>5, <2>1
<1>9. ASSUME NEW i \in 1 .. n PROVE left[i] = parts[i] \o left[i + 1]
  <2>1. i \in 1 .. n + 1 /\ i + 1 \in 1 .. n + 1
    BY <1>1
  <2>2. PICK a \in Seq(S), b \in Seq(S) : a = parts[i] /\ b = from[i + 1]
    BY <1>1, <1>5, <2>1
  <2>3. (a \o b) \o rest = a \o (b \o rest)
    <3>1. a \in Seq(S) /\ b \in Seq(S) /\ rest \in Seq(S)
      BY <2>2
    <3> QED BY <3>1, Assoc
  <2> QED BY <1>4, <2>1, <2>2, <2>3
<1> HIDE DEF left
<1>10. Left(left, parts, n, S, whole, rest)
  BY <1>6, <1>7, <1>8, <1>9 DEF Left
<1> QED BY <1>1, <1>2, <1>8, <1>10

\* Two items ahead of a sequence.
LEMMA OneThenMore ==
  ASSUME NEW S, NEW a \in S, NEW b \in S, NEW rest \in Seq(S)
  PROVE  /\ <<a, b>> \in Seq(S) /\ <<b>> \o rest \in Seq(S)
         /\ <<a, b>> \o rest = <<a>> \o (<<b>> \o rest)
<1>0. <<a>> \in Seq(S) /\ <<b>> \in Seq(S)
  OBVIOUS
<1>1. PICK p, q : p = <<a>> /\ q = <<b>> /\ p \in Seq(S) /\ q \in Seq(S)
  BY <1>0
<1>2. p \o q = <<a, b>>
  <2>1. /\ <<a, b>> \in Seq(S) /\ Len(<<a, b>>) = 2 /\ Len(p) = 1 /\ Len(q) = 1
        /\ <<a, b>>[1] = p[1] /\ <<a, b>>[2] = q[1]
    BY <1>1
  <2>2. /\ p \o q \in Seq(S) /\ Len(p \o q) = 2
        /\ \A i \in 1 .. 2 : (p \o q)[i] = IF i <= 1 THEN p[i] ELSE q[i - 1]
    BY <1>1, <2>1, ConcatProperties
  <2>3. \A i \in 1 .. 2 : (p \o q)[i] = <<a, b>>[i]
    BY <2>1, <2>2
  <2> QED BY <2>1, <2>2, <2>3, SeqEqual
<1>3. (p \o q) \o rest = p \o (q \o rest)
  <2>1. p \in Seq(S) /\ q \in Seq(S) /\ rest \in Seq(S)
    BY <1>1
  <2> QED BY <2>1, Assoc
<1>4. q \o rest \in Seq(S)
  BY <1>1, ConcatProperties
<1>5. <<a, b>> \in Seq(S)
  OBVIOUS
<1> QED BY <1>1, <1>2, <1>3, <1>4, <1>5

\* A difference is read as it was written (ReadOrderDelta).
LEMMA DeltaRead ==
  ASSUME NEW v \in Deltas, NEW rest \in Seq(Tokens), NEW x, NEW F
  PROVE  /\ WriteDelta(v) \in Seq(Tokens)
         /\ ReadOrderDelta(Reading(WriteDelta(v) \o rest, x, F)) = Reading(rest, v, F)
<1>1. CASE ShortDelta(v)
  <2>1. PICK m \in Int : m = v % (Byte \div 2) /\ SixBits(m) = v /\ m < Byte \div 2
    <3>1. v \in Int
      BY DeltaSpelled
    <3> QED BY <1>1, <3>1, DeltaSpelled
  <2>2. WriteDelta(v) = <<Token(1, m)>>
    BY <1>1, <2>1 DEF WriteDelta, ShortDelta
  <2>3. PICK r : r = Reading(<<Token(1, m)>> \o rest, x, F)
    OBVIOUS
  <2>4. m \in Vals
    BY DEF Vals
  <2>5. Take(r, 1) = Reading(rest, m, F)
    BY <2>3, <2>4, TakeIs
  <2>6. PICK q : q = Reading(rest, m, F)
    OBVIOUS
  <2>7. q.err = "nil" /\ q.val = m
    BY <2>6, ReadingIs
  <2>8. ReadOrderDelta(r) = [q EXCEPT !.val = v]
    BY <2>1, <2>5, <2>6, <2>7 DEF ReadOrderDelta, SixBits
  <2>9. [q EXCEPT !.val = v] = Reading(rest, v, F)
    BY <2>6, Found
  <2>10. Token(1, m) \in Tokens
    BY <2>4 DEF Token, Tokens
  <2>11. WriteDelta(v) \in Seq(Tokens)
    BY <2>2, <2>10
  <2> QED BY <2>2, <2>3, <2>8, <2>9, <2>11
<1>2. CASE ~ShortDelta(v)
  <2>1. PICK h \in Int, l \in Int : h = High(v) /\ l = v % Byte /\ SixBits(h) * Byte + l = v /\ ~(h < Byte \div 2)
    BY DeltaSpelled
  <2>2. WriteDelta(v) = <<Token(1, h), Token(1, l)>>
    BY <1>2, <2>1 DEF WriteDelta, ShortDelta, High
  <2>3. h \in Vals /\ l \in Vals
    BY DEF Vals
  <2>4. Token(1, h) \in Tokens /\ Token(1, l) \in Tokens
    BY <2>3 DEF Token, Tokens
  <2>5. PICK more \in Seq(Tokens) : more = <<Token(1, l)>> \o rest
    BY <2>4, Ahead
  <2>6. WriteDelta(v) \in Seq(Tokens) /\ WriteDelta(v) \o rest = <<Token(1, h)>> \o more
    BY <2>2, <2>4, <2>5, OneThenMore
  <2>7. PICK r : r = Reading(<<Token(1, h)>> \o more, x, F)
    OBVIOUS
  <2>8. PICK q : q = Reading(more, h, F)
    OBVIOUS
  <2>9. Take(r, 1) = q
    BY <2>3, <2>7, <2>8, TakeIs
  <2>10. PICK q2 : q2 = Reading(rest, l, F)
    OBVIOUS
  <2>11. Take(q, 1) = q2
    BY <2>3, <2>5, <2>8, <2>10, TakeIs
  <2>12. q.err = "nil" /\ q.val = h /\ q2.err = "nil" /\ q2.val = l
    BY <2>8, <2>10, ReadingIs
  <2>13. ReadOrderDelta(r) = [q2 EXCEPT !.val = SixBits(h) * Byte + l]
    BY <2>1, <2>9, <2>11, <2>12 DEF ReadOrderDelta, SixBits
  <2>14. [q2 EXCEPT !.val = v] = Reading(rest, v, F)
    BY <2>10, Found
  <2> QED BY <2>1, <2>6, <2>7, <2>13, <2>14
<1> QED BY <1>1, <1>2

\* A rectangle being read.
Acc(q, R) == [r |-> q, rect |-> R]

\* A side of a rectangle: given as a difference, or as the rectangle before has it.
Side(f, omit, rel) == IF f \in omit THEN <<>> ELSE WriteDelta(rel)
LEMMA SideRead ==
  ASSUME NEW f \in Sides, NEW omit, NEW rel \in Deltas, NEW before, NEW want \in Int,
         NEW rest \in Seq(Tokens), NEW x, NEW F, NEW R, before[f] \in Int,
         want = IF f \in {"left", "top"} THEN before[f] + rel ELSE rel,
         f \in omit => want = before[f]
  PROVE  /\ Side(f, omit, rel) \in Seq(Tokens)
         /\ ReadSide(Acc(Reading(Side(f, omit, rel) \o rest, x, F), R), f, omit, before)
            = Acc(Reading(rest, rel, F), Put(R, f, want))
<1>1. CASE f \in omit
  <2>1. Side(f, omit, rel) = <<>> /\ <<>> \o rest = rest /\ <<>> \in Seq(Tokens)
    BY <1>1 DEF Side
  <2>2. PICK v : v = rel /\ v = IF f \in {"left", "top"} THEN 0 ELSE before[f]
    <3>1. rel = IF f \in {"left", "top"} THEN 0 ELSE before[f]
      <4>1. rel \in Int
        BY DeltaSpelled
      <4> QED BY <1>1, <4>1
    <3> QED BY <3>1
  <2>3. PICK r : r = Reading(rest, x, F)
    OBVIOUS
  <2>4. PICK q : q = [r EXCEPT !.val = v]
    OBVIOUS
  <2>5. q = Reading(rest, v, F)
    BY <2>3, <2>4, Found
  <2>6. q.val = v
    BY <2>5, ReadingIs
  <2>7. want = IF f \in {"left", "top"} THEN before[f] + v ELSE v
    BY <2>2
  <2>8. ReadSide(Acc(r, R), f, omit, before) = Acc(q, Put(R, f, want))
    BY <1>1, <2>2, <2>4, <2>6, <2>7 DEF ReadSide, Acc, Put
  <2> QED BY <2>1, <2>2, <2>3, <2>5, <2>8
<1>2. CASE f \notin omit
  <2>1. Side(f, omit, rel) = WriteDelta(rel) /\ WriteDelta(rel) \in Seq(Tokens)
    BY <1>2, DeltaRead DEF Side
  <2>2. PICK r : r = Reading(WriteDelta(rel) \o rest, x, F)
    OBVIOUS
  <2>3. PICK q : q = Reading(rest, rel, F)
    OBVIOUS
  <2>4. ReadOrderDelta(r) = q
    BY <2>2, <2>3, DeltaRead
  <2>5. q.val = rel
    BY <2>3, ReadingIs
  <2>6. ReadSide(Acc(r, R), f, omit, before) = Acc(q, Put(R, f, want))
    BY <1>2, <2>4, <2>5 DEF ReadSide, Acc, Put
  <2> QED BY <2>1, <2>2, <2>3, <2>6
<1> QED BY <1>1, <1>2

-----------------------------------------------------------------------------
(* A rectangle of a list.                                                  *)
\* A function on 1 .. n is a sequence.
LEMMA FunctionIsSeq ==
  ASSUME NEW n \in Nat, NEW S, NEW p \in [1 .. n -> S]
  PROVE  p \in Seq(S) /\ Len(p) = n
  OBVIOUS

\* The first items of a list.
LEMMA OneMore ==
  ASSUME NEW S, NEW list \in Seq(S), NEW i \in 1 .. Len(list)
  PROVE  /\ Append(SubSeq(list, 1, i - 1), list[i]) = SubSeq(list, 1, i)
         /\ i = 1 => SubSeq(list, 1, i - 1) = <<>>
         /\ i > 1 => SubSeq(list, 1, i - 1) # <<>> /\ Last(SubSeq(list, 1, i - 1)) = list[i - 1]
<1>1. /\ SubSeq(list, 1, i) \in Seq(S) /\ Len(SubSeq(list, 1, i)) = i
      /\ \A j \in 1 .. i : SubSeq(list, 1, i)[j] = list[j]
  OBVIOUS
<1>2. /\ SubSeq(list, 1, i - 1) \in Seq(S) /\ Len(SubSeq(list, 1, i - 1)) = i - 1
      /\ \A j \in 1 .. i - 1 : SubSeq(list, 1, i - 1)[j] = list[j]
  OBVIOUS
<1>3. PICK some \in Seq(S), more \in Seq(S) : some = SubSeq(list, 1, i - 1) /\ more = SubSeq(list, 1, i)
  BY <1>1, <1>2
<1>4. /\ Append(some, list[i]) \in Seq(S) /\ Len(Append(some, list[i])) = i
      /\ \A j \in 1 .. i : Append(some, list[i])[j] = list[j]
  BY <1>2, <1>3
<1>5. Append(some, list[i]) = more
  BY <1>1, <1>3, <1>4, SeqEqual
<1>6. i = 1 => some = <<>>
  BY <1>2, <1>3
<1>7. i > 1 => some # <<>> /\ Last(some) = list[i - 1]
  BY <1>2, <1>3 DEF Last
<1> QED BY <1>3, <1>5, <1>6, <1>7

\* A rectangle is read as it was written after the one before it.
BoxParts(list, i, omit) == [k \in DOMAIN Box |-> Side(Box[k], omit, Relative(list, i, Box[k]))]
LEMMA RectSpelled ==
  ASSUME NEW list, NEW i, NEW omit
  PROVE  WriteRect(list, i, omit) = FlattenSeq(BoxParts(list, i, omit))
  BY DEF WriteRect, FlatMap, BoxParts, Side

Before(list, i) == IF i = 1 THEN [f \in Sides |-> 0] ELSE list[i - 1]
\* What is written of a side, and what an omitted side is.
LEMMA RelativeIs ==
  ASSUME NEW list \in Seq(Boxes), NearBy(list), NEW i \in 1 .. Len(list), NEW omit \in SUBSET MayOmit(list, i),
         NEW f \in Sides
  PROVE  /\ Relative(list, i, f) \in Deltas /\ Before(list, i)[f] \in Int /\ list[i][f] \in Int
         /\ list[i][f] = IF f \in {"left", "top"} THEN Before(list, i)[f] + Relative(list, i, f)
                                                  ELSE Relative(list, i, f)
         /\ f \in omit => list[i][f] = Before(list, i)[f]
<1>1. Relative(list, i, f) \in Deltas
  <2>1. i \in DOMAIN list /\ f \in ToSet(Box)
    BY BoxSides
  <2> QED BY <2>1 DEF NearBy, Deltas
<1>2. list[i] \in Boxes /\ (i > 1 => list[i - 1] \in Boxes)
  OBVIOUS
<1>3. list[i][f] \in Int /\ (i > 1 => list[i - 1][f] \in Int)
  BY <1>2 DEF Boxes, Sides
<1>4. f \in omit => IF f \in {"left", "top"} THEN Relative(list, i, f) = 0
                    ELSE IF i > 1 THEN list[i][f] = list[i - 1][f] ELSE list[i][f] = 0
  BY DEF MayOmit
<1>5. CASE i = 1
  BY <1>1, <1>3, <1>4, <1>5 DEF Before, Relative
<1>6. CASE i > 1
  BY <1>1, <1>3, <1>4, <1>6 DEF Before, Relative
<1> QED BY <1>5, <1>6

\* One side after another is read.
LEMMA NextSide ==
  ASSUME NEW list \in Seq(Boxes), NearBy(list), NEW i \in 1 .. Len(list), NEW omit \in SUBSET MayOmit(list, i),
         NEW f \in Sides, NEW rest \in Seq(Tokens), NEW x, NEW F, NEW R
  PROVE  ReadSide(Acc(Reading(Side(f, omit, Relative(list, i, f)) \o rest, x, F), R), f, omit, Before(list, i))
         = Acc(Reading(rest, Relative(list, i, f), F), Put(R, f, list[i][f]))
<1>1. PICK rel \in Deltas : rel = Relative(list, i, f)
  BY RelativeIs
<1>2. PICK want \in Int : want = list[i][f]
  BY RelativeIs
<1>3. PICK before : before = Before(list, i)
  OBVIOUS
<1>4. before[f] \in Int
  BY <1>3, RelativeIs
<1>5. want = IF f \in {"left", "top"} THEN before[f] + rel ELSE rel
  BY <1>1, <1>2, <1>3, RelativeIs
<1>6. f \in omit => want = before[f]
  BY <1>1, <1>2, <1>3, RelativeIs
<1>7. ReadSide(Acc(Reading(Side(f, omit, rel) \o rest, x, F), R), f, omit, before)
      = Acc(Reading(rest, rel, F), Put(R, f, want))
  BY <1>4, <1>5, <1>6, SideRead
<1> QED BY <1>1, <1>2, <1>3, <1>7

\* A rectangle is its four sides.
LEMMA RectBuilt ==
  ASSUME NEW box \in Boxes, NEW before, DOMAIN before = Sides
  PROVE  Put(Put(Put(Put(before, "left", box.left), "top", box.top), "width", box.width), "height", box.height) = box
<1>1. PICK b1 : b1 = Put(before, "left", box.left)
  OBVIOUS
<1>2. PICK b2 : b2 = Put(b1, "top", box.top)
  OBVIOUS
<1>3. PICK b3 : b3 = Put(b2, "width", box.width)
  OBVIOUS
<1>4. PICK b4 : b4 = Put(b3, "height", box.height)
  OBVIOUS
<1>5. /\ DOMAIN b4 = Sides /\ b4 = [f \in DOMAIN b4 |-> b4[f]]
      /\ b4.left = box.left /\ b4.top = box.top /\ b4.width = box.width /\ b4.height = box.height
  BY <1>1, <1>2, <1>3, <1>4 DEF Sides, Put
<1>6. DOMAIN box = Sides /\ box = [f \in DOMAIN box |-> box[f]]
  BY DEF Boxes, Sides
<1>7. \A f \in Sides : b4[f] = box[f]
  BY <1>5 DEF Sides
<1>8. b4 = box
  BY <1>5, <1>6, <1>7
<1> QED BY <1>1, <1>2, <1>3, <1>4, <1>8

\* A rectangle of a list is read as it was written (ReadDeltaRect).
LEMMA RectRead ==
  ASSUME NEW list \in Seq(Boxes), NearBy(list), NEW i \in 1 .. Len(list), NEW omit \in SUBSET MayOmit(list, i),
         NEW rest \in Seq(Tokens), NEW x, NEW F, F.rects = SubSeq(list, 1, i - 1)
  PROVE  /\ WriteRect(list, i, omit) \in Seq(Tokens)
         /\ ReadDeltaRect(Reading(WriteRect(list, i, omit) \o rest, x, F), omit)
            = Reading(rest, Relative(list, i, "height"), Put(F, "rects", SubSeq(list, 1, i)))
<1>1. PICK parts : parts = BoxParts(list, i, omit) /\ parts \in Seq(Seq(Tokens)) /\ Len(parts) = 4
                   /\ \A k \in 1 .. 4 : parts[k] = Side(Box[k], omit, Relative(list, i, Box[k]))
  <2>1. ASSUME NEW k \in 1 .. 4 PROVE Side(Box[k], omit, Relative(list, i, Box[k])) \in Seq(Tokens)
    <3>1. PICK f \in Sides : f = Box[k]
      BY BoxSides DEF Sides
    <3>2. Relative(list, i, f) \in Deltas
      BY RelativeIs
    <3>3. WriteDelta(Relative(list, i, f)) \in Seq(Tokens)
      <4>1. <<>> \in Seq(Tokens)
        OBVIOUS
      <4> QED BY <3>2, <4>1, DeltaRead
    <3> QED BY <3>1, <3>3 DEF Side
  <2>2. PICK parts : parts = BoxParts(list, i, omit)
    OBVIOUS
  <2>3. parts = [k \in 1 .. 4 |-> Side(Box[k], omit, Relative(list, i, Box[k]))]
    BY <2>2, BoxSides DEF BoxParts
  <2>4. parts \in [1 .. 4 -> Seq(Tokens)] /\ \A k \in 1 .. 4 : parts[k] = Side(Box[k], omit, Relative(list, i, Box[k]))
    BY <2>1, <2>3
  <2>5. parts \in Seq(Seq(Tokens)) /\ Len(parts) = 4
    BY <2>4, FunctionIsSeq
  <2> QED BY <2>2, <2>4, <2>5
<1>2. WriteRect(list, i, omit) = FlattenSeq(parts)
  BY <1>1, RectSpelled
<1>3. FlattenSeq(parts) \in Seq(Tokens)
  BY <1>1, PartsLeft
<1>4. PICK left : Left(left, parts, 4, Tokens, FlattenSeq(parts), rest)
  BY <1>1, PartsLeft
<1>5. /\ \A k \in 1 .. 5 : left[k] \in Seq(Tokens)
      /\ left[5] = rest /\ left[1] = WriteRect(list, i, omit) \o rest
      /\ \A k \in 1 .. 4 : left[k] = parts[k] \o left[k + 1]
  <2>1. /\ left \in [1 .. 5 -> Seq(Tokens)] /\ left[5] = rest /\ left[1] = FlattenSeq(parts) \o rest
        /\ \A k \in 1 .. 4 : left[k] = parts[k] \o left[k + 1]
    <3>1. 4 + 1 = 5
      OBVIOUS
    <3> QED BY <1>4, <3>1 DEF Left
  <2> QED BY <1>2, <2>1
<1>6. PICK before : before = Before(list, i) /\ DOMAIN before = Sides
  <2>1. CASE i = 1
    <3>1. Before(list, i) = [f \in Sides |-> 0]
      BY <2>1 DEF Before
    <3> QED BY <3>1
  <2>2. CASE i > 1
    <3>1. PICK box \in Boxes : box = list[i - 1]
      BY <2>2
    <3>2. Before(list, i) = box
      BY <2>2, <3>1 DEF Before
    <3>3. DOMAIN box = Sides
      BY DEF Boxes, Sides
    <3> QED BY <3>2, <3>3
  <2> QED BY <2>1, <2>2
<1>7. PICK box \in Boxes : box = list[i]
  OBVIOUS
<1>8. PICK r : r = Reading(left[1], x, F)
  OBVIOUS
<1>9. ASSUME NEW k \in 1 .. 4, NEW z, NEW R, NEW a, a = Acc(Reading(left[k], z, F), R),
             NEW f, f = Box[k]
      PROVE  ReadSide(a, f, omit, before)
             = Acc(Reading(left[k + 1], Relative(list, i, f), F), Put(R, f, box[f]))
  <2>1. f \in Sides
    BY <1>9, BoxSides DEF Sides
  <2>2. PICK more \in Seq(Tokens) : more = left[k + 1] /\ left[k] = Side(f, omit, Relative(list, i, f)) \o more
    <3>1. k + 1 \in 1 .. 5 /\ left[k] = parts[k] \o left[k + 1]
      <4>1. k + 1 \in 1 .. 5
        OBVIOUS
      <4>2. left[k] = parts[k] \o left[k + 1]
        BY <1>5, Zenon
      <4> QED BY <4>1, <4>2
    <3>2. parts[k] = Side(f, omit, Relative(list, i, f)) /\ left[k + 1] \in Seq(Tokens)
      BY <1>1, <1>5, <1>9, <3>1
    <3> QED BY <3>1, <3>2
  <2>3. ReadSide(a, f, omit, before) = Acc(Reading(more, Relative(list, i, f), F), Put(R, f, box[f]))
    <3>1. PICK b : b = Acc(Reading(Side(f, omit, Relative(list, i, f)) \o more, z, F), R)
      OBVIOUS
    <3>2. a = b
      BY <1>9, <2>2, <3>1
    <3>3. ReadSide(b, f, omit, Before(list, i)) = Acc(Reading(more, Relative(list, i, f), F), Put(R, f, list[i][f]))
      BY <2>1, <3>1, NextSide
    <3> QED BY <1>6, <1>7, <3>2, <3>3
  <2> QED BY <2>2, <2>3
<1>10. PICK a0 : a0 = Acc(r, before)
  OBVIOUS
<1>11. ReadSide(a0, "left", omit, before)
      = Acc(Reading(left[2], Relative(list, i, "left"), F), Put(before, "left", box["left"]))
  <2>1. 1 \in 1 .. 4 /\ 1 + 1 = 2 /\ Box[1] = "left"
    BY BoxSides
  <2>2. a0 = Acc(Reading(left[1], x, F), before)
    BY <1>8, <1>10
  <2> QED BY <1>9, <2>1, <2>2
<1>12. PICK b1, a1 : b1 = Put(before, "left", box.left) /\ a1 = ReadSide(a0, "left", omit, before)
  OBVIOUS
<1>13. ReadSide(a1, "top", omit, before)
      = Acc(Reading(left[3], Relative(list, i, "top"), F), Put(b1, "top", box["top"]))
  <2>1. 2 \in 1 .. 4 /\ 2 + 1 = 3 /\ Box[2] = "top"
    BY BoxSides
  <2> QED BY <1>9, <1>11, <1>12, <2>1
<1>14. PICK b2, a2 : b2 = Put(b1, "top", box.top) /\ a2 = ReadSide(a1, "top", omit, before)
  OBVIOUS
<1>15. ReadSide(a2, "width", omit, before)
      = Acc(Reading(left[4], Relative(list, i, "width"), F), Put(b2, "width", box["width"]))
  <2>1. 3 \in 1 .. 4 /\ 3 + 1 = 4 /\ Box[3] = "width"
    BY BoxSides
  <2> QED BY <1>9, <1>13, <1>14, <2>1
<1>16. PICK b3, a3 : b3 = Put(b2, "width", box.width) /\ a3 = ReadSide(a2, "width", omit, before)
  OBVIOUS
<1>17. ReadSide(a3, "height", omit, before)
      = Acc(Reading(left[5], Relative(list, i, "height"), F), Put(b3, "height", box["height"]))
  <2>1. 4 \in 1 .. 4 /\ 4 + 1 = 5 /\ Box[4] = "height"
    BY BoxSides
  <2> QED BY <1>9, <1>15, <1>16, <2>1
<1>18. Put(b3, "height", box.height) = box
  BY <1>6, <1>12, <1>14, <1>16, RectBuilt
<1>19. PICK q, a4 : q = Reading(rest, Relative(list, i, "height"), F) /\ a4 = ReadSide(a3, "height", omit, before)
  OBVIOUS
<1>20. a4.r = q /\ a4.rect = box /\ q.fields = F
  <2>1. a4 = Acc(q, box)
    BY <1>5, <1>17, <1>18, <1>19
  <2>2. q.fields = F
    BY <1>19, ReadingIs
  <2> QED BY <2>1, <2>2 DEF Acc
<1>21. before = IF r.fields.rects = <<>> THEN [f \in ToSet(Box) |-> 0] ELSE Last(r.fields.rects)
  <2>1. r.fields.rects = SubSeq(list, 1, i - 1)
    BY <1>8, ReadingIs
  <2>2. CASE i = 1
    BY <1>6, <2>1, <2>2, OneMore, BoxSides DEF Before
  <2>3. CASE i > 1
    BY <1>6, <2>1, <2>3, OneMore DEF Before
  <2> QED BY <2>2, <2>3
<1>22. ReadDeltaRect(r, omit) = [q EXCEPT !.fields.rects = Append(@, box)]
  BY <1>10, <1>12, <1>14, <1>16, <1>19, <1>20, <1>21 DEF ReadDeltaRect, Acc
<1>23. [q EXCEPT !.fields.rects = Append(@, box)] = Reading(rest, Relative(list, i, "height"), Put(F, "rects", SubSeq(list, 1, i)))
  <2>1. Append(F.rects, box) = SubSeq(list, 1, i)
    BY <1>7, OneMore
  <2>2. [q EXCEPT !.fields.rects = Append(@, box)] = [q EXCEPT !.fields["rects"] = SubSeq(list, 1, i)]
    BY <1>20, <2>1
  <2>3. [q EXCEPT !.fields["rects"] = SubSeq(list, 1, i)] = Reading(rest, Relative(list, i, "height"), Put(F, "rects", SubSeq(list, 1, i)))
    <3>1. With(q, "rects", SubSeq(list, 1, i)) = [q EXCEPT !.fields["rects"] = SubSeq(list, 1, i)]
      BY Zenon DEF With
    <3>2. With(q, "rects", SubSeq(list, 1, i)) = Reading(rest, Relative(list, i, "height"), Put(F, "rects", SubSeq(list, 1, i)))
      BY <1>19, Kept
    <3> QED BY <3>1, <3>2, Zenon
  <2> QED BY <2>2, <2>3
<1> QED BY <1>2, <1>3, <1>5, <1>8, <1>22, <1>23

-----------------------------------------------------------------------------
(* Bytes, and the bits that say what is left out.                          *)
\* Bytes read at once.
LEMMA BytesAre ==
  ASSUME NEW n \in Nat, NEW vals \in [1 .. n -> Vals]
  PROVE  /\ Bytes(vals) \in Seq(Tokens) /\ Len(Bytes(vals)) = n
         /\ \A j \in 1 .. n : Bytes(vals)[j].size = 1 /\ Bytes(vals)[j].val = vals[j]
<1>1. ASSUME NEW j \in 1 .. n
      PROVE  Token(1, vals[j]) \in Tokens /\ Token(1, vals[j]).size = 1 /\ Token(1, vals[j]).val = vals[j]
  BY DEF Token, Tokens
<1>2. Bytes(vals) = [j \in 1 .. n |-> Token(1, vals[j])]
  BY DEF Bytes
<1>3. Bytes(vals) \in [1 .. n -> Tokens]
  BY <1>1, <1>2
<1>4. Bytes(vals) \in Seq(Tokens) /\ Len(Bytes(vals)) = n
  BY <1>3, FunctionIsSeq
<1> QED BY <1>1, <1>2, <1>4

\* Bytes are read as they were written (ReadN).
LEMMA BytesRead ==
  ASSUME NEW n \in Nat, NEW vals \in [1 .. n -> Vals], NEW rest \in Seq(Tokens), NEW x, NEW F
  PROVE  ReadN(Reading(Bytes(vals) \o rest, x, F), n) = Reading(rest, vals, F)
<1>1. PICK these \in Seq(Tokens) : these = Bytes(vals) /\ Len(these) = n
                                   /\ \A j \in 1 .. n : these[j].size = 1 /\ these[j].val = vals[j]
  BY BytesAre
<1>2. PICK buf : buf = these \o rest
  OBVIOUS
<1>3. /\ buf \in Seq(Tokens) /\ Len(buf) = n + Len(rest) /\ Len(rest) \in Nat
      /\ \A j \in 1 .. Len(buf) : buf[j] = IF j <= n THEN these[j] ELSE rest[j - n]
  <2>1. Len(rest) \in Nat
    OBVIOUS
  <2>2. /\ these \o rest \in Seq(Tokens) /\ Len(these \o rest) = Len(these) + Len(rest)
        /\ \A j \in 1 .. Len(these) + Len(rest) :
              (these \o rest)[j] = IF j <= Len(these) THEN these[j] ELSE rest[j - Len(these)]
    BY ConcatProperties
  <2> QED BY <1>1, <1>2, <2>1, <2>2
<1>4. Len(buf) >= n /\ \A j \in 1 .. n : buf[j].size = 1 /\ buf[j].val = vals[j]
  BY <1>1, <1>3
<1>5. SubSeq(buf, n + 1, Len(buf)) = rest
  <2>1. \A j \in (n + 1) .. Len(buf) : buf[j] \in Tokens
    BY <1>3
  <2>2. /\ SubSeq(buf, n + 1, Len(buf)) \in Seq(Tokens)
        /\ Len(SubSeq(buf, n + 1, Len(buf))) = Len(rest)
        /\ \A j \in 1 .. Len(rest) : SubSeq(buf, n + 1, Len(buf))[j] = buf[n + j]
    BY <1>3, <2>1
  <2>3. \A j \in 1 .. Len(rest) : buf[n + j] = rest[j]
    BY <1>3
  <2>4. PICK some \in Seq(Tokens) : some = SubSeq(buf, n + 1, Len(buf))
    BY <2>2
  <2>5. Len(some) = Len(rest) /\ \A j \in 1 .. Len(some) : some[j] = rest[j]
    BY <2>2, <2>3, <2>4
  <2> QED BY <2>4, <2>5, SeqEqual
<1>6. [j \in 1 .. n |-> buf[j].val] = vals
  BY <1>4
<1>7. PICK r : r = Reading(buf, x, F)
  OBVIOUS
<1>8. /\ DOMAIN r = {"buf", "val", "fields", "err"} /\ r.fields = F /\ r.err = "nil" /\ r.buf = buf
  BY <1>7 DEF Reading
<1>9. ReadN(r, n) = [r EXCEPT !.buf = rest, !.val = vals]
  BY <1>4, <1>5, <1>6, <1>8 DEF ReadN
<1>10. PICK q : q = [r EXCEPT !.buf = rest, !.val = vals]
  OBVIOUS
<1>11. /\ DOMAIN q = {"buf", "val", "fields", "err"} /\ q = [y \in DOMAIN q |-> q[y]]
       /\ q.buf = rest /\ q.val = vals /\ q.fields = F /\ q.err = "nil"
  BY <1>8, <1>10
<1>12. q = Reading(rest, vals, F)
  BY <1>11, Rebuilt
<1> QED BY <1>1, <1>2, <1>7, <1>9, <1>10, <1>12

\* A field that is set.
LEMMA PutIs ==
  ASSUME NEW F, NEW f, NEW v, NEW w
  PROVE  /\ Put(Put(F, f, v), f, w) = Put(F, f, w)
         /\ f \in DOMAIN F => Put(F, f, v)[f] = v
         /\ DOMAIN Put(F, f, v) = DOMAIN F
  BY DEF Put

\* The bits that say which sides of the rectangles of a list are left out.
Zero(vals, i) == vals[(i + 1) \div 2][IF (i % 2) = 1 THEN 1 ELSE 2]

\* The bits of the list say what each rectangle leaves out.
LEMMA ZeroBitsAre ==
  ASSUME NEW list, Len(list) \in Nat, NEW omit, \A i \in 1 .. Len(list) : omit[i] \in SUBSET Sides
  PROVE  /\ ZeroBits(list, omit) \in [1 .. ((Len(list) + 1) \div 2) -> Vals]
         /\ (Len(list) + 1) \div 2 \in Nat
         /\ \A i \in 1 .. Len(list) : Zero(ZeroBits(list, omit), i) = omit[i]
<1>1. PICK n \in Nat, m \in Nat : n = Len(list) /\ m = (n + 1) \div 2
  OBVIOUS
<1>2. ASSUME NEW j \in 1 .. m
      PROVE  <<omit[2 * j - 1], IF 2 * j > n THEN {} ELSE omit[2 * j]>> \in Vals
  <2>1. 2 * j - 1 \in 1 .. n /\ (~(2 * j > n) => 2 * j \in 1 .. n)
    BY <1>1
  <2>2. PICK a \in SUBSET Sides, b \in SUBSET Sides : a = omit[2 * j - 1] /\ b = IF 2 * j > n THEN {} ELSE omit[2 * j]
    BY <1>1, <2>1
  <2>3. <<a, b>> \in (SUBSET Sides) \X (SUBSET Sides)
    OBVIOUS
  <2>4. <<a, b>> \in Vals
    BY <2>3 DEF Vals
  <2> QED BY <2>2, <2>4
<1>3. PICK z : z = ZeroBits(list, omit)
               /\ z = [j \in 1 .. m |-> <<omit[2 * j - 1], IF 2 * j > n THEN {} ELSE omit[2 * j]>>]
  BY <1>1 DEF ZeroBits
<1>4. z \in [1 .. m -> Vals]
  BY <1>2, <1>3
<1>5. ASSUME NEW i \in 1 .. n PROVE Zero(z, i) = omit[i]
  <2>1. PICK j \in 1 .. m : j = (i + 1) \div 2
    BY <1>1
  <2>2. z[j] = <<omit[2 * j - 1], IF 2 * j > n THEN {} ELSE omit[2 * j]>>
    BY <1>3
  <2>3. CASE (i % 2) = 1
    <3>1. 2 * j - 1 = i
      BY <2>1, <2>3
    <3> QED BY <2>1, <2>2, <2>3, <3>1 DEF Zero
  <2>4. CASE (i % 2) # 1
    <3>1. 2 * j = i /\ ~(2 * j > n)
      BY <2>1, <2>4
    <3> QED BY <2>1, <2>2, <2>4, <3>1 DEF Zero
  <2> QED BY <2>3, <2>4
<1> QED BY <1>1, <1>3, <1>4, <1>5

-----------------------------------------------------------------------------
(* A list of rectangles.                                                   *)
\* A list of rectangles is read as it was written.
RectParts(list, omit) == [i \in DOMAIN list |-> WriteRect(list, i, omit[i])]
ListBody(list, omit) == Bytes(ZeroBits(list, omit)) \o FlattenSeq(RectParts(list, omit))

\* g is the reading of n rectangles after the zero bits, ReadDeltaRects' function.
RectReader(g, bytes, n) ==
    g = [i \in 0 .. n |->
            IF i = 0 THEN [bytes EXCEPT !.fields.rects = <<>>]
            ELSE IF g[i - 1].err = "nil" THEN ReadDeltaRect(g[i - 1], Zero(bytes.val, i)) ELSE g[i - 1]]

\* ReadDeltaRects reads one rectangle after another.
LEMMA RectReaderIs ==
  ASSUME NEW r, NEW n \in Nat, n <= MaxRects, NEW bytes, bytes = ReadN(r, (n + 1) \div 2), bytes.err = "nil"
  PROVE  ReadDeltaRects(r, n) = (CHOOSE g : RectReader(g, bytes, n))[n]
<1>1. ~(n > MaxRects \/ bytes.err # "nil")
  BY OrdersAssumption
<1> QED BY <1>1, Zenon DEF ReadDeltaRects, RectReader, Zero

\* The last value read of a list.
LastRead(list, omit) ==
    IF Len(list) = 0 THEN ZeroBits(list, omit) ELSE Relative(list, Len(list), "height")

\* The rectangles of a list are read one after the other.
LEMMA RectsRead ==
  ASSUME NEW list \in Seq(Boxes), NearBy(list), NEW omit,
         \A i \in 1 .. Len(list) : omit[i] \in SUBSET MayOmit(list, i),
         NEW left, NEW parts, NEW whole, NEW rest, Left(left, parts, Len(list), Tokens, whole, rest),
         parts = RectParts(list, omit),
         NEW F, "rects" \in DOMAIN F, NEW bytes, bytes = Reading(left[1], ZeroBits(list, omit), F)
  PROVE  (CHOOSE g : RectReader(g, bytes, Len(list)))[Len(list)]
         = Reading(rest, LastRead(list, omit), Put(F, "rects", list))
<1>1. PICK n \in Nat : n = Len(list)
  OBVIOUS
<1>2. /\ \A i \in 1 .. n + 1 : left[i] \in Seq(Tokens)
      /\ left[n + 1] = rest
      /\ \A i \in 1 .. n : left[i] = WriteRect(list, i, omit[i]) \o left[i + 1]
  <2>1. \A i \in 1 .. n : parts[i] = WriteRect(list, i, omit[i])
    BY <1>1 DEF RectParts
  <2> QED BY <1>1, <2>1 DEF Left
<1> DEFINE Rects0(i) == Put(F, "rects", SubSeq(list, 1, i))
           Last0(i) == IF i = 0 THEN ZeroBits(list, omit) ELSE Relative(list, i, "height")
           At(i) == Reading(left[i + 1], Last0(i), Rects0(i))
<1>3. [bytes EXCEPT !.fields.rects = <<>>] = At(0)
  <2>1. With(bytes, "rects", <<>>) = [bytes EXCEPT !.fields.rects = <<>>]
    BY Zenon DEF With
  <2>2. With(bytes, "rects", <<>>) = Reading(left[1], ZeroBits(list, omit), Put(F, "rects", <<>>))
    BY Kept
  <2>3. SubSeq(list, 1, 0) = <<>>
    BY <1>1, SubSeqEmpty
  <2>4. 0 + 1 = 1
    OBVIOUS
  <2> QED BY <2>1, <2>2, <2>3, <2>4, Zenon
<1>4. ASSUME NEW i \in 1 .. n
      PROVE  At(i - 1).err = "nil" /\ ReadDeltaRect(At(i - 1), Zero(bytes.val, i)) = At(i)
  <2>1. (i - 1) + 1 = i /\ i \in 1 .. n + 1 /\ i + 1 \in 1 .. n + 1
    BY <1>1
  <2>2. PICK G : G = Rects0(i - 1)
    OBVIOUS
  <2>3. PICK x : At(i - 1) = Reading(left[i], x, G)
    BY <2>1, <2>2
  <2>4. PICK more \in Seq(Tokens) : more = left[i + 1]
    BY <1>2, <2>1
  <2>5. G.rects = SubSeq(list, 1, i - 1) /\ Put(G, "rects", SubSeq(list, 1, i)) = Rects0(i)
    <3>1. PICK v, w : v = SubSeq(list, 1, i - 1) /\ w = SubSeq(list, 1, i)
      OBVIOUS
    <3>2. G = Put(F, "rects", v) /\ Rects0(i) = Put(F, "rects", w)
      BY <2>2, <3>1
    <3>3. Put(F, "rects", v).rects = v /\ Put(Put(F, "rects", v), "rects", w) = Put(F, "rects", w)
      BY PutIs
    <3> QED BY <3>1, <3>2, <3>3
  <2>6. Zero(bytes.val, i) = omit[i]
    <3>1. \A k \in 1 .. Len(list) : omit[k] \in SUBSET Sides
      BY BoxSides DEF MayOmit
    <3>2. bytes.val = ZeroBits(list, omit)
      BY ReadingIs
    <3>3. Len(list) \in Nat /\ i \in 1 .. Len(list)
      BY <1>1
    <3> QED BY <3>1, <3>2, <3>3, ZeroBitsAre
  <2>7. PICK o \in SUBSET MayOmit(list, i) : o = omit[i]
    BY <1>1
  <2>8. ReadDeltaRect(Reading(WriteRect(list, i, o) \o more, x, G), o)
        = Reading(more, Relative(list, i, "height"), Put(G, "rects", SubSeq(list, 1, i)))
    <3>1. i \in 1 .. Len(list)
      BY <1>1
    <3> QED BY <2>5, <3>1, RectRead
  <2>9. left[i] = WriteRect(list, i, o) \o more
    BY <1>2, <2>4, <2>7
  <2>10. i # 0
    OBVIOUS
  <2>11. At(i - 1).err = "nil"
    BY <2>3, ReadingIs
  <2> HIDE DEF At
  <2>12. ReadDeltaRect(At(i - 1), Zero(bytes.val, i))
         = Reading(more, Relative(list, i, "height"), Put(G, "rects", SubSeq(list, 1, i)))
    BY <2>3, <2>6, <2>7, <2>8, <2>9
  <2>13. Last0(i) = Relative(list, i, "height")
    BY <2>10
  <2> QED BY <2>4, <2>5, <2>11, <2>12, <2>13 DEF At
<1> DEFINE all == [i \in 0 .. n |-> At(i)]
<1> HIDE DEF At, Rects0, Last0
<1>5. RectReader(all, bytes, n)
  <2>1. ASSUME NEW i \in 0 .. n
        PROVE  all[i] = IF i = 0 THEN [bytes EXCEPT !.fields.rects = <<>>]
                        ELSE IF all[i - 1].err = "nil" THEN ReadDeltaRect(all[i - 1], Zero(bytes.val, i))
                             ELSE all[i - 1]
    <3>1. CASE i = 0
      BY <1>3, <3>1
    <3>2. CASE i # 0
      <4>1. i \in 1 .. n /\ i - 1 \in 0 .. n
        BY <3>2
      <4>2. all[i] = At(i) /\ all[i - 1] = At(i - 1)
        BY <4>1
      <4> QED BY <1>4, <3>2, <4>1, <4>2
    <3> QED BY <3>1, <3>2
  <2>2. all = [i \in 0 .. n |-> all[i]]
    OBVIOUS
  <2> HIDE DEF all
  <2>3. all = [i \in 0 .. n |->
                  IF i = 0 THEN [bytes EXCEPT !.fields.rects = <<>>]
                  ELSE IF all[i - 1].err = "nil" THEN ReadDeltaRect(all[i - 1], Zero(bytes.val, i))
                       ELSE all[i - 1]]
    BY <2>1, <2>2
  <2> QED BY <2>3 DEF RectReader
<1> HIDE DEF all
<1>6. PICK g : g = (CHOOSE h : RectReader(h, bytes, n)) /\ RectReader(g, bytes, n)
  BY <1>5, Zenon
<1>7. \A i \in 0 .. n :
          g[i] = IF i = 0 THEN [bytes EXCEPT !.fields.rects = <<>>]
                 ELSE IF g[i - 1].err = "nil" THEN ReadDeltaRect(g[i - 1], Zero(bytes.val, i)) ELSE g[i - 1]
  BY <1>6 DEF RectReader
<1> DEFINE T == {i \in Nat : i > n \/ g[i] = At(i)}
<1>8. 0 \in T
  <2>1. g[0] = At(0)
    BY <1>1, <1>3, <1>7
  <2> QED BY <2>1
<1>9. ASSUME NEW i \in Nat, i \in T PROVE i + 1 \in T
  <2>1. CASE i + 1 > n
    BY <2>1
  <2>2. CASE i + 1 <= n
    <3>1. i + 1 \in 1 .. n /\ i + 1 \in 0 .. n /\ i + 1 # 0 /\ (i + 1) - 1 = i /\ ~(i > n)
      BY <1>1, <2>2
    <3>2. g[i] = At(i)
      BY <1>9, <3>1
    <3>3. At(i).err = "nil" /\ ReadDeltaRect(At(i), Zero(bytes.val, i + 1)) = At(i + 1)
      BY <1>4, <3>1
    <3>4. g[i + 1] = At(i + 1)
      BY <1>7, <3>1, <3>2, <3>3
    <3> QED BY <3>4
  <2> QED BY <1>1, <2>1, <2>2
<1> HIDE DEF T
<1>10. g[n] = At(n)
  <2>1. Nat \subseteq T
    BY <1>8, <1>9, SetInduction
  <2> QED BY <2>1 DEF T
<1>11. SubSeq(list, 1, n) = list
  BY <1>1, SubSeqFull
<1> QED BY <1>1, <1>2, <1>6, <1>10, <1>11 DEF At, Rects0, Last0, LastRead

\* A list is read as it was written (ReadDeltaRects).
LEMMA ListRead ==
  ASSUME NEW list \in Seq(Boxes), NearBy(list), Len(list) <= MaxRects, NEW omit,
         \A i \in 1 .. Len(list) : omit[i] \in SUBSET MayOmit(list, i),
         NEW rest \in Seq(Tokens), NEW x, NEW F, "rects" \in DOMAIN F
  PROVE  /\ ListBody(list, omit) \in Seq(Tokens)
         /\ ReadDeltaRects(Reading(ListBody(list, omit) \o rest, x, F), Len(list))
            = Reading(rest, LastRead(list, omit), Put(F, "rects", list))
<1>1. PICK n \in Nat : n = Len(list)
  OBVIOUS
<1>2. PICK parts : parts = RectParts(list, omit)
  OBVIOUS
<1>3. parts \in Seq(Seq(Tokens)) /\ Len(parts) = n
  <2>1. ASSUME NEW i \in 1 .. n PROVE WriteRect(list, i, omit[i]) \in Seq(Tokens)
    <3>1. PICK o, F0 : o \in SUBSET MayOmit(list, i) /\ o = omit[i] /\ F0 = [rects |-> SubSeq(list, 1, i - 1)]
      BY <1>1
    <3>2. i \in 1 .. Len(list) /\ F0.rects = SubSeq(list, 1, i - 1) /\ <<>> \in Seq(Tokens)
      BY <1>1, <3>1
    <3> QED BY <3>1, <3>2, RectRead
  <2>2. parts = [i \in 1 .. n |-> WriteRect(list, i, omit[i])]
    BY <1>1, <1>2 DEF RectParts
  <2>3. parts \in [1 .. n -> Seq(Tokens)]
    BY <2>1, <2>2
  <2> QED BY <2>3, FunctionIsSeq
<1>4. PICK whole \in Seq(Tokens) : whole = FlattenSeq(parts)
  BY <1>3, PartsLeft
<1>5. PICK left : Left(left, parts, n, Tokens, whole, rest)
  BY <1>3, <1>4, PartsLeft
<1>6. left[1] = whole \o rest /\ left[1] \in Seq(Tokens)
  BY <1>4, <1>5, ConcatProperties DEF Left
<1>7. PICK m \in Nat : m = (n + 1) \div 2
  BY <1>1
<1>70. PICK bits \in [1 .. m -> Vals] : bits = ZeroBits(list, omit)
  <2>1. \A k \in 1 .. Len(list) : omit[k] \in SUBSET Sides
    BY BoxSides DEF MayOmit
  <2> QED BY <1>1, <1>7, <2>1, ZeroBitsAre
<1>8. PICK these \in Seq(Tokens) : these = Bytes(bits)
  BY BytesAre
<1>9. ListBody(list, omit) = these \o whole /\ these \o whole \in Seq(Tokens)
  BY <1>2, <1>4, <1>70, <1>8, ConcatProperties DEF ListBody
<1>10. (these \o whole) \o rest = these \o left[1]
  <2>1. these \in Seq(Tokens) /\ whole \in Seq(Tokens) /\ rest \in Seq(Tokens)
    OBVIOUS
  <2>2. (these \o whole) \o rest = these \o (whole \o rest)
    BY <2>1, Assoc
  <2> QED BY <1>6, <2>2
<1>11. PICK r, bytes : r = Reading(these \o left[1], x, F) /\ bytes = Reading(left[1], bits, F)
  OBVIOUS
<1>12. ReadN(r, (n + 1) \div 2) = bytes
  <2>1. PICK tail \in Seq(Tokens) : tail = left[1]
    BY <1>6
  <2>2. ReadN(Reading(Bytes(bits) \o tail, x, F), m) = Reading(tail, bits, F)
    BY BytesRead
  <2> QED BY <1>7, <1>8, <1>11, <2>1, <2>2
<1>13. bytes.err = "nil"
  BY <1>11, ReadingIs
<1>14. ReadDeltaRects(r, n) = (CHOOSE g : RectReader(g, bytes, n))[n]
  BY <1>1, <1>12, <1>13, RectReaderIs
<1>15. (CHOOSE g : RectReader(g, bytes, Len(list)))[Len(list)]
       = Reading(rest, LastRead(list, omit), Put(F, "rects", list))
  <2>1. Left(left, parts, Len(list), Tokens, whole, rest)
    BY <1>1, <1>5
  <2>2. bytes = Reading(left[1], ZeroBits(list, omit), F)
    BY <1>70, <1>11
  <2> QED BY <1>2, <2>1, <2>2, RectsRead
<1> QED BY <1>1, <1>9, <1>10, <1>11, <1>14, <1>15

\* The kinds of fields.
One(size, v) == <<Token(size, v)>>
LowByte(v) == v % Byte
LowBytes(v) == v % (Byte * Byte)
ReadShort(r, f) == ReadField(r, f, TRUE)
ReadLong(r, f) == ReadField(r, f, FALSE)
LEMMA NumberRead ==
  ASSUME NEW f \in Fields \ (Coordinates \cup {"rects"}), NEW v \in Int, NEW rest \in Seq(Tokens),
         NEW x, NEW F, NEW delta
  PROVE  ReadField(Reading(One(1, v) \o rest, x, F), f, delta) = Reading(rest, v, Put(F, f, v))
<1>1. PICK r : r = Reading(<<Token(1, v)>> \o rest, x, F)
  OBVIOUS
<1>2. PICK q : q = Reading(rest, v, F)
  OBVIOUS
<1>3. Take(r, 1) = q
  <2>1. v \in Vals
    BY DEF Vals
  <2> QED BY <1>1, <1>2, <2>1, TakeIs
<1>4. q.err = "nil" /\ q.val = v
  BY <1>2, ReadingIs
<1>5. f \notin Coordinates /\ f # "rects"
  OBVIOUS
<1>6. ReadField(r, f, delta) = [q EXCEPT !.fields[f] = v]
  BY <1>3, <1>4, <1>5, Zenon DEF ReadField
<1>7. With(q, f, v) = Reading(rest, v, Put(F, f, v))
  BY <1>2, Kept
<1> QED BY <1>1, <1>6, <1>7 DEF With, One

\* A coordinate written as a difference is read against the remembered one.
LEMMA ShortCoordinateRead ==
  ASSUME NEW f \in Coordinates, NEW was \in Int, NEW v \in Int,
         v - was \in -(Byte \div 2) .. (Byte \div 2) - 1, NEW rest \in Seq(Tokens), NEW x, NEW F, F[f] = was
  PROVE  /\ One(1, LowByte(v - was)) \in Seq(Tokens)
         /\ ReadShort(Reading(One(1, LowByte(v - was)) \o rest, x, F), f)
            = Reading(rest, LowByte(v - was), Put(F, f, v))
<1>1. PICK y \in Int : y = LowByte(v - was) /\ Signed(y, Byte) = v - was
  BY SignedIs DEF LowByte
<1>2. PICK r : r = Reading(<<Token(1, y)>> \o rest, x, F)
  OBVIOUS
<1>3. PICK q : q = Reading(rest, y, F)
  OBVIOUS
<1>4. y \in Vals
  BY DEF Vals
<1>5. Take(r, 1) = q
  BY <1>2, <1>3, <1>4, TakeIs
<1>6. q.err = "nil" /\ q.val = y /\ q.fields = F
  BY <1>3, ReadingIs
<1>7. was + Signed(y, Byte) = v
  BY <1>1
<1>8. ReadOrderCoord(r, f, TRUE) = [q EXCEPT !.fields[f] = @ + Signed(q.val, Byte)]
  BY <1>5, <1>6, Zenon DEF ReadOrderCoord
<1>9. [q EXCEPT !.fields[f] = @ + Signed(q.val, Byte)] = [q EXCEPT !.fields[f] = v]
  BY <1>6, <1>7
<1>10. ReadField(r, f, TRUE) = ReadOrderCoord(r, f, TRUE)
  BY DEF ReadField, Coordinates
<1>11. With(q, f, v) = Reading(rest, y, Put(F, f, v))
  BY <1>3, Kept
<1>12. With(q, f, v) = [q EXCEPT !.fields[f] = v]
  BY Zenon DEF With
<1>13. Token(1, y) \in Tokens
  BY <1>4 DEF Token, Tokens
<1>14. <<Token(1, y)>> \in Seq(Tokens)
  BY <1>13
<1> QED BY <1>1, <1>2, <1>8, <1>9, <1>10, <1>11, <1>12, <1>14 DEF One, ReadShort

\* A coordinate written absolutely is read whatever was remembered.
LEMMA LongCoordinateRead ==
  ASSUME NEW f \in Coordinates, NEW v \in Int16, NEW rest \in Seq(Tokens), NEW x, NEW F
  PROVE  /\ One(2, LowBytes(v)) \in Seq(Tokens)
         /\ ReadLong(Reading(One(2, LowBytes(v)) \o rest, x, F), f)
            = Reading(rest, LowBytes(v), Put(F, f, v))
<1>1. PICK y \in Int : y = LowBytes(v) /\ Signed(y, Byte * Byte) = v
  BY SignedIs DEF LowBytes
<1>2. PICK r : r = Reading(<<Token(2, y)>> \o rest, x, F)
  OBVIOUS
<1>3. PICK q : q = Reading(rest, y, F)
  OBVIOUS
<1>4. y \in Vals
  BY DEF Vals
<1>5. Take(r, 2) = q
  BY <1>2, <1>3, <1>4, TakeIs
<1>6. q.err = "nil" /\ q.val = y
  BY <1>3, ReadingIs
<1>7. ReadOrderCoord(r, f, FALSE) = [q EXCEPT !.fields[f] = Signed(q.val, Byte * Byte)]
  BY <1>5, <1>6, Zenon DEF ReadOrderCoord
<1>8. ReadField(r, f, FALSE) = ReadOrderCoord(r, f, FALSE)
  BY DEF ReadField, Coordinates
<1>9. With(q, f, v) = Reading(rest, y, Put(F, f, v))
  BY <1>3, Kept
<1>10. With(q, f, v) = [q EXCEPT !.fields[f] = v]
  BY Zenon DEF With
<1>11. Token(2, y) \in Tokens
  BY <1>4 DEF Token, Tokens
<1>12. <<Token(2, y)>> \in Seq(Tokens)
  BY <1>11
<1> QED BY <1>1, <1>2, <1>6, <1>7, <1>8, <1>9, <1>10, <1>12 DEF One, ReadLong

\* A list is read as a field of its order.
LEMMA ListFieldRead ==
  ASSUME NEW list \in Seq(Boxes), NearBy(list), Len(list) <= MaxRects, NEW omit,
         \A i \in 1 .. Len(list) : omit[i] \in SUBSET MayOmit(list, i),
         NEW rest \in Seq(Tokens), NEW x, NEW F, "rects" \in DOMAIN F, F.numRects = Len(list), NEW delta
  PROVE  /\ WriteRects(list, omit) \in Seq(Tokens)
         /\ ReadField(Reading(WriteRects(list, omit) \o rest, x, F), "rects", delta)
            = Reading(rest, LastRead(list, omit), Put(F, "rects", list))
<1>1. PICK body \in Seq(Tokens) : body = ListBody(list, omit)
  BY ListRead
<1>2. 0 \in Vals /\ Token(2, 0) \in Tokens
  BY DEF Vals, Token, Tokens
<1>3. PICK first : first = <<Token(2, 0)>> /\ first \in Seq(Tokens)
  <2>1. <<Token(2, 0)>> \in Seq(Tokens)
    BY <1>2
  <2> QED BY <2>1
<1>4. WriteRects(list, omit) = first \o body /\ first \o body \in Seq(Tokens)
  <2>1. WriteRects(list, omit) = first \o body
    BY <1>1, <1>3 DEF WriteRects, ListBody, RectParts
  <2> QED BY <1>3, <2>1, ConcatProperties
<1>5. (first \o body) \o rest = first \o (body \o rest)
  <2>1. first \in Seq(Tokens) /\ body \in Seq(Tokens) /\ rest \in Seq(Tokens)
    BY <1>3
  <2> QED BY <2>1, Assoc
<1>6. PICK more \in Seq(Tokens) : more = body \o rest
  BY ConcatProperties
<1>7. PICK r, q : r = Reading(first \o more, x, F) /\ q = Reading(more, 0, F)
  OBVIOUS
<1>8. Take(r, 2) = q
  BY <1>2, <1>3, <1>7, TakeIs
<1>9. q.err = "nil" /\ q.fields = F
  BY <1>7, ReadingIs
<1>10. ReadField(r, "rects", delta) = ReadDeltaRects(q, Len(list))
  <2>1. "rects" \notin Coordinates
    BY DEF Coordinates
  <2> QED BY <1>8, <1>9, <2>1, Zenon DEF ReadField
<1>11. ReadDeltaRects(q, Len(list)) = Reading(rest, LastRead(list, omit), Put(F, "rects", list))
  <2>1. ReadDeltaRects(Reading(ListBody(list, omit) \o rest, 0, F), Len(list))
        = Reading(rest, LastRead(list, omit), Put(F, "rects", list))
    BY ListRead
  <2> QED BY <1>1, <1>6, <1>7, <2>1
<1> QED BY <1>4, <1>5, <1>6, <1>7, <1>10, <1>11

-----------------------------------------------------------------------------
(* One field of an order.                                                  *)
\* The fields of a type, each once, a list right after its length.
FieldList(s) ==
    /\ s \in Seq(Fields) /\ Len(s) \in 5 .. 9
    /\ \A j, k \in 1 .. Len(s) : s[j] = s[k] => j = k
    /\ \A k \in 1 .. Len(s) : s[k] = "rects" => k > 1 /\ s[k - 1] = "numRects"

\* The lists of fields of all types are such lists.
LEMMA FieldLists == \A t \in Types : FieldList(FieldsOf(t))
<1>1. FieldList(FieldsOf("DstBlt"))
  BY DEF FieldList, FieldsOf, Fields, Coordinates
<1>2. FieldList(FieldsOf("ScrBlt"))
  BY DEF FieldList, FieldsOf, Fields, Coordinates
<1>3. FieldList(FieldsOf("OpaqueRect"))
  BY DEF FieldList, FieldsOf, Fields, Coordinates
<1>4. FieldList(FieldsOf("MultiDstBlt"))
  BY DEF FieldList, FieldsOf, Fields, Coordinates
<1>5. FieldList(FieldsOf("MultiScrBlt"))
  BY DEF FieldList, FieldsOf, Fields, Coordinates
<1>6. FieldList(FieldsOf("MultiOpaqueRect"))
  BY DEF FieldList, FieldsOf, Fields, Coordinates
<1> QED BY <1>1, <1>2, <1>3, <1>4, <1>5, <1>6, Zenon DEF Types

\* What the server may write of a field: f is now v, and was w.
ListWritable(list, omit) ==
    /\ list \in Seq(Boxes) /\ NearBy(list) /\ Len(list) <= MaxRects
    /\ \A i \in 1 .. Len(list) : omit[i] \in SUBSET MayOmit(list, i)
Writable(f, old, new, delta, omit) ==
    /\ f \in Coordinates => /\ new[f] \in Int16 /\ old[f] \in Int
                            /\ delta => new[f] - old[f] \in -(Byte \div 2) .. (Byte \div 2) - 1
    /\ f = "rects" => ListWritable(new.rects, omit)
    /\ f \notin Coordinates \cup {"rects"} => new[f] \in Int

\* Every field is read as it was written (ReadField).
LEMMA FieldRead ==
  ASSUME NEW f \in Fields, NEW old, NEW new, NEW delta \in BOOLEAN, NEW omit, Writable(f, old, new, delta, omit),
         NEW rest \in Seq(Tokens), NEW x, NEW F, DOMAIN F = Fields,
         f \in Coordinates => F[f] = old[f],
         f = "rects" => F.numRects = Len(new.rects)
  PROVE  /\ WriteField(f, old, new, delta, omit) \in Seq(Tokens)
         /\ \E y : ReadField(Reading(WriteField(f, old, new, delta, omit) \o rest, x, F), f, delta)
                   = Reading(rest, y, Put(F, f, new[f]))
<1>1. CASE f \in Coordinates /\ delta = TRUE
  <2>0. f \in Coordinates /\ f # "rects"
    BY <1>1 DEF Coordinates
  <2>1. PICK v \in Int, was \in Int : v = new[f] /\ was = old[f] /\ F[f] = was
                                      /\ v - was \in -(Byte \div 2) .. (Byte \div 2) - 1
    <3>1. Int16 \subseteq Int
      BY DEF Int16
    <3> QED BY <1>1, <3>1 DEF Writable
  <2>10. F[f] = was /\ v - was \in -(Byte \div 2) .. (Byte \div 2) - 1
    BY <2>1
  <2>2. WriteField(f, old, new, TRUE, omit) = One(1, LowByte(v - was))
    BY <2>0, <2>1, Zenon DEF WriteField, One, LowByte, LowBytes
  <2>3. One(1, LowByte(v - was)) \in Seq(Tokens)
    BY <2>0, <2>10, ShortCoordinateRead
  <2>4. ReadShort(Reading(One(1, LowByte(v - was)) \o rest, x, F), f)
        = Reading(rest, LowByte(v - was), Put(F, f, v))
    BY <2>0, <2>10, ShortCoordinateRead
  <2> QED BY <1>1, <2>1, <2>2, <2>3, <2>4 DEF ReadShort
<1>2. CASE f \in Coordinates /\ delta = FALSE
  <2>0. f \in Coordinates /\ f # "rects"
    BY <1>2 DEF Coordinates
  <2>1. PICK v \in Int16 : v = new[f]
    BY <1>2 DEF Writable
  <2>2. WriteField(f, old, new, FALSE, omit) = One(2, LowBytes(v))
    BY <2>0, <2>1, Zenon DEF WriteField, One, LowByte, LowBytes
  <2>3. One(2, LowBytes(v)) \in Seq(Tokens)
    BY <2>0, LongCoordinateRead
  <2>4. ReadLong(Reading(One(2, LowBytes(v)) \o rest, x, F), f)
        = Reading(rest, LowBytes(v), Put(F, f, v))
    BY <2>0, LongCoordinateRead
  <2> QED BY <1>2, <2>1, <2>2, <2>3, <2>4 DEF ReadLong
<1>3. CASE f = "rects"
  <2>1. PICK list \in Seq(Boxes) : list = new.rects
    BY <1>3 DEF Writable, ListWritable
  <2>2. ListWritable(list, omit) /\ "rects" \in DOMAIN F /\ F.numRects = Len(list)
    BY <1>3, <2>1 DEF Writable
  <2>3. WriteField(f, old, new, delta, omit) = WriteRects(list, omit)
    <3>1. "rects" \notin Coordinates
      BY DEF Coordinates
    <3> QED BY <1>3, <2>1, <3>1, Zenon DEF WriteField
  <2>4. NearBy(list) /\ Len(list) <= MaxRects /\ \A i \in 1 .. Len(list) : omit[i] \in SUBSET MayOmit(list, i)
    BY <2>2 DEF ListWritable
  <2>5. WriteRects(list, omit) \in Seq(Tokens)
    BY <2>2, <2>4, ListFieldRead
  <2>6. ReadField(Reading(WriteRects(list, omit) \o rest, x, F), "rects", delta)
        = Reading(rest, LastRead(list, omit), Put(F, "rects", list))
    BY <2>2, <2>4, ListFieldRead
  <2> QED BY <1>3, <2>1, <2>3, <2>5, <2>6
<1>4. CASE f \notin Coordinates \cup {"rects"}
  <2>1. PICK v \in Int : v = new[f]
    BY <1>4 DEF Writable
  <2>2. WriteField(f, old, new, delta, omit) = One(1, v)
    BY <1>4, <2>1, Zenon DEF WriteField, One
  <2>3. Token(1, v) \in Tokens
    BY DEF Token, Tokens, Vals
  <2>4. One(1, v) \in Seq(Tokens)
    BY <2>3 DEF One
  <2>5. ReadField(Reading(One(1, v) \o rest, x, F), f, delta) = Reading(rest, v, Put(F, f, v))
    BY <1>4, NumberRead
  <2> QED BY <2>1, <2>2, <2>4, <2>5
<1> QED BY <1>1, <1>2, <1>3, <1>4

-----------------------------------------------------------------------------
(* All fields of an order.                                                 *)
\* g is the reading of the first n fields listed in s, ReadFields' function.
FieldReader(g, r, s, flags, delta, n) ==
    g = [k \in 0 .. n |->
            IF k = 0 THEN r
            ELSE IF k \in flags THEN ReadField(g[k - 1], s[k], delta) ELSE g[k - 1]]

\* There is such a function for any number of fields.
LEMMA FieldReaderExists ==
  ASSUME NEW r, NEW s, NEW flags, NEW delta
  PROVE  \A n \in Nat : \E g : FieldReader(g, r, s, flags, delta, n)
<1> DEFINE D == {n \in Nat : \E g : FieldReader(g, r, s, flags, delta, n)}
           Next0(acc, k) == IF k \in flags THEN ReadField(acc, s[k], delta) ELSE acc
<1>0. \A g : \A n \in Nat :
          (/\ g = [k \in 0 .. n |-> g[k]] /\ g[0] = r /\ \A k \in 1 .. n : g[k] = Next0(g[k - 1], k))
          => FieldReader(g, r, s, flags, delta, n)
  <2> TAKE g
  <2> TAKE n \in Nat
  <2> HAVE /\ g = [k \in 0 .. n |-> g[k]] /\ g[0] = r /\ \A k \in 1 .. n : g[k] = Next0(g[k - 1], k)
  <2>1. ASSUME NEW k \in 0 .. n
        PROVE  g[k] = IF k = 0 THEN r ELSE IF k \in flags THEN ReadField(g[k - 1], s[k], delta) ELSE g[k - 1]
    <3>1. CASE k = 0
      BY <3>1
    <3>2. CASE k # 0
      <4>1. k \in 1 .. n
        BY <3>2
      <4>2. g[k] = Next0(g[k - 1], k)
        BY <4>1
      <4> QED BY <3>2, <4>2
    <3> QED BY <3>1, <3>2
  <2>2. g = [k \in 0 .. n |-> IF k = 0 THEN r
                               ELSE IF k \in flags THEN ReadField(g[k - 1], s[k], delta) ELSE g[k - 1]]
    BY <2>1
  <2> QED BY <2>2 DEF FieldReader
<1>1. 0 \in D
  <2> DEFINE g == [k \in 0 .. 0 |-> r]
  <2>1. FieldReader(g, r, s, flags, delta, 0)
    <3>1. g = [k \in 0 .. 0 |-> g[k]] /\ g[0] = r /\ \A k \in 1 .. 0 : g[k] = Next0(g[k - 1], k)
      OBVIOUS
    <3> HIDE DEF g, Next0
    <3> QED BY <1>0, <3>1
  <2> QED BY <2>1
<1>2. ASSUME NEW n \in Nat, n \in D PROVE n + 1 \in D
  <2>1. PICK g : FieldReader(g, r, s, flags, delta, n)
    BY <1>2
  <2> DEFINE more == [k \in 0 .. n + 1 |-> IF k <= n THEN g[k] ELSE Next0(g[n], n + 1)]
  <2>2. g[0] = r /\ \A k \in 1 .. n : g[k] = Next0(g[k - 1], k)
    BY <2>1 DEF FieldReader
  <2>3. ASSUME NEW k \in 1 .. n + 1 PROVE more[k] = Next0(more[k - 1], k)
    <3>1. CASE k <= n
      <4>1. k \in 1 .. n /\ k \in 0 .. n + 1 /\ k - 1 \in 0 .. n + 1 /\ k - 1 <= n
        BY <3>1
      <4>2. more[k] = g[k] /\ more[k - 1] = g[k - 1]
        BY <3>1, <4>1
      <4> HIDE DEF more, Next0
      <4> QED BY <2>2, <4>1, <4>2
    <3>2. CASE k = n + 1
      <4>1. k \in 0 .. n + 1 /\ k - 1 \in 0 .. n + 1 /\ k - 1 = n /\ ~(k <= n)
        BY <3>2
      <4>2. more[k] = Next0(g[n], n + 1) /\ more[k - 1] = g[n]
        BY <4>1
      <4> HIDE DEF more, Next0
      <4> QED BY <3>2, <4>2
    <3> QED BY <3>1, <3>2
  <2>4. more = [k \in 0 .. n + 1 |-> more[k]] /\ more[0] = r
    BY <2>2
  <2> HIDE DEF more, Next0
  <2>5. FieldReader(more, r, s, flags, delta, n + 1)
    <3>1. PICK m \in Nat : m = n + 1
      OBVIOUS
    <3>2. more = [k \in 0 .. m |-> more[k]] /\ more[0] = r /\ \A k \in 1 .. m : more[k] = Next0(more[k - 1], k)
      BY <2>3, <2>4, <3>1
    <3>3. FieldReader(more, r, s, flags, delta, m)
      BY <1>0, <3>2
    <3> QED BY <3>1, <3>3
  <2> QED BY <2>5
<1> HIDE DEF D
<1>3. Nat \subseteq D
  BY <1>1, <1>2, SetInduction
<1> QED BY <1>3 DEF D

\* It is what ReadFields computes.
LEMMA FieldReaderIs ==
  ASSUME NEW r, NEW t, NEW flags, NEW delta
  PROVE  ReadFields(r, t, flags, delta)
         = (CHOOSE g : FieldReader(g, r, FieldsOf(t), flags, delta, Len(FieldsOf(t))))[Len(FieldsOf(t))]
  BY Zenon DEF ReadFields, FieldReader

FieldParts(s, old, new, named, delta, omit) ==
    [k \in DOMAIN s |-> IF s[k] \in named THEN WriteField(s[k], old, new, delta, omit) ELSE <<>>]
\* The fields after the first k of those listed in s.
Merged(s, old, new, k) == [f \in Fields |-> IF \E j \in 1 .. k : s[j] = f THEN new[f] ELSE old[f]]

\* One field more.
LEMMA MergedIs ==
  ASSUME NEW s, FieldList(s), NEW old, NEW new, NEW k \in 1 .. Len(s)
  PROVE  /\ DOMAIN Merged(s, old, new, k - 1) = Fields /\ s[k] \in Fields
         /\ Merged(s, old, new, k - 1)[s[k]] = old[s[k]]
         /\ s[k] = "rects" => Merged(s, old, new, k - 1)["numRects"] = new["numRects"]
         /\ Put(Merged(s, old, new, k - 1), s[k], new[s[k]]) = Merged(s, old, new, k)
         /\ new[s[k]] = old[s[k]] => Merged(s, old, new, k - 1) = Merged(s, old, new, k)
<1>1. /\ s[k] \in Fields /\ \A j \in 1 .. Len(s) : s[j] = s[k] => j = k
      /\ s[k] = "rects" => k > 1 /\ s[k - 1] = "numRects"
  BY DEF FieldList
<1>2. Len(s) \in Nat
  BY DEF FieldList
<1>3. ~ \E j \in 1 .. k - 1 : s[j] = s[k]
  BY <1>1, <1>2
<1>4. Merged(s, old, new, k - 1)[s[k]] = old[s[k]]
  BY <1>1, <1>3 DEF Merged
<1>5. s[k] = "rects" => Merged(s, old, new, k - 1)["numRects"] = new["numRects"]
  <2>1. SUFFICES ASSUME s[k] = "rects" PROVE Merged(s, old, new, k - 1)["numRects"] = new["numRects"]
    OBVIOUS
  <2>2. k - 1 \in 1 .. k - 1 /\ s[k - 1] = "numRects"
    BY <1>1, <2>1
  <2> QED BY <2>2 DEF Merged, Fields
<1>6. \A f \in Fields : (\E j \in 1 .. k : s[j] = f) <=> (f = s[k] \/ \E j \in 1 .. k - 1 : s[j] = f)
  <2>1. ASSUME NEW j \in 1 .. k PROVE j \in 1 .. k - 1 \/ j = k
    OBVIOUS
  <2>2. ASSUME NEW j \in 1 .. k - 1 PROVE j \in 1 .. k
    OBVIOUS
  <2>3. k \in 1 .. k
    OBVIOUS
  <2> QED BY <2>1, <2>2, <2>3
<1>7. Put(Merged(s, old, new, k - 1), s[k], new[s[k]]) = Merged(s, old, new, k)
  BY <1>1, <1>6 DEF Merged, Put
<1>8. new[s[k]] = old[s[k]] => Merged(s, old, new, k - 1) = Merged(s, old, new, k)
  BY <1>3, <1>6 DEF Merged
<1> QED BY <1>1, <1>4, <1>5, <1>7, <1>8 DEF Merged

\* The fields the server may write: those that are named are in range and the
\* others are as they were.
Writes(s, old, new, named, delta, omit) ==
    /\ old = [f \in Fields |-> old[f]]
    /\ \A f \in named : Writable(f, old, new, delta, omit)
    /\ \A k \in 1 .. Len(s) : s[k] \notin named => new[s[k]] = old[s[k]]
    /\ "rects" \in named => new.numRects = Len(new.rects)
Body(t, old, new, named, delta, omit) == FlattenSeq(FieldParts(FieldsOf(t), old, new, named, delta, omit))
Finished(q, F) == q.err = "nil" /\ q.buf = <<>> /\ q.fields = F

\* All fields of an order are read as they were written, those that are not named
\* as they were remembered (ReadFields).
LEMMA FieldsRead ==
  ASSUME NEW t \in Types, NEW old, NEW new, NEW named, NEW delta \in BOOLEAN, NEW omit, NEW x
  PROVE  Writes(FieldsOf(t), old, new, named, delta, omit) =>
         /\ Body(t, old, new, named, delta, omit) \in Seq(Tokens)
         /\ Finished(ReadFields(Reading(Body(t, old, new, named, delta, omit), x, old), t, Numbers(t, named), delta),
                     Merged(FieldsOf(t), old, new, Len(FieldsOf(t))))
<1>w. SUFFICES ASSUME Writes(FieldsOf(t), old, new, named, delta, omit)
      PROVE  /\ Body(t, old, new, named, delta, omit) \in Seq(Tokens)
             /\ Finished(ReadFields(Reading(Body(t, old, new, named, delta, omit), x, old), t, Numbers(t, named), delta),
                         Merged(FieldsOf(t), old, new, Len(FieldsOf(t))))
  OBVIOUS
<1>c. PICK s, flags : s = FieldsOf(t) /\ flags = Numbers(t, named)
  OBVIOUS
<1>a. flags = {k \in DOMAIN s : s[k] \in named}
  BY <1>c DEF Numbers
<1>b. /\ old = [f \in Fields |-> old[f]]
      /\ \A f \in named : Writable(f, old, new, delta, omit)
      /\ \A k \in 1 .. Len(s) : s[k] \notin named => new[s[k]] = old[s[k]]
      /\ "rects" \in named => new.numRects = Len(new.rects)
  BY <1>c, <1>w, Zenon DEF Writes
<1>1. FieldList(s)
  BY <1>c, FieldLists
<1>2. PICK n \in Nat : n = Len(s) /\ \A k \in 1 .. n : s[k] \in Fields
  BY <1>1 DEF FieldList
<1>3. DOMAIN s = 1 .. n
  BY <1>1, <1>2 DEF FieldList
<1>4. PICK parts : parts = FieldParts(s, old, new, named, delta, omit)
  OBVIOUS
<1>5. \A k \in 1 .. n : parts[k] = IF s[k] \in named THEN WriteField(s[k], old, new, delta, omit) ELSE <<>>
  BY <1>3, <1>4 DEF FieldParts
<1>6. ASSUME NEW k \in 1 .. n, NEW rest \in Seq(Tokens), NEW z, s[k] \in named
      PROVE  /\ parts[k] \in Seq(Tokens)
             /\ \E y : ReadField(Reading(parts[k] \o rest, z, Merged(s, old, new, k - 1)), s[k], delta)
                       = Reading(rest, y, Merged(s, old, new, k))
  <2>1. PICK F : F = Merged(s, old, new, k - 1) /\ DOMAIN F = Fields /\ F[s[k]] = old[s[k]]
                 /\ (s[k] = "rects" => F["numRects"] = new["numRects"])
                 /\ Put(F, s[k], new[s[k]]) = Merged(s, old, new, k)
    <3>1. k \in 1 .. Len(s)
      BY <1>2
    <3>2. DOMAIN Merged(s, old, new, k - 1) = Fields /\ Merged(s, old, new, k - 1)[s[k]] = old[s[k]]
      BY <1>1, <1>b, <3>1, MergedIs
    <3>3. s[k] = "rects" => Merged(s, old, new, k - 1)["numRects"] = new["numRects"]
      BY <1>1, <1>b, <3>1, MergedIs
    <3>4. Put(Merged(s, old, new, k - 1), s[k], new[s[k]]) = Merged(s, old, new, k)
      BY <1>1, <3>1, MergedIs
    <3> QED BY <3>2, <3>3, <3>4, Zenon
  <2>2. PICK f \in Fields : f = s[k] /\ f \in named
    BY <1>2, <1>6
  <2>3. /\ Writable(f, old, new, delta, omit) /\ DOMAIN F = Fields
        /\ (f \in Coordinates => F[f] = old[f]) /\ (f = "rects" => F.numRects = Len(new.rects))
    BY <1>b, <2>1, <2>2
  <2>4. WriteField(f, old, new, delta, omit) \in Seq(Tokens)
    BY <2>3, FieldRead
  <2>5. \E y : ReadField(Reading(WriteField(f, old, new, delta, omit) \o rest, z, F), f, delta)
               = Reading(rest, y, Put(F, f, new[f]))
    BY <1>a, <1>b, <1>c, <2>3, FieldRead
  <2>6. parts[k] = WriteField(f, old, new, delta, omit)
    BY <1>5, <2>2
  <2> QED BY <2>1, <2>2, <2>4, <2>5, <2>6
<1>7. parts \in Seq(Seq(Tokens)) /\ Len(parts) = n
  <2>1. ASSUME NEW k \in 1 .. n PROVE parts[k] \in Seq(Tokens)
    <3>1. <<>> \in Seq(Tokens)
      OBVIOUS
    <3> QED BY <1>5, <1>6, <3>1
  <2>2. parts = [k \in 1 .. n |-> parts[k]]
    BY <1>3, <1>4 DEF FieldParts
  <2>3. parts \in [1 .. n -> Seq(Tokens)]
    BY <2>1, <2>2
  <2> QED BY <2>3, FunctionIsSeq
<1>8. PICK whole \in Seq(Tokens) : whole = FlattenSeq(parts)
  BY <1>7, PartsLeft
<1>9. PICK left : Left(left, parts, n, Tokens, whole, <<>>)
  <2>1. <<>> \in Seq(Tokens)
    OBVIOUS
  <2> QED BY <1>7, <1>8, <2>1, PartsLeft
<1>10. /\ \A k \in 1 .. n + 1 : left[k] \in Seq(Tokens)
       /\ left[n + 1] = <<>> /\ left[1] = whole
       /\ \A k \in 1 .. n : left[k] = parts[k] \o left[k + 1]
  <2>1. whole \o <<>> = whole
    BY <1>8
  <2> QED BY <1>9, <2>1 DEF Left
<1>11. PICK r : r = Reading(whole, x, old)
  OBVIOUS
<1>12. PICK g : g = (CHOOSE h : FieldReader(h, r, s, flags, delta, n)) /\ FieldReader(g, r, s, flags, delta, n)
  BY FieldReaderExists, Zenon
<1>13. ReadFields(r, t, flags, delta) = g[n]
  BY <1>2, <1>12, <1>c, FieldReaderIs
<1>14. g[0] = r /\ \A k \in 1 .. n : g[k] = IF k \in flags THEN ReadField(g[k - 1], s[k], delta) ELSE g[k - 1]
  BY <1>12 DEF FieldReader
<1> DEFINE ReadSoFar(k) == \E y : g[k] = Reading(left[k + 1], y, Merged(s, old, new, k))
           T == {k \in Nat : k > n \/ ReadSoFar(k)}
<1>15. 0 \in T
  <2>1. Merged(s, old, new, 0) = old
    BY <1>b DEF Merged
  <2>2. 0 + 1 = 1
    OBVIOUS
  <2>3. g[0] = Reading(left[0 + 1], x, Merged(s, old, new, 0))
    BY <1>10, <1>11, <1>14, <2>1, <2>2
  <2>4. ReadSoFar(0)
    BY <2>3
  <2> HIDE DEF ReadSoFar
  <2> QED BY <2>4
<1>16. ASSUME NEW i \in Nat, i \in T PROVE i + 1 \in T
  <2> HIDE DEF ReadSoFar
  <2>1. CASE i + 1 > n
    BY <2>1
  <2>2. CASE i + 1 <= n
    <3>1. PICK k \in 1 .. n : k = i + 1 /\ k - 1 = i /\ k + 1 \in 1 .. n + 1 /\ ~(i > n)
      BY <1>2, <2>2
    <3>2. PICK z : g[k - 1] = Reading(left[k], z, Merged(s, old, new, k - 1))
      <4>1. ReadSoFar(i)
        BY <1>16, <3>1
      <4> QED BY <3>1, <4>1 DEF ReadSoFar
    <3>3. PICK rest \in Seq(Tokens) : rest = left[k + 1] /\ left[k] = parts[k] \o rest
      BY <1>10, <3>1
    <3>4. CASE s[k] \in named
      <4>1. k \in flags
        BY <1>3, <1>a, <3>4
      <4>2. \E y : ReadField(Reading(parts[k] \o rest, z, Merged(s, old, new, k - 1)), s[k], delta)
                   = Reading(rest, y, Merged(s, old, new, k))
        BY <1>6, <3>4
      <4>3. g[k] = ReadField(Reading(parts[k] \o rest, z, Merged(s, old, new, k - 1)), s[k], delta)
        BY <1>14, <3>2, <3>3, <4>1
      <4>4. ReadSoFar(k)
        BY <3>3, <4>2, <4>3 DEF ReadSoFar
      <4> QED BY <3>1, <4>4
    <3>5. CASE s[k] \notin named
      <4>1. k \notin flags
        BY <1>3, <1>a, <3>5
      <4>2. left[k] = rest
        <5>1. parts[k] = <<>>
          BY <1>5, <3>5
        <5>2. <<>> \o rest = rest
          OBVIOUS
        <5> QED BY <3>3, <5>1, <5>2
      <4>3. Merged(s, old, new, k - 1) = Merged(s, old, new, k)
        BY <1>1, <1>2, <1>b, <3>5, MergedIs
      <4>4. g[k] = Reading(left[k + 1], z, Merged(s, old, new, k))
        BY <1>14, <3>2, <3>3, <4>1, <4>2, <4>3
      <4>5. ReadSoFar(k)
        BY <4>4 DEF ReadSoFar
      <4> QED BY <3>1, <4>5
    <3> QED BY <3>4, <3>5
  <2> QED BY <1>2, <2>1, <2>2
<1> HIDE DEF T, ReadSoFar
<1>17. \E y : g[n] = Reading(left[n + 1], y, Merged(s, old, new, n))
  <2>1. Nat \subseteq T
    BY <1>15, <1>16, SetInduction
  <2>2. ReadSoFar(n)
    BY <2>1 DEF T
  <2> QED BY <2>2 DEF ReadSoFar
<1>18. PICK y : ReadFields(Reading(whole, x, old), t, flags, delta) = Reading(<<>>, y, Merged(s, old, new, n))
  BY <1>10, <1>11, <1>13, <1>17
<1>19. Finished(Reading(<<>>, y, Merged(s, old, new, n)), Merged(s, old, new, n))
  BY ReadingIs DEF Finished
<1>20. whole = Body(t, old, new, named, delta, omit)
  BY <1>4, <1>8, <1>c DEF Body
<1>21. Finished(ReadFields(Reading(whole, x, old), t, flags, delta), Merged(s, old, new, Len(s)))
  BY <1>2, <1>18, <1>19
<1> QED BY <1>8, <1>20, <1>21, <1>c

-----------------------------------------------------------------------------
(* What the server draws.                                                  *)
\* The least of a sequence of numbers.
LEMMA LeastIs ==
  ASSUME NEW n \in Nat \ {0}, NEW e \in [1 .. n -> Int]
  PROVE  /\ \E i \in 1 .. n : LeastOf({e[k] : k \in 1 .. n}) = e[i]
         /\ \A k \in 1 .. n : LeastOf({e[j] : j \in 1 .. n}) <= e[k]
<1> DEFINE T == {m \in Nat : m = 0 \/ m > n \/ \E i \in 1 .. m : \A k \in 1 .. m : e[i] <= e[k]}
<1>1. 0 \in T
  OBVIOUS
<1>2. ASSUME NEW m \in Nat, m \in T PROVE m + 1 \in T
  <2>1. CASE m = 0
    <3>1. CASE n >= 1
      <4>1. 1 \in 1 .. 1 /\ \A k \in 1 .. 1 : e[1] <= e[k]
        BY <3>1
      <4> QED BY <2>1, <4>1
    <3> QED BY <3>1
  <2>2. CASE m + 1 > n
    BY <2>2
  <2>3. CASE m > 0 /\ m + 1 <= n
    <3>1. PICK i \in 1 .. m : \A k \in 1 .. m : e[i] <= e[k]
      BY <1>2, <2>3
    <3>2. \A k \in 1 .. m + 1 : e[k] \in Int /\ (k \in 1 .. m \/ k = m + 1)
      BY <2>3
    <3>3. CASE e[i] <= e[m + 1]
      <4>1. i \in 1 .. m + 1 /\ \A k \in 1 .. m + 1 : e[i] <= e[k]
        BY <3>1, <3>2, <3>3
      <4> QED BY <4>1
    <3>4. CASE ~(e[i] <= e[m + 1])
      <4>1. m + 1 \in 1 .. m + 1 /\ i \in 1 .. m + 1
        OBVIOUS
      <4>2. \A k \in 1 .. m + 1 : e[m + 1] <= e[k]
        BY <3>1, <3>2, <3>4, <4>1
      <4> QED BY <4>1, <4>2
    <3> QED BY <3>3, <3>4
  <2> QED BY <2>1, <2>2, <2>3
<1> HIDE DEF T
<1>3. PICK i \in 1 .. n : \A k \in 1 .. n : e[i] <= e[k]
  <2>1. Nat \subseteq T
    BY <1>1, <1>2, SetInduction
  <2>2. n \in T /\ n \in Nat /\ n # 0 /\ ~(n > n)
    BY <2>1
  <2> QED BY <2>2 DEF T
<1>4. PICK S : S = {e[k] : k \in 1 .. n}
  OBVIOUS
<1>5. e[i] \in S /\ \A y \in S : e[i] <= y
  BY <1>3, <1>4
<1>6. PICK x : x = LeastOf(S) /\ x \in S /\ \A y \in S : x <= y
  BY <1>5 DEF LeastOf
<1> QED BY <1>4, <1>6

\* Bytes have at least eight values.
LEMMA ByteIs == Byte \in Nat /\ Byte >= 8
  BY OrdersAssumption

\* What the server draws into.
Drawable(list) ==
    /\ list \in Seq(Boxes) /\ Len(list) \in 1 .. MaxRects
    /\ \A i \in 1 .. Len(list) : Fits(list[i])
LEMMA DrawnRects == \A list \in Lists \cup {<<r>> : r \in Rects} : Drawable(list)
<1>1. ASSUME NEW list \in Lists PROVE Drawable(list)
  <2>1. list \in Seq(Boxes) /\ Len(list) \in 1 .. MaxRects
    BY OrdersAssumption, DrawingsFit
  <2>2. ASSUME NEW i \in 1 .. Len(list) PROVE Fits(list[i])
    <3>1. list[i] \in ToSet(list)
      BY <2>1 DEF ToSet
    <3>2. list[i] \in UNION {ToSet(l) : l \in Lists}
      BY <3>1
    <3> QED BY <3>2, DrawingsFit
  <2> QED BY <2>1, <2>2 DEF Drawable
<1>2. ASSUME NEW r \in Rects PROVE Drawable(<<r>>)
  <2>1. r \in Boxes /\ Fits(r) /\ 1 \in 1 .. MaxRects
    BY OrdersAssumption, DrawingsFit
  <2>2. <<r>> \in Seq(Boxes) /\ Len(<<r>>) = 1 /\ <<r>>[1] = r
    BY <2>1
  <2> QED BY <2>1, <2>2 DEF Drawable
<1> QED BY <1>1, <1>2

\* A dimension of the rectangle around those of a list.
Dims == {<<"left", "width">>, <<"top", "height">>}
Starts(list, p) == {list[i][p] : i \in DOMAIN list}
Ends(list, p, q) == {list[i][p] + list[i][q] : i \in DOMAIN list}
Start(list, p) == LeastOf(Starts(list, p))
End(list, p, q) == -LeastOf({-e : e \in Ends(list, p, q)})

\* Where a list of rectangles begins and ends is in range.
LEMMA SpanIs ==
  ASSUME NEW list, Drawable(list), NEW dim \in Dims, NEW p, NEW q, p = dim[1], q = dim[2]
  PROVE  /\ \E i \in 1 .. Len(list) : Start(list, p) = list[i][p]
         /\ Start(list, p) \in Int /\ End(list, p, q) \in Int
         /\ End(list, p, q) \in Int16 /\ 0 <= Start(list, p) /\ Start(list, p) < End(list, p, q)
         /\ Len(list) = 1 => Start(list, p) = list[1][p] /\ End(list, p, q) - Start(list, p) = list[1][q]
<1>1. PICK n \in Nat \ {0} : n = Len(list) /\ DOMAIN list = 1 .. n
  BY DEF Drawable
<1>2. \A i \in 1 .. n : list[i] \in Boxes /\ Fits(list[i])
  BY <1>1 DEF Drawable
<1>3. (p = "left" /\ q = "width") \/ (p = "top" /\ q = "height")
  BY DEF Dims
<1>4. \A i \in 1 .. n : list[i][p] \in Nat /\ list[i][q] \in Nat \ {0} /\ list[i][p] + list[i][q] \in Int16
  BY <1>2, <1>3 DEF Boxes, Fits
<1> DEFINE low == [i \in 1 .. n |-> list[i][p]]
           high == [i \in 1 .. n |-> -(list[i][p] + list[i][q])]
<1>5. low \in [1 .. n -> Int] /\ high \in [1 .. n -> Int]
  BY <1>4
<1>6. Starts(list, p) = {low[i] : i \in 1 .. n}
  BY <1>1 DEF Starts
<1>7. {-e : e \in Ends(list, p, q)} = {high[i] : i \in 1 .. n}
  BY <1>1 DEF Ends
<1>8. \A i \in 1 .. n : low[i] = list[i][p] /\ high[i] = -(list[i][p] + list[i][q])
  OBVIOUS
<1> HIDE DEF low, high
<1>9. PICK i \in 1 .. n : Start(list, p) = low[i]
  BY <1>5, <1>6, LeastIs DEF Start
<1>10. \A k \in 1 .. n : Start(list, p) <= low[k]
  BY <1>5, <1>6, LeastIs DEF Start
<1>11. PICK j \in 1 .. n : End(list, p, q) = -high[j]
  BY <1>5, <1>7, LeastIs DEF End
<1>12. /\ Start(list, p) = list[i][p] /\ End(list, p, q) = list[j][p] + list[j][q]
       /\ Start(list, p) <= list[j][p]
  BY <1>4, <1>8, <1>9, <1>10, <1>11
<1>13. End(list, p, q) \in Int16 /\ 0 <= Start(list, p) /\ Start(list, p) < End(list, p, q)
       /\ Start(list, p) \in Int /\ End(list, p, q) \in Int
  BY <1>4, <1>12
<1>14. n = 1 => Start(list, p) = list[1][p] /\ End(list, p, q) - Start(list, p) = list[1][q]
  BY <1>4, <1>12
<1> QED BY <1>1, <1>12, <1>13, <1>14

\* The bounding rectangle, side by side.
LEMMA BoundingIs ==
  ASSUME NEW list
  PROVE  /\ Bounding(list)["left"] = Start(list, "left") /\ Bounding(list)["top"] = Start(list, "top")
         /\ Bounding(list)["width"] = End(list, "left", "width") - Start(list, "left")
         /\ Bounding(list)["height"] = End(list, "top", "height") - Start(list, "top")
<1>1. ToSet(Box) = Sides
  BY BoxSides
<1>2. Bounding(list)["left"] = Start(list, "left")
  BY <1>1 DEF Bounding, Sides, Start, Starts
<1>3. Bounding(list)["top"] = Start(list, "top")
  BY <1>1 DEF Bounding, Sides, Start, Starts
<1>4. Bounding(list)["width"] = End(list, "left", "width") - Start(list, "left")
  BY <1>1 DEF Bounding, Sides, Start, Starts, End, Ends
<1>5. Bounding(list)["height"] = End(list, "top", "height") - Start(list, "top")
  BY <1>1 DEF Bounding, Sides, Start, Starts, End, Ends
<1> QED BY <1>2, <1>3, <1>4, <1>5

\* What is drawn, and an order type for it.
Fill(d) == d.kind = "fill" /\ d.colour \in Colours /\ d = [kind |-> "fill", rects |-> d.rects, colour |-> d.colour]
Copy(d) == d.kind = "copy" /\ d.by \in Offsets /\ d = [kind |-> "copy", rects |-> d.rects, by |-> d.by]
LEMMA DrawingsAre == \A d \in Drawings : Drawable(d.rects) /\ (Fill(d) \/ Copy(d))
<1>1. PICK L : L = Lists \cup {<<r>> : r \in Rects} /\ \A list \in L : Drawable(list)
  BY DrawnRects
<1>2. ASSUME NEW d \in [kind : {"fill"}, rects : L, colour : Colours] PROVE Drawable(d.rects) /\ Fill(d)
  BY <1>1 DEF Fill
<1>3. ASSUME NEW d \in [kind : {"copy"}, rects : L, by : Offsets] PROVE Drawable(d.rects) /\ Copy(d)
  BY <1>1 DEF Copy
<1> QED BY <1>1, <1>2, <1>3 DEF Drawings

\* The fields an order has for it.
LEMMA FieldValues ==
  ASSUME NEW d \in Drawings, NEW old, NEW new, new = FieldsFor(d, old)
  PROVE  /\ new["left"] = Start(d.rects, "left") /\ new["top"] = Start(d.rects, "top")
         /\ new["width"] = End(d.rects, "left", "width") - Start(d.rects, "left")
         /\ new["height"] = End(d.rects, "top", "height") - Start(d.rects, "top")
         /\ new["rop"] = IF d.kind = "copy" THEN SrcCopy ELSE IF d.colour[1] = 0 THEN Blackness ELSE Whiteness
         /\ d.kind = "fill" => new["r"] = d.colour[1] /\ new["g"] = d.colour[2] /\ new["b"] = d.colour[3]
         /\ d.kind = "copy" => /\ new["xSrc"] = Start(d.rects, "left") + d.by[1]
                               /\ new["ySrc"] = Start(d.rects, "top") + d.by[2]
         /\ new["numRects"] = Len(d.rects) /\ new["rects"] = d.rects
<1>1. ToSet(Box) = {"left", "top", "width", "height"}
  BY BoxSides DEF Sides
<1>2. PICK B : B = Bounding(d.rects) /\ B["left"] = Start(d.rects, "left") /\ B["top"] = Start(d.rects, "top")
               /\ B["width"] = End(d.rects, "left", "width") - Start(d.rects, "left")
               /\ B["height"] = End(d.rects, "top", "height") - Start(d.rects, "top")
  BY BoundingIs
<1>3. new["left"] = B["left"]
  BY <1>1, <1>2 DEF FieldsFor, Fields, Coordinates
<1>4. new["top"] = B["top"]
  BY <1>1, <1>2 DEF FieldsFor, Fields, Coordinates
<1>5. new["width"] = B["width"]
  BY <1>1, <1>2 DEF FieldsFor, Fields, Coordinates
<1>6. new["height"] = B["height"]
  BY <1>1, <1>2 DEF FieldsFor, Fields, Coordinates
<1>7. new["rop"] = IF d.kind = "copy" THEN SrcCopy ELSE IF d.colour[1] = 0 THEN Blackness ELSE Whiteness
  BY <1>1 DEF FieldsFor, Fields, Coordinates
<1>8. d.kind = "fill" => new["r"] = d.colour[1]
  BY <1>1 DEF FieldsFor, Fields, Coordinates
<1>9. d.kind = "fill" => new["g"] = d.colour[2]
  BY <1>1 DEF FieldsFor, Fields, Coordinates
<1>10. d.kind = "fill" => new["b"] = d.colour[3]
  BY <1>1 DEF FieldsFor, Fields, Coordinates
<1>11. d.kind = "copy" => new["xSrc"] = B["left"] + d.by[1]
  BY <1>1, <1>2 DEF FieldsFor, Fields, Coordinates
<1>12. d.kind = "copy" => new["ySrc"] = B["top"] + d.by[2]
  BY <1>1, <1>2 DEF FieldsFor, Fields, Coordinates
<1>13. new["numRects"] = Len(d.rects)
  BY <1>1 DEF FieldsFor, Fields, Coordinates
<1>14. new["rects"] = d.rects
  BY <1>1 DEF FieldsFor, Fields, Coordinates
<1> QED BY <1>2, <1>3, <1>4, <1>5, <1>6, <1>7, <1>8, <1>9, <1>10, <1>11, <1>12, <1>13, <1>14

\* They can be written: numbers of two bytes, and lists that are near by.
LEMMA InRange ==
  ASSUME NEW d \in Drawings, NEW old, NEW new, new = FieldsFor(d, old)
  PROVE  /\ new["left"] \in Int16 /\ new["top"] \in Int16 /\ new["width"] \in Int16 /\ new["height"] \in Int16
         /\ new["rop"] \in Int /\ new["numRects"] \in Int
         /\ d.kind = "fill" => new["r"] \in Int /\ new["g"] \in Int /\ new["b"] \in Int
         /\ d.kind = "copy" => new["xSrc"] \in Int16 /\ new["ySrc"] \in Int16
<1>1. PICK list : list = d.rects /\ Drawable(list)
  BY DrawingsAre
<1>2. Fill(d) \/ Copy(d)
  BY DrawingsAre
<1>3. <<"left", "width">> \in Dims /\ <<"top", "height">> \in Dims
  BY DEF Dims
<1>4. /\ \E i \in 1 .. Len(list) : Start(list, "left") = list[i]["left"]
      /\ Start(list, "left") \in Int /\ End(list, "left", "width") \in Int16
      /\ 0 <= Start(list, "left") /\ Start(list, "left") < End(list, "left", "width")
  BY <1>1, <1>3, SpanIs
<1>5. /\ \E i \in 1 .. Len(list) : Start(list, "top") = list[i]["top"]
      /\ Start(list, "top") \in Int /\ End(list, "top", "height") \in Int16
      /\ 0 <= Start(list, "top") /\ Start(list, "top") < End(list, "top", "height")
  BY <1>1, <1>3, SpanIs
<1>6. PICK h \in Nat : h = (Byte * Byte) \div 2 /\ Int16 = -h .. h - 1
  BY ByteIs DEF Int16
<1>7. new["left"] \in Int16 /\ new["width"] \in Int16
  BY <1>1, <1>4, <1>6, FieldValues
<1>8. new["top"] \in Int16 /\ new["height"] \in Int16
  BY <1>1, <1>5, <1>6, FieldValues
<1>9. new["rop"] \in Int
  <2>1. SrcCopy \in Int /\ Blackness \in Int /\ Whiteness \in Int
    BY ByteIs DEF SrcCopy, Blackness, Whiteness, Full
  <2> QED BY <2>1, FieldValues
<1>10. new["numRects"] \in Int
  BY <1>1, FieldValues DEF Drawable
<1>11. d.kind = "fill" => new["r"] \in Int /\ new["g"] \in Int /\ new["b"] \in Int
  <2>1. d.kind = "fill" => d.colour \in Colours
    BY <1>2 DEF Fill, Copy
  <2>2. \A c \in Colours : c[1] \in Int /\ c[2] \in Int /\ c[3] \in Int
    BY DrawingsFit, ByteIs
  <2> QED BY <2>1, <2>2, FieldValues
<1>12. d.kind = "copy" => new["xSrc"] \in Int16 /\ new["ySrc"] \in Int16
  <2>1. SUFFICES ASSUME d.kind = "copy" PROVE new["xSrc"] \in Int16 /\ new["ySrc"] \in Int16
    OBVIOUS
  <2>2. d.by \in Offsets
    BY <1>2, <2>1 DEF Fill, Copy
  <2>3. \A i \in 1 .. Len(list) : list[i].left + d.by[1] \in Int16 /\ list[i].top + d.by[2] \in Int16
    BY <1>1, <2>2 DEF Drawable, Fits
  <2> QED BY <1>1, <1>4, <1>5, <2>1, <2>3, FieldValues
<1> QED BY <1>7, <1>8, <1>9, <1>10, <1>11, <1>12

-----------------------------------------------------------------------------
(* What the client paints.                                                 *)
\* No rectangle the server draws is empty.
LEMMA AllPositive ==
  ASSUME NEW list \in Seq(Boxes)
  PROVE  Positive(list) = list
<1>1. PICK n \in Nat : n = Len(list) /\ DOMAIN list = 1 .. n
  OBVIOUS
<1>2. PICK parts : parts = [i \in 1 .. n |-> <<list[i]>>]
  OBVIOUS
<1>3. \A i \in 1 .. n : list[i] \in Boxes /\ <<list[i]>> \in Seq(Boxes)
  BY <1>1
<1>4. \A i \in 1 .. n : (IF list[i].width > 0 /\ list[i].height > 0 THEN <<list[i]>> ELSE <<>>) = <<list[i]>>
  <2>1. \A b \in Boxes : b.width > 0 /\ b.height > 0
    BY DEF Boxes
  <2> QED BY <1>3, <2>1
<1>5. Positive(list) = FlattenSeq(parts)
  <2>1. [i \in 1 .. n |-> IF list[i].width > 0 /\ list[i].height > 0 THEN <<list[i]>> ELSE <<>>] = parts
    BY <1>2, <1>4
  <2>2. Positive(list) = FlattenSeq([i \in 1 .. n |-> IF list[i].width > 0 /\ list[i].height > 0
                                                      THEN <<list[i]>> ELSE <<>>])
    BY <1>1 DEF Positive, FlatMap
  <2> QED BY <2>1, <2>2
<1>6. parts \in [1 .. n -> Seq(Boxes)] /\ \A i \in 1 .. n : parts[i] = <<list[i]>>
  BY <1>2, <1>3
<1>7. parts \in Seq(Seq(Boxes)) /\ Len(parts) = n
  BY <1>6, FunctionIsSeq
<1>8. PICK whole \in Seq(Boxes) : whole = FlattenSeq(parts)
  BY <1>7, PartsLeft
<1>9. PICK left : Left(left, parts, n, Boxes, whole, <<>>)
  <2>1. <<>> \in Seq(Boxes)
    OBVIOUS
  <2> QED BY <1>7, <1>8, <2>1, PartsLeft
<1>10. /\ left[n + 1] = <<>> /\ left[1] = whole
       /\ \A i \in 1 .. n : left[i] = <<list[i]>> \o left[i + 1]
  <2>1. whole \o <<>> = whole
    BY <1>8
  <2> QED BY <1>6, <1>9, <2>1 DEF Left
<1> DEFINE T == {k \in Nat : k > n \/ left[(n + 1) - k] = SubSeq(list, (n + 1) - k, n)}
<1>11. 0 \in T
  <2>1. SubSeq(list, n + 1, n) = <<>>
    BY <1>1, SubSeqEmpty
  <2>2. (n + 1) - 0 = n + 1
    OBVIOUS
  <2> QED BY <1>10, <2>1, <2>2
<1>12. ASSUME NEW k \in Nat, k \in T PROVE k + 1 \in T
  <2>1. CASE k + 1 > n
    BY <2>1
  <2>2. CASE k + 1 <= n
    <3>1. PICK i \in 1 .. n : i = (n + 1) - (k + 1) /\ i + 1 = (n + 1) - k /\ ~(k > n)
      <4>1. (n + 1) - (k + 1) \in 1 .. n /\ ((n + 1) - (k + 1)) + 1 = (n + 1) - k /\ ~(k > n)
        BY <2>2
      <4> QED BY <4>1
    <3>2. left[i + 1] = SubSeq(list, i + 1, n)
      BY <1>12, <3>1
    <3>3. left[i] = <<list[i]>> \o SubSeq(list, i + 1, n)
      BY <1>10, <3>2
    <3>4. SubSeq(list, i, n) = <<list[i]>> \o SubSeq(list, i + 1, n)
      <4>1. i \in 1 .. Len(list) /\ n \in i .. Len(list)
        BY <1>1
      <4> QED BY <4>1, SubSeqRecursiveFirst
    <3> QED BY <3>1, <3>3, <3>4
  <2> QED BY <1>1, <2>1, <2>2
<1> HIDE DEF T
<1>13. left[1] = SubSeq(list, 1, n)
  <2>1. Nat \subseteq T
    BY <1>11, <1>12, SetInduction
  <2>2. n \in T /\ ~(n > n) /\ (n + 1) - n = 1
    BY <2>1
  <2> QED BY <2>2 DEF T
<1> QED BY <1>1, <1>5, <1>8, <1>10, <1>13, SubSeqFull

\* The order paints what the server drew.
LEMMA PaintsIt ==
  ASSUME NEW d \in Drawings, NEW t \in TypesFor(d), NEW old, NEW new, new = FieldsFor(d, old), NEW M,
         \A f \in ToSet(FieldsOf(t)) : M[f] = new[f]
  PROVE  Paint(t, M) = d
<1>1. PICK list \in Seq(Boxes) : list = d.rects /\ Drawable(list)
  BY DrawingsAre DEF Drawable
<1>2. Fill(d) \/ Copy(d)
  BY DrawingsAre
<1>3. /\ t \in Types /\ (t \in Single => Len(list) = 1)
      /\ t \in {"ScrBlt", "MultiScrBlt"} <=> d.kind = "copy"
      /\ t \in {"DstBlt", "MultiDstBlt"} => d.colour \in {<<0, 0, 0>>, <<Full, Full, Full>>}
  BY <1>1 DEF TypesFor
<1>4. \A k \in 1 .. Len(FieldsOf(t)) : M[FieldsOf(t)[k]] = new[FieldsOf(t)[k]]
  <2>1. DOMAIN FieldsOf(t) = 1 .. Len(FieldsOf(t))
    BY <1>3, FieldLists DEF FieldList
  <2> QED BY <2>1 DEF ToSet
<1>5. M["left"] = new["left"] /\ M["top"] = new["top"] /\ M["width"] = new["width"] /\ M["height"] = new["height"]
  <2>1. /\ 1 \in 1 .. Len(FieldsOf(t)) /\ 2 \in 1 .. Len(FieldsOf(t))
        /\ 3 \in 1 .. Len(FieldsOf(t)) /\ 4 \in 1 .. Len(FieldsOf(t))
    BY <1>3, FieldLists DEF FieldList
  <2>2. /\ FieldsOf(t)[1] = "left" /\ FieldsOf(t)[2] = "top"
        /\ FieldsOf(t)[3] = "width" /\ FieldsOf(t)[4] = "height"
    BY <1>3 DEF Types, FieldsOf
  <2> QED BY <1>4, <2>1, <2>2
<1>6. ASSUME t \in Single PROVE <<[left |-> M.left, top |-> M.top, width |-> M.width, height |-> M.height]>> = list
  <2>1. Len(list) = 1
    BY <1>3, <1>6
  <2>2. PICK box \in Boxes : box = list[1]
    BY <2>1
  <2>3. list = <<box>>
    BY <2>1, <2>2
  <2>4. box = [left |-> box.left, top |-> box.top, width |-> box.width, height |-> box.height]
    BY DEF Boxes
  <2>5. <<"left", "width">> \in Dims /\ <<"top", "height">> \in Dims
    BY DEF Dims
  <2>6. Start(list, "left") = box.left /\ End(list, "left", "width") - Start(list, "left") = box.width
    BY <1>1, <2>1, <2>2, <2>5, SpanIs
  <2>7. Start(list, "top") = box.top /\ End(list, "top", "height") - Start(list, "top") = box.height
    BY <1>1, <2>1, <2>2, <2>5, SpanIs
  <2>8. M.left = box.left /\ M.top = box.top /\ M.width = box.width /\ M.height = box.height
    BY <1>1, <1>5, <2>6, <2>7, FieldValues
  <2> QED BY <2>3, <2>4, <2>8
<1>7. t \notin Single => M["rects"] = list
  <2>1. t \notin Single => \E k \in 1 .. Len(FieldsOf(t)) : FieldsOf(t)[k] = "rects"
    <3>1. CASE t = "MultiDstBlt"
      BY <3>1 DEF FieldsOf
    <3>2. CASE t = "MultiScrBlt"
      BY <3>2 DEF FieldsOf
    <3>3. CASE t = "MultiOpaqueRect"
      BY <3>3 DEF FieldsOf
    <3> QED BY <1>3, <3>1, <3>2, <3>3 DEF Types, Single
  <2> QED BY <1>1, <1>4, <2>1, FieldValues
<1>8. Positive(IF t \in Single THEN <<[left |-> M.left, top |-> M.top, width |-> M.width, height |-> M.height]>>
               ELSE M.rects) = list
  BY <1>6, <1>7, AllPositive
<1>9. CASE t \in {"DstBlt", "MultiDstBlt"}
  <2>1. M["rop"] = new["rop"]
    <3>1. 5 \in 1 .. Len(FieldsOf(t)) /\ FieldsOf(t)[5] = "rop"
      BY <1>9 DEF FieldsOf
    <3> QED BY <1>4, <3>1
  <2>2. d.kind # "copy" /\ Fill(d)
    BY <1>2, <1>3, <1>9 DEF Fill, Copy
  <2>3. PICK rop : rop = M.rop /\ rop \in {Blackness, Whiteness} /\ d.colour = <<rop, rop, rop>>
    <3>1. M.rop = IF d.colour[1] = 0 THEN Blackness ELSE Whiteness
      BY <2>1, <2>2, FieldValues
    <3>2. Full # 0
      BY ByteIs DEF Full
    <3>3. d.colour = <<0, 0, 0>> \/ d.colour = <<Full, Full, Full>>
      BY <1>3, <1>9
    <3> QED BY <3>1, <3>2, <3>3 DEF Blackness, Whiteness
  <2>4. Paint(t, M) = [kind |-> "fill", rects |-> list, colour |-> <<rop, rop, rop>>]
    BY <1>8, <1>9, <2>3 DEF Paint
  <2> QED BY <1>1, <2>2, <2>3, <2>4 DEF Fill
<1>10. CASE t \in {"OpaqueRect", "MultiOpaqueRect"}
  <2>1. M["r"] = new["r"] /\ M["g"] = new["g"] /\ M["b"] = new["b"]
    <3>1. /\ 5 \in 1 .. Len(FieldsOf(t)) /\ FieldsOf(t)[5] = "r"
          /\ 6 \in 1 .. Len(FieldsOf(t)) /\ FieldsOf(t)[6] = "g"
          /\ 7 \in 1 .. Len(FieldsOf(t)) /\ FieldsOf(t)[7] = "b"
      BY <1>10 DEF FieldsOf
    <3> QED BY <1>4, <3>1
  <2>2. d.kind = "fill" /\ Fill(d)
    BY <1>2, <1>3, <1>10 DEF Fill, Copy
  <2>3. d.colour = <<M.r, M.g, M.b>>
    <3>1. \A c \in Colours : c = <<c[1], c[2], c[3]>>
      BY DrawingsFit
    <3> QED BY <2>1, <2>2, <3>1, FieldValues DEF Fill
  <2>4. Paint(t, M) = [kind |-> "fill", rects |-> list, colour |-> <<M.r, M.g, M.b>>]
    BY <1>8, <1>10 DEF Paint
  <2> QED BY <1>1, <2>2, <2>3, <2>4 DEF Fill
<1>11. CASE t \in {"ScrBlt", "MultiScrBlt"}
  <2>1. M["rop"] = new["rop"] /\ M["xSrc"] = new["xSrc"] /\ M["ySrc"] = new["ySrc"]
    <3>1. /\ 5 \in 1 .. Len(FieldsOf(t)) /\ FieldsOf(t)[5] = "rop"
          /\ 6 \in 1 .. Len(FieldsOf(t)) /\ FieldsOf(t)[6] = "xSrc"
          /\ 7 \in 1 .. Len(FieldsOf(t)) /\ FieldsOf(t)[7] = "ySrc"
      BY <1>11 DEF FieldsOf
    <3> QED BY <1>4, <3>1
  <2>2. d.kind = "copy" /\ Copy(d)
    BY <1>2, <1>3, <1>11 DEF Fill, Copy
  <2>3. M.rop = SrcCopy
    BY <2>1, <2>2, FieldValues
  <2>4. d.by = <<M.xSrc - M.left, M.ySrc - M.top>>
    <3>1. \A b \in Offsets : b = <<b[1], b[2]>> /\ b[1] \in Int /\ b[2] \in Int
      BY DrawingsFit
    <3>2. <<"left", "width">> \in Dims /\ <<"top", "height">> \in Dims
      BY DEF Dims
    <3>3. Start(list, "left") \in Int
      BY <1>1, <3>2, SpanIs
    <3>4. Start(list, "top") \in Int
      BY <1>1, <3>2, SpanIs
    <3>5. M.xSrc - M.left = d.by[1]
      BY <1>1, <1>5, <2>1, <2>2, <3>1, <3>3, FieldValues DEF Copy
    <3>6. M.ySrc - M.top = d.by[2]
      BY <1>1, <1>5, <2>1, <2>2, <3>1, <3>4, FieldValues DEF Copy
    <3> QED BY <2>2, <3>1, <3>5, <3>6 DEF Copy
  <2>5. Paint(t, M) = [kind |-> "copy", rects |-> list, by |-> <<M.xSrc - M.left, M.ySrc - M.top>>]
    BY <1>8, <1>11, <2>3 DEF Paint
  <2> QED BY <1>1, <2>2, <2>4, <2>5 DEF Copy
<1> QED BY <1>3, <1>9, <1>10, <1>11 DEF Types

-----------------------------------------------------------------------------
(* The control byte and the field flags.                                   *)
\* Tokens one after the other, taken from the first on.
Strings == Seq(Tokens)
Cat(a, b) == a \o b
LEMMA Cats == \A a, b, c \in Strings : Cat(a, b) \in Strings /\ Cat(Cat(a, b), c) = Cat(a, Cat(b, c))
  BY Assoc, ConcatProperties DEF Strings, Cat
\* Five parts, taken from the first on.
LEMMA FiveCats ==
  ASSUME NEW a \in Strings, NEW b \in Strings, NEW c \in Strings, NEW d \in Strings, NEW e \in Strings
  PROVE  Cat(Cat(Cat(Cat(a, b), c), d), e) = Cat(a, Cat(b, Cat(c, Cat(d, e))))
<1>1. Cat(d, e) \in Strings /\ Cat(a, b) \in Strings /\ Cat(Cat(a, b), c) \in Strings /\ Cat(c, Cat(d, e)) \in Strings
  BY Cats
<1>2. Cat(Cat(Cat(Cat(a, b), c), d), e) = Cat(Cat(Cat(a, b), c), Cat(d, e))
  BY <1>1, Cats
<1>3. Cat(Cat(Cat(a, b), c), Cat(d, e)) = Cat(Cat(a, b), Cat(c, Cat(d, e)))
  BY <1>1, Cats
<1>4. Cat(Cat(a, b), Cat(c, Cat(d, e))) = Cat(a, Cat(b, Cat(c, Cat(d, e))))
  BY <1>1, Cats
<1> QED BY <1>2, <1>3, <1>4
\* The control byte says what it is made of.
LEMMA ControlIs ==
  ASSUME NEW change \in BOOLEAN, NEW delta \in BOOLEAN, NEW bounds \in BoundsChoices, NEW dropped \in 0 .. 2,
         NEW c, c = ControlByte(change, delta, bounds, dropped)
  PROVE  /\ c \in SUBSET Controls
         /\ "typeChange" \in c <=> change
         /\ "delta" \in c <=> delta
         /\ c \cap {"bounds", "zeroBounds"} = {"bounds"} <=> bounds = "given"
         /\ "bit0" \in c <=> dropped = 1
         /\ "bit1" \in c <=> dropped = 2
<1>1. PICK a, b, x, y, z : /\ a = IF change THEN {"typeChange"} ELSE {}
                           /\ b = IF delta THEN {"delta"} ELSE {}
                           /\ x = IF bounds = "none" THEN {} ELSE {"bounds"}
                           /\ y = IF bounds = "zero" THEN {"zeroBounds"} ELSE {}
                           /\ z = CASE dropped = 0 -> {} [] dropped = 1 -> {"bit0"} [] dropped = 2 -> {"bit1"}
  OBVIOUS
<1>2. c = {"standard"} \cup a \cup b \cup x \cup y \cup z
  BY <1>1 DEF ControlByte
<1>3. (change /\ a = {"typeChange"}) \/ (~change /\ a = {})
  BY <1>1
<1>4. (delta /\ b = {"delta"}) \/ (~delta /\ b = {})
  BY <1>1
<1>5. \/ bounds = "none" /\ x = {} /\ y = {}
      \/ bounds = "zero" /\ x = {"bounds"} /\ y = {"zeroBounds"}
      \/ bounds = "given" /\ x = {"bounds"} /\ y = {}
  BY <1>1 DEF BoundsChoices
<1>6. (dropped = 0 /\ z = {}) \/ (dropped = 1 /\ z = {"bit0"}) \/ (dropped = 2 /\ z = {"bit1"})
  BY <1>1
<1>7. c \in SUBSET Controls
  BY <1>2, <1>3, <1>4, <1>5, <1>6 DEF Controls
<1>8. "typeChange" \in c <=> change
  BY <1>2, <1>3, <1>4, <1>5, <1>6
<1>9. "delta" \in c <=> delta
  BY <1>2, <1>3, <1>4, <1>5, <1>6
<1>10. ("bounds" \in c <=> bounds # "none") /\ ("zeroBounds" \in c <=> bounds = "zero")
  BY <1>2, <1>3, <1>4, <1>5, <1>6
<1>11. c \cap {"bounds", "zeroBounds"} = {"bounds"} <=> bounds = "given"
  BY <1>10 DEF BoundsChoices
<1>12. ("bit0" \in c <=> dropped = 1) /\ ("bit1" \in c <=> dropped = 2)
  BY <1>2, <1>3, <1>4, <1>5, <1>6
<1> QED BY <1>7, <1>8, <1>9, <1>11, <1>12

\* The field flags name the fields that are there.
AllFlags(flags, n) == UNION {flags[j] : j \in 1 .. n}
LEMMA FlagsIs ==
  ASSUME NEW t \in Types, NEW named, NEW dropped \in Droppable(t, Numbers(t, named)),
         NEW n, n = FieldBytes(t) - dropped,
         NEW flags, flags = SubSeq(FlagBytes(t, Numbers(t, named)), 1, n)
  PROVE  /\ n \in Nat /\ dropped \in 0 .. 2 /\ dropped <= FieldBytes(t)
         /\ flags \in [1 .. n -> SUBSET Nat]
         /\ AllFlags(flags, n) = Numbers(t, named)
<1>1. FieldBytes(t) \in 1 .. 2
  BY DEF FieldBytes
<1>2. PICK N : N = Numbers(t, named)
  OBVIOUS
<1>3. /\ dropped \in 0 .. FieldBytes(t)
      /\ \A j \in FieldBytes(t) - dropped + 1 .. FieldBytes(t) : FlagBytes(t, N)[j] = {}
  BY <1>2 DEF Droppable
<1>4. n \in Nat /\ dropped \in 0 .. 2 /\ dropped <= FieldBytes(t) /\ n <= FieldBytes(t)
  BY <1>1, <1>3
<1>5. \A k \in N : k \in Nat /\ ((k - 1) \div 8) + 1 \in 1 .. FieldBytes(t)
  <2>1. DOMAIN FieldsOf(t) = 1 .. Len(FieldsOf(t)) /\ Len(FieldsOf(t)) \in Nat
    BY FieldLists DEF FieldList
  <2>2. Len(FieldsOf(t)) <= 8 \/ (Len(FieldsOf(t)) <= 9 /\ FieldBytes(t) = 2)
    BY DEF Types, FieldsOf, FieldBytes
  <2>3. \A k \in N : k \in 1 .. Len(FieldsOf(t))
    BY <1>2, <2>1 DEF Numbers
  <2>4. \A k \in 1 .. 9 : ((k - 1) \div 8) + 1 \in 1 .. 2 /\ (k <= 8 => ((k - 1) \div 8) + 1 = 1)
    OBVIOUS
  <2> QED BY <1>1, <2>1, <2>2, <2>3, <2>4
<1>6. \A j \in 1 .. FieldBytes(t) : FlagBytes(t, N)[j] = {k \in N : (k - 1) \div 8 = j - 1}
  BY DEF FlagBytes
<1>7. flags = [j \in 1 .. n |-> FlagBytes(t, N)[j]]
  <2>1. flags = [j \in 1 .. (1 + n) - 1 |-> FlagBytes(t, N)[(j + 1) - 1]]
    BY <1>2, <1>4
  <2> QED BY <1>4, <2>1
<1>8. \A j \in 1 .. n : j \in 1 .. FieldBytes(t) /\ flags[j] = {k \in N : (k - 1) \div 8 = j - 1}
  BY <1>1, <1>4, <1>6, <1>7
<1>9. flags \in [1 .. n -> SUBSET Nat]
  <2>1. \A j \in 1 .. n : flags[j] \in SUBSET Nat
    BY <1>5, <1>8
  <2> QED BY <1>7, <2>1
<1>10. ASSUME NEW k \in N PROVE \E j \in 1 .. n : k \in flags[j]
  <2>1. PICK j \in 1 .. FieldBytes(t) : j = ((k - 1) \div 8) + 1 /\ k \in Nat
    BY <1>5
  <2>2. (k - 1) \div 8 = j - 1
    BY <2>1
  <2>3. k \in FlagBytes(t, N)[j]
    BY <1>6, <2>2
  <2>4. j \in 1 .. n
    <3>1. ~(j \in n + 1 .. FieldBytes(t))
      BY <1>3, <1>4, <2>3
    <3> QED BY <1>1, <1>4, <3>1
  <2> QED BY <1>8, <2>2, <2>4
<1>11. UNION {flags[j] : j \in 1 .. n} = N
  BY <1>8, <1>10
<1> QED BY <1>2, <1>4, <1>9, <1>11 DEF AllFlags

-----------------------------------------------------------------------------
(* The front of an order.                                                  *)
\* Three items ahead of a sequence.
LEMMA ThreeThenMore ==
  ASSUME NEW S, NEW a \in S, NEW b \in S, NEW c \in S, NEW rest \in Seq(S)
  PROVE  /\ <<c>> \o rest \in Seq(S) /\ <<b>> \o (<<c>> \o rest) \in Seq(S) /\ <<a, b, c>> \in Seq(S)
         /\ <<a, b, c>> \o rest = <<a>> \o (<<b>> \o (<<c>> \o rest))
<1>0. <<a, b>> \in Seq(S) /\ <<c>> \in Seq(S)
  OBVIOUS
<1>1. PICK p, q : p = <<a, b>> /\ q = <<c>> /\ p \in Seq(S) /\ q \in Seq(S)
  BY <1>0
<1>2. p \o q = <<a, b, c>>
  <2>1. /\ <<a, b, c>> \in Seq(S) /\ Len(<<a, b, c>>) = 3 /\ Len(p) = 2 /\ Len(q) = 1
        /\ <<a, b, c>>[1] = p[1] /\ <<a, b, c>>[2] = p[2] /\ <<a, b, c>>[3] = q[1]
    BY <1>1
  <2>2. /\ p \o q \in Seq(S) /\ Len(p \o q) = 3
        /\ \A i \in 1 .. 3 : (p \o q)[i] = IF i <= 2 THEN p[i] ELSE q[i - 2]
    BY <1>1, <2>1, ConcatProperties
  <2>3. \A i \in 1 .. 3 : (p \o q)[i] = <<a, b, c>>[i]
    BY <2>1, <2>2
  <2> QED BY <2>1, <2>2, <2>3, SeqEqual
<1>3. (p \o q) \o rest = p \o (q \o rest)
  <2>1. p \in Seq(S) /\ q \in Seq(S) /\ rest \in Seq(S)
    BY <1>1
  <2> QED BY <2>1, Assoc
<1>4. PICK r \in Seq(S) : r = <<c>> \o rest
  BY Ahead
<1>5. <<a, b>> \o r = <<a>> \o (<<b>> \o r) /\ <<b>> \o r \in Seq(S)
  BY OneThenMore
<1>6. <<a, b, c>> \in Seq(S)
  OBVIOUS
<1> QED BY <1>1, <1>2, <1>3, <1>4, <1>5, <1>6

\* What the client finds at the front of an order.
LEMMA FrontIs ==
  ASSUME NEW x \in Tokens, NEW rest \in Strings, NEW w, w = <<x>> \o (<<>> \o rest)
  PROVE  w # <<>> /\ Head(w) = x /\ SubSeq(w, 2, Len(w)) = rest
<1>1. w = <<x>> \o rest /\ w \in Seq(Tokens) /\ rest \in Seq(Tokens)
  BY DEF Strings
<1>2. Tail(w) = rest /\ w # <<>> /\ Head(w) = x
  BY <1>1, Ahead
<1>3. SubSeq(w, 2, Len(w)) = Tail(w)
  BY <1>1, <1>2
<1> QED BY <1>2, <1>3

\* The items of a tail.
LEMMA TailIs ==
  ASSUME NEW S, NEW w \in Seq(S), w # <<>>
  PROVE  \A j \in 1 .. Len(w) - 1 : Tail(w)[j] = w[j + 1]
  OBVIOUS

Typed(x, y, rest) == <<x>> \o (<<y>> \o rest)
\* The same of an order with its type.
LEMMA TypedFrontIs ==
  ASSUME NEW x \in Tokens, NEW y \in Tokens, NEW rest \in Strings, NEW w, w = Typed(x, y, rest)
  PROVE  w \in Seq(Tokens) /\ w # <<>> /\ Head(w) = x /\ w[2] = y /\ SubSeq(w, 3, Len(w)) = rest
<1>1. PICK v \in Seq(Tokens) : v = <<y>> \o rest /\ v # <<>> /\ Head(v) = y /\ Tail(v) = rest
  BY Ahead DEF Strings
<1>2. w \in Seq(Tokens) /\ w # <<>> /\ Head(w) = x /\ Tail(w) = v
  <2>1. w = <<x>> \o v
    BY <1>1 DEF Typed
  <2> QED BY <2>1, Ahead
<1>3. w[2] = v[1] /\ Len(v) = Len(w) - 1 /\ Len(w) \in Nat /\ Len(v) \in Nat \ {0}
  BY <1>1, <1>2
<1>4. SubSeq(w, 3, Len(w)) = Tail(v)
  <2>1. SubSeq(w, 3, Len(w)) = [i \in 1 .. Len(w) - 2 |-> w[i + 2]]
    BY <1>2, <1>3
  <2>2. Tail(v) = [i \in 1 .. Len(v) - 1 |-> v[i + 1]]
    BY <1>1, <1>3
  <2>3. \A i \in 1 .. Len(w) - 2 : v[i + 1] = w[i + 2]
    <3>1. \A j \in 1 .. Len(w) - 1 : v[j] = w[j + 1]
      <4>1. \A j \in 1 .. Len(w) - 1 : Tail(w)[j] = w[j + 1]
        BY <1>2, TailIs
      <4> QED BY <1>2, <4>1
    <3>2. \A i \in 1 .. Len(w) - 2 : i + 1 \in 1 .. Len(w) - 1 /\ (i + 1) + 1 = i + 2
      BY <1>3
    <3> QED BY <3>1, <3>2
  <2> QED BY <1>3, <2>1, <2>2, <2>3
<1> QED BY <1>1, <1>2, <1>3, <1>4

TypedFront(w, x, y, rest) ==
    w \in Seq(Tokens) /\ w # <<>> /\ Head(w) = x /\ w[2] = y /\ SubSeq(w, 3, Len(w)) = rest
\* The same for all tokens.
LEMMA TypedFronts == \A x, y \in Tokens, rest \in Strings : TypedFront(Typed(x, y, rest), x, y, rest)
  BY TypedFrontIs DEF TypedFront

\* The bounds are read as they were written.
LEMMA BoundsRead ==
  ASSUME NEW rest \in Strings, NEW x, NEW F
  PROVE  WriteBounds \in Strings /\ ReadBounds(Reading(WriteBounds \o rest, x, F)) = Reading(rest, 1, F)
<1>1. PICK g : g = {<<"left", "abs">>, <<"right", "delta">>}
  OBVIOUS
<1>2. g \in Vals /\ 0 \in Vals /\ 1 \in Vals
  BY <1>1 DEF Vals, BoundsGiven
<1>3. PICK p \in Tokens, q \in Tokens, u \in Tokens : p = Token(1, g) /\ q = Token(2, 0) /\ u = Token(1, 1)
  BY <1>2 DEF Token, Tokens
<1>4. PICK r1 \in Seq(Tokens) : r1 = <<u>> \o rest
  BY Ahead DEF Strings
<1>5. PICK r2 \in Seq(Tokens) : r2 = <<q>> \o r1
  BY Ahead
<1>6. WriteBounds \in Seq(Tokens) /\ WriteBounds \o rest = <<p>> \o r2
  <2>1. WriteBounds = <<p, q, u>>
    BY <1>1, <1>3 DEF WriteBounds
  <2>2. <<p, q, u>> \o rest = <<p>> \o (<<q>> \o (<<u>> \o rest)) /\ <<p, q, u>> \in Seq(Tokens)
    BY ThreeThenMore DEF Strings
  <2> QED BY <1>4, <1>5, <2>1, <2>2
<1>7. Take(Reading(<<p>> \o r2, x, F), 1) = Reading(r2, g, F)
  BY <1>2, <1>3, TakeIs
<1>8. Take(Reading(r2, g, F), 2) = Reading(r1, 0, F)
  BY <1>2, <1>3, <1>5, TakeIs
<1>9. Take(Reading(r1, 0, F), 1) = Reading(rest, 1, F)
  BY <1>2, <1>3, <1>4, TakeIs DEF Strings
<1>10. /\ <<"left", "abs">> \in g
       /\ <<"top", "abs">> \notin g /\ <<"top", "delta">> \notin g
       /\ <<"right", "abs">> \notin g /\ <<"right", "delta">> \in g
       /\ <<"bottom", "abs">> \notin g /\ <<"bottom", "delta">> \notin g
  BY <1>1
<1>11. Reading(r2, g, F).val = g /\ Reading(r2, g, F).err = "nil"
  BY ReadingIs
<1> QED
  <2> DEFINE side(acc, s) == CASE <<s, "abs">> \in g -> Take(acc, 2)
                               [] <<s, "abs">> \notin g /\ <<s, "delta">> \in g -> Take(acc, 1)
                               [] OTHER -> acc
  <2>1. ReadBounds(Reading(<<p>> \o r2, x, F)) = side(side(side(side(Reading(r2, g, F), "left"), "top"), "right"), "bottom")
    BY <1>7, <1>11, Zenon DEF ReadBounds
  <2>2. side(Reading(r2, g, F), "left") = Reading(r1, 0, F)
    BY <1>8, <1>10, Zenon
  <2>3. side(Reading(r1, 0, F), "top") = Reading(r1, 0, F)
    BY <1>10, Zenon
  <2>4. side(Reading(r1, 0, F), "right") = Reading(rest, 1, F)
    BY <1>9, <1>10, Zenon
  <2>5. side(Reading(rest, 1, F), "bottom") = Reading(rest, 1, F)
    BY <1>10, Zenon
  <2> QED BY <1>6, <2>1, <2>2, <2>3, <2>4, <2>5 DEF Strings

FlagsOf(t, named, dropped) == SubSeq(FlagBytes(t, Numbers(t, named)), 1, FieldBytes(t) - dropped)
FlagsFound(q, r, numbers) == q.r = r /\ q.flags = numbers
DropsSaid(control, dropped) == ("bit0" \in control <=> dropped = 1) /\ ("bit1" \in control <=> dropped = 2)
\* The field flags are read, those left out included.
LEMMA FlagsRead ==
  ASSUME NEW t \in Types, NEW named, NEW dropped \in Droppable(t, Numbers(t, named)),
         NEW control, DropsSaid(control, dropped), NEW rest \in Strings, NEW x, NEW F
  PROVE  /\ Bytes(FlagsOf(t, named, dropped)) \in Strings
         /\ FlagsFound(ReadFieldFlags(Reading(Bytes(FlagsOf(t, named, dropped)) \o rest, x, F), t, control),
                       Reading(rest, FlagsOf(t, named, dropped), F), Numbers(t, named))
<1>a. PICK flags : flags = FlagsOf(t, named, dropped) /\ flags = SubSeq(FlagBytes(t, Numbers(t, named)), 1, FieldBytes(t) - dropped)
  BY DEF FlagsOf
<1>b. ("bit0" \in control <=> dropped = 1) /\ ("bit1" \in control <=> dropped = 2)
  BY DEF DropsSaid
<1>c. PICK q : q = ReadFieldFlags(Reading(Bytes(flags) \o rest, x, F), t, control)
  OBVIOUS
<1>1. PICK n \in Nat : n = FieldBytes(t) - dropped
  BY FlagsIs
<1>2. /\ dropped \in 0 .. 2 /\ dropped <= FieldBytes(t)
      /\ flags \in [1 .. n -> SUBSET Nat] /\ AllFlags(flags, n) = Numbers(t, named)
  <2>1. flags = SubSeq(FlagBytes(t, Numbers(t, named)), 1, n)
    BY <1>1, <1>a
  <2> QED BY <1>1, <2>1, FlagsIs
<1>3. FieldBytes(t) \in 1 .. 2
  BY DEF FieldBytes
<1>4. FlagBytesLeft(t, control) = n
  <2>1. CASE dropped = 0
    BY <1>1, <1>3, <1>b, <2>1 DEF FlagBytesLeft
  <2>2. CASE dropped = 1
    BY <1>1, <1>3, <1>b, <2>2 DEF FlagBytesLeft
  <2>3. CASE dropped = 2
    BY <1>1, <1>2, <1>3, <1>b, <2>3 DEF FlagBytesLeft
  <2> QED BY <1>2, <2>1, <2>2, <2>3
<1>5. PICK fl \in [1 .. n -> Vals] : fl = flags
  BY <1>2 DEF Vals
<1>6. Bytes(fl) \in Seq(Tokens) /\ ReadN(Reading(Bytes(fl) \o rest, x, F), n) = Reading(rest, fl, F)
  <2>1. rest \in Seq(Tokens)
    BY DEF Strings
  <2>2. Bytes(fl) \in Seq(Tokens)
    BY BytesAre
  <2>3. ReadN(Reading(Bytes(fl) \o rest, x, F), n) = Reading(rest, fl, F)
    BY <2>1, BytesRead
  <2> QED BY <2>2, <2>3
<1>7. PICK p : p = Reading(rest, fl, F) /\ p.err = "nil" /\ p.val = fl
  BY ReadingIs
<1>8. ReadFieldFlags(Reading(Bytes(fl) \o rest, x, F), t, control)
      = [r |-> p, flags |-> AllFlags(p.val, n)]
  BY <1>4, <1>6, <1>7, Zenon DEF ReadFieldFlags, AllFlags
<1>9. q = [r |-> p, flags |-> AllFlags(flags, n)]
  BY <1>5, <1>7, <1>8, <1>c, Zenon
<1>10. q.r = p /\ q.flags = Numbers(t, named)
  <2>1. q.r = p /\ q.flags = AllFlags(flags, n)
    BY <1>9
  <2> QED BY <1>2, <2>1, Zenon
<1>11. Bytes(flags) \in Strings /\ p = Reading(rest, flags, F)
  BY <1>5, <1>6, <1>7 DEF Strings
<1> QED BY <1>10, <1>11, <1>a, <1>c, Zenon DEF FlagsFound

-----------------------------------------------------------------------------
(* Type and bounds.                                                        *)
\* What the client makes of an order: the steps of DecodePrimaryOrder.
StartOf(w, old) ==
    [buf |-> SubSeq(w, IF "typeChange" \in Head(w).val THEN 3 ELSE 2, Len(w)), val |-> 0,
     fields |-> old, err |-> "nil"]
BoundedOf(r, control) == IF control \cap {"bounds", "zeroBounds"} = {"bounds"} THEN ReadBounds(r) ELSE r
DoneOf(q, t, control) == ReadFields(BoundedOf(q.r, control), t, q.flags, "delta" \in control)

\* The control byte and the type.
LEMMA TypeRead ==
  ASSUME NEW control \in Vals, NEW t \in Types, NEW rest \in Strings, NEW old, NEW w,
         w = Typed(Token(1, control), Token(1, t), rest), "typeChange" \in control
  PROVE  /\ w # <<>> /\ w \in Seq(Tokens) /\ Head(w).val = control /\ w[2].val = t
         /\ StartOf(w, old) = Reading(rest, 0, old)
<1>1. t \in Vals
  BY Zenon DEF Vals
<1>2. Token(1, control) \in Tokens /\ Token(1, control).val = control
  BY DEF Token, Tokens
<1>3. Token(1, t) \in Tokens /\ Token(1, t).val = t
  BY <1>1 DEF Token, Tokens
<1>4. w \in Seq(Tokens) /\ w # <<>> /\ Head(w) = Token(1, control) /\ w[2] = Token(1, t) /\ SubSeq(w, 3, Len(w)) = rest
  <2>1. TypedFront(Typed(Token(1, control), Token(1, t), rest), Token(1, control), Token(1, t), rest)
    BY <1>2, <1>3, TypedFronts
  <2> QED BY <2>1, Zenon DEF TypedFront
<1>6. StartOf(w, old) = [buf |-> rest, val |-> 0, fields |-> old, err |-> "nil"]
  BY <1>2, <1>4, Zenon DEF StartOf
<1> QED BY <1>2, <1>3, <1>4, <1>6 DEF Reading

\* The control byte of an order of the same type as the last.
LEMMA SameTypeRead ==
  ASSUME NEW control \in Vals, NEW rest \in Strings, NEW old, NEW w,
         w = <<Token(1, control)>> \o (<<>> \o rest), "typeChange" \notin control
  PROVE  /\ w # <<>> /\ w \in Seq(Tokens) /\ Head(w).val = control
         /\ StartOf(w, old) = Reading(rest, 0, old)
<1>2. Token(1, control) \in Tokens /\ Token(1, control).val = control
  BY DEF Token, Tokens
<1>4. w # <<>> /\ Head(w) = Token(1, control) /\ SubSeq(w, 2, Len(w)) = rest
  BY <1>2, FrontIs
<1>5. w \in Seq(Tokens)
  <2>1. w = <<Token(1, control)>> \o rest /\ rest \in Seq(Tokens)
    BY DEF Strings
  <2> QED BY <1>2, <2>1, Ahead
<1>6. StartOf(w, old) = [buf |-> rest, val |-> 0, fields |-> old, err |-> "nil"]
  BY <1>2, <1>4, Zenon DEF StartOf
<1> QED BY <1>2, <1>4, <1>5, <1>6 DEF Reading

\* The bounds, where there are any.
BoundsOf(bounds) == IF bounds = "given" THEN WriteBounds ELSE <<>>
AfterBounds(bounds, x) == IF bounds = "given" THEN 1 ELSE x
LEMMA BoundsIn == \A bounds : BoundsOf(bounds) \in Strings
<1>1. <<>> \in Strings
  BY DEF Strings
<1>2. WriteBounds \in Strings
  BY <1>1, BoundsRead
<1> QED BY <1>1, <1>2 DEF BoundsOf
\* The bounds are passed over when they are there.
LEMMA BoundsPassed ==
  ASSUME NEW control, NEW bounds,
         control \cap {"bounds", "zeroBounds"} = {"bounds"} <=> bounds = "given",
         NEW rest \in Strings, NEW x, NEW F
  PROVE  /\ BoundsOf(bounds) \in Strings
         /\ BoundedOf(Reading(BoundsOf(bounds) \o rest, x, F), control) = Reading(rest, AfterBounds(bounds, x), F)
<1>1. CASE bounds # "given"
  <2>1. BoundsOf(bounds) = <<>>
    BY <1>1 DEF BoundsOf
  <2>2. <<>> \o rest = rest /\ <<>> \in Strings
    BY DEF Strings
  <2>3. BoundedOf(Reading(rest, x, F), control) = Reading(rest, x, F)
    BY <1>1, Zenon DEF BoundedOf
  <2> QED BY <1>1, <2>1, <2>2, <2>3 DEF AfterBounds
<1>2. CASE bounds = "given"
  <2>1. BoundsOf(bounds) = WriteBounds
    BY <1>2 DEF BoundsOf
  <2>2. WriteBounds \in Strings /\ ReadBounds(Reading(WriteBounds \o rest, x, F)) = Reading(rest, 1, F)
    BY BoundsRead
  <2>3. BoundedOf(Reading(WriteBounds \o rest, x, F), control) = ReadBounds(Reading(WriteBounds \o rest, x, F))
    BY <1>2, Zenon DEF BoundedOf
  <2> QED BY <1>2, <2>1, <2>2, <2>3 DEF AfterBounds
<1> QED BY <1>1, <1>2

-----------------------------------------------------------------------------
(* A whole order.                                                          *)
Result(t, old, new) == Merged(FieldsOf(t), old, new, Len(FieldsOf(t)))
\* What follows the type in an order.
AfterType(t, old, new, named, delta, bounds, dropped, omit) ==
    Bytes(FlagsOf(t, named, dropped)) \o (BoundsOf(bounds) \o Body(t, old, new, named, delta, omit))

\* The rest of an order is read to its end, and leaves the values the server sent.
LEMMA RestRead ==
  ASSUME NEW t \in Types, NEW old, NEW new, NEW named, NEW delta \in BOOLEAN,
         NEW bounds, NEW dropped \in Droppable(t, Numbers(t, named)), NEW omit, NEW control
  PROVE  /\ "delta" \in control <=> delta
         /\ control \cap {"bounds", "zeroBounds"} = {"bounds"} <=> bounds = "given"
         /\ DropsSaid(control, dropped)
         /\ Writes(FieldsOf(t), old, new, named, delta, omit)
         => /\ AfterType(t, old, new, named, delta, bounds, dropped, omit) \in Strings
            /\ Finished(DoneOf(ReadFieldFlags(Reading(AfterType(t, old, new, named, delta, bounds, dropped, omit), 0, old),
                                              t, control), t, control), Result(t, old, new))
<1>0. SUFFICES ASSUME /\ "delta" \in control <=> delta
                      /\ control \cap {"bounds", "zeroBounds"} = {"bounds"} <=> bounds = "given"
                      /\ DropsSaid(control, dropped),
                      Writes(FieldsOf(t), old, new, named, delta, omit)
      PROVE  /\ AfterType(t, old, new, named, delta, bounds, dropped, omit) \in Strings
             /\ Finished(DoneOf(ReadFieldFlags(Reading(AfterType(t, old, new, named, delta, bounds, dropped, omit), 0, old),
                                               t, control), t, control), Result(t, old, new))
  BY Zenon
<1>1. PICK body \in Strings : body = Body(t, old, new, named, delta, omit)
  BY <1>0, FieldsRead DEF Strings
<1>2. PICK given \in Strings : given = BoundsOf(bounds)
  BY BoundsIn
<1>3. PICK more \in Strings : more = given \o body
  BY ConcatProperties DEF Strings
<1>4. PICK flags : flags = FlagsOf(t, named, dropped)
  OBVIOUS
<1>5. PICK q : q = ReadFieldFlags(Reading(Bytes(flags) \o more, 0, old), t, control)
  OBVIOUS
<1>6. Bytes(flags) \in Strings /\ q.r = Reading(more, flags, old) /\ q.flags = Numbers(t, named)
  <2>1. DropsSaid(control, dropped)
    BY <1>0
  <2>2. /\ Bytes(FlagsOf(t, named, dropped)) \in Strings
        /\ FlagsFound(ReadFieldFlags(Reading(Bytes(FlagsOf(t, named, dropped)) \o more, 0, old), t, control),
                      Reading(more, FlagsOf(t, named, dropped), old), Numbers(t, named))
    BY <2>1, FlagsRead
  <2> QED BY <1>4, <1>5, <2>2, Zenon DEF FlagsFound
<1>7. PICK z : BoundedOf(q.r, control) = Reading(body, z, old)
  <2>1. control \cap {"bounds", "zeroBounds"} = {"bounds"} <=> bounds = "given"
    BY <1>0
  <2>2. BoundedOf(Reading(BoundsOf(bounds) \o body, flags, old), control) = Reading(body, AfterBounds(bounds, flags), old)
    BY <2>1, BoundsPassed
  <2> QED BY <1>2, <1>3, <1>6, <2>2
<1>8. Finished(ReadFields(Reading(body, z, old), t, Numbers(t, named), delta), Result(t, old, new))
  BY <1>0, <1>1, FieldsRead DEF Result
<1>9. DoneOf(q, t, control) = ReadFields(Reading(body, z, old), t, Numbers(t, named), delta)
  <2>1. ("delta" \in control) = delta
    BY <1>0
  <2> QED BY <1>6, <1>7, <2>1, Zenon DEF DoneOf
<1>10. AfterType(t, old, new, named, delta, bounds, dropped, omit) = Bytes(flags) \o more
  BY <1>1, <1>2, <1>3, <1>4, Zenon DEF AfterType
<1>11. Bytes(flags) \o more \in Strings
  BY <1>6, ConcatProperties DEF Strings
<1> QED BY <1>5, <1>8, <1>9, <1>10, <1>11, Zenon

\* An order is the control byte, the type where it changes, and the rest.
TypeOf(t, change) == IF change THEN <<Token(1, t)>> ELSE <<>>
LEMMA OrderSpelled ==
  ASSUME NEW t, NEW old, NEW new, NEW named, NEW change, NEW delta, NEW bounds, NEW dropped, NEW omit
  PROVE  WriteOrder(t, old, new, named, change, delta, bounds, dropped, omit)
         = <<Token(1, ControlByte(change, delta, bounds, dropped))>> \o TypeOf(t, change)
           \o Bytes(FlagsOf(t, named, dropped)) \o BoundsOf(bounds) \o Body(t, old, new, named, delta, omit)
<1>1. FlatMap(LAMBDA f : IF f \in named THEN WriteField(f, old, new, delta, omit) ELSE <<>>, FieldsOf(t))
      = Body(t, old, new, named, delta, omit)
  BY Zenon DEF FlatMap, FieldParts, Body
<1> QED BY <1>1, Zenon DEF WriteOrder, TypeOf, FlagsOf, BoundsOf

\* One token, or none, on the wire.
LEMMA OneToken == <<>> \in Strings /\ \A x \in Tokens : <<x>> \in Strings
  BY DEF Strings
\* The type is at most one token.
LEMMA TypeIn == \A t \in Types, change \in BOOLEAN : TypeOf(t, change) \in Strings
<1> TAKE t \in Types, change \in BOOLEAN
<1>1. t \in Vals
  BY Zenon DEF Vals
<1>2. Token(1, t) \in Tokens
  BY <1>1 DEF Token, Tokens
<1>3. <<Token(1, t)>> \in Strings /\ <<>> \in Strings
  BY <1>2, OneToken, Zenon
<1> QED BY <1>3, Zenon DEF TypeOf

\* The client reads what the server wrote.
OrderDone(w, t, old, change, values) ==
    /\ w # <<>> /\ w \in Seq(Tokens) /\ ("typeChange" \in Head(w).val <=> change)
    /\ change => w[2].val = t
    /\ Finished(DoneOf(ReadFieldFlags(StartOf(w, old), t, Head(w).val), t, Head(w).val), values)
LEMMA OrderRead ==
  ASSUME NEW t \in Types, NEW old, NEW new, NEW named, NEW change \in BOOLEAN, NEW delta \in BOOLEAN,
         NEW bounds \in BoundsChoices, NEW dropped \in Droppable(t, Numbers(t, named)), NEW omit, NEW w
  PROVE  Writes(FieldsOf(t), old, new, named, delta, omit)
         /\ w = WriteOrder(t, old, new, named, change, delta, bounds, dropped, omit)
         => OrderDone(w, t, old, change, Result(t, old, new))
<1>0. SUFFICES ASSUME Writes(FieldsOf(t), old, new, named, delta, omit),
                      w = WriteOrder(t, old, new, named, change, delta, bounds, dropped, omit)
      PROVE  OrderDone(w, t, old, change, Result(t, old, new))
  BY Zenon
<1>1. dropped \in 0 .. 2
  <2>1. FieldBytes(t) \in 1 .. 2
    BY DEF FieldBytes
  <2> QED BY <2>1 DEF Droppable
<1>2. PICK control : control = ControlByte(change, delta, bounds, dropped)
  OBVIOUS
<1>3. /\ control \in SUBSET Controls
      /\ "typeChange" \in control <=> change
      /\ "delta" \in control <=> delta
      /\ control \cap {"bounds", "zeroBounds"} = {"bounds"} <=> bounds = "given"
      /\ "bit0" \in control <=> dropped = 1
      /\ "bit1" \in control <=> dropped = 2
  BY <1>1, <1>2, ControlIs
<1>4. DropsSaid(control, dropped)
  BY <1>3 DEF DropsSaid
<1>5. control \in Vals
  BY <1>3 DEF Vals
<1>6. PICK rest \in Strings : rest = AfterType(t, old, new, named, delta, bounds, dropped, omit)
  BY <1>0, <1>3, <1>4, RestRead, Zenon
<1>7. Finished(DoneOf(ReadFieldFlags(Reading(rest, 0, old), t, control), t, control), Result(t, old, new))
  BY <1>0, <1>3, <1>4, <1>6, RestRead, Zenon
<1>8. w = <<Token(1, control)>> \o (TypeOf(t, change) \o rest)
  <2>1. PICK a \in Strings : a = <<Token(1, control)>>
    <3>1. Token(1, control) \in Tokens
      BY <1>5 DEF Token, Tokens
    <3> QED BY <3>1, OneToken, Zenon
  <2>2. PICK b \in Strings : b = TypeOf(t, change)
    BY TypeIn, Zenon
  <2>3. PICK c \in Strings : c = Bytes(FlagsOf(t, named, dropped))
    <3>1. <<>> \in Strings
      BY DEF Strings
    <3> QED BY <1>4, <3>1, FlagsRead
  <2>4. PICK d \in Strings : d = BoundsOf(bounds)
    BY BoundsIn
  <2>5. PICK e \in Strings : e = Body(t, old, new, named, delta, omit)
    BY <1>0, FieldsRead DEF Strings
  <2>6. w = Cat(Cat(Cat(Cat(a, b), c), d), e)
    BY <1>0, <1>2, <2>1, <2>2, <2>3, <2>4, <2>5, OrderSpelled, Zenon DEF Cat
  <2>7. w = Cat(a, Cat(b, Cat(c, Cat(d, e))))
    BY <2>6, FiveCats
  <2>8. rest = Cat(c, Cat(d, e))
    BY <1>6, <2>3, <2>4, <2>5, Zenon DEF AfterType, Cat
  <2> QED BY <2>1, <2>2, <2>7, <2>8, Zenon DEF Cat
<1>9. w # <<>> /\ w \in Seq(Tokens) /\ Head(w).val = control /\ (change => w[2].val = t)
      /\ StartOf(w, old) = Reading(rest, 0, old)
  <2>1. CASE change
    <3>1. w = Typed(Token(1, control), Token(1, t), rest)
      BY <1>8, <2>1, Zenon DEF TypeOf, Typed
    <3> QED BY <1>3, <1>5, <2>1, <3>1, TypeRead
  <2>2. CASE ~change
    <3>1. w = <<Token(1, control)>> \o (<<>> \o rest)
      BY <1>8, <2>2, Zenon DEF TypeOf
    <3> QED BY <1>3, <1>5, <2>2, <3>1, SameTypeRead
  <2> QED BY <2>1, <2>2
<1> QED BY <1>3, <1>7, <1>9, Zenon DEF OrderDone

-----------------------------------------------------------------------------
(* What the server chooses.                                                *)
\* What either side remembers of the orders of one type.
Memory(F) == F = [f \in Fields |-> F[f]] /\ \A f \in Coordinates : F[f] \in Int

\* The fields each type has beyond the rectangle.
LEMMA TypeFields ==
  ASSUME NEW t \in Types
  PROVE  /\ ToSet(FieldsOf(t)) \subseteq Fields
         /\ ("xSrc" \in ToSet(FieldsOf(t)) \/ "ySrc" \in ToSet(FieldsOf(t))) => t \in {"ScrBlt", "MultiScrBlt"}
         /\ ("r" \in ToSet(FieldsOf(t)) \/ "g" \in ToSet(FieldsOf(t)) \/ "b" \in ToSet(FieldsOf(t)))
            => t \in {"OpaqueRect", "MultiOpaqueRect"}
         /\ ("numRects" \in ToSet(FieldsOf(t)) <=> t \notin Single)
         /\ ("rects" \in ToSet(FieldsOf(t)) <=> t \notin Single)
<1>1. CASE t = "DstBlt"
  BY <1>1 DEF FieldsOf, ToSet, Single, Fields, Coordinates
<1>2. CASE t = "ScrBlt"
  BY <1>2 DEF FieldsOf, ToSet, Single, Fields, Coordinates
<1>3. CASE t = "OpaqueRect"
  BY <1>3 DEF FieldsOf, ToSet, Single, Fields, Coordinates
<1>4. CASE t = "MultiDstBlt"
  BY <1>4 DEF FieldsOf, ToSet, Single, Fields, Coordinates
<1>5. CASE t = "MultiScrBlt"
  BY <1>5 DEF FieldsOf, ToSet, Single, Fields, Coordinates
<1>6. CASE t = "MultiOpaqueRect"
  BY <1>6 DEF FieldsOf, ToSet, Single, Fields, Coordinates
<1> QED BY <1>1, <1>2, <1>3, <1>4, <1>5, <1>6 DEF Types

\* The order names every field that changed, and a list with its length.
LEMMA NamedIs ==
  ASSUME NEW t \in Types, NEW old, NEW new, NEW named \in Named(t, old, new)
  PROVE  /\ named \subseteq ToSet(FieldsOf(t))
         /\ \A f \in ToSet(FieldsOf(t)) : f \notin named => new[f] = old[f]
<1>1. PICK S : S = ToSet(FieldsOf(t)) /\ ("numRects" \in S <=> "rects" \in S)
  BY TypeFields
<1>2. PICK changed : changed = {f \in S : new[f] # old[f]}
  OBVIOUS
<1>3. \/ named = changed \cup (IF changed \cap {"numRects", "rects"} = {} THEN {} ELSE {"numRects", "rects"})
      \/ named = S
  BY <1>1, <1>2 DEF Named
<1>4. named \subseteq S /\ changed \subseteq named
  BY <1>1, <1>2, <1>3
<1> QED BY <1>1, <1>2, <1>4

\* A coordinate of an order is one of what it draws.
LEMMA CoordinateIs ==
  ASSUME NEW d \in Drawings, NEW t \in TypesFor(d), NEW old, NEW new, new = FieldsFor(d, old),
         NEW f \in ToSet(FieldsOf(t))
  PROVE  /\ f \in Coordinates => new[f] \in Int16
         /\ f = "rects" => t \notin Single
         /\ f \notin Coordinates \cup {"rects"} => new[f] \in Int
<1>1. t \in Types /\ (t \in {"ScrBlt", "MultiScrBlt"} <=> d.kind = "copy")
  BY DEF TypesFor
<1>2. d.kind \in {"fill", "copy"}
  BY DrawingsAre DEF Fill, Copy
<1>3. /\ f \in Fields
      /\ f \in {"xSrc", "ySrc"} => d.kind = "copy"
      /\ f \in {"r", "g", "b"} => d.kind = "fill"
      /\ f = "rects" => t \notin Single
  BY <1>1, <1>2, TypeFields
<1>4. f \in Coordinates => new[f] \in Int16
  BY <1>3, InRange DEF Coordinates
<1>5. f \notin Coordinates \cup {"rects"} => new[f] \in Int
  BY <1>3, InRange DEF Coordinates, Fields
<1> QED BY <1>3, <1>4, <1>5

\* Whatever the server draws, and whichever way it writes it, can be written.
LEMMA DrawnWritable ==
  ASSUME NEW d \in Drawings, NEW t \in TypesFor(d), NEW old, NEW new, NEW named, NEW delta \in BOOLEAN, NEW omit
  PROVE  /\ Memory(old) /\ new = FieldsFor(d, old) /\ named \in Named(t, old, new)
         /\ delta => Close(old, new, named)
         /\ \A i \in DOMAIN d.rects : omit[i] \in SUBSET MayOmit(d.rects, i)
         => Writes(FieldsOf(t), old, new, named, delta, omit)
<1>0. SUFFICES ASSUME /\ Memory(old) /\ new = FieldsFor(d, old) /\ named \in Named(t, old, new)
                      /\ delta => Close(old, new, named)
                      /\ \A i \in DOMAIN d.rects : omit[i] \in SUBSET MayOmit(d.rects, i)
      PROVE  Writes(FieldsOf(t), old, new, named, delta, omit)
  BY Zenon
<1>1. t \in Types /\ (t \notin Single => NearBy(d.rects))
  BY DEF TypesFor
<1>2. /\ old = [f \in Fields |-> old[f]] /\ \A f \in Coordinates : old[f] \in Int
  BY <1>0 DEF Memory
<1>3. /\ named \subseteq ToSet(FieldsOf(t))
      /\ \A f \in ToSet(FieldsOf(t)) : f \notin named => new[f] = old[f]
  BY <1>0, <1>1, NamedIs
<1>4. new["numRects"] = Len(d.rects) /\ new["rects"] = d.rects
  BY <1>0, FieldValues
<1>5. ASSUME NEW f \in named PROVE Writable(f, old, new, delta, omit)
  <2>1. /\ f \in Coordinates => new[f] \in Int16
        /\ f = "rects" => t \notin Single
        /\ f \notin Coordinates \cup {"rects"} => new[f] \in Int
    BY <1>0, <1>3, CoordinateIs
  <2>2. f \in Coordinates => (delta => new[f] - old[f] \in -(Byte \div 2) .. (Byte \div 2) - 1)
    BY <1>0 DEF Close
  <2>3. f = "rects" => ListWritable(d.rects, omit)
    <3>1. Drawable(d.rects)
      BY DrawingsAre
    <3>2. d.rects \in Seq(Boxes) /\ Len(d.rects) <= MaxRects /\ DOMAIN d.rects = 1 .. Len(d.rects)
      BY <3>1, OrdersAssumption DEF Drawable
    <3> QED BY <1>0, <1>1, <2>1, <3>2 DEF ListWritable
  <2> QED BY <1>2, <1>4, <2>1, <2>2, <2>3 DEF Writable
<1>6. ASSUME NEW k \in 1 .. Len(FieldsOf(t)), FieldsOf(t)[k] \notin named
      PROVE  new[FieldsOf(t)[k]] = old[FieldsOf(t)[k]]
  <2>1. FieldsOf(t)[k] \in ToSet(FieldsOf(t))
    BY <1>1, FieldLists DEF FieldList, ToSet
  <2> QED BY <1>3, <1>6, <2>1
<1> QED BY <1>2, <1>4, <1>5, <1>6, Zenon DEF Writes

-----------------------------------------------------------------------------
(* The invariant.                                                          *)
\* The values an order leaves.
LEMMA ResultIs ==
  ASSUME NEW t \in Types, NEW old, NEW new
  PROVE  Result(t, old, new) = [f \in Fields |-> IF f \in ToSet(FieldsOf(t)) THEN new[f] ELSE old[f]]
<1>1. PICK s : s = FieldsOf(t) /\ DOMAIN s = 1 .. Len(s)
  BY FieldLists DEF FieldList
<1>2. \A f : (\E j \in 1 .. Len(s) : s[j] = f) <=> f \in ToSet(s)
  BY <1>1 DEF ToSet
<1>3. Result(t, old, new) = [f \in Fields |-> IF \E j \in 1 .. Len(s) : s[j] = f THEN new[f] ELSE old[f]]
  BY <1>1, Zenon DEF Result, Merged
<1> QED BY <1>1, <1>2, <1>3

\* What an order leaves is a memory, and paints what the server drew.
LEMMA ResultKept ==
  ASSUME NEW d \in Drawings, NEW t \in TypesFor(d), NEW old, Memory(old), NEW R,
         R = Result(t, old, FieldsFor(d, old))
  PROVE  Memory(R) /\ Paint(t, R) = d
<1>1. PICK new : new = FieldsFor(d, old)
  OBVIOUS
<1>2. t \in Types
  BY DEF TypesFor
<1>3. R = [f \in Fields |-> IF f \in ToSet(FieldsOf(t)) THEN new[f] ELSE old[f]]
  BY <1>1, <1>2, ResultIs
<1>4. R = [f \in Fields |-> R[f]]
  BY <1>3
<1>5. ASSUME NEW f \in Coordinates PROVE R[f] \in Int
  <2>1. f \in Fields /\ old[f] \in Int
    BY DEF Fields, Memory
  <2>2. f \in ToSet(FieldsOf(t)) => new[f] \in Int
    <3>1. Int16 \subseteq Int
      BY DEF Int16
    <3> QED BY <1>1, <3>1, CoordinateIs
  <2> QED BY <1>3, <2>1, <2>2
<1>6. \A f \in ToSet(FieldsOf(t)) : R[f] = new[f]
  BY <1>2, <1>3, TypeFields
<1>7. Paint(t, R) = d
  BY <1>1, <1>6, PaintsIt
<1> QED BY <1>4, <1>5, <1>7 DEF Memory

\* Nothing is under way: the two sides agree.
Settled ==
    /\ wire = <<>> /\ sent.fields = st /\ sent.type \in {"none", orderType}
    /\ painted = drawing /\ drawing.kind \in {"nothing", "fill", "copy"}
\* An order is under way, and the client will make of it what the server means.
OnItsWay ==
    \E d \in Drawings : \E t \in TypesFor(d) : \E change \in BOOLEAN :
        /\ OrderDone(wire, t, st[t], change, Result(t, st[t], FieldsFor(d, st[t])))
        /\ ~change => t = orderType
        /\ drawing = d /\ sent.type = t
        /\ sent.fields = [st EXCEPT ![t] = Result(t, st[t], FieldsFor(d, st[t]))]
OrdersInv ==
    /\ orderType \in Types /\ inStep = TRUE /\ orders \in 0 .. MaxOrders
    /\ st = [t \in Types |-> st[t]] /\ \A t \in Types : Memory(st[t])
    /\ Settled \/ OnItsWay

\* The invariant holds at first.
LEMMA OrdersBegun == OrdersInit => OrdersInv
<1> SUFFICES ASSUME OrdersInit PROVE OrdersInv
  OBVIOUS
<1>1. st = [t \in Types |-> st[t]] /\ \A t \in Types : st[t] = Zeroed
  BY DEF OrdersInit
<1>2. Memory(Zeroed)
  BY DEF Memory, Zeroed, Fields, Coordinates
<1>3. Settled
  BY DEF OrdersInit, Settled
<1>4. orderType \in Types /\ inStep = TRUE /\ orders \in 0 .. MaxOrders
  BY OrdersAssumption DEF OrdersInit, Types
<1> QED BY <1>1, <1>2, <1>3, <1>4 DEF OrdersInv

\* The bytes the server drops at the end of the field flags are empty.
LEMMA DroppedIs ==
  ASSUME NEW t \in Types, NEW numbers
  PROVE  /\ 0 \in Droppable(t, numbers)
         /\ -LeastOf({-n : n \in Droppable(t, numbers)}) \in Droppable(t, numbers)
<1>1. FieldBytes(t) \in 1 .. 2
  BY DEF FieldBytes
<1>2. 0 \in Droppable(t, numbers) /\ Droppable(t, numbers) \subseteq 0 .. 2
  BY <1>1 DEF Droppable
<1>3. PICK D : D = Droppable(t, numbers)
  OBVIOUS
<1>4. PICK m \in D : \A n \in D : n <= m
  <2>1. CASE 2 \in D
    BY <1>2, <1>3, <2>1
  <2>2. CASE 2 \notin D /\ 1 \in D
    BY <1>2, <1>3, <2>2
  <2>3. CASE 2 \notin D /\ 1 \notin D
    BY <1>2, <1>3, <2>3
  <2> QED BY <2>1, <2>2, <2>3
<1>5. LeastOf({-n : n \in D}) = -m
  <2>1. -m \in {-n : n \in D} /\ \A y \in {-n : n \in D} : -m <= y
    BY <1>2, <1>3, <1>4
  <2>2. \A x \in {-n : n \in D} : (\A y \in {-n : n \in D} : x <= y) => x = -m
    BY <1>2, <1>3, <2>1
  <2>3. PICK S : S = {-n : n \in D}
    OBVIOUS
  <2>4. -m \in S /\ (\A y \in S : -m <= y) /\ \A x \in S : (\A y \in S : x <= y) => x = -m
    BY <2>1, <2>2, <2>3
  <2>5. LeastOf(S) = -m
    BY <2>4 DEF LeastOf
  <2> QED BY <2>3, <2>5
<1>6. -(-m) = m
  BY <1>2, <1>3
<1> QED BY <1>2, <1>3, <1>4, <1>5, <1>6

\* What the server wrote is on its way.
Sends(d, t, old, new, named, change, delta, bounds, dropped, omit) ==
    /\ t # sent.type => change
    /\ delta => Close(old, new, named)
    /\ wire' = WriteOrder(t, old, new, named, change, delta, bounds, dropped, omit)
    /\ drawing' = d
    /\ sent' = [type |-> t, fields |-> [sent.fields EXCEPT ![t] =
                   [f \in Fields |-> IF f \in ToSet(FieldsOf(t)) THEN new[f] ELSE old[f]]]]
OmitOf(d, greedy) == [i \in DOMAIN d.rects |-> IF greedy THEN MayOmit(d.rects, i) ELSE {}]
DroppedOf(t, named, greedy) ==
    IF greedy THEN -LeastOf({-n : n \in Droppable(t, Numbers(t, named))}) ELSE 0
LEMMA DrawsSends ==
  ServerDraws => /\ wire = <<>> /\ orders < MaxOrders /\ orders' = orders + 1
                 /\ UNCHANGED <<orderType, st, painted, inStep>>
                 /\ \E d \in Drawings : \E t \in TypesFor(d) :
                    \E named \in Named(t, sent.fields[t], FieldsFor(d, sent.fields[t])), change \in BOOLEAN,
                       delta \in BOOLEAN, bounds \in BoundsChoices, greedy \in BOOLEAN :
                       Sends(d, t, sent.fields[t], FieldsFor(d, sent.fields[t]), named, change, delta, bounds,
                             DroppedOf(t, named, greedy), OmitOf(d, greedy))
  BY Zenon DEF ServerDraws, Sends, OmitOf, DroppedOf

\* An order the server writes is one the client will read as it was meant.
LEMMA DrawsKeeps ==
  ASSUME OrdersInv, ServerDraws
  PROVE  OrdersInv'
<1>1. wire = <<>> /\ orders < MaxOrders /\ orders' = orders + 1 /\ UNCHANGED <<orderType, st, painted, inStep>>
  BY DrawsSends
<1>2. /\ orderType \in Types /\ inStep = TRUE /\ orders \in 0 .. MaxOrders
      /\ st = [t \in Types |-> st[t]] /\ \A t \in Types : Memory(st[t])
  BY DEF OrdersInv
<1>3. sent.fields = st /\ sent.type \in {"none", orderType}
  <2>1. ~OnItsWay
    BY <1>1, Zenon DEF OnItsWay, OrderDone
  <2> QED BY <2>1 DEF OrdersInv, Settled
<1>4. PICK d \in Drawings : \E t \in TypesFor(d) :
                    \E named \in Named(t, sent.fields[t], FieldsFor(d, sent.fields[t])), change \in BOOLEAN,
                       delta \in BOOLEAN, bounds \in BoundsChoices, greedy \in BOOLEAN :
                       Sends(d, t, sent.fields[t], FieldsFor(d, sent.fields[t]), named, change, delta, bounds,
                             DroppedOf(t, named, greedy), OmitOf(d, greedy))
  BY DrawsSends, Zenon
<1>5. PICK t \in TypesFor(d) :
                    \E named \in Named(t, sent.fields[t], FieldsFor(d, sent.fields[t])), change \in BOOLEAN,
                       delta \in BOOLEAN, bounds \in BoundsChoices, greedy \in BOOLEAN :
                       Sends(d, t, sent.fields[t], FieldsFor(d, sent.fields[t]), named, change, delta, bounds,
                             DroppedOf(t, named, greedy), OmitOf(d, greedy))
  BY <1>4, Zenon
<1>6. t \in Types /\ Types = {"DstBlt", "ScrBlt", "OpaqueRect", "MultiDstBlt", "MultiScrBlt", "MultiOpaqueRect"}
  BY DEF TypesFor, Types
<1>7. PICK old : old = st[t] /\ old = sent.fields[t]
  BY <1>3
<1>8. Memory(old)
  BY <1>2, <1>6, <1>7
<1>9. PICK new : new = FieldsFor(d, old)
  OBVIOUS
<1>10. PICK named \in Named(t, old, new), change \in BOOLEAN, delta \in BOOLEAN, bounds \in BoundsChoices, greedy \in BOOLEAN :
          Sends(d, t, old, new, named, change, delta, bounds, DroppedOf(t, named, greedy), OmitOf(d, greedy))
  BY <1>5, <1>7, <1>9, Zenon
<1>11. PICK dropped \in Droppable(t, Numbers(t, named)) : dropped = DroppedOf(t, named, greedy)
  BY <1>6, DroppedIs DEF DroppedOf
<1>12. PICK omit : omit = OmitOf(d, greedy) /\ \A i \in DOMAIN d.rects : omit[i] \in SUBSET MayOmit(d.rects, i)
  <2>1. \A i \in DOMAIN d.rects : OmitOf(d, greedy)[i] = IF greedy THEN MayOmit(d.rects, i) ELSE {}
    BY DEF OmitOf
  <2>2. \A i \in DOMAIN d.rects : OmitOf(d, greedy)[i] \in SUBSET MayOmit(d.rects, i)
    BY <2>1
  <2> QED BY <2>2
<1>13. /\ t # sent.type => change
       /\ delta => Close(old, new, named)
       /\ wire' = WriteOrder(t, old, new, named, change, delta, bounds, dropped, omit)
       /\ drawing' = d
       /\ sent' = [type |-> t, fields |-> [sent.fields EXCEPT ![t] =
                   [f \in Fields |-> IF f \in ToSet(FieldsOf(t)) THEN new[f] ELSE old[f]]]]
  BY <1>10, <1>11, <1>12, Zenon DEF Sends
<1>14. Writes(FieldsOf(t), old, new, named, delta, omit)
  BY <1>8, <1>9, <1>12, <1>13, DrawnWritable
<1>15. OrderDone(wire', t, old, change, Result(t, old, new))
  <2>1. PICK w : w = wire'
    OBVIOUS
  <2>2. w = WriteOrder(t, old, new, named, change, delta, bounds, dropped, omit)
    BY <1>13, <2>1
  <2>3. OrderDone(w, t, old, change, Result(t, old, new))
    BY <1>6, <1>14, <2>2, OrderRead
  <2> QED BY <2>1, <2>3
<1>16. PICK R : R = Result(t, old, new) /\ R = [f \in Fields |-> IF f \in ToSet(FieldsOf(t)) THEN new[f] ELSE old[f]]
  BY <1>6, ResultIs
<1>17. sent'.type = t /\ sent'.fields = [st EXCEPT ![t] = R]
  <2>1. sent' = [type |-> t, fields |-> [st EXCEPT ![t] = R]]
    BY <1>3, <1>13, <1>16
  <2> QED BY <2>1
<1>18. ~change => t = orderType'
  BY <1>1, <1>3, <1>6, <1>13
<1>19. OnItsWay'
  <2>1. st'[t] = old /\ Result(t, st'[t], FieldsFor(d, st'[t])) = R /\ st' = st
    BY <1>1, <1>7, <1>9, <1>16
  <2>2. /\ OrderDone(wire', t, st'[t], change, Result(t, st'[t], FieldsFor(d, st'[t])))
        /\ ~change => t = orderType'
        /\ drawing' = d /\ sent'.type = t
        /\ sent'.fields = [st' EXCEPT ![t] = Result(t, st'[t], FieldsFor(d, st'[t]))]
    BY <1>13, <1>15, <1>16, <1>17, <1>18, <2>1
  <2>3. \E change0 \in BOOLEAN :
          /\ OrderDone(wire', t, st'[t], change0, Result(t, st'[t], FieldsFor(d, st'[t])))
          /\ ~change0 => t = orderType'
          /\ drawing' = d /\ sent'.type = t
          /\ sent'.fields = [st' EXCEPT ![t] = Result(t, st'[t], FieldsFor(d, st'[t]))]
    BY <2>2, Zenon
  <2>4. \E t0 \in TypesFor(d) : \E change0 \in BOOLEAN :
          /\ OrderDone(wire', t0, st'[t0], change0, Result(t0, st'[t0], FieldsFor(d, st'[t0])))
          /\ ~change0 => t0 = orderType'
          /\ drawing' = d /\ sent'.type = t0
          /\ sent'.fields = [st' EXCEPT ![t0] = Result(t0, st'[t0], FieldsFor(d, st'[t0]))]
    BY <2>3, Zenon
  <2> QED BY <2>4, Zenon DEF OnItsWay
<1>20. orders' \in 0 .. MaxOrders
  BY <1>1, <1>2, OrdersAssumption
<1> QED BY <1>1, <1>2, <1>19, <1>20 DEF OrdersInv

\* An order the client reads brings the two sides together again.
LEMMA DecodeKeeps ==
  ASSUME OrdersInv, DecodePrimaryOrder
  PROVE  OrdersInv'
<1>1. wire # <<>> /\ wire' = <<>> /\ UNCHANGED <<sent, drawing, orders>>
  BY DEF DecodePrimaryOrder
<1>2. /\ orderType \in Types /\ inStep = TRUE /\ orders \in 0 .. MaxOrders
      /\ st = [t \in Types |-> st[t]] /\ \A t \in Types : Memory(st[t])
  BY DEF OrdersInv
<1>3. OnItsWay
  BY <1>1 DEF OrdersInv, Settled
<1>4. PICK d \in Drawings : \E t \in TypesFor(d) : \E change \in BOOLEAN :
        /\ OrderDone(wire, t, st[t], change, Result(t, st[t], FieldsFor(d, st[t])))
        /\ ~change => t = orderType
        /\ drawing = d /\ sent.type = t
        /\ sent.fields = [st EXCEPT ![t] = Result(t, st[t], FieldsFor(d, st[t]))]
  BY <1>3, Zenon DEF OnItsWay
<1>5. PICK t \in TypesFor(d), change \in BOOLEAN :
        /\ OrderDone(wire, t, st[t], change, Result(t, st[t], FieldsFor(d, st[t])))
        /\ ~change => t = orderType
        /\ drawing = d /\ sent.type = t
        /\ sent.fields = [st EXCEPT ![t] = Result(t, st[t], FieldsFor(d, st[t]))]
  BY <1>4, Zenon
<1>6. t \in Types
  BY DEF TypesFor
<1>7. PICK old : old = st[t] /\ Memory(old)
  BY <1>2, <1>6
<1>8. PICK R : R = Result(t, old, FieldsFor(d, old))
  OBVIOUS
<1>9. Memory(R) /\ Paint(t, R) = d
  BY <1>7, <1>8, ResultKept
<1>10. OrderDone(wire, t, old, change, R)
  BY <1>5, <1>7, <1>8
<1>11. PICK control : control = Head(wire).val
  OBVIOUS
<1>12. PICK done : done = DoneOf(ReadFieldFlags(StartOf(wire, old), t, control), t, control)
  OBVIOUS
<1>13. ("typeChange" \in control <=> change) /\ (change => wire[2].val = t)
  BY <1>10, <1>11, Zenon DEF OrderDone
<1>14. done.err = "nil" /\ done.buf = <<>> /\ done.fields = R
  BY <1>10, <1>11, <1>12, Zenon DEF OrderDone, Finished
<1>15. t = IF "typeChange" \in control THEN wire[2].val ELSE orderType
  BY <1>5, <1>13
<1>16. /\ orderType' = t
       /\ st' = [st EXCEPT ![t] = done.fields]
       /\ inStep' = (done.err = "nil" /\ done.buf = <<>>)
       /\ painted' = Paint(t, done.fields)
  BY <1>7, <1>11, <1>12, <1>15, Zenon DEF DecodePrimaryOrder, DoneOf, StartOf, BoundedOf
<1>17. orderType' \in Types /\ inStep' = TRUE /\ painted' = d /\ st' = [st EXCEPT ![t] = R]
  BY <1>6, <1>9, <1>14, <1>16
<1>18. st' = [u \in Types |-> st'[u]] /\ \A u \in Types : Memory(st'[u])
  <2>1. \A u \in Types : st'[u] = IF u = t THEN R ELSE st[u]
    BY <1>2, <1>17
  <2>2. st' = [u \in Types |-> st'[u]]
    BY <1>2, <1>17
  <2> QED BY <1>2, <1>9, <2>1, <2>2
<1>19. Settled'
  <2>1. sent.fields = [st EXCEPT ![t] = R] /\ sent.type = t /\ drawing = d
    BY <1>5, <1>7, <1>8
  <2>2. d.kind \in {"fill", "copy"}
    BY DrawingsAre DEF Fill, Copy
  <2> QED BY <1>1, <1>16, <1>17, <2>1, <2>2 DEF Settled
<1> QED BY <1>1, <1>2, <1>17, <1>18, <1>19 DEF OrdersInv

\* The invariant implies what is to be shown.
LEMMA OrdersInvGives == OrdersInv => OrdersTypeOK /\ OrdersFaithful
<1> SUFFICES ASSUME OrdersInv PROVE OrdersTypeOK /\ OrdersFaithful
  OBVIOUS
<1>1. /\ orderType \in Types /\ inStep = TRUE /\ orders \in 0 .. MaxOrders
      /\ \A t \in Types : Memory(st[t]) /\ DOMAIN st[t] = Fields
  <2>1. \A F : Memory(F) => DOMAIN F = Fields
    BY DEF Memory
  <2> QED BY <2>1 DEF OrdersInv
<1>2. CASE Settled
  <2>1. OrdersFaithful
    BY <1>1, <1>2 DEF OrdersFaithful, Settled
  <2>2. OrdersTypeOK
    BY <1>1, <1>2 DEF OrdersTypeOK, Settled
  <2> QED BY <2>1, <2>2
<1>3. CASE OnItsWay
  <2>1. PICK d \in Drawings : \E t \in TypesFor(d) : \E change \in BOOLEAN :
        /\ OrderDone(wire, t, st[t], change, Result(t, st[t], FieldsFor(d, st[t])))
        /\ ~change => t = orderType
        /\ drawing = d /\ sent.type = t
        /\ sent.fields = [st EXCEPT ![t] = Result(t, st[t], FieldsFor(d, st[t]))]
    BY <1>3, Zenon DEF OnItsWay
  <2>2. PICK t \in TypesFor(d), change \in BOOLEAN :
        /\ OrderDone(wire, t, st[t], change, Result(t, st[t], FieldsFor(d, st[t])))
        /\ ~change => t = orderType
        /\ drawing = d /\ sent.type = t
        /\ sent.fields = [st EXCEPT ![t] = Result(t, st[t], FieldsFor(d, st[t]))]
    BY <2>1, Zenon
  <2>3. t \in Types
    BY DEF TypesFor
  <2>4. PICK R : R = Result(t, st[t], FieldsFor(d, st[t]))
    OBVIOUS
  <2>5. DOMAIN R = Fields
    BY <2>3, <2>4, ResultIs
  <2>6. wire # <<>> /\ \A i \in 1 .. Len(wire) : wire[i].size \in {1, 2}
    <3>1. wire # <<>> /\ wire \in Seq(Tokens)
      BY <2>2, Zenon DEF OrderDone
    <3>2. \A x \in Tokens : x.size \in {1, 2}
      BY DEF Tokens
    <3>3. \A i \in 1 .. Len(wire) : wire[i] \in Tokens
      BY <3>1
    <3> QED BY <3>1, <3>2, <3>3
  <2>7. d.kind \in {"nothing", "fill", "copy"}
    BY DrawingsAre DEF Fill, Copy
  <2>8. \A u \in Types : DOMAIN sent.fields[u] = Fields
    <3>1. st = [u \in Types |-> st[u]]
      BY DEF OrdersInv
    <3> QED BY <1>1, <2>2, <2>3, <2>4, <2>5, <3>1
  <2> QED BY <1>1, <2>2, <2>3, <2>6, <2>7, <2>8 DEF OrdersTypeOK, OrdersFaithful
<1> QED BY <1>2, <1>3 DEF OrdersInv

\* Whatever the server draws, whichever order it picks for it and however it
\* writes that: the client paints what was drawn, remembers what the server
\* remembers, and reads each order to its last byte (orders.go,
\* decodePrimaryOrder).
THEOREM OrdersPainted == OrdersSpec => [](OrdersTypeOK /\ OrdersFaithful)
<1>1. OrdersInv /\ [OrdersNext]_ordersVars => OrdersInv'
  <2>1. ASSUME OrdersInv, OrdersNext PROVE OrdersInv'
    BY <2>1, DrawsKeeps, DecodeKeeps DEF OrdersNext
  <2>2. ASSUME OrdersInv, UNCHANGED ordersVars PROVE OrdersInv'
    BY <2>2 DEF ordersVars, OrdersInv, Settled, OnItsWay
  <2> QED BY <2>1, <2>2
<1>2. OrdersSpec => []OrdersInv
  BY <1>1, OrdersBegun, PTL DEF OrdersSpec
<1> QED BY <1>2, OrdersInvGives, PTL
=============================================================================

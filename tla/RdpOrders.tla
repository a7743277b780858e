----------------------------- MODULE RdpOrders -----------------------------
(***************************************************************************)
(* The drawing orders of an RDP server (internal/rdp/orders.go).           *)
(*                                                                         *)
(* An order names its fields only where they differ from the last order of *)
(* the same type, coordinates absolutely or as small differences, lists of *)
(* rectangles as differences from one to the next.  The server (external)  *)
(* has something to draw, picks an order for it and a way to write it; the *)
(* client reads it against the values it remembers, and paints.            *)
(*                                                                         *)
(* Bytes have `Byte` values.  A token on the wire is the size of a field   *)
(* in bytes and its value; bit fields are sets of the bits that are 1.     *)
(***************************************************************************)
EXTENDS Integers, Sequences, SequencesExt

CONSTANTS
    Byte,        \* the number of values of a byte (256)
    MaxRects,    \* the longest list of rectangles (45)
    Rects,       \* the rectangles the server draws into
    Lists,       \* the lists of rectangles
    Colours,     \* the colours it fills with, as <<r, g, b>>
    Offsets,     \* the distances it copies over, as <<x, y>>
    MaxOrders    \* bound: orders

ASSUME OrdersAssumption ==
    /\ Byte \in {8, 16, 32, 64, 128, 256}
    /\ MaxRects \in Nat /\ MaxOrders \in Nat
    /\ \A list \in Lists : Len(list) \in 1 .. MaxRects

\* What the server draws is given in bytes and in fields of 16 bits.
Int16 == -((Byte * Byte) \div 2) .. ((Byte * Byte) \div 2) - 1
Boxes == [left : Nat, top : Nat, width : Nat \ {0}, height : Nat \ {0}]
Fits(r) ==
    /\ r.left + r.width \in Int16 /\ r.top + r.height \in Int16
    /\ \A by \in Offsets : r.left + by[1] \in Int16 /\ r.top + by[2] \in Int16
ASSUME DrawingsFit ==
    /\ MaxRects >= 1 /\ Offsets \subseteq Int \X Int
    /\ Colours \subseteq (0 .. Byte - 1) \X (0 .. Byte - 1) \X (0 .. Byte - 1)
    /\ Rects \subseteq Boxes /\ Lists \subseteq Seq(Boxes)
    /\ \A r \in Rects \cup UNION {ToSet(list) : list \in Lists} : Fits(r)

VARIABLES
    sent,        \* the server's memory: the type and the fields it sent last
    drawing,     \* what it drew last
    orders,      \* the number of orders so far
    wire,        \* the order under way
    orderType, st,  \* the client's memory (orderState)
    painted,     \* what the client painted last
    inStep       \* history: every read found what the server wrote

ordersVars == <<sent, drawing, orders, wire, orderType, st, painted, inStep>>

-----------------------------------------------------------------------------
Types == {"DstBlt", "ScrBlt", "OpaqueRect", "MultiDstBlt", "MultiScrBlt", "MultiOpaqueRect"}
Box == <<"left", "top", "width", "height">>
FieldsOf(t) ==
    CASE t = "DstBlt" -> <<"left", "top", "width", "height", "rop">>
      [] t = "ScrBlt" -> <<"left", "top", "width", "height", "rop", "xSrc", "ySrc">>
      [] t = "OpaqueRect" -> <<"left", "top", "width", "height", "r", "g", "b">>
      [] t = "MultiDstBlt" -> <<"left", "top", "width", "height", "rop", "numRects", "rects">>
      [] t = "MultiScrBlt" ->
             <<"left", "top", "width", "height", "rop", "xSrc", "ySrc", "numRects", "rects">>
      [] t = "MultiOpaqueRect" ->
             <<"left", "top", "width", "height", "r", "g", "b", "numRects", "rects">>
FieldBytes(t) == IF t \in {"MultiScrBlt", "MultiOpaqueRect"} THEN 2 ELSE 1
Coordinates == {"left", "top", "width", "height", "xSrc", "ySrc"}
Fields == Coordinates \cup {"rop", "r", "g", "b", "numRects", "rects"}

Full == Byte - 1
Blackness == 0
SrcCopy == 4
Whiteness == Full
Zeroed == [f \in Fields |-> IF f = "rects" THEN <<>> ELSE 0]

OrdersTypeOK ==
    /\ sent.type \in Types \cup {"none"} /\ orderType \in Types
    /\ \A t \in Types : DOMAIN sent.fields[t] = Fields /\ DOMAIN st[t] = Fields
    /\ drawing.kind \in {"nothing", "fill", "copy"} /\ orders \in 0 .. MaxOrders
    /\ \A i \in 1 .. Len(wire) : wire[i].size \in {1, 2}
    /\ inStep \in BOOLEAN

OrdersInit ==
    /\ sent = [type |-> "none", fields |-> [t \in Types |-> Zeroed]]
    /\ drawing = [kind |-> "nothing"] /\ orders = 0 /\ wire = <<>>
    /\ orderType = "DstBlt" /\ st = [t \in Types |-> Zeroed]
    /\ painted = [kind |-> "nothing"] /\ inStep = TRUE

-----------------------------------------------------------------------------
(* The server: how an order is written.                                    *)

Token(size, val) == [size |-> size, val |-> val]
Bytes(vals) == [j \in DOMAIN vals |-> Token(1, vals[j])]
FlatMap(Op(_), s) == FlattenSeq([i \in DOMAIN s |-> Op(s[i])])

\* Six bits and a sign, and a second byte where that is too little.
WriteDelta(v) ==
    IF v \in -(Byte \div 4) .. (Byte \div 4) - 1
    THEN <<Token(1, v % (Byte \div 2))>>
    ELSE <<Token(1, (Byte \div 2) + ((v \div Byte) % (Byte \div 2))), Token(1, v % Byte)>>

\* A rectangle relative to the one before it in its list.
Relative(list, i, f) ==
    IF i > 1 /\ f \in {"left", "top"} THEN list[i][f] - list[i - 1][f] ELSE list[i][f]
MayOmit(list, i) ==
    {f \in ToSet(Box) : IF f \in {"left", "top"} THEN Relative(list, i, f) = 0
                        ELSE IF i > 1 THEN list[i][f] = list[i - 1][f] ELSE list[i][f] = 0}
WriteRect(list, i, omit) ==
    FlatMap(LAMBDA f : IF f \in omit THEN <<>> ELSE WriteDelta(Relative(list, i, f)), Box)
ZeroBits(list, omit) ==
    [j \in 1 .. ((Len(list) + 1) \div 2) |->
        <<omit[2 * j - 1], IF 2 * j > Len(list) THEN {} ELSE omit[2 * j]>>]
WriteRects(list, omit) ==
    <<Token(2, 0)>> \o (Bytes(ZeroBits(list, omit))
                         \o FlattenSeq([i \in DOMAIN list |-> WriteRect(list, i, omit[i])]))

WriteField(f, old, new, delta, omit) ==
    CASE f \in Coordinates /\ delta -> <<Token(1, (new[f] - old[f]) % Byte)>>
      [] f \in Coordinates /\ ~delta -> <<Token(2, new[f] % (Byte * Byte))>>
      [] f = "rects" -> WriteRects(new.rects, omit)
      [] OTHER -> <<Token(1, new[f])>>

\* The fields of an order that draws `d`.
LeastOf(S) == CHOOSE x \in S : \A y \in S : x <= y
Bounding(list) ==
    [f \in ToSet(Box) |->
        LET side == IF f \in {"left", "width"} THEN <<"left", "width">> ELSE <<"top", "height">>
            from == LeastOf({list[i][side[1]] : i \in DOMAIN list})
            ends == {list[i][side[1]] + list[i][side[2]] : i \in DOMAIN list}
        IN  IF f = side[1] THEN from ELSE -LeastOf({-e : e \in ends}) - from]
FieldsFor(d, old) ==
    [f \in Fields |->
        CASE f \in ToSet(Box) -> Bounding(d.rects)[f]
          [] f = "rop" -> IF d.kind = "copy" THEN SrcCopy
                          ELSE IF d.colour[1] = 0 THEN Blackness ELSE Whiteness
          [] f = "r" /\ d.kind = "fill" -> d.colour[1]
          [] f = "g" /\ d.kind = "fill" -> d.colour[2]
          [] f = "b" /\ d.kind = "fill" -> d.colour[3]
          [] f = "xSrc" /\ d.kind = "copy" -> Bounding(d.rects).left + d.by[1]
          [] f = "ySrc" /\ d.kind = "copy" -> Bounding(d.rects).top + d.by[2]
          [] f = "numRects" -> Len(d.rects)
          [] f = "rects" -> d.rects
          [] OTHER -> old[f]]
\* Lists are for rectangles whose differences fit two bytes.
NearBy(list) ==
    \A i \in DOMAIN list, f \in ToSet(Box) :
        Relative(list, i, f) \in -((Byte * Byte) \div 4) .. ((Byte * Byte) \div 4) - 1
Single == {"DstBlt", "ScrBlt", "OpaqueRect"}
TypesFor(d) ==
    {t \in Types :
        /\ IF t \in Single THEN Len(d.rects) = 1 ELSE NearBy(d.rects)
        /\ t \in {"ScrBlt", "MultiScrBlt"} <=> d.kind = "copy"
        /\ t \in {"DstBlt", "MultiDstBlt"} => d.colour \in {<<0, 0, 0>>, <<Full, Full, Full>>}}

\* Clipping bounds: not given, as before, or some sides absolutely and others
\* as differences.
BoundsChoices == {"none", "zero", "given"}
WriteBounds == <<Token(1, {<<"left", "abs">>, <<"right", "delta">>}), Token(2, 0), Token(1, 1)>>

\* The bytes of the field flags; empty ones at the end may be left out.
Numbers(t, named) == {k \in DOMAIN FieldsOf(t) : FieldsOf(t)[k] \in named}
FlagBytes(t, numbers) ==
    [j \in 1 .. FieldBytes(t) |-> {k \in numbers : (k - 1) \div 8 = j - 1}]
Droppable(t, numbers) ==
    {n \in 0 .. FieldBytes(t) :
        \A j \in FieldBytes(t) - n + 1 .. FieldBytes(t) : FlagBytes(t, numbers)[j] = {}}

ControlByte(change, delta, bounds, dropped) ==
    {"standard"} \cup (IF change THEN {"typeChange"} ELSE {})
    \cup (IF delta THEN {"delta"} ELSE {})
    \cup (IF bounds = "none" THEN {} ELSE {"bounds"})
    \cup (IF bounds = "zero" THEN {"zeroBounds"} ELSE {})
    \cup (CASE dropped = 0 -> {} [] dropped = 1 -> {"bit0"} [] dropped = 2 -> {"bit1"})
WriteOrder(t, old, new, named, change, delta, bounds, dropped, omit) ==
    <<Token(1, ControlByte(change, delta, bounds, dropped))>>
    \o (IF change THEN <<Token(1, t)>> ELSE <<>>)
    \o Bytes(SubSeq(FlagBytes(t, Numbers(t, named)), 1, FieldBytes(t) - dropped))
    \o (IF bounds = "given" THEN WriteBounds ELSE <<>>)
    \o FlatMap(LAMBDA f : IF f \in named THEN WriteField(f, old, new, delta, omit) ELSE <<>>, FieldsOf(t))

\* The fields that changed are named, or all of them; the list always comes
\* with its length.
Named(t, old, new) ==
    LET changed == {f \in ToSet(FieldsOf(t)) : new[f] # old[f]}
    IN  {changed \cup (IF changed \cap {"numRects", "rects"} = {} THEN {} ELSE {"numRects", "rects"}),
         ToSet(FieldsOf(t))}
Close(old, new, named) ==
    \A f \in named \cap Coordinates :
        new[f] - old[f] \in -(Byte \div 2) .. (Byte \div 2) - 1
Drawings == [kind : {"fill"}, rects : Lists \cup {<<r>> : r \in Rects}, colour : Colours]
            \cup [kind : {"copy"}, rects : Lists \cup {<<r>> : r \in Rects}, by : Offsets]

ServerDraws ==
    /\ wire = <<>> /\ orders < MaxOrders /\ orders' = orders + 1
    /\ \E d \in Drawings : \E t \in TypesFor(d) :
          LET old == sent.fields[t]
              new == FieldsFor(d, old)
          IN  \E named \in Named(t, old, new), change \in BOOLEAN, delta \in BOOLEAN,
                 bounds \in BoundsChoices, greedy \in BOOLEAN :
                 LET dropped == IF greedy THEN -LeastOf({-n : n \in Droppable(t, Numbers(t, named))}) ELSE 0
                     omit == [i \in DOMAIN d.rects |-> IF greedy THEN MayOmit(d.rects, i) ELSE {}]
                 IN  /\ t # sent.type => change
                     /\ delta => Close(old, new, named)
                     /\ wire' = WriteOrder(t, old, new, named, change, delta, bounds, dropped, omit)
                     /\ drawing' = d
                     /\ sent' = [type |-> t, fields |-> [sent.fields EXCEPT ![t] =
                                    [f \in Fields |-> IF f \in ToSet(FieldsOf(t)) THEN new[f] ELSE old[f]]]]
    /\ UNCHANGED <<orderType, st, painted, inStep>>

-----------------------------------------------------------------------------
(* The client.  A reader holds what is left of the PDU, the value last     *)
(* read, the fields of the order's type and the error of the first read    *)
(* that failed.                                                            *)

Take(r, size) ==
    IF r.err = "nil" /\ r.buf # <<>> /\ Head(r.buf).size = size
    THEN [r EXCEPT !.buf = Tail(@), !.val = Head(r.buf).val]
    ELSE [r EXCEPT !.err = "EOF"]

\* n bytes; the value is the sequence of their values.
ReadN(r, n) ==
    IF r.err = "nil" /\ Len(r.buf) >= n /\ \A j \in 1 .. n : r.buf[j].size = 1
    THEN [r EXCEPT !.buf = SubSeq(@, n + 1, Len(@)), !.val = [j \in 1 .. n |-> r.buf[j].val]]
    ELSE [r EXCEPT !.err = "EOF"]

\* int8 and int16.
Signed(v, values) == IF v >= values \div 2 THEN v - values ELSE v

\* (The mutant adds a difference to the last value read.)
ReadOrderCoordOfWire(r, f, delta) ==
    LET q == Take(r, IF delta THEN 1 ELSE 2)
    IN  IF q.err # "nil" THEN q
        ELSE [q EXCEPT !.fields[f] = Signed(q.val, IF delta THEN Byte ELSE Byte * Byte)]
ReadOrderCoord(r, f, delta) ==
    LET q == Take(r, IF delta THEN 1 ELSE 2)
    IN  IF q.err # "nil" THEN q
        ELSE [q EXCEPT !.fields[f] = IF delta THEN @ + Signed(q.val, Byte)
                                              ELSE Signed(q.val, Byte * Byte)]

ReadOrderDelta(r) ==
    LET q == Take(r, 1)
        six == q.val % (Byte \div 4)
        value == IF (q.val \div (Byte \div 4)) % 2 = 1 THEN six - (Byte \div 4) ELSE six
        q2 == Take(q, 1)
    IN  IF q.err # "nil" THEN q
        ELSE IF q.val < Byte \div 2 THEN [q EXCEPT !.val = value]
        ELSE IF q2.err # "nil" THEN q2 ELSE [q2 EXCEPT !.val = value * Byte + q2.val]

\* One rectangle: an omitted side is that of the rectangle before.
ReadSide(acc, f, zero, before) ==
    LET q == IF f \in zero THEN [acc.r EXCEPT !.val = IF f \in {"left", "top"} THEN 0 ELSE before[f]]
                           ELSE ReadOrderDelta(acc.r)
    IN  [r |-> q,
         rect |-> [acc.rect EXCEPT ![f] = IF f \in {"left", "top"} THEN before[f] + q.val ELSE q.val]]
ReadDeltaRect(r, zero) ==
    LET before == IF r.fields.rects = <<>> THEN [f \in ToSet(Box) |-> 0] ELSE Last(r.fields.rects)
        side(acc, f) == ReadSide(acc, f, zero, before)
        read == side(side(side(side([r |-> r, rect |-> before], "left"), "top"), "width"), "height")
    IN  [read.r EXCEPT !.fields.rects = Append(@, read.rect)]

ReadDeltaRects(r, numRects) ==
    LET bytes == ReadN(r, (numRects + 1) \div 2)
        zero(i) == bytes.val[(i + 1) \div 2][IF (i % 2) = 1 THEN 1 ELSE 2]
        read[i \in 0 .. numRects] ==
            IF i = 0 THEN [bytes EXCEPT !.fields.rects = <<>>]
            ELSE IF read[i - 1].err = "nil" THEN ReadDeltaRect(read[i - 1], zero(i)) ELSE read[i - 1]
    IN  IF numRects > MaxRects \/ bytes.err # "nil" THEN [r EXCEPT !.err = "EOF"] ELSE read[numRects]

ReadField(r, f, delta) ==
    CASE f \in Coordinates -> ReadOrderCoord(r, f, delta)
      [] f = "rects" -> LET q == Take(r, 2)
                        IN  IF q.err = "nil" THEN ReadDeltaRects(q, q.fields.numRects) ELSE q
      [] OTHER -> LET q == Take(r, 1) IN IF q.err = "nil" THEN [q EXCEPT !.fields[f] = q.val] ELSE q

\* The bounds are read and ignored.  (The mutant does not read them.)
ReadBoundsNever(r) == r
ReadBounds(r) ==
    LET q == Take(r, 1)
        side(acc, s) == CASE <<s, "abs">> \in q.val -> Take(acc, 2)
                          [] <<s, "abs">> \notin q.val /\ <<s, "delta">> \in q.val -> Take(acc, 1)
                          [] OTHER -> acc
    IN  IF q.err = "nil" THEN side(side(side(side(q, "left"), "top"), "right"), "bottom") ELSE q

FlagBytesLeft(t, control) ==
    LET n == FieldBytes(t) - (IF "bit0" \in control THEN 1 ELSE 0)
    IN  IF "bit1" \notin control THEN n ELSE IF n > 1 THEN n - 2 ELSE 0
ReadFieldFlags(r, t, control) ==
    LET n == FlagBytesLeft(t, control)
        q == ReadN(r, n)
    IN  [r |-> q, flags |-> IF q.err = "nil" THEN UNION {q.val[j] : j \in 1 .. n} ELSE {}]

\* The fields of an order, those that are present.
ReadFields(r, t, flags, delta) ==
    LET read[k \in 0 .. Len(FieldsOf(t))] ==
            IF k = 0 THEN r
            ELSE IF k \in flags THEN ReadField(read[k - 1], FieldsOf(t)[k], delta) ELSE read[k - 1]
    IN  read[Len(FieldsOf(t))]

\* What the order of type `t` with these fields paints, or nothing.
Positive(rects) == FlatMap(LAMBDA r : IF r.width > 0 /\ r.height > 0 THEN <<r>> ELSE <<>>, rects)
Paint(t, f) ==
    LET one == <<[left |-> f.left, top |-> f.top, width |-> f.width, height |-> f.height]>>
        rects == Positive(IF t \in Single THEN one ELSE f.rects)
    IN  CASE t \in {"DstBlt", "MultiDstBlt"} /\ f.rop \in {Blackness, Whiteness} ->
                 [kind |-> "fill", rects |-> rects, colour |-> <<f.rop, f.rop, f.rop>>]
          [] t \in {"OpaqueRect", "MultiOpaqueRect"} ->
                 [kind |-> "fill", rects |-> rects, colour |-> <<f.r, f.g, f.b>>]
          [] t \in {"ScrBlt", "MultiScrBlt"} /\ f.rop = SrcCopy ->
                 [kind |-> "copy", rects |-> rects, by |-> <<f.xSrc - f.left, f.ySrc - f.top>>]
          [] OTHER -> [kind |-> "nothing"]

DecodePrimaryOrder ==
    /\ wire # <<>> /\ inStep
    /\ LET control == Head(wire).val
           change == "typeChange" \in control
           t == IF change THEN wire[2].val ELSE orderType
           start == [buf |-> SubSeq(wire, IF change THEN 3 ELSE 2, Len(wire)), val |-> 0,
                     fields |-> st[t], err |-> "nil"]
           read == ReadFieldFlags(start, t, control)
           bounded == IF control \cap {"bounds", "zeroBounds"} = {"bounds"} THEN ReadBounds(read.r)
                                                                           ELSE read.r
           done == ReadFields(bounded, t, read.flags, "delta" \in control)
       IN  /\ orderType' = t
           /\ st' = [st EXCEPT ![t] = done.fields]
           /\ inStep' = (done.err = "nil" /\ done.buf = <<>>)
           /\ painted' = Paint(t, done.fields)
    /\ wire' = <<>>
    /\ UNCHANGED <<sent, drawing, orders>>

OrdersNext == ServerDraws \/ DecodePrimaryOrder
OrdersSpec == OrdersInit /\ [][OrdersNext]_ordersVars
-----------------------------------------------------------------------------
\* Whatever an order leaves out and however it writes the rest, the client
\* paints what the server drew, remembers the values the server remembers and
\* reads exactly the bytes of the order (orders.go, decodePrimaryOrder).
OrdersFaithful ==
    /\ inStep
    /\ wire = <<>> => painted = drawing /\ st = sent.fields
=============================================================================

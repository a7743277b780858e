------------------------- MODULE ShadowCanvas_proofs -------------------------
(***************************************************************************)
(* Proofs about ShadowCanvas, for canvases of any sizes and any colours:   *)
(* as long as rectangles stay on the framebuffer, leaving out the pixels   *)
(* that the shadow takes for unchanged cannot be seen.                     *)
(*                                                                         *)
(* The shadow follows a copy row by row and in place, the canvas all at    *)
(* once.  That both end with the same picture, however source and          *)
(* destination overlap, is an induction on the rows (RowsMoved); the       *)
(* order of the rows is what makes it work.                                *)
(***************************************************************************)
EXTENDS ShadowCanvas, WellFoundedInduction, TLAPS

IInv == TypeOK /\ ShadowCoherent /\ Faithful

-----------------------------------------------------------------------------
\* Induction over the set of the numbers that satisfy what is to be shown.
LEMMA SetInduction ==
  ASSUME NEW S, 0 \in S, \A n \in Nat : n \in S => n + 1 \in S
  PROVE  Nat \subseteq S
<1> SUFFICES ASSUME Nat \ S # {} PROVE FALSE
  OBVIOUS
<1>1. PICK m \in Nat \ S : \A k \in Nat \ S : <<k, m>> \notin OpToRel(<, Nat)
  BY WFMin, NatLessThanWellFounded, Zenon
<1>2. \A k \in Nat \ S : ~(k < m)
  BY <1>1 DEF OpToRel
<1>3. m # 0 /\ m - 1 \in S
  BY <1>2
<1> QED BY <1>3

-----------------------------------------------------------------------------
(* Copies.                                                                 *)

\* What has been copied after r of the rows of a copy within img.
AfterRows(img, r, dstX, dstY, w, h, srcX, srcY) ==
    LET turn(p) == IF dstY > srcY THEN h - (p[2] - dstY) ELSE p[2] - dstY + 1
    IN  [p \in DOMAIN img |->
            IF /\ p \in Rect(dstX, dstY, w, h) /\ turn(p) <= r
               /\ Shift(p, srcX - dstX, srcY - dstY) \in DOMAIN img
            THEN img[Shift(p, srcX - dstX, srcY - dstY)] ELSE img[p]]

\* The r-th row is copied from what the rows before it left.
RowFollows(img, r, dstX, dstY, w, h, srcX, srcY) ==
    AfterRows(img, r, dstX, dstY, w, h, srcX, srcY)
        = Copied(AfterRows(img, r - 1, dstX, dstY, w, h, srcX, srcY),
                 Rect(dstX, dstY + RowInTurn(r, h, dstY, srcY), w, 1), srcX - dstX, srcY - dstY)

\* One more row: its source rows have not been written yet.
LEMMA OneMoreRow ==
  ASSUME NEW img,
         NEW dstX \in Nat, NEW dstY \in Nat, NEW srcX \in Nat, NEW srcY \in Nat,
         NEW w \in Nat, NEW h \in Nat, NEW r \in 1 .. h,
         DOMAIN img \subseteq Nat \X Nat
  PROVE  RowFollows(img, r, dstX, dstY, w, h, srcX, srcY)
<1> DEFINE dx == srcX - dstX
           dy == srcY - dstY
           turn(p) == IF dstY > srcY THEN h - (p[2] - dstY) ELSE p[2] - dstY + 1
           before == AfterRows(img, r - 1, dstX, dstY, w, h, srcX, srcY)
           now == AfterRows(img, r, dstX, dstY, w, h, srcX, srcY)
           row == Rect(dstX, dstY + RowInTurn(r, h, dstY, srcY), w, 1)
           area == Rect(dstX, dstY, w, h)
<1>1. \A p \in DOMAIN img : p[1] \in Nat /\ p[2] \in Nat /\ p = <<p[1], p[2]>>
  OBVIOUS
<1>2. ASSUME NEW p \in DOMAIN img PROVE p \in row <=> p \in area /\ turn(p) = r
  <2>1. PICK a \in Nat, b \in Nat : p = <<a, b>>
    OBVIOUS
  <2>2. turn(p) = IF dstY > srcY THEN h - (b - dstY) ELSE b - dstY + 1
    BY <2>1
  <2>3. p \in area <=> dstX <= a /\ a <= dstX + w - 1 /\ dstY <= b /\ b <= dstY + h - 1
    BY <2>1 DEF Rect
  <2>4. p \in row <=> /\ dstX <= a /\ a <= dstX + w - 1
                     /\ b = dstY + RowInTurn(r, h, dstY, srcY)
    <3>1. RowInTurn(r, h, dstY, srcY) \in Int
      BY DEF RowInTurn
    <3> QED BY <2>1, <3>1 DEF Rect
  <2> HIDE DEF turn, row, area
  <2> QED BY <2>2, <2>3, <2>4 DEF RowInTurn
<1>3. ASSUME NEW p \in DOMAIN img, p \in row
      PROVE  ~(Shift(p, dx, dy) \in area /\ turn(Shift(p, dx, dy)) <= r - 1)
  <2>1. PICK a \in Nat, b \in Nat : p = <<a, b>>
    OBVIOUS
  <2>2. turn(p) = r
    BY <1>2, <1>3
  <2>3. Shift(p, dx, dy) = <<a + dx, b + dy>>
    BY <2>1 DEF Shift
  <2> QED BY <2>1, <2>2, <2>3
<1>4. \A p \in DOMAIN img : p \in area => turn(p) \in Int
  BY <1>1
<1>5. DOMAIN before = DOMAIN img /\ DOMAIN now = DOMAIN img
  BY DEF AfterRows
<1>6. \A p \in DOMAIN img :
         /\ before[p] = IF p \in area /\ turn(p) <= r - 1 /\ Shift(p, dx, dy) \in DOMAIN img
                        THEN img[Shift(p, dx, dy)] ELSE img[p]
         /\ now[p] = IF p \in area /\ turn(p) <= r /\ Shift(p, dx, dy) \in DOMAIN img
                     THEN img[Shift(p, dx, dy)] ELSE img[p]
  BY DEF AfterRows
<1> DEFINE copied == Copied(before, row, dx, dy)
<1>7. DOMAIN copied = DOMAIN img
      /\ \A p \in DOMAIN img : copied[p] = IF p \in row /\ Shift(p, dx, dy) \in DOMAIN img
                                           THEN before[Shift(p, dx, dy)] ELSE before[p]
  BY <1>5 DEF Copied
<1>8. now = [p \in DOMAIN img |-> now[p]] /\ copied = [p \in DOMAIN img |-> copied[p]]
  BY <1>5, <1>7 DEF AfterRows, Copied
<1> HIDE DEF before, now, row, area, turn, dx, dy, copied
<1>9. ASSUME NEW p \in DOMAIN img PROVE now[p] = copied[p]
  <2>1. CASE p \in row
    <3>1. p \in area /\ turn(p) = r /\ turn(p) <= r /\ ~(turn(p) <= r - 1)
      BY <1>2, <2>1
    <3>2. CASE Shift(p, dx, dy) \in DOMAIN img
      <4>1. copied[p] = before[Shift(p, dx, dy)] /\ now[p] = img[Shift(p, dx, dy)]
        BY <1>6, <1>7, <2>1, <3>1, <3>2
      <4>2. before[Shift(p, dx, dy)] = img[Shift(p, dx, dy)]
        BY <1>3, <1>6, <2>1, <3>2
      <4> QED BY <4>1, <4>2
    <3>3. CASE Shift(p, dx, dy) \notin DOMAIN img
      BY <1>6, <1>7, <3>3
    <3> QED BY <3>2, <3>3
  <2>2. CASE p \notin row
    <3>1. copied[p] = before[p]
      BY <1>7, <2>2
    <3>2. p \in area => (turn(p) <= r <=> turn(p) <= r - 1)
      BY <1>2, <1>4, <2>2
    <3> QED BY <1>6, <3>1, <3>2
  <2> QED BY <2>1, <2>2
<1>10. now = copied
  BY <1>8, <1>9
<1> QED BY <1>10 DEF now, copied, before, row, dx, dy, RowFollows

\* Rows that move one after the other move the whole rectangle.
LEMMA RowsMoved ==
  ASSUME NEW dstX \in Nat, NEW dstY \in Nat, NEW srcX \in Nat, NEW srcY \in Nat,
         NEW w \in Nat, NEW h \in Nat,
         DOMAIN fb \subseteq Nat \X Nat, fb = [p \in DOMAIN fb |-> fb[p]]
  PROVE  CopyShadow(dstX, dstY, w, h, srcX, srcY)
            = Copied(fb, Rect(dstX, dstY, w, h), srcX - dstX, srcY - dstY)
<1> DEFINE row(r) == Rect(dstX, dstY + RowInTurn(r, h, dstY, srcY), w, 1)
           Moves(g) == g = [r \in 0 .. h |->
                               IF r = 0 THEN fb
                               ELSE LET y == dstY + RowInTurn(r, h, dstY, srcY)
                                    IN  Copied(g[r - 1], Rect(dstX, y, w, 1), srcX - dstX, srcY - dstY)]
           after(r) == AfterRows(fb, r, dstX, dstY, w, h, srcX, srcY)
           rows == [r \in 0 .. h |-> after(r)]
           moved == CHOOSE g : Moves(g)
<1>1. ASSUME NEW r \in 1 .. h
      PROVE  after(r) = Copied(after(r - 1), row(r), srcX - dstX, srcY - dstY)
  <2>1. RowFollows(fb, r, dstX, dstY, w, h, srcX, srcY)
    BY OneMoreRow
  <2> QED BY <2>1 DEF RowFollows
<1>2. after(0) = fb
  <2>1. \A p \in DOMAIN fb : p[1] \in Nat /\ p[2] \in Nat
    OBVIOUS
  <2>2. \A p \in DOMAIN fb : p \in Rect(dstX, dstY, w, h)
           => ~((IF dstY > srcY THEN h - (p[2] - dstY) ELSE p[2] - dstY + 1) <= 0)
    BY <2>1 DEF Rect
  <2> QED BY <2>2 DEF AfterRows
<1>3. after(h) = Copied(fb, Rect(dstX, dstY, w, h), srcX - dstX, srcY - dstY)
  <2>1. \A p \in DOMAIN fb : p[1] \in Nat /\ p[2] \in Nat
    OBVIOUS
  <2>2. \A p \in DOMAIN fb : p \in Rect(dstX, dstY, w, h)
           => (IF dstY > srcY THEN h - (p[2] - dstY) ELSE p[2] - dstY + 1) <= h
    BY <2>1 DEF Rect
  <2> QED BY <2>2 DEF AfterRows, Copied
<1> HIDE DEF after
<1>4. \A r \in 0 .. h : rows[r] = after(r)
  OBVIOUS
<1>5. rows = [r \in 0 .. h |-> IF r = 0 THEN fb ELSE Copied(rows[r - 1], row(r), srcX - dstX, srcY - dstY)]
  <2>1. \A r \in 0 .. h : rows[r] = IF r = 0 THEN fb ELSE Copied(rows[r - 1], row(r), srcX - dstX, srcY - dstY)
    <3> SUFFICES ASSUME NEW r \in 0 .. h, r # 0
                 PROVE  rows[r] = Copied(rows[r - 1], row(r), srcX - dstX, srcY - dstY)
      BY <1>2, <1>4
    <3>1. r \in 1 .. h /\ r - 1 \in 0 .. h
      OBVIOUS
    <3> HIDE DEF rows, row
    <3> QED BY <1>1, <1>4, <3>1
  <2> HIDE DEF row, after
  <2> QED BY <2>1
<1>6. Moves(rows)
  BY <1>5
<1>7. Moves(moved)
  <2> HIDE DEF Moves, rows
  <2> QED BY <1>6, Zenon
<1>8. moved[0] = fb /\ \A r \in 1 .. h : moved[r] = Copied(moved[r - 1], row(r), srcX - dstX, srcY - dstY)
  <2> HIDE DEF moved
  <2>1. \A r \in 0 .. h : moved[r] = IF r = 0 THEN fb ELSE Copied(moved[r - 1], row(r), srcX - dstX, srcY - dstY)
    BY <1>7, Zenon
  <2> HIDE DEF row, Moves
  <2>2. 0 \in 0 .. h /\ \A r \in 1 .. h : r \in 0 .. h /\ r # 0
    OBVIOUS
  <2> QED BY <2>1, <2>2, Zenon
<1> DEFINE same == {r \in Nat : r <= h => moved[r] = after(r)}
<1> HIDE DEF moved, row
<1>9. Nat \subseteq same
  <2>1. 0 \in same
    BY <1>2, <1>8
  <2>2. ASSUME NEW r \in Nat, r \in same PROVE r + 1 \in same
    <3> SUFFICES ASSUME r + 1 <= h PROVE moved[r + 1] = after(r + 1)
      OBVIOUS
    <3>1. moved[r] = after(r) /\ r + 1 \in 1 .. h /\ (r + 1) - 1 = r
      BY <2>2
    <3> HIDE DEF same
    <3> QED BY <1>1, <1>8, <3>1
  <2> HIDE DEF same
  <2> QED BY <2>1, <2>2, SetInduction
<1>10. moved[h] = after(h)
  BY <1>9
<1>11. CopyShadow(dstX, dstY, w, h, srcX, srcY) = moved[h]
  BY DEF CopyShadow, moved
<1> QED BY <1>3, <1>10, <1>11

-----------------------------------------------------------------------------
(* Positions.                                                              *)

LEMMA GridFacts ==
  ASSUME NEW s \in Sizes
  PROVE  /\ s[1] \in Nat \ {0} /\ s[2] \in Nat \ {0}
         /\ Grid(s) \subseteq Nat \X Nat
<1>1. s[1] \in Nat \ {0} /\ s[2] \in Nat \ {0}
  BY CanvasAssumption
<1> QED BY <1>1 DEF Grid

LEMMA PaintIs ==
  ASSUME NEW D, NEW S, NEW img \in [D -> S], NEW area, NEW pixels,
         \A p \in area : pixels[p] \in S
  PROVE  /\ Paint(img, area, pixels) \in [D -> S]
         /\ \A p \in D : Paint(img, area, pixels)[p] = IF p \in area THEN pixels[p] ELSE img[p]
  BY DEF Paint

LEMMA CopiedIs ==
  ASSUME NEW D, NEW S, NEW img \in [D -> S], NEW area, NEW dx, NEW dy
  PROVE  /\ Copied(img, area, dx, dy) \in [D -> S]
         /\ \A p \in D : Copied(img, area, dx, dy)[p] =
               IF p \in area /\ Shift(p, dx, dy) \in D THEN img[Shift(p, dx, dy)] ELSE img[p]
  BY DEF Copied

\* The box around what differs holds all of it, and nothing outside the area.
LEMMA BoxHolds ==
  ASSUME NEW area, NEW differ, differ \subseteq area, differ \subseteq Nat \X Nat
  PROVE  Box(area, differ) \subseteq area /\ differ \subseteq Box(area, differ)
<1>1. Box(area, differ) \subseteq area
  BY DEF Box
<1>2. ASSUME NEW p \in differ PROVE p \in Box(area, differ)
  <2>1. p[1] \in Nat /\ p[2] \in Nat
    OBVIOUS
  <2>2. p[1] <= p[1] /\ p[2] <= p[2]
    BY <2>1
  <2> QED BY <2>2 DEF Box
<1> QED BY <1>1, <1>2

-----------------------------------------------------------------------------
(* The types, whether or not rectangles stay on the framebuffer.           *)

\* An update of the rectangle at x, y to the pixels rgba.
Updated(x, y, w, h, rgba) ==
    LET area == Rect(x, y, w, h)
        sent == IF Fits(x, y, w, h) THEN Box(area, {p \in area : rgba[p] # fb[p]}) ELSE area
    IN  /\ fb' = IF Fits(x, y, w, h) THEN Paint(fb, sent, rgba) ELSE fb
        /\ canvas' = Paint(canvas, sent, rgba)
        /\ screen' = Paint(screen, area, rgba)
        /\ UNCHANGED size

LEMMA UpdateIs ==
  ASSUME Update
  PROVE  \E x \in Xs, y \in Ys : \E w \in Widths(x), h \in Heights(y) :
            \E rgba \in [Rect(x, y, w, h) -> Colours] : Updated(x, y, w, h, rgba)
  BY DEF Update, Updated

LEMMA UpdateTypes ==
  ASSUME TypeOK, NEW x, NEW y, NEW w, NEW h, NEW rgba \in [Rect(x, y, w, h) -> Colours],
         Updated(x, y, w, h, rgba)
  PROVE  TypeOK'
<1> DEFINE area == Rect(x, y, w, h)
           sent == IF Fits(x, y, w, h) THEN Box(area, {p \in area : rgba[p] # fb[p]}) ELSE area
<1>1. sent \subseteq area
  BY DEF Box
<1>2. /\ fb' = IF Fits(x, y, w, h) THEN Paint(fb, sent, rgba) ELSE fb
      /\ canvas' = Paint(canvas, sent, rgba) /\ screen' = Paint(screen, area, rgba) /\ size' = size
  BY DEF Updated
<1>3. rgba \in [area -> Colours]
  OBVIOUS
<1> HIDE DEF sent, area
<1>4. \A p \in area : rgba[p] \in Colours
  BY <1>3
<1>5. \A p \in sent : rgba[p] \in Colours /\ rgba[p] \in Colours \cup {Unknown}
  BY <1>1, <1>4
<1>6. fb \in [Grid(size) -> Colours \cup {Unknown}] /\ canvas \in [Grid(size) -> Colours]
      /\ screen \in [Grid(size) -> Colours] /\ size \in Sizes
  BY DEF TypeOK
<1>7. Paint(fb, sent, rgba) \in [Grid(size) -> Colours \cup {Unknown}]
  <2> DEFINE S == Colours \cup {Unknown}
  <2>1. fb \in [Grid(size) -> S] /\ \A p \in sent : rgba[p] \in S
    BY <1>5, <1>6
  <2> HIDE DEF S
  <2>2. Paint(fb, sent, rgba) \in [Grid(size) -> S]
    BY <2>1, PaintIs
  <2> QED BY <2>2 DEF S
<1>8. Paint(canvas, sent, rgba) \in [Grid(size) -> Colours]
  BY <1>5, <1>6, PaintIs
<1>9. Paint(screen, area, rgba) \in [Grid(size) -> Colours]
  BY <1>4, <1>6, PaintIs
<1> QED BY <1>2, <1>6, <1>7, <1>8, <1>9 DEF TypeOK

\* A copy between the rectangles of w by h at two places.
CopiedRect(dstX, dstY, w, h, srcX, srcY) ==
    LET onCanvas(img) == Copied(img, Rect(dstX, dstY, w, h), srcX - dstX, srcY - dstY)
    IN  /\ fb' = IF Fits(dstX, dstY, w, h) /\ Fits(srcX, srcY, w, h)
                 THEN CopyShadow(dstX, dstY, w, h, srcX, srcY)
                 ELSE fb
        /\ canvas' = onCanvas(canvas)
        /\ screen' = onCanvas(screen)
        /\ UNCHANGED size

LEMMA PlacesAreNat ==
  ASSUME size \in Sizes
  PROVE  /\ \A x \in Xs : x \in Nat /\ Widths(x) \subseteq Nat
         /\ \A y \in Ys : y \in Nat /\ Heights(y) \subseteq Nat
  BY DEF Xs, Ys, Widths, Heights

LEMMA CopyRectIs ==
  ASSUME CopyRect, size \in Sizes
  PROVE  \E dstX, dstY, srcX, srcY, w, h \in Nat :
            /\ dstX \in Xs /\ srcX \in Xs /\ dstY \in Ys /\ srcY \in Ys
            /\ w \in Widths(dstX) \cap Widths(srcX) /\ h \in Heights(dstY) \cap Heights(srcY)
            /\ CopiedRect(dstX, dstY, w, h, srcX, srcY)
<1>1. PICK dstX \in Xs, srcX \in Xs, dstY \in Ys, srcY \in Ys :
         \E w \in Widths(dstX) \cap Widths(srcX), h \in Heights(dstY) \cap Heights(srcY) :
            CopiedRect(dstX, dstY, w, h, srcX, srcY)
  BY DEF CopyRect, CopiedRect
<1>2. PICK w \in Widths(dstX) \cap Widths(srcX), h \in Heights(dstY) \cap Heights(srcY) :
         CopiedRect(dstX, dstY, w, h, srcX, srcY)
  BY <1>1
<1>3. /\ dstX \in Nat /\ srcX \in Nat /\ dstY \in Nat /\ srcY \in Nat /\ w \in Nat /\ h \in Nat
  BY PlacesAreNat
<1> QED BY <1>2, <1>3

\* The shadow does to its pixels what the canvas does to its own.
LEMMA CopyIsOneCopy ==
  ASSUME TypeOK, NEW dstX \in Nat, NEW dstY \in Nat, NEW srcX \in Nat, NEW srcY \in Nat,
         NEW w \in Nat, NEW h \in Nat, CopiedRect(dstX, dstY, w, h, srcX, srcY)
  PROVE  LET area == Rect(dstX, dstY, w, h)
         IN  /\ fb' = IF Fits(dstX, dstY, w, h) /\ Fits(srcX, srcY, w, h)
                      THEN Copied(fb, area, srcX - dstX, srcY - dstY) ELSE fb
             /\ canvas' = Copied(canvas, area, srcX - dstX, srcY - dstY)
             /\ screen' = Copied(screen, area, srcX - dstX, srcY - dstY)
             /\ size' = size
<1>1. Grid(size) \subseteq Nat \X Nat /\ fb \in [Grid(size) -> Colours \cup {Unknown}]
  BY GridFacts DEF TypeOK
<1>2. CopyShadow(dstX, dstY, w, h, srcX, srcY)
         = Copied(fb, Rect(dstX, dstY, w, h), srcX - dstX, srcY - dstY)
  <2>1. DOMAIN fb \subseteq Nat \X Nat /\ fb = [p \in DOMAIN fb |-> fb[p]]
    BY <1>1
  <2> QED BY <2>1, RowsMoved
<1> QED BY <1>2 DEF CopiedRect

LEMMA CopyTypes ==
  ASSUME TypeOK, CopyRect
  PROVE  TypeOK'
<1>1. fb \in [Grid(size) -> Colours \cup {Unknown}] /\ canvas \in [Grid(size) -> Colours]
      /\ screen \in [Grid(size) -> Colours] /\ size \in Sizes
  BY DEF TypeOK
<1>2. PICK dstX, dstY, srcX, srcY, w, h \in Nat : CopiedRect(dstX, dstY, w, h, srcX, srcY)
  BY <1>1, CopyRectIs
<1> DEFINE area == Rect(dstX, dstY, w, h)
           dx == srcX - dstX
           dy == srcY - dstY
<1>3. /\ fb' = Copied(fb, area, dx, dy) \/ fb' = fb
      /\ canvas' = Copied(canvas, area, dx, dy) /\ screen' = Copied(screen, area, dx, dy) /\ size' = size
  BY <1>2, CopyIsOneCopy
<1> HIDE DEF area, dx, dy
<1>4. Copied(fb, area, dx, dy) \in [Grid(size) -> Colours \cup {Unknown}]
  BY <1>1, CopiedIs
<1>5. Copied(canvas, area, dx, dy) \in [Grid(size) -> Colours]
      /\ Copied(screen, area, dx, dy) \in [Grid(size) -> Colours]
  BY <1>1, CopiedIs
<1> QED BY <1>1, <1>3, <1>4, <1>5 DEF TypeOK

\* InitFrame and Resize: the shadow starts afresh.
LEMMA FreshKeeps ==
  ASSUME TypeOK, Faithful, InitFrame \/ Resize
  PROVE  IInv'
<1>1. PICK s \in Sizes :
         /\ size' = s /\ fb' = ResetShadow(s)
         /\ \/ canvas' = Blank(s) /\ screen' = Blank(s)
            \/ canvas' = Resized(canvas, s) /\ screen' = Resized(screen, s)
  BY DEF InitFrame, Resize
<1>2. canvas \in [Grid(size) -> Colours] /\ canvas = screen
  BY DEF TypeOK, Faithful
<1>3. Blank(s) \in [Grid(s) -> Colours] /\ Resized(canvas, s) \in [Grid(s) -> Colours]
  BY <1>2, CanvasAssumption DEF Blank, Resized
<1>4. fb' = [p \in Grid(s) |-> Unknown]
  BY <1>1 DEF ResetShadow
<1>5. TypeOK'
  BY <1>1, <1>2, <1>3, <1>4 DEF TypeOK
<1>6. ShadowCoherent' /\ Faithful'
  BY <1>1, <1>2, <1>4 DEF ShadowCoherent, Faithful
<1> QED BY <1>5, <1>6 DEF IInv

-----------------------------------------------------------------------------
(* What the browser sees, when every rectangle stays on the framebuffer.   *)

\* Without a reach over the edges every rectangle is one the shadow records.
LEMMA AllFit ==
  ASSUME Outside = 0, size \in Sizes, NEW x \in Xs, NEW y \in Ys, NEW w \in Widths(x), NEW h \in Heights(y)
  PROVE  Fits(x, y, w, h)
<1>1. size[1] \in Nat /\ size[2] \in Nat
  BY GridFacts
<1> QED BY <1>1 DEF Xs, Ys, Widths, Heights, Fits

\* What is not sent is on the canvas already.
LEMMA UpdateKeeps ==
  ASSUME IInv, NEW x \in Nat, NEW y \in Nat, NEW w \in Nat, NEW h \in Nat,
         NEW rgba \in [Rect(x, y, w, h) -> Colours],
         Fits(x, y, w, h), Updated(x, y, w, h, rgba)
  PROVE  ShadowCoherent' /\ Faithful'
<1> DEFINE area == Rect(x, y, w, h)
           differ == {p \in area : rgba[p] # fb[p]}
           sent == Box(area, differ)
<1>1. /\ fb' = Paint(fb, sent, rgba) /\ canvas' = Paint(canvas, sent, rgba)
      /\ screen' = Paint(screen, area, rgba) /\ size' = size
  BY DEF Updated
<1>2. area \subseteq Nat \X Nat /\ rgba \in [area -> Colours]
  BY DEF Rect
<1>3. differ \subseteq area /\ \A p \in area : p \notin differ => rgba[p] = fb[p]
  OBVIOUS
<1> HIDE DEF area, differ
<1>4. sent \subseteq area /\ differ \subseteq sent
  BY <1>2, <1>3, BoxHolds
<1> HIDE DEF sent
<1>5. /\ \A p \in area : rgba[p] \in Colours
      /\ DOMAIN fb = Grid(size) /\ canvas \in [Grid(size) -> Colours] /\ screen = canvas
  BY <1>2 DEF IInv, TypeOK, Faithful
<1>6. \A p \in Grid(size) : /\ fb'[p] = IF p \in sent THEN rgba[p] ELSE fb[p]
                            /\ canvas'[p] = IF p \in sent THEN rgba[p] ELSE canvas[p]
                            /\ screen'[p] = IF p \in area THEN rgba[p] ELSE canvas[p]
  BY <1>1, <1>5 DEF Paint
<1>7. \A p \in Grid(size) : fb[p] # Unknown => canvas[p] = fb[p]
  BY DEF IInv, ShadowCoherent
<1>8. ShadowCoherent'
  BY <1>1, <1>6, <1>7 DEF ShadowCoherent
<1>9. ASSUME NEW p \in Grid(size) PROVE canvas'[p] = screen'[p]
  <2>1. CASE p \in area /\ p \notin sent
    <3>1. rgba[p] = fb[p] /\ rgba[p] # Unknown
      BY <1>3, <1>4, <1>5, <2>1, CanvasAssumption
    <3> QED BY <1>6, <1>7, <2>1, <3>1
  <2> QED BY <1>4, <1>6, <2>1
<1>10. canvas' = [p \in Grid(size) |-> canvas'[p]] /\ screen' = [p \in Grid(size) |-> screen'[p]]
  BY <1>1, <1>5 DEF Paint
<1>11. Faithful'
  BY <1>9, <1>10 DEF Faithful
<1> QED BY <1>8, <1>11

\* Shadow and canvas move the same pixels.
LEMMA CopyKeeps ==
  ASSUME IInv, NEW dstX \in Nat, NEW dstY \in Nat, NEW srcX \in Nat, NEW srcY \in Nat,
         NEW w \in Nat, NEW h \in Nat, CopiedRect(dstX, dstY, w, h, srcX, srcY),
         Fits(dstX, dstY, w, h), Fits(srcX, srcY, w, h)
  PROVE  ShadowCoherent' /\ Faithful'
<1> DEFINE area == Rect(dstX, dstY, w, h)
           dx == srcX - dstX
           dy == srcY - dstY
<1>1. /\ fb' = Copied(fb, area, dx, dy) /\ canvas' = Copied(canvas, area, dx, dy)
      /\ screen' = Copied(screen, area, dx, dy) /\ size' = size
  BY CopyIsOneCopy DEF IInv
<1> HIDE DEF area, dx, dy
<1>2. DOMAIN fb = Grid(size) /\ DOMAIN canvas = Grid(size) /\ screen = canvas
      /\ \A p \in Grid(size) : fb[p] # Unknown => canvas[p] = fb[p]
  BY DEF IInv, TypeOK, Faithful, ShadowCoherent
<1>3. Faithful'
  BY <1>1, <1>2 DEF Faithful
<1>4. \A p \in Grid(size) : fb'[p] # Unknown => canvas'[p] = fb'[p]
  BY <1>1, <1>2 DEF Copied
<1> QED BY <1>1, <1>3, <1>4 DEF ShadowCoherent

-----------------------------------------------------------------------------
LEMMA InitIInv == Init => IInv
<1> SUFFICES ASSUME Init PROVE IInv
  OBVIOUS
<1>1. Blank(size) \in [Grid(size) -> Colours]
  BY CanvasAssumption DEF Blank
<1> QED BY <1>1 DEF Init, IInv, TypeOK, ShadowCoherent, Faithful

LEMMA NextTypes ==
  ASSUME TypeOK, [Next]_vars
  PROVE  TypeOK'
<1>1. CASE InitFrame \/ Resize
  <2>1. PICK s \in Sizes :
           /\ size' = s /\ fb' = ResetShadow(s)
           /\ \/ canvas' = Blank(s) /\ screen' = Blank(s)
              \/ canvas' = Resized(canvas, s) /\ screen' = Resized(screen, s)
    BY <1>1 DEF InitFrame, Resize
  <2>2. Blank(s) \in [Grid(s) -> Colours] /\ Resized(canvas, s) \in [Grid(s) -> Colours]
        /\ Resized(screen, s) \in [Grid(s) -> Colours]
    BY CanvasAssumption DEF Blank, Resized, TypeOK
  <2> QED BY <2>1, <2>2 DEF ResetShadow, TypeOK
<1>2. CASE Update
  BY <1>2, UpdateIs, UpdateTypes
<1>3. CASE CopyRect
  BY <1>3, CopyTypes
<1>4. CASE UNCHANGED vars
  BY <1>4 DEF vars, TypeOK
<1> QED BY <1>1, <1>2, <1>3, <1>4 DEF Next

LEMMA NextKeeps ==
  ASSUME Outside = 0, IInv, [Next]_vars
  PROVE  IInv'
<1>1. TypeOK' /\ size \in Sizes
  BY NextTypes DEF IInv, TypeOK
<1>2. CASE InitFrame \/ Resize
  BY <1>2, FreshKeeps DEF IInv
<1>3. CASE Update
  <2>1. PICK x \in Xs, y \in Ys : \E w \in Widths(x), h \in Heights(y) :
           \E rgba \in [Rect(x, y, w, h) -> Colours] : Updated(x, y, w, h, rgba)
    BY <1>3, UpdateIs
  <2>2. PICK w \in Widths(x), h \in Heights(y) :
           \E rgba \in [Rect(x, y, w, h) -> Colours] : Updated(x, y, w, h, rgba)
    BY <2>1
  <2>3. Fits(x, y, w, h) /\ x \in Nat /\ y \in Nat /\ w \in Nat /\ h \in Nat
    BY <1>1, AllFit, PlacesAreNat
  <2> QED BY <1>1, <2>2, <2>3, UpdateKeeps DEF IInv
<1>4. CASE CopyRect
  <2>1. PICK dstX, dstY, srcX, srcY, w, h \in Nat :
           /\ dstX \in Xs /\ srcX \in Xs /\ dstY \in Ys /\ srcY \in Ys
           /\ w \in Widths(dstX) \cap Widths(srcX) /\ h \in Heights(dstY) \cap Heights(srcY)
           /\ CopiedRect(dstX, dstY, w, h, srcX, srcY)
    BY <1>1, <1>4, CopyRectIs
  <2>2. Fits(dstX, dstY, w, h) /\ Fits(srcX, srcY, w, h)
    BY <1>1, <2>1, AllFit
  <2> QED BY <1>1, <2>1, <2>2, CopyKeeps DEF IInv
<1>5. CASE UNCHANGED vars
  BY <1>5 DEF vars, IInv, TypeOK, ShadowCoherent, Faithful
<1> QED BY <1>2, <1>3, <1>4, <1>5 DEF Next

\* Shadow, canvas and history always cover the framebuffer's size with
\* colours, wherever rectangles reach (session.go, Update and CopyRect).
THEOREM TypeCorrect == Spec => []TypeOK
<1>1. Init => TypeOK
  BY InitIInv DEF IInv
<1>2. TypeOK /\ [Next]_vars => TypeOK'
  BY NextTypes
<1> QED BY <1>1, <1>2, PTL DEF Spec

\* As long as rectangles stay on the framebuffer, all three parts hold always.
THEOREM ShadowHolds ==
  ASSUME Outside = 0
  PROVE  Spec => []IInv
<1>1. Init => IInv
  BY InitIInv
<1>2. IInv /\ [Next]_vars => IInv'
  BY NextKeeps
<1> QED BY <1>1, <1>2, PTL DEF Spec

\* A pixel that the shadow takes for unchanged is unchanged on the canvas, for
\* rectangles on the framebuffer (session.go:42, fb; diffAndStore, copyShadow).
THEOREM Coherent ==
  ASSUME Outside = 0
  PROVE  Spec => []ShadowCoherent
<1>1. IInv => ShadowCoherent
  BY DEF IInv
<1> QED BY <1>1, ShadowHolds, PTL

\* Leaving out pixels cannot be seen: the canvas shows what it would show had
\* every rectangle been forwarded whole (session.go, Update and CopyRect).
THEOREM Invisible ==
  ASSUME Outside = 0
  PROVE  Spec => []Faithful
<1>1. IInv => Faithful
  BY DEF IInv
<1> QED BY <1>1, ShadowHolds, PTL
=============================================================================

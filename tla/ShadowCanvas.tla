---------------------------- MODULE ShadowCanvas ----------------------------
(***************************************************************************)
(* The framebuffer path from a protocol client to the browser: the sink    *)
(* methods of wsbridge.Session, which keep a shadow copy of the canvas to  *)
(* forward only pixels that changed, and the frames' effect on the canvas  *)
(* (frontend/src/viewer.js, handleFrame).                                  *)
(*                                                                         *)
(* The WebSocket delivers frames in order and only frames touch the canvas *)
(* so a frame is applied in the step that sends it.  `screen' is a history *)
(* variable: what the canvas would show if every operation were forwarded  *)
(* unchanged.  Coordinates start at 0, a position is <<x, y>>.             *)
(***************************************************************************)
EXTENDS Integers

CONSTANTS
    Sizes,        \* the framebuffer sizes, as <<width, height>>
    Colours,      \* the pixel values
    Black,        \* what a cleared canvas shows
    Unknown,      \* a shadow pixel that equals no colour (alpha 0)
    Outside       \* bound: how far a rectangle may reach over the edge

ASSUME CanvasAssumption ==
    /\ Sizes # {} /\ Sizes \subseteq (Nat \ {0}) \X (Nat \ {0})
    /\ Black \in Colours /\ Unknown \notin Colours
    /\ Outside \in Nat

VARIABLES
    size,         \* fbW, fbH
    fb,           \* the shadow copy
    canvas,       \* what the browser shows
    screen        \* history: what it would show without the shadow

vars == <<size, fb, canvas, screen>>

-----------------------------------------------------------------------------
Grid(s) == (0 .. s[1] - 1) \X (0 .. s[2] - 1)

\* The positions of the w by h rectangle at x, y.
Rect(x, y, w, h) == (x .. x + w - 1) \X (y .. y + h - 1)

\* The rectangle lies within the tracked framebuffer.
Fits(x, y, w, h) == x + w <= size[1] /\ y + h <= size[2]

\* putImageData and drawImage: what falls outside is clipped.
Paint(img, area, pixels) ==
    [p \in DOMAIN img |-> IF p \in area THEN pixels[p] ELSE img[p]]
Shift(p, dx, dy) == <<p[1] + dx, p[2] + dy>>
Copied(img, area, dx, dy) ==
    [p \in DOMAIN img |->
        IF p \in area /\ Shift(p, dx, dy) \in DOMAIN img THEN img[Shift(p, dx, dy)] ELSE img[p]]
Blank(s) == [p \in Grid(s) |-> Black]

\* canvas.width = ..., then the old content at the origin.
\* (The mutant leaves the canvas at its old size.)
ResizedNever(img, s) == img
Resized(img, s) == [p \in Grid(s) |-> IF p \in DOMAIN img THEN img[p] ELSE Black]

TypeOK ==
    /\ size \in Sizes
    /\ fb \in [Grid(size) -> Colours \cup {Unknown}]
    /\ canvas \in [Grid(size) -> Colours]
    /\ screen \in [Grid(size) -> Colours]

\* resetShadow.  (The mutant keeps what it has when the size is the same.)
ResetShadowUnlessSame(s) == IF s = size THEN fb ELSE [p \in Grid(s) |-> Unknown]
ResetShadow(s) == [p \in Grid(s) |-> Unknown]

Init ==
    /\ size \in Sizes
    /\ fb = [p \in Grid(size) |-> Unknown]
    /\ canvas = Blank(size)
    /\ screen = canvas

-----------------------------------------------------------------------------
\* Run starts, for the first time or on a new connection after a drop.
InitFrame ==
    \E s \in Sizes :
        /\ size' = s
        /\ fb' = ResetShadow(s)
        /\ canvas' = Blank(s)
        /\ screen' = Blank(s)

\* The positions and extents an update or a copy may name: its rectangle
\* begins on the framebuffer and reaches at most Outside over its edges.
Xs == 0 .. size[1] - 1
Ys == 0 .. size[2] - 1
Widths(x) == 1 .. size[1] - x + Outside
Heights(y) == 1 .. size[2] - y + Outside

\* The smallest rectangle within `area' that holds every position of `differ'.
Box(area, differ) ==
    {p \in area :
        /\ \E a, b \in differ : a[1] <= p[1] /\ p[1] <= b[1]
        /\ \E a, b \in differ : a[2] <= p[2] /\ p[2] <= b[2]}

\* Update and diffAndStore.  A rectangle that fits is compared with the shadow:
\* what differs is recorded and sent, nothing when nothing does.  One that
\* does not fit is sent as it is and not recorded.
Update ==
    \E x \in Xs, y \in Ys :
    \E w \in Widths(x), h \in Heights(y) :
    \E rgba \in [Rect(x, y, w, h) -> Colours] :
        LET area == Rect(x, y, w, h)
            sent == IF Fits(x, y, w, h) THEN Box(area, {p \in area : rgba[p] # fb[p]})
                                        ELSE area
        IN  /\ fb' = IF Fits(x, y, w, h) THEN Paint(fb, sent, rgba) ELSE fb
            /\ canvas' = Paint(canvas, sent, rgba)
            /\ screen' = Paint(screen, area, rgba)
            /\ UNCHANGED size

\* The row that is copied r-th when h rows move from srcY to dstY: bottom up
\* when they move down.  (The mutant always goes top down.)
RowTopDown(r, h, dstY, srcY) == r - 1
RowInTurn(r, h, dstY, srcY) == IF dstY > srcY THEN h - r ELSE r - 1

\* copyShadow: the rows move one after the other, in place.
CopyShadow(dstX, dstY, w, h, srcX, srcY) ==
    LET moved[r \in 0 .. h] ==
            IF r = 0 THEN fb
            ELSE LET y == dstY + RowInTurn(r, h, dstY, srcY)
                 IN  Copied(moved[r - 1], Rect(dstX, y, w, 1), srcX - dstX, srcY - dstY)
    IN  moved[h]

\* The shadow skips a copy whose source or destination does not fit; the
\* frame is sent all the same, and the canvas reads its source before it writes.
CopyRect ==
    \E dstX, srcX \in Xs, dstY, srcY \in Ys :
    \E w \in Widths(dstX) \cap Widths(srcX), h \in Heights(dstY) \cap Heights(srcY) :
        LET onCanvas(img) == Copied(img, Rect(dstX, dstY, w, h), srcX - dstX, srcY - dstY)
        IN  /\ fb' = IF Fits(dstX, dstY, w, h) /\ Fits(srcX, srcY, w, h)
                     THEN CopyShadow(dstX, dstY, w, h, srcX, srcY)
                     ELSE fb
            /\ canvas' = onCanvas(canvas)
            /\ screen' = onCanvas(screen)
            /\ UNCHANGED size

\* The server changed its size: the canvas keeps its content, the shadow forgets.
Resize ==
    \E s \in Sizes :
        /\ size' = s
        /\ fb' = ResetShadow(s)
        /\ canvas' = Resized(canvas, s)
        /\ screen' = Resized(screen, s)

Next == InitFrame \/ Update \/ CopyRect \/ Resize

Spec == Init /\ [][Next]_vars

-----------------------------------------------------------------------------
\* The shadow is a copy of what the canvas shows, wherever it holds a colour
\* (session.go:42): a pixel it takes for unchanged is unchanged.
ShadowCoherent ==
    \A p \in Grid(size) : fb[p] # Unknown => canvas[p] = fb[p]

\* Leaving out unchanged pixels is invisible: the canvas shows what it would
\* show if every update were forwarded whole (session.go, Update).
Faithful == canvas = screen
=============================================================================

------------------------------- MODULE RdpRle -------------------------------
(***************************************************************************)
(* Interleaved RLE, the compression of RDP bitmaps (internal/rdp/rle.go),  *)
(* and the turn from bottom-up to top-down rows (bitmap.go).               *)
(*                                                                         *)
(* The server (external) describes a picture, in the order of the scan, by *)
(* a sequence of orders; the client decodes them one after the other, one  *)
(* pixel a step.  What an order means depends on what the earlier ones     *)
(* left: the foreground colour, whether the last order was a background    *)
(* run, and whether the first row is over.  The server's knowledge of that *)
(* is kept apart from the client's.                                        *)
(*                                                                         *)
(* A pixel is the set of its bits that are 1.  Widths of the fields of an  *)
(* order's head are constants, so that small pictures use all the forms.   *)
(***************************************************************************)
EXTENDS Naturals, Sequences

CONSTANTS
    Bits,          \* the bits of a pixel
    Width, Height, \* of a bitmap
    MaskRegular,   \* the largest run length in a regular head (31)
    MaskLite,      \* the largest run length in a lite head (15)
    ByteMax,       \* the largest value of a byte (255)
    MaskBits       \* the bits of a bit mask (8)

ASSUME RleAssumption ==
    /\ Width \in Nat \ {0} /\ Height \in Nat \ {0}
    /\ MaskRegular \in Nat /\ MaskLite \in Nat /\ ByteMax \in Nat
    /\ MaskBits \in Nat /\ MaskBits >= 3

VARIABLES
    picture,       \* what the server has described so far, in scan order
    drawn,         \* what the server knows of its orders so far
    order,         \* the order under way
    run,           \* the client's loop over the pixels of the order
    out, fgPel, insertFgPel, firstLine  \* decodeInterleavedRLE's variables

rleVars == <<picture, drawn, order, run, out, fgPel, insertFgPel, firstLine>>

-----------------------------------------------------------------------------
Pixels == SUBSET Bits
Black == {}
White == Bits
Xor(p, q) == (p \ q) \cup (q \ p)
Size == Width * Height

SetCodes == {"SetFGRun", "SetFGBGImage"}
MaskCodes == {"FGBGImage", "SetFGBGImage"}
LiteCodes == SetCodes \cup {"DitheredRun"}
RunCodes == LiteCodes \cup {"BGRun", "FGRun", "ColorRun", "FGBGImage", "ColorImage"}
Codes == RunCodes \cup {"FGBG1", "FGBG2", "White", "Black"}

(* The head of an order: extractRunLength.                                 *)
Mask(code) == IF code \in LiteCodes THEN MaskLite ELSE MaskRegular
Heads == [form : {"short"}, n : 1 .. MaskRegular \cup 1 .. MaskLite]
         \cup [form : {"long"}, n : 0 .. ByteMax]
         \cup [form : {"mega"}, n : 0 .. ByteMax, high : 0 .. ByteMax]

\* (The mutant takes the long form for a continuation of the short one.)
RunLengthOffByOne(code, head) ==
    CASE head.form = "short" -> IF code \in MaskCodes THEN head.n * MaskBits ELSE head.n
      [] head.form = "long" -> head.n + (IF code \in MaskCodes THEN 1 ELSE Mask(code))
      [] head.form = "mega" -> head.n + (ByteMax + 1) * head.high
RunLength(code, head) ==
    CASE head.form = "short" -> IF code \in MaskCodes THEN head.n * MaskBits ELSE head.n
      [] head.form = "long" -> head.n + (IF code \in MaskCodes THEN 1 ELSE Mask(code) + 1)
      [] head.form = "mega" -> head.n + (ByteMax + 1) * head.high

\* How the server may write a length.
HeadsFor(code, n) ==
    IF code \in MaskCodes
    THEN {h \in Heads : \/ h.form = "short" /\ h.n <= Mask(code) /\ n = h.n * MaskBits
                        \/ h.form = "long" /\ n = h.n + 1
                        \/ h.form = "mega" /\ n = (ByteMax + 1) * h.high + h.n}
    ELSE {h \in Heads : \/ h.form = "short" /\ h.n <= Mask(code) /\ n = h.n
                        \/ h.form = "long" /\ n = h.n + Mask(code) + 1
                        \/ h.form = "mega" /\ n = (ByteMax + 1) * h.high + h.n}

NoHead == [form |-> "none"]
Masks == [1 .. MaskBits -> BOOLEAN]
Orders == [code : Codes, head : Heads \cup {NoHead}, px : Seq(Pixels), masks : Seq(Masks)]
NoOrder == [code |-> "none"]
Runs == [left : Nat, done : Nat, insert : BOOLEAN]
NoRun == [left |-> 0]
Rejected == [left |-> 1]

RleTypeOK ==
    /\ picture \in Seq(Pixels) /\ Len(picture) <= Size
    /\ drawn \in [fg : Pixels, bg : BOOLEAN, first : BOOLEAN]
    /\ order \in Orders \cup {NoOrder}
    /\ run \in Runs \cup {NoRun, Rejected}
    /\ out \in Seq(Pixels) /\ Len(out) <= Len(picture)
    /\ fgPel \in Pixels /\ insertFgPel \in BOOLEAN /\ firstLine \in BOOLEAN

RleInit ==
    /\ picture = <<>> /\ drawn = [fg |-> White, bg |-> FALSE, first |-> TRUE]
    /\ order = NoOrder /\ run = NoRun
    /\ out = <<>> /\ fgPel = White /\ insertFgPel = FALSE /\ firstLine = TRUE

-----------------------------------------------------------------------------
(* The server.  It goes on with pixels `px`, which the order describes.    *)

First == Len(picture) < Width
Up(px, i) == IF First THEN Black ELSE (picture \o px)[Len(picture) + i - Width]
\* A background run right after another one would have been one run, so its
\* first pixel is in the foreground colour; the count starts anew where the
\* first row ends.
Marked(px, fg, i) == Xor(Up(px, i), fg)
JoinsRun == drawn.bg /\ drawn.first = First

Describe(px, o, fg) ==
    /\ picture' = picture \o px
    /\ drawn' = [fg |-> fg, bg |-> o.code = "BGRun", first |-> First]
    /\ order' = o
    /\ UNCHANGED <<run, out, fgPel, insertFgPel, firstLine>>

Extensions == UNION {[1 .. n -> Pixels] : n \in 1 .. Size - Len(picture)}
\* Mask bits beyond the last pixel are 0.
MasksFor(marks) ==
    [k \in 1 .. ((Len(marks) + MaskBits - 1) \div MaskBits) |->
        [b \in 1 .. MaskBits |-> (k - 1) * MaskBits + b \in 1 .. Len(marks)
                                 /\ marks[(k - 1) * MaskBits + b]]]

WriteRun(code, px, payload, fg) ==
    \E h \in HeadsFor(code, Len(px)) :
        Describe(px, [code |-> code, head |-> h, px |-> payload, masks |-> <<>>], fg)

ServerBGRun == \E px \in Extensions :
    /\ \A i \in 1 .. Len(px) :
           px[i] = IF i = 1 /\ JoinsRun THEN Marked(px, drawn.fg, i) ELSE Up(px, i)
    /\ WriteRun("BGRun", px, <<>>, drawn.fg)

ServerFGRun == \E px \in Extensions, fg \in Pixels :
    /\ \A i \in 1 .. Len(px) : px[i] = Marked(px, fg, i)
    /\ \/ fg = drawn.fg /\ WriteRun("FGRun", px, <<>>, fg)
       \/ WriteRun("SetFGRun", px, <<fg>>, fg)

ServerColorRun == \E px \in Extensions :
    /\ \A i \in 1 .. Len(px) : px[i] = px[1]
    /\ WriteRun("ColorRun", px, <<px[1]>>, drawn.fg)

ServerColorImage == \E px \in Extensions : WriteRun("ColorImage", px, px, drawn.fg)

ServerDitheredRun == \E px \in Extensions :
    /\ Len(px) % 2 = 0
    /\ \A i \in 1 .. Len(px) - 2 : px[i + 2] = px[i]
    /\ \E h \in HeadsFor("DitheredRun", Len(px) \div 2) :
           Describe(px, [code |-> "DitheredRun", head |-> h, px |-> <<px[1], px[2]>>,
                         masks |-> <<>>], drawn.fg)

ServerFGBGImage == \E px \in Extensions, fg \in Pixels : \E marks \in [1 .. Len(px) -> BOOLEAN] :
    /\ \A i \in 1 .. Len(px) : px[i] = IF marks[i] THEN Marked(px, fg, i) ELSE Up(px, i)
    /\ \E code \in MaskCodes : \E h \in HeadsFor(code, Len(px)) :
          /\ code = "FGBGImage" => fg = drawn.fg
          /\ Describe(px, [code |-> code, head |-> h, masks |-> MasksFor(marks),
                           px |-> IF code \in SetCodes THEN <<fg>> ELSE <<>>], fg)

\* The codes without a length: eight pixels under a fixed mask, or one pixel.
SpecialMark(code, i) == i = 1 \/ i = (IF code = "FGBG1" THEN 2 ELSE 3)
ServerSpecial == \E px \in Extensions, code \in Codes \ RunCodes :
    /\ CASE code \in {"FGBG1", "FGBG2"} ->
              /\ Len(px) = MaskBits
              /\ \A i \in 1 .. MaskBits :
                    px[i] = IF SpecialMark(code, i) THEN Marked(px, drawn.fg, i) ELSE Up(px, i)
         [] code = "White" -> px = <<White>>
         [] code = "Black" -> px = <<Black>>
    /\ Describe(px, [code |-> code, head |-> NoHead, px |-> <<>>, masks |-> <<>>], drawn.fg)

ServerOrder ==
    /\ order = NoOrder /\ run = NoRun
    /\ \/ ServerBGRun \/ ServerFGRun \/ ServerColorRun \/ ServerColorImage
       \/ ServerDitheredRun \/ ServerFGBGImage \/ ServerSpecial

-----------------------------------------------------------------------------
(* The client: one turn of the loop reads an order's head.                 *)

PixelCount(o) ==
    CASE o.code \in RunCodes \ {"DitheredRun"} -> RunLength(o.code, o.head)
      [] o.code = "DitheredRun" -> 2 * RunLength(o.code, o.head)
      [] o.code \in {"FGBG1", "FGBG2"} -> MaskBits
      [] o.code \in {"White", "Black"} -> 1

\* The first row is over once the orders have filled it: checked at the top
\* of the loop only.  (The mutant forgets to take back insertFgPel.)
InsertAtLineEndKept == insertFgPel
InsertAtLineEnd == insertFgPel /\ ~(firstLine /\ Len(out) >= Width)

ReadOrder ==
    /\ order # NoOrder /\ run = NoRun
    /\ firstLine' = (firstLine /\ Len(out) < Width)
    /\ insertFgPel' = (order.code = "BGRun")
    /\ fgPel' = IF order.code \in SetCodes THEN order.px[1] ELSE fgPel
    /\ run' = IF Len(out) + PixelCount(order) > Size THEN Rejected
              ELSE [left |-> PixelCount(order), done |-> 0, insert |-> InsertAtLineEnd]
    /\ UNCHANGED <<picture, drawn, order, out>>

\* readAbove, and the background where there is no row above.
ReadAbove == IF firstLine THEN Black ELSE out[Len(out) + 1 - Width]
Foreground == Xor(ReadAbove, fgPel)
MaskBit(i) == order.masks[((i - 1) \div MaskBits) + 1][((i - 1) % MaskBits) + 1]

\* The i-th pixel of the order.
Value(i) ==
    CASE order.code = "BGRun" -> IF run.insert /\ i = 1 THEN Foreground ELSE ReadAbove
      [] order.code \in {"FGRun", "SetFGRun"} -> Foreground
      [] order.code = "DitheredRun" -> order.px[IF i % 2 = 1 THEN 1 ELSE 2]
      [] order.code = "ColorRun" -> order.px[1]
      [] order.code = "ColorImage" -> order.px[i]
      [] order.code \in MaskCodes -> IF MaskBit(i) THEN Foreground ELSE ReadAbove
      [] order.code = "FGBG1" -> IF i \in {1, 2} THEN Foreground ELSE ReadAbove
      [] order.code = "FGBG2" -> IF i \in {1, 3} THEN Foreground ELSE ReadAbove
      [] order.code = "White" -> White
      [] order.code = "Black" -> Black

WritePixel ==
    /\ run \in Runs
    /\ out' = Append(out, Value(run.done + 1))
    /\ IF run.left = 1
       THEN run' = NoRun /\ order' = NoOrder
       ELSE run' = [run EXCEPT !.left = @ - 1, !.done = @ + 1] /\ UNCHANGED order
    /\ UNCHANGED <<picture, drawn, fgPel, insertFgPel, firstLine>>

\* A bitmap is complete; the next one starts from scratch.
Complete == Len(picture) = Size /\ order = NoOrder
NextBitmap ==
    /\ Complete
    /\ picture' = <<>> /\ drawn' = [fg |-> White, bg |-> FALSE, first |-> TRUE]
    /\ out' = <<>> /\ fgPel' = White /\ insertFgPel' = FALSE /\ firstLine' = TRUE
    /\ UNCHANGED <<order, run>>

RleNext == ServerOrder \/ ReadOrder \/ WritePixel \/ NextBitmap
RleSpec == RleInit /\ [][RleNext]_rleVars

\* decodeBitmapPixels: the rows from the top, in RGBA.
Rgba == [y \in 0 .. Height - 1 |->
            [x \in 0 .. Width - 1 |-> out[(Height - 1 - y) * Width + x + 1]]]
-----------------------------------------------------------------------------
\* However the server cuts a picture into orders, every pixel decoded is the
\* pixel it meant, no order is refused for lack of room, nothing is left over
\* when it has been read, and the scan is shown from the bottom row up
\* (rle.go, decodeInterleavedRLE; bitmap.go, decodeBitmapPixels).
RleFaithful ==
    /\ run # Rejected
    /\ \A i \in 1 .. Len(out) : out[i] = picture[i]
    /\ order = NoOrder => Len(out) = Len(picture)
    /\ Complete => \A i \in 1 .. Size :
           Rgba[Height - 1 - ((i - 1) \div Width)][(i - 1) % Width] = picture[i]
=============================================================================

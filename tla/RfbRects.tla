------------------------------ MODULE RfbRects ------------------------------
(***************************************************************************)
(* The rectangles of a VNC server's framebuffer updates and how the client *)
(* decodes them: Raw, CopyRect, Cursor, ZRLE (internal/rfb/encodings.go)   *)
(* and Tight (internal/rfb/tight.go), with the zlib streams that live as   *)
(* long as the connection (client.go, chunkFeeder).                        *)
(*                                                                         *)
(* A rectangle has no end mark: how many bytes it takes follows from what  *)
(* was read of it.  The server (external) means a picture and writes it in *)
(* any way its protocol allows; the client reads it.  A colour is a number *)
(* (one channel of it, where the value matters); a token on the wire is a  *)
(* byte, a pixel, or a chunk of one of the zlib streams, which knows how   *)
(* many chunks of its stream came before.  Sizes of bytes, tiles and       *)
(* thresholds are constants, so that small rectangles meet all of them.    *)
(***************************************************************************)
EXTENDS Integers, Sequences, SequencesExt

CONSTANTS
    Sizes,          \* the sizes of rectangles, as <<w, h>>
    TiledSizes,     \* the sizes of ZRLE rectangles
    MaxColour,      \* colours are 0 .. MaxColour (255)
    TileSize,       \* zrleTileSize (64)
    ByteBits,       \* the bits of a byte of packed indices (8)
    RunByte,        \* the largest byte of a run length (255)
    Palettes,       \* the palettes of ZRLE tiles, as sequences of colours
    TightPalettes,  \* those of Tight rectangles
    PixelBytes,     \* the bytes of a pixel (3)
    MinToCompress,  \* tightMinToCompress (12)
    LenBits,        \* the values of 7 bits (128); a byte has twice as many
    ChunkSizes,     \* the sizes of compressed chunks
    MaxUpdates      \* bound: rectangles

ASSUME RectsAssumption ==
    /\ Sizes \cup TiledSizes \subseteq (Nat \ {0}) \X (Nat \ {0})
    /\ MaxColour \in Nat \ {0} /\ TileSize \in Nat \ {0} /\ ByteBits \in {4, 8}
    /\ RunByte \in Nat \ {0} /\ PixelBytes \in Nat \ {0}
    /\ MinToCompress \in Nat /\ LenBits \in Nat \ {0} /\ MaxUpdates \in Nat
    /\ ChunkSizes \subseteq 1 .. LenBits * LenBits * 2 * LenBits - 1
    /\ Palettes \cup TightPalettes \subseteq Seq(0 .. MaxColour)
    /\ \A p \in Palettes : Len(p) \in 2 .. 127
    /\ \A p \in TightPalettes : Len(p) \in 1 .. 256

VARIABLES
    meant,       \* the picture the server is sending: its kind, size and pixels;
                 \* of a ZRLE rectangle, the place and the pixels of the last tile
    shown,       \* what the client has handed to the sink of it
    tiles,       \* the number of ZRLE tiles the server has written of it
    tx, ty,      \* decodeZRLE's loop variables
    stream,      \* the tokens under way
    comp, deco,  \* the chunks each compressor wrote, each decompressor read
    updates,     \* the number of rectangles so far
    readable     \* history: the client could read everything so far

rectsVars == <<meant, shown, tiles, tx, ty, stream, comp, deco, updates, readable>>

-----------------------------------------------------------------------------
Shades == 0 .. MaxColour
Tight == 0 .. 3
Streams == Tight \cup {4}     \* 4 is the stream of ZRLE
Cells(w, h) == (0 .. w - 1) \X (0 .. h - 1)
CellAt(w, i) == <<(i - 1) % w, (i - 1) \div w>>    \* row by row
Nothing == [kind |-> "none", w |-> 0, h |-> 0, px |-> <<>>]
Kinds == {"none", "Raw", "CopyRect", "Cursor", "ZRLE", "Tight"}

RectsTypeOK ==
    /\ meant.kind \in Kinds /\ shown.kind \in Kinds
    /\ tiles \in Nat /\ tx \in Nat /\ ty \in Nat
    /\ comp \in [Streams -> Nat] /\ deco \in [Streams -> Nat]
    /\ updates \in 0 .. MaxUpdates /\ readable \in BOOLEAN

RectsInit ==
    /\ meant = Nothing /\ shown = Nothing /\ tiles = 0 /\ tx = 0 /\ ty = 0
    /\ stream = <<>> /\ comp = [s \in Streams |-> 0] /\ deco = comp
    /\ updates = 0 /\ readable = TRUE

U8(v) == [kind |-> "u8", val |-> v]
U16(v) == [kind |-> "u16", val |-> v]
Px(c) == [kind |-> "px", val |-> c]
Chunk(s, size, data) == [kind |-> "chunk", val |-> [of |-> s, size |-> size, at |-> comp[s], data |-> data]]
Map(Op(_), s) == [i \in DOMAIN s |-> Op(s[i])]
Upto(n) == [i \in 1 .. n |-> i]
CeilDiv(a, b) == (a + b - 1) \div b

-----------------------------------------------------------------------------
(* The server.                                                             *)

\* The bytes of rows of indices, in each byte the first index in the highest
\* bits, each row padded to whole bytes.
Number(base, digits) ==
    LET upto[j \in 0 .. Len(digits)] == IF j = 0 THEN 0 ELSE upto[j - 1] * base + digits[j]
    IN  upto[Len(digits)]
PackRows(idx, w, h, bits) ==
    LET rowBytes == CeilDiv(w * bits, ByteBits)
        each == ByteBits \div bits
        index(y, x) == IF x < w THEN idx[y * w + x + 1] ELSE 0
    IN  [k \in 1 .. rowBytes * h |->
            U8(Number(2 ^ bits, [j \in 1 .. each |->
                index((k - 1) \div rowBytes, ((k - 1) % rowBytes) * each + j - 1)]))]

RunBytes(n) == [i \in 1 .. ((n - 1) \div RunByte) + 1 |->
                   IF i <= (n - 1) \div RunByte THEN U8(RunByte) ELSE U8((n - 1) % RunByte)]
\* Where runs may start: at every change, and wherever the server likes.
CutSets(px) == {{1} \cup S : S \in {C \in SUBSET (2 .. Len(px)) :
                    \A i \in 2 .. Len(px) : px[i] # px[i - 1] => i \in C}}
RunAt(cuts, i, n) == (CHOOSE j \in i + 1 .. n + 1 : (j = n + 1 \/ j \in cuts)
                          /\ \A k \in i + 1 .. j - 1 : k \notin cuts) - i

PlainRuns(px, cuts) ==
    FlattenSeq(Map(LAMBDA i : IF i \in cuts THEN <<Px(px[i])>> \o RunBytes(RunAt(cuts, i, Len(px))) ELSE <<>>,
                   Upto(Len(px))))
\* With a palette a run of one is an index by itself, or it may be.
PaletteRuns(idx, cuts, brief) ==
    FlattenSeq(Map(LAMBDA i : IF i \notin cuts THEN <<>>
                              ELSE IF brief /\ RunAt(cuts, i, Len(idx)) = 1 THEN <<U8(idx[i])>>
                              ELSE <<U8(128 + idx[i])>> \o RunBytes(RunAt(cuts, i, Len(idx))),
                   Upto(Len(idx))))

ZrleBits(n) == IF n <= 2 THEN 1 ELSE IF n <= 4 THEN 2 ELSE 4
PxTokens(s) == Map(Px, s)
Indices(p, n) == [1 .. n -> 0 .. Len(p) - 1]
InColours(p, idx) == Map(LAMBDA i : p[i + 1], idx)

\* The ways to write a tile of w by h, each with the pixels it stands for.
RawTiles(n) == {[px |-> px, bytes |-> <<U8(0)>> \o PxTokens(px)] : px \in [1 .. n -> Shades]}
SolidTiles(n) == {[px |-> [i \in 1 .. n |-> c], bytes |-> <<U8(1), Px(c)>>] : c \in Shades}
PackedTiles(w, h) ==
    UNION {{[px |-> InColours(p, idx),
             bytes |-> <<U8(Len(p))>> \o PxTokens(p) \o PackRows(idx, w, h, ZrleBits(Len(p)))] :
               idx \in Indices(p, w * h)} : p \in {q \in Palettes : Len(q) <= 16}}
RunTiles(n) ==
    UNION {{[px |-> px, bytes |-> <<U8(128)>> \o PlainRuns(px, cuts)] :
               cuts \in CutSets(px)} : px \in [1 .. n -> Shades]}
IndexRunTiles(p, n) ==
    UNION {{[px |-> InColours(p, idx),
             bytes |-> <<U8(128 + Len(p))>> \o PxTokens(p) \o PaletteRuns(idx, cuts, brief)] :
               cuts \in CutSets(idx), brief \in BOOLEAN} : idx \in Indices(p, n)}
PaletteRunTiles(n) == UNION {IndexRunTiles(p, n) : p \in Palettes}
TileForms(w, h) ==
    RawTiles(w * h) \cup SolidTiles(w * h) \cup PackedTiles(w, h) \cup RunTiles(w * h)
    \cup PaletteRunTiles(w * h)

\* Tight: the filters, and the bytes they make of a picture.
Clamp(v) == IF v > MaxColour THEN MaxColour ELSE IF v < 0 THEN 0 ELSE v
GradientOf(px, w) ==
    LET at(x, y) == IF x < 0 \/ y < 0 THEN 0 ELSE px[y * w + x + 1]
        predict(x, y) == Clamp(at(x - 1, y) + at(x, y - 1) - at(x - 1, y - 1))
    IN  [i \in DOMAIN px |-> LET c == CellAt(w, i)
                             IN  Px((px[i] - predict(c[1], c[2])) % (MaxColour + 1))]
TightPixels(w, h) ==
    {[px |-> px, filter |-> f, size |-> w * h * PixelBytes, data |-> PxTokens(px)] :
        px \in [1 .. w * h -> Shades], f \in {<<>>, <<U8(0)>>}}
TightGradients(w, h) ==
    {[px |-> px, filter |-> <<U8(2)>>, size |-> w * h * PixelBytes, data |-> GradientOf(px, w)] :
        px \in [1 .. w * h -> Shades]}
TightPaletted(w, h) ==
    LET bytes(p, idx) == IF Len(p) <= 2 THEN PackRows(idx, w, h, 1) ELSE Map(U8, idx)
    IN  UNION {{[px |-> InColours(p, idx), filter |-> <<U8(1), U8(Len(p) - 1)>> \o PxTokens(p),
                 size |-> Len(bytes(p, idx)), data |-> bytes(p, idx)] :
                   idx \in Indices(p, w * h)} : p \in TightPalettes}
TightForms(w, h) == TightPixels(w, h) \cup TightGradients(w, h) \cup TightPaletted(w, h)

CompactLength(n) ==
    IF n < LenBits THEN <<U8(n)>>
    ELSE IF n < LenBits * LenBits THEN <<U8(LenBits + (n % LenBits)), U8(n \div LenBits)>>
    ELSE <<U8(LenBits + (n % LenBits)), U8(LenBits + ((n \div LenBits) % LenBits)),
           U8((n \div LenBits) \div LenBits)>>

\* The control byte: its reset bits and its upper half.
Control(resets, sub) == U8([resets |-> resets, sub |-> sub])

Send(kind, size, px, bytes) ==
    /\ meant' = [kind |-> kind, w |-> size[1], h |-> size[2], px |-> px]
    /\ stream' = bytes

ServerRaw == \E size \in Sizes : \E px \in [1 .. size[1] * size[2] -> Shades] :
    Send("Raw", size, px, PxTokens(px)) /\ UNCHANGED <<comp, tiles>>

ServerCopyRect == \E size \in Sizes : \E from \in Shades \X Shades :
    Send("CopyRect", size, from, <<U16(from[1]), U16(from[2])>>) /\ UNCHANGED <<comp, tiles>>

\* A cursor: the pixels, then a bit for each that is opaque.
Clear == "clear"
ServerCursor == \E size \in Sizes \cup {<<0, 1>>} :
    \E px \in [1 .. size[1] * size[2] -> {0, MaxColour}], opaque \in [1 .. size[1] * size[2] -> {0, 1}] :
        /\ Send("Cursor", size, [i \in DOMAIN px |-> IF opaque[i] = 1 THEN px[i] ELSE Clear],
                IF size[1] = 0 THEN <<>> ELSE PxTokens(px) \o PackRows(opaque, size[1], size[2], 1))
        /\ UNCHANGED <<comp, tiles>>

\* The chunk of a ZRLE rectangle holds its tiles, which follow one by one.
ServerZrle == \E size \in TiledSizes :
    /\ Send("ZRLE", size, <<>>, <<Chunk(4, 0, <<>>)>>)
    /\ comp' = [comp EXCEPT ![4] = @ + 1] /\ tiles' = 0

ServerTight == \E size \in Sizes, resets \in {{}, {0}, {0, 1}} :
    LET fresh == [s \in Streams |-> IF s \in resets THEN 0 ELSE comp[s]]
        n == size[1] * size[2]
    IN  /\ UNCHANGED tiles
        /\ \/ /\ \E c \in Shades :
                    Send("Tight", size, [i \in 1 .. n |-> c], <<Control(resets, 8), Px(c)>>)
              /\ comp' = fresh
           \/ /\ \E px \in [1 .. n -> Shades], z \in ChunkSizes :
                    Send("Tight", size, px, <<Control(resets, 9)>> \o CompactLength(z)
                                            \o <<[kind |-> "jpeg", val |-> [size |-> z, px |-> px]]>>)
              /\ comp' = fresh
           \/ \E f \in TightForms(size[1], size[2]), s \in {0, 1} :
                 LET head == <<Control(resets, s + (IF f.filter = <<>> THEN 0 ELSE 4))>> \o f.filter
                 IN  IF f.size < MinToCompress
                     THEN Send("Tight", size, f.px, head \o f.data) /\ comp' = fresh
                     ELSE \E z \in ChunkSizes :
                            /\ Send("Tight", size, f.px, head \o CompactLength(z) \o
                                    <<[Chunk(s, z, f.data) EXCEPT !.val.at = fresh[s]]>>)
                            /\ comp' = [fresh EXCEPT ![s] = @ + 1]

TileCols == CeilDiv(meant.w, TileSize)
TileRows == CeilDiv(meant.h, TileSize)
AllTilesSent == meant.kind = "ZRLE" => tiles = TileCols * TileRows

ServerRect ==
    /\ meant = Nothing /\ updates < MaxUpdates /\ updates' = updates + 1
    /\ ServerRaw \/ ServerCopyRect \/ ServerCursor \/ ServerZrle \/ ServerTight
    /\ UNCHANGED <<shown, tx, ty, deco, readable>>

\* The next tile, row by row.
ServerTile ==
    /\ meant.kind = "ZRLE" /\ stream = <<>> /\ tiles < TileCols * TileRows
    /\ tiles' = tiles + 1
    /\ LET x == (tiles % TileCols) * TileSize
           y == (tiles \div TileCols) * TileSize
           w == IF x + TileSize > meant.w THEN meant.w - x ELSE TileSize
           h == IF y + TileSize > meant.h THEN meant.h - y ELSE TileSize
       IN  \E f \in TileForms(w, h) :
              /\ stream' = f.bytes
              /\ meant' = [meant EXCEPT !.px = <<x, y, w, h, f.px>>]
    /\ UNCHANGED <<shown, tx, ty, comp, deco, updates, readable>>

-----------------------------------------------------------------------------
(* The client: a reader holds the tokens left, the value read last, and    *)
(* whether every read so far found what it expected.                       *)

TakeOne(r, kind) ==
    IF r.ok /\ r.buf # <<>> /\ Head(r.buf).kind = kind
    THEN [buf |-> Tail(r.buf), val |-> Head(r.buf).val, ok |-> TRUE]
    ELSE [buf |-> r.buf, val |-> 0, ok |-> FALSE]
Fail(r) == [r EXCEPT !.ok = FALSE]
\* n tokens of a kind; the value is the sequence of their values.
TakeMany(r, kind, n) ==
    IF r.ok /\ Len(r.buf) >= n /\ \A i \in 1 .. n : r.buf[i].kind = kind
    THEN [buf |-> SubSeq(r.buf, n + 1, Len(r.buf)),
          val |-> Map(LAMBDA t : t.val, SubSeq(r.buf, 1, n)), ok |-> TRUE]
    ELSE [buf |-> r.buf, val |-> <<>>, ok |-> FALSE]

\* extractPackedIndex: the index in column `col` of a row of bytes.
PackedIndex(row, col, bits) ==
    (row[((col * bits) \div ByteBits) + 1] \div 2 ^ (ByteBits - bits - ((col * bits) % ByteBits))) % 2 ^ bits
\* h rows of w indices; the value is the sequence of the indices.
\* (The mutant does not start a byte with each row.)
TakePackedTogether(r, w, h, bits) ==
    LET q == TakeMany(r, "u8", CeilDiv(w * h * bits, ByteBits))
    IN  IF ~q.ok THEN q ELSE [q EXCEPT !.val = [i \in 1 .. w * h |-> PackedIndex(q.val, i - 1, bits)]]
TakePacked(r, w, h, bits) ==
    LET rowBytes == CeilDiv(w * bits, ByteBits)
        q == TakeMany(r, "u8", rowBytes * h)
        row(y) == SubSeq(q.val, y * rowBytes + 1, (y + 1) * rowBytes)
    IN  IF ~q.ok THEN q
        ELSE [q EXCEPT !.val = [i \in 1 .. w * h |->
                 PackedIndex(row(CellAt(w, i)[2]), CellAt(w, i)[1], bits)]]

\* Indices into a palette.  One beyond its end fails in ZRLE; Tight does not
\* check and would panic, which a server that means a picture never brings about.
LookUp(r, palette) ==
    IF ~r.ok \/ \E i \in DOMAIN r.val : r.val[i] >= Len(palette) THEN Fail(r)
    ELSE [r EXCEPT !.val = Map(LAMBDA v : palette[v + 1], r.val)]

\* readRLELength: one more than the sum of the bytes up to the first that is
\* not RunByte.  (The mutant stops after a byte that is full.)
ReadRLELengthOneByte(r) ==
    LET q == TakeOne(r, "u8") IN [q EXCEPT !.val = 1 + @]
ReadRLELength(r) ==
    LET full(i) == r.buf[i].kind = "u8" /\ r.buf[i].val = RunByte
        k == CHOOSE n \in 0 .. Len(r.buf) :
                (\A i \in 1 .. n : full(i)) /\ (n < Len(r.buf) => ~full(n + 1))
        q == TakeMany(r, "u8", k + 1)
    IN  [q EXCEPT !.val = IF q.ok THEN 1 + k * RunByte + Last(@) ELSE 0]

\* A run: a colour and a length, the colour an index if there is a palette.
ReadRun(acc, total, palette) ==
    LET b == TakeOne(acc.r, IF palette = <<>> THEN "px" ELSE "u8")
        long == palette = <<>> \/ b.val >= 128
        idx == IF palette # <<>> /\ b.val >= 128 THEN b.val - 128 ELSE b.val
        n == IF long THEN ReadRLELength(b) ELSE [b EXCEPT !.val = 1]
    IN  IF ~acc.r.ok \/ Len(acc.out) = total THEN acc
        ELSE IF \/ ~b.ok \/ ~n.ok
                \/ palette # <<>> /\ idx >= Len(palette)
                \/ Len(acc.out) + n.val > total THEN [acc EXCEPT !.r = Fail(@)]
        ELSE [r |-> n,
              out |-> acc.out \o [i \in 1 .. n.val |-> IF palette = <<>> THEN idx ELSE palette[idx + 1]]]
\* The runs of a tile, until it is full: each has a pixel or more, so they are
\* no more than its pixels.
ReadRuns(r, total, palette) ==
    LET turn[k \in 0 .. total] ==
            IF k = 0 THEN [r |-> r, out |-> <<>>] ELSE ReadRun(turn[k - 1], total, palette)
    IN  [turn[total].r EXCEPT !.val = turn[total].out]

\* One colour for n pixels.
Spread(r, n) == [r EXCEPT !.val = [i \in 1 .. n |-> r.val]]
PaletteIndexBits(n) == IF n <= 2 THEN 1 ELSE IF n <= 4 THEN 2 ELSE 4

DecodeZRLETile(r, w, h) ==
    LET sub == TakeOne(r, "u8")
        pal(k) == TakeMany(sub, "px", k)
    IN  CASE ~sub.ok -> sub
          [] sub.ok /\ sub.val = 0 -> TakeMany(sub, "px", w * h)
          [] sub.ok /\ sub.val = 1 -> Spread(TakeOne(sub, "px"), w * h)
          [] sub.ok /\ sub.val \in 2 .. 16 ->
                 LookUp(TakePacked(pal(sub.val), w, h, PaletteIndexBits(sub.val)), pal(sub.val).val)
          [] sub.ok /\ sub.val = 128 -> ReadRuns(sub, w * h, <<>>)
          [] sub.ok /\ sub.val >= 130 ->
                 IF pal(sub.val - 128).ok
                 THEN ReadRuns(pal(sub.val - 128), w * h, pal(sub.val - 128).val)
                 ELSE Fail(sub)
          [] OTHER -> Fail(sub)

\* A decoder's outcome: the picture is shown, or the stream is lost.
Outcome(r, kind) ==
    /\ readable' = (r.ok /\ r.buf = <<>>)
    /\ shown' = IF readable' THEN [kind |-> kind, w |-> meant.w, h |-> meant.h, px |-> r.val] ELSE Nothing
    /\ stream' = <<>>
    /\ UNCHANGED <<meant, tiles, comp, updates>>
Reader == [buf |-> stream, val |-> <<>>, ok |-> TRUE]

DecodeRaw ==
    /\ meant.kind = "Raw" /\ stream # <<>>
    /\ Outcome(TakeMany(Reader, "px", meant.w * meant.h), "Raw")
    /\ UNCHANGED <<tx, ty, deco>>

DecodeCopyRect ==
    /\ meant.kind = "CopyRect" /\ stream # <<>>
    /\ Outcome(TakeMany(Reader, "u16", 2), "CopyRect")
    /\ UNCHANGED <<tx, ty, deco>>

\* A cursor's pixels, clear where its mask says so.
CursorPixels(r, w, h) ==
    LET pixels == TakeMany(r, "px", w * h)
        mask == TakePacked(pixels, w, h, 1)
    IN  IF w = 0 \/ h = 0 THEN r
        ELSE IF ~mask.ok THEN mask
        ELSE [mask EXCEPT !.val = [i \in DOMAIN pixels.val |->
                 IF mask.val[i] = 0 THEN Clear ELSE pixels.val[i]]]

DecodeCursor ==
    /\ meant.kind = "Cursor" /\ shown = Nothing /\ readable
    /\ Outcome(CursorPixels(Reader, meant.w, meant.h), "Cursor")
    /\ UNCHANGED <<tx, ty, deco>>

\* The chunk goes to its decompressor, which must have seen what came before.
Inflates(s, chunk) == chunk.of = s /\ chunk.at = deco[s]

DecodeZRLE ==
    /\ meant.kind = "ZRLE" /\ stream # <<>> /\ Head(stream).kind = "chunk"
    /\ readable' = Inflates(4, Head(stream).val)
    /\ deco' = [deco EXCEPT ![4] = @ + 1]
    /\ stream' = <<>> /\ tx' = 0 /\ ty' = 0
    /\ shown' = [kind |-> "ZRLE", w |-> meant.w, h |-> meant.h, px |-> <<>>]
    /\ UNCHANGED <<meant, tiles, comp, updates>>

\* One turn of the loop over the tiles.
DecodeTile ==
    /\ meant.kind = "ZRLE" /\ stream # <<>> /\ Head(stream).kind # "chunk"
    /\ ty < meant.h
    /\ LET tileH == IF TileSize < meant.h - ty THEN TileSize ELSE meant.h - ty
           tileW == IF TileSize < meant.w - tx THEN TileSize ELSE meant.w - tx
           r == DecodeZRLETile(Reader, tileW, tileH)
       IN  /\ readable' = (r.ok /\ r.buf = <<>>)
           /\ shown' = IF readable' THEN [shown EXCEPT !.px = <<tx, ty, tileW, tileH, r.val>>]
                                    ELSE Nothing
    /\ IF tx + TileSize < meant.w THEN tx' = tx + TileSize /\ UNCHANGED ty
                                  ELSE tx' = 0 /\ ty' = ty + TileSize
    /\ stream' = <<>>
    /\ UNCHANGED <<meant, tiles, comp, deco, updates>>

\* (The mutant reads two bytes at most.)
ReadTightCompactLengthTwo(r) ==
    LET b0 == TakeOne(r, "u8")
        b1 == TakeOne(b0, "u8")
    IN  IF b0.val < LenBits THEN b0
        ELSE [b1 EXCEPT !.val = (b0.val % LenBits) + (b1.val * LenBits)]
ReadTightCompactLength(r) ==
    LET b0 == TakeOne(r, "u8")
        b1 == TakeOne(b0, "u8")
        b2 == TakeOne(b1, "u8")
        low == (b0.val % LenBits) + ((b1.val % LenBits) * LenBits)
    IN  IF ~b0.ok \/ b0.val < LenBits THEN b0
        ELSE IF ~b1.ok \/ b1.val < LenBits THEN [b1 EXCEPT !.val = low]
        ELSE [b2 EXCEPT !.val = low + (@ * LenBits * LenBits)]

\* decodeTightGradient: each pixel predicted from those decoded before it.
DecodeTightGradient(in, w) ==
    LET pix[i \in 0 .. Len(in)] ==
            IF i = 0 THEN 0
            ELSE LET up == IF i <= w THEN 0 ELSE pix[i - w]
                     upLeft == IF i <= w THEN 0 ELSE pix[i - w - 1]
                     est == IF (i - 1) % w = 0 THEN up ELSE Clamp(up + pix[i - 1] - upLeft)
                 IN  (in[i] + est) % (MaxColour + 1)
    IN  [i \in 1 .. Len(in) |-> pix[i]]

\* The reset bits discard decompressors.  (The mutant keeps them.)
AfterResetsKept(zlib, resets) == zlib
AfterResets(zlib, resets) == [s \in Streams |-> IF s \in resets THEN 0 ELSE zlib[s]]

\* The filter of a "basic" rectangle: 0 copies, 1 is a palette, 2 the gradient.
TightFilter(r, sub) ==
    LET filter == TakeOne(r, "u8")
    IN  IF sub \div 4 = 0 THEN [r EXCEPT !.val = 0]
        ELSE IF filter.val \in 0 .. 2 THEN filter ELSE Fail(filter)

\* The palette that goes with it, empty unless the filter is one.
TightPalette(filter) ==
    LET count == TakeOne(filter, "u8")
    IN  IF filter.val = 1 THEN TakeMany(count, "px", count.val + 1) ELSE [filter EXCEPT !.val = <<>>]

\* The bytes of a row with a palette of n.
TightRowSize(n, w) ==
    IF n \in {1, 2} THEN CeilDiv(w, ByteBits) ELSE IF n # 0 THEN w ELSE w * PixelBytes

\* A compressed chunk with its length: what it inflates to is read next.
ReadChunk(r, s, zlib) ==
    LET length == ReadTightCompactLength(r)
        chunk == TakeOne(length, "chunk")
    IN  IF chunk.ok /\ chunk.val.size = length.val /\ chunk.val.of = s /\ chunk.val.at = zlib[s]
        THEN [chunk EXCEPT !.buf = chunk.val.data] ELSE Fail(chunk)

\* The pixels that the filtered bytes stand for.
TightImage(data, filter, palette, w, h) ==
    LET plain == TakeMany(data, "px", w * h)
    IN  IF Len(palette) \in {1, 2} THEN LookUp(TakePacked(data, w, h, 1), palette)
        ELSE IF palette # <<>> THEN LookUp(TakeMany(data, "u8", w * h), palette)
        ELSE IF plain.ok /\ filter = 2 THEN [plain EXCEPT !.val = DecodeTightGradient(@, w)]
        ELSE plain

\* A "basic" rectangle: raw when small, else from a chunk.  `zlib` holds the
\* decompressors' counts, and changes with a chunk.
TightBasic(r, sub, w, h, zlib) ==
    LET s == sub % 4
        filter == TightFilter(r, sub)
        palette == TightPalette(filter)
        small == h * TightRowSize(Len(palette.val), w) < MinToCompress
        data == IF small THEN palette ELSE ReadChunk(palette, s, zlib)
    IN  [r |-> TightImage(data, filter.val, palette.val, w, h),
         zlib |-> IF small THEN zlib ELSE [zlib EXCEPT ![s] = @ + 1]]

\* A JPEG image with its length.
ReadJpeg(r) ==
    LET length == ReadTightCompactLength(r)
        jpeg == TakeOne(length, "jpeg")
    IN  IF jpeg.ok /\ jpeg.val.size = length.val THEN [jpeg EXCEPT !.val = jpeg.val.px] ELSE Fail(jpeg)

TightRect(r, w, h, zlib) ==
    LET ctl == TakeOne(r, "u8")
        sub == ctl.val.sub
        left == AfterResets(zlib, ctl.val.resets)
    IN  CASE sub < 8 -> TightBasic(ctl, sub, w, h, left)
          [] sub = 8 -> [r |-> Spread(TakeOne(ctl, "px"), w * h), zlib |-> left]
          [] sub = 9 -> [r |-> ReadJpeg(ctl), zlib |-> left]
          [] OTHER -> [r |-> Fail(ctl), zlib |-> left]

DecodeTight ==
    /\ meant.kind = "Tight" /\ stream # <<>>
    /\ LET rect == TightRect(Reader, meant.w, meant.h, deco)
       IN  Outcome(rect.r, "Tight") /\ deco' = rect.zlib
    /\ UNCHANGED <<tx, ty>>

\* The loop over the rectangles of an update goes on.
NextRect ==
    /\ stream = <<>> /\ readable /\ meant # Nothing
    /\ shown # Nothing /\ (meant.kind = "ZRLE" => ty >= meant.h)
    /\ meant' = Nothing /\ shown' = Nothing /\ tiles' = 0 /\ tx' = 0 /\ ty' = 0
    /\ UNCHANGED <<stream, comp, deco, updates, readable>>

RectsNext ==
    \/ ServerRect \/ ServerTile \/ NextRect
    \/ DecodeRaw \/ DecodeCopyRect \/ DecodeCursor \/ DecodeZRLE \/ DecodeTile \/ DecodeTight
RectsSpec == RectsInit /\ [][RectsNext]_rectsVars
-----------------------------------------------------------------------------
\* Whatever way the server writes a rectangle, the client reads exactly its
\* bytes, each chunk with the history it was compressed with, and shows the
\* picture that was meant, tile by tile (encodings.go, tight.go).
RectsFaithful ==
    /\ readable
    /\ stream = <<>> /\ shown # Nothing => shown = meant
    /\ stream = <<>> => deco = comp
    /\ stream = <<>> /\ meant.kind = "ZRLE" => (AllTilesSent <=> ty >= meant.h)
=============================================================================

-------------------------- MODULE MCScreenDecoders --------------------------
EXTENDS ScreenDecoders

\* Versions before 3.7, the three that exist, and later ones.
MCVersions == {<<3, 3>>, <<3, 5>>, <<3, 7>>, <<3, 8>>, <<3, 889>>, <<4, 1>>}
MCOffers == SUBSET SecTypes
MCCredentials == SUBSET {"user", "password"}

\* A rectangle of 5 x 1 has more pixels than a byte has bits; tiles are 2 x 2,
\* so a rectangle of 3 x 3 has four of them and three are narrow.
MCSizes == {<<1, 1>>, <<2, 1>>, <<2, 2>>, <<3, 2>>, <<5, 1>>}
MCTiledSizes == {<<1, 1>>, <<3, 3>>}

\* A palette of n entries; with 5 of 3 colours, some come twice.
PaletteOf(n) == [i \in 1 .. n |-> (i - 1) % 3]
MCPalettes == {PaletteOf(n) : n \in 2 .. 5}
MCTightPalettes == {PaletteOf(2), PaletteOf(3)}

Box4(l, t, w, h) == [left |-> l, top |-> t, width |-> w, height |-> h]
MCRects == {Box4(0, 1, 1, 1), Box4(5, 1, 2, 1)}
MCLists == {<<Box4(0, 1, 1, 1), Box4(5, 1, 1, 2), Box4(3, 9, 1, 2)>>, <<Box4(5, 0, 9, 1)>>}
MCColours == {<<0, 0, 0>>, <<7, 7, 7>>, <<0, 7, 2>>}
MCOffsets == {<<1, 0>>, <<0, -6>>}
=============================================================================

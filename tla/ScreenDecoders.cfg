SPECIFICATION Spec
CONSTANTS
    ServerVersions <- MCVersions
    Offers <- MCOffers
    Credentials <- MCCredentials
    Sizes <- MCSizes
    TiledSizes <- MCTiledSizes
    MaxColour = 2
    TileSize = 2
    ByteBits = 4
    RunByte = 2
    Palettes <- MCPalettes
    TightPalettes <- MCTightPalettes
    PixelBytes = 2
    MinToCompress = 3
    LenBits = 2
    ChunkSizes = {1, 3, 6}
    MaxUpdates = 2
    Bits = {1}
    Width = 2
    Height = 3
    MaskRegular = 2
    MaskLite = 1
    ByteMax = 1
    MaskBits = 3
    Byte = 8
    MaxRects = 3
    MaxOrders = 2
    Rects <- MCRects
    Lists <- MCLists
    Colours <- MCColours
    Offsets <- MCOffsets
INVARIANTS
    TypeOK
    HandshakeAgrees
    RectsFaithful
    RleFaithful
    OrdersFaithful
CHECK_DEADLOCK FALSE

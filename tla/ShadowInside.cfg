SPECIFICATION Spec
CONSTANTS
    Sizes <- InsideSizes
    Colours = {black, white}
    Black = black
    Unknown = unknown
    Outside = 0
INVARIANTS
    TypeOK
    ShadowCoherent
    Faithful

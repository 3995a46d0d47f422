\* Blocks of two bytes and more, integers of two; an unknown type; a message without fields.
SPECIFICATION CodecSpec
CONSTANTS
    MinSize = 2
    IntSize = 2
    Names <- ThreeNames
    Generated <- KnownNames
    Bodies <- ThreeBodies
    MaxMessages = 2
INVARIANTS
    CodecIInv
PROPERTIES
    DecodeIsRight
CHECK_DEADLOCK FALSE

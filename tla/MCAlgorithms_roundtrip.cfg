SPECIFICATION RoundTripSpec
CHECK_DEADLOCK FALSE
CONSTANTS
    Encoder <- RowEncode
    Decoder <- RowDecode
    Compiler <- lower_statement
    Renderer <- Shape
    Octet = 64
    W16 = 1
    Digit = 8
    Bits = 6
    Clock <- MCClock
    DateMin <- MCDateMin
    DateMax = 1000
    StampMin <- MCStampMin
    StampMax = 100000
    Tables <- MCTables
    Values <- MCExact
    NoiseKinds = {}
    NoiseBytes <- MCNoiseBytes
    Shapes <- MCShapes
    Messages <- MCMessages
    Copies <- MCCopies
    Bodies = {}
    Pieces = {"ascii", "wide", "$1", "int4", "text"}
    MaxPieces = 0
    Alphabets = {}
    MaxText = 1
    Statements = {}
INVARIANT RoundTripsExactly

SPECIFICATION Spec
CHECK_DEADLOCK FALSE
CONSTANTS
    Encoder <- RowEncode
    Decoder <- RowDecode
    Compiler <- lower_statement
    Renderer <- Shape
    Octet = 64
    W16 = 1
    Digit = 8
    Bits = 6
    Clock <- MCClock
    DateMin <- MCDateMin
    DateMax = 1000
    StampMin <- MCStampMin
    StampMax = 100000
    Tables <- MCTables
    Values <- MCValues
    NoiseKinds <- MCNoiseKinds
    NoiseBytes <- MCNoiseBytes
    Shapes <- MCShapes
    Messages <- MCMessages
    Copies <- MCCopies
    Bodies = {0, 5, 20, 31, 32, 40}
    Pieces = {"ascii", "wide", "$1", "int4", "text"}
    MaxPieces = 4
    Alphabets <- MCAlphabets
    MaxText = 5
    Statements <- MCStatements
INVARIANT RoundTrips
INVARIANT DamageIsNoticed
INVARIANT ArrivesAsWritten
INVARIANT PlaceholdersMatchSlots
INVARIANT CanonicalFaithful
INVARIANT ShapesMeanTheSource
INVARIANT TypesAgree

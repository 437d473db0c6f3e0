SPECIFICATION Spec
CONSTANTS
  Limb = 65536
  MaxInt = 127
  PointerDigits = 16
  Formats <- LongFractions
  Rooms <- MCRooms
  Enough = 1000
  Lines = {}
  Points = {}
  Words = {}
  Names = {}
  Payloads = {}
  Coded = {}
  Pieces = {}
  Cuts = {}
INVARIANT FractionsAsDocumented

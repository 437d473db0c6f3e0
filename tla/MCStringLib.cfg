SPECIFICATION Spec
CONSTANTS
  Limb = 65536
  MaxInt = 127
  PointerDigits = 16
  Formats <- MCFormats
  Rooms <- MCRooms
  Enough = 1000
  Lines <- MCLines
  Points <- MCPlaces
  Words <- MCWords
  Names <- MCNames
  Payloads <- MCPayloads
  Coded <- MCCoded
  Pieces <- MCPieces
  Cuts <- MCCuts
INVARIANTS
  NeverPastTheEnd
  IntegersReadBack
  FractionsReadBack
  ParsesExactly
  OrdersConsistently
  FindsFirst
  SortsStably
  ComesBack
  RoomIsEnough
  Utf8Exact

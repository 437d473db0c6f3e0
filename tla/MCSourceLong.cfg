SPECIFICATION Spec
CONSTANTS
  Files <- MCFiles
  Wide = 32
  Slots = 2
  Room = 10
INVARIANT CommentsRemoved

SPECIFICATION Spec
CONSTANTS
  NEntries = 4
  Points <- MCPoints
  Default <- MCDefault
  NLetters = 2
  Seconds = 3
  Delay = 3
  Repeat = 2
INVARIANTS
  Sorted
  NamesAreOwners
  MarksUnique
  FoundIsMarked
PROPERTIES
  EntryEnds
  ImplementsPendingNames

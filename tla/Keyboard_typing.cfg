SPECIFICATION KeyboardSpec
CONSTANTS
  Keys <- MCKeys
  Repeats <- MCRepeats
  bufsize = 2
  MaxWire = 3
INVARIANTS ModifiersFollow TypedAsMeant

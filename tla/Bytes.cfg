SPECIFICATION Spec
CONSTANTS
  Width = 3
  Group = 1
  BaseSize = 2
  Data <- Strings
  Lengths = {1, 3}
  Positions = {0, 1, 2, 3, 4, 5}
  Fresh = {0, 3}
  MaxCapacity = 5
INVARIANTS CurIsAtPosition IntegersReadBack
PROPERTIES IsByteSequence

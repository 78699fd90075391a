SPECIFICATION Spec
CONSTANTS
  Readers = {"r"}
  Writer = "w"
  UserKeys <- MCUserKeys
  Writes <- MCWrites
  MaxHeight = 2
  MaxSequence = 3
INVARIANTS SearchExact GetSeesSnapshot LevelsNested

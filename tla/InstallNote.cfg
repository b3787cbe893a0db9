SPECIFICATION Spec
CONSTANTS
  Kinds <- MCKinds
  Variables <- MCVariables
  Explicit <- MCExplicit
  MaxEdits = 1
INVARIANTS
  NoteIsTrue

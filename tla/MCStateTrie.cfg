SPECIFICATION Spec
CONSTANTS
  AddrSpace = 1
  RawSpace = 2
  Slot = {s1, s2}
  Word = 2
  Body = {b0}
  EmptyBody = b0
  NoAccount = NoAccount
  NoValue = NoValue
  MaxJournal = 4
  MaxSnapshots = 2
INVARIANTS
  TypeOK
  RevertRestores
PROPERTY Refines

SPECIFICATION Spec
CONSTANTS
  Ada = Ada
  Bea = Bea
  Rare = Rare
  rare = rare
  RARE = RARE
  One = One
  Two = Two
  Clients = {Ada, Bea}
  Names = {Rare, rare}
  Values = {One, Two}
  OldNames = {RARE}
  OldName <- MCOldName
  Kinds <- ReadAndWrite
  Accounts <- MCAccounts
  Nobody = Nobody
  NoFile = NoFile
  Absent = Absent
  Damaged = Damaged
  NoAnswer = NoAnswer
  Failed = Failed
  Yes = Yes
  No = No
INVARIANTS
  MovedKept

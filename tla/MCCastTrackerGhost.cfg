SPECIFICATION Spec
CONSTANTS
  Flame = Flame
  Nether = Nether
  Drudge = Drudge
  Spells = {Flame, Nether}
  Targets = {Drudge}
  School <- MCSchool
  Deadly = {Flame}
  Wide = {Nether}
  Gaps = {1}
  LaunchBudget = 3
  ResultBudget = 2
  Lockout = 1
  MaxFrame = 2
  MaxLines = 1
INVARIANTS
  SentInFlight

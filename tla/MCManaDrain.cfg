SPECIFICATION Spec
CONSTANTS
  Ada = Ada
  Orb = Orb
  Wand = Wand
  Stone = Stone
  Loot = Loot
  Bea = Bea
  Gem = Gem
  Junk = Junk
  Characters = {Ada}
  Donors = {Orb, Wand}
  Stones = {Stone}
  Kinds = {Loot}
  HasStorage = TRUE
  Nobody = Nobody
  World = World
  Gone = Gone
  NoStone = NoStone
  NoEntry = NoEntry
  NoDrain = NoDrain
  Broken = Broken
INVARIANTS
  TypeOK
  WrittenBeforeSent
PROPERTIES
  OncePromised
SYMMETRY DonorSymmetry
CHECK_DEADLOCK FALSE

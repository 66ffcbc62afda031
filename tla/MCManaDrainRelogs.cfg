SPECIFICATION Spec
CONSTANTS
  Ada = Ada
  Orb = Orb
  Wand = Wand
  Stone = Stone
  Loot = Loot
  Bea = Bea
  Gem = Gem
  Junk = Junk
  Characters = {Ada, Bea}
  Donors = {Orb}
  Stones = {Stone}
  Kinds = {Loot}
  HasStorage = TRUE
  Nobody = Nobody
  World = World
  Gone = Gone
  NoStone = NoStone
  NoEntry = NoEntry
  NoDrain = NoDrain
  Broken = Broken
PROPERTIES
  DrainsTheCollected
CHECK_DEADLOCK FALSE

SPECIFICATION FairSpec
CONSTANTS
  Ada = Ada
  Orb = Orb
  Wand = Wand
  Stone = Stone
  Loot = Loot
  Bea = Bea
  Gem = Gem
  Junk = Junk
  Characters = {Ada}
  Donors = {Orb}
  Stones = {Stone}
  Kinds = {Loot, Junk}
  HasStorage = TRUE
  Nobody = Nobody
  World = World
  Gone = Gone
  NoStone = NoStone
  NoEntry = NoEntry
  NoDrain = NoDrain
  Broken = Broken
PROPERTIES
  DrainsTheCollected
  PermissionKept
  ReservationsSettle
CHECK_DEADLOCK FALSE

\* The default meta interval: the meta is looked at with the pass only.
SPECIFICATION FairSpec
CONSTANTS
  Heal = Heal
  Recharge = Recharge
  Monster = Monster
  Attack = Attack
  NoRule = NoRule
  NoTarget = NoTarget
  MainRules <- MCMainRules
  OffRules <- MCOffRules
  Targets <- MCTargets
  Heartbeat = 2
  MetaInterval = 2
  Watchdog = 3
  Steps = {1, 2}
  MaxBacklog = 4
INVARIANTS
  TypeOK
  HoldsHaveOwners
  TurnBelongsToAttack
  OneListRuns
  MetaClockExact
PROPERTIES
  PassWaitsForAnswer
  MacroKeepsPassing

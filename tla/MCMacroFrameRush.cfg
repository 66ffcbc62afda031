\* A meta interval shorter than the heartbeat: the meta is looked at between passes too.
SPECIFICATION Spec
CONSTANTS
  Heal = Heal
  Recharge = Recharge
  Monster = Monster
  Attack = Attack
  NoRule = NoRule
  NoTarget = NoTarget
  MainRules <- MCMainRules
  OffRules <- MCOffRules
  Targets <- MCTargets
  Heartbeat = 2
  MetaInterval = 1
  Watchdog = 3
  Steps = {1, 2}
  MaxBacklog = 4
INVARIANTS
  MetaNeverRushed

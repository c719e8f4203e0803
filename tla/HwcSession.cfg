SPECIFICATION FairSpec
CONSTANTS
  Services = {"s1"}
  Budgets <- MCBudgets
INVARIANTS
  SequenceUndisturbed
  ViewSettled
PROPERTIES
  ExternalYieldsToVirtual
  NothingStuck
  BandwidthApplied
CHECK_DEADLOCK FALSE

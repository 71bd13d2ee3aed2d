\* All methods on four scopes, with failing writes and crashes.
SPECIFICATION BudgetSpec
CONSTANTS
  MaxScopes = 4
  Limits = {2}
  Usages = {1}
  MaxFaults = 1
INVARIANTS Balance ReservedWhileOpen AckSurvives
CHECK_DEADLOCK FALSE

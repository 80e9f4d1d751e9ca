SPECIFICATION Spec
CONSTANTS
  c1 = c1  c2 = c2  c3 = c3
  Calls <- ThreeCalls
  CATALOG_BUDGET = 2
  Wrapped = TRUE
  WarmChoices <- Both
  MaxAnswers = 2
  MaxAsked = 4
INVARIANTS TypeOK HeaderCountsCalls
PROPERTIES BudgetKept
CHECK_DEADLOCK FALSE

SPECIFICATION Spec
CONSTANTS
  c1 = c1  c2 = c2  c3 = c3
  Calls <- OneCall
  CATALOG_BUDGET = 2
  Wrapped = FALSE
  WarmChoices <- No
  MaxAnswers = 1
  MaxAsked = 4
INVARIANTS WithinBudget
CHECK_DEADLOCK FALSE

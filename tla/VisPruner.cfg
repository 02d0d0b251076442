\* One and two views of six tokens; budgets that leave pairs, a pair and a half, one
\* token, nothing to prune, and no pruning at all.
CONSTANTS
  Patches = 6
  MaxImages = 2
  Budgets = {0, 1, 3, 4, 5, 8}
  Percents = {50, 100, 150}
  ViewData <- MCViewData
SPECIFICATION Spec
INVARIANTS
  
  KeepsMostImportant
  OrderKept
PROPERTIES
  DropsMostSimilar
  Returns
\* prepare_inputs returns.
CHECK_DEADLOCK FALSE

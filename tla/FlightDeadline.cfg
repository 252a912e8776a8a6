SPECIFICATION Spec
CONSTANTS
  h1 = h1
  h2 = h2
  g = g
  t1 = t1
  t2 = t2
  Nobody = Nobody
  Tables = {t1}
  Requests = {h1, h2, g}
  Flight = {g}
  TableOf <- OneTable
  ColumnSince <- NewColumn
  MaxCommits = 2
INVARIANT DeadlineEnforced

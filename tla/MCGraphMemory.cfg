SPECIFICATION Spec
CONSTANTS
  p1 = p1
  p2 = p2
  q1 = q1
  q2 = q2
  t1 = t1
  t2 = t2
  Procs = {p1, p2}
  Projects = {q1, q2}
  Tasks = {t1, t2}
  Agents = {"developer"}
  Extras = {{"impact"}}
  MaxHops = 2
  MaxStarts = 2
  MaxFaults = 1
SYMMETRY Symmetry
INVARIANTS TypeOK EventsAreBacked
PROPERTY TagsKept
CHECK_DEADLOCK FALSE

SPECIFICATION Spec
CONSTANTS
  None = None
  Configs = {c1, c2}
  Replies = {r1, r2}
  Usual = r1
  MaxUpsets = 2
INVARIANTS PassBuildsEverything RerunsOnlyDownstream
SYMMETRY ConfigSymmetry

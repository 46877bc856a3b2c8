\* One caller, two runs: the runner of the second is not found.
SPECIFICATION Spec
CONSTANTS
  Callers = {c1}
  Profiles = {f1, f2}
  NoProfile = NoProfile
  MaxRuns = 2
SYMMETRY Symmetric
INVARIANT DetailsOfMostRecent

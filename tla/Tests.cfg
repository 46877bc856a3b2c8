\* Two callers, three runs, two names for temporary files.
SPECIFICATION Spec
CONSTANTS
  Callers = {c1, c2}
  Profiles = {f1, f2}
  NoProfile = NoProfile
  MaxRuns = 3
SYMMETRY Symmetric
INVARIANTS TypeOK FailureIsLatest CoverageIsOwn

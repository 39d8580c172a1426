SPECIFICATION Spec
CONSTANTS
  Fixtures = 3
  Systems = {gemma, llama}
  Versions = {published, revised}
  None = None
  MaxLaunches = 3
CHECK_DEADLOCK FALSE
INVARIANTS
  StoppedRunsCanResume

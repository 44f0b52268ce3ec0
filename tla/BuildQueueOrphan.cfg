\* A cancel just before a restart of the relay.
SPECIFICATION Spec
CHECK_DEADLOCK FALSE
CONSTANTS
  MaxRows = 1
  Hosts = {"local"}
  SshHosts = {}
  Probed = {}
  Concurrency <- DefaultConcurrency
  HostNames = {"local"}
  MaxAttempts = 1
  Unkillable = {}
  Briefs = {}
  DefaultHost = "local"
  CancelKinds = {"cli"}
  MaxCancels = 1
  MaxRestarts = 1
  MaxOutages = 0
INVARIANTS NoOrphan

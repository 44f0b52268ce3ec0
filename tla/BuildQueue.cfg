\* A local and a remote host, restarts, an outage; nobody cancels.
SPECIFICATION Spec
CHECK_DEADLOCK FALSE
CONSTANTS
  MaxRows = 2
  Hosts = {"local", "remote"}
  SshHosts = {"remote"}
  Probed = {"remote"}
  Concurrency <- DefaultConcurrency
  HostNames = {"local", "remote"}
  MaxAttempts = 2
  Unkillable = {}
  Briefs = {}
  DefaultHost = "local"
  CancelKinds = {"cli"}
  MaxCancels = 0
  MaxRestarts = 2
  MaxOutages = 1
INVARIANTS TypeOK RetryBounded NoRunOutlivesRow RunningHasTask

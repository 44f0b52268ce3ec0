\* A cancel of either kind on either host, a retired host, kills and uploads that fail, a
\* brief, a restart.
SPECIFICATION Spec
CHECK_DEADLOCK FALSE
CONSTANTS
  MaxRows = 2
  Hosts = {"local", "remote"}
  SshHosts = {"remote"}
  Probed = {"remote"}
  Concurrency <- DefaultConcurrency
  HostNames = {"local", "remote", "retired"}
  MaxAttempts = 1
  Unkillable = {"remote"}
  Briefs = {"b1"}
  DefaultHost = "local"
  CancelKinds = {"cli", "direct"}
  MaxCancels = 1
  MaxRestarts = 1
  MaxOutages = 1
INVARIANTS SlotsRespected OneRowPerBrief
PROPERTIES CancelSticks

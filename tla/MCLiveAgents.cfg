\* Liveness.  The bounds are in the module, with the instances.
SPECIFICATION LiveSpec
PROPERTIES RowsSettle AgentsGoOn
CHECK_DEADLOCK FALSE

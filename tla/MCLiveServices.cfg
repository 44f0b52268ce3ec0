\* Liveness.  The bounds are in the module, with the instances.
SPECIFICATION LiveSpec
PROPERTIES WorkIsServed TroubleIsHeard UpgradesEnd
CHECK_DEADLOCK FALSE

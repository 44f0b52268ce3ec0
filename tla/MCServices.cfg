\* The components around the turn loop.  The bounds of the instances are in the module.
SPECIFICATION ServicesSpec
CONSTANTS
  \* host upgrade
  Versions = {1, 2, 3}
  Unhealthy = {2}
  NeedMigration = {3}
  MaxRequests = 3
  MaxHostFaults = 1
  \* CLI upgrade
  Releases = {1, 2, 3}
  Broken = {2}
  FirstRelease = 1
  Attempts = 2
  MaxArrivals = 2
  MaxUpgrades = 1
  MaxCliFaults = 2
  \* migration
  Steps = {10, 35, 60}
  MaxRuns = 3
  MaxRunDeaths = 2
  MaxWork = 1
PROPERTIES AnswersAreRight   
CHECK_DEADLOCK FALSE

SPECIFICATION Spec
CONSTANTS
  w1 = w1
  Workers = {w1}
  Hosts = {"redis", "localhost", "elsewhere"}
  LocalHosts = {"localhost"}
  Origins = {"listed", "foreign"}
  Releases <- Checkouts
  EnvFiles <- Files
  HandGrants = {"audit.read"}
  Edits <- OneApart
  MaxBuilds = 1
  MaxEdits = 1
  MaxFaults = 1
INVARIANTS
  TypeOK
  SchemaIsRight
  PreflightIsEnough
  RolloutStarts
  ExposureIsIntended
  RolesFollowTheRelease
  NothingLeaks
PROPERTIES
  ComesBack

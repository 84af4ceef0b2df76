SPECIFICATION FairSpec
CONSTANTS
  a = a
  b = b
  c = c
  d = d
  missing = missing
  Plugin = {a, b, c, d}
  Id = {a, b, c, d, missing}
  Version = {0, 1}
  MetaData <- Descriptors
  Directory <- BothWays
  MayFail = {"load", "unload"}
INVARIANTS
  DependenciesFirst
  AllLoadable
  VersionsChecked
PROPERTIES
  UnloadedUnused
  LoadingEnds
CHECK_DEADLOCK FALSE

CONSTANTS
  External = TRUE
  App = TRUE
  build = build
  lint = lint
  Check = {build, lint}
  MaxResets = 1
  MaxCommits = 2
  MaxSpawns = 2
  MaxFaults = 1
SPECIFICATION FairSpec
CONSTRAINT Followed
INVARIANTS TypeOK MergedIsVetted ApprovalHasNoWatchers
PROPERTIES WatchersReturn
CHECK_DEADLOCK FALSE

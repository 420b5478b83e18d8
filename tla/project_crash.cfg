SPECIFICATION Spec
CONSTANTS
  lint = lint docs = docs claude = claude copilot = copilot
  h1 = h1 h2 = h2 v1 = v1 v2 = v2 p1 = p1 p2 = p2
  Comps <- TwoSkills
  NameOf <- OwnNames
  Skills <- TwoSkills
  Agents = {claude, copilot}
  Layout <- OneEach
  Harnesses = {h1, h2}
  NoHarness = NoHarness
  NumFiles = 2
  Blobs = {v1, v2}
  Absent = Absent
  Torn = Torn
  Edited = Edited
  MaxCommit = 2
  HubTree <- MCHubTree
  HubHarness <- MCHubHarness
  Procs = {p1}
  NoLoc = NoLoc
  Nothing = Nothing
  SharedCache = FALSE
  EditWhileRunning = FALSE
  MaxEdits = 0
  MaxFaults = 1
INVARIANTS
  MarkerTruthful
  InstallMatchesLock
  IgnoreExact
  RemovedIsGone
  OkIsPublished

SPECIFICATION Spec
CONSTANTS
  lint = lint docs = docs claude = claude copilot = copilot
  h1 = h1 h2 = h2 v1 = v1 v2 = v2 p1 = p1 p2 = p2
  Comps <- JustLint
  NameOf <- OwnNames
  Skills <- JustLint
  Agents = {claude}
  Layout <- MCLayout
  Harnesses = {h1}
  NoHarness = NoHarness
  NumFiles = 2
  Blobs = {v1, v2}
  Absent = Absent
  Torn = Torn
  Edited = Edited
  MaxCommit = 2
  HubTree <- MCHubTree
  HubHarness <- MCHubHarness
  Procs = {p1, p2}
  NoLoc = NoLoc
  Nothing = Nothing
  SharedCache = FALSE
  EditWhileRunning = FALSE
  MaxEdits = 0
  MaxFaults = 0
SYMMETRY ProcSymmetry
INVARIANTS
  MarkerPublished

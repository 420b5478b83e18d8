SPECIFICATION FairSpec
CONSTANTS
  lint = lint docs = docs claude = claude copilot = copilot
  h1 = h1 h2 = h2 v1 = v1 v2 = v2 p1 = p1 p2 = p2
  Comps <- TwoSkills
  NameOf <- OwnNames
  Skills <- TwoSkills
  Agents = {claude}
  Layout <- OneEach
  Harnesses = {h1}
  NoHarness = NoHarness
  NumFiles = 2
  Blobs = {v1, v2}
  Absent = Absent
  Torn = Torn
  Edited = Edited
  MaxCommit = 2
  HubTree <- SwapTree
  HubHarness <- SwapHarness
  Procs = {p1}
  NoLoc = NoLoc
  Nothing = Nothing
  SharedCache = TRUE
  EditWhileRunning = FALSE
  MaxEdits = 0
  MaxFaults = 0
  skill = skill hook = hook other = other n1 = n1 n2 = n2 bad = bad
  d1 = d1 d2 = d2 codex = codex ghost = ghost
  Kinds = {skill, hook}
  SkillKind = skill
  Kebab = {n1, n2}
  Canonical = {claude, codex}
  Adapters <- MCAdapters
  Entries <- MCEntries
  Leaves = {d1, d2}
  Parts = {0, 1, 2}
  NoPart = NoPart
  MaxEntries = 2
  MaxList = 2
INVARIANTS
  CatalogueInstalls
  ConstraintPicks
PROPERTIES
  CommandEnds

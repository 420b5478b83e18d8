SPECIFICATION Spec
CONSTANTS
  lint = lint docs = docs base_h = base_h team_h = team_h r1 = r1 r2 = r2
  Comps = {lint, docs}
  Harnesses = {base_h, team_h}
  Default = base_h
  Requests = {r1, r2}
  Nothing = Nothing
  FirstTrees <- MCFirstTrees
  Asked <- MCAsked
  Pushed <- MCPushed
  KeepsHeads = FALSE
  MaxMain = 3
  MaxFaults = 1
SYMMETRY RequestSymmetry
INVARIANTS
  ProposalIsAction
  BranchHasOwner
PROPERTIES
  MergeKeepsMirror
  LifecycleForwardOnMain
  KeepsProposals

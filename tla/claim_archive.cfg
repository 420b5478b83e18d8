SPECIFICATION Spec
CONSTANTS
  absent = absent torn = torn guide = guide tool = tool text1 = text1 text2 = text2
  Releases <- MCReleases
  Files = {guide, tool}
  Blobs = {text1, text2, absent}
  Absent = absent
  TornFile = torn
  Nested = {}
  Wrapped = FALSE
  Header <- MCHeader
  Elsewhere = {"manifest"}
  MaxFaults = 1
  skills = skills rules = rules
  PathOrder <- MCPathOrder
  UnderFdh = {rules}
  UserLines = {user1, user2}
  Refs = {ref1, ref2}
  Held = held Named = named Closed = closed Compat = compat
  AgentKey = agentkey Substitution = substitution Prose = prose
  MaxIgnored = 7 MaxMarked = 3 MaxPublished = 4
INVARIANT
  ArchiveMatchesSidecar

SPECIFICATION Spec
CONSTANTS
  risky = risky gone = gone
  loop = loop forced = forced q1 = q1 q2 = q2
  History <- MCReleases
  TagOf <- MCTagOf
  Verdict <- MCVerdict
  Data = {risky}
  NoFile = gone
  Refreshers = {loop, forced}
  Loop = loop
  FirstTip = 1
  Requests = {q1}
  Kinds = {"manifest", "sidecar", "tarball"}
  MaxFaults = 1
INVARIANTS
  SnapshotWhole
  ReleasedIsFixed

SPECIFICATION Spec
CONSTANTS
  risky = risky gone = gone
  loop = loop forced = forced q1 = q1 q2 = q2
  History <- MCHistory
  TagOf <- MCTagOf
  Verdict <- MCVerdict
  Data = {risky}
  NoFile = gone
  Refreshers = {loop, forced}
  Loop = loop
  FirstTip = 1
  Requests = {q1}
  Kinds = {"contributions"}
  MaxFaults = 2
INVARIANTS
  ContributionsOfHead
PROPERTIES
  EventuallyCurrent
  SnapshotForward

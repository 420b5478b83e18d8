SPECIFICATION Spec
CONSTANTS
    Procs = {p1, p2}
    Projects = {q1}
    NoSection = NoSection
    CaptureIds = {"c1"}
    Bodies = {"x", "y"}
    Bundle <- ABundle
    NoBody = "empty"
    Absent = Absent
    Torn = Torn
    Broken = Broken
    MinCluster = 2
    MaxCommands = 3
    MaxFaults = 1
    word1 = word1 word2 = word2
    Sample <- MCSample
    SlugWords = {word1, word2}
    Slugs <- MCSlugs
    MaxGraph = 4
    MaxInstincts = 3
    MaxDrafts = 4
INVARIANTS LedgerWhole CountNotAhead DraftsAreGroups DraftsAreKept
PROPERTIES KeepsPromise InstinctsKept
CHECK_DEADLOCK FALSE

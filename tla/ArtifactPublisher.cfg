\* One process at a time, several builds: every failure and every kill.
SPECIFICATION Spec
CONSTANTS
    Publishers = {p1}
    MaxBuilds = 4
INVARIANTS
    TypeOK
    NeverPartial
    PairAgrees
    FailureLeavesNoTrace
PROPERTIES
    ArtifactAppearsDescribed

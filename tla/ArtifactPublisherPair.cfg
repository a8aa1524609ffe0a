\* Two processes publish to the same output path.
SPECIFICATION Spec
CONSTANTS
    Publishers = {p1, p2}
    MaxBuilds = 2
PROPERTIES
    ArtifactAppearsDescribed

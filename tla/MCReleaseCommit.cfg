\* One run at a time, over a version with a second commit.
SPECIFICATION Spec
CONSTANTS
    Runs = {r1}
    LastCommit = 2
    VersionAt <- OneVersion
PROPERTY TagNamesTheRelease

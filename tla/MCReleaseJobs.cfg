\* One run and one job at a time, over a version with a second commit.
SPECIFICATION JobsFairSpec
CONSTANTS
    Runs = {r1}
    LastCommit = 2
    VersionAt <- OneVersion
    Jobs = {j1}
INVARIANTS CrateFromTheTag PublicReleaseWhole
PROPERTY DraftFinishes

\* Two overlapping runs over a version with a second commit and a bump.
SPECIFICATION FairSpec
CONSTANTS
    Runs = {r1, r2}
    LastCommit = 3
    VersionAt <- TwoVersions
INVARIANT TagsAgree
PROPERTIES TagAfterPublish RepairShipsTheTag RepairFinishes

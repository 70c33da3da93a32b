CONSTANTS
    MaxLeaves = 110
    MaxSegment = 8
SPECIFICATION Spec
INVARIANTS PeaksAreTrees NavigationFollowsHashes SegmentIsExact PrunedParentsRebuild
CHECK_DEADLOCK FALSE

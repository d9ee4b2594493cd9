SPECIFICATION FairSpec
INVARIANTS TypeOK TasksOutlivedByTheirObjects TrackerFindsFeedback
PROPERTY SessionEnds

SPECIFICATION FairQueueSpec
CONSTANTS
    t1 = t1
    t2 = t2
    t3 = t3
    t4 = t4
    Ids = {t1, t2, t3, t4}
    MaxTasks = 2
CHECK_DEADLOCK FALSE
INVARIANTS QueueTypeOK RecordTellsTruth HandlesAreLive DeleteStopsWork
PROPERTIES Lifecycle EvictsOnlyWhenFull EveryTaskEnds

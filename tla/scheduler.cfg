CONSTANTS
    HoursPerDay = 2
    DaysPerWeek = 2
    ReconcileHour = 1
    CompareHour = 1
    RecentDays = 3
    ReconcileDays = 2
    CompareDays = 3
    MaxCatchup = 4
    NoDate = NoDate
    FirstInstant <- MCFirstInstant
    LastInstant = 16
    Zones = {0, 1}
    Archives <- MCArchives
    QueueMax = 1
    RetryDelay = 2
    PauseReasons = {"disabled"}
    Endings <- MCEndings
    MaxDisruptions = 2
SPECIFICATION FairSchedule
INVARIANTS ScheduleIsHonest
PROPERTIES GapsAreNotSkipped CadencesKeepUp
CHECK_DEADLOCK FALSE

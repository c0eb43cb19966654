SPECIFICATION FairSpec
CONSTANTS
    s1 = s1
    s2 = s2
    Session = {s1, s2}
    Nobody = Nobody
    ReportId = {"key"}
    NoReportId = NoReportId
    Group = {"group"}
    Release = {1}
    Absent = Absent
    Body = {"a", "b"}
    Record = {0, 1}
    MaxRequests = 3
    MaxFaults = 1
CHECK_DEADLOCK FALSE
INVARIANTS
    OneReportPerKey
    AnsweredReportsCount
    KeysNeverClash
PROPERTIES
    ImplementsReportStore
    EveryReportAnswered

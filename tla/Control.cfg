CONSTANTS
    Clients = {"c1"}
    Requests = {1, 2}
    RequestCapacity = 2
    OutboundCapacity = 2
    Writers = {"service", "engine"}
    Attempts = 2
    FirstFiles = {"foreign", "whole"}
    MaxSetting = 2
    MaxToken = 1
    MaxStarts = 2
    MaxWork = 3
    RevisionMax = 7
SPECIFICATION Spec
INVARIANTS
    AnsweredChangesSurvive
    RequestsRunOnce
PROPERTIES
    SnapshotsGoForward
    EveryRequestAnswered
    ClientsConverge
CHECK_DEADLOCK FALSE

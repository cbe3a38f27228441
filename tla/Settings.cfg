\* Two requests, at the same time or one after the other, one failure and two crashes; all
\* old files and tables.
SPECIFICATION FairSpec
CONSTANTS
    Registration = Registration
    threshold = threshold
    pass = pass
    token = token
    v1 = v1
    v2 = v2
    negative = negative
    Empty = Empty
    Keep = Keep
    Boot = Boot
    NoOne = NoOne
    Public <- PublicFields
    Secrets <- SecretFields
    Values = {v1, v2, negative}
    OldConfigs <- OldFiles
    Default <- Defaults
    Refused <- Negatives
    SaveRequests <- SavesOfInterest
    DetectRequests <- DetectionsOfInterest
    Savers = {s1, s2}
    MaxSaves = 2
    MaxFailures = 1
    MaxCrashes = 2
INVARIANTS IInv RestartRestores
PROPERTIES ActsAtOnce UnnamedUnchanged SavesEnd ComesUp
CHECK_DEADLOCK FALSE

SPECIFICATION Spec
CONSTANTS
    Words <- MCWords
    Trim <- MCTrim
    BadNames <- MCBad
    Fill <- MCFill
    DefaultName = "{channel}-{base}.apk"
    Links <- MCLinks
    Requests <- MCRequests
    Cwd <- MCCwd
    Base <- MCBase
    Apks <- MCApks
    Binary <- MCBinary
    TempNames <- MCTemps
    Pool = 2
    Disk <- MCDisk
    MaxCalls = 2
INVARIANTS TypeOK BaseUntouched EachChannelHasItsFile RepeatSucceeds FailsOnlyObstructed
PROPERTIES Confined
CHECK_DEADLOCK FALSE

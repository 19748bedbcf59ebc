SPECIFICATION Spec
CONSTANTS
    Words <- MCWords
    Trim <- MCTrim
    BadNames <- MCBad
    Fill <- MCFill
    DefaultName = "{channel}-{base}.apk"
    Links <- MCAlias
    Requests <- AliasRequests
    Cwd <- MCCwd
    Base <- MCBase
    Apks <- MCApks
    Binary <- MCBinary
    TempNames <- MCTemps
    Pool = 2
    Disk <- MCDisk
    MaxCalls = 1
INVARIANT BaseUntouched
CHECK_DEADLOCK FALSE

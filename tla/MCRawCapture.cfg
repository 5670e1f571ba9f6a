CONSTANTS
    ManualNames = {"m"}
    DebugNames = {"u"}
    VinNames = {"v"}
    FileFaults = {"mkdir", "create", "write", "flush", "rename", "open"}
    MaxCommands = 2
    MaxOps = 5
SPECIFICATION CaptureSpec
INVARIANTS ReplayFaithful ChunkLinesTrue PathIsWriters
CHECK_DEADLOCK FALSE

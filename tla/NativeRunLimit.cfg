SPECIFICATION RunSpec
CONSTANTS
    Document = 2
    MaxStdout = 3
    MaxStderr = 1
    ExecTimeout = 2
    Lateness = 1
INVARIANTS OutputLimitMeant

SPECIFICATION SocketSpec
CONSTANTS
    Socket = {s1, s2, s3}
    Tools = {"ss", "netstat", "netstat-p", "none"}
    MaxCloseWait = 1
    MaxTimeWait = 1
    MaxSynSent = 1
SYMMETRY SocketSymmetry
INVARIANTS
    NoFalseAlarm
    NetstatExact
    BreakdownComplete

SPECIFICATION SocketSpec
CONSTANTS
    Socket = {s1, s2}
    Tools = {"ss"}
    MaxCloseWait = 1
    MaxTimeWait = 1
    MaxSynSent = 1
INVARIANT LeakDetected

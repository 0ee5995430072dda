SPECIFICATION Spec
CONSTANTS
    syshealthd = syshealthd
    ssh = ssh
    ufw = ufw
    c1 = c1
    c2 = c2
    h1 = h1
    Services <- AllThree
    Daemon = syshealthd
    Sound = {syshealthd, ufw}
    AutoRestart = {syshealthd}
    CronSweep = {c1}
    HandSweep = {h1}
    HasSystemctl = TRUE
    Uninstalls = TRUE
INVARIANTS
    IncidentsLogged
    UninstalledAlone
PROPERTIES
    SoundRecovers

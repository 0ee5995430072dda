SPECIFICATION Spec
CONSTANT Rules = 2
INVARIANTS
    FirewallWhole
    SpoiltOnlyByAppend
    HardeningLasts
PROPERTIES
    ConfigNeverStopsSshd
    DoneOrWarned

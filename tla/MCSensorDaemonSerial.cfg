CONSTANTS
    Starts = {s1, s2, s3}
    Stops = {t1, t2}
    NoPid = NoPid
    Overlap = FALSE
    MaxCrashes = 2
SPECIFICATION Spec
INVARIANTS
    AtMostOneSensor
    SensorIsRecorded
    SensorKeepsItsTrace
PROPERTIES
    StoppedSensorDies
\* The commands are done and a sensor waits for the end of its trace.
CHECK_DEADLOCK FALSE

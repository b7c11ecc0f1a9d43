SPECIFICATION Spec
CONSTANTS
    Tag = {1, 2}
    IP = {i1, i2}
    MaxBytes = 3
    MaxEvents = 2
PROPERTY SampleIsThroughput
CHECK_DEADLOCK FALSE

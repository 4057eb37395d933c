CONSTANTS
    Axes = {1}
    Depth = 2
    Period = 3
    Lead = 1
    Durations = {2, 12}
    StepCounts <- MCStepCounts
    MaxSlack = 0
    MaxTime = 17
    MaxSequence = 3
SPECIFICATION Spec
INVARIANTS TypeOK QueueIsSchedule OutputsAreSafe PositionIsPlanned
PROPERTIES PulsesAreOnTime UnderrunLosesNoStep

CONSTANTS
    Axes = {1}
    Depth = 2
    Period = 1
    Lead = 1
    Durations = {1, 4}
    StepCounts <- MCStepCounts
    MaxSlack = 1
    MaxTime = 12
    MaxSequence = 3
SPECIFICATION Spec
INVARIANTS StepsAreExact

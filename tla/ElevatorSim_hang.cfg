\* Two floors, one elevator, three riders, a three-second simulation,
\* under the goroutines' fairness.
CONSTANTS
    NFloors = 2
    NElevs = 1
    MaxRiders = 3
    MaxSecs = 3
SPECIFICATION LiveSpec
PROPERTY SimulationEnds

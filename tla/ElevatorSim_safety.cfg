\* Two floors, two elevators, three riders and a four-second simulation.
CONSTANTS
    NFloors = 2
    NElevs = 2
    MaxRiders = 3
    MaxSecs = 4
SPECIFICATION Spec
INVARIANT TypeOK
INVARIANT ElevatorHeadsForGoal
INVARIANT RidersConserved
PROPERTY CarsRefined

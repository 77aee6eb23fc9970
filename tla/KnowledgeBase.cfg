SPECIFICATION Spec
CONSTANTS
    Sources = {s1}
    Imports = {j1}
    Offered = {"PUBLIC"}
    Yield = 2
    MaxItems = 3
    MaxBatches = 2
INVARIANTS
    TypeOK
    UndoneLeavesNothing
    OneVersionInForce

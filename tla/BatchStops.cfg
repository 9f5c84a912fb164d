\* The worker of a delete batch is cancelled as a provider failure comes in.
SPECIFICATION Spec
CONSTANTS
    Kinds = {"delete"}
    N = 2
    MaxStops = 1
    MaxRenames = 1
    Nil = Nil
PROPERTIES DeleteStops

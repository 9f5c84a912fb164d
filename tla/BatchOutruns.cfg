\* The worker of a copy batch is cancelled while run_one waits for its cancel_task.
SPECIFICATION Spec
CONSTANTS
    Kinds = {"copy"}
    N = 2
    MaxStops = 1
    MaxRenames = 1
    Nil = Nil
PROPERTIES StopsWhenCancelled

CONSTANTS
    a = a
    b = b
    Procs <- TwoProcs
    MaxTries = 2
    MaxMessages = 2
    MaxEvents = 3
SPECIFICATION Spec
INVARIANTS CausalOrder OneStream
SYMMETRY Symmetric
PROPERTIES SharesOneLog

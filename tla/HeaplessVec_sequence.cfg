SPECIFICATION Spec
CONSTANTS
    N = 3
    Items = {a, b}
    Default = default
    LENGTHS = 8
    Ok = Ok
    PushError = PushError
    None = None
    Panicked = Panicked
INVARIANT TypeOK
PROPERTY ImplementsSequence

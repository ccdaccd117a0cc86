CONSTANTS
    N = 1
    Cap = 1
    None = None
SPECIFICATION Spec
INVARIANT
    AllFlushed

CONSTANTS
    Elems = {a, b}
    Zero = Zero
    None = None
    Done = Done
    Panic = Panic
    MaxInt = 9
SPECIFICATION Spec
INVARIANTS TypeOK NothingRetained
PROPERTIES ImplementsSequence

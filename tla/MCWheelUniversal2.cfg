CONSTANTS
    Wheels <- MCFewWheels
    UpperBounds = {14, 15}
    Minors = {4, 9, 10, 13, 14, 15, 16}
SPECIFICATION Spec
INVARIANT X86NeverClamped

CONSTANTS
    Value = {a, b, c}
    Zero = zero
    Size = 4
SPECIFICATION Spec
INVARIANT TypeOK
PROPERTY IsQueue

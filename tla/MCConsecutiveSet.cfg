CONSTANTS
    Numbers <- MCNumbers
    None = None
SPECIFICATION Spec
INVARIANTS Canonical
PROPERTIES IsIntegerSet

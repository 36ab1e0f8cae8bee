\* One plain entry, with two values; one contract, with one.
CONSTANTS
    Key = {k, c}
    Contract = {c}
    Value = {v1, v2}
    Info = {v1}
    NoValue = NoValue
SPECIFICATION Spec
INVARIANTS
    LayersInv
    StorageOwned
PROPERTIES
    EditsExact
    ImplementsFlat

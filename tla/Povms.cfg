SPECIFICATION Spec
CONSTANTS
    Objects = {o, p}
    Lists = {"l"}
    Keys = {"a", "b"}
    Classes <- MCClasses
    Scalars <- MCScalars
    Nested <- MCNested
    MaxNodes = 4
    MaxItems = 2
SYMMETRY Symmetry
INVARIANTS HeapInv SizeIsExact
PROPERTY ImplementsMap

CONSTANTS
    Columns <- MCColumns
    Values = {1, 2}
    Declarations <- MCDeclarations
    MaxRows = 2
SPECIFICATION Spec
INVARIANT GetReturnsMatchingRows

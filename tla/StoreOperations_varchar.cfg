CONSTANTS
    Columns <- MCColumns
    Values = {1, 2}
    Declarations <- VarCharDeclarations
    MaxRows = 2
SPECIFICATION Spec
INVARIANT VarCharsAreLong

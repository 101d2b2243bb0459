CONSTANT Documents <- MCDocuments
SPECIFICATION Spec
INVARIANTS
    LexerAsserts
    
    AttributesAreOwn
    
PROPERTY DocumentEnds
CHECK_DEADLOCK FALSE

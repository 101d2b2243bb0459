CONSTANT Documents <- MCDocuments
SPECIFICATION Spec
INVARIANTS
    
    TreeIsSound
    StackIsLive
    NoahsArk
    
    
    TokensAreDone
PROPERTY TextIsKept

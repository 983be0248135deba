SPECIFICATION Spec
CONSTANTS
    Width <- MCWidth
    Unit = 8
    Epsilon <- MCEpsilon
    Schema <- MCSchema
    Samples <- MCSamples
    Statements <- MCStatements
INVARIANTS
    AnswerIsCurrent
    

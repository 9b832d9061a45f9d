SPECIFICATION Spec
CONSTANTS
    Words <- MCWords
    MaxInvocations = 2
INVARIANTS
    AskingChangesNothing
    
    
    RecordedBeforehand
CHECK_DEADLOCK FALSE

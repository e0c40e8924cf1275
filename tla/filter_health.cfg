SPECIFICATION FairSpec
CONSTANTS
    MaxEdits = 2
    MaxFaults = 2
INVARIANTS
    TypeOK
    
    
PROPERTIES
    
    ConditionSettles

SPECIFICATION Spec
CONSTANTS
    Tasks = {t1, t2}
    Calls = {r1}
    Versions <- MCVersions
    Contexts <- MCContexts
    Files <- MCFiles
    Start = {"first"}
    MaxFaults = 1
    MaxChanges = 2
    MaxCalls = 1
    Deltas = {0, 2}
INVARIANTS
    
    KeptStaysRegistered
    
    
    
    

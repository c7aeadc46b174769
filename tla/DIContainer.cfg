\* Two callers of two calls each, one scope besides the root, ten applications.
SPECIFICATION FairSpec
CONSTANTS
    Goroutines = {g1, g2}
    Scopes = {s1}
    Root = root
    None = None
    Plans <- MCPlans
    Elem <- MCElem
    NoKey = "-"
    MaxCalls = 2
INVARIANTS OneInstanceEach DisposedOnceInOrder NoCaptiveDependency
 
CHECK_DEADLOCK FALSE

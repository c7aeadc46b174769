\* Two callers of one singleton by its lookup key: README.md says there is one instance.
SPECIFICATION Spec
CONSTANTS
    Goroutines = {g1, g2}
    Scopes = {s1}
    Root = root
    None = None
    Plans <- OneKey
    Elem <- MCElem
    NoKey = "-"
    MaxCalls = 2
INVARIANT OneSingleton
CHECK_DEADLOCK FALSE

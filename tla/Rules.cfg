\* Every expression of at most six pieces over three alphabets, every text of
\* five chunks; three rule names, five rules and a bad expression, no limit or
\* one of 1 and 2; two claim types of two values, an empty type; requirements
\* three deep.
SPECIFICATION MCSpec
CONSTANTS
    Alphabets <- MCAlphabets
    MaxPieces = 6
    Chunks <- MCChunks
    MaxChunks = 5
    Samples <- MCSamples
    Names = {n1, n2, n3}
    Hints = {h1, h2, none}
    NoHint = none
    Exprs <- MCExprs
    Events <- MCEvents
    Limits = {0, 1, 2}
    NoType = ""
    ClaimTypes = {"", "a", "b"}
    ClaimValues = {"1", "2"}
    Trees <- MCTrees
    Facts <- MCFacts
    Configs <- MCConfigs
    Authenticated = "a"
SYMMETRY NamesSymmetry
INVARIANTS ReadAsWritten MatchAgrees PrintedIsEnforced
PROPERTY IsAClaimSet
CHECK_DEADLOCK FALSE

\* Two callers of one key, an item living one to three ticks; one streamer; two
\* users of a client; two users of the task scheduler; two validators
\* of tokens with an old, a new and an unknown key, one outage.
SPECIFICATION ServicesSpec
CONSTANTS
    Callers = {c1, c2}
    MaxTTL = 3
    None = None
    Streamers = {s1}
    MaxPoints = 2
    PerPoint = 2
    Window = 1
    Users = {u1, u2}
    OptionLists <- TwoOptions
    Programs <- SomePrograms
    MaxDials = 1
    TaskUsers = {w1, w2}
    TaskIDs = {"a", "b"}
    MaxSchedulers = 2
    Validators = {v1, v2}
    Kids = {old, new, bogus}
    OldKids = {old}
    NewKid = new
    Interval = 2
    MaxOutages = 1
    NoValidator = NoValidator
INVARIANTS ClientsAreAsAsked 
PROPERTIES  CallsReturn  OneForcedRefreshPerInterval RolloverIsPickedUp

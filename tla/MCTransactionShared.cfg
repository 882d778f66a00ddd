SPECIFICATION Spec
CONSTANTS
    url = url
    parameterKey = parameterKey
    milestone = milestone
    v1 = v1
    v2 = v2
    bad = bad
    Writable = {url}
    ParameterKey = parameterKey
    Foreign = {milestone, parameterKey}
    Values = {v1, v2}
    Raw = {v1, v2, bad}
    Missing = Missing
    Refused = Refused
    Unread = Unread
    Normal <- Plain
    Requests <- AllKinds
    MaxTroubles = 1
INVARIANT AllOrNothing

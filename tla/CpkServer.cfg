SPECIFICATION ServerSpec
CONSTANTS
    RuntimeKind = {"docker", "kubernetes"}
    IngressKind = {"cloudflare", "other"}
    c1 = c1
    c2 = c2
    k1 = k1
    k2 = k2
    p = p
    q = q
    plan = plan
    graph = graph
    None = None
    Client = {c1, c2}
    Credential = {k1, k2}
    Principal = {p, q}
    Command = {plan}
    Read = {graph}
    MaxEntries = 2
    Asked <- MCAsked
    Followed <- MCFollowed
INVARIANTS ServesWhatItAnnounces AcceptedSettingsFit CallVouched
PROPERTY EveryRequestAnswered

CONSTANTS
    Requests = {q, r}
    Global = {q, r}
    WithTimeout = {q}
    Sync = {r}
    Before = {r}
    DataTypes = {"*", "json", "jsonp"}
    CrossDomain = {q, r}
    Named = {"script"}
    ContentTypes = {"text", "json"}
    Statuses = {0, 204, 500}
    None = None
SPECIFICATION FairSpec
INVARIANTS EventsTakeTurns UnderWay
PROPERTIES ImplementsPosts OutcomeComes
CHECK_DEADLOCK FALSE

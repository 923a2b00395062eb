SPECIFICATION Spec
CONSTANTS
    Processes = {p1}
    NoServer = NoServer
    Tasks = {t1}
    Routes = {"health", "unknown", "invalid", "write", "read", "delete"}
    UpstreamIds = {trace}
    Uuids = {u1}
    NoId = NoId
    Failures = {"NotFoundException", "BusinessRuleViolationException", "ValueError", "StaleDataError", "DBAPIError", "TimeoutError"}
INVARIANT EveryReplyCarriesItsId

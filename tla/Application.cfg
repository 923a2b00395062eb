SPECIFICATION Spec
CONSTANTS
    Processes = {p1, p2}
    NoServer = NoServer
    Tasks = {t1, t2}
    Routes = {"health", "unknown", "invalid", "write", "delete"}
    UpstreamIds = {trace}
    Uuids = {u1, u2}
    NoId = NoId
    Failures = {"NotFoundException", "DBAPIError"}
INVARIANT TypeOK
INVARIANT ApplicationInvariant
INVARIANT SchemaIsWhole
INVARIANT ServedWithTables
INVARIANT OneIdPerRequest
INVARIANT LogMatchesReply
INVARIANT UnmarkedRepliesAreInTheLog
PROPERTY PhasesEnd

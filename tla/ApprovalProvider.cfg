SPECIFICATION FairSpec
CONSTANTS
    c1 = c1
    c2 = c2
    uuid = uuid
    operator = operator
    stranger = stranger
    Correlation <- MCCorrelation
    Parsable <- MCParsable
    User <- MCUser
    Authorized <- MCAuthorized
    NoUser = NoUser
    MaxRequests = 2
INVARIANTS PendingMatchesAwaited ToldAsDecided
PROPERTIES AwaitedIsDecided ImplementsApprovalGate

SPECIFICATION Spec
CONSTANTS
    Servers <- MCServers
    Requests <- MCRequests
    ErrorPages <- MCErrorPages
    RootDigits <- MCRootDigits
    MissingPages <- MCMissingPages
INVARIANT NotAllowedIsRejected
\* A request that was answered stops.
CHECK_DEADLOCK FALSE

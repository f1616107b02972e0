SPECIFICATION Spec
CONSTANTS
    Servers <- MCServers
    Requests <- MCRequests
    ErrorPages <- MCErrorPages
    RootDigits <- MCRootDigits
    MissingPages <- MCMissingPages
INVARIANTS TypeOK ContentOnlyIfAllowed NoEmptyAnswer RightPage
PROPERTIES ErrorsWin RoutedAsTheLoopExpects RespondsAsTheLoopExpects
\* A request that was answered stops.
CHECK_DEADLOCK FALSE

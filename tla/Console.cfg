SPECIFICATION Spec
CONSTANTS
    None = None
    Waiting = Waiting
    Failed = Failed
    NoRole = NoRole
    MaxRequests = 3
    MaxWizardRequests = 2
    MaxModelRequests = 4
    HubIds = {1, 2}
    Admin = FALSE
INVARIANTS
    TypeOK
    BusyHasCause
    Fresh
    TranscriptsComplete
    ShellShowsItsHub
    OfferedIsAccepted
    LinksAreLegal
    RunReported
    LockoutIsEarned
    OneDefault
    ToolsOnce
PROPERTIES OffersAreAccepted
\* A visit may end with nothing to do: the requests are bounded.
CHECK_DEADLOCK FALSE

SPECIFICATION AdministrationSpec
CONSTANTS
    Parts = {"life", "control", "invitation", "config", "keys"}
    Daemons = {1, 2, 3}
    MaxCrashes = 1
    MaxDirect = 1
    MaxSignals = 1
    MaxFailures = 1
    MaxCommands = 2
    Tools = {1, 2}
    MaxRequests <- MCMaxRequests
    MaxEvents = 1
    MaxRows = 1
    Levels = {0, 1}
    DEBUG_META = 1
    Verbosities <- MCVerbosities
    Me = "me"
    Invitees = {"x"}
    Joiners = {j1, j2}
    Given = {j1}
    Forced = {j2}
    Contents <- MCContents
    Week = 1
    Lifetimes = {0, 2}
    MaxInvites = 2
    LastNow = 2
    MaxLost = 1
    MaxAborts = 1
    ServerVars = {"M", "P", "O"}
    HostVars = {"P", "S"}
    MultiVars = {"S"}
    ObsoleteVars = {"O"}
    Values = {"a", "b"}
    Starts <- MCStarts
    CmdLines <- MCCmdLines
    Commands <- MCCommands
    Runs = {1, 2}
    Learnt <- MCLearnt
    MaxEdits = 2
    MaxAppends = 1
    Hosts <- MCHosts
    Privates <- MCPrivates
    Short = {2}
    Broken = {3}
    MaxRuns = 2
    MaxMishaps = 1
INVARIANTS
    LifeSound
    ControlSound
PROPERTIES
    CommandsEnd
    InvitationSound
    ConfigSound
    KeyFilesSound
CHECK_DEADLOCK FALSE

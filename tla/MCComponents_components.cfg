SPECIFICATION Spec
CONSTANTS
    None = None
    Agents = {"a", "b"}
    Calls = {"c", "d"}
    Daemons = {"p", "q", "r"}
    Latest <- MCLatest
    Callers = {"e", "f"}
    MaxClients = 1
    LoopIds = {"l"}
    Limits = {1, 2}
    Default = 3
    MaxStreak = 4
    Amounts = {0, 1}
    MaxSpent = 2
    Paths = {"repo", "repo/sub", "other"}
    Inodes = {i1, i2}
    Beneath <- MCBeneath
    MaxSecrets = {"other"}
    MaxChanges = 1
    Names = {"config", "note", "else"}
    Parent <- MCParent
    LinkTo <- MCLinkTo
    Branches = {"x", "y"}
    GoalIds = {"g", "h"}
    Criteria = {"i", "j"}
    GoalOf <- MCGoalOf
    BlockedBy <- MCBlockedBy
    GrantIds = {1}
    Shapes <- MCShapes
    ClassOf <- MCClassOf
    DenyList = {"commit"}
    Keys = {"k", "l", "m"}
    Provisioned <- MCProvisioned
    Letters = {"a", "b"}
    MaxPath = 4
    MaxPrefix = 3
    Repo <- MCRepo
    Secrets = {"s", "t"}
    Nonces = {"n", "m"}
    Conns = {"c", "d"}
    MaxNonces = 1
    Threshold = 1
    BaseLock = 1
    MaxLock = 2
    Ceiling = 9
    Horizon = 1
    MaxFailures = 4
    Tickets = {"t", "u", "v"}
    StreamIds = {"s", "r", "q"}
    Pids = {"p", "q"}
    MaxTickets = 2
    MaxStreams = 2
    Operations = {"i", "r", "s"}
    Rotations = {"r", "s"}
    Runs = {"p", "q"}
    Old = Old
    Jtis = {"i", "j"}
    Writers = {"w", "x"}
    Readers = {"r"}
    Supervisors = {"a"}
    ProcIds = {"p", "q"}
    MaxPerAgent = 1
    MaxChunks = 2
    Page = 1
    Registrants = {"a"}
    Works = {1, 2}
    Mails = {1}
    Waiters = {"w", "x"}
    Types = {"done", "moved", "other"}
    Hot = {"done"}
    Early = {"moved"}
    Wants <- MCWants
    MaxEvents = 3
    MaxPolls = 2
    Scans = {"s", "t"}
    MaxChange = 2
    MaxScans = 2
    Rows = {"i"}
    Levels = {1, 2}
    Pushes = {"p"}
    Pulls = {"q", "r"}
    MaxLog = 2
    MaxOutbox = 1
    MaxFact = 3
    SessionOf <- MCSessionOf
    ContentOf <- MCContentOf
    Scopes = {"s"}
    Limit = 2
    Workers = {"w", "x"}
    Nodes = {1, 2, 3}
    Pairs <- MCPairs
    Chats = {"c"}
    Tools = {"Read", "Bash"}
    MaxRounds = 3
    Null = Null
    StudioCalls = {"c", "d"}
    SignedCalls = {"c"}
    MaxTries = 2
    LocalIds = {"a"}
    TermIds = {"s", "t"}
    HostKeys = {"k", "j"}
    Addresses = {"m"}
    LiveTiers <- MCLiveTiers
    MaxCalls = 2
    SshKeys = {"k"}
    Remotes = {"x", "y"}
    MaxLines = 4
    Directories <- MCDirectories
    Home <- MCHome
    DataDir <- MCDataDir
    AgentHome <- MCAgentHome
    Tmp <- MCTmp
    Usr <- MCUsr
    Lexical <- MCLexical
    Links <- MCLinks
    Caches <- MCCaches
    Machines <- MCMachines
    EnvKeys <- MCEnvKeys
    AnchorDepth = 3
    Alphabets <- MCAlphabets
    MaxPieces = 4
    MaxRows = 2
    MaxTimeout = 2
    RowLimits = {0, 1, 2, 3}
    Timeouts = {0, 1, 2}
    Requests = {"c", "d"}
    ToolCalls = {"t", "u", "v"}
    WritingCalls = {"t", "u"}
    Askers = {"a"}
    KeyHolders = {"a"}
    HostPids = {"p", "q"}
    AskedLimits = {1, 3}
    NoopLimit = 2
    MaxTicks = 4
INVARIANTS ProcessesAreAccounted AccessIsConfined AuthorityHolds OneDaemonServes
    ModelCallsAreGuarded ClientsAreExact ComputationsAreExact
PROPERTIES LoopsAreGuarded FeedsAreComplete GatewayIsGuarded ClosedStaysClosed LicencesAreKept
    GraphIsFaithful ScreensAreTruthful
CHECK_DEADLOCK FALSE

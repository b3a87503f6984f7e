SPECIFICATION ContentSpec
CONSTANTS
    u1 = u1  u2 = u2  w1 = w1
    Users <- MCUsers
    Workers = {w1}
    Exps = {1, 2, 3}
    Existing = {1, 3}
    Calls <- MCCalls
    Kind <- MCKind
    Target <- MCTarget
    Caller <- MCCaller
    WorkerOf <- MCWorkerOf
    OwnerOf <- MCOwnerOf
    Documents <- MCDocuments
    Patches <- MCPatches
    Limits = {2}
    Offsets = {0, 1}
    Tags = {"backend", "research"}
    Contents <- MCContents
    Similarities = {0, 300, 334, 1000}
    Faults = {"openai", "qdrant"}
    ProjectIds = {"p1", "p2"}
    Opened = "p1"
    QuestionIds = {1, 2, 3, 4}
    Requests <- MCRequests
    Operation <- MCOperation
    ProjectOf <- MCProjectOf
    QuestionOf <- MCQuestionOf
    Values = {1}
    MaxBatch = 2
    AuthCalls <- MCAuthCalls
    AuthKind <- MCAuthKind
    Emails = {"mail"}
    MailOf <- MCMailOf
    ProviderOf <- MCProviderOf
    MaxSecond = 1
    Lifetime = 2
    Unset = Unset
    Blank = Blank
    NoInput = NoInput
    Scenes <- MCScenes
    Readers <- MCReaders
    KeyIds = {"k1", "k2"}
    Verifications = {"v1", "v2"}
    Unread = Unread
    CacheTtl = 1
    MaxInstant = 2
    MessageIds = {1, 2, 3, 4}
    Size = 1
    SameInstant = FALSE
    NoCursor = NoCursor
INVARIANTS
    ContentTypeOK
    VectorMatches
    DatesOrdered
    QualityFirst
    OneAccount
    RotationSpends
    RotationFollowed
    WalkComplete
PROPERTIES
    DeletedStays
    EditsKeepOthers
    DeletedStaysOut

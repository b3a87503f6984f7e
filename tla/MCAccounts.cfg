SPECIFICATION AccountsSpec
CONSTANTS
    Users = {"a", "b", "x"}
    Calls <- MCCalls
    Kind <- MCKind
    User <- MCUser
    Inviter <- MCInviter
    NoOne = NoOne
    Missing = Missing
    SIGNUP_BONUS_TOKENS = 5
    REFERRAL_TOKENS = 2
    ATTENDANCE_TOKENS = 1
    MONTHLY_TOKENS = 3
    MayFail = TRUE
    FirstDate <- MCFirstDate
    LastDate <- MCLastDate
    PayDays = {1, 30, 31}
    Never = Never
    Scenes <- MCScenes
INVARIANTS
    RewardedOnce
    NewsKept
    PeriodIsLatestAnniversary
    TwoGrantsPerPayment
PROPERTIES
    CallsEnd
    GrantsAdvance
CHECK_DEADLOCK FALSE

SPECIFICATION FairSpec
CONSTANTS
    u1 = u1
    u2 = u2
    s1 = s1
    s2 = s2
    s3 = s3
    m1 = m1
    m2 = m2
    r1 = r1
    r2 = r2
    t1 = t1
    t2 = t2
    None = None
    Day = 1
    SubscriptionDays = 2
    WarningWindowDays = 1
    MaxNow = 0
    MaxFaults = 2
    FaultKinds = {"crash", "database", "telegram"}
    TelegramId = {u1}
    SubId = {r1, r2}
    Session = {s1}
    Uuid = {}
    Message = {m1}
    Task = {t1, t2}
    ChannelConfigured = TRUE
    WarningsScheduled = FALSE
    KickScheduled = FALSE
    DryRunKick = FALSE
    Protected = {}
    MaxLinks = 0
    Payer <- MCPayer
    Sender <- MCSender
PROPERTIES
    SettledPaymentsAreRecorded
    HandlersFinish
    GrantedPayersAreTold
    ImplementsLedger
CHECK_DEADLOCK FALSE

SPECIFICATION Spec
CONSTANTS
    u1 = u1
    u2 = u2
    s1 = s1
    s2 = s2
    s3 = s3
    m1 = m1
    m2 = m2
    g1 = g1
    g2 = g2
    r1 = r1
    r2 = r2
    t1 = t1
    None = None
    Day = 1
    SubscriptionDays = 2
    WarningWindowDays = 1
    MaxNow = 4
    MaxFaults = 0
    FaultKinds = {}
    TelegramId = {u1}
    SubId = {r1, r2}
    Session = {}
    Uuid = {g1, g2}
    Message = {}
    Task = {t1}
    ChannelConfigured = TRUE
    WarningsScheduled = TRUE
    KickScheduled = FALSE
    DryRunKick = FALSE
    Protected = {}
    MaxLinks = 0
    Payer <- MCPayer
    Sender <- MCSender
PROPERTIES
    RenewalResetsReminders
CHECK_DEADLOCK FALSE

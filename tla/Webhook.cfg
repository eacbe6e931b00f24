SPECIFICATION Spec
CONSTANTS
    u1 = u1
    u2 = u2
    s1 = s1
    s2 = s2
    s3 = s3
    m1 = m1
    m2 = m2
    r1 = r1
    r2 = r2
    t1 = t1
    t2 = t2
    None = None
    Day = 1
    SubscriptionDays = 2
    WarningWindowDays = 1
    MaxNow = 0
    MaxFaults = 1
    FaultKinds = {"crash", "database", "telegram"}
    TelegramId = {u1}
    SubId = {r1, r2}
    Session = {s1, s2, s3}
    Uuid = {}
    Message = {}
    Task = {t1, t2}
    ChannelConfigured = TRUE
    WarningsScheduled = FALSE
    KickScheduled = FALSE
    DryRunKick = FALSE
    Protected = {}
    MaxLinks = 0
    Payer <- MCPayer
    Sender <- MCSender
SYMMETRY Symmetry
INVARIANTS
    PaymentGrantsOnce
    PaymentBacksAccess
    AckedMeansRecorded
    OnlySettledSessionsGrant
    SerialRenewalsKeepOneLiveRow
PROPERTIES
    SerialRenewalsAreAdditive
CHECK_DEADLOCK FALSE

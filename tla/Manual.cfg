SPECIFICATION ReportSpec
CONSTANTS
    u1 = u1
    u2 = u2
    s1 = s1
    s2 = s2
    s3 = s3
    m1 = m1
    m2 = m2
    g1 = g1
    r1 = r1
    r2 = r2
    r3 = r3
    t1 = t1
    t2 = t2
    None = None
    Day = 1
    SubscriptionDays = 2
    WarningWindowDays = 1
    MaxNow = 1
    MaxFaults = 1
    FaultKinds = {"crash", "database", "telegram"}
    TelegramId = {u1, u2}
    SubId = {r1, r2, r3}
    Session = {}
    Uuid = {g1}
    Message = {m1, m2}
    Task = {t1, t2}
    ChannelConfigured = TRUE
    WarningsScheduled = FALSE
    KickScheduled = FALSE
    DryRunKick = FALSE
    Protected = {}
    MaxLinks = 0
    Payer <- MCPayer
    Sender <- MCSender
SYMMETRY Symmetry
INVARIANTS
    ReportTypeOK
    EveryLineNamesProvider
    GrantInv
    LockedPlaceholderIsUnprocessed
    PaymentBelongsToPayer
    SerialRenewalsKeepOneLiveRow
    TimeIsPaidFor
    PaidTimeIsKept
    PayersAreToldOnce
PROPERTIES
    OrphanPlaceholdersStayPending
    ImplementsLedger
CHECK_DEADLOCK FALSE

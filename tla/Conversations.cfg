SPECIFICATION ConversationSpec
CONSTANTS
    u1 = u1
    u2 = u2
    s1 = s1
    s2 = s2
    s3 = s3
    m1 = m1
    m2 = m2
    r1 = r1
    r2 = r2
    t1 = t1
    None = None
    Day = 1
    SubscriptionDays = 4
    WarningWindowDays = 1
    MaxNow = 1
    MaxFaults = 1
    FaultKinds = {"crash", "database", "telegram"}
    TelegramId = {u1}
    SubId = {r1, r2}
    Session = {}
    Uuid = {}
    Message = {m1, m2}
    Task = {t1}
    ChannelConfigured = FALSE
    WarningsScheduled = FALSE
    KickScheduled = FALSE
    DryRunKick = FALSE
    Protected = {}
    MaxLinks = 0
    Payer <- MCPayer
    Sender <- MCSender
    q1 = q1
    q2 = q2
    Question = {q1, q2}
    Asker <- MCAsker
    Cooldown = 1
SYMMETRY ConversationSymmetry
INVARIANTS
    ConversationTypeOK
    PromptHolds
    OnePaymentPerPrompt
    ThankedCanBeConfirmed
PROPERTIES
    QuestionsAreSpaced
CHECK_DEADLOCK FALSE

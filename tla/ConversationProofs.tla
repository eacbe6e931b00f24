-------------------------- MODULE ConversationProofs --------------------------
(***************************************************************************)
(* Conversations, for any number of users, messages and handlers: what the *)
(* rate limit read is still true when a question goes out, a prompt holds  *)
(* until it is answered, and a thanked payer can be confirmed.             *)
(***************************************************************************)
EXTENDS Conversations, AccessProofs

InHand(q) == asking[q] \in InProgress

\* What the questions know of the clock and of each other.
ConversationTypes ==
    /\ now \in Nat
    /\ asking \in [Question -> InProgress \cup {"unsent", "done"}]
    /\ lastQuestion \in [TelegramId -> Nat \cup {None}]
    /\ lastForward \in [TelegramId -> Nat \cup {None}]
    /\ disturbed \subseteq TelegramId

\* Two questions of a user in hand at once have left their mark.
OneInHand ==
    \A p, q \in Question :
        InHand(p) /\ InHand(q) /\ p # q /\ Asker[p] = Asker[q] => Asker[p] \in disturbed

\* What the limit found is still so when the message is forwarded.
Allowed(last) == last = None \/ now - last >= Cooldown

LimitStillHolds ==
    \A q \in Question :
        asking[q] = "forward" /\ Asker[q] \notin disturbed => Allowed(lastQuestion[Asker[q]])

\* What the admin got is on record, or about to be, or its record was cut short.
Recorded(u) ==
    /\ lastQuestion[u] # None
    /\ lastForward[u] <= lastQuestion[u]

ForwardsAreRecorded ==
    \A u \in TelegramId :
        \/ lastForward[u] = None
        \/ lastForward[u] <= now
           /\ \/ Recorded(u) \/ u \in unlogged
              \/ \E q \in Question : Asker[q] = u /\ asking[q] = "record"

NoneInTheFuture == \A u \in TelegramId : lastQuestion[u] = None \/ lastQuestion[u] <= now

SpacingInv ==
    ConversationTypes /\ OneInHand /\ LimitStillHolds /\ ForwardsAreRecorded /\ NoneInTheFuture

-----------------------------------------------------------------------------

LEMMA SpacingInit == ConversationInit => SpacingInv
  BY DEF ConversationInit, Init, EnvironmentInit, SpacingInv, ConversationTypes, OneInHand,
      InHand, LimitStillHolds, ForwardsAreRecorded, NoneInTheFuture, InProgress

\* Questions stay where they are: the clock may move on, and users who have
\* nothing in hand may get a fresh start.
LEMMA OthersKeepSpacing ==
    ASSUME SpacingInv, UNCHANGED <<asking, lastQuestion, lastForward>>,
           now' \in Nat, now <= now', disturbed' \subseteq TelegramId,
           unlogged \subseteq unlogged',
           \A q \in Question : InHand(q) /\ Asker[q] \in disturbed => Asker[q] \in disturbed'
    PROVE  SpacingInv'
<1>1. ConversationTypes'
  BY DEF SpacingInv, ConversationTypes
<1>2. OneInHand'
  BY DEF SpacingInv, OneInHand, InHand
<1>3. LimitStillHolds'
  <2> SUFFICES ASSUME NEW q \in Question, asking[q] = "forward", Asker[q] \notin disturbed'
               PROVE  Allowed(lastQuestion[Asker[q]])'
    BY DEF LimitStillHolds
  <2>1. Asker[q] \notin disturbed /\ Asker[q] \in TelegramId
    BY ConversationAssumption DEF InHand, InProgress
  <2>2. PICK last \in Nat \cup {None} : last = lastQuestion[Asker[q]]
    BY <2>1 DEF SpacingInv, ConversationTypes
  <2>3. last = None \/ now - last >= Cooldown
    BY <2>1, <2>2 DEF SpacingInv, LimitStillHolds, Allowed
  <2>4. last = None \/ now' - last >= Cooldown
    BY <2>2, <2>3, ConversationAssumption DEF SpacingInv, ConversationTypes
  <2> QED
    BY <2>2, <2>4 DEF Allowed
<1>4. ForwardsAreRecorded'
  <2> SUFFICES ASSUME NEW u \in TelegramId, lastForward[u] # None
               PROVE  /\ lastForward[u] <= now'
                      /\ \/ Recorded(u) \/ u \in unlogged
                         \/ \E q \in Question : Asker[q] = u /\ asking[q] = "record"
    BY DEF ForwardsAreRecorded, Recorded
  <2>1. lastForward[u] \in Nat /\ now \in Nat
    BY DEF SpacingInv, ConversationTypes
  <2> QED
    BY <2>1 DEF SpacingInv, ForwardsAreRecorded
<1>5. NoneInTheFuture'
  <2> SUFFICES ASSUME NEW u \in TelegramId, lastQuestion[u] # None PROVE lastQuestion[u] <= now'
    BY DEF NoneInTheFuture
  <2>1. lastQuestion[u] \in Nat /\ now \in Nat /\ lastQuestion[u] <= now
    BY DEF SpacingInv, ConversationTypes, NoneInTheFuture
  <2> QED
    BY <2>1
<1> QED
  BY <1>1, <1>2, <1>3, <1>4, <1>5 DEF SpacingInv

\* One question moves on, and what it does to the record it does for its asker.
LEMMA QuestionTypes ==
    ASSUME ConversationTypes, NEW q \in Question, NEW label \in InProgress \cup {"done"},
           QuestionMoves(q, label)
    PROVE  /\ Asker[q] \in TelegramId
           /\ asking'[q] = label
           /\ \A p \in Question \ {q} : asking'[p] = asking[p]
           /\ asking' \in [Question -> InProgress \cup {"unsent", "done"}]
  BY ConversationAssumption DEF ConversationTypes, QuestionMoves

\* A question that was in hand already changes nothing for the others.
LEMMA OneInHandKept ==
    ASSUME SpacingInv, NEW q \in Question, NEW label \in InProgress \cup {"done"},
           QuestionMoves(q, label), InHand(q), disturbed \subseteq disturbed'
    PROVE  OneInHand'
<1>1. \A p \in Question : InHand(p)' => InHand(p)
  BY QuestionTypes DEF SpacingInv, InHand
<1> QED
  BY <1>1 DEF SpacingInv, OneInHand

LEMMA ReceiveQuestionSpacing ==
    ASSUME SpacingInv, NEW q \in Question, ReceiveQuestion(q)
    PROVE  SpacingInv'
<1>1. /\ QuestionMoves(q, "limit") /\ "limit" \in InProgress \cup {"done"} /\ ConversationTypes
      /\ UNCHANGED <<now, lastQuestion, lastForward, unlogged>> /\ asking[q] = "unsent"
      /\ disturbed' = disturbed \cup (IF Handling(Asker[q]) THEN {Asker[q]} ELSE {})
  BY DEF ReceiveQuestion, SpacingInv, InProgress, Overlap, vars, environmentVars
<1>2. /\ Asker[q] \in TelegramId /\ asking'[q] = "limit"
      /\ \A p \in Question \ {q} : asking'[p] = asking[p]
      /\ asking' \in [Question -> InProgress \cup {"unsent", "done"}]
  BY <1>1, QuestionTypes
<1>3. ConversationTypes'
  BY <1>1, <1>2 DEF ConversationTypes
<1>4. OneInHand'
  <2> SUFFICES ASSUME NEW p \in Question, NEW o \in Question, InHand(p)', InHand(o)', p # o,
                      Asker[p] = Asker[o]
               PROVE  Asker[p] \in disturbed'
    BY DEF OneInHand
  <2>1. CASE p # q /\ o # q
    BY <1>1, <1>2, <2>1 DEF SpacingInv, OneInHand, InHand
  <2>2. CASE p = q \/ o = q
    <3>1. Handling(Asker[q])
      BY <1>2, <2>2 DEF Handling, InHand
    <3> QED
      BY <1>1, <2>2, <3>1
  <2> QED
    BY <2>1, <2>2
<1>5. LimitStillHolds'
  BY <1>1, <1>2 DEF SpacingInv, LimitStillHolds, Allowed
<1>6. ForwardsAreRecorded'
  BY <1>1, <1>2 DEF SpacingInv, ForwardsAreRecorded, Recorded
<1>7. NoneInTheFuture'
  BY <1>1 DEF SpacingInv, NoneInTheFuture
<1> QED
  BY <1>3, <1>4, <1>5, <1>6, <1>7 DEF SpacingInv

\* The limit: zero minutes left means that the cooldown is over.
LEMMA CheckLimitSpacing ==
    ASSUME SpacingInv, NEW q \in Question, CheckLimit(q)
    PROVE  SpacingInv'
<1> DEFINE label == IF MinutesUntilAllowed(lastQuestion[Asker[q]]) > 0
                    THEN "refuse" ELSE "forward"
<1>1. /\ QuestionMoves(q, label) /\ label \in InProgress \cup {"done"} /\ ConversationTypes
      /\ UNCHANGED <<now, lastQuestion, lastForward, unlogged, disturbed>> /\ asking[q] = "limit"
      /\ InHand(q)
  BY DEF CheckLimit, RegisterUser, SpacingInv, InProgress, InHand, environmentVars
<1> HIDE DEF label
<1>2. /\ Asker[q] \in TelegramId /\ asking'[q] = label
      /\ \A p \in Question \ {q} : asking'[p] = asking[p]
      /\ asking' \in [Question -> InProgress \cup {"unsent", "done"}]
  BY <1>1, QuestionTypes
<1>3. ConversationTypes'
  BY <1>1, <1>2 DEF ConversationTypes
<1>4. OneInHand'
  BY <1>1, OneInHandKept
<1>5. LimitStillHolds'
  <2>1. label = "forward" => Allowed(lastQuestion[Asker[q]])
    <3>1. PICK last \in Nat \cup {None} : last = lastQuestion[Asker[q]]
      BY <1>1, <1>2 DEF ConversationTypes
    <3>2. last = None \/ now - last >= Cooldown \/ MinutesUntilAllowed(last) > 0
      BY <1>1, <3>1, ConversationAssumption DEF MinutesUntilAllowed, ConversationTypes
    <3> QED
      BY <3>1, <3>2 DEF label, Allowed
  <2> QED
    BY <1>1, <1>2, <2>1 DEF SpacingInv, LimitStillHolds, Allowed
<1>6. ForwardsAreRecorded'
  BY <1>1, <1>2 DEF SpacingInv, ForwardsAreRecorded, Recorded
<1>7. NoneInTheFuture'
  BY <1>1 DEF SpacingInv, NoneInTheFuture
<1> QED
  BY <1>3, <1>4, <1>5, <1>6, <1>7 DEF SpacingInv

LEMMA ForwardQuestionSpacing ==
    ASSUME SpacingInv, NEW q \in Question, ForwardQuestion(q)
    PROVE  SpacingInv'
<1>1. /\ QuestionMoves(q, "record") /\ "record" \in InProgress \cup {"done"} /\ ConversationTypes
      /\ UNCHANGED <<now, lastQuestion, unlogged, disturbed>> /\ asking[q] = "forward" /\ InHand(q)
      /\ \/ lastForward' = [lastForward EXCEPT ![Asker[q]] = now]
         \/ UNCHANGED lastForward
  BY DEF ForwardQuestion, SpacingInv, InProgress, InHand
<1>2. /\ Asker[q] \in TelegramId /\ asking'[q] = "record"
      /\ \A p \in Question \ {q} : asking'[p] = asking[p]
      /\ asking' \in [Question -> InProgress \cup {"unsent", "done"}]
  BY <1>1, QuestionTypes
<1>3. ConversationTypes'
  BY <1>1, <1>2 DEF ConversationTypes
<1>4. OneInHand'
  BY <1>1, OneInHandKept
<1>5. LimitStillHolds'
  BY <1>1, <1>2 DEF SpacingInv, LimitStillHolds, Allowed
<1>6. ForwardsAreRecorded'
  <2> SUFFICES ASSUME NEW u \in TelegramId, lastForward'[u] # None
               PROVE  /\ lastForward'[u] <= now
                      /\ \/ lastQuestion[u] # None /\ lastForward'[u] <= lastQuestion[u]
                         \/ u \in unlogged
                         \/ \E p \in Question : Asker[p] = u /\ asking'[p] = "record"
    BY <1>1 DEF ForwardsAreRecorded, Recorded
  <2>1. CASE u = Asker[q]
    <3>1. lastForward'[u] = now \/ lastForward'[u] = lastForward[u]
      BY <1>1, <1>2, <2>1 DEF ConversationTypes
    <3>2. lastForward'[u] <= now
      BY <1>1, <3>1 DEF SpacingInv, ForwardsAreRecorded, ConversationTypes
    <3> QED
      BY <1>2, <2>1, <3>2
  <2>2. CASE u # Asker[q]
    <3>1. lastForward'[u] = lastForward[u]
      BY <1>1, <2>2 DEF ConversationTypes
    <3> QED
      BY <1>2, <2>2, <3>1 DEF SpacingInv, ForwardsAreRecorded, Recorded
  <2> QED
    BY <2>1, <2>2
<1>7. NoneInTheFuture'
  BY <1>1 DEF SpacingInv, NoneInTheFuture
<1> QED
  BY <1>3, <1>4, <1>5, <1>6, <1>7 DEF SpacingInv

\* set_last_question_at: now, which no forward was later than.
LEMMA RecordQuestionSpacing ==
    ASSUME SpacingInv, NEW q \in Question, RecordQuestion(q)
    PROVE  SpacingInv'
<1>1. /\ QuestionMoves(q, "answer") /\ "answer" \in InProgress \cup {"done"} /\ ConversationTypes
      /\ UNCHANGED <<now, lastForward, disturbed>> /\ asking[q] = "record" /\ InHand(q)
      /\ lastQuestion' = [lastQuestion EXCEPT ![Asker[q]] = now]
      /\ unlogged' = unlogged \ {Asker[q]}
  BY DEF RecordQuestion, SpacingInv, InProgress, InHand, vars, environmentVars
<1>2. /\ Asker[q] \in TelegramId /\ asking'[q] = "answer"
      /\ \A p \in Question \ {q} : asking'[p] = asking[p]
      /\ asking' \in [Question -> InProgress \cup {"unsent", "done"}]
  BY <1>1, QuestionTypes
<1>3. ConversationTypes'
  BY <1>1, <1>2 DEF ConversationTypes
<1>4. OneInHand'
  BY <1>1, OneInHandKept
<1>5. LimitStillHolds'
  <2> SUFFICES ASSUME NEW p \in Question, asking'[p] = "forward", Asker[p] \notin disturbed
               PROVE  Allowed(lastQuestion[Asker[p]])'
    BY <1>1 DEF LimitStillHolds
  <2>1. p # q /\ asking[p] = "forward" /\ InHand(p)
    BY <1>2 DEF InHand, InProgress
  <2>2. Asker[p] # Asker[q]
    BY <1>1, <2>1 DEF SpacingInv, OneInHand
  <2>3. lastQuestion'[Asker[p]] = lastQuestion[Asker[p]]
    BY <1>1, <2>2, ConversationAssumption DEF ConversationTypes
  <2> QED
    BY <1>1, <2>1, <2>3 DEF SpacingInv, LimitStillHolds, Allowed
<1>6. ForwardsAreRecorded'
  <2> SUFFICES ASSUME NEW u \in TelegramId, lastForward[u] # None
               PROVE  /\ lastForward[u] <= now
                      /\ \/ lastQuestion'[u] # None /\ lastForward[u] <= lastQuestion'[u]
                         \/ u \in unlogged'
                         \/ \E p \in Question : Asker[p] = u /\ asking'[p] = "record"
    BY <1>1 DEF ForwardsAreRecorded, Recorded
  <2>1. lastForward[u] <= now
    BY DEF SpacingInv, ForwardsAreRecorded
  <2>2. CASE u = Asker[q]
    <3>1. lastQuestion'[u] = now /\ now # None
      BY <1>1, <1>2, <2>2, NoneAssumption DEF ConversationTypes
    <3> QED
      BY <2>1, <3>1
  <2>3. CASE u # Asker[q]
    <3>1. lastQuestion'[u] = lastQuestion[u]
      BY <1>1, <2>3 DEF ConversationTypes
    <3> QED
      BY <1>1, <1>2, <2>1, <2>3, <3>1 DEF SpacingInv, ForwardsAreRecorded, Recorded
  <2> QED
    BY <2>2, <2>3
<1>7. NoneInTheFuture'
  BY <1>1 DEF SpacingInv, NoneInTheFuture, ConversationTypes
<1> QED
  BY <1>3, <1>4, <1>5, <1>6, <1>7 DEF SpacingInv

LEMMA AnswerQuestionSpacing ==
    ASSUME SpacingInv, NEW q \in Question, AnswerQuestion(q)
    PROVE  SpacingInv'
<1>1. /\ QuestionMoves(q, "done") /\ ConversationTypes
      /\ UNCHANGED <<now, lastQuestion, lastForward, unlogged>> /\ asking[q] \in {"refuse", "answer"}
      /\ InHand(q) /\ (disturbed' = disturbed \/ disturbed' = disturbed \cup {Asker[q]})
  BY DEF AnswerQuestion, SpacingInv, InProgress, InHand
<1>2. /\ Asker[q] \in TelegramId /\ asking'[q] = "done"
      /\ \A p \in Question \ {q} : asking'[p] = asking[p]
      /\ asking' \in [Question -> InProgress \cup {"unsent", "done"}]
  BY <1>1, QuestionTypes
<1>3. ConversationTypes'
  BY <1>1, <1>2 DEF ConversationTypes
<1>4. OneInHand'
  BY <1>1, OneInHandKept
<1>5. LimitStillHolds'
  BY <1>1, <1>2 DEF SpacingInv, LimitStillHolds, Allowed
<1>6. ForwardsAreRecorded'
  BY <1>1, <1>2 DEF SpacingInv, ForwardsAreRecorded, Recorded
<1>7. NoneInTheFuture'
  BY <1>1 DEF SpacingInv, NoneInTheFuture
<1> QED
  BY <1>3, <1>4, <1>5, <1>6, <1>7 DEF SpacingInv

\* A handler that fails before the record leaves its question unlogged.
LEMMA QuestionFailsSpacing ==
    ASSUME SpacingInv, NEW q \in Question, QuestionFails(q)
    PROVE  SpacingInv'
<1>1. /\ QuestionMoves(q, "done") /\ ConversationTypes /\ UNCHANGED <<now, lastQuestion, lastForward>>
      /\ InHand(q)
      /\ disturbed' = disturbed \cup {Asker[q]}
      /\ unlogged' = unlogged \cup {u \in {Asker[q]} : asking[q] = "record"}
  BY DEF QuestionFails, SpacingInv, InProgress, InHand
<1>2. /\ Asker[q] \in TelegramId /\ asking'[q] = "done"
      /\ \A p \in Question \ {q} : asking'[p] = asking[p]
      /\ asking' \in [Question -> InProgress \cup {"unsent", "done"}]
  BY <1>1, QuestionTypes
<1>3. ConversationTypes'
  BY <1>1, <1>2 DEF ConversationTypes
<1>4. OneInHand'
  BY <1>1, OneInHandKept
<1>5. LimitStillHolds'
  BY <1>1, <1>2 DEF SpacingInv, LimitStillHolds, Allowed
<1>6. ForwardsAreRecorded'
  <2> SUFFICES ASSUME NEW u \in TelegramId, lastForward[u] # None
               PROVE  /\ lastForward[u] <= now
                      /\ \/ Recorded(u) \/ u \in unlogged'
                         \/ \E p \in Question : Asker[p] = u /\ asking'[p] = "record"
    BY <1>1 DEF ForwardsAreRecorded, Recorded
  <2>1. CASE asking[q] = "record" /\ u = Asker[q]
    BY <1>1, <2>1 DEF SpacingInv, ForwardsAreRecorded
  <2>2. CASE asking[q] # "record" \/ u # Asker[q]
    BY <1>1, <1>2, <2>2 DEF SpacingInv, ForwardsAreRecorded
  <2> QED
    BY <2>1, <2>2
<1>7. NoneInTheFuture'
  BY <1>1 DEF SpacingInv, NoneInTheFuture
<1> QED
  BY <1>3, <1>4, <1>5, <1>6, <1>7 DEF SpacingInv

LEMMA PromptSpacing ==
    ASSUME SpacingInv, NEW u \in TelegramId, NEW prompt, SetState(u, prompt)
    PROVE  SpacingInv'
<1>1. /\ UNCHANGED <<now, asking, lastQuestion, lastForward, unlogged>>
      /\ disturbed' = IF Handling(u) THEN disturbed \cup {u} ELSE disturbed \ {u}
      /\ ConversationTypes
  BY DEF SetState, Prompted, SpacingInv, vars, environmentVars
<1>2. \A q \in Question : InHand(q) /\ Asker[q] = u => Handling(u)
  BY DEF Handling, InHand
<1>3. disturbed' \subseteq TelegramId /\ now' \in Nat /\ now <= now'
  BY <1>1 DEF ConversationTypes
<1>4. \A q \in Question : InHand(q) /\ Asker[q] \in disturbed => Asker[q] \in disturbed'
  BY <1>1, <1>2
<1> QED
  BY <1>1, <1>3, <1>4, OthersKeepSpacing

LEMMA BotStepSpacing ==
    ASSUME SpacingInv, BotStep
    PROVE  SpacingInv'
<1>1. UNCHANGED <<asking, lastQuestion, lastForward, unlogged>> /\ disturbed \subseteq disturbed'
      /\ Next
  BY DEF BotStep, Next
<1>2. disturbed' \subseteq TelegramId
  BY DEF BotStep, SpacingInv, ConversationTypes
<1>3. now' \in Nat /\ now <= now'
  BY <1>1, ClockMoves DEF SpacingInv, ConversationTypes
<1> QED
  BY <1>1, <1>2, <1>3, OthersKeepSpacing

\* No handler survives, and what one had forwarded but not recorded is unlogged.
LEMMA BotCrashSpacing ==
    ASSUME SpacingInv, BotCrash
    PROVE  SpacingInv'
<1>1. /\ ConversationTypes /\ UNCHANGED <<now, lastQuestion>>
      /\ asking' = [q \in Question |-> IF asking[q] \in InProgress THEN "done" ELSE asking[q]]
      /\ UNCHANGED lastForward
      /\ unlogged' = unlogged \cup {Asker[q] : q \in {q \in Question : asking[q] = "record"}}
      /\ disturbed \subseteq disturbed' /\ disturbed' \subseteq TelegramId
  BY DEF BotCrash, Crash, SpacingInv, ConversationTypes
<1>2. ConversationTypes'
  BY <1>1 DEF ConversationTypes
<1>3. \A q \in Question : asking'[q] \notin InProgress
  BY <1>1 DEF InProgress
<1>4. OneInHand' /\ LimitStillHolds'
  BY <1>3 DEF OneInHand, InHand, LimitStillHolds, InProgress
<1>5. NoneInTheFuture'
  BY <1>1 DEF SpacingInv, NoneInTheFuture
<1>6. ForwardsAreRecorded'
  BY <1>1 DEF SpacingInv, ForwardsAreRecorded, Recorded
<1> QED
  BY <1>2, <1>4, <1>5, <1>6 DEF SpacingInv

LEMMA SpacingStep == SpacingInv /\ [ConversationNext]_allVars => SpacingInv'
<1> SUFFICES ASSUME SpacingInv, [ConversationNext]_allVars PROVE SpacingInv'
  OBVIOUS
<1>1. ASSUME NEW u \in TelegramId, RequestScreenshot(u) \/ AskQuestion(u) \/ BackToMainMenu(u)
      PROVE  SpacingInv'
  BY <1>1, PromptSpacing DEF RequestScreenshot, AskQuestion, BackToMainMenu
<1>2. ASSUME NEW q \in Question, QuestionStep(q) PROVE SpacingInv'
  BY <1>2, ReceiveQuestionSpacing, CheckLimitSpacing, ForwardQuestionSpacing,
     RecordQuestionSpacing, AnswerQuestionSpacing, QuestionFailsSpacing DEF QuestionStep
<1>3. CASE (\E message \in clearing : ClearState(message)) \/ UNCHANGED allVars
  <2>1. UNCHANGED <<now, asking, lastQuestion, lastForward, unlogged, disturbed>>
    BY <1>3 DEF ClearState, allVars, conversationVars, vars, environmentVars
  <2>2. now \in Nat /\ disturbed \subseteq TelegramId
    BY DEF SpacingInv, ConversationTypes
  <2> QED
    BY <2>1, <2>2, OthersKeepSpacing
<1>4. CASE BotStep
  BY <1>4, BotStepSpacing
<1>5. CASE BotCrash
  BY <1>5, BotCrashSpacing
<1> QED
  BY <1>1, <1>2, <1>3, <1>4, <1>5 DEF ConversationNext

\* SpacingInv is an invariant of the whole system with its conversations.
THEOREM SpacingInvHolds == ConversationSpec => []SpacingInv
  BY SpacingInit, SpacingStep, PTL DEF ConversationSpec

\* The admin does not get two questions of a user within the cooldown, unless
\* two messages of the user were in hand at once (receive_question reads the
\* limit, forwards, and only then records) or the record of the last question
\* was cut short, whatever the bot does besides.
THEOREM QuestionsSpaced == ConversationSpec => QuestionsAreSpaced
<1>1. ASSUME SpacingInv, NEW q \in Question, asking[q] = "forward",
             Asker[q] \notin disturbed \cup unlogged, lastForward[Asker[q]] # None
      PROVE  now - lastForward[Asker[q]] >= Cooldown
  <2>1. PICK u \in TelegramId : u = Asker[q]
    BY ConversationAssumption
  <2>2. InHand(q) /\ ConversationTypes /\ Cooldown \in Nat
    BY <1>1, ConversationAssumption DEF InHand, InProgress, SpacingInv
  <2>3. ASSUME NEW p \in Question, Asker[p] = u PROVE asking[p] # "record"
    BY <1>1, <2>1, <2>2, <2>3 DEF SpacingInv, OneInHand, InHand, InProgress
  <2>4. Recorded(u)
    BY <1>1, <2>1, <2>3 DEF SpacingInv, ForwardsAreRecorded
  <2>5. lastQuestion[u] \in Nat /\ lastForward[u] \in Nat /\ now \in Nat
    BY <1>1, <2>1, <2>2, <2>4 DEF ConversationTypes, Recorded
  <2>6. now - lastQuestion[u] >= Cooldown
    BY <1>1, <2>1, <2>4 DEF SpacingInv, LimitStillHolds, Allowed, Recorded
  <2> QED
    BY <2>1, <2>2, <2>4, <2>5, <2>6 DEF Recorded
<1>2. SpacingInv /\ [ConversationNext]_allVars =>
        [\A q \in Question :
           /\ asking[q] = "forward" /\ asking'[q] = "record"
           /\ Asker[q] \notin disturbed \cup unlogged
           /\ lastForward[Asker[q]] # None
           => now - lastForward[Asker[q]] >= Cooldown]_allVars
  BY <1>1
<1> QED
  BY <1>2, SpacingInvHolds, PTL DEF ConversationSpec, QuestionsAreSpaced

-----------------------------------------------------------------------------
(* Handlers of screenshots, among the steps of the bot.                    *)

\* Handlers working on a screenshot.
Sends(t) == task[t].pc \in SavingLabels \cup SavedLabels

Receives(t, m) ==
    /\ task[t].pc = "idle" /\ m \notin received
    /\ received' = received \cup {m}
    /\ task'[t] = Starting("save_user", m, Sender[m], None)
    /\ OthersStay(t)
    /\ UNCHANGED faults

\* What a handler does to a screenshot it has in hand, if it has one.
Moves(t) ==
    \/ ~Sends(t) /\ ~Sends(t)'
    \/ /\ Sends(t) /\ Sends(t)'
       /\ task'[t].user = task[t].user /\ task'[t].ref = task[t].ref
       /\ \/ task'[t].pc \in {"save_placeholder", "save_payment"}
          \/ SavePayment(t)
          \/ ForwardScreenshot(t)
    \/ /\ Sends(t) /\ task'[t].pc = "idle"
       /\ task[t].pc = "thank" \/ faults' # faults

\* One handler at most moves in a step of the bot.
LEMMA HandlerMoves ==
    ASSUME GrantInv, RunningNext
    PROVE  \/ UNCHANGED <<task, received, buttons>>
           \/ UNCHANGED buttons /\ \E t \in Task, m \in Message : Receives(t, m)
           \/ /\ UNCHANGED received /\ buttons \subseteq buttons'
              /\ \E t \in Task : OthersStay(t) /\ Moves(t)
<1>1. TaskTyped /\ faults \in Nat
  BY DEF GrantInv, TypeOK, ServiceTypeOK, EnvironmentTypeOK, TaskTyped
<1> USE DEF Sends, SavingLabels, SavedLabels
<1>2. CASE WorldNext \/ WarningsNext \/ KickNextStep
  BY <1>2 DEF WorldNext, AdvanceClock, JoinChannel, RegisterUser, CustomerActs, WarningsNext,
      WarningsStep, StartWarnings, WarnNext, ReadForExpiring, MarkExpiring, RefreshMarked,
      SendReminder, RecordReminder, KickNextStep, KickStep, StartAutoKick, KickNext, ReadHop,
      WriteHop, FindOtherLive, CheckMember, BanMember, UnbanMember, serviceVars, manualVars
<1>3. ASSUME NEW s \in Session, NEW type \in EventType, WebhookNext(s, type)
      PROVE  UNCHANGED <<received, buttons>>
             /\ (UNCHANGED task \/ \E t \in Task : OthersStay(t) /\ Moves(t))
  <2>1. ASSUME NEW t \in Task, BeginStripeActivation(t, s, type)
        PROVE  OthersStay(t) /\ Moves(t)
    BY <1>1, <2>1 DEF BeginStripeActivation, BeginActivation, Starting, At, Moves, OthersStay,
        TaskTyped
  <2> QED
    BY <1>3, <2>1 DEF WebhookNext, AcknowledgeEvent, serviceVars, manualVars
<1>4. CASE RequestNext
  <2>1. ASSUME NEW t \in Task, NEW m \in Message, ReceiveScreenshot(t, m)
        PROVE  Receives(t, m)
    BY <1>1, <2>1 DEF ReceiveScreenshot, Receives, At, OthersStay, TaskTyped, environmentVars
  <2>2. ASSUME NEW t \in Task,
               \/ \E r \in SubId : PressConfirm(t, r)
               \/ \E q \in Uuid, u \in TelegramId : AdminActivate(t, q, u)
               \/ \E u \in TelegramId : AdminInvite(t, u)
        PROVE  UNCHANGED <<received, buttons>> /\ OthersStay(t) /\ Moves(t)
    BY <1>1, <2>2 DEF PressConfirm, AdminActivate, BeginActivation, AdminInvite, Starting, At,
        Moves, OthersStay, TaskTyped, manualVars
  <2> QED
    BY <1>4, <2>1, <2>2 DEF RequestNext, ReceiveScreenshot
<1>5. ASSUME NEW t \in Task, HandlerNext(t)
      PROVE  UNCHANGED received /\ buttons \subseteq buttons' /\ OthersStay(t) /\ Moves(t)
  <2>1. CASE ActivationStep(t) /\ UNCHANGED manualVars
    <3>1. ~Sends(t) /\ ~Sends(t)' /\ OthersStay(t)
      <4>1. CASE GetOrCreateUser(t) \/ ActivateSubscription(t) \/ ConfirmManualPayment(t)
        <5>1. PICK label \in {"find_live", "create_link", "notify"} : Goto(t, label)
          BY <4>1 DEF GetOrCreateUser, ActivateSubscription, ConfirmManualPayment
        <5> QED
          BY <1>1, <4>1, <5>1, GotoTask DEF GetOrCreateUser, ActivateSubscription,
              ConfirmManualPayment, At, Label
      <4>2. CASE FindOrCreateSubscription(t) \/ FindRenewable(t)
        <5>1. PICK label \in {"insert_payment", "confirm_activate"} :
                 \E r, row : ChooseRow(t, r, row, label)
          BY <4>2 DEF FindOrCreateSubscription, FindRenewable
        <5>2. PICK r, row :
                 task' = [task EXCEPT ![t].pc = label, ![t].sub = r, ![t].row = row]
          BY <5>1 DEF ChooseRow
        <5>3. task'[t].pc = label /\ OthersStay(t)
          BY <1>1, <5>2 DEF TaskTyped, TaskRecord, OthersStay
        <5> QED
          BY <4>2, <5>3 DEF FindOrCreateSubscription, FindRenewable, At
      <4>3. CASE CreatePayment(t)
        <5>1. \/ Goto(t, "activate")
              \/ task' = [task EXCEPT ![t] = Starting("duplicate", task[t].ref, None, None)]
          BY <4>3 DEF CreatePayment
        <5>2. task'[t].pc \in {"activate", "duplicate"} /\ OthersStay(t)
          BY <1>1, <5>1 DEF Goto, Starting, TaskTyped, TaskRecord, OthersStay
        <5> QED
          BY <4>3, <5>2 DEF CreatePayment, At
      <4>4. CASE LockPlaceholder(t)
        <5>1. CASE End(t)
          BY <1>1, <4>4, <5>1, EndTask DEF LockPlaceholder, At
        <5>2. CASE ~End(t)
          <6>1. PICK q :
                   task' = [task EXCEPT ![t].pc = "find_renewable", ![t].ref = q,
                                        ![t].user = subs[task[t].pending].user,
                                        ![t].row = subs[task[t].pending]]
            BY <4>4, <5>2 DEF LockPlaceholder
          <6>2. task'[t].pc = "find_renewable" /\ OthersStay(t)
            BY <1>1, <6>1 DEF TaskTyped, TaskRecord, OthersStay
          <6> QED
            BY <4>4, <6>2 DEF LockPlaceholder, At
        <5> QED
          BY <5>1, <5>2
      <4> QED
        BY <2>1, <4>1, <4>2, <4>3, <4>4 DEF ActivationStep
    <3> QED
      BY <2>1, <3>1 DEF Moves, manualVars
  <2>2. CASE (AccessStep(t) \/ RespondOK(t) \/ InviteStep(t)) /\ UNCHANGED manualVars
    <3>1. ~Sends(t) /\ ~Sends(t)' /\ OthersStay(t)
      <4>1. \/ End(t)
            \/ \E label \in {"send_link", "confirm_access", "respond", "send_invite"} :
                  Goto(t, label)
        BY <2>2 DEF AccessStep, CreateInviteLink, SendConfirmation, RespondOK, InviteStep,
            CreateFreshLink, SendFreshLink
      <4>2. task'[t].pc \in {"idle", "send_link", "confirm_access", "respond", "send_invite"}
            /\ OthersStay(t)
        BY <1>1, <4>1, EndTask, GotoTask DEF Label
      <4> QED
        BY <2>2, <4>2 DEF AccessStep, CreateInviteLink, SendConfirmation, RespondOK, InviteStep,
            CreateFreshLink, SendFreshLink, At
    <3> QED
      BY <2>2, <3>1 DEF Moves, manualVars
  <2>3. CASE SaveUser(t) \/ SavePlaceholder(t) \/ SavePayment(t) \/ ForwardScreenshot(t)
    <3>1. /\ Sends(t) /\ Sends(t)' /\ OthersStay(t)
          /\ task'[t].user = task[t].user /\ task'[t].ref = task[t].ref
      BY <1>1, <2>3 DEF SaveUser, SavePlaceholder, SavePayment, ForwardScreenshot, Goto, At,
          OthersStay, TaskTyped, TaskRecord
    <3>2. SaveUser(t) \/ SavePlaceholder(t) => task'[t].pc \in {"save_placeholder", "save_payment"}
      BY <1>1 DEF SaveUser, SavePlaceholder, Goto, TaskTyped, TaskRecord
    <3> QED
      BY <2>3, <3>1, <3>2 DEF Moves, SaveUser, SavePlaceholder, SavePayment, ForwardScreenshot,
          manualVars
  <2>4. CASE ThankSender(t)
    BY <1>1, <2>4, EndTask DEF ThankSender, Moves, At, manualVars
  <2> QED
    BY <1>5, <2>1, <2>2, <2>3, <2>4 DEF HandlerNext, ScreenshotStep, InviteStep, CreateFreshLink,
        SendFreshLink
<1>6. CASE FailureNext
  <2>1. ASSUME NEW t \in Task, TransactionFails(t) PROVE OthersStay(t) /\ Moves(t)
    <3>1. faults' # faults /\ End(t)
      BY <1>1, <2>1 DEF TransactionFails, FaultOccurs
    <3> QED
      BY <1>1, <3>1, EndTask DEF Moves
  <2> QED
    BY <1>6, <2>1 DEF FailureNext, WarningsFail, KickFails, OtherHandlerFails, serviceVars, manualVars
<1> QED
  BY <1>2, <1>3, <1>4, <1>5, <1>6 DEF RunningNext

-----------------------------------------------------------------------------
(* Prompts and their answers.                                              *)

\* Who works on a screenshot works for its sender.
OwnMessage(t) == Sends(t) => task[t].ref \in Message /\ task[t].user = Sender[task[t].ref]

\* What is so of a user who had no two messages handled at once since the
\* last fresh prompt, and no handler cut short.
Undisturbed(u) ==
    /\ prompted[u] # "none" => state[u] = prompted[u] /\ ~Handling(u)
    /\ \A m1, m2 \in admitted[u] : m1 = m2
    /\ admitted[u] # {} => Handling(u) \/ state[u] # "screenshot"

\* Inductive with GrantInv.
PromptInv ==
    /\ ConversationTypeOK
    /\ \A t \in Task : OwnMessage(t)
    /\ \A u \in TelegramId : u \notin disturbed => Undisturbed(u)

\* What a step has to leave alone of the users it does not concern.
UserKept(u) ==
    /\ u \notin disturbed
    /\ state'[u] = state[u] /\ admitted'[u] = admitted[u]
    /\ prompted'[u] \in {prompted[u], "none"}
    /\ Handling(u) => Handling(u)'
    /\ Handling(u)' => Handling(u) \/ prompted'[u] = "none"

LEMMA UserFrame ==
    ASSUME NEW u, Undisturbed(u), UserKept(u)
    PROVE  Undisturbed(u)'
<1>1. (Handling(u) => Handling(u)') /\ (Handling(u)' => Handling(u) \/ prompted'[u] = "none")
  BY DEF UserKept
<1> DEFINE busy == Handling(u)
<1>2. (busy => busy') /\ (busy' => busy \/ prompted'[u] = "none")
  BY <1>1
<1> QED
  BY <1>2 DEF Undisturbed, UserKept

\* A prompt: a fresh start if nothing of the user is in hand.
LEMMA SetStatePrompts ==
    ASSUME PromptInv, NEW u \in TelegramId, NEW prompt \in Prompt, SetState(u, prompt)
    PROVE  PromptInv'
<1>1. UNCHANGED <<task, asking, clearing, lastQuestion, thanked, unforwarded, lastForward,
                  unlogged>>
  BY DEF SetState, Prompted, vars, serviceVars
<1>2. /\ state' = [state EXCEPT ![u] = prompt] /\ prompted' = [prompted EXCEPT ![u] = prompt]
      /\ admitted' = [admitted EXCEPT ![u] = {}]
      /\ disturbed' = IF Handling(u) THEN disturbed \cup {u} ELSE disturbed \ {u}
      /\ ConversationTypeOK
  BY DEF SetState, Prompted, PromptInv
<1>3. ConversationTypeOK'
  BY <1>1, <1>2 DEF ConversationTypeOK
<1>4. \A t \in Task : OwnMessage(t)'
  BY <1>1 DEF PromptInv, OwnMessage, Sends
<1>5. \A v \in TelegramId : Handling(v)' <=> Handling(v)
  BY <1>1 DEF Handling, SenderOf
<1>6. ASSUME NEW v \in TelegramId, v \notin disturbed' PROVE Undisturbed(v)'
  <2>1. CASE v = u
    <3>1. ~Handling(u)'
      BY <1>2, <1>5, <1>6, <2>1
    <3> QED
      BY <1>2, <2>1, <3>1 DEF Undisturbed, ConversationTypeOK
  <2>2. CASE v # u
    <3>1. UserKept(v)
      BY <1>2, <1>5, <1>6, <2>2 DEF UserKept, ConversationTypeOK
    <3> QED
      BY <2>2, <3>1, UserFrame DEF PromptInv, UserKept
  <2> QED
    BY <2>1, <2>2
<1> QED
  BY <1>3, <1>4, <1>6 DEF PromptInv

\* A question's handler: its asker was in hand before the step, and is after
\* it unless the step disturbs, and no other user is concerned.
LEMMA QuestionPrompts ==
    ASSUME PromptInv, NEW q \in Question, QuestionStep(q), now \in Nat
    PROVE  PromptInv'
<1> DEFINE u == Asker[q]
<1>1. u \in TelegramId /\ ConversationTypeOK
  BY ConversationAssumption DEF PromptInv
<1>2. UNCHANGED <<task, state, admitted, thanked, unforwarded>> /\ disturbed \subseteq disturbed'
  BY DEF QuestionStep, ReceiveQuestion, CheckLimit, RegisterUser, ForwardQuestion, RecordQuestion,
      AnswerQuestion, QuestionFails, Overlap, vars, serviceVars
<1>3. PICK label \in InProgress \cup {"done"} : QuestionMoves(q, label)
  BY DEF QuestionStep, ReceiveQuestion, CheckLimit, ForwardQuestion, RecordQuestion,
      AnswerQuestion, QuestionFails, InProgress
<1>4. /\ asking'[q] = label /\ \A p \in Question \ {q} : asking'[p] = asking[p]
      /\ asking' \in [Question -> InProgress \cup {"unsent", "done"}]
  BY <1>1, <1>3 DEF QuestionMoves, ConversationTypeOK
<1>5. clearing' \in {clearing, clearing \cup {q}} /\ prompted' \in {prompted, [prompted EXCEPT ![u] = "none"]}
  BY DEF QuestionStep, ReceiveQuestion, CheckLimit, ForwardQuestion, RecordQuestion,
      AnswerQuestion, QuestionFails
<1>6. disturbed' \in {disturbed, disturbed \cup {u}}
  BY DEF QuestionStep, ReceiveQuestion, CheckLimit, ForwardQuestion, RecordQuestion,
      AnswerQuestion, QuestionFails, Overlap
<1>7. /\ lastQuestion' \in [TelegramId -> Nat \cup {None}]
      /\ lastForward' \in [TelegramId -> Nat \cup {None}]
      /\ unlogged' \subseteq TelegramId
  BY <1>1 DEF ConversationTypeOK, QuestionStep, ReceiveQuestion, CheckLimit, ForwardQuestion,
      RecordQuestion, AnswerQuestion, QuestionFails
<1>8. ConversationTypeOK'
  BY <1>1, <1>2, <1>4, <1>5, <1>6, <1>7 DEF ConversationTypeOK, Prompt
<1>9. \A t \in Task : OwnMessage(t)'
  BY <1>2 DEF PromptInv, OwnMessage, Sends
<1>10. ASSUME NEW v \in TelegramId, v # u, v \notin disturbed' PROVE UserKept(v)
  <2>1. Handling(v)' <=> Handling(v)
    BY <1>2, <1>4, <1>5, <1>10 DEF Handling, SenderOf
  <2> QED
    BY <1>1, <1>2, <1>5, <1>10, <2>1 DEF UserKept, ConversationTypeOK
<1>11. ASSUME u \notin disturbed' PROVE UserKept(u)
  <2>1. CASE ReceiveQuestion(q)
    <3>1. Handling(u)' /\ prompted'[u] = "none"
      BY <1>1, <2>1, <1>4, <1>3 DEF ReceiveQuestion, Handling, QuestionMoves, ConversationTypeOK,
          InProgress
    <3> QED
      BY <1>2, <1>11, <3>1 DEF UserKept
  <2>2. CASE ~ReceiveQuestion(q)
    <3>1. asking[q] \in InProgress /\ prompted' = prompted
      BY <2>2 DEF QuestionStep, CheckLimit, ForwardQuestion, RecordQuestion, AnswerQuestion,
          QuestionFails, InProgress
    <3>2. label \in InProgress \/ q \in clearing'
      <4>1. CASE CheckLimit(q) \/ ForwardQuestion(q) \/ RecordQuestion(q)
        BY <1>1, <1>4, <4>1 DEF CheckLimit, ForwardQuestion, RecordQuestion, QuestionMoves,
            InProgress, ConversationTypeOK
      <4>2. CASE AnswerQuestion(q) \/ QuestionFails(q)
        BY <1>11, <4>2 DEF AnswerQuestion, QuestionFails
      <4> QED
        BY <2>2, <4>1, <4>2 DEF QuestionStep
    <3>3. Handling(u) /\ Handling(u)'
      BY <1>4, <3>1, <3>2 DEF Handling, SenderOf
    <3> QED
      BY <1>2, <1>11, <3>1, <3>3 DEF UserKept
  <2> QED
    BY <2>1, <2>2
<1>12. ASSUME NEW v \in TelegramId, v \notin disturbed' PROVE Undisturbed(v)'
  <2>1. UserKept(v)
    BY <1>10, <1>11, <1>12
  <2> QED
    BY <2>1, UserFrame DEF PromptInv, UserKept
<1> QED
  BY <1>8, <1>9, <1>12 DEF PromptInv

\* state.clear(): its user was in hand up to now, so was prompted for nothing.
LEMMA ClearStatePrompts ==
    ASSUME PromptInv, NEW message \in clearing, ClearState(message)
    PROVE  PromptInv'
<1> DEFINE u == SenderOf(message)
<1>1. u \in TelegramId /\ ConversationTypeOK
  BY ConversationAssumption, SenderAssumption DEF PromptInv, ConversationTypeOK, SenderOf
<1>2. /\ UNCHANGED <<task, asking, lastQuestion, prompted, admitted, thanked, unforwarded,
                     lastForward, unlogged, disturbed>>
      /\ clearing' = clearing \ {message} /\ state' = [state EXCEPT ![u] = "none"]
  BY DEF ClearState, vars, serviceVars
<1>3. ConversationTypeOK'
  BY <1>1, <1>2 DEF ConversationTypeOK, Prompt
<1>4. \A t \in Task : OwnMessage(t)'
  BY <1>2 DEF PromptInv, OwnMessage, Sends
<1>5. ASSUME u \notin disturbed PROVE Undisturbed(u)'
  <2>1. Handling(u)
    BY DEF Handling
  <2>2. prompted[u] = "none" /\ state'[u] = "none"
    BY <1>1, <1>2, <1>5, <2>1 DEF PromptInv, Undisturbed, ConversationTypeOK
  <2> QED
    BY <1>1, <1>2, <1>5, <2>2 DEF PromptInv, Undisturbed
<1>6. ASSUME NEW v \in TelegramId, v # u, v \notin disturbed PROVE Undisturbed(v)'
  <2>1. Handling(v)' <=> Handling(v)
    BY <1>2, <1>6 DEF Handling, SenderOf
  <2>2. UserKept(v)
    BY <1>1, <1>2, <1>6, <2>1 DEF UserKept, ConversationTypeOK
  <2> QED
    BY <1>6, <2>2, UserFrame DEF PromptInv
<1> QED
  BY <1>2, <1>3, <1>4, <1>5, <1>6 DEF PromptInv

\* A crash spares the prompts of those who were not waiting for anything.
LEMMA BotCrashPrompts ==
    ASSUME PromptInv, BotCrash
    PROVE  PromptInv'
<1>1. /\ task' = [t \in Task |-> IdleTask] /\ state' = [v \in TelegramId |-> "none"]
      /\ clearing' = {} /\ unlogged' \subseteq TelegramId
      /\ asking' = [q \in Question |-> IF asking[q] \in InProgress THEN "done" ELSE asking[q]]
      /\ disturbed' = disturbed \cup {v \in TelegramId : Handling(v) \/ prompted[v] # "none"}
      /\ UNCHANGED <<lastQuestion, lastForward, prompted, admitted, thanked, unforwarded>>
      /\ ConversationTypeOK
  BY ConversationAssumption DEF BotCrash, Crash, PromptInv, ConversationTypeOK
<1>2. ConversationTypeOK'
  BY <1>1 DEF ConversationTypeOK, Prompt
<1>3. \A t \in Task : OwnMessage(t)'
  BY <1>1 DEF OwnMessage, Sends, SavingLabels, SavedLabels, IdleTask, Starting
<1>4. ASSUME NEW v \in TelegramId, v \notin disturbed' PROVE Undisturbed(v)'
  BY <1>1, <1>4 DEF PromptInv, Undisturbed
<1> QED
  BY <1>2, <1>3, <1>4 DEF PromptInv

\* What the rest of the bot means for the conversations of one user.
LEMMA BotStepUser ==
    ASSUME GrantInv, PromptInv, BotStep, NEW u \in TelegramId, u \notin disturbed'
    PROVE  Undisturbed(u)'
<1>1. /\ RunningNext /\ UNCHANGED <<state, asking>> /\ ConversationTypeOK
      /\ \A m \in NewlyReceived : state[Sender[m]] = "screenshot"
      /\ admitted'[u] = admitted[u] \cup {m \in NewlyReceived : Sender[m] = u}
      /\ prompted'[u] = IF \E m \in NewlyReceived : Sender[m] = u THEN "none" ELSE prompted[u]
      /\ u \notin disturbed /\ clearing \subseteq clearing' /\ Undisturbed(u)
  BY DEF BotStep, PromptInv
<1>2. faults' = faults => /\ clearing' = clearing \cup NewlyThanked
                          /\ ~(Handling(u) /\ \E m \in NewlyReceived : Sender[m] = u)
  BY DEF BotStep
<1>3. faults' # faults =>
        /\ clearing' = clearing
        /\ \A t \in Task : ~(task[t].user = u /\ task[t].ref \in Message /\ task'[t].pc = "idle")
  BY DEF BotStep, At
<1>4. NewlyThanked = {task[t].ref : t \in {t \in Task : task[t].pc = "thank" /\ task'[t].pc = "idle"}}
  BY DEF NewlyThanked, At
<1>5. CASE UNCHANGED <<task, received, buttons>>
  <2>1. NewlyReceived = {} /\ NewlyThanked = {}
    BY <1>4, <1>5 DEF NewlyReceived
  <2>2. clearing' = clearing
    BY <1>2, <1>3, <2>1
  <2>3. Handling(u)' <=> Handling(u)
    BY <1>1, <1>5, <2>2 DEF Handling, SenderOf
  <2>4. UserKept(u)
    BY <1>1, <2>1, <2>3 DEF UserKept
  <2> QED
    BY <1>1, <2>4, UserFrame
<1>6. ASSUME NEW t \in Task, NEW m \in Message, Receives(t, m) PROVE Undisturbed(u)'
  <2>1. /\ NewlyReceived = {m} /\ NewlyThanked = {} /\ clearing' = clearing
        /\ task[t].pc = "idle" /\ task'[t].pc = "save_user" /\ task'[t].user = Sender[m]
        /\ \A other \in Task \ {t} : task'[other] = task[other]
    <3>1. /\ NewlyReceived = {m} /\ faults' = faults
          /\ \A other \in Task \ {t} : task'[other] = task[other]
      BY <1>6 DEF Receives, NewlyReceived, OthersStay
    <3>2. /\ task[t].pc = "idle" /\ task'[t].pc = "save_user" /\ task'[t].user = Sender[m]
      BY <1>6 DEF Receives, Starting
    <3>3. \A other \in Task : ~(task[other].pc = "thank" /\ task'[other].pc = "idle")
      BY <3>1, <3>2
    <3>4. NewlyThanked = {}
      BY <1>4, <3>3
    <3> QED
      BY <1>2, <3>1, <3>2, <3>4
  <2>2. CASE u = Sender[m]
    <3>1. prompted'[u] = "none" /\ ~Handling(u) /\ state[u] = "screenshot"
      BY <1>1, <1>2, <1>6, <2>1, <2>2 DEF Receives
    <3>2. admitted[u] = {} /\ admitted'[u] = {m}
      BY <1>1, <2>1, <2>2, <3>1 DEF Undisturbed
    <3>3. Handling(u)'
      BY <2>1, <2>2 DEF Handling
    <3> QED
      BY <3>1, <3>2, <3>3 DEF Undisturbed
  <2>3. CASE u # Sender[m]
    <3>1. Handling(u)' <=> Handling(u)
      BY <1>1, <2>1, <2>3 DEF Handling, SenderOf
    <3>2. UserKept(u)
      BY <1>1, <2>1, <2>3, <3>1 DEF UserKept
    <3> QED
      BY <1>1, <3>2, UserFrame
  <2> QED
    BY <2>2, <2>3
<1>7. ASSUME NEW t \in Task, OthersStay(t), Moves(t), UNCHANGED received PROVE Undisturbed(u)'
  <2>1. NewlyReceived = {} /\ \A other \in Task \ {t} : task'[other] = task[other]
    BY <1>7 DEF NewlyReceived, OthersStay
  <2>2. Sends(t) => /\ task[t].ref \in Message /\ task[t].user = Sender[task[t].ref]
                    /\ SenderOf(task[t].ref) = task[t].user
    BY ConversationAssumption DEF PromptInv, OwnMessage, SenderOf
  <2>3. Sends(t)' => Sends(t) /\ task'[t].user = task[t].user
    BY <1>7 DEF Moves, Sends, SavingLabels, SavedLabels
  <2>4. \A message \in clearing' \ clearing : Sends(t) /\ message = task[t].ref
    BY <1>2, <1>3, <1>4, <2>1 DEF Sends, SavingLabels, SavedLabels
  <2>5. Handling(u)' => Handling(u)
    BY <1>1, <2>1, <2>2, <2>3, <2>4 DEF Handling, SenderOf, Sends, SavingLabels, SavedLabels
  <2>6. Sends(t) /\ task[t].user = u => Sends(t)' \/ task[t].ref \in clearing'
    BY <1>2, <1>3, <1>4, <1>7, <2>2 DEF Moves
  <2>7. Handling(u) => Handling(u)'
    <3>1. Sends(t) /\ task[t].user = u => Handling(u)'
      <4>1. Sends(t) /\ Sends(t)' /\ task[t].user = u => Handling(u)'
        BY <1>7 DEF Moves, Handling, Sends, SavingLabels, SavedLabels
      <4> QED
        BY <2>2, <2>6, <4>1 DEF Handling, SenderOf
    <3>2. \A other \in Task \ {t} : Sends(other) /\ task[other].user = u => Handling(u)'
      BY <2>1 DEF Handling, Sends, SavingLabels, SavedLabels
    <3> QED
      BY <1>1, <3>1, <3>2 DEF Handling, SenderOf, Sends, SavingLabels, SavedLabels
  <2>8. UserKept(u)
    BY <1>1, <2>1, <2>5, <2>7 DEF UserKept
  <2> QED
    BY <1>1, <2>8, UserFrame
<1> QED
  BY <1>1, <1>5, <1>6, <1>7, HandlerMoves

\* The rest of the bot keeps the conversations in order.
LEMMA BotStepPrompts ==
    ASSUME GrantInv, PromptInv, BotStep
    PROVE  PromptInv'
<1>1. /\ RunningNext /\ UNCHANGED <<state, asking, lastQuestion, lastForward, unlogged>>
      /\ ConversationTypeOK
      /\ \A t \in Task : task[t].pc = "thank" => task[t].ref \in Message
      /\ \A t \in Task : task[t].pc = "forward" => task[t].ref \in Message
  BY DEF BotStep, PromptInv, OwnMessage, Sends, SavedLabels
<1>2. ConversationTypeOK'
  <2>1. /\ admitted' = [u \in TelegramId |->
                          admitted[u] \cup {m \in NewlyReceived : Sender[m] = u}]
        /\ prompted' = [u \in TelegramId |->
                          IF \E m \in NewlyReceived : Sender[m] = u THEN "none" ELSE prompted[u]]
        /\ unforwarded' = unforwarded \cup {task[t].ref : t \in
                 {t \in Task : At(t, "forward") /\ At(t, "thank")' /\ faults' # faults
                                   /\ task[t].pending \notin buttons'}}
        /\ thanked' \in {thanked, thanked \cup NewlyThanked}
        /\ clearing' \in {clearing, clearing \cup NewlyThanked}
        /\ disturbed' \subseteq disturbed \cup TelegramId
    BY DEF BotStep
  <2>2. NewlyThanked \subseteq Message
    BY <1>1 DEF NewlyThanked, At
  <2>3. NewlyReceived \subseteq Message
    BY <1>1, GrantInvStep DEF NewlyReceived, GrantInv, TypeOK, ManualTypeOK, Next
  <2>4. unforwarded' \subseteq Message
    BY <1>1, <2>1 DEF At, ConversationTypeOK
  <2>5. prompted' \in [TelegramId -> Prompt] /\ admitted' \in [TelegramId -> SUBSET Message]
    BY <1>1, <2>1, <2>3 DEF ConversationTypeOK, Prompt
  <2> QED
    BY <1>1, <2>1, <2>2, <2>4, <2>5 DEF ConversationTypeOK
<1>3. ASSUME NEW t \in Task PROVE OwnMessage(t)'
  <2>1. CASE UNCHANGED task
    BY <2>1 DEF PromptInv, OwnMessage, Sends
  <2>2. ASSUME NEW o \in Task, NEW m \in Message, Receives(o, m) PROVE OwnMessage(t)'
    <3>1. CASE t = o
      BY <2>2, <3>1 DEF Receives, Starting, OwnMessage
    <3>2. CASE t # o
      BY <2>2, <3>2 DEF Receives, OthersStay, PromptInv, OwnMessage, Sends
    <3> QED
      BY <3>1, <3>2
  <2>3. ASSUME NEW o \in Task, OthersStay(o), Moves(o) PROVE OwnMessage(t)'
    <3>1. CASE t = o
      BY <2>3, <3>1 DEF Moves, PromptInv, OwnMessage, Sends, SavingLabels, SavedLabels
    <3>2. CASE t # o
      BY <2>3, <3>2 DEF OthersStay, PromptInv, OwnMessage, Sends
    <3> QED
      BY <3>1, <3>2
  <2> QED
    BY <1>1, <2>1, <2>2, <2>3, HandlerMoves
<1> QED
  BY <1>2, <1>3, BotStepUser DEF PromptInv

\* Every step of the conversations is one of the bot: a question registers its
\* sender, or a call of its handler fails, or nothing the bot keeps changes.
LEMMA ConversationStepIsNext ==
    ASSUME [ConversationNext]_allVars
    PROVE  [Next]_vars
<1>1. ASSUME NEW q \in Question, CheckLimit(q) PROVE Next
  <2>1. Asker[q] \in TelegramId
    BY ConversationAssumption
  <2>2. RegisterUser(Asker[q]) /\ UNCHANGED <<stripeVars, warningsVars, kick>>
    BY <1>1 DEF CheckLimit
  <2>3. WorldNext
    BY <2>1, <2>2 DEF WorldNext
  <2> QED
    BY <2>3 DEF Next, RunningNext
<1>2. ASSUME NEW q \in Question,
             ForwardQuestion(q) \/ AnswerQuestion(q) \/ QuestionFails(q), faults' # faults
      PROVE  Next
  <2>1. OtherHandlerFails /\ UNCHANGED <<stripeVars, warningsVars, kick>>
    BY <1>2 DEF ForwardQuestion, AnswerQuestion, QuestionFails, OtherHandlerFails
  <2>2. FailureNext
    BY <2>1 DEF FailureNext
  <2> QED
    BY <2>2 DEF Next, RunningNext
<1>3. ASSUME NEW q \in Question,
             ForwardQuestion(q) \/ AnswerQuestion(q) \/ QuestionFails(q), faults' = faults
      PROVE  UNCHANGED vars
  BY <1>3 DEF ForwardQuestion, AnswerQuestion, QuestionFails, vars, environmentVars
<1>4. ASSUME NEW q \in Question, ReceiveQuestion(q) \/ RecordQuestion(q) PROVE UNCHANGED vars
  BY <1>4 DEF ReceiveQuestion, RecordQuestion
<1>5. CASE (\E u \in TelegramId : RequestScreenshot(u) \/ AskQuestion(u) \/ BackToMainMenu(u))
           \/ (\E message \in clearing : ClearState(message)) \/ UNCHANGED allVars
  BY <1>5 DEF RequestScreenshot, AskQuestion, BackToMainMenu, SetState, Prompted, ClearState,
      allVars
<1>6. CASE BotStep \/ BotCrash
  BY <1>6 DEF BotStep, BotCrash, Next
<1> QED
  BY <1>1, <1>2, <1>3, <1>4, <1>5, <1>6 DEF ConversationNext, QuestionStep

\* The bot with its conversations implements the bot: prompts, states and
\* questions (app/handlers.py) decide when a screenshot is admitted, and change
\* nothing else of payments, subscriptions, the channel and the jobs.  Whatever
\* holds of every behavior of Spec holds here.
THEOREM ConversationsImplementSpec == ConversationSpec => Spec
<1>1. ConversationInit => Init
  BY DEF ConversationInit
<1>2. [ConversationNext]_allVars => [Next]_vars
  BY ConversationStepIsNext
<1> QED
  BY <1>1, <1>2, PTL DEF ConversationSpec, Spec

\* What is proved of the bot without conversations holds of it with them.
THEOREM BotInvsHold == ConversationSpec => [](GrantInv /\ PayerInv)
  BY ConversationsImplementSpec, GrantInvHolds, PayerInvHolds, PTL

LEMMA PromptInit == ConversationInit => PromptInv
<1> SUFFICES ASSUME ConversationInit PROVE PromptInv
  OBVIOUS
<1>1. \A t \in Task : task[t].pc = "idle"
  BY DEF ConversationInit, Init, ServiceInit, IdleTask, Starting
<1>2. ConversationTypeOK
  BY DEF ConversationInit, ConversationTypeOK, Prompt
<1> QED
  BY <1>1, <1>2 DEF ConversationInit, PromptInv, OwnMessage, Undisturbed, Sends, SavingLabels,
      SavedLabels

LEMMA PromptStep == GrantInv /\ PromptInv /\ [ConversationNext]_allVars => PromptInv'
<1> SUFFICES ASSUME GrantInv, PromptInv, [ConversationNext]_allVars PROVE PromptInv'
  OBVIOUS
<1>1. now \in Nat
  BY DEF GrantInv, TypeOK, EnvironmentTypeOK
<1>2. ASSUME NEW u \in TelegramId, RequestScreenshot(u) \/ AskQuestion(u) \/ BackToMainMenu(u)
      PROVE  PromptInv'
  BY <1>2, SetStatePrompts DEF RequestScreenshot, AskQuestion, BackToMainMenu, Prompt
<1>3. CASE UNCHANGED allVars
  <2>1. UNCHANGED <<task, state, asking, clearing, lastQuestion, prompted, admitted, thanked,
                    unforwarded, lastForward, unlogged, disturbed>>
    BY <1>3 DEF allVars, conversationVars, vars, serviceVars
  <2>2. ConversationTypeOK' /\ \A t \in Task : OwnMessage(t)'
    BY <2>1 DEF PromptInv, ConversationTypeOK, OwnMessage, Sends
  <2>3. \A u \in TelegramId : u \notin disturbed => Undisturbed(u)'
    BY <2>1 DEF PromptInv, Undisturbed, Handling, SenderOf
  <2> QED
    BY <2>1, <2>2, <2>3 DEF PromptInv
<1> QED
  BY <1>1, <1>2, <1>3, QuestionPrompts, ClearStatePrompts, BotStepPrompts, BotCrashPrompts
     DEF ConversationNext

\* PromptInv is an invariant: a user whose messages never overlapped is either
\* waited for or being handled, and has sent one screenshot per prompt.
THEOREM PromptInvHolds == ConversationSpec => []PromptInv
  BY PromptInit, PromptStep, BotInvsHold, PTL DEF ConversationSpec

\* Every variable of the conversations keeps its type.
THEOREM ConversationTypesHold == ConversationSpec => []ConversationTypeOK
<1>1. PromptInv => ConversationTypeOK
  BY DEF PromptInv
<1> QED
  BY <1>1, PromptInvHolds, PTL

\* What a user was last asked for is what the bot expects (the FSM states of
\* app/handlers.py), unless an earlier message was still in hand, or a
\* handler or the process died.
THEOREM PromptsHold == ConversationSpec => []PromptHolds
<1>1. PromptInv => PromptHolds
  BY DEF PromptInv, Undisturbed, PromptHolds
<1> QED
  BY <1>1, PromptInvHolds, PTL

\* One prompt yields one payment, except for an album or after a failure.
THEOREM OnePaymentEach == ConversationSpec => []OnePaymentPerPrompt
<1>1. PromptInv => OnePaymentPerPrompt
  BY DEF PromptInv, Undisturbed, OnePaymentPerPrompt
<1> QED
  BY <1>1, PromptInvHolds, PTL

-----------------------------------------------------------------------------
(* Thanked payers.                                                         *)

\* The payment of m is on record, and granted or within the admin's reach.
Confirmable(m) ==
    /\ payments[m] # None
    /\ grants[m] = 1 \/ payments[m] \in buttons \/ m \in unforwarded

\* The payment is on record, on its placeholder until it is granted.
Saved(t) ==
    /\ payments[task[t].ref] # None
    /\ grants[task[t].ref] = 1 \/ payments[task[t].ref] = task[t].pending

\* Inductive with PromptInv: what is so of a screenshot about to be forwarded
\* or thanked for.
ThankInv ==
    /\ \A t \in Task : task[t].pc = "forward" => Saved(t)
    /\ \A t \in Task : task[t].pc = "thank" => Confirmable(task[t].ref)
    /\ ThankedCanBeConfirmed

\* A recorded payment stays on record, and moves only when it is granted.
LEMMA PaymentStays ==
    ASSUME GrantInv, PayerInv, [Next]_vars, NEW m \in Message, payments[m] # None
    PROVE  /\ payments'[m] # None
           /\ payments'[m] = payments[m] \/ grants'[m] = 1
           /\ grants[m] = 1 => grants'[m] = 1
<1>1. m \in Ref /\ payments \in [Ref -> SubId \cup {None}] /\ grants \in [Ref -> Nat]
  BY DEF GrantInv, TypeOK, DatabaseTypeOK, ServiceTypeOK, Ref
<1>2. CASE Quiet
  BY <1>2 DEF Quiet
<1>3. ASSUME NEW n \in Message, NEW r \in SubId, Files(n, r)
      PROVE  payments'[m] = payments[m] /\ grants'[m] = grants[m]
  BY <1>1, <1>3 DEF Files
<1>4. ASSUME NEW p \in Ref, NEW r \in SubId, Buys(p, r)
      PROVE  /\ payments'[m] # None
             /\ payments'[m] = payments[m] \/ grants'[m] = 1
             /\ grants[m] = 1 => grants'[m] = 1
  <2>1. CASE p = m
    BY <1>1, <1>4, <2>1, DatabaseAssumption DEF Buys
  <2>2. CASE p # m
    BY <1>1, <1>4, <2>2 DEF Buys
  <2> QED
    BY <2>1, <2>2
<1> QED
  BY <1>2, <1>3, <1>4, StepEffects

\* So does a payment someone can confirm.
LEMMA ConfirmableStays ==
    ASSUME GrantInv, PayerInv, [Next]_vars, NEW m \in Message, Confirmable(m),
           buttons \subseteq buttons', unforwarded \subseteq unforwarded'
    PROVE  Confirmable(m)'
BY PaymentStays DEF Confirmable

\* A handler between the payment's commit and its thanks, after a step of the
\* bot: it saved the payment, it forwarded the screenshot, or it waited.
LEMMA BetweenSaveAndThanks ==
    ASSUME GrantInv, PromptInv, RunningNext, NEW t \in Task,
           task'[t].pc \in {"forward", "thank"}
    PROVE  \/ task'[t] = task[t]
           \/ /\ task[t].ref \in Message /\ task'[t].ref = task[t].ref
              /\ SavePayment(t) \/ ForwardScreenshot(t)
<1>1. CASE UNCHANGED task
  BY <1>1
<1>2. ASSUME NEW o \in Task, NEW m \in Message, Receives(o, m)
      PROVE  task'[t] = task[t]
  BY <1>2 DEF Receives, Starting, OthersStay
<1>3. ASSUME NEW o \in Task, OthersStay(o), Moves(o), o = t
      PROVE  /\ task[t].ref \in Message /\ task'[t].ref = task[t].ref
             /\ SavePayment(t) \/ ForwardScreenshot(t)
  BY <1>3 DEF Moves, Sends, SavingLabels, SavedLabels, PromptInv, OwnMessage
<1>4. ASSUME NEW o \in Task, OthersStay(o), o # t
      PROVE  task'[t] = task[t]
  BY <1>4 DEF OthersStay
<1> QED
  BY <1>1, <1>2, <1>3, <1>4, HandlerMoves

LEMMA BotStepThanks ==
    ASSUME GrantInv, PayerInv, PromptInv, ThankInv, BotStep
    PROVE  ThankInv'
<1>1. /\ RunningNext /\ [Next]_vars /\ TaskTyped
      /\ payments \in [Ref -> SubId \cup {None}] /\ Message \subseteq Ref
  BY DEF BotStep, Next, GrantInv, TypeOK, ServiceTypeOK, DatabaseTypeOK, TaskTyped, Ref
<1>2. /\ buttons \subseteq buttons' /\ unforwarded \subseteq unforwarded'
      /\ thanked' \subseteq thanked \cup NewlyThanked
      /\ \A t \in Task : /\ task[t].pc = "forward" /\ task'[t].pc = "thank" /\ faults' # faults
                         => task[t].pending \in buttons' \/ task[t].ref \in unforwarded'
  BY <1>1, HandlerMoves DEF BotStep, At
<1>3. \A t \in Task : Sends(t) => task[t].ref \in Message
  BY DEF PromptInv, OwnMessage
<1>4. ASSUME NEW t \in Task, task'[t].pc = "forward" PROVE Saved(t)'
  <2>1. CASE task'[t] = task[t]
    <3>1. Saved(t) /\ task[t].ref \in Message
      BY <1>3, <1>4, <2>1 DEF ThankInv, Sends, SavedLabels
    <3> QED
      BY <1>1, <2>1, <3>1, PaymentStays DEF Saved
  <2>2. CASE SavePayment(t)
    <3>1. task[t].ref \in Message /\ task[t].pending \in SubId
      BY <1>3, <2>2 DEF SavePayment, At, Sends, SavingLabels, GrantInv, HandlerOK, LocalsOK
    <3>2. task'[t].pending = task[t].pending /\ task'[t].ref = task[t].ref
      BY <1>1, <2>2, GotoTask DEF SavePayment, Label
    <3>3. payments'[task[t].ref] = task[t].pending
      BY <1>1, <2>2, <3>1 DEF SavePayment
    <3> QED
      BY <3>1, <3>2, <3>3, DatabaseAssumption DEF Saved
  <2>3. CASE ForwardScreenshot(t)
    BY <1>1, <1>4, <2>3, GotoTask DEF ForwardScreenshot, Label
  <2> QED
    BY <1>1, <1>4, <2>1, <2>2, <2>3, BetweenSaveAndThanks
<1>5. ASSUME NEW t \in Task, task'[t].pc = "thank" PROVE Confirmable(task[t].ref)'
                                                        /\ task'[t].ref = task[t].ref
  <2>1. CASE task'[t] = task[t]
    <3>1. Confirmable(task[t].ref) /\ task[t].ref \in Message
      BY <1>3, <1>5, <2>1 DEF ThankInv, Sends, SavedLabels
    <3> QED
      BY <1>1, <1>2, <2>1, <3>1, ConfirmableStays
  <2>2. CASE ForwardScreenshot(t)
    <3>1. Saved(t) /\ task[t].pc = "forward" /\ UNCHANGED <<payments, grants>>
      BY <2>2 DEF ForwardScreenshot, At, ThankInv, databaseVars
    <3>2. task[t].pending \in buttons' \/ task[t].ref \in unforwarded'
      <4>1. faults \in Nat
        BY DEF GrantInv, TypeOK, EnvironmentTypeOK
      <4>2. task[t].pending \in buttons' \/ faults' # faults
        BY <2>2, <4>1 DEF ForwardScreenshot, FaultOccurs
      <4> QED
        BY <1>2, <1>5, <3>1, <4>2
    <3>3. task'[t].ref = task[t].ref
      BY <1>1, <2>2, GotoTask DEF ForwardScreenshot, Label
    <3> QED
      BY <3>1, <3>2, <3>3 DEF Saved, Confirmable
  <2>3. CASE SavePayment(t)
    BY <1>1, <1>5, <2>3, GotoTask DEF SavePayment, Label
  <2> QED
    BY <1>1, <1>5, <2>1, <2>2, <2>3, BetweenSaveAndThanks
<1>6. ASSUME NEW m \in thanked' PROVE Confirmable(m)'
  <2>1. m \in Message /\ Confirmable(m)
    <3>1. CASE m \in thanked
      BY <3>1 DEF ThankInv, ThankedCanBeConfirmed, Confirmable, PromptInv, ConversationTypeOK
    <3>2. CASE m \in NewlyThanked
      BY <1>3, <3>2 DEF NewlyThanked, At, ThankInv, Sends, SavedLabels
    <3> QED
      BY <1>2, <3>1, <3>2
  <2> QED
    BY <1>1, <1>2, <2>1, ConfirmableStays
<1> QED
  BY <1>4, <1>5, <1>6 DEF ThankInv, ThankedCanBeConfirmed, Confirmable

LEMMA ThankStep ==
    GrantInv /\ PayerInv /\ PromptInv /\ ThankInv /\ [ConversationNext]_allVars => ThankInv'
<1> SUFFICES ASSUME GrantInv, PayerInv, PromptInv, ThankInv, [ConversationNext]_allVars
             PROVE  ThankInv'
  OBVIOUS
<1>1. CASE BotStep
  BY <1>1, BotStepThanks
<1>2. CASE BotCrash
  BY <1>2 DEF BotCrash, Crash, IdleTask, Starting, ThankInv, ThankedCanBeConfirmed, databaseVars,
      manualVars
<1>3. CASE UNCHANGED <<task, payments, grants, buttons, unforwarded, thanked>>
  BY <1>3 DEF ThankInv, Saved, Confirmable, ThankedCanBeConfirmed
<1>4. CASE ~BotStep /\ ~BotCrash
  <2>1. UNCHANGED <<task, payments, grants, buttons, unforwarded, thanked>>
    BY <1>4 DEF ConversationNext, RequestScreenshot, AskQuestion, BackToMainMenu, SetState,
        Prompted, QuestionStep, ReceiveQuestion, CheckLimit, RegisterUser, ForwardQuestion,
        RecordQuestion, AnswerQuestion, QuestionFails, ClearState, allVars, conversationVars,
        vars, databaseVars, serviceVars, manualVars
  <2> QED
    BY <1>3, <2>1
<1> QED
  BY <1>1, <1>2, <1>4

\* A payer who was thanked is not forgotten (receive_screenshot): whatever
\* fails or is pressed later, the payment is granted or can be, unless the
\* admin never got the screenshot.
THEOREM ThankedAreConfirmable == ConversationSpec => []ThankedCanBeConfirmed
<1>1. ConversationInit => ThankInv
  BY DEF ConversationInit, Init, ServiceInit, IdleTask, Starting, ThankInv, ThankedCanBeConfirmed
<1>2. ThankInv => ThankedCanBeConfirmed
  BY DEF ThankInv
<1> QED
  BY <1>1, <1>2, ThankStep, BotInvsHold, PromptInvHolds, PTL DEF ConversationSpec

=============================================================================

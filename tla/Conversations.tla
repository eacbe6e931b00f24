---------------------------- MODULE Conversations ----------------------------
(***************************************************************************)
(* The conversations of app/handlers.py beside the whole system: the       *)
(* screenshot and question prompts, the question flow with its rate limit, *)
(* and the state that decides which handler gets a message.  aiogram runs  *)
(* every update as a task of its own and looks the state up when it        *)
(* dispatches, so messages of one user overlap; MemoryStorage forgets all  *)
(* states when the process dies (main.py).                                 *)
(***************************************************************************)
EXTENDS SubscriptionSystem

CONSTANTS
    Question,   \* messages sent in answer to the question prompt; bound
    Asker,      \* who sends each
    Cooldown    \* QUESTION_COOLDOWN, in the clock's unit

ASSUME ConversationAssumption ==
    /\ Question \cap Message = {}
    /\ Asker \in [Question -> TelegramId]
    /\ Cooldown \in Nat

VARIABLES
    state,          \* each user's state in the FSM storage
    asking,         \* where the handler of each question is
    clearing,       \* messages whose handler still has to clear the state
    lastQuestion,   \* users.last_question_at
    prompted,       \* history: what each user was asked for and has not sent yet
    admitted,       \* history: screenshots each user sent since the last prompt for one
    thanked,        \* history: screenshots whose sender was thanked
    unforwarded,    \* history: screenshots the admin did not get
    lastForward,    \* history: when the admin last got a question of each user
    unlogged,       \* history: users whose last question's record was cut short
    disturbed       \* history: users who, since their last fresh prompt, had two
                    \* messages handled at once or a handler cut short

conversationVars == <<state, asking, clearing, lastQuestion, prompted, admitted, thanked,
                      unforwarded, lastForward, unlogged, disturbed>>

allVars == <<vars, conversationVars>>

Prompt == {"none", "screenshot", "question"}

InProgress == {"limit", "refuse", "forward", "record", "answer"}

\* The type of every variable of the conversations.
ConversationTypeOK ==
    /\ state \in [TelegramId -> Prompt] /\ prompted \in [TelegramId -> Prompt]
    /\ asking \in [Question -> InProgress \cup {"unsent", "done"}]
    /\ clearing \subseteq Message \cup Question
    /\ lastQuestion \in [TelegramId -> Nat \cup {None}]
    /\ lastForward \in [TelegramId -> Nat \cup {None}]
    /\ admitted \in [TelegramId -> SUBSET Message]
    /\ thanked \subseteq Message /\ unforwarded \subseteq Message
    /\ disturbed \subseteq TelegramId /\ unlogged \subseteq TelegramId

ConversationInit ==
    /\ Init
    /\ state = [u \in TelegramId |-> "none"] /\ prompted = state
    /\ asking = [q \in Question |-> "unsent"]
    /\ clearing = {} /\ thanked = {} /\ unforwarded = {} /\ disturbed = {} /\ unlogged = {}
    /\ lastQuestion = [u \in TelegramId |-> None] /\ lastForward = lastQuestion
    /\ admitted = [u \in TelegramId |-> {}]

SenderOf(message) == IF message \in Question THEN Asker[message] ELSE Sender[message]

\* Some message of u is being handled.
Handling(u) ==
    \/ \E t \in Task : task[t].pc \in {"save_user", "save_placeholder", "save_payment",
                                       "forward", "thank"} /\ task[t].user = u
    \/ \E q \in Question : Asker[q] = u /\ asking[q] \in InProgress
    \/ \E message \in clearing : SenderOf(message) = u

Overlap(u) == disturbed' = disturbed \cup (IF Handling(u) THEN {u} ELSE {})

-----------------------------------------------------------------------------
(* Prompts                                                                 *)

\* A prompt given while nothing of the user is being handled is a fresh start.
Prompted(u, prompt) ==
    /\ prompted' = [prompted EXCEPT ![u] = prompt]
    /\ admitted' = [admitted EXCEPT ![u] = {}]
    /\ disturbed' = IF Handling(u) THEN disturbed \cup {u} ELSE disturbed \ {u}
    /\ UNCHANGED <<vars, asking, clearing, lastQuestion, thanked, unforwarded, lastForward,
                   unlogged>>

\* Mutant: a prompt is ignored while another is open.
KeepOpenPrompt(u, prompt) ==
    /\ state' = [state EXCEPT ![u] = IF @ = "none" THEN prompt ELSE @]
    /\ Prompted(u, prompt)

SetState(u, prompt) ==
    /\ state' = [state EXCEPT ![u] = prompt]
    /\ Prompted(u, prompt)

RequestScreenshot(u) == SetState(u, "screenshot")

AskQuestion(u) == SetState(u, "question")

BackToMainMenu(u) == SetState(u, "none")

-----------------------------------------------------------------------------
(* Questions                                                               *)

QuestionMoves(q, label) == asking' = [asking EXCEPT ![q] = label]

\* The dispatcher finds the state set and starts the handler.
ReceiveQuestion(q) ==
    /\ asking[q] = "unsent"
    /\ state[Asker[q]] = "question"
    /\ QuestionMoves(q, "limit")
    /\ prompted' = [prompted EXCEPT ![Asker[q]] = "none"]
    /\ Overlap(Asker[q])
    /\ UNCHANGED <<vars, state, clearing, lastQuestion, admitted, thanked, unforwarded,
                   lastForward, unlogged>>

\* Mutant: a started unit counts as over (floor instead of ceil).
MinutesRoundedDown(last) ==
    IF last = None \/ now - last >= Cooldown - 1 THEN 0 ELSE Cooldown - (now - last)

MinutesUntilAllowed(last) ==
    IF last = None \/ now - last >= Cooldown THEN 0 ELSE Cooldown - (now - last)

\* get_or_create and the rate limit on the row it returns.
CheckLimit(q) ==
    /\ asking[q] = "limit"
    /\ RegisterUser(Asker[q])
    /\ QuestionMoves(q, IF MinutesUntilAllowed(lastQuestion[Asker[q]]) > 0
                        THEN "refuse" ELSE "forward")
    /\ UNCHANGED <<stripeVars, warningsVars, kick, state, clearing, lastQuestion, prompted,
                   admitted, thanked, unforwarded, lastForward,
                   unlogged, disturbed>>

\* A message the admin does not get, or is said not to get, is only logged.
ForwardQuestion(q) ==
    /\ asking[q] = "forward"
    /\ QuestionMoves(q, "record")
    /\ \/ /\ lastForward' = [lastForward EXCEPT ![Asker[q]] = now]
          /\ UNCHANGED faults \/ FaultOccurs("telegram")
       \/ FaultOccurs("telegram") /\ UNCHANGED lastForward
    /\ UNCHANGED <<now, databaseVars, serviceVars, channelVars, stripeVars, manualVars,
                   warningsVars, kick, state, clearing, lastQuestion, prompted, admitted,
                   thanked, unforwarded, unlogged, disturbed>>

\* Mutant: the cooldown is subtracted when the question is recorded.
RecordQuestionEarlier(q) ==
    /\ asking[q] = "record"
    /\ QuestionMoves(q, "answer")
    /\ lastQuestion' = [lastQuestion EXCEPT ![Asker[q]] = now - Cooldown]
    /\ unlogged' = unlogged \ {Asker[q]}
    /\ UNCHANGED <<vars, state, clearing, prompted, admitted, thanked, unforwarded, lastForward,
                   disturbed>>

\* set_last_question_at(utcnow())
RecordQuestion(q) ==
    /\ asking[q] = "record"
    /\ QuestionMoves(q, "answer")
    /\ lastQuestion' = [lastQuestion EXCEPT ![Asker[q]] = now]
    /\ unlogged' = unlogged \ {Asker[q]}
    /\ UNCHANGED <<vars, state, clearing, prompted, admitted, thanked, unforwarded, lastForward,
                   disturbed>>

\* The reply, a thank you or the minutes left; the state is cleared once it
\* is out, and not at all if it cannot be sent.
AnswerQuestion(q) ==
    /\ asking[q] \in {"refuse", "answer"}
    /\ QuestionMoves(q, "done")
    /\ \/ /\ clearing' = clearing \cup {q}
          /\ UNCHANGED <<faults, disturbed>>
       \/ /\ FaultOccurs("telegram")
          /\ disturbed' = disturbed \cup {Asker[q]}
          /\ UNCHANGED clearing
    /\ UNCHANGED <<now, databaseVars, serviceVars, channelVars, stripeVars, manualVars,
                   warningsVars, kick, state, lastQuestion, prompted, admitted, thanked,
                   unforwarded, lastForward, unlogged>>

\* A statement fails, or the answer to the COMMIT before is lost: either ends
\* the handler, and with it the question.
QuestionFails(q) ==
    /\ asking[q] \in InProgress
    /\ FaultOccurs("database")
    /\ QuestionMoves(q, "done")
    /\ disturbed' = disturbed \cup {Asker[q]}
    /\ unlogged' = unlogged \cup {u \in {Asker[q]} : asking[q] = "record"}
    /\ UNCHANGED <<now, databaseVars, serviceVars, channelVars, stripeVars, manualVars,
                   warningsVars, kick, state, clearing, lastQuestion, prompted, admitted,
                   thanked, unforwarded, lastForward>>

QuestionStep(q) ==
    \/ ReceiveQuestion(q) \/ CheckLimit(q) \/ ForwardQuestion(q) \/ RecordQuestion(q)
    \/ AnswerQuestion(q) \/ QuestionFails(q)

\* Mutant: the reply to a screenshot leaves the state as it is.
ForgetToClear(message) ==
    /\ message \in clearing
    /\ clearing' = clearing \ {message}
    /\ state' = [state EXCEPT ![SenderOf(message)] = IF message \in Question THEN "none" ELSE @]
    /\ UNCHANGED <<vars, asking, lastQuestion, prompted, admitted, thanked, unforwarded,
                   lastForward, unlogged, disturbed>>

\* state.clear(), the last line of both handlers.
ClearState(message) ==
    /\ message \in clearing
    /\ clearing' = clearing \ {message}
    /\ state' = [state EXCEPT ![SenderOf(message)] = "none"]
    /\ UNCHANGED <<vars, asking, lastQuestion, prompted, admitted, thanked, unforwarded,
                   lastForward, unlogged, disturbed>>

-----------------------------------------------------------------------------
(* The rest of the bot, and what its steps mean for the conversations      *)

\* Screenshots a step admits, and those whose sender it thanks.
NewlyReceived == received' \ received

NewlyThanked == {task[t].ref : t \in {t \in Task : At(t, "thank") /\ task'[t].pc = "idle"}}

\* Screenshots are admitted by the sender's state (the router's filter).  A
\* thank you said to have failed may have arrived; the state is not cleared.
BotStep ==
    /\ RunningNext
    /\ users' # users => task' # task   \* questions register users in CheckLimit
    /\ \A m \in NewlyReceived : state[Sender[m]] = "screenshot"
    /\ admitted' = [u \in TelegramId |->
                        admitted[u] \cup {m \in NewlyReceived : Sender[m] = u}]
    /\ prompted' = [u \in TelegramId |->
                        IF \E m \in NewlyReceived : Sender[m] = u THEN "none" ELSE prompted[u]]
    /\ unforwarded' = unforwarded \cup
           {task[t].ref : t \in {t \in Task : At(t, "forward") /\ At(t, "thank")'
                                                 /\ faults' # faults
                                                 /\ task[t].pending \notin buttons'}}
    /\ IF faults' = faults
       THEN /\ thanked' = thanked \cup NewlyThanked
            /\ clearing' = clearing \cup NewlyThanked
            /\ disturbed' = disturbed \cup
                   {u \in TelegramId : Handling(u) /\ \E m \in NewlyReceived : Sender[m] = u}
       ELSE /\ disturbed' = disturbed \cup
                   {u \in TelegramId : \E t \in Task :
                        task[t].user = u /\ task[t].ref \in Message /\ At(t, "idle")'}
            /\ thanked' \in {thanked, thanked \cup NewlyThanked}
            /\ UNCHANGED clearing
    /\ UNCHANGED <<state, asking, lastQuestion, lastForward, unlogged>>

\* The process dies, and the conversations with it.
BotCrash ==
    /\ Crash
    /\ state' = [u \in TelegramId |-> "none"]
    /\ asking' = [q \in Question |-> IF asking[q] \in InProgress THEN "done" ELSE asking[q]]
    /\ clearing' = {}
    /\ disturbed' = disturbed \cup {u \in TelegramId : Handling(u) \/ prompted[u] # "none"}
    /\ unlogged' = unlogged \cup {Asker[q] : q \in {q \in Question : asking[q] = "record"}}
    /\ UNCHANGED <<lastQuestion, lastForward, prompted, admitted, thanked, unforwarded>>

ConversationNext ==
    \/ \E u \in TelegramId : RequestScreenshot(u) \/ AskQuestion(u) \/ BackToMainMenu(u)
    \/ \E q \in Question : QuestionStep(q)
    \/ \E message \in clearing : ClearState(message)
    \/ BotStep
    \/ BotCrash

ConversationSpec == ConversationInit /\ [][ConversationNext]_allVars

-----------------------------------------------------------------------------

\* The admin does not get two questions of a user within the cooldown, also
\* not across a crash or a fault: the limit is read before the message is
\* forwarded, and written after.  There are two ways around it: two messages
\* handled at once since the last fresh prompt (or one cut short), and a last
\* question whose record was cut short.
QuestionsAreSpaced ==
    [][\A q \in Question :
         /\ asking[q] = "forward" /\ asking'[q] = "record"
         /\ Asker[q] \notin disturbed \cup unlogged
         /\ lastForward[Asker[q]] # None
         => now - lastForward[Asker[q]] >= Cooldown]_allVars

\* What a user was last asked for is what the bot expects of them, as long
\* as no handler of an earlier message is left to clear the state.
PromptHolds ==
    \A u \in TelegramId :
        prompted[u] # "none" /\ u \notin disturbed => state[u] = prompted[u]

\* One prompt yields one payment: an album is the only way to send two
\* screenshots for it, unless the first one's handler failed.
OnePaymentPerPrompt ==
    \A u \in TelegramId : u \notin disturbed =>
        \A m1, m2 \in admitted[u] :
            payments[m1] # None /\ payments[m2] # None => m1 = m2

\* A payer who was thanked is not forgotten: the payment is on record, and
\* granted or the admin has its button, unless the forward to the admin failed.
ThankedCanBeConfirmed ==
    \A m \in thanked :
        /\ payments[m] # None
        /\ grants[m] = 1 \/ payments[m] \in buttons \/ m \in unforwarded

=============================================================================

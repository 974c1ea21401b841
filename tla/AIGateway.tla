----------------------------- MODULE AIGateway ------------------------------
(***************************************************************************)
(* The questions of one user to the AI gateway (aiQuery): the settings are *)
(* read, the tokens of the day are compared with the daily limit, a model  *)
(* is called or a deterministic answer is given, and what happened is      *)
(* recorded with its tokens.  The questions of a user run in parallel.     *)
(***************************************************************************)
EXTENDS Integers, FiniteSets

CONSTANTS Question,        \* the slots of concurrent questions of the user
          DailyLimit,      \* the dailyTokenLimit of the settings
          PromptTokens,    \* the estimated tokens of a question
          ResponseTokens   \* the possible estimates of an answer

ASSUME AIAssumption ==
    /\ DailyLimit \in Nat \ {0} /\ PromptTokens \in Nat \ {0}
    /\ IsFiniteSet(ResponseTokens) /\ ResponseTokens \subseteq Nat /\ ResponseTokens # {}
    /\ IsFiniteSet(Question) /\ Question # {}

VARIABLES
    enabled,        \* the settings: the gateway is on, and a model is chosen
    allowExternal,  \* external providers may be called
    external,       \* the model selectAIModel picks is an external one
    interactions,   \* the tokens in the rows of ai_interactions of the day
    question        \* question[i]: where the question in slot i is

aiVars == <<enabled, allowExternal, external, interactions, question>>

settingVars == <<enabled, allowExternal, external>>

NoQuestion == [phase |-> "idle", model |-> "none", response |-> 0]

MostTokens == CHOOSE n \in ResponseTokens : \A m \in ResponseTokens : m <= n

\* As much as the questions in flight can add to a total that passed the check.
DailyBound == DailyLimit - PromptTokens
                  + Cardinality(Question) * (PromptTokens + MostTokens)

AITypeOK ==
    /\ {enabled, allowExternal, external} \subseteq BOOLEAN
    /\ interactions \in Nat
    /\ question \in [Question ->
           [phase : {"idle", "usage", "model", "call", "record"},
            model : {"none", "internal", "external", "refused"},
            response : ResponseTokens \cup {0}]]

AIInit ==
    /\ enabled = FALSE /\ allowExternal = FALSE /\ external = FALSE
    /\ interactions = 0
    /\ question = [i \in Question |-> NoQuestion]

-----------------------------------------------------------------------------

\* putAIAdmin; the order of the models decides which one is chosen.
ChangeGateway ==
    /\ enabled' \in BOOLEAN /\ allowExternal' \in BOOLEAN /\ external' \in BOOLEAN
    /\ UNCHANGED <<interactions, question>>

EndQuestion(i) == question' = [question EXCEPT ![i] = NoQuestion]

\* What the settings make of a question that may be asked.
Route == IF ~enabled THEN "none"
         ELSE IF ~external THEN "internal"
         ELSE IF allowExternal THEN "external" ELSE "refused"

\* loadAISettings.  A suspicious prompt is blocked before anything else: as if
\* it had not been asked.
Ask(i) ==
    /\ question[i].phase = "idle"
    /\ question' = [question EXCEPT ![i] =
           [phase |-> "usage", model |-> Route, response |-> 0]]
    /\ UNCHANGED <<settingVars, interactions>>

\* (mutant) the tokens of the question itself are left out of the sum
LimitReachedBefore == interactions > DailyLimit

LimitReached == interactions + PromptTokens > DailyLimit

\* 429 ai_daily_token_limit.
AskedTooMuch(i) ==
    /\ question[i].phase = "usage"
    /\ LimitReached
    /\ EndQuestion(i)
    /\ UNCHANGED <<settingVars, interactions>>

WithinLimit(i) ==
    /\ question[i].phase = "usage"
    /\ ~LimitReached
    /\ question' = [question EXCEPT ![i].phase = "model"]
    /\ UNCHANGED <<settingVars, interactions>>

\* 403 external_ai_disabled.
ExternalRefused(i) ==
    /\ question[i].phase = "model"
    /\ question[i].model = "refused"
    /\ EndQuestion(i)
    /\ UNCHANGED <<settingVars, interactions>>

Calls(i) ==
    /\ question[i].phase = "model"
    /\ question[i].model \in {"internal", "external"}
    /\ question' = [question EXCEPT ![i].phase = "call"]
    /\ UNCHANGED <<settingVars, interactions>>

\* Without a model the answer is made up from the evidence.
ModelAnswers(i) ==
    /\ \/ question[i].phase = "call"
       \/ question[i].phase = "model" /\ question[i].model = "none"
    /\ \E n \in ResponseTokens :
           question' = [question EXCEPT ![i].phase = "record", ![i].response = n]
    /\ UNCHANGED <<settingVars, interactions>>

\* The failure of a provider is recorded without an answer.
ProviderFails(i) ==
    /\ question[i].phase = "call"
    /\ question' = [question EXCEPT ![i].phase = "record"]
    /\ UNCHANGED <<settingVars, interactions>>

\* recordAI
Record(i) ==
    /\ question[i].phase = "record"
    /\ interactions' = interactions + PromptTokens + question[i].response
    /\ EndQuestion(i)
    /\ UNCHANGED settingVars

\* An error, a disconnect or the timeout; nothing is recorded.
QuestionFails(i) ==
    /\ question[i].phase # "idle"
    /\ EndQuestion(i)
    /\ UNCHANGED <<settingVars, interactions>>

Midnight ==
    /\ interactions > 0
    /\ interactions' = 0
    /\ UNCHANGED <<settingVars, question>>

AINext ==
    \/ \E i \in Question : \/ Ask(i) \/ AskedTooMuch(i) \/ WithinLimit(i)
                           \/ ExternalRefused(i) \/ Calls(i) \/ ModelAnswers(i)
                           \/ ProviderFails(i) \/ Record(i) \/ QuestionFails(i)
    \/ ChangeGateway
    \/ Midnight

AISpec == AIInit /\ [][AINext]_aiVars

-----------------------------------------------------------------------------

\* The limit is checked before a question and paid after it: the questions in
\* flight may exceed it together, by no more than they have tokens.
DailyTokensBounded == interactions <= DailyBound

=============================================================================

---------------------------- MODULE MCComponents ----------------------------
(* Small instances of six components that share no state.  Each behaviour  *)
(* moves one of them, chosen at the start, so that their state spaces add  *)
(* up instead of multiplying.                                              *)
EXTENDS ApiRateLimit, LoginThrottle, AIGateway, Settings, ApiKeys,
        Reading, TLC

VARIABLE part    \* the component that moves

vars == <<part, rateVars, throttleVars, aiVars, settingsVars, keyVars,
          readingVars>>

Init ==
    /\ part \in {"rate", "throttle", "ai", "settings", "keys", "reading"}
    /\ RateInit /\ ThrottleInit /\ AIInit /\ SettingsInit /\ KeysInit /\ ReadingInit
    /\ part # "reading" =>
           roles = {} /\ organization = None /\ row = CHOOSE r \in Row : TRUE

Next ==
    /\ UNCHANGED part
    /\ \/ /\ part = "rate" /\ RateNext
          /\ UNCHANGED <<throttleVars, aiVars, settingsVars, keyVars, readingVars>>
       \/ /\ part = "throttle" /\ ThrottleNext
          /\ UNCHANGED <<rateVars, aiVars, settingsVars, keyVars, readingVars>>
       \/ /\ part = "ai" /\ AINext
          /\ UNCHANGED <<rateVars, throttleVars, settingsVars, keyVars, readingVars>>
       \/ /\ part = "settings" /\ SettingsNext
          /\ UNCHANGED <<rateVars, throttleVars, aiVars, keyVars, readingVars>>
       \/ /\ part = "keys" /\ KeysNext
          /\ UNCHANGED <<rateVars, throttleVars, aiVars, settingsVars, readingVars>>
       \/ /\ part = "reading" /\ ReadingNext
          /\ UNCHANGED <<rateVars, throttleVars, aiVars, settingsVars, keyVars>>

Spec == Init /\ [][Next]_vars

\* Type correctness of the six components: the variables of the rate limit, the
\* throttle, the AI gateway, the settings, the keys and the readers stay what the
\* code can store, and a key that is named by another one or by a request exists.
TypeOK ==
    /\ RateTypeOK /\ ThrottleTypeOK /\ AITypeOK /\ SettingsTypeOK /\ KeysTypeOK
    /\ ReadingTypeOK

\* The scopes that tell the cases of Reading apart.
MCScope == {<<"plan", "own">>, <<"kpi", "*">>, <<"dashboard", "read">>,
            <<"ai", "query">>}

\* The slots of concurrent requests are alike; they are the same two values in all
\* components.
Symmetry == Permutations(Caller)
=============================================================================

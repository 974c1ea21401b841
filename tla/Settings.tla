------------------------------ MODULE Settings ------------------------------
(***************************************************************************)
(* The settings that carry secrets: the keys of the AI models              *)
(* (putAIAdmin) and the client secret of OIDC (putOIDCAdmin).              *)
(* Administrators get them masked and send the mask back for what they do  *)
(* not mean to change: a handler reads the stored setting, puts the secrets *)
(* where the mask is and writes the whole, three steps without a lock or a *)
(* version.                                                                *)
(*                                                                         *)
(* A setting maps its entries to their secrets: the models by name, or the *)
(* one entry of OIDC.  A missing row has no entries.                       *)
(***************************************************************************)
EXTENDS Functions, FiniteSets

CONSTANTS Save,      \* the slots of concurrent requests
          Entry,     \* the names of models; the client of OIDC
          Needed,    \* the entries that need a secret: OIDC once enabled
          Secret,
          Mask,      \* eight asterisks, or nothing
          NoSecret

ASSUME SettingsAssumption ==
    /\ Needed \subseteq Entry
    /\ Mask \notin Secret /\ NoSecret \notin Secret /\ Mask # NoSecret

VARIABLES
    stored,     \* the secrets in the row of system_settings
    save        \* save[q]: the request in slot q: what the administrator sent,
                \* what the handler read.  disturbed (a history variable): the
                \* read failed, or the row has changed since

settingsVars == <<stored, save>>

\* The forms and rows with some of the entries.
SettingOf(values) == UNION {[entries -> values] : entries \in SUBSET Entry}

Nothing == [e \in {} |-> NoSecret]

NoSave == [phase |-> "idle", form |-> Nothing, current |-> Nothing, disturbed |-> FALSE]

SettingsTypeOK ==
    /\ stored \in SettingOf(Secret \cup {NoSecret})
    /\ save \in [Save -> [phase : {"idle", "read", "write"},
                          form : SettingOf(Secret \cup {Mask}),
                          current : SettingOf(Secret \cup {NoSecret}),
                          disturbed : BOOLEAN]]
    /\ \A e \in Needed : e \in DOMAIN stored => stored[e] # NoSecret

SettingsInit ==
    /\ stored = Nothing
    /\ save = [q \in Save |-> NoSave]

SaveBegins(q, form) ==
    /\ save[q].phase = "idle"
    /\ save' = [save EXCEPT ![q] = [NoSave EXCEPT !.phase = "read", !.form = form]]
    /\ UNCHANGED stored

\* getSetting; an error is ignored and leaves nothing to merge.
SaveReads(q) ==
    /\ save[q].phase = "read"
    /\ \E failed \in BOOLEAN :
           save' = [save EXCEPT ![q].phase = "write", ![q].disturbed = failed,
                                ![q].current = IF failed THEN Nothing ELSE stored]
    /\ UNCHANGED stored

\* (mutant) only an empty field stands for the stored secret
MergedVerbatim(q) == [e \in DOMAIN save[q].form |->
    IF save[q].form[e] = Mask THEN NoSecret ELSE save[q].form[e]]

\* The mask stands for the stored secret of the entry of that name.
Merged(q) == [e \in DOMAIN save[q].form |->
    IF save[q].form[e] # Mask THEN save[q].form[e]
    ELSE IF e \in DOMAIN save[q].current THEN save[q].current[e] ELSE NoSecret]

SaveDone(q) ==
    save' = [o \in Save |-> IF o = q THEN NoSave
                            ELSE [save[o] EXCEPT !.disturbed = @ \/ save[o].phase = "write"]]

\* (mutant) an OIDC setting without a client secret is accepted
CompleteAlways(q) == TRUE

\* 400 incomplete_oidc_setting otherwise.
Complete(q) == \A e \in Needed \cap DOMAIN Merged(q) : Merged(q)[e] # NoSecret

SaveWrites(q) ==
    /\ save[q].phase = "write"
    /\ Complete(q)
    /\ stored' = Merged(q)
    /\ SaveDone(q)

\* Refused, cancelled or failed.
SaveFails(q) ==
    /\ save[q].phase # "idle"
    /\ save' = [save EXCEPT ![q] = NoSave]
    /\ UNCHANGED stored

\* deleteSetting
SettingDeleted ==
    /\ DOMAIN stored # {}
    /\ stored' = Nothing
    /\ save' = [o \in Save |-> [save[o] EXCEPT !.disturbed = @ \/ save[o].phase = "write"]]

SettingsNext ==
    \/ \E q \in Save : \/ \E form \in SettingOf(Secret \cup {Mask}) : SaveBegins(q, form)
                       \/ SaveReads(q) \/ SaveWrites(q) \/ SaveFails(q)
    \/ SettingDeleted

SettingsSpec == SettingsInit /\ [][SettingsNext]_settingsVars

-----------------------------------------------------------------------------

\* An entry that is saved with its mask keeps its secret, unless the stored
\* setting could not be read or was replaced by another administrator between
\* the read and the write.
SecretsSurvive ==
    [][\A q \in Save, e \in Entry :
          (/\ save[q].phase = "write" /\ ~save[q].disturbed
           /\ save'[q].phase = "idle" /\ stored' # stored /\ DOMAIN stored' # {}
           /\ e \in DOMAIN stored \cap DOMAIN save[q].form
           /\ save[q].form[e] = Mask)
              => stored'[e] = stored[e]]_settingsVars

=============================================================================

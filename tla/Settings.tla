------------------------------- MODULE Settings -------------------------------
(***************************************************************************)
(* What the user has configured, in memory and in two files, and what it   *)
(* means for the choice of a model: packages/tui/src/{config,auth,router,  *)
(* model-resolver,startup}.ts, the selection rules of models.ts, and the   *)
(* controller's operations on them.                                        *)
(*                                                                         *)
(* A target is a model of a provider in one of its variants.  config.json  *)
(* holds the choices, auth.json the keys.                                  *)
(***************************************************************************)
EXTENDS Naturals, FiniteSets

CONSTANTS
    Provider, Target, ProviderOf, ModelOf,
    DefaultOf,            \* the recommended variant of a target's model
    Capability, Cost,     \* a target's routing data: numbers, or Unknown
    Unknown, None, NewKey,
    First,                \* the target the catalog lists first, of each provider
    MaxEdits              \* bound: operations of the user, starts among them

ASSUME SettingsAssumption ==
    /\ ProviderOf \in [Target -> Provider]
    /\ DefaultOf \in [Target -> Target]
    /\ First \in [Provider -> Target]
    /\ \A t \in Target : Capability[t] \in Nat \cup {Unknown} /\ Cost[t] \in Nat \cup {Unknown}
    /\ MaxEdits \in Nat

VARIABLES
    config,     \* the controller's
    choices,    \* config.json, without the keys
    auth,       \* auth.json: a key, or None, per provider
    edit,       \* persistConfig under way: what it writes and how far it is, or None
    current,    \* the session's target, or None
    offered,    \* the targets the last request's prompt named
    basis,      \* for the properties: the configuration they were computed from
    edits

settingsVars == <<config, choices, auth, edit, current, offered, basis, edits>>

Nothing == [enabled |-> FALSE, noModels |-> {}, noTargets |-> {}, active |-> None]
Nobody  == [p \in Provider |-> None]
Config(c, keys) == [choice |-> c, keys |-> keys]

-----------------------------------------------------------------------------
(* The router.                                                             *)

IsConfigured(conf, p)   == conf.keys[p] # None
AvailableModels(conf)   == {t \in Target : IsConfigured(conf, ProviderOf[t])}
HasRoutingData(t)       == Capability[t] # Unknown /\ Cost[t] # Unknown

\* Mutant: a model that was switched off as a whole stays.
EnabledOfAllModels(conf) ==
    {t \in AvailableModels(conf) : t \notin conf.choice.noTargets /\ HasRoutingData(t)}

EnabledRouterTargets(conf) ==
    {t \in AvailableModels(conf) : /\ ModelOf[t] \notin conf.choice.noModels
                                   /\ t \notin conf.choice.noTargets
                                   /\ HasRoutingData(t)}

Dominates(s, t) ==
    /\ HasRoutingData(s) /\ HasRoutingData(t)
    /\ Capability[s] >= Capability[t] /\ Cost[s] <= Cost[t]
    /\ Capability[s] > Capability[t] \/ Cost[s] < Cost[t]

ParetoFrontier(targets)   == {t \in targets : ~\E s \in targets : Dominates(s, t)}
RouterPromptTargets(conf) == ParetoFrontier(EnabledRouterTargets(conf))

RouterStatus(conf) ==
    IF ~conf.choice.enabled THEN "off"
    ELSE IF Cardinality(RouterPromptTargets(conf)) >= 2 THEN "on" ELSE "needs-setup"

\* The resolver of SwitchModel, and the selection it ends in.
Selects(conf, t) == t \in Target /\ IsConfigured(conf, ProviderOf[t])
Resolve(conf, t) ==
    CASE t \notin Target                 -> "unknown-target"
      [] \/ ~conf.choice.enabled
         \/ ModelOf[t] \in conf.choice.noModels
         \/ t \in conf.choice.noTargets  -> "not-enabled"
      [] ~Selects(conf, t)               -> "unavailable"
      [] OTHER                           -> "ok"

-----------------------------------------------------------------------------
(* Start.                                                                  *)

\* The model a start settles on: the one asked for, the saved one, the first.
\* A headless run asks for the saved one if for none, and fails rather than
\* take another; None is its failure, or the placeholder.
StartModel(conf, flag, headless) ==
    LET saved  == conf.choice.active
        firsts == {First[p] : p \in {q \in Provider : IsConfigured(conf, q)}}
        asked  == IF flag # None THEN {DefaultOf[flag]}
                  ELSE IF saved # None /\ (headless \/ saved \in AvailableModels(conf)) THEN {saved}
                  ELSE IF headless THEN {} ELSE {DefaultOf[t] : t \in firsts}
    IN  IF {t \in asked : Selects(conf, t)} = {} THEN {None} ELSE {t \in asked : Selects(conf, t)}

\* loadStartup: auth.json and, where it knows nothing of one, what another
\* program or the environment knows.
LoadStartup(found) ==
    Config(choices, [p \in Provider |-> IF auth[p] # None THEN auth[p] ELSE found[p]])

\* An interactive start keeps what it settled on, in memory and, if that can be
\* written, in config.json.
Keep(conf, headless) ==
    LET kept == IF headless \/ current' = None THEN conf
                                              ELSE [conf EXCEPT !.choice.active = current']
    IN  config' = kept /\ choices' \in {choices, kept.choice}

SettingsInit(found) ==
    LET conf == Config(Nothing, found)
    IN  /\ choices = Nothing /\ auth = Nobody
        /\ current \in StartModel(conf, None, FALSE)
        /\ config = [conf EXCEPT !.choice.active = current]
        /\ edit = None
        /\ offered = {} /\ basis = config
        /\ edits = 0

\* The program starts again, in either form, with or without --model.
Restart(found, flag, headless) ==
    /\ edits < MaxEdits /\ edits' = edits + 1
    /\ current' \in StartModel(LoadStartup(found), flag, headless)
    /\ Keep(LoadStartup(found), headless)
    /\ edit' = None
    /\ offered' = {} /\ basis' = config'
    /\ UNCHANGED auth

-----------------------------------------------------------------------------
(* The user's operations; persistConfig writes both files, and only then   *)
(* is the new configuration the controller's.                              *)

Flip(set, x) == IF x \in set THEN set \ {x} ELSE set \cup {x}

PersistConfig(next) ==
    /\ edit = None /\ edits < MaxEdits
    /\ edit' = [next |-> next, at |-> "config"]
    /\ edits' = edits + 1
    /\ UNCHANGED <<config, choices, auth, offered, basis>>

SetRouterEnabled ==
    /\ PersistConfig([config EXCEPT !.choice.enabled = ~@])
    /\ UNCHANGED current

ToggleRouterModel(m) ==
    /\ PersistConfig([config EXCEPT !.choice.noModels = Flip(@, m)])
    /\ UNCHANGED current

ToggleRouterTarget(t) ==
    /\ PersistConfig([config EXCEPT !.choice.noTargets = Flip(@, t)])
    /\ UNCHANGED current

ConnectProvider(p, key) ==
    /\ PersistConfig([config EXCEPT !.keys[p] = key])
    /\ UNCHANGED current

\* applySelection: the session's model changes at once.
ApplySelection(t) ==
    /\ Selects(config, t)
    /\ current' = t
    /\ PersistConfig([config EXCEPT !.choice.active = t])

SaveConfig ==
    /\ edit # None /\ edit.at = "config"
    /\ choices' = edit.next.choice
    /\ edit' = [edit EXCEPT !.at = "auth"]
    /\ UNCHANGED <<config, auth, current, offered, basis, edits>>

SaveAuth ==
    /\ edit # None /\ edit.at = "auth"
    /\ auth' = edit.next.keys
    /\ config' = edit.next
    /\ edit' = None
    /\ UNCHANGED <<choices, current, offered, basis, edits>>

\* One of the writes fails; the other file may be written, the memory is not.
EditFails ==
    /\ edit # None
    /\ edit' = None
    /\ UNCHANGED <<config, choices, auth, current, offered, basis, edits>>

-----------------------------------------------------------------------------
(* The agent loop: each request's prompt names the targets, and a reply to *)
(* it may switch.                                                          *)

Offer ==
    /\ current # None
    /\ offered' = IF RouterStatus(config) = "on" THEN RouterPromptTargets(config) ELSE {}
    /\ basis' = config
    /\ UNCHANGED <<config, choices, auth, edit, current, edits>>

SwitchModel(t) ==
    /\ Resolve(config, t) = "ok"
    /\ current' = t
    /\ UNCHANGED <<config, choices, auth, edit, offered, basis, edits>>

SettingsNext ==
    \/ SetRouterEnabled
    \/ \E t \in Target : ToggleRouterModel(ModelOf[t])
    \/ \E t \in Target : ToggleRouterTarget(t)
    \/ \E p \in Provider : ConnectProvider(p, NewKey)
    \/ \E t \in Target : ApplySelection(t)
    \/ SaveConfig \/ SaveAuth \/ EditFails
    \/ Offer
    \/ \E t \in offered : SwitchModel(t)
    \/ \E flag \in Target \cup {None}, headless \in BOOLEAN : Restart(Nobody, flag, headless)

SettingsSpec == SettingsInit(Nobody) /\ [][SettingsNext]_settingsVars

-----------------------------------------------------------------------------
(* What must hold.                                                         *)

\* What a prompt offers is what the resolver takes: two computations, from
\* opposite ends, over models, variants, keys and opt-outs.  A refusal means
\* that the user has changed the settings since the request.
OfferedIsAccepted == basis = config => \A t \in offered : Resolve(config, t) = "ok"
=============================================================================

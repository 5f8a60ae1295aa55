---------------------------- MODULE Services_proofs -----------------------------
(***************************************************************************)
(* What the settings, the Codex credentials, the terminal, exec, the       *)
(* accounting of the context and the file tools guarantee, for any         *)
(* targets, turns, tokens, requests, command lines, sizes, sessions, calls *)
(* and texts, and for any bounds.                                          *)
(***************************************************************************)
EXTENDS Credentials, Terminal, Exec, Accounting, FileAccess, Integers, FiniteSetTheorems,
        WellFoundedInduction, TLAPS

-----------------------------------------------------------------------------
(* Settings: the prompt and the resolver.                                  *)

\* What was offered could be taken when it was.
OffersStand == \A t \in offered : Resolve(basis, t) = "ok"

\* What the router's prompt names the resolver takes: what is enabled, has a
\* key and has routing data, and is on the frontier, is each of it.
LEMMA PromptTargetsResolve ==
    ASSUME NEW conf, RouterStatus(conf) = "on",
           NEW t \in RouterPromptTargets(conf)
    PROVE  Resolve(conf, t) = "ok"
<1>1. conf.choice.enabled
    BY DEF RouterStatus
<1>2. t \in EnabledRouterTargets(conf)
    BY DEF RouterPromptTargets, ParetoFrontier
<1>3. /\ t \in Target /\ IsConfigured(conf, ProviderOf[t])
      /\ ModelOf[t] \notin conf.choice.noModels /\ t \notin conf.choice.noTargets
    BY <1>2 DEF EnabledRouterTargets, AvailableModels
<1>. QED
    BY <1>1, <1>3 DEF Resolve, Selects

\* Only a request makes an offer, of the configuration it notes; a restart
\* takes all offers back; the user's edits leave both alone.
LEMMA SettingsStep ==
    ASSUME OffersStand, [SettingsNext]_settingsVars
    PROVE  OffersStand'
<1>1. CASE Offer
    <2>1. CASE RouterStatus(config) = "on"
        BY <1>1, <2>1, PromptTargetsResolve DEF Offer, OffersStand
    <2>2. CASE RouterStatus(config) # "on"
        BY <1>1, <2>2 DEF Offer, OffersStand
    <2>. QED
        BY <2>1, <2>2
<1>2. CASE \E flag \in Target \cup {None}, headless \in BOOLEAN : Restart(Nobody, flag, headless)
    BY <1>2 DEF Restart, OffersStand
<1>3. CASE UNCHANGED <<offered, basis>>
    BY <1>3 DEF OffersStand
<1>4. ASSUME \/ SetRouterEnabled
             \/ \E t \in Target : ToggleRouterModel(ModelOf[t])
             \/ \E t \in Target : ToggleRouterTarget(t)
             \/ \E p \in Provider : ConnectProvider(p, NewKey)
             \/ \E t \in Target : ApplySelection(t)
      PROVE  UNCHANGED <<offered, basis>>
    BY <1>4 DEF SetRouterEnabled, ToggleRouterModel, ToggleRouterTarget, ConnectProvider,
                ApplySelection, PersistConfig
<1>5. ASSUME \/ SaveConfig \/ SaveAuth \/ EditFails
             \/ \E t \in offered : SwitchModel(t)
             \/ UNCHANGED settingsVars
      PROVE  UNCHANGED <<offered, basis>>
    BY <1>5 DEF SaveConfig, SaveAuth, EditFails, SwitchModel, settingsVars
<1>. QED
    BY <1>1, <1>2, <1>3, <1>4, <1>5 DEF SettingsNext

\* A target that the prompt offers under the present configuration is one that
\* SwitchModel accepts: router.ts and model-resolver.ts agree.
THEOREM OffersAreAccepted == SettingsSpec => []OfferedIsAccepted
<1>1. ASSUME SettingsInit(Nobody) PROVE OffersStand
    BY <1>1 DEF SettingsInit, OffersStand
<1>2. OffersStand => OfferedIsAccepted
    BY DEF OffersStand, OfferedIsAccepted
<1>. QED
    BY <1>1, <1>2, SettingsStep, PTL DEF SettingsSpec

-----------------------------------------------------------------------------
(* Credentials: who may still hold a token the server has taken.           *)

Token == 0 .. MaxTokens

\* Keys by provider; those of Codex are tokens.
HasKeys(f) == DOMAIN f = Provider /\ f[Codex] \in Token \cup {None}

KeysTypeOK ==
    /\ HasKeys(auth) /\ "keys" \in DOMAIN config /\ HasKeys(config.keys)
    /\ edit # None => "keys" \in DOMAIN edit.next /\ HasKeys(edit.next.keys)

TurnTypeOK ==
    /\ issued \in Token /\ spent \subseteq Token
    /\ gate \in [Token -> Turn \cup {Free}]
    /\ at \in [Turn -> {"idle", "read", "sharing", "exchanging", "persisting", "saving"}]
    /\ token \in [Turn -> Token \cup {None}] /\ minted \in [Turn -> Token \cup {None}]
    /\ \A t \in Turn : /\ at[t] # "idle" => token[t] \in Token
                       /\ at[t] \in {"persisting", "saving"} => minted[t] \in Token
    /\ DOMAIN copy = Turn \cup {SignIn} /\ \A w \in Turn \cup {SignIn} : HasKeys(copy[w])
    /\ overtaken \in [Turn -> BOOLEAN] /\ mislaid \in BOOLEAN

\* A token is exchanged by the turn the gate names, so by one at most.
GateNamesOwner == \A t \in Turn : at[t] = "exchanging" => gate[token[t]] = t

\* What the next turn to ask will read.
Standing == IF auth[Codex] # None THEN auth[Codex] ELSE 0

\* Until auth.json has tokens the configuration has those the CLI left.
UntilSaved == auth[Codex] = None /\ ~mislaid => config.keys[Codex] \in {0, None}

\* A spent token is left standing only while the turn that has its successor
\* is about to write it.
SuccessorComes ==
    Standing \in spent /\ ~mislaid =>
        \E u \in Turn : token[u] = Standing /\ at[u] \in {"persisting", "saving"}

\* Who holds a spent token has been told.
SpentIsMarked ==
    \A t \in Turn : at[t] \in {"read", "exchanging"} /\ token[t] \in spent => overtaken[t]

CredentialsInv ==
    KeysTypeOK /\ TurnTypeOK /\ GateNamesOwner /\ UntilSaved /\ SuccessorComes /\ SpentIsMarked

\* What the settings do to the keys: the new configuration is auth.json's, or
\* as it was; what will be written has the keys of the providers.
LEMMA KeysStay ==
    ASSUME HasKeys(auth), "keys" \in DOMAIN config, HasKeys(config.keys),
           NEW p \in Provider, NEW k, p # Codex \/ k \in Token \cup {None}
    PROVE  LET next == [config EXCEPT !.keys[p] = k]
           IN  "keys" \in DOMAIN next /\ HasKeys(next.keys)
    BY DEF HasKeys

LEMMA LoadedKeys ==
    ASSUME HasKeys(auth)
    PROVE  LET conf == LoadStartup(FoundKeys)
           IN  /\ "keys" \in DOMAIN conf /\ HasKeys(conf.keys)
               /\ auth[Codex] = None => conf.keys[Codex] = 0
    BY CredentialsAssumption DEF CredentialsAssumption, HasKeys, LoadStartup, Config, FoundKeys, Found, Token

\* A start that keeps its model has the keys of auth.json, or the CLI's.
LEMMA KeptKeys ==
    ASSUME NEW conf, NEW headless, Keep(conf, headless),
           conf = Config(choices, conf.keys)
    PROVE  "keys" \in DOMAIN config' /\ config'.keys = conf.keys
    BY DEF Keep, Config

LEMMA NoneIsNoToken == None \notin Token
    BY CredentialsAssumption DEF CredentialsAssumption, Token

LEMMA NobodyHasKeys == HasKeys(Nobody)
    BY CredentialsAssumption DEF CredentialsAssumption, HasKeys, Nobody

\* A turn that is done leaves the others as they are.
LEMMA DoneKeepsTypes ==
    ASSUME TurnTypeOK, NEW t \in Turn, NEW taken \in SUBSET Token,
           Done(t), Overtake(taken, {t}),
           UNCHANGED <<issued, gate>>, mislaid' \in BOOLEAN
    PROVE  TurnTypeOK'
<1>1. issued' \in Token /\ spent' \subseteq Token /\ gate' \in [Token -> Turn \cup {Free}]
    BY DEF TurnTypeOK, Overtake
<1>2. /\ at' \in [Turn -> {"idle", "read", "sharing", "exchanging", "persisting", "saving"}]
      /\ token' \in [Turn -> Token \cup {None}] /\ minted' \in [Turn -> Token \cup {None}]
      /\ \A u \in Turn : /\ at'[u] # "idle" => token'[u] \in Token
                         /\ at'[u] \in {"persisting", "saving"} => minted'[u] \in Token
    BY DEF TurnTypeOK, Done, Goto
<1>3. DOMAIN copy' = Turn \cup {SignIn} /\ \A w \in Turn \cup {SignIn} : HasKeys(copy[w])'
    <2>1. \A w \in Turn \cup {SignIn} : copy'[w] = copy[w] \/ copy'[w] = Nobody
        BY DEF TurnTypeOK, Done
    <2>. QED
        BY <2>1, NobodyHasKeys DEF TurnTypeOK, Done, HasKeys
<1>4. overtaken' \in [Turn -> BOOLEAN]
    BY DEF TurnTypeOK, Overtake
<1>. QED
    BY <1>1, <1>2, <1>3, <1>4 DEF TurnTypeOK

LEMMA CredentialsInitially ==
    ASSUME CredentialsInit
    PROVE  CredentialsInv
<1>0. "keys" \in DOMAIN config /\ config.keys = FoundKeys
    <2>1. config = [Config(Nothing, FoundKeys) EXCEPT !.choice.active = current]
        BY DEF CredentialsInit, SettingsInit
    <2>. QED
        BY <2>1 DEF Config
<1>1. KeysTypeOK /\ TurnTypeOK
    <2>0. auth = Nobody /\ edit = None
        BY DEF CredentialsInit, SettingsInit
    <2>1. HasKeys(FoundKeys) /\ HasKeys(Nobody)
        <3>1. DOMAIN FoundKeys = Provider /\ DOMAIN Nobody = Provider
            BY DEF FoundKeys, Nobody
        <3>2. FoundKeys[Codex] = 0 /\ Nobody[Codex] = None
            BY CredentialsAssumption, Zenon DEF CredentialsAssumption, FoundKeys, Found, Nobody
        <3>3. 0 \in Token
            BY CredentialsAssumption DEF CredentialsAssumption, Token
        <3>. QED
            BY <3>1, <3>2, <3>3 DEF HasKeys
    <2>2. issued \in Token /\ spent \subseteq Token /\ mislaid \in BOOLEAN
        <3>1. issued = 0 /\ spent = {} /\ mislaid = FALSE
            BY DEF CredentialsInit
        <3>2. 0 \in Token
            BY CredentialsAssumption DEF CredentialsAssumption, Token
        <3>. QED
            BY <3>1, <3>2
    <2>3. /\ gate \in [Token -> Turn \cup {Free}]
          /\ at = [t \in Turn |-> "idle"] /\ token = [t \in Turn |-> None]
          /\ minted = [t \in Turn |-> None] /\ overtaken = [t \in Turn |-> FALSE]
          /\ copy = [w \in Turn \cup {SignIn} |-> Nobody]
        BY DEF CredentialsInit, Token
    <2>. QED
        BY <1>0, <2>0, <2>1, <2>2, <2>3 DEF KeysTypeOK, TurnTypeOK
<1>2. GateNamesOwner /\ SuccessorComes /\ SpentIsMarked
    BY DEF CredentialsInit, GateNamesOwner, SuccessorComes, SpentIsMarked
<1>3. UntilSaved
    BY <1>0, CredentialsAssumption DEF CredentialsAssumption, UntilSaved, FoundKeys, Found
<1>. QED
    BY <1>1, <1>2, <1>3 DEF CredentialsInv

\* The comment in Read of what it reads: a token, and if it is spent the turn
\* is told, or somebody is about to write its successor.
LEMMA ReadStep ==
    ASSUME CredentialsInv, NEW t \in Turn, Read(t)
    PROVE  CredentialsInv'
<1>. USE DEF CredentialsInv
<1>. DEFINE n == IF auth[Codex] # None THEN auth[Codex] ELSE config.keys[Codex]
<1>0. /\ at[t] = "idle" /\ at' = [at EXCEPT ![t] = "read"]
      /\ token' = [token EXCEPT ![t] = n]
      /\ overtaken' = [overtaken EXCEPT ![t] = mislaid \/ Refreshing(n) # {}]
      /\ UNCHANGED <<config, auth, edit, issued, spent, gate, minted, copy, mislaid>>
    BY DEF Read, Goto, settingsVars, tokenVars
<1>a. n \in Token /\ (~mislaid => n = Standing)
    BY DEF Read, KeysTypeOK, HasKeys, UntilSaved, Standing
<1>. HIDE DEF n
<1>1. KeysTypeOK'
    BY <1>0 DEF KeysTypeOK, HasKeys
<1>2. TurnTypeOK'
    <2>1. overtaken' \in [Turn -> BOOLEAN]
        BY <1>0 DEF TurnTypeOK
    <2>2. /\ at' \in [Turn -> {"idle", "read", "sharing", "exchanging", "persisting", "saving"}]
          /\ token' \in [Turn -> Token \cup {None}]
          /\ \A u \in Turn : /\ at'[u] # "idle" => token'[u] \in Token
                             /\ at'[u] \in {"persisting", "saving"} => minted'[u] \in Token
        BY <1>0, <1>a DEF TurnTypeOK
    <2>. QED
        BY <1>0, <2>1, <2>2 DEF TurnTypeOK, HasKeys
<1>3. GateNamesOwner'
    BY <1>0 DEF GateNamesOwner, TurnTypeOK
<1>4. UntilSaved'
    BY <1>0 DEF UntilSaved
<1>5. SuccessorComes'
    BY <1>0 DEF SuccessorComes, Standing, TurnTypeOK
<1>6. SpentIsMarked'
    <2>1. ASSUME n \in spent, ~mislaid PROVE Refreshing(n) # {}
        BY <1>a, <2>1 DEF SuccessorComes, Refreshing
    <2>2. n \in spent => overtaken'[t]
        BY <1>0, <2>1 DEF TurnTypeOK
    <2>3. \A u \in Turn \ {t} : /\ at'[u] = at[u] /\ token'[u] = token[u]
                                /\ overtaken'[u] = overtaken[u]
        BY <1>0 DEF TurnTypeOK
    <2>4. token'[t] = n
        BY <1>0 DEF TurnTypeOK
    <2>. QED
        BY <1>0, <2>2, <2>3, <2>4 DEF SpentIsMarked
<1>. QED
    BY <1>1, <1>2, <1>3, <1>4, <1>5, <1>6

LEMMA UseAsIsStep ==
    ASSUME CredentialsInv, NEW t \in Turn, UseAsIs(t)
    PROVE  CredentialsInv'
<1>. USE DEF CredentialsInv
<1>1. KeysTypeOK'
    BY DEF UseAsIs, Done, Overtake, Goto, KeysTypeOK, HasKeys, TurnTypeOK, settingsVars
<1>2. TurnTypeOK'
    BY DoneKeepsTypes DEF UseAsIs, TurnTypeOK, settingsVars
<1>3. GateNamesOwner'
    BY CredentialsAssumption DEF UseAsIs, Done, Overtake, Goto, GateNamesOwner, TurnTypeOK, CredentialsAssumption
<1>4. UntilSaved'
    BY DEF UseAsIs, Done, Overtake, Goto, UntilSaved, settingsVars
<1>5. SuccessorComes'
    BY DEF UseAsIs, Done, Overtake, Goto, SuccessorComes, Standing, TurnTypeOK, settingsVars, tokenVars
<1>6. SpentIsMarked'
    BY DEF UseAsIs, Done, Overtake, Goto, SpentIsMarked, TurnTypeOK, settingsVars, tokenVars
<1>. QED
    BY <1>1, <1>2, <1>3, <1>4, <1>5, <1>6

LEMMA SharedRefreshStep ==
    ASSUME CredentialsInv, NEW t \in Turn, SharedRefresh(t)
    PROVE  CredentialsInv'
<1>. USE DEF CredentialsInv
<1>1. KeysTypeOK'
    BY DEF SharedRefresh, Goto, KeysTypeOK, HasKeys, TurnTypeOK, settingsVars
<1>2. TurnTypeOK'
    BY NoneIsNoToken DEF SharedRefresh, Goto, TurnTypeOK, KeysTypeOK, tokenVars
<1>3. GateNamesOwner'
    BY CredentialsAssumption DEF SharedRefresh, Goto, GateNamesOwner, TurnTypeOK, CredentialsAssumption
<1>4. UntilSaved'
    BY DEF SharedRefresh, Goto, UntilSaved, settingsVars
<1>5. SuccessorComes'
    BY DEF SharedRefresh, Goto, SuccessorComes, Standing, TurnTypeOK, settingsVars, tokenVars
<1>6. SpentIsMarked'
    BY DEF SharedRefresh, Goto, SpentIsMarked, TurnTypeOK, settingsVars, tokenVars
<1>. QED
    BY <1>1, <1>2, <1>3, <1>4, <1>5, <1>6

LEMMA ExchangeSucceedsStep ==
    ASSUME CredentialsInv, NEW t \in Turn, ExchangeSucceeds(t)
    PROVE  CredentialsInv'
<1>. USE DEF CredentialsInv
<1>1. KeysTypeOK'
    BY DEF ExchangeSucceeds, Overtake, Sharing, KeysTypeOK, HasKeys, TurnTypeOK, settingsVars
<1>2. TurnTypeOK'
    <2>1. token[t] \in Token /\ issued \in Token
        BY DEF ExchangeSucceeds, TurnTypeOK
    <2>2. PICK n \in Token :
            /\ minted' = [u \in Turn |-> IF u \in Sharing(t) THEN n ELSE minted[u]]
            /\ issued' \in {issued, n}
            /\ \E taken \in {{}, {token[t]}} : Overtake(taken, Sharing(t))
        BY <2>1, CredentialsAssumption DEF CredentialsAssumption, ExchangeSucceeds, Token
    <2>3. issued' \in Token /\ spent' \subseteq Token /\ overtaken' \in [Turn -> BOOLEAN]
        BY <2>1, <2>2 DEF Overtake, TurnTypeOK
    <2>4. gate' \in [Token -> Turn \cup {Free}] /\ UNCHANGED <<copy, mislaid>>
        BY DEF ExchangeSucceeds, TurnTypeOK
    <2>5. /\ at' = [u \in Turn |-> IF u \in Sharing(t) THEN "persisting" ELSE at[u]]
          /\ UNCHANGED token /\ \A u \in Sharing(t) : token[u] = token[t]
        BY DEF ExchangeSucceeds, Sharing
    <2>6. /\ at' \in [Turn -> {"idle", "read", "sharing", "exchanging", "persisting", "saving"}]
          /\ minted' \in [Turn -> Token \cup {None}]
          /\ \A u \in Turn : /\ at'[u] # "idle" => token'[u] \in Token
                             /\ at'[u] \in {"persisting", "saving"} => minted'[u] \in Token
        BY <2>1, <2>2, <2>5 DEF TurnTypeOK
    <2>. QED
        BY <2>3, <2>4, <2>5, <2>6 DEF TurnTypeOK, HasKeys
<1>3. GateNamesOwner'
    BY CredentialsAssumption DEF ExchangeSucceeds, Overtake, Sharing, GateNamesOwner, TurnTypeOK, CredentialsAssumption
<1>4. UntilSaved'
    BY DEF ExchangeSucceeds, Overtake, Sharing, UntilSaved, settingsVars
<1>5. SuccessorComes'
    BY DEF ExchangeSucceeds, Overtake, Sharing, SuccessorComes, Standing, TurnTypeOK, settingsVars, tokenVars
<1>6. SpentIsMarked'
    <2>. SUFFICES ASSUME NEW u \in Turn, at'[u] \in {"read", "exchanging"}, token'[u] \in spent'
                  PROVE  overtaken'[u]
        BY DEF SpentIsMarked
    <2>1. u \notin Sharing(t) /\ at'[u] = at[u] /\ token'[u] = token[u]
        BY DEF ExchangeSucceeds
    <2>2. PICK taken \in {{}, {token[t]}} : Overtake(taken, Sharing(t))
        BY DEF ExchangeSucceeds
    <2>3. overtaken'[u] <=> overtaken[u] \/ (at[u] = "read" /\ token[u] \in taken)
        BY <2>1, <2>2 DEF Overtake
    <2>4. token[u] \in spent \/ token[u] \in taken
        BY <2>1, <2>2 DEF Overtake
    <2>5. at[u] = "exchanging" /\ token[u] \in taken => u = t
        BY <2>2 DEF GateNamesOwner, ExchangeSucceeds
    <2>6. t \in Sharing(t)
        BY DEF Sharing
    <2>. QED
        BY <2>1, <2>3, <2>4, <2>5, <2>6 DEF SpentIsMarked
<1>. QED
    BY <1>1, <1>2, <1>3, <1>4, <1>5, <1>6

LEMMA ExchangeFailsStep ==
    ASSUME CredentialsInv, NEW t \in Turn, ExchangeFails(t)
    PROVE  CredentialsInv'
<1>. USE DEF CredentialsInv
<1>1. KeysTypeOK'
    BY DEF ExchangeFails, Overtake, Sharing, KeysTypeOK, HasKeys, TurnTypeOK, settingsVars
<1>2. TurnTypeOK'
    BY NoneIsNoToken DEF ExchangeFails, Overtake, Sharing, TurnTypeOK, KeysTypeOK, tokenVars
<1>3. GateNamesOwner'
    BY CredentialsAssumption DEF ExchangeFails, Overtake, Sharing, GateNamesOwner, TurnTypeOK, CredentialsAssumption
<1>4. UntilSaved'
    BY DEF ExchangeFails, Overtake, Sharing, UntilSaved, settingsVars
<1>5. SuccessorComes'
    BY DEF ExchangeFails, Overtake, Sharing, SuccessorComes, Standing, TurnTypeOK, settingsVars, tokenVars
<1>6. SpentIsMarked'
    <2>. SUFFICES ASSUME NEW u \in Turn, at'[u] \in {"read", "exchanging"}, token'[u] \in spent'
                  PROVE  overtaken'[u]
        BY DEF SpentIsMarked
    <2>1. u \notin Sharing(t) /\ at'[u] = at[u] /\ token'[u] = token[u]
        BY DEF ExchangeFails
    <2>2. PICK taken \in {{}, {token[t]}} : Overtake(taken, Sharing(t))
        BY DEF ExchangeFails
    <2>3. overtaken'[u] <=> overtaken[u] \/ (at[u] = "read" /\ token[u] \in taken)
        BY <2>1, <2>2 DEF Overtake
    <2>4. token[u] \in spent \/ token[u] \in taken
        BY <2>1, <2>2 DEF Overtake
    <2>5. at[u] = "exchanging" /\ token[u] \in taken => u = t
        BY <2>2 DEF GateNamesOwner, ExchangeFails
    <2>6. t \in Sharing(t)
        BY DEF Sharing
    <2>. QED
        BY <2>1, <2>3, <2>4, <2>5, <2>6 DEF SpentIsMarked
<1>. QED
    BY <1>1, <1>2, <1>3, <1>4, <1>5, <1>6

LEMMA PersistLoadStep ==
    ASSUME CredentialsInv, NEW t \in Turn, PersistLoad(t)
    PROVE  CredentialsInv'
<1>. USE DEF CredentialsInv
<1>1. KeysTypeOK'
    BY DEF PersistLoad, Load, Goto, KeysTypeOK, HasKeys, TurnTypeOK, settingsVars
<1>2. TurnTypeOK'
    BY NoneIsNoToken DEF PersistLoad, Load, Goto, TurnTypeOK, KeysTypeOK, tokenVars
<1>3. GateNamesOwner'
    BY CredentialsAssumption DEF PersistLoad, Load, Goto, GateNamesOwner, TurnTypeOK, CredentialsAssumption
<1>4. UntilSaved'
    BY DEF PersistLoad, Load, Goto, UntilSaved, settingsVars
<1>5. SuccessorComes'
    BY DEF PersistLoad, Load, Goto, SuccessorComes, Standing, TurnTypeOK, settingsVars, tokenVars
<1>6. SpentIsMarked'
    BY DEF PersistLoad, Load, Goto, SpentIsMarked, TurnTypeOK, settingsVars, tokenVars
<1>. QED
    BY <1>1, <1>2, <1>3, <1>4, <1>5, <1>6

LEMMA PersistSaveStep ==
    ASSUME CredentialsInv, NEW t \in Turn, PersistSave(t)
    PROVE  CredentialsInv'
<1>. USE DEF CredentialsInv
<1>0. /\ auth'[Codex] = minted[t] /\ minted[t] \in Token
      /\ mislaid' = (minted[t] \in spent \/ minted[t] # issued)
      /\ UNCHANGED spent
    <2>1. DOMAIN copy[t] = Provider /\ minted[t] \in Token
        BY DEF PersistSave, TurnTypeOK, HasKeys
    <2>. QED
        BY <2>1, CredentialsAssumption DEF CredentialsAssumption, PersistSave, Put, Overtake
<1>1. KeysTypeOK'
    BY DEF PersistSave, Put, Done, Goto, Overtake, KeysTypeOK, HasKeys, TurnTypeOK, settingsVars
<1>2. TurnTypeOK'
    BY DoneKeepsTypes DEF PersistSave, Put
<1>3. GateNamesOwner'
    BY CredentialsAssumption DEF PersistSave, Put, Done, Goto, Overtake, GateNamesOwner, TurnTypeOK, CredentialsAssumption
<1>4. UntilSaved'
    BY <1>0, NoneIsNoToken DEF UntilSaved
<1>5. SuccessorComes'
    BY <1>0, NoneIsNoToken DEF SuccessorComes, Standing
<1>6. SpentIsMarked'
    BY DEF PersistSave, Put, Done, Goto, Overtake, SpentIsMarked, TurnTypeOK, settingsVars, tokenVars
<1>. QED
    BY <1>1, <1>2, <1>3, <1>4, <1>5, <1>6

LEMMA PersistFailsStep ==
    ASSUME CredentialsInv, NEW t \in Turn, PersistFails(t)
    PROVE  CredentialsInv'
<1>. USE DEF CredentialsInv
<1>1. KeysTypeOK'
    BY DEF PersistFails, Done, Goto, Overtake, KeysTypeOK, HasKeys, TurnTypeOK, settingsVars
<1>2. TurnTypeOK'
    BY DoneKeepsTypes DEF PersistFails
<1>3. GateNamesOwner'
    BY CredentialsAssumption DEF PersistFails, Done, Goto, Overtake, GateNamesOwner, TurnTypeOK, CredentialsAssumption
<1>4. UntilSaved'
    BY DEF PersistFails, Done, Goto, Overtake, UntilSaved, settingsVars
<1>5. SuccessorComes'
    BY DEF PersistFails, Done, Goto, Overtake, SuccessorComes, Standing, TurnTypeOK, settingsVars, tokenVars
<1>6. SpentIsMarked'
    BY DEF PersistFails, Done, Goto, Overtake, SpentIsMarked, TurnTypeOK, settingsVars, tokenVars
<1>. QED
    BY <1>1, <1>2, <1>3, <1>4, <1>5, <1>6

LEMMA InterruptStep ==
    ASSUME CredentialsInv, NEW t \in Turn, Interrupt(t)
    PROVE  CredentialsInv'
<1>. USE DEF CredentialsInv
<1>1. KeysTypeOK'
    BY DEF Interrupt, Done, Goto, Overtake, KeysTypeOK, HasKeys, TurnTypeOK, settingsVars
<1>2. TurnTypeOK'
    BY DoneKeepsTypes DEF Interrupt, TurnTypeOK
<1>3. GateNamesOwner'
    BY CredentialsAssumption DEF Interrupt, Done, Goto, Overtake, GateNamesOwner, TurnTypeOK, CredentialsAssumption
<1>4. UntilSaved'
    BY DEF Interrupt, Done, Goto, Overtake, UntilSaved, settingsVars
<1>5. SuccessorComes'
    BY DEF Interrupt, Done, Goto, Overtake, SuccessorComes, Standing, TurnTypeOK, settingsVars, tokenVars
<1>6. SpentIsMarked'
    <2>. SUFFICES ASSUME NEW u \in Turn, at'[u] \in {"read", "exchanging"}, token'[u] \in spent'
                  PROVE  overtaken'[u]
        BY DEF SpentIsMarked
    <2>1. u # t /\ at'[u] = at[u] /\ token'[u] = token[u]
        BY DEF Interrupt, Done, Goto, TurnTypeOK
    <2>2. PICK taken \in {{}, {token[t]}} :
                Overtake(taken, {t}) /\ (taken # {} => at[t] = "exchanging")
        BY DEF Interrupt
    <2>3. overtaken'[u] <=> overtaken[u] \/ (at[u] = "read" /\ token[u] \in taken)
        BY <2>1, <2>2 DEF Overtake
    <2>4. token[u] \in spent \/ token[u] \in taken
        BY <2>1, <2>2 DEF Overtake
    <2>5. ~(at[u] = "exchanging" /\ token[u] \in taken)
        BY <2>1, <2>2 DEF GateNamesOwner
    <2>. QED
        BY <2>1, <2>3, <2>4, <2>5 DEF SpentIsMarked
<1>. QED
    BY <1>1, <1>2, <1>3, <1>4, <1>5, <1>6

\* What the sign-in and the settings do not touch.
TurnsStay == UNCHANGED <<spent, gate, at, token, minted, overtaken>>

\* A step that leaves the turns alone keeps the invariant if what it does to the
\* entries is right, or says that it is not.
LEMMA TurnsStayStep ==
    ASSUME CredentialsInv, TurnsStay, KeysTypeOK', issued' \in Token, mislaid' \in BOOLEAN,
           DOMAIN copy' = DOMAIN copy, \A w \in Turn \cup {SignIn} : HasKeys(copy'[w]),
           UntilSaved', ~mislaid' => Standing' \notin spent \/ (Standing' = Standing /\ ~mislaid)
    PROVE  CredentialsInv'
<1>. USE DEF CredentialsInv
<1>1. TurnTypeOK'
    BY DEF TurnsStay, TurnTypeOK, HasKeys
<1>2. GateNamesOwner' /\ SpentIsMarked'
    BY DEF TurnsStay, GateNamesOwner, SpentIsMarked
<1>3. SuccessorComes'
    BY DEF TurnsStay, SuccessorComes
<1>. QED
    BY <1>1, <1>2, <1>3

LEMMA SignInStep ==
    ASSUME CredentialsInv, OpenLogin \/ LoginFails \/ LoginExchange \/ LoginSave \/ LoginMirror
    PROVE  CredentialsInv'
<1>1. CASE OpenLogin
    BY <1>1, TurnsStayStep
       DEF OpenLogin, LoginUnchanged, TurnsStay, settingsVars, tokenVars, CredentialsInv, KeysTypeOK,
           TurnTypeOK, HasKeys, UntilSaved, Standing
<1>2. CASE LoginFails
    <2>1. \A w \in Turn \cup {SignIn} : HasKeys(copy'[w])
        BY <1>2, NobodyHasKeys DEF LoginFails, CredentialsInv, TurnTypeOK
    <2>. QED
        BY <1>2, <2>1, TurnsStayStep
           DEF LoginFails, LoginUnchanged, TurnsStay, settingsVars, tokenVars, CredentialsInv, KeysTypeOK,
               TurnTypeOK, HasKeys, UntilSaved, Standing
<1>3. CASE LoginExchange
    <2>1. issued' \in Token
        BY <1>3, CredentialsAssumption
           DEF CredentialsAssumption, LoginExchange, CredentialsInv, TurnTypeOK, Token
    <2>2. \A w \in Turn \cup {SignIn} : HasKeys(copy'[w])
        BY <1>3 DEF LoginExchange, Load, CredentialsInv, TurnTypeOK, KeysTypeOK
    <2>. QED
        BY <1>3, <2>1, <2>2, TurnsStayStep
           DEF LoginExchange, Load, LoginUnchanged, TurnsStay, settingsVars, CredentialsInv, KeysTypeOK,
               TurnTypeOK, HasKeys, UntilSaved
<1>4. CASE LoginSave
    <2>1. /\ DOMAIN auth' = Provider /\ auth'[Codex] = issued /\ issued \in Token
          /\ mislaid' = (issued \in spent)
        BY <1>4, CredentialsAssumption
           DEF CredentialsAssumption, LoginSave, Put, CredentialsInv, TurnTypeOK, HasKeys
    <2>2. \A w \in Turn \cup {SignIn} : HasKeys(copy'[w])
        BY <1>4, NobodyHasKeys DEF LoginSave, CredentialsInv, TurnTypeOK
    <2>3. UntilSaved' /\ Standing' = issued
        BY <2>1, NoneIsNoToken DEF UntilSaved, Standing
    <2>4. TurnsStay /\ UNCHANGED <<config, edit, issued>> /\ DOMAIN copy' = DOMAIN copy
        BY <1>4 DEF LoginSave, LoginUnchanged, TurnsStay, tokenVars
    <2>5. KeysTypeOK'
        BY <2>1, <2>4 DEF CredentialsInv, KeysTypeOK, HasKeys
    <2>6. mislaid' \in BOOLEAN
        BY <1>4 DEF LoginSave, Put
    <2>7. ~mislaid' => Standing' \notin spent
        BY <2>1, <2>3, Zenon
    <2>. QED
        BY <2>1, <2>2, <2>3, <2>4, <2>5, <2>6, <2>7, TurnsStayStep
<1>5. CASE LoginMirror
    <2>1. config' = [config EXCEPT !.keys[Codex] = auth[Codex]] /\ UNCHANGED <<auth, edit>>
        BY <1>5 DEF LoginMirror
    <2>2. "keys" \in DOMAIN config' /\ HasKeys(config'.keys) /\ config'.keys[Codex] = auth[Codex]
        BY <2>1, CredentialsAssumption
           DEF CredentialsAssumption, CredentialsInv, KeysTypeOK, HasKeys
    <2>. QED
        BY <1>5, <2>1, <2>2, TurnsStayStep
           DEF LoginMirror, LoginUnchanged, TurnsStay, tokenVars, CredentialsInv, KeysTypeOK,
               TurnTypeOK, HasKeys, UntilSaved, Standing
<1>. QED
    BY <1>1, <1>2, <1>3, <1>4, <1>5

LEMMA SettingsInvStep ==
    ASSUME CredentialsInv, SettingsSaveAuth \/ OtherSettings
    PROVE  CredentialsInv'
<1>1. CASE SettingsSaveAuth
    <2>1. /\ auth' = edit.next.keys /\ config' = edit.next /\ edit # None /\ edit' = None
          /\ mislaid' = (mislaid \/ auth'[Codex] # auth[Codex])
          /\ TurnsStay /\ UNCHANGED <<issued, copy>>
        BY <1>1 DEF SettingsSaveAuth, SaveAuth, tokenVars, turnVars, TurnsStay
    <2>2. KeysTypeOK'
        BY <2>1 DEF CredentialsInv, KeysTypeOK, HasKeys
    <2>3. UntilSaved' /\ (~mislaid' => Standing' = Standing /\ ~mislaid)
        BY <2>1 DEF UntilSaved, Standing, CredentialsInv, TurnTypeOK
    <2>4. mislaid' \in BOOLEAN
        BY <2>1 DEF CredentialsInv, TurnTypeOK
    <2>. QED
        BY <2>1, <2>2, <2>3, <2>4, TurnsStayStep DEF CredentialsInv, TurnTypeOK
<1>2. CASE OtherSettings
    <2>1. UNCHANGED <<config, auth, issued, copy, mislaid>> /\ TurnsStay
        BY <1>2 DEF OtherSettings, ConnectProvider, PersistConfig, SaveConfig, EditFails, tokenVars,
                    turnVars, TurnsStay
    <2>2. \/ edit' = None
          \/ edit # None /\ edit' = [edit EXCEPT !.at = "auth"]
          \/ \E p \in Provider \ {Codex} :
                edit' = [next |-> [config EXCEPT !.keys[p] = NewKey], at |-> "config"]
        BY <1>2 DEF OtherSettings, ConnectProvider, PersistConfig, SaveConfig, EditFails
    <2>3. edit' # None => "keys" \in DOMAIN edit'.next /\ HasKeys(edit'.next.keys)
        <3>1. ASSUME edit # None, edit' = [edit EXCEPT !.at = "auth"] PROVE edit'.next = edit.next
            BY <3>1
        <3>2. ASSUME NEW p \in Provider \ {Codex},
                     edit' = [next |-> [config EXCEPT !.keys[p] = NewKey], at |-> "config"]
              PROVE  "keys" \in DOMAIN edit'.next /\ HasKeys(edit'.next.keys)
            BY <3>2, KeysStay DEF CredentialsInv, KeysTypeOK
        <3>. QED
            BY <2>2, <3>1, <3>2 DEF CredentialsInv, KeysTypeOK
    <2>. QED
        BY <2>1, <2>3, TurnsStayStep
           DEF CredentialsInv, KeysTypeOK, TurnTypeOK, HasKeys, UntilSaved, Standing
<1>. QED
    BY <1>1, <1>2

\* A new process remembers nothing of the turns.  What an exchange under way had
\* taken, or a persist had still to write, is what `mislaid` says.
LEMMA RestartStep ==
    ASSUME CredentialsInv, RestartProcess
    PROVE  CredentialsInv'
<1>. USE DEF CredentialsInv
<1>. DEFINE conf == LoadStartup(FoundKeys)
<1>0. PICK taken \in SUBSET {t \in Turn : at[t] = "exchanging"} :
            /\ Overtake({token[t] : t \in taken}, Turn)
            /\ mislaid' = (\/ mislaid \/ taken # {}
                           \/ \E t \in Turn : at[t] \in {"persisting", "saving"})
    BY DEF RestartProcess
<1>a. /\ gate' = [n \in DOMAIN gate |-> Free] /\ at' = [t \in Turn |-> "idle"]
      /\ token' = [t \in Turn |-> None] /\ minted' = [t \in Turn |-> None]
      /\ copy' = [w \in Turn \cup {SignIn} |-> Nobody]
      /\ UNCHANGED <<issued, auth>> /\ edit' = None /\ Keep(conf, FALSE)
    BY DEF RestartProcess, Restart
<1>b. "keys" \in DOMAIN config' /\ config'.keys = conf.keys
    <2>1. conf = Config(choices, conf.keys)
        BY DEF LoadStartup, Config
    <2>. QED
        BY <1>a, <2>1, KeptKeys
<1>c. /\ "keys" \in DOMAIN conf /\ HasKeys(conf.keys)
      /\ auth[Codex] = None => conf.keys[Codex] = 0
    BY LoadedKeys DEF KeysTypeOK
<1>. HIDE DEF conf
<1>1. KeysTypeOK'
    BY <1>a, <1>b, <1>c DEF KeysTypeOK, HasKeys
<1>2. TurnTypeOK'
    <2>1. spent' \subseteq Token
        BY <1>0 DEF Overtake, TurnTypeOK
    <2>2. overtaken' \in [Turn -> BOOLEAN]
        BY <1>0 DEF Overtake, TurnTypeOK
    <2>3. mislaid' \in BOOLEAN
        BY <1>0
    <2>4. gate' \in [Token -> Turn \cup {Free}]
        BY <1>a DEF TurnTypeOK
    <2>. QED
        BY <1>a, <2>1, <2>2, <2>3, <2>4, NobodyHasKeys DEF TurnTypeOK, HasKeys
<1>3. GateNamesOwner' /\ SpentIsMarked'
    BY <1>a DEF GateNamesOwner, SpentIsMarked
<1>4. UntilSaved'
    BY <1>a, <1>b, <1>c DEF UntilSaved
<1>5. SuccessorComes'
    <2>. SUFFICES ASSUME ~mislaid' PROVE Standing' \notin spent'
        BY DEF SuccessorComes
    <2>1. ~mislaid /\ taken = {} /\ \A t \in Turn : at[t] \notin {"persisting", "saving"}
        BY <1>0
    <2>2. spent' = spent
        BY <1>0, <2>1 DEF Overtake
    <2>3. Standing' = Standing
        BY <1>a DEF Standing
    <2>. QED
        BY <2>1, <2>2, <2>3 DEF SuccessorComes
<1>. QED
    BY <1>1, <1>2, <1>3, <1>4, <1>5

LEMMA CredentialsInvStep ==
    ASSUME CredentialsInv, [CredentialsNext]_credentialsVars
    PROVE  CredentialsInv'
<1>1. ASSUME NEW t \in Turn, Read(t) \/ RefreshStep(t) \/ Interrupt(t)
      PROVE  CredentialsInv'
    BY <1>1, ReadStep, UseAsIsStep, SharedRefreshStep, ExchangeSucceedsStep, ExchangeFailsStep,
       PersistLoadStep, PersistSaveStep, PersistFailsStep, InterruptStep DEF RefreshStep
<1>2. CASE UNCHANGED credentialsVars
    BY <1>2 DEF credentialsVars, settingsVars, tokenVars, turnVars, CredentialsInv, KeysTypeOK, TurnTypeOK,
                HasKeys, GateNamesOwner, UntilSaved, SuccessorComes, Standing, SpentIsMarked
<1>. QED
    BY <1>1, <1>2, SignInStep, SettingsInvStep, RestartStep DEF CredentialsNext

\* The turns of one process, the sign-in and the settings share the tokens so
\* that none is sent twice without a reason, however many turns ask at once and
\* wherever the process ends (openai-codex.ts:156).
THEOREM ReplaysHaveReasons == CredentialsSpec => []NoNeedlessReplay
<1>1. CredentialsInv => NoNeedlessReplay
    BY DEF CredentialsInv, SpentIsMarked, NoNeedlessReplay
<1>. QED
    BY <1>1, CredentialsInitially, CredentialsInvStep, PTL DEF CredentialsSpec

-----------------------------------------------------------------------------
(* The terminal: where the pieces of a reply are.                          *)

Texts == UNION {c.text : c \in cancels}

\* The pieces so far are numbered, and a reply is being collected only while
\* it streams.
TerminalTypeOK ==
    /\ pieces \in Nat
    /\ replies \cup partials \cup draft \cup attempt \cup Texts \subseteq 1 .. pieces
    /\ attempt # {} => turn = "streaming"

\* What was said in a reply is on its way nowhere else, and what is being
\* said is not yet in the transcript.
SaidOnce ==
    /\ replies \cap (partials \cup draft \cup Texts) = {}
    /\ attempt \cap partials = {}
    /\ attempt \cap replies = {}

TerminalInv == TerminalTypeOK /\ SaidOnce

\* Most steps leave the pieces where they are, or take them off the screen.
Quiet ==
    /\ UNCHANGED <<pieces, replies, partials, cancels>>
    /\ draft' \in {draft, {}}
    /\ attempt' = {} \/ (attempt' = attempt /\ turn' = turn)

LEMMA QuietStep ==
    ASSUME TerminalInv, Quiet
    PROVE  TerminalInv'
<1>1. TerminalTypeOK'
    BY DEF Quiet, TerminalInv, TerminalTypeOK, Texts
<1>2. SaidOnce'
    BY DEF Quiet, TerminalInv, SaidOnce, Texts
<1>. QED
    BY <1>1, <1>2 DEF TerminalInv

\* Steps of the turn.
LEMMA TurnIsQuiet ==
    ASSUME TerminalInv,
           Drain \/ StepStart \/ Retry \/ ToolsDone \/ TurnFails \/ CompactionEnds
    PROVE  Quiet
    BY DEF TerminalInv, TerminalTypeOK, Quiet, Drain, StepStart, Retry, ToolsDone, TurnFails,
           CompactionEnds, StartTurn, OverWith, Others

\* What tools ask, and the keys that answer it.
LEMMA AsksAreQuiet ==
    ASSUME TerminalInv,
           \/ \E r \in Request : Ask(r)
           \/ Decide \/ Tick \/ Answer
           \/ \E step \in 1..(Questions + 1) : Turnover(step)
    PROVE  Quiet
    BY DEF Quiet, Ask, Decide, Tick, Answer, Turnover, TurnStays, turnState

\* The other keys, Ctrl+C among them.
LEMMA KeysAreQuiet ==
    ASSUME TerminalInv,
           \/ CtrlC \/ Timeout \/ CloseHelp
           \/ SubmitPrompt \/ SubmitCompact \/ SubmitHelp
           \/ \E kind \in {"list", "empty", "connect", "router"} : OpenDialog(kind)
           \/ DialogKey \/ Connected
    PROVE  Quiet
<1>1. CASE CtrlC
    BY <1>1 DEF CtrlC, OverWith, turnState, Quiet
<1>2. CASE SubmitPrompt \/ SubmitCompact
    BY <1>2 DEF SubmitPrompt, SubmitCompact, StartTurn, TerminalInv, TerminalTypeOK, MainActive, Running, Quiet
<1>3. CASE Timeout \/ CloseHelp \/ SubmitHelp \/ DialogKey \/ Connected
    BY <1>3 DEF Timeout, CloseHelp, SubmitHelp, DialogKey, Connected, TurnStays, turnState, Quiet
<1>4. CASE \E kind \in {"list", "empty", "connect", "router"} : OpenDialog(kind)
    BY <1>4 DEF OpenDialog, TurnStays, turnState, Quiet
<1>. QED
    BY <1>1, <1>2, <1>3, <1>4

\* A new piece is in nothing yet.
LEMMA TextDeltaStep ==
    ASSUME TerminalInv, TextDelta
    PROVE  TerminalInv'
<1>1. /\ pieces \in Nat /\ pieces' = pieces + 1 /\ pieces' \notin 1 .. pieces
      /\ 1 .. pieces' = (1 .. pieces) \cup {pieces'}
    BY DEF TextDelta, TerminalInv, TerminalTypeOK
<1>2. /\ attempt' = attempt \cup {pieces'} /\ draft' = draft \cup {pieces'}
      /\ turn' = "streaming" /\ UNCHANGED <<replies, partials, cancels>> /\ Texts' = Texts
    BY DEF TextDelta, Others, Texts
<1>3. pieces' \in Nat
    BY <1>1
<1>4. TerminalTypeOK'
    BY <1>1, <1>2, <1>3, Zenon DEF TerminalInv, TerminalTypeOK
<1>5. pieces' \notin replies \cup partials
    BY <1>1 DEF TerminalInv, TerminalTypeOK
<1>6. SaidOnce'
    BY <1>2, <1>5 DEF TerminalInv, SaidOnce
<1>. QED
    BY <1>4, <1>6 DEF TerminalInv

\* The reply is complete: nothing of it awaits an interruption, because no
\* interruption is awaited, and the draft is empty.
LEMMA StepEndStep ==
    ASSUME TerminalInv, StepEnd
    PROVE  TerminalInv'
<1>1. /\ cancels = {} /\ replies' = replies \cup attempt /\ draft' = {} /\ attempt' = {}
      /\ UNCHANGED <<pieces, partials, cancels>>
    BY DEF StepEnd, OverWith, Others
<1>2. Texts = {} /\ Texts' = {}
    BY <1>1 DEF Texts
<1>3. TerminalTypeOK'
    BY <1>1, <1>2 DEF TerminalInv, TerminalTypeOK
<1>4. SaidOnce'
    BY <1>1, <1>2 DEF TerminalInv, SaidOnce
<1>. QED
    BY <1>3, <1>4 DEF TerminalInv

\* Esc hands on what the draft shows.
LEMMA EscapeStep ==
    ASSUME TerminalInv, Escape
    PROVE  TerminalInv'
<1>1. /\ cancels' = cancels \cup {[text |-> draft, nth |-> Cardinality(cancels)]}
      /\ UNCHANGED <<turn, attempt, replies, draft, partials, pieces>>
    BY DEF Escape, turnState
<1>2. Texts' \subseteq Texts \cup draft
    BY <1>1 DEF Texts
<1>3. TerminalTypeOK'
    BY <1>1, <1>2 DEF TerminalInv, TerminalTypeOK
<1>4. SaidOnce'
    BY <1>1, <1>2 DEF TerminalInv, SaidOnce
<1>. QED
    BY <1>3, <1>4 DEF TerminalInv

\* The interruption is recorded: the text it was handed is in the transcript.
LEMMA CancelledStep ==
    ASSUME TerminalInv, Cancelled
    PROVE  TerminalInv'
<1>1. PICK c \in cancels :
        /\ cancels' = cancels \ {c}
        /\ partials' = IF turn = "tool" THEN partials ELSE partials \cup c.text
        /\ IF turn = "compaction" THEN UNCHANGED <<turn, submitted, attempt>>
           ELSE turn' = "off" /\ submitted' = FALSE /\ attempt' = {}
        /\ draft' = {}
        /\ UNCHANGED <<replies, pieces>>
    BY DEF Cancelled
<1>2. Texts' \subseteq Texts /\ c.text \subseteq Texts
    BY <1>1 DEF Texts
<1>3. partials' \subseteq partials \cup Texts
    BY <1>1, <1>2
<1>4. attempt' = {}
    BY <1>1 DEF TerminalInv, TerminalTypeOK
<1>5. TerminalTypeOK'
    BY <1>1, <1>2, <1>3, <1>4 DEF TerminalInv, TerminalTypeOK
<1>6. SaidOnce'
    BY <1>1, <1>2, <1>3, <1>4 DEF TerminalInv, SaidOnce
<1>. QED
    BY <1>5, <1>6 DEF TerminalInv

LEMMA TerminalInvStep ==
    ASSUME TerminalInv, [TerminalNext]_terminalVars
    PROVE  TerminalInv'
<1>1. ASSUME UNCHANGED terminalVars PROVE Quiet
    BY <1>1 DEF terminalVars, turnState, Quiet
<1>. QED
    BY <1>1, QuietStep, TurnIsQuiet, AsksAreQuiet, KeysAreQuiet, TextDeltaStep, StepEndStep, EscapeStep,
       CancelledStep DEF TerminalNext

\* However keys, deltas, retries and interruptions fall together, no piece of
\* text is in the transcript both as a reply and as what an interruption left.
THEOREM NothingIsSaidTwice == TerminalSpec => []ReplyIsNotPartial
<1>1. ASSUME TerminalInit PROVE TerminalInv
    BY <1>1 DEF TerminalInit, TerminalInv, TerminalTypeOK, SaidOnce, Texts
<1>2. TerminalInv => ReplyIsNotPartial
    BY DEF TerminalInv, SaidOnce, ReplyIsNotPartial
<1>. QED
    BY <1>1, <1>2, TerminalInvStep, PTL DEF TerminalSpec

-----------------------------------------------------------------------------
(* exec: one answer.                                                       *)

Commitment == [id : Nat, kind : {"prompt", "assistant", "results", "notification", "switch"}]
OutLine    == [says : {"init", "message", "text", "success", "error", "interrupted"}, id : Nat]
TraceRecord == [failed : BOOLEAN, children : Nat,
                outcome : {Unset, "interrupted", "completed", "failed"}]

ExecTypeOK ==
    /\ messages \in Seq(Commitment) /\ ids \in Nat
    /\ cursor \in 0..Len(messages)
    /\ out \in Seq(OutLine)
    /\ fatal \in BOOLEAN /\ signalCode \in {Unset, SIGINT, SIGTERM}
    /\ work \in {"off", "turn", "over"}
    /\ code \in {Unset, 0, 1, 2, SIGINT, SIGTERM}
    /\ trace \in TraceRecord

\* Every message is committed under a number of its own; what flush has been
\* over has its one line, and what it has not been over has none.
LinesInv ==
    /\ \A i \in DOMAIN messages : messages[i].id \in 1..ids
    /\ \A i, j \in DOMAIN messages : messages[i].id = messages[j].id => i = j
    /\ \A n \in DOMAIN out : out[n].says = "message" => out[n].id \in 1..ids
    /\ \A i \in DOMAIN messages : i > cursor => Line(messages[i].id) = {}
    /\ Streams => \A i \in 1..cursor : HasLine(messages[i]) =>
                    \E n \in DOMAIN out : Line(messages[i].id) = {n}

\* The race has one winner: while the turn works only a signal can have won it,
\* and the turn then gives no answer any more.
RaceInv ==
    /\ phase \in {"cli", "starting"} => work = "off" /\ code = Unset
    /\ phase \in {"running", "closing"} => work # "off"
    /\ phase \in {"closing", "ended"} => code # Unset
    /\ (work = "off") = (messages = <<>>)
    /\ work = "off" => signalCode = Unset /\ out = <<>> /\ code \in {Unset, 1, 2}
    /\ work # "off" => code # 2
    /\ work # "off" /\ code = Unset => work = "turn" /\ signalCode = Unset /\ phase = "running"
    /\ Interrupted => signalCode # Unset
    /\ work = "turn" /\ code # Unset => Interrupted

\* The answer, while the run is being given it and from its end on.
AnswerInv ==
    /\ Answers \subseteq {Len(out)}
    /\ phase = "running" =>
        /\ work = "turn" \/ Interrupted => Answers = {}
        /\ work = "over" /\ ~Interrupted =>
            /\ code = 0 => Answers # {}
            /\ Answers # {} => CASE Last(out).says = "interrupted" -> FALSE
                                 [] Last(out).says = "error"       -> code = 1
                                 [] OTHER                          -> code = 0
    /\ phase \in {"closing", "ended"} =>
        /\ Interrupted => Streams = (Answers # {})
        /\ Answers # {} => CASE Last(out).says = "interrupted" -> Interrupted
                             [] Last(out).says = "error"       -> code = 1
                             [] OTHER -> code = 0 \/ (code = 1 /\ trace.failed)
        /\ code = 0 => Answers # {} /\ (Traces => trace.outcome = "completed")

ExecInv == ExecTypeOK /\ LinesInv /\ RaceInv /\ AnswerInv

\* InOrder goes through a finite set of numbers, and over none of them twice: a
\* member's place is the number of members that are no greater.
LEMMA InOrderEnumerates ==
    ASSUME NEW K \in SUBSET Nat, IsFiniteSet(K)
    PROVE  /\ Cardinality(K) \in Nat
           /\ DOMAIN InOrder(K) = 1..Cardinality(K)
           /\ \A n \in 1..Cardinality(K) : InOrder(K)[n] \in K
           /\ \A i \in K : \E n \in 1..Cardinality(K) : InOrder(K)[n] = i
           /\ \A m, n \in 1..Cardinality(K) : InOrder(K)[m] = InOrder(K)[n] => m = n
<1>. DEFINE upTo(i) == {j \in K : j <= i}
            place   == [i \in K |-> Cardinality(upTo(i))]
<1>1. Cardinality(K) \in Nat
    BY FS_CardinalityType
<1>2. \A i \in K : IsFiniteSet(upTo(i)) /\ place[i] \in 1..Cardinality(K)
    <2>. SUFFICES ASSUME NEW i \in K
                  PROVE  IsFiniteSet(upTo(i)) /\ Cardinality(upTo(i)) \in 1..Cardinality(K)
        OBVIOUS
    <2>1. IsFiniteSet(upTo(i)) /\ Cardinality(upTo(i)) <= Cardinality(K)
        BY FS_Subset
    <2>2. i \in upTo(i)
        OBVIOUS
    <2>3. Cardinality(upTo(i)) \in Nat /\ Cardinality(upTo(i)) # 0
        BY <2>1, <2>2, FS_CardinalityType, FS_EmptySet
    <2>. QED
        BY <1>1, <2>1, <2>3
<1>3. \A i, j \in K : i < j => place[i] # place[j]
    <2>. SUFFICES ASSUME NEW i \in K, NEW j \in K, i < j
                  PROVE  Cardinality(upTo(i)) # Cardinality(upTo(j))
        OBVIOUS
    <2>1. i \in Nat /\ j \in Nat
        OBVIOUS
    <2>2. \A k \in upTo(i) : k \in upTo(j)
        BY <2>1
    <2>3. j \in upTo(j) /\ j \notin upTo(i)
        BY <2>1
    <2>4. IsFiniteSet(upTo(j))
        BY <1>2
    <2>. HIDE DEF upTo
    <2>. QED
        BY <2>2, <2>3, <2>4, FS_Subset
<1>4. \A i, j \in K : place[i] = place[j] => i = j
    BY <1>3
<1>5. place \in Injection(K, 1..Cardinality(K))
    <2>. HIDE DEF place
    <2>1. place \in [K -> 1..Cardinality(K)]
        BY <1>2 DEF place
    <2>. QED
        BY <2>1, <1>4 DEF Injection, IsInjective
<1>6. place \in Surjection(K, 1..Cardinality(K))
    <2>1. IsFiniteSet(1..Cardinality(K)) /\ Cardinality(1..Cardinality(K)) = Cardinality(K)
        BY <1>1, FS_Interval
    <2>. HIDE DEF place
    <2>. QED
        BY <2>1, <1>5, FS_Injection
<1>7. \A n \in 1..Cardinality(K) : \E i \in K : place[i] = n
    <2>. HIDE DEF place
    <2>. QED
        BY <1>6 DEF Surjection
<1>8. \A n \in 1..Cardinality(K) : InOrder(K)[n] \in K /\ place[InOrder(K)[n]] = n
    <2>. SUFFICES ASSUME NEW n \in 1..Cardinality(K)
                  PROVE  InOrder(K)[n] \in K /\ place[InOrder(K)[n]] = n
        OBVIOUS
    <2>1. PICK i \in K : Cardinality(upTo(i)) = n
        BY <1>7
    <2>2. InOrder(K)[n] = CHOOSE k \in K : Cardinality(upTo(k)) = n
        BY DEF InOrder
    <2>. HIDE DEF upTo
    <2>. QED
        BY <2>1, <2>2
<1>9. DOMAIN InOrder(K) = 1..Cardinality(K)
    BY DEF InOrder
<1>. HIDE DEF place
<1>10. \A i \in K : \E n \in 1..Cardinality(K) : InOrder(K)[n] = i
    <2>. SUFFICES ASSUME NEW i \in K
                  PROVE  \E n \in 1..Cardinality(K) : InOrder(K)[n] = i
        OBVIOUS
    <2>1. place[i] \in 1..Cardinality(K)
        BY <1>2
    <2>. QED
        BY <2>1, <1>4, <1>8
<1>. QED
    BY <1>1, <1>8, <1>9, <1>10

\* What flush goes over are the messages with a line that come after the cursor.
LEMMA FreshIsFresh ==
    ASSUME ExecTypeOK
    PROVE  \E F \in Nat :
            /\ DOMAIN Fresh = 1..F
            /\ \A n \in 1..F : /\ Fresh[n] \in cursor + 1..Len(messages)
                               /\ HasLine(messages[Fresh[n]])
            /\ \A i \in cursor + 1..Len(messages) :
                    HasLine(messages[i]) => \E n \in 1..F : Fresh[n] = i
            /\ \A m, n \in 1..F : Fresh[m] = Fresh[n] => m = n
<1>. DEFINE K == {i \in cursor + 1..Len(messages) : HasLine(messages[i])}
<1>1. cursor \in Nat /\ Len(messages) \in Nat
    BY DEF ExecTypeOK
<1>2. K \in SUBSET (cursor + 1..Len(messages)) /\ K \in SUBSET Nat
    BY <1>1
<1>3. IsFiniteSet(K)
    <2>1. IsFiniteSet(cursor + 1..Len(messages))
        BY <1>1, FS_Interval
    <2>. HIDE DEF K
    <2>. QED
        BY <1>2, <2>1, FS_Subset
<1>4. Fresh = InOrder(K)
    BY DEF Fresh
<1>5. \A i \in K : i \in cursor + 1..Len(messages) /\ HasLine(messages[i])
    OBVIOUS
<1>6. \A i \in cursor + 1..Len(messages) : HasLine(messages[i]) => i \in K
    OBVIOUS
<1>. HIDE DEF K
<1>7. /\ Cardinality(K) \in Nat
      /\ DOMAIN Fresh = 1..Cardinality(K)
      /\ \A n \in 1..Cardinality(K) : Fresh[n] \in K
      /\ \A i \in K : \E n \in 1..Cardinality(K) : Fresh[n] = i
      /\ \A m, n \in 1..Cardinality(K) : Fresh[m] = Fresh[n] => m = n
    BY <1>2, <1>3, <1>4, InOrderEnumerates
<1>. QED
    BY <1>5, <1>6, <1>7

\* Two sequences, one after the other.
Joins(u, s, t) ==
    /\ Len(u) = Len(s) + Len(t)
    /\ \A n \in 1..Len(s) : u[n] = s[n]
    /\ \A n \in 1..Len(t) : u[Len(s) + n] = t[n]
    /\ \A n \in 1..Len(s) + Len(t) : n \in 1..Len(s) \/ \E m \in 1..Len(t) : n = Len(s) + m

LEMMA Joined ==
    ASSUME NEW S, NEW s \in Seq(S), NEW t \in Seq(S)
    PROVE  s \o t \in Seq(S) /\ Joins(s \o t, s, t)
<1>1. Len(s) \in Nat /\ Len(t) \in Nat
    OBVIOUS
<1>2. ASSUME NEW n \in 1..Len(s) + Len(t), n \notin 1..Len(s)
      PROVE  \E m \in 1..Len(t) : n = Len(s) + m
    <2>1. n - Len(s) \in 1..Len(t) /\ n = Len(s) + (n - Len(s))
        BY <1>1, <1>2
    <2>. QED
        BY <2>1
<1>3. ASSUME NEW n \in 1..Len(t)
      PROVE  (s \o t)[Len(s) + n] = t[n]
    BY <1>1
<1>4. s \o t \in Seq(S) /\ Len(s \o t) = Len(s) + Len(t)
    BY <1>1
<1>5. ASSUME NEW n \in 1..Len(s)
      PROVE  (s \o t)[n] = s[n]
    BY <1>1
<1>. QED
    BY <1>2, <1>3, <1>4, <1>5, Zenon DEF Joins

LEMMA CommittedId ==
    ASSUME ExecTypeOK, NEW i \in DOMAIN messages
    PROVE  messages[i].id \in Nat
<1>1. messages[i] \in Commitment
    BY DEF ExecTypeOK
<1>. QED
    BY <1>1 DEF Commitment

\* The lines flush writes: what was there, one for each fresh message, and the
\* last.
Written(F, last) ==
    /\ DOMAIN Fresh = 1..F
    /\ out' \in Seq(OutLine)
    /\ Len(out') = Len(out) + F + Len(last)
    /\ \A n \in 1..Len(out) : out'[n] = out[n]
    /\ \A n \in 1..F : out'[Len(out) + n] = Tells(messages[Fresh[n]].id)
    /\ Len(last) = 1 => out'[Len(out) + F + 1] = last[1]
    /\ \A n \in DOMAIN out' : \/ n \in 1..Len(out)
                              \/ \E m \in 1..F : n = Len(out) + m
                              \/ Len(last) = 1 /\ n = Len(out) + F + 1
    /\ cursor' = Len(messages)

LEMMA FlushWrites ==
    ASSUME ExecTypeOK, Streams, NEW last \in Seq(OutLine), Len(last) \in 0..1,
           Flush(last)
    PROVE  \E F \in Nat : Written(F, last)
<1>. DEFINE told == [n \in DOMAIN Fresh |-> Tells(messages[Fresh[n]].id)]
<1>1. PICK F \in Nat : /\ DOMAIN Fresh = 1..F
                       /\ \A n \in 1..F : Fresh[n] \in cursor + 1..Len(messages)
    BY FreshIsFresh
<1>2. out' = (out \o told) \o last /\ cursor' = Len(messages)
    BY DEF Flush
<1>3. /\ told \in Seq(OutLine) /\ Len(told) = F
      /\ \A n \in 1..F : told[n] = Tells(messages[Fresh[n]].id)
    <2>1. \A n \in 1..F : Tells(messages[Fresh[n]].id) \in OutLine
        <3>1. \A n \in 1..F : Fresh[n] \in DOMAIN messages
            BY <1>1 DEF ExecTypeOK
        <3>. QED
            BY <3>1, CommittedId DEF Tells, OutLine
    <2>2. told = [n \in 1..F |-> Tells(messages[Fresh[n]].id)]
        BY <1>1
    <2>. QED
        BY <2>1, <2>2
<1>. HIDE DEF told
<1>. DEFINE most == out \o told
<1>4. out \in Seq(OutLine) /\ Len(out) \in Nat
    BY DEF ExecTypeOK
<1>5. /\ most \in Seq(OutLine) /\ Len(most) = Len(out) + F
      /\ \A n \in 1..Len(out) : most[n] = out[n]
      /\ \A n \in 1..F : most[Len(out) + n] = told[n]
      /\ \A n \in 1..Len(out) + F : n \in 1..Len(out) \/ \E m \in 1..F : n = Len(out) + m
    <2>1. most \in Seq(OutLine) /\ Joins(most, out, told)
        BY <1>3, <1>4, Joined
    <2>2. Len(told) = F
        BY <1>3
    <2>. HIDE DEF most, told
    <2>. QED
        BY <2>1, <2>2 DEF Joins
<1>6. out' = most \o last
    BY <1>2
<1>. HIDE DEF most
<1>7. /\ out' \in Seq(OutLine) /\ Len(out') = Len(out) + F + Len(last)
      /\ \A n \in 1..Len(out) + F : out'[n] = most[n]
      /\ \A n \in 1..Len(last) : out'[Len(out) + F + n] = last[n]
      /\ \A n \in 1..Len(out) + F + Len(last) :
            n \in 1..Len(out) + F \/ \E m \in 1..Len(last) : n = Len(out) + F + m
    <2>1. out' \in Seq(OutLine) /\ Joins(out', most, last)
        BY <1>5, <1>6, Joined
    <2>2. Len(most) = Len(out) + F
        BY <1>5
    <2>. QED
        BY <2>1, <2>2 DEF Joins
<1>8. \A n \in 1..Len(out) : n \in 1..Len(out) + F
    BY <1>1, <1>4
<1>9. \A n \in 1..F : Len(out) + n \in 1..Len(out) + F
    BY <1>1, <1>4
<1>10. Len(last) = 1 => out'[Len(out) + F + 1] = last[1]
    BY <1>7
<1>11. \A n \in DOMAIN out' : \/ n \in 1..Len(out)
                              \/ \E m \in 1..F : n = Len(out) + m
                              \/ Len(last) = 1 /\ n = Len(out) + F + 1
    <2>. SUFFICES ASSUME NEW n \in DOMAIN out'
                  PROVE  \/ n \in 1..Len(out) + F
                         \/ Len(last) = 1 /\ n = Len(out) + F + 1
        BY <1>5
    <2>1. DOMAIN out' = 1..Len(out')
        BY <1>7
    <2>2. n \in 1..Len(out) + F + Len(last)
        BY <1>7, <2>1
    <2>3. CASE Len(last) = 0
        BY <1>7, <2>2, <2>3
    <2>4. CASE Len(last) = 1
        BY <1>7, <2>2, <2>4
    <2>. QED
        BY <2>3, <2>4
<1>12. \A n \in 1..Len(out) : out'[n] = out[n]
    BY <1>5, <1>7, <1>8
<1>13. \A n \in 1..F : out'[Len(out) + n] = Tells(messages[Fresh[n]].id)
    BY <1>3, <1>5, <1>7, <1>9
<1>14. Len(out') = Len(out) + F + Len(last)
    BY <1>7
<1>. QED
    BY <1>1, <1>2, <1>7, <1>10, <1>11, <1>12, <1>13, <1>14 DEF Written

\* What is written at the end says nothing of a message.
Ending == {<<>>} \cup {<<Says(what)>> : what \in {"success", "error", "interrupted"}}

LEMMA EndingType ==
    ASSUME NEW last \in Ending
    PROVE  /\ last \in Seq(OutLine) /\ Len(last) \in 0..1
           /\ Len(last) = 1 => last[1].says # "message"
<1>1. CASE last = <<>>
    BY <1>1
<1>2. CASE last # <<>>
    <2>1. PICK what \in {"success", "error", "interrupted"} : last = <<Says(what)>>
        BY <1>2 DEF Ending
    <2>2. Says(what) \in OutLine /\ Says(what).says # "message"
        BY DEF Says, OutLine
    <2>. QED
        BY <2>1, <2>2
<1>. QED
    BY <1>1, <1>2

LEMMA FlushKeepsLines ==
    ASSUME ExecTypeOK, LinesInv, NEW last \in Ending, Flush(last),
           UNCHANGED <<options, messages, ids>>
    PROVE  /\ cursor' \in 0..Len(messages) /\ out' \in Seq(OutLine)
           /\ LinesInv'
<1>1. CASE ~Streams
    BY <1>1 DEF Flush, ExecTypeOK, LinesInv, Streams, Line
<1>2. CASE Streams
    <2>1. last \in Seq(OutLine) /\ Len(last) \in 0..1
          /\ (Len(last) = 1 => last[1].says # "message")
        BY EndingType
    <2>0. PICK F \in Nat : Written(F, last)
        BY <1>2, <2>1, FlushWrites
    <2>2. /\ DOMAIN Fresh = 1..F
          /\ out' \in Seq(OutLine)
          /\ Len(out') = Len(out) + F + Len(last)
          /\ \A n \in 1..Len(out) : out'[n] = out[n]
          /\ \A n \in 1..F : out'[Len(out) + n] = Tells(messages[Fresh[n]].id)
          /\ Len(last) = 1 => out'[Len(out) + F + 1] = last[1]
          /\ \A n \in DOMAIN out' : \/ n \in 1..Len(out)
                                    \/ \E m \in 1..F : n = Len(out) + m
                                    \/ Len(last) = 1 /\ n = Len(out) + F + 1
          /\ cursor' = Len(messages)
        BY <2>0 DEF Written
    <2>3. /\ \A n \in 1..F : /\ Fresh[n] \in cursor + 1..Len(messages)
                             /\ HasLine(messages[Fresh[n]])
          /\ \A i \in cursor + 1..Len(messages) :
                    HasLine(messages[i]) => \E n \in 1..F : Fresh[n] = i
          /\ \A m, n \in 1..F : Fresh[m] = Fresh[n] => m = n
        <3>1. PICK G \in Nat :
                /\ DOMAIN Fresh = 1..G
                /\ \A n \in 1..G : /\ Fresh[n] \in cursor + 1..Len(messages)
                                   /\ HasLine(messages[Fresh[n]])
                /\ \A i \in cursor + 1..Len(messages) :
                        HasLine(messages[i]) => \E n \in 1..G : Fresh[n] = i
                /\ \A m, n \in 1..G : Fresh[m] = Fresh[n] => m = n
            BY FreshIsFresh
        <3>2. 1..G = 1..F
            BY <2>2, <3>1
        <3>. QED
            BY <3>1, <3>2
    <2>4. Streams' /\ Len(messages) \in Nat /\ cursor \in Nat /\ cursor <= Len(messages)
          /\ Len(out) \in Nat /\ DOMAIN messages = 1..Len(messages)
          /\ \A i \in DOMAIN messages : messages[i].id \in Nat
        BY <1>2, CommittedId DEF ExecTypeOK, Streams
    <2>5. \A n \in DOMAIN out' : \A id : out'[n] = Tells(id) =>
            \/ n \in 1..Len(out) /\ out[n] = Tells(id)
            \/ \E m \in 1..F : n = Len(out) + m /\ id = messages[Fresh[m]].id
        <3>. SUFFICES ASSUME NEW n \in DOMAIN out', NEW id, out'[n] = Tells(id), n \notin 1..Len(out)
                      PROVE  \E m \in 1..F : n = Len(out) + m /\ id = messages[Fresh[m]].id
            BY <2>2
        <3>1. Tells(id).says = "message" /\ Tells(id).id = id
            BY DEF Tells
        <3>2. PICK m \in 1..F : n = Len(out) + m
            BY <2>1, <2>2, <3>1
        <3>3. Tells(messages[Fresh[m]].id).id = messages[Fresh[m]].id
            BY DEF Tells
        <3>. QED
            BY <2>2, <3>1, <3>2, <3>3
    <2>6. \A n \in DOMAIN out' : out'[n].says = "message" => out'[n].id \in 1..ids
        <3>. SUFFICES ASSUME NEW n \in DOMAIN out', out'[n].says = "message", n \notin 1..Len(out)
                      PROVE  out'[n].id \in 1..ids
            BY <2>2, <2>4 DEF LinesInv, ExecTypeOK
        <3>1. PICK m \in 1..F : n = Len(out) + m
            BY <2>1, <2>2
        <3>2. out'[n] = Tells(messages[Fresh[m]].id)
            BY <2>2, <3>1
        <3>3. Fresh[m] \in DOMAIN messages
            BY <2>3, <2>4
        <3>. QED
            BY <3>2, <3>3 DEF LinesInv, Tells
    <2>7. ASSUME NEW i \in 1..Len(messages), HasLine(messages[i])
          PROVE  \E n \in DOMAIN out' : Line(messages[i].id)' = {n}
        <3>1. CASE i <= cursor
            <4>1. i \in 1..cursor
                BY <2>4, <3>1
            <4>2. PICK n \in DOMAIN out : Line(messages[i].id) = {n}
                BY <1>2, <2>7, <4>1 DEF LinesInv
            <4>3. n \in 1..Len(out) /\ n \in DOMAIN out' /\ out[n] = Tells(messages[i].id)
                BY <2>1, <2>2, <2>4, <4>2 DEF Line, ExecTypeOK
            <4>4. ASSUME NEW k \in DOMAIN out', out'[k] = Tells(messages[i].id)
                  PROVE  k = n
                <5>1. ASSUME NEW m \in 1..F PROVE messages[i].id # messages[Fresh[m]].id
                    BY <2>3, <2>4, <3>1 DEF LinesInv
                <5>2. k \in 1..Len(out) /\ out[k] = Tells(messages[i].id)
                    BY <2>5, <4>4, <5>1
                <5>. QED
                    BY <4>2, <5>2 DEF Line, ExecTypeOK
            <4>. QED
                BY <2>2, <4>3, <4>4 DEF Line
        <3>2. CASE i > cursor
            <4>1. PICK m \in 1..F : Fresh[m] = i
                BY <2>3, <2>4, <2>7, <3>2
            <4>2. Len(out) + m \in DOMAIN out' /\ out'[Len(out) + m] = Tells(messages[i].id)
                <5>1. out'[Len(out) + m] = Tells(messages[i].id)
                    BY <2>2, <4>1
                <5>2. Len(out) + m \in 1..Len(out) + F + Len(last)
                    BY <2>1, <2>4
                <5>3. DOMAIN out' = 1..Len(out) + F + Len(last)
                    BY <2>2
                <5>. QED
                    BY <5>1, <5>2, <5>3
            <4>3. ASSUME NEW k \in DOMAIN out', out'[k] = Tells(messages[i].id)
                  PROVE  k = Len(out) + m
                <5>1. ~(k \in 1..Len(out) /\ out[k] = Tells(messages[i].id))
                    BY <2>4, <3>2 DEF LinesInv, Line, ExecTypeOK
                <5>2. PICK l \in 1..F : k = Len(out) + l /\ messages[i].id = messages[Fresh[l]].id
                    BY <2>5, <4>3, <5>1
                <5>3. Fresh[l] = i
                    BY <2>3, <2>4, <5>2 DEF LinesInv
                <5>. QED
                    BY <2>3, <4>1, <5>2, <5>3
            <4>. QED
                BY <4>2, <4>3 DEF Line
        <3>. QED
            BY <2>4, <3>1, <3>2
    <2>8. \A i \in DOMAIN messages' : i > cursor' => Line(messages[i].id)' = {}
        BY <2>2, <2>4
    <2>9. cursor' \in 0..Len(messages)
        BY <2>2, <2>4
    <2>10. /\ \A i \in DOMAIN messages : messages[i].id \in 1..ids
           /\ \A i, j \in DOMAIN messages : messages[i].id = messages[j].id => i = j
        BY DEF LinesInv
    <2>11. \A i \in 1..cursor' : HasLine(messages[i]) =>
                    \E n \in DOMAIN out' : Line(messages[i].id)' = {n}
        BY <2>2, <2>4, <2>7
    <2>12. LinesInv'
        <3>1. messages' = messages /\ ids' = ids /\ cursor' = Len(messages)
            BY <2>2
        <3>2. \A i \in 1..cursor' : HasLine(messages[i])' =>
                    \E n \in DOMAIN out' : Line(messages[i].id)' = {n}
            BY <2>11, <3>1 DEF HasLine
        <3>. QED
            BY <2>6, <2>8, <2>10, <3>1, <3>2 DEF LinesInv, HasLine
    <2>. QED
        BY <2>2, <2>9, <2>12
<1>. QED
    BY <1>1, <1>2

\* What flush writes about messages is no answer; what it ends with is one.
LEMMA FlushAnswers ==
    ASSUME ExecTypeOK, NEW last \in Ending, Flush(last), Answers = {}, options' = options
    PROVE  /\ ~Streams => out' = out /\ Answers' = {}
           /\ last = <<>> => Answers' = {}
           /\ \A what \in {"success", "error", "interrupted"} :
                Streams /\ last = <<Says(what)>> =>
                    Answers' = {Len(out')} /\ Last(out').says = what
<1>1. CASE ~Streams
    <2>1. out' = out
        BY <1>1 DEF Flush
    <2>. QED
        BY <1>1, <2>1 DEF Answers
<1>2. CASE Streams
    <2>1. last \in Seq(OutLine) /\ Len(last) \in 0..1
        BY EndingType
    <2>0. PICK F \in Nat : Written(F, last)
        BY <1>2, <2>1, FlushWrites
    <2>2. /\ DOMAIN Fresh = 1..F
          /\ out' \in Seq(OutLine)
          /\ Len(out') = Len(out) + F + Len(last)
          /\ \A n \in 1..Len(out) : out'[n] = out[n]
          /\ \A n \in 1..F : out'[Len(out) + n] = Tells(messages[Fresh[n]].id)
          /\ Len(last) = 1 => out'[Len(out) + F + 1] = last[1]
          /\ \A n \in DOMAIN out' : \/ n \in 1..Len(out)
                                    \/ \E m \in 1..F : n = Len(out) + m
                                    \/ Len(last) = 1 /\ n = Len(out) + F + 1
          /\ cursor' = Len(messages)
        BY <2>0 DEF Written
    <2>3. Len(out) \in Nat /\ DOMAIN out = 1..Len(out) /\ DOMAIN out' = 1..Len(out')
        BY <2>2 DEF ExecTypeOK
    <2>4. \A n \in 1..Len(out) : out'[n].says \notin {"success", "error", "interrupted", "text"}
        BY <2>2, <2>3 DEF Answers
    <2>5. \A n \in 1..F :
            out'[Len(out) + n].says \notin {"success", "error", "interrupted", "text"}
        <3>1. \A id : Tells(id).says = "message"
            BY DEF Tells
        <3>. QED
            BY <2>2, <3>1
    <2>6. \A n \in Answers' : Len(last) = 1 /\ n = Len(out) + F + 1
        BY <2>2, <2>4, <2>5 DEF Answers
    <2>7. last = <<>> => Answers' = {}
        BY <2>6
    <2>8. ASSUME NEW what \in {"success", "error", "interrupted"}, last = <<Says(what)>>
          PROVE  Answers' = {Len(out')} /\ Last(out').says = what
        <3>1. Len(last) = 1 /\ last[1].says = what
            BY <2>8 DEF Says
        <3>2. Len(out') = Len(out) + F + 1 /\ Len(out') \in DOMAIN out'
            BY <2>2, <2>3, <3>1
        <3>3. out'[Len(out')].says = what
            BY <2>2, <3>1, <3>2
        <3>4. Len(out') \in Answers'
            BY <3>2, <3>3 DEF Answers
        <3>. QED
            BY <2>6, <3>2, <3>3, <3>4 DEF Last
    <2>. QED
        BY <1>2, <2>7, <2>8
<1>. QED
    BY <1>1, <1>2

\* Nothing but the lines of a message counts the message.
LEMMA LinesStay ==
    ASSUME LinesInv, UNCHANGED <<options, messages, ids, cursor, out>>
    PROVE  LinesInv' /\ Answers' = Answers /\ Streams' = Streams /\ Traces' = Traces
BY DEF LinesInv, Line, HasLine, Answers, Streams, Traces

\* A message is committed at the end, or in the place of the last: the lines there
\* are tell of others.
LEMMA CommitKeepsLines ==
    ASSUME ExecTypeOK, LinesInv, UNCHANGED <<options, cursor, out>>, ids' = ids + 1,
           messages # <<>>,
           NEW kind \in {"assistant", "results", "notification", "switch"},
           \/ messages' = Append(messages, [id |-> ids + 1, kind |-> kind])
           \/ /\ kind = "switch"
              /\ messages' = Append(Front(messages), [id |-> ids + 1, kind |-> kind])
    PROVE  /\ messages' \in Seq(Commitment) /\ messages' # <<>> /\ ids' \in Nat
           /\ cursor' \in 0..Len(messages')
           /\ LinesInv'
<1>. DEFINE new == [id |-> ids + 1, kind |-> kind]
<1>0. /\ messages \in Seq(Commitment) /\ Len(messages) \in Nat /\ Len(messages) # 0
      /\ ids \in Nat /\ cursor \in 0..Len(messages) /\ DOMAIN messages = 1..Len(messages)
    BY DEF ExecTypeOK
<1>1. PICK N \in Nat : /\ messages \in Seq(Commitment) /\ Len(messages) = N /\ N >= 1
                      /\ ids \in Nat /\ cursor \in 0..N /\ DOMAIN messages = 1..N
    <2>1. Len(messages) >= 1
        BY <1>0
    <2>. QED
        BY <1>0, <2>1
<1>2. new \in Commitment /\ new.id = ids + 1 /\ (kind = "switch" => ~HasLine(new))
    BY <1>1 DEF Commitment, HasLine
<1>. HIDE DEF new
<1>3. PICK L \in Nat :
        /\ messages' \in Seq(Commitment) /\ Len(messages') = L /\ L >= 1
        /\ L = N + 1 \/ (L = N /\ kind = "switch")
        /\ \A i \in 1..L : i # L => messages'[i] = messages[i]
        /\ messages'[L] = new
    <2>1. CASE messages' = Append(messages, new)
        <3>1. /\ messages' \in Seq(Commitment) /\ Len(messages') = N + 1
              /\ \A i \in 1..N : messages'[i] = messages[i]
              /\ messages'[N + 1] = new
            BY <1>1, <1>2, <2>1
        <3>2. N + 1 \in Nat /\ N + 1 >= 1
              /\ \A i \in 1..N + 1 : i # N + 1 => i \in 1..N
            BY <1>1
        <3>. QED
            BY <3>1, <3>2
    <2>2. CASE messages' = Append(Front(messages), new) /\ kind = "switch"
        <3>1. /\ Front(messages) \in Seq(Commitment) /\ Len(Front(messages)) = N - 1
              /\ \A i \in 1..N - 1 : Front(messages)[i] = messages[i]
            BY <1>1 DEF Front
        <3>2. /\ messages' \in Seq(Commitment) /\ Len(messages') = N - 1 + 1
              /\ \A i \in 1..N - 1 : messages'[i] = Front(messages)[i]
              /\ messages'[N - 1 + 1] = new
            BY <1>2, <2>2, <3>1
        <3>3. N - 1 + 1 = N
              /\ \A i \in 1..N : i # N => i \in 1..N - 1
            BY <1>1
        <3>. QED
            BY <1>1, <2>2, <3>1, <3>2, <3>3
    <2>. QED
        BY <2>1, <2>2 DEF new
<1>4. DOMAIN messages' = 1..L /\ \A i \in 1..L : i # L => i \in DOMAIN messages
    <2>1. DOMAIN messages' = 1..L
        BY <1>3
    <2>2. \A i \in 1..L : i # L => i \in 1..N
        BY <1>1, <1>3
    <2>. QED
        BY <1>1, <2>1, <2>2
<1>5. cursor' \in 0..L /\ ids' \in Nat
    BY <1>1, <1>3
<1>6. \A i \in DOMAIN messages' : messages'[i].id \in 1..ids'
    BY <1>1, <1>2, <1>3, <1>4 DEF LinesInv
<1>7. \A i \in DOMAIN messages' : i # L => messages'[i].id # ids + 1
    BY <1>1, <1>3, <1>4 DEF LinesInv
<1>8. \A i, j \in DOMAIN messages' : messages'[i].id = messages'[j].id => i = j
    BY <1>2, <1>3, <1>4, <1>7 DEF LinesInv
<1>9. \A n \in DOMAIN out : out[n].says = "message" => out[n].id \in 1..ids' /\ out[n].id # ids + 1
    BY <1>1 DEF LinesInv
<1>10. \A n \in DOMAIN out : out[n] # Tells(ids + 1)
    BY <1>9 DEF Tells
<1>11. \A i \in DOMAIN messages' : i > cursor => Line(messages[i].id)' = {}
    <2>. SUFFICES ASSUME NEW i \in DOMAIN messages', i > cursor, NEW n \in DOMAIN out
                  PROVE  out[n] # Tells(messages'[i].id)
        BY DEF Line
    <2>1. CASE i = L
        BY <1>2, <1>3, <1>10, <2>1
    <2>2. CASE i # L
        BY <1>3, <1>4, <2>2 DEF LinesInv, Line
    <2>. QED
        BY <2>1, <2>2
<1>12. ASSUME Streams, NEW i \in 1..cursor, HasLine(messages'[i])
       PROVE  i \in 1..cursor /\ HasLine(messages[i]) /\ messages'[i] = messages[i]
    <2>1. i \in 1..L
        BY <1>1, <1>3
    <2>2. i # L
        <3>. SUFFICES ASSUME i = L PROVE FALSE
            OBVIOUS
        <3>1. kind = "switch"
            BY <1>1, <1>3
        <3>. QED
            BY <1>2, <1>3, <1>12, <3>1
    <2>. QED
        BY <1>3, <1>12, <2>1, <2>2
<1>13. Streams' => \A i \in 1..cursor' : HasLine(messages[i])' =>
                \E n \in DOMAIN out' : Line(messages[i].id)' = {n}
    <2>. SUFFICES ASSUME Streams, NEW i \in 1..cursor, HasLine(messages'[i])
                  PROVE  \E n \in DOMAIN out : Line(messages[i].id)' = {n}
        BY DEF Streams, HasLine
    <2>1. messages'[i] = messages[i] /\ HasLine(messages[i])
        BY <1>12
    <2>2. PICK n \in DOMAIN out : Line(messages[i].id) = {n}
        BY <2>1 DEF LinesInv
    <2>. QED
        BY <2>1, <2>2 DEF Line
<1>14. LinesInv'
    BY <1>6, <1>8, <1>9, <1>11, <1>13 DEF LinesInv
<1>. QED
    BY <1>3, <1>5, <1>14

\* The line of the answer in the text format.
LEMMA TextIsNoLine ==
    ASSUME ExecTypeOK, LinesInv, ~Streams, out' = Append(out, Says("text")),
           UNCHANGED <<options, messages, ids, cursor>>
    PROVE  /\ out' \in Seq(OutLine) /\ LinesInv'
           /\ Answers = {} => Answers' = {Len(out')} /\ Last(out').says = "text"
<1>1. PICK N \in Nat : Len(out) = N /\ out \in Seq(OutLine) /\ DOMAIN out = 1..N
    BY DEF ExecTypeOK
<1>2. Says("text") \in OutLine /\ Says("text").says = "text"
    BY DEF Says, OutLine
<1>3. /\ out' \in Seq(OutLine) /\ Len(out') = N + 1 /\ DOMAIN out' = 1..N + 1
      /\ \A n \in 1..N : out'[n] = out[n]
      /\ out'[N + 1] = Says("text")
    BY <1>1, <1>2
<1>4. \A n \in 1..N + 1 : n \in 1..N \/ n = N + 1
    OBVIOUS
<1>5. \A n \in DOMAIN out' : out'[n].says = "message" => n \in 1..N
    BY <1>2, <1>3, <1>4
<1>6. \A n \in DOMAIN out' : \A id : out'[n] = Tells(id) => n \in 1..N /\ out[n] = Tells(id)
    BY <1>3, <1>5 DEF Tells
<1>7. \A n \in DOMAIN out' : out'[n].says = "message" => out'[n].id \in 1..ids'
    BY <1>1, <1>3, <1>5 DEF LinesInv
<1>8. \A i \in DOMAIN messages' : i > cursor' => Line(messages[i].id)' = {}
    BY <1>1, <1>6 DEF LinesInv, Line
<1>9. LinesInv'
    BY <1>7, <1>8 DEF LinesInv, Streams
<1>10. ASSUME Answers = {} PROVE Answers' = {N + 1}
    <2>1. \A n \in 1..N : n \notin Answers'
        BY <1>1, <1>3, <1>10 DEF Answers
    <2>2. N + 1 \in Answers'
        BY <1>2, <1>3 DEF Answers
    <2>. QED
        BY <1>3, <1>4, <2>1, <2>2 DEF Answers
<1>. QED
    BY <1>2, <1>3, <1>9, <1>10 DEF Last

LEMMA Codes ==
    /\ Unset \notin Nat /\ SIGINT = 130 /\ SIGTERM = 143
    /\ Unset \notin {0, 1, 2, SIGINT, SIGTERM}
BY ExecAssumption DEF SIGINT, SIGTERM

\* Before the run.
LEMMA StartKeeps ==
    ASSUME ExecInv, RefuseUsage \/ Accept \/ StartFails
    PROVE  ExecInv'
<1>1. /\ phase \in {"cli", "starting"} /\ work = "off" /\ code = Unset /\ out = <<>>
      /\ Answers = {}
    BY DEF ExecInv, RaceInv, RefuseUsage, Accept, StartFails, Answers
<1>2. /\ UNCHANGED <<options, messages, cursor, out, fatal, signalCode, work, ids, trace>>
      /\ \/ phase' = "ended" /\ code' \in {1, 2}
         \/ phase' = "starting" /\ code' = code
    BY DEF RefuseUsage, Accept, StartFails, Exit, NoRun
<1>3. LinesInv' /\ Answers' = Answers
    BY <1>2, LinesStay DEF ExecInv
<1>4. ExecTypeOK'
    BY <1>2 DEF ExecInv, ExecTypeOK, TraceRecord
<1>5. RaceInv'
    BY <1>1, <1>2, Codes DEF ExecInv, RaceInv, Interrupted
<1>6. AnswerInv'
    BY <1>1, <1>2, <1>3, Codes DEF AnswerInv, Interrupted
<1>. QED
    BY <1>3, <1>4, <1>5, <1>6 DEF ExecInv

LEMMA BeginKeeps ==
    ASSUME ExecInv, Begin
    PROVE  ExecInv'
<1>1. /\ phase = "starting" /\ code = Unset /\ cursor = 0 /\ signalCode = Unset /\ fatal \in BOOLEAN
      /\ UNCHANGED <<options, cursor, fatal, signalCode, code, trace>>
      /\ phase' = "running" /\ work' = "turn" /\ ids' = 1
      /\ messages' = <<[id |-> 1, kind |-> "prompt"]>>
      /\ out' = <<>> \/ out' = <<Says("init")>>
    BY DEF ExecInv, ExecTypeOK, RaceInv, Begin
<1>2. /\ messages' \in Seq(Commitment) /\ messages' # <<>> /\ Len(messages') = 1
      /\ DOMAIN messages' = {1} /\ messages'[1].id = 1
    <2>1. [id |-> 1, kind |-> "prompt"] \in Commitment
        BY DEF Commitment
    <2>. QED
        BY <1>1, <2>1
<1>3. out' \in Seq(OutLine) /\ \A n \in DOMAIN out' : out'[n].says = "init"
    <2>1. Says("init") \in OutLine /\ Says("init").says = "init"
        BY DEF Says, OutLine
    <2>2. CASE out' = <<>>
        BY <2>2
    <2>3. CASE out' = <<Says("init")>>
        BY <2>1, <2>3
    <2>. QED
        BY <1>1, <2>2, <2>3
<1>4. ExecTypeOK'
    BY <1>1, <1>2, <1>3 DEF ExecInv, ExecTypeOK
<1>5. LinesInv'
    BY <1>1, <1>2, <1>3 DEF LinesInv, Line, Tells
<1>6. Answers' = {}
    BY <1>3 DEF Answers
<1>7. RaceInv'
    BY <1>1, <1>2, Codes DEF RaceInv, Interrupted
<1>8. AnswerInv'
    BY <1>1, <1>6, Codes DEF AnswerInv, Interrupted
<1>. QED
    BY <1>4, <1>5, <1>7, <1>8 DEF ExecInv

\* An event of the controller is heard while the turn works and the run waits.
LEMMA EventKeeps ==
    ASSUME ExecInv, Event \/ \E recoverable \in BOOLEAN : AgentError(recoverable)
    PROVE  ExecInv'
<1>1. /\ phase = "running" /\ work = "turn" /\ Flush(<<>>) /\ fatal' \in BOOLEAN
      /\ UNCHANGED <<options, phase, messages, signalCode, work, code, ids, trace>>
    BY DEF Event, AgentError, ExecInv, ExecTypeOK
<1>2. <<>> \in Ending
    BY DEF Ending
<1>3. Answers = {}
    BY <1>1 DEF ExecInv, AnswerInv
<1>4. cursor' \in 0..Len(messages) /\ out' \in Seq(OutLine) /\ LinesInv'
    BY <1>1, <1>2, FlushKeepsLines DEF ExecInv
<1>5. Answers' = {}
    BY <1>1, <1>2, <1>3, FlushAnswers DEF ExecInv
<1>6. ExecTypeOK'
    BY <1>1, <1>4 DEF ExecInv, ExecTypeOK
<1>7. RaceInv'
    BY <1>1 DEF ExecInv, RaceInv, Interrupted
<1>8. AnswerInv'
    BY <1>1, <1>5 DEF AnswerInv, Interrupted
<1>. QED
    BY <1>4, <1>6, <1>7, <1>8 DEF ExecInv

LEMMA CommitKeeps ==
    ASSUME ExecInv,
           SwitchTarget \/ \E kind \in {"assistant", "results", "notification"} : Commit(kind)
    PROVE  ExecInv'
<1>1. /\ work = "turn" /\ ids' = ids + 1
      /\ UNCHANGED <<options, phase, cursor, out, fatal, signalCode, work, code, trace>>
    BY DEF SwitchTarget, Commit
<1>2. messages # <<>>
    BY <1>1 DEF ExecInv, RaceInv
<1>3. PICK kind \in {"assistant", "results", "notification", "switch"} :
           \/ messages' = Append(messages, [id |-> ids + 1, kind |-> kind])
           \/ /\ kind = "switch"
              /\ messages' = Append(Front(messages), [id |-> ids + 1, kind |-> kind])
    <2>1. CASE SwitchTarget
        BY <2>1 DEF SwitchTarget
    <2>2. ASSUME NEW kind \in {"assistant", "results", "notification"}, Commit(kind)
          PROVE  messages' = Append(messages, [id |-> ids + 1, kind |-> kind])
        BY <2>2 DEF Commit
    <2>. QED
        BY <2>1, <2>2
<1>4. /\ messages' \in Seq(Commitment) /\ messages' # <<>> /\ ids' \in Nat
      /\ cursor' \in 0..Len(messages') /\ LinesInv'
    BY <1>1, <1>2, <1>3, CommitKeepsLines DEF ExecInv
<1>5. Answers' = Answers /\ Streams' = Streams /\ Traces' = Traces
    BY <1>1 DEF Answers, Streams, Traces
<1>6. ExecTypeOK'
    BY <1>1, <1>4 DEF ExecInv, ExecTypeOK
<1>7. RaceInv'
    BY <1>1, <1>2, <1>4 DEF ExecInv, RaceInv, Interrupted
<1>8. AnswerInv'
    BY <1>1, <1>5 DEF ExecInv, AnswerInv, Interrupted, Last
<1>. QED
    BY <1>4, <1>6, <1>7, <1>8 DEF ExecInv

\* A child is recorded while the turn works: the run is not over, or was given up.
LEMMA RecordKeeps ==
    ASSUME ExecInv, RecordChild
    PROVE  ExecInv'
<1>1. /\ work = "turn" /\ trace'.outcome = trace.outcome
      /\ trace' \in TraceRecord
      /\ UNCHANGED <<options, phase, messages, cursor, out, fatal, signalCode, work, code, ids>>
    <2>1. trace \in TraceRecord
        BY DEF ExecInv, ExecTypeOK
    <2>2. CASE trace' = [trace EXCEPT !.children = @ + 1]
        BY <2>1, <2>2 DEF RecordChild, TraceRecord
    <2>3. CASE trace' = [trace EXCEPT !.failed = TRUE]
        BY <2>1, <2>3 DEF RecordChild, TraceRecord
    <2>. QED
        BY <2>2, <2>3 DEF RecordChild
<1>2. LinesInv' /\ Answers' = Answers /\ Streams' = Streams /\ Traces' = Traces
    BY <1>1, LinesStay DEF ExecInv
<1>3. ExecTypeOK' /\ RaceInv'
    BY <1>1 DEF ExecInv, ExecTypeOK, RaceInv, Interrupted
<1>4. AnswerInv'
    BY <1>1, <1>2, Codes DEF ExecInv, AnswerInv, RaceInv, Interrupted, Last
<1>. QED
    BY <1>2, <1>3, <1>4 DEF ExecInv

LEMMA SignalKeeps ==
    ASSUME ExecInv, NEW n \in {SIGINT, SIGTERM}, Signal(n)
    PROVE  ExecInv'
<1>1. /\ phase = "running" /\ signalCode' = n
      /\ UNCHANGED <<options, phase, messages, cursor, out, fatal, work, ids, trace>>
      /\ code' = IF code = Unset THEN n ELSE code
    BY DEF Signal
<1>2. LinesInv' /\ Answers' = Answers /\ Streams' = Streams /\ Traces' = Traces
    BY <1>1, LinesStay DEF ExecInv
<1>3. ExecTypeOK'
    BY <1>1 DEF ExecInv, ExecTypeOK
<1>4. RaceInv'
    BY <1>1, Codes DEF ExecInv, RaceInv, Interrupted
<1>5. AnswerInv'
    BY <1>1, <1>2, Codes DEF ExecInv, AnswerInv, RaceInv, Interrupted, Last
<1>. QED
    BY <1>2, <1>3, <1>4, <1>5 DEF ExecInv

\* The turn comes to its end: given up, or with an answer that nothing has won from.
LEMMA WorkKeeps ==
    ASSUME ExecInv, WorkEnds \/ WorkThrows
    PROVE  ExecInv'
<1>1. /\ work = "turn" /\ work' = "over"
      /\ UNCHANGED <<options, phase, messages, fatal, signalCode, ids, trace>>
    BY DEF WorkEnds, WorkThrows
<1>2. /\ code = Unset => phase = "running" /\ signalCode = Unset
      /\ code # Unset => Interrupted /\ signalCode # Unset
    BY <1>1 DEF ExecInv, RaceInv
<1>3. phase = "running" => Answers = {}
    BY <1>1 DEF ExecInv, AnswerInv
<1>4. Streams' = Streams /\ Traces' = Traces
    BY <1>1 DEF Streams, Traces
<1>5. CASE /\ code # Unset \/ WorkThrows
           /\ UNCHANGED <<out, cursor>>
           /\ code' = IF code = Unset THEN 1 ELSE code
    <2>1. LinesInv' /\ Answers' = Answers
        BY <1>1, <1>5, LinesStay DEF ExecInv
    <2>2. ExecTypeOK'
        BY <1>1, <1>5 DEF ExecInv, ExecTypeOK
    <2>3. RaceInv'
        BY <1>1, <1>2, <1>5, Codes DEF ExecInv, RaceInv, Interrupted
    <2>4. CASE code = Unset
        <3>1. phase' = "running" /\ Answers' = {} /\ code' = 1
            BY <1>1, <1>2, <1>3, <1>5, <2>1, <2>4
        <3>2. ~Interrupted'
            BY <3>1, Codes DEF Interrupted
        <3>3. AnswerInv'
            BY <3>1, <3>2 DEF AnswerInv
        <3>. QED
            BY <2>1, <2>2, <2>3, <3>3 DEF ExecInv
    <2>5. CASE code # Unset
        <3>1. UNCHANGED <<phase, code, out, trace>> /\ Interrupted /\ Interrupted'
            BY <1>1, <1>2, <1>5, <2>5, Codes DEF Interrupted
        <3>2. AnswerInv'
            BY <1>3, <1>4, <2>1, <3>1 DEF ExecInv, AnswerInv, Last
        <3>. QED
            BY <2>1, <2>2, <2>3, <3>2 DEF ExecInv
    <2>. QED
        BY <2>4, <2>5
<1>6. ASSUME code = Unset, code' = IF fatal THEN 1 ELSE 0, cursor' \in 0..Len(messages),
             out' \in Seq(OutLine), LinesInv',
             \/ Answers' = {Len(out')} /\ Last(out').says = IF fatal THEN "error" ELSE "success"
             \/ Answers' = {} /\ fatal
             \/ Answers' = {Len(out')} /\ ~fatal /\ Last(out').says = "text"
      PROVE  ExecInv'
    <2>1. fatal \in BOOLEAN /\ phase = "running"
        BY <1>2, <1>6 DEF ExecInv, ExecTypeOK
    <2>2. ExecTypeOK'
        BY <1>1, <1>6, <2>1 DEF ExecInv, ExecTypeOK
    <2>3. RaceInv'
        BY <1>1, <1>2, <1>6, <2>1, Codes DEF ExecInv, RaceInv, Interrupted
    <2>4. AnswerInv'
        BY <1>1, <1>6, <2>1, Codes DEF AnswerInv, Interrupted
    <2>. QED
        BY <1>6, <2>2, <2>3, <2>4 DEF ExecInv
<1>7. CASE WorkThrows
    BY <1>5, <1>7 DEF WorkThrows, Won
<1>8. CASE WorkEnds /\ code # Unset
    <2>1. code' = code /\ UNCHANGED <<out, cursor>>
        BY <1>2, <1>8 DEF WorkEnds, Won
    <2>. QED
        BY <1>5, <1>8, <2>1
<1>9. CASE WorkEnds /\ code = Unset /\ Streams
    <2>. DEFINE what == IF fatal THEN "error" ELSE "success"
    <2>1. signalCode = Unset /\ Answers = {} /\ fatal \in BOOLEAN
        BY <1>2, <1>3, <1>9 DEF ExecInv, ExecTypeOK
    <2>2. Flush(<<Says(what)>>) /\ code' = IF fatal THEN 1 ELSE 0
        BY <1>9, <2>1 DEF WorkEnds, Won
    <2>3. what \in {"success", "error", "interrupted"} /\ <<Says(what)>> \in Ending
        BY <2>1 DEF Ending
    <2>4. cursor' \in 0..Len(messages) /\ out' \in Seq(OutLine) /\ LinesInv'
        BY <1>1, <2>2, <2>3, FlushKeepsLines DEF ExecInv
    <2>5. Answers' = {Len(out')} /\ Last(out').says = what
        BY <1>1, <1>9, <2>1, <2>2, <2>3, FlushAnswers DEF ExecInv
    <2>. QED
        BY <1>6, <1>9, <2>2, <2>4, <2>5
<1>10. CASE WorkEnds /\ code = Unset /\ ~Streams
    <2>1. signalCode = Unset /\ Answers = {} /\ fatal \in BOOLEAN
        BY <1>2, <1>3, <1>10 DEF ExecInv, ExecTypeOK
    <2>2. /\ out' = IF fatal THEN out ELSE Append(out, Says("text"))
          /\ code' = IF fatal THEN 1 ELSE 0
          /\ cursor' = cursor
        BY <1>10, <2>1 DEF WorkEnds, Won
    <2>3. cursor' \in 0..Len(messages)
        BY <2>2 DEF ExecInv, ExecTypeOK
    <2>4. CASE fatal
        <3>1. out' = out /\ out' \in Seq(OutLine)
            BY <2>2, <2>4 DEF ExecInv, ExecTypeOK
        <3>2. LinesInv' /\ Answers' = {}
            BY <1>1, <2>1, <2>2, <3>1, LinesStay DEF ExecInv
        <3>. QED
            BY <1>6, <1>10, <2>2, <2>3, <2>4, <3>1, <3>2
    <2>5. CASE ~fatal
        <3>1. out' = Append(out, Says("text"))
            BY <2>2, <2>5
        <3>2. out' \in Seq(OutLine) /\ LinesInv' /\ Answers' = {Len(out')} /\ Last(out').says = "text"
            BY <1>1, <1>10, <2>1, <2>2, <3>1, TextIsNoLine DEF ExecInv
        <3>. QED
            BY <1>6, <1>10, <2>2, <2>3, <2>5, <3>2
    <2>. QED
        BY <2>4, <2>5
<1>. QED
    BY <1>7, <1>8, <1>9, <1>10

\* The race is decided: the answer is there, or it is the interruption.
LEMMA FinishKeeps ==
    ASSUME ExecInv, Finish
    PROVE  ExecInv'
<1>1. /\ phase = "running" /\ phase' = "closing" /\ code # Unset
      /\ UNCHANGED <<options, messages, fatal, signalCode, work, ids>>
    BY DEF Finish
<1>2. PICK fails \in IF Traces THEN BOOLEAN ELSE {FALSE} :
            /\ trace' = [trace EXCEPT
                    !.failed = trace.failed \/ fails,
                    !.outcome = CASE ~Traces \/ fails -> Unset
                                  [] Interrupted -> "interrupted"
                                  [] code = 0    -> "completed"
                                  [] OTHER       -> "failed"]
            /\ code' = IF (trace.failed \/ fails) /\ code = 0 THEN 1 ELSE code
    BY DEF Finish
<1>3. Streams' = Streams /\ Traces' = Traces
    BY <1>1 DEF Streams, Traces
<1>4. trace' \in TraceRecord
    BY <1>2 DEF ExecInv, ExecTypeOK, TraceRecord
<1>5. CASE Interrupted
    <2>1. Answers = {}
        BY <1>1, <1>5 DEF ExecInv, AnswerInv
    <2>2. Flush(<<Says("interrupted")>>)
        BY <1>5 DEF Finish
    <2>3. <<Says("interrupted")>> \in Ending
        BY DEF Ending
    <2>4. cursor' \in 0..Len(messages) /\ out' \in Seq(OutLine) /\ LinesInv'
        BY <1>1, <2>2, <2>3, FlushKeepsLines DEF ExecInv
    <2>5. /\ ~Streams => Answers' = {}
          /\ Streams => Answers' = {Len(out')} /\ Last(out').says = "interrupted"
        BY <1>1, <2>1, <2>2, <2>3, FlushAnswers DEF ExecInv
    <2>6. code' = code
        BY <1>2, <1>5, Codes DEF Interrupted
    <2>7. ExecTypeOK'
        BY <1>1, <1>4, <2>4, <2>6 DEF ExecInv, ExecTypeOK
    <2>8. RaceInv'
        BY <1>1, <1>5, <2>6, Codes DEF ExecInv, RaceInv, Interrupted
    <2>9. AnswerInv'
        <3>1. phase' = "closing" /\ Interrupted' /\ code' # 0
            BY <1>1, <1>5, <2>6, Codes DEF Interrupted
        <3>2. Answers' \subseteq {Len(out')} /\ (Streams' = (Answers' # {}))
            <4>1. CASE Streams
                BY <1>3, <2>5, <4>1
            <4>2. CASE ~Streams
                <5>1. Answers' = {}
                    BY <2>5, <4>2
                <5>2. ~Streams'
                    BY <1>3, <4>2
                <5>. QED
                    BY <5>1, <5>2 DEF Streams
            <4>. QED
                BY <4>1, <4>2
        <3>3. Answers' # {} => Last(out').says = "interrupted"
            BY <2>5
        <3>. QED
            BY <3>1, <3>2, <3>3 DEF AnswerInv
    <2>. QED
        BY <2>4, <2>7, <2>8, <2>9 DEF ExecInv
<1>6. CASE ~Interrupted
    <2>1. UNCHANGED <<out, cursor>>
        BY <1>6 DEF Finish
    <2>2. LinesInv' /\ Answers' = Answers
        BY <1>1, <2>1, LinesStay DEF ExecInv
    <2>3. work = "over" /\ code \in {0, 1}
        BY <1>1, <1>6, Codes DEF ExecInv, ExecTypeOK, RaceInv, Interrupted
    <2>4. code' \in {0, 1} /\ (code' = 0 => code = 0)
          /\ (code = 0 /\ code' = 1 => trace'.failed)
        <3>1. trace'.failed = (trace.failed \/ fails) /\ trace.failed \in BOOLEAN /\ fails \in BOOLEAN
            BY <1>2 DEF ExecInv, ExecTypeOK, TraceRecord
        <3>. QED
            BY <1>2, <2>3, <3>1
    <2>5. code' = 0 /\ Traces => trace'.outcome = "completed"
        BY <1>2, <1>6, <2>3 DEF ExecInv, ExecTypeOK, TraceRecord
    <2>6. ExecTypeOK'
        BY <1>1, <1>4, <2>1, <2>4 DEF ExecInv, ExecTypeOK
    <2>7. RaceInv'
        BY <1>1, <2>1, <2>3, <2>4, Codes DEF ExecInv, RaceInv, Interrupted
    <2>8. AnswerInv'
        BY <1>1, <1>3, <1>6, <2>1, <2>2, <2>3, <2>4, <2>5, Codes
           DEF ExecInv, AnswerInv, Interrupted, Last
    <2>. QED
        BY <2>2, <2>6, <2>7, <2>8 DEF ExecInv
<1>. QED
    BY <1>5, <1>6

LEMMA EndKeeps ==
    ASSUME ExecInv, CleanUp \/ Killed \/ UNCHANGED execVars
    PROVE  ExecInv'
<1>1. /\ UNCHANGED <<options, messages, cursor, out, fatal, signalCode, work, ids, trace, code>>
      /\ \/ phase = "closing" /\ phase' = "ended"
         \/ phase \in {"starting", "closing"} /\ phase' = "killed"
         \/ phase' = phase
    BY DEF CleanUp, Killed, NoRun, execVars
<1>2. LinesInv' /\ Answers' = Answers /\ Streams' = Streams /\ Traces' = Traces
    BY <1>1, LinesStay DEF ExecInv
<1>3. ExecTypeOK'
    BY <1>1 DEF ExecInv, ExecTypeOK
<1>4. RaceInv'
    BY <1>1 DEF ExecInv, RaceInv, Interrupted
<1>5. AnswerInv'
    BY <1>1, <1>2 DEF ExecInv, AnswerInv, Interrupted, Last
<1>. QED
    BY <1>2, <1>3, <1>4, <1>5 DEF ExecInv

LEMMA ExecStep ==
    ASSUME ExecInv, [ExecNext]_execVars
    PROVE  ExecInv'
BY StartKeeps, BeginKeeps, EventKeeps, CommitKeeps, RecordKeeps, SignalKeeps, WorkKeeps,
   FinishKeeps, EndKeeps DEF ExecNext

\* The invariant says it: in the end the answer is the one of the code, and what
\* has a line before it has one.
LEMMA InvariantAnswers ==
    ASSUME ExecInv
    PROVE  OneAnswer
<1>. SUFFICES ASSUME phase \in {"closing", "ended"} PROVE OneAnswer
    BY DEF OneAnswer
<1>1. Streams => \A i \in 1..cursor : HasLine(messages[i]) =>
                    \E n \in Line(messages[i].id) : Line(messages[i].id) = {n}
    BY DEF ExecInv, LinesInv
<1>. QED
    BY <1>1 DEF ExecInv, AnswerInv, OneAnswer

\* However a signal, the answer, a failing trace and the end of the turn race:
\* what exec has printed is one answer at most, it is last, it agrees with the exit
\* code, and each message before it has its one line.
THEOREM ExecAnswersOnce == ExecSpec => []OneAnswer
<1>1. ExecInit => ExecInv
    <2>. SUFFICES ASSUME ExecInit PROVE ExecInv
        OBVIOUS
    <2>1. Answers = {}
        BY DEF ExecInit, Answers
    <2>2. ExecTypeOK
        <3>1. messages \in Seq(Commitment) /\ out \in Seq(OutLine) /\ cursor = 0 /\ Len(messages) = 0
            BY DEF ExecInit
        <3>2. trace \in TraceRecord
            BY DEF ExecInit, TraceRecord
        <3>3. cursor \in 0..Len(messages)
            BY <3>1
        <3>4. ids \in Nat /\ fatal \in BOOLEAN /\ signalCode = Unset /\ work = "off" /\ code = Unset
            BY DEF ExecInit
        <3>. QED
            BY <3>1, <3>2, <3>3, <3>4 DEF ExecTypeOK
    <2>3. LinesInv
        BY DEF ExecInit, LinesInv
    <2>4. RaceInv /\ AnswerInv
        BY <2>1, Codes DEF ExecInit, RaceInv, AnswerInv, Interrupted
    <2>. QED
        BY <2>2, <2>3, <2>4 DEF ExecInv
<1>2. ExecInv /\ [ExecNext]_execVars => ExecInv'
    BY ExecStep
<1>. QED
    BY <1>1, <1>2, InvariantAnswers, PTL DEF ExecSpec

-----------------------------------------------------------------------------
(* Accounting: sums over the messages of a history.                        *)

LEMMA LeastNat ==
    ASSUME NEW T \in SUBSET Nat, T # {}
    PROVE  \E n \in T : \A m \in T : ~ (m < n)
<1>. DEFINE R == {ss \in Nat \X Nat : ss[1] < ss[2]}
<1>1. IsWellFoundedOn(R, Nat)
    BY NatLessThanWellFounded DEF OpToRel
<1>2. PICK n \in T : \A m \in T : ~(<<m, n>> \in R)
    BY <1>1, WFMin
<1>. QED
    BY <1>2

\* What a fold sums, element by element; the sum of a part of S is its value.
Pick(s) == CHOOSE x \in s : TRUE

Sums(g, w, S) ==
    /\ g \in [SUBSET S -> Nat]
    /\ \A s \in SUBSET S : g[s] = IF s = {} THEN 0 ELSE w[Pick(s)] + g[s \ {Pick(s)}]

LEMMA PickIsIn == ASSUME NEW s, s # {} PROVE Pick(s) \in s
BY DEF Pick

LEMMA LessOne ==
    ASSUME NEW s, IsFiniteSet(s), NEW x \in s
    PROVE  /\ IsFiniteSet(s \ {x})
           /\ Cardinality(s) \in Nat /\ Cardinality(s \ {x}) \in Nat
           /\ Cardinality(s \ {x}) = Cardinality(s) - 1
           /\ Cardinality(s \ {x}) < Cardinality(s)
<1>1. IsFiniteSet(s \ {x}) /\ Cardinality(s \ {x}) = Cardinality(s) - 1
    BY FS_RemoveElement
<1>2. Cardinality(s) \in Nat /\ Cardinality(s \ {x}) \in Nat
    BY <1>1, FS_CardinalityType
<1>. QED
    BY <1>1, <1>2

\* There is such a fold of every finite set: one that goes as far as n elements
\* gives one that goes one further.
LEMMA SumsExist ==
    ASSUME NEW S, IsFiniteSet(S), NEW w \in [S -> Nat]
    PROVE  \E g : Sums(g, w, S)
<1>. DEFINE Upto(n) == {s \in SUBSET S : Cardinality(s) <= n}
            Goes(g, n) ==
                /\ g \in [Upto(n) -> Nat]
                /\ \A s \in Upto(n) : g[s] = IF s = {} THEN 0 ELSE w[Pick(s)] + g[s \ {Pick(s)}]
            Short == {n \in Nat : ~ \E g : Goes(g, n)}
<1>1. \A s \in SUBSET S : IsFiniteSet(s) /\ Cardinality(s) \in Nat
    BY FS_Subset, FS_CardinalityType
<1>2. \A s \in SUBSET S : s # {} =>
            /\ Pick(s) \in S /\ s \ {Pick(s)} \in SUBSET S
            /\ Cardinality(s \ {Pick(s)}) \in Nat
            /\ Cardinality(s \ {Pick(s)}) = Cardinality(s) - 1
    BY <1>1, PickIsIn, LessOne
<1>3. 0 \notin Short
    <2>. DEFINE g == [s \in Upto(0) |-> 0]
    <2>1. \A s \in Upto(0) : s = {}
        BY <1>1, FS_EmptySet
    <2>2. Goes(g, 0)
        BY <2>1
    <2>. QED
        BY <2>2
<1>4. ASSUME NEW n \in Nat, n \notin Short
      PROVE  n + 1 \notin Short
    <2>1. PICK f : Goes(f, n)
        BY <1>4
    <2>. DEFINE g == [s \in Upto(n + 1) |-> IF s = {} THEN 0 ELSE w[Pick(s)] + f[s \ {Pick(s)}]]
    <2>2. \A s \in Upto(n + 1) : s # {} => s \ {Pick(s)} \in Upto(n)
        BY <1>1, <1>2
    <2>3. \A s \in Upto(n) : s \in Upto(n + 1)
        BY <1>1
    <2>4. \A s \in Upto(n + 1) : (IF s = {} THEN 0 ELSE w[Pick(s)] + f[s \ {Pick(s)}]) \in Nat
        BY <1>2, <2>1, <2>2
    <2>5. g \in [Upto(n + 1) -> Nat]
        BY <2>4
    <2>6. \A s \in Upto(n) : g[s] = f[s]
        BY <2>1, <2>3
    <2>7. \A s \in Upto(n + 1) : g[s] = IF s = {} THEN 0 ELSE w[Pick(s)] + g[s \ {Pick(s)}]
        BY <2>2, <2>6
    <2>. HIDE DEF g, Upto
    <2>8. Goes(g, n + 1)
        BY <2>5, <2>7
    <2>. QED
        BY <2>8
<1>5. Short = {}
    <2>. SUFFICES ASSUME Short # {} PROVE FALSE
        OBVIOUS
    <2>. HIDE DEF Goes
    <2>1. PICK n \in Short : \A m \in Short : ~ (m < n)
        BY LeastNat
    <2>. HIDE DEF Short
    <2>2. n \in Nat /\ n # 0
        BY <1>3, <2>1 DEF Short
    <2>3. n - 1 \in Nat /\ n - 1 < n /\ (n - 1) + 1 = n
        BY <2>2
    <2>4. n - 1 \notin Short
        BY <2>1, <2>3
    <2>. QED
        BY <1>4, <2>1, <2>3, <2>4
<1>6. Cardinality(S) \in Nat /\ Upto(Cardinality(S)) = SUBSET S
    BY FS_Subset, FS_CardinalityType
<1>7. PICK g : Goes(g, Cardinality(S))
    BY <1>5, <1>6
<1>8. Sums(g, w, S)
    <2>. HIDE DEF Upto
    <2>. QED
        BY <1>6, <1>7 DEF Sums
<1>. QED
    BY <1>8

\* It may begin with any element, and depends on nothing but the weights.
LEMMA SumsTakeAny ==
    ASSUME NEW S, IsFiniteSet(S), NEW w \in [S -> Nat], NEW g, Sums(g, w, S),
           NEW s \in SUBSET S, NEW x \in s
    PROVE  g[s] = w[x] + g[s \ {x}]
<1>. DEFINE Wrong(t) == \E y \in t : g[t] # w[y] + g[t \ {y}]
            T == {n \in Nat : \E t \in SUBSET S : Cardinality(t) = n /\ Wrong(t)}
<1>. SUFFICES ASSUME Wrong(s) PROVE FALSE
    OBVIOUS
<1>1. \A t \in SUBSET S : IsFiniteSet(t) /\ Cardinality(t) \in Nat
    BY FS_Subset, FS_CardinalityType
<1>2. Cardinality(s) \in T
    <2>. HIDE DEF Wrong
    <2>. QED
        BY <1>1
<1>3. PICK n \in T : \A m \in T : ~ (m < n)
    <2>. HIDE DEF Wrong
    <2>1. T \in SUBSET Nat /\ T # {}
        BY <1>2
    <2>. HIDE DEF T
    <2>. QED
        BY <2>1, LeastNat
<1>4. PICK t \in SUBSET S : Cardinality(t) = n /\ Wrong(t)
    <2>. HIDE DEF Wrong
    <2>. QED
        BY <1>3
<1>5. PICK y \in t : g[t] # w[y] + g[t \ {y}]
    BY <1>4
<1>. DEFINE p == Pick(t)
<1>6. p \in t /\ g[t] = w[p] + g[t \ {p}]
    BY <1>5, PickIsIn DEF Sums
<1>. HIDE DEF p
<1>7. p # y
    BY <1>5, <1>6
<1>8. ASSUME NEW q \in t
      PROVE  ~ Wrong(t \ {q})
    <2>1. Cardinality(t \ {q}) \in Nat /\ Cardinality(t \ {q}) < n
        BY <1>1, <1>4, LessOne
    <2>. HIDE DEF Wrong
    <2>2. Cardinality(t \ {q}) \notin T
        BY <1>3, <2>1
    <2>. QED
        BY <2>1, <2>2
<1>9. g[t \ {p}] = w[y] + g[(t \ {p}) \ {y}] /\ g[t \ {y}] = w[p] + g[(t \ {y}) \ {p}]
    BY <1>6, <1>7, <1>8
<1>10. (t \ {p}) \ {y} = (t \ {y}) \ {p} /\ (t \ {p}) \ {y} \in SUBSET S
    OBVIOUS
<1>11. PICK rest \in Nat : rest = g[(t \ {p}) \ {y}] /\ rest = g[(t \ {y}) \ {p}]
    BY <1>6, <1>10 DEF Sums
<1>12. w[p] \in Nat /\ w[y] \in Nat
    BY <1>6
<1>13. g[t] = w[p] + (w[y] + rest) /\ w[y] + g[t \ {y}] = w[y] + (w[p] + rest)
    BY <1>6, <1>9, <1>11
<1>. QED
    BY <1>5, <1>11, <1>12, <1>13

LEMMA SumsAgree ==
    ASSUME NEW S, IsFiniteSet(S), NEW v, NEW w, NEW f, NEW g,
           NEW R, Sums(f, v, S), Sums(g, w, R), S \subseteq R, \A x \in S : v[x] = w[x]
    PROVE  f[S] = g[S]
<1>. DEFINE Wrong(t) == f[t] # g[t]
            T == {n \in Nat : \E t \in SUBSET S : Cardinality(t) = n /\ Wrong(t)}
<1>. SUFFICES ASSUME Wrong(S) PROVE FALSE
    OBVIOUS
<1>1. \A t \in SUBSET S : IsFiniteSet(t) /\ Cardinality(t) \in Nat
    BY FS_Subset, FS_CardinalityType
<1>2. Cardinality(S) \in T
    BY <1>1
<1>3. PICK n \in T : \A m \in T : ~ (m < n)
    <2>1. T \in SUBSET Nat /\ T # {}
        BY <1>2
    <2>. HIDE DEF T
    <2>. QED
        BY <2>1, LeastNat
<1>4. PICK t \in SUBSET S : Cardinality(t) = n /\ Wrong(t)
    BY <1>3
<1>5. t # {} /\ t \in SUBSET R
    BY <1>4 DEF Sums
<1>. DEFINE p == Pick(t)
<1>6. p \in t /\ f[t] = v[p] + f[t \ {p}] /\ g[t] = w[p] + g[t \ {p}]
    BY <1>5, PickIsIn DEF Sums
<1>. HIDE DEF p
<1>7. Cardinality(t \ {p}) \in Nat /\ Cardinality(t \ {p}) < n /\ t \ {p} \in SUBSET S
    BY <1>1, <1>4, <1>6, LessOne
<1>8. Cardinality(t \ {p}) \notin T
    BY <1>3, <1>7
<1>9. f[t \ {p}] = g[t \ {p}]
    BY <1>7, <1>8
<1>. QED
    BY <1>4, <1>6, <1>9

\* Tokens sums the weights of the messages at the positions of K.
Weight(m) == m.text + m.calls

Weighed(h, K) == \A i \in K : Weight(h[i]) \in Nat

Totals(h, K, w, g) ==
    /\ w \in [K -> Nat] /\ \A i \in K : w[i] = Weight(h[i])
    /\ Sums(g, w, K) /\ Tokens(h, K) = g[K]

LEMMA TokensAreSums ==
    ASSUME NEW h, NEW K, IsFiniteSet(K), Weighed(h, K)
    PROVE  \E w, g : Totals(h, K, w, g)
<1>. DEFINE w == [i \in K |-> Weight(h[i])]
            Fold(f) == f = [s \in SUBSET K |->
                            IF s = {} THEN 0 ELSE Weight(h[Pick(s)]) + f[s \ {Pick(s)}]]
<1>1. w \in [K -> Nat] /\ \A i \in K : w[i] = Weight(h[i])
    BY DEF Weighed
<1>2. PICK g : Sums(g, w, K)
    BY <1>1, SumsExist
<1>3. Fold(g)
    <2>1. \A s \in SUBSET K : s # {} => w[Pick(s)] = Weight(h[Pick(s)])
        BY <1>1, PickIsIn
    <2>2. \A s \in SUBSET K :
            g[s] = IF s = {} THEN 0 ELSE Weight(h[Pick(s)]) + g[s \ {Pick(s)}]
        BY <1>2, <2>1 DEF Sums
    <2>3. g = [s \in SUBSET K |-> g[s]]
        BY <1>2 DEF Sums
    <2>. QED
        BY <2>2, <2>3
<1>4. Fold(CHOOSE f : Fold(f))
    <2>. HIDE DEF Fold
    <2>. QED
        BY <1>3
<1>5. Tokens(h, K) = (CHOOSE f : Fold(f))[K]
    BY DEF Tokens, MapThenSumSet, MapThenFoldSet, Weight, Pick
<1>6. PICK f : Fold(f) /\ Tokens(h, K) = f[K]
    <2>. HIDE DEF Fold
    <2>. QED
        BY <1>4, <1>5
\* The fold that is chosen is the one that exists.
<1>7. f = g
    <2>. DEFINE Wrong(t) == f[t] # g[t]
                T == {n \in Nat : \E t \in SUBSET K : Cardinality(t) = n /\ Wrong(t)}
    <2>1. \A t \in SUBSET K : IsFiniteSet(t) /\ Cardinality(t) \in Nat
        BY FS_Subset, FS_CardinalityType
    <2>2. ASSUME NEW s \in SUBSET K, Wrong(s) PROVE FALSE
        <3>1. T \in SUBSET Nat /\ T # {}
            BY <2>1, <2>2
        <3>2. PICK n \in T : \A m \in T : ~ (m < n)
            <4>. HIDE DEF T
            <4>. QED
                BY <3>1, LeastNat
        <3>3. PICK t \in SUBSET K : Cardinality(t) = n /\ Wrong(t)
            BY <3>2
        <3>4. t # {}
            BY <1>3, <1>6, <3>3
        <3>. DEFINE p == Pick(t)
        <3>5. p \in t /\ f[t] = Weight(h[p]) + f[t \ {p}] /\ g[t] = Weight(h[p]) + g[t \ {p}]
            BY <1>3, <1>6, <3>4, PickIsIn
        <3>. HIDE DEF p
        <3>6. Cardinality(t \ {p}) \in Nat /\ Cardinality(t \ {p}) < n /\ t \ {p} \in SUBSET K
            BY <2>1, <3>3, <3>5, LessOne
        <3>7. Cardinality(t \ {p}) \notin T
            BY <3>2, <3>6
        <3>8. f[t \ {p}] = g[t \ {p}]
            BY <3>6, <3>7
        <3>. QED
            BY <3>3, <3>5, <3>8
    <2>3. \A s \in SUBSET K : f[s] = g[s]
        BY <2>2
    <2>4. f = [s \in SUBSET K |-> f[s]] /\ g = [s \in SUBSET K |-> g[s]]
        BY <1>3, <1>6
    <2>. QED
        BY <2>3, <2>4
<1>8. Totals(h, K, w, g)
    BY <1>1, <1>2, <1>6, <1>7 DEF Totals
<1>. QED
    BY <1>8

LEMMA NoTokens == ASSUME NEW h PROVE Tokens(h, {}) = 0
<1>1. IsFiniteSet({}) /\ Weighed(h, {})
    BY FS_EmptySet DEF Weighed
<1>2. PICK w, g : Totals(h, {}, w, g)
    BY <1>1, TokensAreSums
<1>. QED
    BY <1>2 DEF Totals, Sums

LEMMA TokensLess ==
    ASSUME NEW h, NEW K, IsFiniteSet(K), Weighed(h, K), NEW i \in K
    PROVE  /\ Tokens(h, K) \in Nat /\ Tokens(h, K \ {i}) \in Nat
           /\ Tokens(h, K) = Weight(h[i]) + Tokens(h, K \ {i})
<1>1. PICK w, g : Totals(h, K, w, g)
    BY TokensAreSums
<1>2. IsFiniteSet(K \ {i}) /\ Weighed(h, K \ {i}) /\ K \ {i} \in SUBSET K
    BY FS_Subset DEF Weighed
<1>3. PICK v, f : Totals(h, K \ {i}, v, f)
    BY <1>2, TokensAreSums
<1>4. /\ Sums(g, w, K) /\ w \in [K -> Nat] /\ Tokens(h, K) = g[K] /\ w[i] = Weight(h[i])
      /\ Sums(f, v, K \ {i}) /\ Tokens(h, K \ {i}) = f[K \ {i}]
    BY <1>1, <1>3 DEF Totals
<1>5. g[K] = w[i] + g[K \ {i}]
    BY <1>4, SumsTakeAny
<1>6. \A j \in K \ {i} : v[j] = w[j]
    BY <1>1, <1>3 DEF Totals
<1>7. f[K \ {i}] = g[K \ {i}]
    <2>. DEFINE S == K \ {i}
    <2>1. IsFiniteSet(S) /\ S \subseteq K /\ Sums(f, v, S) /\ \A j \in S : v[j] = w[j]
        BY <1>2, <1>4, <1>6
    <2>. HIDE DEF S
    <2>2. f[S] = g[S]
        BY <1>4, <2>1, SumsAgree
    <2>. QED
        BY <2>2 DEF S
<1>8. g[K] \in Nat /\ f[K \ {i}] \in Nat
    BY <1>4 DEF Sums
<1>. QED
    BY <1>4, <1>5, <1>7, <1>8

LEMMA TokensMore ==
    ASSUME NEW h, NEW K, IsFiniteSet(K), NEW i, i \notin K, Weighed(h, K \cup {i})
    PROVE  /\ Tokens(h, K) \in Nat
           /\ Tokens(h, K \cup {i}) = Weight(h[i]) + Tokens(h, K)
<1>. DEFINE L == K \cup {i}
<1>1. IsFiniteSet(L) /\ Weighed(h, L) /\ i \in L /\ L \ {i} = K
    BY FS_AddElement
<1>. HIDE DEF L
<1>2. Tokens(h, L \ {i}) \in Nat /\ Tokens(h, L) = Weight(h[i]) + Tokens(h, L \ {i})
    BY <1>1, TokensLess
<1>. QED
    BY <1>1, <1>2 DEF L

LEMMA SameTokens ==
    ASSUME NEW h, NEW k, NEW K, IsFiniteSet(K), Weighed(h, K),
           \A i \in K : Weight(k[i]) = Weight(h[i])
    PROVE  Tokens(h, K) = Tokens(k, K)
<1>1. PICK w, g : Totals(h, K, w, g)
    BY TokensAreSums
<1>2. Weighed(k, K)
    BY DEF Weighed
<1>3. PICK v, f : Totals(k, K, v, f)
    BY <1>2, TokensAreSums
<1>4. K \subseteq K /\ (\A j \in K : w[j] = v[j])
    BY <1>1, <1>3 DEF Totals
<1>5. Sums(g, w, K) /\ Sums(f, v, K)
    BY <1>1, <1>3 DEF Totals
<1>6. g[K] = f[K]
    BY <1>4, <1>5, SumsAgree
<1>. QED
    BY <1>1, <1>3, <1>6 DEF Totals

\* A history whose markers point at messages before them, or at themselves.
SizedMessage ==
    [role : {"user", "assistant"},
     kind : {"prompt", "reply", "results", "model-switch", "compaction", "interrupted"},
     text : Nat, calls : Nat, tail : Nat]

WellMarked(h) ==
    /\ h \in Seq(SizedMessage)
    /\ \A i \in 1..Len(h) : h[i].kind = "compaction" => h[i].tail \in 1..i

InContext(h) == Sized!Context(h) \cup ({Sized!LastMarker(h)} \ {0})

LEMMA WeightIsNat == ASSUME NEW m \in SizedMessage PROVE Weight(m) \in Nat
BY DEF Weight, SizedMessage

LEMMA AllWeighed ==
    ASSUME NEW h \in Seq(SizedMessage), NEW K \in SUBSET (1..Len(h))
    PROVE  /\ IsFiniteSet(K) /\ Weighed(h, K)
           /\ Tokens(h, K) \in Nat
<1>1. Len(h) \in Nat /\ IsFiniteSet(1..Len(h))
    BY FS_Interval
<1>2. IsFiniteSet(K)
    BY <1>1, FS_Subset
<1>3. ASSUME NEW i \in K PROVE Weight(h[i]) \in Nat
    <2>1. h[i] \in SizedMessage
        BY <1>1
    <2>. QED
        BY <2>1, WeightIsNat
<1>4. Weighed(h, K)
    BY <1>3 DEF Weighed
<1>5. CASE K = {}
    BY <1>2, <1>4, <1>5, NoTokens
<1>6. CASE K # {}
    BY <1>2, <1>4, <1>6, TokensLess
<1>. QED
    BY <1>2, <1>4, <1>5, <1>6

\* A nonempty set of positions has a last one, which is what CHOOSE names.
LEMMA LastOf ==
    ASSUME NEW n \in Nat, NEW K \in SUBSET (0..n), K # {}
    PROVE  /\ \E i \in K : \A j \in K : j <= i
           /\ \E i \in K : \A j \in K : i <= j
<1>1. \E i \in K : \A j \in K : i <= j
    <2>1. K \in SUBSET Nat
        OBVIOUS
    <2>2. PICK i \in K : \A j \in K : ~ (j < i)
        BY <2>1, LeastNat
    <2>. QED
        BY <2>2
<1>2. \E i \in K : \A j \in K : j <= i
    <2>. DEFINE T == {n - i : i \in K}
    <2>1. T \in SUBSET Nat /\ T # {}
        <3>1. \A i \in K : i \in Nat /\ n - i \in Nat
            OBVIOUS
        <3>. QED
            BY <3>1
    <2>2. PICK m \in T : \A k \in T : ~ (k < m)
        <3>. HIDE DEF T
        <3>. QED
            BY <2>1, LeastNat
    <2>3. PICK i \in K : m = n - i
        BY <2>2
    <2>4. ASSUME NEW j \in K PROVE j <= i
        <3>1. ~ (n - j < m)
            BY <2>2
        <3>. QED
            BY <2>3, <3>1
    <2>. QED
        BY <2>4
<1>. QED
    BY <1>1, <1>2

LEMMA ContextIsInside ==
    ASSUME NEW h, WellMarked(h)
    PROVE  /\ Sized!Markers(h) # {} => Sized!LastMarker(h) \in Sized!Markers(h)
           /\ Sized!TailStart(h) \in 1..Len(h) + 1
           /\ InContext(h) \in SUBSET (1..Len(h))
           /\ Sized!Context(h) \in SUBSET (1..Len(h))
           /\ Len(h) > 0 /\ h[Len(h)].kind # "compaction" => Len(h) \in Sized!Context(h)
<1>1. h \in Seq(SizedMessage) /\ Len(h) \in Nat /\ DOMAIN h = 1..Len(h)
    BY DEF WellMarked
<1>2. Sized!Markers(h) \in SUBSET (1..Len(h))
    BY <1>1 DEF Sized!Markers
<1>3. ASSUME Sized!Markers(h) # {}
      PROVE  Sized!LastMarker(h) \in Sized!Markers(h)
    <2>1. Sized!Markers(h) \in SUBSET (0..Len(h))
        BY <1>1, <1>2
    <2>2. \E i \in Sized!Markers(h) : \A j \in Sized!Markers(h) : j <= i
        BY <1>1, <1>3, <2>1, LastOf
    <2>3. Sized!LastMarker(h) = CHOOSE i \in Sized!Markers(h) : \A j \in Sized!Markers(h) : j <= i
        BY <1>3 DEF Sized!LastMarker
    <2>. QED
        BY <2>2, <2>3
<1>4. Sized!TailStart(h) \in 1..Len(h) + 1
    <2>1. CASE Sized!Markers(h) = {}
        BY <1>1, <2>1 DEF Sized!TailStart
    <2>2. CASE Sized!Markers(h) # {}
        <3>1. h[Sized!LastMarker(h)].tail \in 1..Sized!LastMarker(h) /\ Sized!LastMarker(h) \in 1..Len(h)
            BY <1>2, <1>3, <2>2 DEF WellMarked, Sized!Markers
        <3>2. Sized!TailStart(h) = h[Sized!LastMarker(h)].tail
            BY <2>2 DEF Sized!TailStart
        <3>. QED
            BY <1>1, <3>1, <3>2
    <2>. QED
        BY <2>1, <2>2
<1>5. Sized!Context(h) \in SUBSET (1..Len(h))
    BY <1>1, <1>4 DEF Sized!Context
<1>6. {Sized!LastMarker(h)} \ {0} \in SUBSET (1..Len(h))
    <2>1. CASE Sized!Markers(h) = {}
        BY <2>1 DEF Sized!LastMarker
    <2>2. CASE Sized!Markers(h) # {}
        BY <1>2, <1>3, <2>2
    <2>. QED
        BY <2>1, <2>2
<1>7. ASSUME Len(h) > 0, h[Len(h)].kind # "compaction"
      PROVE  Len(h) \in Sized!Context(h)
    <2>1. Len(h) \notin Sized!Markers(h)
        BY <1>7 DEF Sized!Markers
    <2>2. Sized!TailStart(h) <= Len(h)
        <3>1. CASE Sized!Markers(h) = {}
            BY <1>1, <1>7, <3>1 DEF Sized!TailStart
        <3>2. CASE Sized!Markers(h) # {}
            <4>1. h[Sized!LastMarker(h)].tail \in 1..Sized!LastMarker(h) /\ Sized!LastMarker(h) \in 1..Len(h)
                BY <1>2, <1>3, <3>2 DEF WellMarked, Sized!Markers
            <4>2. Sized!TailStart(h) = h[Sized!LastMarker(h)].tail
                BY <3>2 DEF Sized!TailStart
            <4>. QED
                BY <1>1, <4>1, <4>2
        <3>. QED
            BY <3>1, <3>2
    <2>. QED
        BY <1>1, <1>4, <2>1, <2>2 DEF Sized!Context
<1>. QED
    BY <1>3, <1>4, <1>5, <1>6, <1>7 DEF InContext

\* A message that is no marker comes into the context, and brings its weight.
Appends(h, m, k) ==
    /\ WellMarked(k) /\ Len(k) = Len(h) + 1 /\ k[Len(k)] = m
    /\ \A i \in 1..Len(h) : k[i] = h[i]
    /\ ContextTokens(k) = ContextTokens(h) + Weight(m)
    /\ \A from \in 0..Len(h) :
            Tokens(k, from + 1..Len(k)) = Tokens(h, from + 1..Len(h)) + Weight(m)

LEMMA Appending ==
    ASSUME NEW h, WellMarked(h), NEW m \in SizedMessage, m.kind # "compaction", NEW k, k = Append(h, m)
    PROVE  Appends(h, m, k)
<1>1. PICK n \in Nat : n = Len(h) /\ h \in Seq(SizedMessage) /\ DOMAIN h = 1..n
    BY DEF WellMarked
<1>2. /\ k \in Seq(SizedMessage) /\ Len(k) = n + 1 /\ DOMAIN k = 1..n + 1
      /\ k[n + 1] = m /\ \A i \in 1..n : k[i] = h[i]
    BY <1>1
<1>3. \A i \in 1..n + 1 : i \in 1..n \/ i = n + 1
    BY <1>1
<1>4. WellMarked(k)
    BY <1>1, <1>2, <1>3 DEF WellMarked
<1>5. Sized!Markers(k) = Sized!Markers(h)
    BY <1>1, <1>2, <1>3 DEF Sized!Markers
<1>6. Sized!LastMarker(k) = Sized!LastMarker(h)
    BY <1>5 DEF Sized!LastMarker
<1>7. Sized!TailStart(k) = Sized!TailStart(h)
    BY <1>1, <1>2, <1>5, <1>6, ContextIsInside DEF Sized!TailStart, Sized!Markers
<1>8. InContext(k) = InContext(h) \cup {n + 1}
    <2>1. Sized!TailStart(h) \in 1..n + 1 /\ n + 1 \notin Sized!Markers(h)
        BY <1>1, ContextIsInside DEF Sized!Markers
    <2>2. Sized!TailStart(h)..n + 1 = (Sized!TailStart(h)..n) \cup {n + 1}
        BY <2>1
    <2>3. Sized!Context(k) = Sized!Context(h) \cup {n + 1}
        BY <1>1, <1>2, <1>5, <1>7, <2>1, <2>2 DEF Sized!Context
    <2>. QED
        BY <1>6, <2>3 DEF InContext
<1>9. ASSUME NEW K \in SUBSET (1..n)
      PROVE  Tokens(k, K \cup {n + 1}) = Tokens(h, K) + Weight(m)
    <2>1. IsFiniteSet(K) /\ Weighed(h, K) /\ Tokens(h, K) \in Nat
        BY <1>1, AllWeighed
    <2>2. Tokens(h, K) = Tokens(k, K)
        <3>1. \A i \in K : Weight(k[i]) = Weight(h[i])
            BY <1>2
        <3>. QED
            BY <2>1, <3>1, SameTokens
    <2>3. K \cup {n + 1} \in SUBSET (1..Len(k))
        <3>1. n + 1 \in 1..n + 1 /\ \A i \in K : i \in 1..n + 1
            BY <1>1
        <3>. QED
            BY <1>2, <3>1
    <2>4. Weighed(k, K \cup {n + 1})
        BY <1>2, <2>3, AllWeighed
    <2>5. n + 1 \notin K
        BY <1>1
    <2>6. Tokens(k, K \cup {n + 1}) = Weight(k[n + 1]) + Tokens(k, K)
        BY <2>1, <2>4, <2>5, TokensMore
    <2>7. Weight(m) \in Nat
        BY <1>2, <2>4 DEF Weighed
    <2>. QED
        BY <1>2, <2>1, <2>2, <2>6, <2>7
<1>10. ContextTokens(k) = ContextTokens(h) + Weight(m)
    <2>1. InContext(h) \in SUBSET (1..n)
        BY <1>1, ContextIsInside
    <2>. QED
        BY <1>8, <1>9, <2>1 DEF ContextTokens, InContext
<1>11. ASSUME NEW from \in 0..n
       PROVE  Tokens(k, from + 1..n + 1) = Tokens(h, from + 1..n) + Weight(m)
    <2>1. from + 1..n + 1 = (from + 1..n) \cup {n + 1} /\ (from + 1..n) \in SUBSET (1..n)
        BY <1>1
    <2>. QED
        BY <1>9, <2>1
<1>. QED
    BY <1>1, <1>2, <1>4, <1>10, <1>11 DEF Appends

\* The last message, when it is no marker, gives way to another in the context.
LEMMA Replacing ==
    ASSUME NEW h, WellMarked(h), h # <<>>, h[Len(h)].kind # "compaction",
           NEW m \in SizedMessage, m.kind # "compaction",
           NEW k \in Seq(SizedMessage), Len(k) = Len(h), k[Len(h)] = m,
           \A i \in 1..Len(h) : i # Len(h) => k[i] = h[i]
    PROVE  /\ WellMarked(k) /\ Len(k) = Len(h) /\ k[Len(h)] = m
           /\ Weight(m) \in Nat /\ Weight(h[Len(h)]) \in Nat
           /\ ContextTokens(k) + Weight(h[Len(h)]) = ContextTokens(h) + Weight(m)
           /\ \A from \in 0..Len(h) :
                IF from = Len(h) THEN Tokens(k, from + 1..Len(k)) = Tokens(h, from + 1..Len(h))
                ELSE Tokens(k, from + 1..Len(k)) + Weight(h[Len(h)])
                     = Tokens(h, from + 1..Len(h)) + Weight(m)
<1>1. PICK n \in Nat : n = Len(h) /\ n >= 1 /\ h \in Seq(SizedMessage) /\ DOMAIN h = 1..n
    <2>1. h \in Seq(SizedMessage) /\ Len(h) \in Nat /\ DOMAIN h = 1..Len(h) /\ Len(h) # 0
        BY DEF WellMarked
    <2>2. Len(h) >= 1
        BY <2>1
    <2>. QED
        BY <2>1, <2>2
<1>2. /\ Len(k) = n /\ DOMAIN k = 1..n
      /\ k[n] = m /\ \A i \in 1..n : i # n => k[i] = h[i]
    BY <1>1
<1>3. WellMarked(k)
    BY <1>1, <1>2 DEF WellMarked
<1>4. Sized!Markers(k) = Sized!Markers(h)
    BY <1>1, <1>2 DEF Sized!Markers
<1>5. Sized!LastMarker(k) = Sized!LastMarker(h)
    BY <1>4 DEF Sized!LastMarker
<1>6. Sized!TailStart(k) = Sized!TailStart(h)
    BY <1>1, <1>2, <1>4, <1>5, ContextIsInside DEF Sized!TailStart, Sized!Markers
<1>7. InContext(k) = InContext(h) /\ n \in InContext(h)
    <2>1. Sized!Context(k) = Sized!Context(h)
        BY <1>1, <1>2, <1>4, <1>6 DEF Sized!Context
    <2>2. n \in Sized!Context(h)
        BY <1>1, ContextIsInside
    <2>. QED
        BY <1>5, <2>1, <2>2 DEF InContext
<1>8. Weight(h[n]) \in Nat /\ Weight(m) \in Nat
    <2>1. h[n] \in SizedMessage
        BY <1>1
    <2>. QED
        BY <2>1, WeightIsNat
<1>9. ASSUME NEW K \in SUBSET (1..n), n \in K
      PROVE  Tokens(k, K) + Weight(h[n]) = Tokens(h, K) + Weight(m)
    <2>1. IsFiniteSet(K) /\ Weighed(h, K) /\ Weighed(k, K)
        BY <1>1, <1>2, AllWeighed
    <2>2. Tokens(h, K \ {n}) \in Nat /\ Tokens(h, K) = Weight(h[n]) + Tokens(h, K \ {n})
        BY <1>9, <2>1, TokensLess
    <2>3. Tokens(k, K) = Weight(k[n]) + Tokens(k, K \ {n})
        BY <1>9, <2>1, TokensLess
    <2>4. Tokens(h, K \ {n}) = Tokens(k, K \ {n})
        <3>1. K \ {n} \in SUBSET (1..n)
            OBVIOUS
        <3>2. IsFiniteSet(K \ {n}) /\ Weighed(h, K \ {n})
            BY <1>1, <3>1, AllWeighed
        <3>3. \A i \in K \ {n} : Weight(k[i]) = Weight(h[i])
            BY <1>2
        <3>. QED
            BY <3>2, <3>3, SameTokens
    <2>. QED
        BY <1>2, <1>8, <2>2, <2>3, <2>4
<1>10. ContextTokens(k) + Weight(h[n]) = ContextTokens(h) + Weight(m)
    <2>1. InContext(h) \in SUBSET (1..n)
        BY <1>1, ContextIsInside
    <2>. QED
        BY <1>7, <1>9, <2>1 DEF ContextTokens, InContext
<1>11. ASSUME NEW from \in 0..n, from # n
       PROVE  Tokens(k, from + 1..n) + Weight(h[n]) = Tokens(h, from + 1..n) + Weight(m)
    <2>1. (from + 1..n) \in SUBSET (1..n) /\ n \in from + 1..n
        BY <1>1, <1>11
    <2>. QED
        BY <1>9, <2>1
<1>12. Tokens(k, n + 1..n) = Tokens(h, n + 1..n)
    <2>1. n + 1..n = {}
        BY <1>1
    <2>. QED
        BY <2>1, NoTokens
<1>. QED
    BY <1>1, <1>2, <1>3, <1>8, <1>10, <1>11, <1>12

\* The estimate of a measured history is off by d.
Measured(h, u) == u # Unmeasured /\ u \in [active : Nat, at : Nat] /\ u.at \in 0..Len(h)
Off(h, u, d)   == Estimate(h, u) = SystemTokens + ToolTokens + ContextTokens(h) + d

\* A reply that was given no tools; one that lost its calls, or its place.
Gaps == {0, -ToolTokens, CallTokens, CallTokens - NoticeTokens}

AccountingType ==
    /\ WellMarked(history)
    /\ usage = Unmeasured \/ Measured(history, usage)
    /\ tailStart \in 0..Len(history)
    /\ doing = "tools" => /\ history # <<>>
                          /\ history[Len(history)].kind = "reply"
                          /\ history[Len(history)].calls = CallTokens

\* While the tools of the reply that was measured run, the estimate is exact.
EstimateInv ==
    usage # Unmeasured =>
        \E d \in Gaps : /\ Off(history, usage, d)
                        /\ doing = "tools" /\ usage.at = Len(history) => d = 0

AccountingInv == AccountingType /\ EstimateInv

LEMMA Sizes ==
    /\ SystemTokens \in Nat /\ ToolTokens \in Nat /\ CallTokens \in Nat /\ NoticeTokens \in Nat
    /\ PreviewTokens \in Nat /\ MessageTokens \subseteq Nat /\ ResultTokens \subseteq Nat
BY AccountingAssumption

LEMMA TextIsSized ==
    ASSUME NEW role \in {"user", "assistant"},
           NEW kind \in {"prompt", "reply", "results", "model-switch", "compaction", "interrupted"},
           NEW n \in Nat
    PROVE  /\ Text(role, kind, n) \in SizedMessage /\ Text(role, kind, n).kind = kind
           /\ Weight(Text(role, kind, n)) = n
BY DEF Text, SizedMessage, Weight

LEMMA ContextIsNat ==
    ASSUME NEW h, WellMarked(h)
    PROVE  ContextTokens(h) \in Nat /\ \A from \in Nat : Tokens(h, from + 1..Len(h)) \in Nat
<1>1. h \in Seq(SizedMessage) /\ Len(h) \in Nat
    BY DEF WellMarked
<1>2. InContext(h) \in SUBSET (1..Len(h))
    BY ContextIsInside
<1>3. \A from \in Nat : (from + 1..Len(h)) \in SUBSET (1..Len(h))
    BY <1>1
<1>. QED
    BY <1>1, <1>2, <1>3, AllWeighed DEF ContextTokens, InContext

LEMMA MeasuredEstimate ==
    ASSUME NEW h, WellMarked(h), NEW u, Measured(h, u)
    PROVE  Estimate(h, u) = u.active + Tokens(h, u.at + 1..Len(h)) /\ u.active \in Nat /\ u.at \in Nat
<1>1. Len(h) \in Nat
    BY DEF WellMarked
<1>. QED
    BY <1>1 DEF Estimate, Measured

\* What is appended is estimated as it is.
LEMMA AppendKeepsOff ==
    ASSUME NEW h, WellMarked(h), NEW m \in SizedMessage, m.kind # "compaction", NEW k, k = Append(h, m)
    PROVE  /\ WellMarked(k) /\ Len(k) = Len(h) + 1 /\ k[Len(k)] = m
           /\ ContextTokens(k) = ContextTokens(h) + Weight(m)
           /\ \A u : Measured(h, u) => Measured(k, u)
           /\ \A u, d : Measured(h, u) /\ d \in Int /\ Off(h, u, d) => Off(k, u, d)
<1>1. /\ WellMarked(k) /\ Len(k) = Len(h) + 1 /\ k[Len(k)] = m
      /\ ContextTokens(k) = ContextTokens(h) + Weight(m)
      /\ \A from \in 0..Len(h) :
            Tokens(k, from + 1..Len(k)) = Tokens(h, from + 1..Len(h)) + Weight(m)
    <2>1. Appends(h, m, k)
        BY Appending
    <2>. QED
        BY <2>1 DEF Appends
<1>2. Weight(m) \in Nat /\ Len(h) \in Nat /\ ContextTokens(h) \in Nat
    BY WeightIsNat, ContextIsNat DEF WellMarked
<1>3. ASSUME NEW u, Measured(h, u)
      PROVE  Measured(k, u)
    BY <1>1, <1>2, <1>3 DEF Measured
<1>4. ASSUME NEW u, NEW d \in Int, Measured(h, u), Off(h, u, d)
      PROVE  Off(k, u, d)
    <2>1. Estimate(h, u) = u.active + Tokens(h, u.at + 1..Len(h)) /\ u.active \in Nat /\ u.at \in 0..Len(h)
        BY <1>4, MeasuredEstimate DEF Measured
    <2>2. Estimate(k, u) = u.active + Tokens(k, u.at + 1..Len(k))
        BY <1>1, <1>3, <1>4, MeasuredEstimate
    <2>3. Tokens(k, u.at + 1..Len(k)) = Tokens(h, u.at + 1..Len(h)) + Weight(m)
        BY <1>1, <2>1
    <2>4. Tokens(h, u.at + 1..Len(h)) \in Nat
        BY <2>1, ContextIsNat
    <2>5. Estimate(h, u) = SystemTokens + ToolTokens + ContextTokens(h) + d
        BY <1>4 DEF Off
    <2>6. Estimate(k, u) = Estimate(h, u) + Weight(m)
        BY <1>2, <2>1, <2>2, <2>3, <2>4
    <2>7. Estimate(k, u) = SystemTokens + ToolTokens + ContextTokens(k) + d
        BY <1>1, <1>2, <2>5, <2>6, Sizes
    <2>. QED
        BY <2>7 DEF Off
<1>. QED
    BY <1>1, <1>3, <1>4

LEMMA GapsAreInt == Gaps \subseteq Int /\ 0 \in Gaps
BY Sizes DEF Gaps

\* However many messages are appended.
Grows(h, k) ==
    /\ WellMarked(k) /\ Len(k) > Len(h)
    /\ \A u : Measured(h, u) => Measured(k, u)
    /\ \A u, d : Measured(h, u) /\ d \in Gaps /\ Off(h, u, d) => Off(k, u, d)

LEMMA AppendGrows ==
    ASSUME NEW h, WellMarked(h), NEW m \in SizedMessage, m.kind # "compaction"
    PROVE  Grows(h, Append(h, m))
<1>1. PICK k : k = Append(h, m)
    OBVIOUS
<1>2. /\ WellMarked(k) /\ Len(k) = Len(h) + 1
      /\ \A u : Measured(h, u) => Measured(k, u)
      /\ \A u, d : Measured(h, u) /\ d \in Int /\ Off(h, u, d) => Off(k, u, d)
    BY <1>1, AppendKeepsOff
<1>3. Len(h) \in Nat
    BY DEF WellMarked
<1>4. Grows(h, k)
    <2>1. WellMarked(k) /\ Len(k) > Len(h) /\ \A u : Measured(h, u) => Measured(k, u)
        BY <1>2, <1>3
    <2>2. ASSUME NEW u, NEW d \in Gaps, Measured(h, u), Off(h, u, d)
          PROVE  Off(k, u, d)
        <3>1. d \in Int
            BY GapsAreInt
        <3>. QED
            BY <1>2, <2>2, <3>1
    <2>. QED
        BY <2>1, <2>2 DEF Grows
<1>. QED
    BY <1>1, <1>4

LEMMA InterruptionGrows ==
    ASSUME NEW h, WellMarked(h)
    PROVE  Grows(h, WithInterruption(h))
<1>. DEFINE results == Text("user", "results", NoticeTokens)
            notice  == Text("assistant", "interrupted", NoticeTokens)
<1>1. results \in SizedMessage /\ notice \in SizedMessage
      /\ results.kind # "compaction" /\ notice.kind # "compaction"
    BY Sizes, TextIsSized
<1>. HIDE DEF results, notice
<1>2. h \in Seq(SizedMessage) /\ Append(h, results) \in Seq(SizedMessage)
    BY <1>1 DEF WellMarked
<1>3. WithInterruption(h) = Append(h, notice) \/ WithInterruption(h) = Append(Append(h, results), notice)
    <2>1. CASE h[Len(h)].calls > 0
        <3>1. WithInterruption(h) = (h \o <<results>>) \o <<notice>>
            BY <2>1 DEF WithInterruption, results, notice
        <3>2. h \o <<results>> = Append(h, results)
            BY <1>1, <1>2
        <3>3. Append(h, results) \o <<notice>> = Append(Append(h, results), notice)
            BY <1>1, <1>2
        <3>. QED
            BY <3>1, <3>2, <3>3
    <2>2. CASE ~ (h[Len(h)].calls > 0)
        <3>1. WithInterruption(h) = (h \o <<>>) \o <<notice>>
            BY <2>2 DEF WithInterruption, notice
        <3>2. h \o <<>> = h /\ h \o <<notice>> = Append(h, notice)
            BY <1>1, <1>2
        <3>. QED
            BY <3>1, <3>2
    <2>. QED
        BY <2>1, <2>2
<1>4. CASE WithInterruption(h) = Append(h, notice)
    BY <1>1, <1>4, AppendGrows
<1>5. CASE WithInterruption(h) = Append(Append(h, results), notice)
    <2>1. Grows(h, Append(h, results))
        BY <1>1, AppendGrows
    <2>2. Grows(Append(h, results), Append(Append(h, results), notice))
        <3>1. PICK k : k = Append(h, results)
            OBVIOUS
        <3>. QED
            BY <1>1, <2>1, <3>1, AppendGrows DEF Grows
    <2>3. Grows(h, Append(Append(h, results), notice))
        <3>1. PICK k : k = Append(h, results)
            OBVIOUS
        <3>2. PICK l : l = Append(Append(h, results), notice)
            OBVIOUS
        <3>3. Grows(h, k) /\ Grows(k, l) /\ Len(h) \in Nat
            BY <2>1, <2>2, <3>1, <3>2 DEF WellMarked
        <3>4. Len(k) \in Nat /\ Len(l) \in Nat
            BY <3>3 DEF Grows, WellMarked
        <3>5. WellMarked(l) /\ Len(l) > Len(h)
            BY <3>3, <3>4 DEF Grows
        <3>6. \A u : Measured(h, u) => Measured(l, u)
            BY <3>3 DEF Grows
        <3>7. \A u, d : Measured(h, u) /\ d \in Gaps /\ Off(h, u, d) => Off(l, u, d)
            BY <3>3 DEF Grows
        <3>8. Grows(h, l)
            BY <3>5, <3>6, <3>7 DEF Grows
        <3>. QED
            BY <3>2, <3>8
    <2>. QED
        BY <1>5, <2>3
<1>. QED
    BY <1>3, <1>4, <1>5

LEMMA GrowthKeeps ==
    ASSUME AccountingInv, Grows(history, history'), usage' = usage, doing' # "tools",
           tailStart' \in {0, tailStart}
    PROVE  AccountingInv'
<1>1. Len(history) \in Nat /\ Len(history') \in Nat
    BY DEF AccountingInv, AccountingType, WellMarked, Grows
<1>2. AccountingType'
    BY <1>1 DEF AccountingInv, AccountingType, Grows
<1>3. ASSUME usage # Unmeasured
      PROVE  \E d \in Gaps : Off(history', usage, d)
    BY <1>3 DEF AccountingInv, AccountingType, EstimateInv, Grows
<1>4. EstimateInv'
    BY <1>3 DEF EstimateInv, Gaps, Off
<1>. QED
    BY <1>2, <1>4 DEF AccountingInv

LEMMA SameHistoryKeeps ==
    ASSUME AccountingInv, history' = history, usage' \in {usage, Unmeasured},
           doing' = doing \/ doing' # "tools", tailStart' \in 0..Len(history)
    PROVE  AccountingInv'
<1>1. AccountingType'
    BY DEF AccountingInv, AccountingType
<1>2. EstimateInv'
    BY DEF AccountingInv, EstimateInv, Off, Gaps
<1>. QED
    BY <1>1, <1>2 DEF AccountingInv

LEMMA MaxIsIn ==
    ASSUME NEW n \in Nat, NEW K \in SUBSET (0..n), K # {}
    PROVE  Max(K) \in K /\ Min(K) \in K
<1>1. \E i \in K : \A j \in K : j <= i
    BY LastOf
<1>2. \E i \in K : \A j \in K : i >= j
    BY <1>1
<1>3. \E i \in K : \A j \in K : i =< j
    BY LastOf
<1>4. Max(K) \in K
    BY <1>2 DEF Max
<1>5. Min(K) \in K
    BY <1>3 DEF Min
<1>. QED
    BY <1>4, <1>5

LEMMA CutIsInside == ASSUME WellMarked(history) PROVE SelectCut \in 0..Len(history)
<1>. DEFINE places == Sized!Boundaries(history)
            short  == {c \in places : Tokens(history, Kept(c))
                            <= Smaller(TailBudget, EffectiveWindow(modelNow) \div 2)}
            fits   == {c \in places : Tokens(history, Folded(c))
                            <= EffectiveWindow(modelNow) - SummaryOverhead}
            start  == IF short = {} THEN Max(places) ELSE Min(short)
            below  == {0} \cup {c \in fits : c < start}
<1>1. SelectCut = IF places = {} THEN 0 ELSE IF start \in fits THEN start ELSE Max(below)
    BY DEF SelectCut
<1>2. PICK n \in Nat : n = Len(history)
    BY DEF WellMarked
<1>3. places \in SUBSET (1..n) /\ fits \in SUBSET places
    <2>1. Sized!Context(history) \in SUBSET (1..n)
        BY <1>2, ContextIsInside
    <2>. QED
        BY <2>1 DEF Sized!Boundaries
<1>. HIDE DEF places, fits, start
<1>4. below \in SUBSET (0..n) /\ below # {}
    <2>1. \A c \in fits : c \in 0..n
        BY <1>2, <1>3
    <2>2. 0 \in 0..n
        OBVIOUS
    <2>. QED
        BY <2>1, <2>2
<1>. HIDE DEF below
<1>5. Max(below) \in 0..n
    BY <1>4, MaxIsIn
<1>6. start \in fits => start \in 0..n
    BY <1>3
<1>. QED
    BY <1>1, <1>2, <1>5, <1>6

LEMMA InitKeeps == AccountingInit => AccountingInv
<1>. SUFFICES ASSUME AccountingInit PROVE AccountingInv
    OBVIOUS
<1>1. history = <<>> /\ Len(history) = 0 /\ usage = Unmeasured /\ tailStart = 0 /\ doing = "rest"
    BY DEF AccountingInit
<1>2. WellMarked(history)
    BY <1>1 DEF WellMarked
<1>. QED
    BY <1>1, <1>2 DEF AccountingInv, AccountingType, EstimateInv

LEMMA SummarizedKeeps ==
    ASSUME AccountingInv, NEW n \in MessageTokens, Summarized(n)
    PROVE  AccountingInv'
<1>. DEFINE marker == [Text("user", "compaction", n) EXCEPT !.tail = tailStart]
<1>1. PICK l \in Nat : l = Len(history) /\ history \in Seq(SizedMessage) /\ tailStart \in 1..l
    <2>1. history \in Seq(SizedMessage) /\ Len(history) \in Nat
        BY DEF AccountingInv, AccountingType, WellMarked
    <2>2. tailStart \in 0..Len(history) /\ tailStart # 0
        BY DEF AccountingInv, AccountingType, Summarized
    <2>. QED
        BY <2>1, <2>2
<1>2. marker \in SizedMessage /\ marker.tail = tailStart
    <2>1. n \in Nat /\ tailStart \in Nat
        BY <1>1, Sizes
    <2>2. marker = [role |-> "user", kind |-> "compaction", text |-> n, calls |-> 0, tail |-> tailStart]
        BY DEF Text
    <2>. HIDE DEF marker
    <2>. QED
        BY <2>1, <2>2 DEF SizedMessage
<1>. HIDE DEF marker
<1>3. history' = Append(history, marker) /\ usage' = Unmeasured /\ tailStart' = 0 /\ doing' # "tools"
    BY DEF Summarized, marker, Invalidate, EndOfTurn
<1>4. /\ history' \in Seq(SizedMessage) /\ Len(history') = l + 1
      /\ history'[l + 1] = marker /\ \A i \in 1..l : history'[i] = history[i]
    BY <1>1, <1>2, <1>3
<1>5. WellMarked(history')
    <2>1. ASSUME NEW i \in 1..l + 1, history'[i].kind = "compaction"
          PROVE  history'[i].tail \in 1..i
        <3>1. CASE i = l + 1
            BY <1>1, <1>2, <1>4, <3>1
        <3>2. CASE i # l + 1
            <4>1. i \in 1..l
                BY <3>2
            <4>. QED
                BY <1>1, <1>4, <2>1, <4>1 DEF AccountingInv, AccountingType, WellMarked
        <3>. QED
            BY <3>1, <3>2
    <2>. QED
        BY <1>4, <2>1 DEF WellMarked
<1>. QED
    BY <1>3, <1>4, <1>5 DEF AccountingInv, AccountingType, EstimateInv

LEMMA AnsweredKeeps ==
    ASSUME AccountingInv, NEW n \in {0} \cup MessageTokens, NEW calls \in {0, CallTokens},
           Answered(n, calls)
    PROVE  AccountingInv'
<1>. DEFINE reply == [Text("assistant", "reply", n) EXCEPT !.calls = calls]
<1>1. n \in Nat /\ calls \in Nat
    BY Sizes
<1>2. /\ reply \in SizedMessage /\ reply.kind = "reply" /\ reply.calls = calls
      /\ Weight(reply) = n + calls
    BY <1>1 DEF Text, SizedMessage, Weight
<1>. HIDE DEF reply
<1>3. /\ history' = Append(history, reply) /\ tailStart' = tailStart
      /\ doing' = "tools" => calls > 0
      /\ calls > 0 => ToolsAllowed
      /\ RecordUsage(n, calls)
    BY DEF Answered, reply, EndOfTurn
<1>4. PICK k : k = history'
    OBVIOUS
<1>5. Appends(history, reply, k)
    BY <1>2, <1>3, <1>4, Appending DEF AccountingInv, AccountingType
<1>6. PICK l \in Nat : l = Len(history) /\ tailStart \in 0..l /\ Len(k) = l + 1
    BY <1>5 DEF AccountingInv, AccountingType, WellMarked, Appends
<1>7. WellMarked(k) /\ k[l + 1] = reply /\ ContextTokens(k) = ContextTokens(history) + (n + calls)
    BY <1>2, <1>5, <1>6 DEF Appends
<1>8. Grows(history, k)
    BY <1>2, <1>3, <1>4, AppendGrows DEF AccountingInv, AccountingType
<1>9. /\ WellMarked(k) /\ tailStart' \in 0..Len(k)
      /\ doing' = "tools" => k # <<>> /\ k[Len(k)].kind = "reply" /\ k[Len(k)].calls = CallTokens
    <2>1. k # <<>>
        BY <1>6
    <2>2. calls > 0 => calls = CallTokens
        OBVIOUS
    <2>. QED
        BY <1>2, <1>3, <1>6, <1>7, <2>1, <2>2
\* The provider reports no usage: the snapshot is older than the reply.
<1>10. CASE usage' = usage
    <2>1. usage = Unmeasured \/ Measured(k, usage)
        BY <1>8 DEF AccountingInv, AccountingType, Grows
    <2>2. ASSUME usage # Unmeasured
          PROVE  usage.at # Len(k) /\ \E d \in Gaps : Off(k, usage, d)
        <3>1. Measured(history, usage)
            BY <2>2 DEF AccountingInv, AccountingType
        <3>2. usage.at # Len(k)
            BY <1>6, <3>1 DEF Measured
        <3>. QED
            BY <1>8, <2>2, <3>1, <3>2 DEF AccountingInv, EstimateInv, Grows
    <2>3. AccountingType'
        BY <1>4, <1>9, <1>10, <2>1 DEF AccountingType
    <2>4. EstimateInv'
        BY <1>4, <1>10, <2>2 DEF EstimateInv, Off, Gaps
    <2>. QED
        BY <2>3, <2>4 DEF AccountingInv
<1>11. CASE usage' = [active |-> Counted(n, calls), at |-> Len(k)]
    <2>1. ContextTokens(history) \in Nat
        BY ContextIsNat DEF AccountingInv, AccountingType
    <2>2. PICK d \in {0, -ToolTokens} :
            /\ Counted(n, calls) = SystemTokens + ToolTokens + d + ContextTokens(history) + n + calls
            /\ calls > 0 => d = 0
        <3>1. CASE ToolsAllowed
            BY <1>1, <2>1, <3>1, Sizes DEF Counted
        <3>2. CASE ~ ToolsAllowed
            BY <1>1, <1>3, <2>1, <3>2, Sizes DEF Counted
        <3>. QED
            BY <3>1, <3>2
    <2>3. PICK active : active = Counted(n, calls)
        OBVIOUS
    <2>4. active = SystemTokens + ToolTokens + ContextTokens(k) + d
        BY <1>1, <1>7, <2>1, <2>2, <2>3, Sizes
    <2>5. active \in Nat
        BY <1>1, <2>1, <2>3, Sizes DEF Counted
    <2>6. PICK u : u = [active |-> active, at |-> l + 1] /\ usage' = u
        BY <1>6, <1>11, <2>3
    <2>7. u = Unmeasured \/ Measured(k, u)
        BY <1>6, <2>5, <2>6 DEF Measured
    <2>8. ASSUME u # Unmeasured
          PROVE  Off(k, u, d)
        <3>1. l + 1 + 1..l + 1 = {}
            OBVIOUS
        <3>2. Tokens(k, l + 1 + 1..l + 1) = 0
            BY <3>1, NoTokens
        <3>3. Estimate(k, u) = active + Tokens(k, l + 1 + 1..l + 1)
            BY <1>6, <2>6, <2>8 DEF Estimate
        <3>4. Estimate(k, u) = active
            BY <2>5, <3>2, <3>3
        <3>. QED
            BY <2>4, <3>4 DEF Off
    <2>9. d \in Gaps
        BY DEF Gaps
    <2>10. AccountingType'
        BY <1>4, <1>9, <2>6, <2>7 DEF AccountingType
    <2>11. EstimateInv'
        BY <1>3, <1>4, <2>2, <2>6, <2>8, <2>9 DEF EstimateInv, Off, Gaps
    <2>. QED
        BY <2>10, <2>11 DEF AccountingInv
<1>. QED
    BY <1>3, <1>4, <1>10, <1>11 DEF RecordUsage

LEMMA Shifts ==
    ASSUME NEW a \in Int, NEW f \in Int, NEW c \in Int, NEW d \in Int, NEW e \in Int,
           NEW s \in Int, NEW t \in Int, NEW old \in Int, NEW new \in Int,
           a + s = f + c + d, e + old = c + new
    PROVE  /\ t = s => a + t = f + e + (d + old - new)
           /\ t + old = s + new => a + t = f + e + d
OBVIOUS

\* Replacing the measured reply moves the context and not the estimate;
\* replacing a later message moves both.
LEMMA ReplacingMoves ==
    ASSUME NEW h, WellMarked(h), h # <<>>, h[Len(h)].kind # "compaction",
           NEW m \in SizedMessage, m.kind # "compaction",
           NEW k \in Seq(SizedMessage), Len(k) = Len(h), k[Len(h)] = m,
           \A i \in 1..Len(h) : i # Len(h) => k[i] = h[i],
           NEW u, Measured(h, u), NEW d \in Int, Off(h, u, d)
    PROVE  /\ Measured(k, u)
           /\ IF u.at = Len(h) THEN Off(k, u, d + Weight(h[Len(h)]) - Weight(m)) ELSE Off(k, u, d)
<1>1. /\ WellMarked(k) /\ Weight(m) \in Nat /\ Weight(h[Len(h)]) \in Nat
      /\ ContextTokens(k) + Weight(h[Len(h)]) = ContextTokens(h) + Weight(m)
      /\ \A from \in 0..Len(h) :
            IF from = Len(h) THEN Tokens(k, from + 1..Len(k)) = Tokens(h, from + 1..Len(h))
            ELSE Tokens(k, from + 1..Len(k)) + Weight(h[Len(h)])
                 = Tokens(h, from + 1..Len(h)) + Weight(m)
    BY Replacing
<1>2. Measured(k, u)
    BY DEF Measured
<1>3. PICK old \in Nat, new \in Nat : old = Weight(h[Len(h)]) /\ new = Weight(m)
    BY <1>1
<1>4. PICK c \in Nat, e \in Nat : c = ContextTokens(h) /\ e = ContextTokens(k) /\ e + old = c + new
    BY <1>1, <1>3, ContextIsNat
<1>5. u.at \in 0..Len(h) /\ u.at \in Nat /\ u.active \in Nat
    BY DEF Measured
<1>6. PICK s \in Nat, t \in Nat :
            /\ s = Tokens(h, u.at + 1..Len(h)) /\ t = Tokens(k, u.at + 1..Len(k))
            /\ IF u.at = Len(h) THEN t = s ELSE t + old = s + new
    <2>1. Tokens(h, u.at + 1..Len(h)) \in Nat /\ Tokens(k, u.at + 1..Len(k)) \in Nat
        BY <1>1, <1>5, ContextIsNat
    <2>2. IF u.at = Len(h) THEN Tokens(k, u.at + 1..Len(k)) = Tokens(h, u.at + 1..Len(h))
          ELSE Tokens(k, u.at + 1..Len(k)) + old = Tokens(h, u.at + 1..Len(h)) + new
        BY <1>1, <1>3, <1>5
    <2>. QED
        BY <2>1, <2>2
<1>7. Estimate(h, u) = u.active + s /\ Estimate(k, u) = u.active + t
    BY <1>1, <1>2, <1>6, MeasuredEstimate
<1>8. u.active + s = SystemTokens + ToolTokens + c + d
    BY <1>4, <1>7 DEF Off
<1>9. PICK a \in Nat, f \in Nat : a = u.active /\ f = SystemTokens + ToolTokens /\ a + s = f + c + d
    BY <1>5, <1>8, Sizes
<1>10. CASE u.at = Len(h)
    <2>1. t = s /\ e + old = c + new
        BY <1>4, <1>6, <1>10
    <2>2. a + t = f + e + (d + old - new)
        <3>1. a + s = f + c + d
            BY <1>9
        <3>2. /\ a \in Int /\ f \in Int /\ c \in Int /\ e \in Int
              /\ s \in Int /\ t \in Int /\ old \in Int /\ new \in Int
            OBVIOUS
        <3>. QED
            BY <2>1, <3>1, <3>2, Shifts
    <2>. QED
        BY <1>2, <1>3, <1>4, <1>7, <1>9, <1>10, <2>2 DEF Off
<1>11. CASE u.at # Len(h)
    <2>1. t + old = s + new /\ e + old = c + new
        BY <1>4, <1>6, <1>11
    <2>2. a + t = f + e + d
        <3>1. a + s = f + c + d
            BY <1>9
        <3>2. /\ a \in Int /\ f \in Int /\ c \in Int /\ e \in Int
              /\ s \in Int /\ t \in Int /\ old \in Int /\ new \in Int
            OBVIOUS
        <3>. QED
            BY <2>1, <3>1, <3>2, Shifts
    <2>. QED
        BY <1>2, <1>4, <1>7, <1>9, <1>11, <2>2 DEF Off
<1>. QED
    BY <1>10, <1>11

LEMMA SwitchToKeeps ==
    ASSUME AccountingInv, NEW model \in DOMAIN Window, SwitchTo(model)
    PROVE  AccountingInv'
<1>. DEFINE notice == Text("user", "model-switch", NoticeTokens)
            silent == [history[Len(history)] EXCEPT !.calls = 0]
<1>1. notice \in SizedMessage /\ notice.kind # "compaction" /\ Weight(notice) = NoticeTokens
    BY Sizes, TextIsSized
<1>2. PICK last \in Nat :
            /\ last = Len(history) /\ last \in 1..last /\ history # <<>>
            /\ WellMarked(history) /\ history \in Seq(SizedMessage)
            /\ history[last].kind = "reply" /\ history[last].calls = CallTokens
            /\ tailStart \in 0..last
    <2>1. WellMarked(history) /\ history \in Seq(SizedMessage) /\ Len(history) \in Nat
        BY DEF AccountingInv, AccountingType, WellMarked
    <2>2. history # <<>> /\ history[Len(history)].kind = "reply"
          /\ history[Len(history)].calls = CallTokens /\ tailStart \in 0..Len(history)
        BY DEF AccountingInv, AccountingType, SwitchTo
    <2>3. Len(history) # 0
        BY <2>1, <2>2
    <2>4. Len(history) \in 1..Len(history)
        BY <2>1, <2>3
    <2>. QED
        BY <2>1, <2>2, <2>4
<1>3. /\ usage' = usage /\ tailStart' = tailStart /\ doing' = "asking"
      /\ history' = IF history[last].text = 0 THEN [history EXCEPT ![last] = notice]
                    ELSE Append([history EXCEPT ![last].calls = 0], notice)
    BY <1>2 DEF SwitchTo
<1>4. history[last] \in SizedMessage /\ history[last].text \in Nat
    <2>1. history[last] \in SizedMessage
        BY <1>2
    <2>. QED
        BY <2>1 DEF SizedMessage
<1>5. /\ silent \in SizedMessage /\ silent.kind # "compaction"
      /\ Weight(silent) = history[last].text
      /\ Weight(history[last]) = history[last].text + CallTokens
    BY <1>2, <1>4 DEF SizedMessage, Weight
<1>6. PICK text \in Nat : text = history[last].text
    BY <1>4
<1>. HIDE DEF notice, silent
<1>7. CASE text = 0
    <2>1. PICK k : k = [history EXCEPT ![last] = notice]
        OBVIOUS
    <2>2. /\ k \in Seq(SizedMessage) /\ Len(k) = last /\ k[last] = notice
          /\ \A i \in 1..last : i # last => k[i] = history[i]
        BY <1>1, <1>2, <2>1
    <2>3. WellMarked(k)
        BY <1>1, <1>2, <2>2, Replacing
    <2>4. ASSUME usage # Unmeasured
          PROVE  Measured(k, usage) /\ \E d \in Gaps : Off(k, usage, d)
        <3>1. Measured(history, usage)
            BY <2>4 DEF AccountingInv, AccountingType
        <3>2. PICK d \in Gaps : /\ Off(history, usage, d)
                                /\ usage.at = last => d = 0
            BY <1>2, <2>4 DEF AccountingInv, EstimateInv, SwitchTo
        <3>3. d \in Int
            BY GapsAreInt
        <3>4. /\ Measured(k, usage)
              /\ IF usage.at = last THEN Off(k, usage, d + Weight(history[last]) - Weight(notice))
                 ELSE Off(k, usage, d)
            BY <1>1, <1>2, <2>2, <3>1, <3>2, <3>3, ReplacingMoves
        <3>5. CASE usage.at = last
            <4>1. d + Weight(history[last]) - Weight(notice) = CallTokens - NoticeTokens
                BY <1>1, <1>5, <1>6, <1>7, <3>2, <3>5, Sizes
            <4>2. CallTokens - NoticeTokens \in Gaps
                BY DEF Gaps
            <4>. QED
                BY <3>4, <3>5, <4>1, <4>2
        <3>. QED
            BY <3>2, <3>4, <3>5
    <2>5. history' = k
        BY <1>3, <1>6, <1>7, <2>1
    <2>6. AccountingType'
        BY <1>2, <1>3, <2>2, <2>3, <2>4, <2>5 DEF AccountingType
    <2>7. EstimateInv'
        BY <1>3, <2>4, <2>5 DEF EstimateInv, Off, Gaps
    <2>. QED
        BY <2>6, <2>7 DEF AccountingInv
<1>8. CASE text # 0
    <2>1. PICK k : k = [history EXCEPT ![last].calls = 0]
        OBVIOUS
    <2>2. /\ k \in Seq(SizedMessage) /\ Len(k) = last /\ k[last] = silent
          /\ \A i \in 1..last : i # last => k[i] = history[i]
        <3>1. k = [history EXCEPT ![last] = silent]
            BY <1>2, <2>1 DEF silent
        <3>. QED
            BY <1>2, <1>5, <3>1
    <2>3. WellMarked(k)
        BY <1>2, <1>5, <2>2, Replacing
    <2>4. ASSUME usage # Unmeasured
          PROVE  Measured(k, usage) /\ \E d \in Gaps : Off(k, usage, d)
        <3>1. Measured(history, usage)
            BY <2>4 DEF AccountingInv, AccountingType
        <3>2. PICK d \in Gaps : /\ Off(history, usage, d)
                                /\ usage.at = last => d = 0
            BY <1>2, <2>4 DEF AccountingInv, EstimateInv, SwitchTo
        <3>3. d \in Int
            BY GapsAreInt
        <3>4. /\ Measured(k, usage)
              /\ IF usage.at = last THEN Off(k, usage, d + Weight(history[last]) - Weight(silent))
                 ELSE Off(k, usage, d)
            BY <1>2, <1>5, <2>2, <3>1, <3>2, <3>3, ReplacingMoves
        <3>5. CASE usage.at = last
            <4>1. d + Weight(history[last]) - Weight(silent) = CallTokens
                BY <1>5, <1>6, <3>2, <3>5, Sizes
            <4>2. CallTokens \in Gaps
                BY DEF Gaps
            <4>. QED
                BY <3>4, <3>5, <4>1, <4>2
        <3>. QED
            BY <3>2, <3>4, <3>5
    <2>5. history' = Append(k, notice)
        BY <1>3, <1>6, <1>8, <2>1
    <2>6. PICK l : l = history'
        OBVIOUS
    <2>7. Grows(k, l)
        BY <1>1, <2>3, <2>5, <2>6, AppendGrows
    <2>8. WellMarked(l) /\ tailStart \in 0..Len(l)
        <3>1. WellMarked(l) /\ Len(l) > last
            BY <2>2, <2>7 DEF Grows
        <3>2. Len(l) \in Nat
            BY <3>1 DEF WellMarked
        <3>. QED
            BY <1>2, <3>1, <3>2
    <2>9. ASSUME usage # Unmeasured
          PROVE  Measured(l, usage) /\ \E d \in Gaps : Off(l, usage, d)
        BY <2>4, <2>7, <2>9 DEF Grows
    <2>10. AccountingType'
        BY <1>3, <2>6, <2>8, <2>9 DEF AccountingType
    <2>11. EstimateInv'
        BY <1>3, <2>6, <2>9 DEF EstimateInv, Off, Gaps
    <2>. QED
        BY <2>10, <2>11 DEF AccountingInv
<1>. QED
    BY <1>7, <1>8

LEMMA StepKeeps == AccountingInv /\ [AccountingNext]_accountingVars => AccountingInv'
<1>. SUFFICES ASSUME AccountingInv, [AccountingNext]_accountingVars PROVE AccountingInv'
    OBVIOUS
<1>1. WellMarked(history) /\ tailStart \in 0..Len(history) /\ 0 \in 0..Len(history)
    BY DEF AccountingInv, AccountingType
<1>2. ASSUME NEW n \in MessageTokens, Say(n)
      PROVE  AccountingInv'
    <2>1. /\ history' = Append(history, Text("user", "prompt", n)) /\ usage' = usage
          /\ doing' # "tools" /\ tailStart' = tailStart
        BY <1>2 DEF Say
    <2>2. n \in Nat
        BY Sizes
    <2>3. Grows(history, history')
        BY <1>1, <2>1, <2>2, TextIsSized, AppendGrows
    <2>. QED
        BY <2>1, <2>3, GrowthKeeps
<1>3. CASE CompactByHand
    <2>1. history' = history /\ usage' = usage /\ doing' # "tools" /\ tailStart' = tailStart
        BY <1>3 DEF CompactByHand
    <2>. QED
        BY <1>1, <2>1, SameHistoryKeeps
<1>4. CASE SendPrefix
    <2>1. history' = history /\ usage' = usage /\ doing' = doing /\ tailStart' = SelectCut
        BY <1>4 DEF SendPrefix
    <2>. QED
        BY <1>1, <2>1, CutIsInside, SameHistoryKeeps
<1>5. CASE NoSummary
    <2>1. history' = history /\ usage' = usage /\ doing' # "tools" /\ tailStart' = 0
        BY <1>5 DEF NoSummary, EndOfTurn
    <2>. QED
        BY <1>1, <2>1, SameHistoryKeeps
<1>6. CASE Overflows
    <2>1. history' = history /\ usage' = usage /\ doing' # "tools" /\ tailStart' = tailStart
        BY <1>6 DEF Overflows
    <2>. QED
        BY <1>1, <2>1, SameHistoryKeeps
<1>7. ASSUME NEW n \in ResultTokens, ToolsAnswered(n)
      PROVE  AccountingInv'
    <2>1. PICK size \in Persisted(n) : history' = Append(history, Text("user", "results", size))
        BY <1>7 DEF ToolsAnswered
    <2>2. usage' = usage /\ doing' # "tools" /\ tailStart' = tailStart
        BY <1>7 DEF ToolsAnswered
    <2>3. size \in Nat
        BY Sizes DEF Persisted
    <2>4. Grows(history, history')
        BY <1>1, <2>1, <2>3, TextIsSized, AppendGrows
    <2>. QED
        BY <2>2, <2>4, GrowthKeeps
<1>8. CASE StopTurn
    <2>1. /\ history' \in {history, WithInterruption(history)} /\ usage' = usage
          /\ doing' # "tools" /\ tailStart' = 0
        BY <1>8 DEF StopTurn, EndOfTurn
    <2>2. CASE history' = history
        BY <1>1, <2>1, <2>2, SameHistoryKeeps
    <2>3. CASE history' = WithInterruption(history)
        <3>1. Grows(history, history')
            BY <1>1, <2>3, InterruptionGrows
        <3>. QED
            BY <2>1, <3>1, GrowthKeeps
    <2>. QED
        BY <2>1, <2>2, <2>3
<1>9. CASE EscInCompact
    <2>1. /\ history' = WithInterruption(history) /\ usage' = usage
          /\ doing' # "tools" /\ tailStart' = tailStart
        BY <1>9 DEF EscInCompact
    <2>2. Grows(history, history')
        BY <1>1, <2>1, InterruptionGrows
    <2>. QED
        BY <2>1, <2>2, GrowthKeeps
<1>10. CASE Resume
    <2>1. history' = history /\ usage' = Unmeasured /\ doing' = doing /\ tailStart' = tailStart
        BY <1>10 DEF Resume
    <2>. QED
        BY <1>1, <2>1, SameHistoryKeeps
<1>11. CASE UNCHANGED accountingVars
    <2>1. history' = history /\ usage' = usage /\ doing' = doing /\ tailStart' = tailStart
        BY <1>11 DEF accountingVars
    <2>. QED
        BY <1>1, <2>1, SameHistoryKeeps
<1>. QED
    BY <1>2, <1>3, <1>4, <1>5, <1>6, <1>7, <1>8, <1>9, <1>10, <1>11,
       SummarizedKeeps, AnsweredKeeps, SwitchToKeeps DEF AccountingNext

LEMMA GapsAreSmall == AccountingInv => EstimateIsCurrent
<1>. SUFFICES ASSUME AccountingInv PROVE EstimateIsCurrent
    OBVIOUS
<1>. DEFINE short == Max({ToolTokens, NoticeTokens - CallTokens})
<1>1. short \in Int /\ short >= ToolTokens /\ short >= NoticeTokens - CallTokens
    <2>1. PICK a \in Int, b \in Int : a = ToolTokens /\ b = NoticeTokens - CallTokens
        BY Sizes
    <2>2. \E x \in {a, b} : \A y \in {a, b} : x >= y
        <3>1. CASE a >= b
            BY <3>1
        <3>2. CASE b >= a
            BY <3>2
        <3>. QED
            BY <3>1, <3>2
    <2>3. Max({a, b}) \in {a, b} /\ \A y \in {a, b} : Max({a, b}) >= y
        BY <2>2 DEF Max
    <2>. QED
        BY <2>1, <2>3
<1>. HIDE DEF short
<1>2. ContextTokens(history) \in Nat
    BY ContextIsNat DEF AccountingInv, AccountingType
<1>3. Actual = SystemTokens + ToolTokens + ContextTokens(history) /\ Actual \in Nat
    BY <1>2, Sizes DEF Actual
<1>4. PICK d \in Gaps : Estimate(history, usage) = Actual + d
    <2>1. CASE usage = Unmeasured
        <3>1. Estimate(history, usage) = Actual + 0
            BY <1>3, <2>1 DEF Estimate
        <3>. QED
            BY <3>1, GapsAreInt
    <2>2. CASE usage # Unmeasured
        BY <1>3, <2>2 DEF AccountingInv, EstimateInv, Off
    <2>. QED
        BY <2>1, <2>2
<1>5. d \in Int /\ d <= CallTokens /\ d >= - short
    BY <1>1, Sizes DEF Gaps
<1>6. Actual + d <= Actual + CallTokens /\ Actual + d >= Actual - short
    BY <1>1, <1>3, <1>5, Sizes
<1>. QED
    BY <1>4, <1>6 DEF EstimateIsCurrent, short

\* The estimate a compaction is decided by follows the context through every
\* turn, switch, interruption and compaction, with the gaps EstimateIsCurrent
\* allows (estimateCurrentContextTokens, recordContextUsage, agent.ts).
THEOREM EstimateStaysCurrent == AccountingSpec => []EstimateIsCurrent
<1>1. AccountingSpec => []AccountingInv
    BY InitKeeps, StepKeeps, PTL DEF AccountingSpec
<1>. QED
    BY <1>1, GapsAreSmall, PTL

-----------------------------------------------------------------------------
(* The file tools: one file, for any number of sessions, calls and texts,  *)
(* and whatever others do to the file.                                     *)

FileText == Content \cup {Torn}
File     == [content : FileText, time : Nat]
Entry    == [content : FileText \cup {Missing}, time : Nat]
ToolSet  == {"Read", "Edit", "Write", "Bash"}

\* Where a call of each tool can be.
Pauses == {"looking", "checking", "asking", "writing", "filling", "remembering"}
PlacesOf(t) == CASE t = "Read"  -> {"stat", "reading"}
                 [] t = "Edit"  -> {"locking", "comparing"} \cup Pauses
                 [] t = "Write" -> {"locking"} \cup Pauses
                 [] t = "Bash"  -> {"checking", "asking", "writing"}
Place == UNION {PlacesOf(t) : t \in ToolSet}

JobSet == [tool : ToolSet, command : Commands, cached : Entry \cup {Missing},
           seen : File \cup {Missing}, given : Content \cup {Missing}, overtaken : BOOLEAN]

FileTypeOK ==
    /\ disk \in File \cup {Missing}
    /\ clock \in Nat
    /\ cache \in [Session -> Entry \cup {Missing}]
    /\ lock \in [Session -> Call \cup {Unlocked}]
    /\ sessionOf \in [Call -> Session]
    /\ where \in [Call -> Place \cup {Idle}]
    /\ job \in [Call -> JobSet]

\* A call waits where its tool can, and what it is about is fit for its session.
Admitted(c) ==
    where[c] # Idle =>
        /\ where[c] \in PlacesOf(job[c].tool)
        /\ where[c] = "reading" => job[c].seen # Missing
        /\ job[c].tool = "Edit" => job[c].cached # Missing

\* Past the lock, a call of Edit or Write holds it.
Holds(c) == where[c] \in Pauses \cup {"comparing"} /\ job[c].tool # "Bash"
                => lock[My(c)] = c

\* Nobody remembers a time that is yet to come.
Past(entry) == entry = Missing \/ entry.time <= clock
TimesArePast ==
    /\ Past(disk)
    /\ \A s \in Session : Past(cache[s])
    /\ \A c \in Call : Past(job[c].cached) /\ Past(job[c].seen)

\* An edit that waits for the time took its entry from the cache before it read
\* the text: a file with the time of the entry is the file that it read.
SameTimeSameFile(c) ==
    where[c] = "comparing" /\ disk # Missing
        /\ disk.time = job[c].cached.time => disk = job[c].seen

\* What a call is about to replace is what it has seen.
SeenIsThere(c) ==
    where[c] \in {"checking", "asking", "writing"} /\ job[c].tool \in {"Edit", "Write"}
        /\ ~job[c].overtaken => disk = job[c].seen

FileInv ==
    /\ FileTypeOK
    /\ TimesArePast
    /\ \A c \in Call : Admitted(c) /\ Holds(c) /\ SameTimeSameFile(c) /\ SeenIsThere(c)

-----------------------------------------------------------------------------
(* What the steps have in common.                                          *)

\* A call that is not about a command, and waits where Edit and Write wait
\* together, is one of theirs.
LEMMA EditOrWrite ==
  ASSUME FileInv, NEW c \in Call, where[c] \in Pauses, job[c].tool # "Bash"
  PROVE  /\ job[c].tool \in {"Edit", "Write"}
         /\ lock[My(c)] = c
<1>1. job[c] \in JobSet /\ Admitted(c) /\ Holds(c)
  BY DEF FileInv, FileTypeOK
<1>2. where[c] # Idle
  BY DEF Pauses, Idle
<1>3. job[c].tool \in ToolSet /\ where[c] \in PlacesOf(job[c].tool)
  BY <1>1, <1>2 DEF JobSet, Admitted
<1>4. job[c].tool # "Read"
  BY <1>3 DEF PlacesOf, Pauses
<1>5. job[c].tool \in {"Edit", "Write"}
  BY <1>3, <1>4 DEF ToolSet
<1>. QED BY <1>1, <1>2, <1>5 DEF Admitted, Holds

\* Two such calls are not of one session.
LEMMA FileOneHolder ==
  ASSUME FileInv, NEW c \in Call, NEW d \in Call, c # d,
         where[c] \in Pauses, job[c].tool # "Bash",
         where[d] \in Pauses, job[d].tool # "Bash"
  PROVE  My(c) # My(d)
  BY EditOrWrite

\* A change of the file: the types hold, the time is new, and of the jobs only
\* the mark moves; whoever is not marked has not been overtaken.
LEMMA FileChangeKeeps ==
  ASSUME FileInv, NEW who, NEW text \in Content \cup {Torn, Missing},
         Change(who, text), cache' = cache, sessionOf' = sessionOf
  PROVE  /\ disk' \in File \cup {Missing} /\ clock' \in Nat
         /\ job' \in [Call -> JobSet]
         /\ TimesArePast'
         /\ \A c \in Call :
              /\ job'[c].tool = job[c].tool /\ job'[c].command = job[c].command
              /\ job'[c].cached = job[c].cached /\ job'[c].seen = job[c].seen
              /\ job'[c].given = job[c].given
              /\ job[c].cached # Missing /\ disk' # Missing
                    => disk'.time # job[c].cached.time
              /\ ~job'[c].overtaken /\ where[c] # Idle /\ who # c =>
                    who \in Call /\ job[who].tool # "Bash" /\ My(who) = My(c)
              /\ ~job'[c].overtaken => ~job[c].overtaken
<1>. USE DEF Change
<1>1. clock \in Nat /\ clock' = clock + 1 /\ job \in [Call -> JobSet]
  BY DEF FileInv, FileTypeOK
<1>2. disk' \in File \cup {Missing}
  BY <1>1 DEF File, FileText
<1>3. \A c \in Call : job'[c] = [job[c] EXCEPT !.overtaken =
            @ \/ (where[c] # Idle /\ who # c /\ ~(who \in Call /\ job[who].tool # "Bash"
                                                         /\ My(who) = My(c)))]
  OBVIOUS
<1>4. ASSUME NEW c \in Call
      PROVE  /\ job'[c] \in JobSet
             /\ job'[c].tool = job[c].tool /\ job'[c].command = job[c].command
             /\ job'[c].cached = job[c].cached /\ job'[c].seen = job[c].seen
             /\ job'[c].given = job[c].given
             /\ job'[c].overtaken = (job[c].overtaken \/ (where[c] # Idle /\ who # c
                    /\ ~(who \in Call /\ job[who].tool # "Bash" /\ My(who) = My(c))))
  <2>. DEFINE others == where[c] # Idle /\ who # c
                 /\ ~(who \in Call /\ job[who].tool # "Bash" /\ My(who) = My(c))
  <2>1. job[c] \in JobSet
    BY <1>1
  <2>2. job'[c] = [job[c] EXCEPT !.overtaken = job[c].overtaken \/ others]
    BY <1>3
  <2>3. job[c].overtaken \in BOOLEAN /\ others \in BOOLEAN
    BY <2>1 DEF JobSet
  <2>. HIDE DEF Change, others
  <2>4. /\ job'[c] \in JobSet
        /\ job'[c].tool = job[c].tool /\ job'[c].command = job[c].command
        /\ job'[c].cached = job[c].cached /\ job'[c].seen = job[c].seen
        /\ job'[c].given = job[c].given
        /\ job'[c].overtaken = (job[c].overtaken \/ others)
    BY <2>1, <2>2, <2>3 DEF JobSet
  <2>. QED BY <2>4 DEF others
<1>5. job' \in [Call -> JobSet]
  <2>1. job' = [c \in Call |-> job'[c]]
    OBVIOUS
  <2>. QED BY <1>4, <2>1
<1>6. TimesArePast'
  <2>1. \A s \in Session : Past(cache[s])'
    <3>1. \A s \in Session : cache[s] \in Entry \cup {Missing} /\ Past(cache[s])
      BY DEF FileInv, FileTypeOK, TimesArePast
    <3>. QED BY <3>1, <1>1 DEF Past, Entry
  <2>2. Past(disk)'
    BY <1>1 DEF Past
  <2>3. ASSUME NEW c \in Call PROVE Past(job[c].cached)' /\ Past(job[c].seen)'
    <3>1. /\ job[c].cached \in Entry \cup {Missing} /\ Past(job[c].cached)
          /\ job[c].seen \in File \cup {Missing} /\ Past(job[c].seen)
      BY <1>1 DEF FileInv, TimesArePast, JobSet
    <3>2. job'[c].cached = job[c].cached /\ job'[c].seen = job[c].seen
      BY <1>4
    <3>. HIDE DEF Change
    <3>. QED BY <3>1, <3>2, <1>1 DEF Past, Entry, File
  <2>. QED BY <2>1, <2>2, <2>3 DEF TimesArePast
<1>7. ASSUME NEW c \in Call, job[c].cached # Missing, disk' # Missing
      PROVE  disk'.time # job[c].cached.time
  <2>1. job[c].cached \in Entry /\ job[c].cached.time <= clock
    BY <1>1, <1>7 DEF FileInv, TimesArePast, JobSet, Past
  <2>2. disk'.time = clock + 1
    BY <1>7
  <2>. HIDE DEF Change
  <2>. QED BY <2>1, <2>2, <1>1 DEF Entry
<1>8. ASSUME NEW c \in Call
      PROVE  /\ ~job'[c].overtaken /\ where[c] # Idle /\ who # c =>
                    who \in Call /\ job[who].tool # "Bash" /\ My(who) = My(c)
             /\ ~job'[c].overtaken => ~job[c].overtaken
  BY <1>4, Zenon
<1>9. clock' \in Nat
  BY <1>1
<1>. HIDE DEF Change
<1>. QED BY <1>2, <1>4, <1>5, <1>6, <1>7, <1>8, <1>9, Zenon

\* A call ends: it is idle, and the lock it may have held is free.
LEMMA FileEndKeeps ==
  ASSUME FileInv, NEW c \in Call, End(c), FileStays,
         cache' \in [Session -> Entry \cup {Missing}],
         \A s \in Session : Past(cache'[s])
  PROVE  FileInv'
<1>. USE DEF End, FileStays, Proceed
<1>1. NoJob \in JobSet /\ NoJob.cached = Missing /\ NoJob.seen = Missing
  BY DEF NoJob, Job, JobSet, ToolSet, Commands
<1>2. FileTypeOK'
  <2>1. FileTypeOK
    BY DEF FileInv
  <2>. QED BY <1>1, <2>1 DEF FileTypeOK
<1>3. TimesArePast'
  <2>1. TimesArePast /\ job \in [Call -> JobSet]
    BY DEF FileInv, FileTypeOK
  <2>. QED BY <1>1, <2>1 DEF TimesArePast, Past
<1>4. ASSUME NEW d \in Call
      PROVE  (Admitted(d) /\ Holds(d) /\ SameTimeSameFile(d) /\ SeenIsThere(d))'
  <2>0. /\ Admitted(d) /\ Holds(d) /\ SameTimeSameFile(d) /\ SeenIsThere(d)
        /\ where \in [Call -> Place \cup {Idle}]
        /\ job \in [Call -> JobSet] /\ sessionOf \in [Call -> Session]
        /\ lock \in [Session -> Call \cup {Unlocked}]
    BY DEF FileInv, FileTypeOK
  <2>1. CASE d = c
    BY <2>0, <2>1 DEF Admitted, Holds, SameTimeSameFile, SeenIsThere, Idle, Pauses
  <2>2. CASE d # c
    <3>1. where'[d] = where[d] /\ job'[d] = job[d] /\ My(d)' = My(d) /\ disk' = disk
      BY <2>0, <2>2 DEF My
    <3>2. lock[My(d)] = d => lock'[My(d)] = d
      BY <2>0, <2>2 DEF My
    <3>. QED BY <2>0, <3>1, <3>2 DEF Admitted, Holds, SameTimeSameFile, SeenIsThere
  <2>. QED BY <2>1, <2>2
<1>. QED BY <1>2, <1>3, <1>4 DEF FileInv

\* A step in which one call moves and the file stays: what the others know is
\* still so, if nobody else's lock is touched.
LEMMA FileOthersKeep ==
  ASSUME FileInv, NEW c \in Call, FileStays,
         UNCHANGED cache,
         NEW j \in JobSet, job' = [job EXCEPT ![c] = j],
         Past(j.cached), Past(j.seen),
         NEW pc \in Place, Proceed(c, pc),
         lock' \in {lock, [lock EXCEPT ![My(c)] = c]},
         lock' # lock => lock[My(c)] = Unlocked,
         (Admitted(c) /\ Holds(c) /\ SameTimeSameFile(c) /\ SeenIsThere(c))'
  PROVE  FileInv'
<1>. USE DEF FileStays, Proceed
<1>0. FileTypeOK /\ TimesArePast
  BY DEF FileInv
<1>1. FileTypeOK'
  BY <1>0 DEF FileTypeOK, My
<1>2. TimesArePast'
  BY <1>0 DEF TimesArePast, Past, FileTypeOK
<1>3. ASSUME NEW d \in Call, d # c
      PROVE  (Admitted(d) /\ Holds(d) /\ SameTimeSameFile(d) /\ SeenIsThere(d))'
  <2>0. /\ Admitted(d) /\ Holds(d) /\ SameTimeSameFile(d) /\ SeenIsThere(d)
        /\ Unlocked \notin Call
    BY FileAssumption DEF FileInv
  <2>1. where'[d] = where[d] /\ job'[d] = job[d] /\ My(d)' = My(d) /\ disk' = disk
    BY <1>0, <1>3 DEF FileTypeOK, My
  <2>2. lock[My(d)] = d => lock'[My(d)] = d
    BY <1>0, <1>3, <2>0 DEF FileTypeOK, My
  <2>. QED BY <2>0, <2>1, <2>2 DEF Admitted, Holds, SameTimeSameFile, SeenIsThere
<1>. QED BY <1>1, <1>2, <1>3 DEF FileInv

-----------------------------------------------------------------------------
(* Each step keeps the invariant.                                          *)

\* What a call is written with is among the commands and the places of a call.
LEMMA CommandsAreKnown == "inspect" \in Commands /\ {"stat", "reading"} \cup Pauses
                            \cup {"locking", "comparing"} \subseteq Place
  BY DEF Commands, Place, PlacesOf, Pauses, ToolSet

\* What a call took from the cache is past, as the cache is.
LEMMA FileStartKeeps ==
  ASSUME FileInv, NEW c \in Call, NEW t \in ToolsOf(My(c)), NEW cmd \in Commands,
         t # "Bash" => cmd = "inspect", Start(c, t, cmd)
  PROVE  FileInv'
<1> DEFINE j == Job(t, cmd, IF t = "Edit" THEN cache[My(c)] ELSE Missing)
<1>0. FileTypeOK /\ TimesArePast /\ My(c) \in Session
  BY DEF FileInv, FileTypeOK, My
<1>1. t \in ToolSet
  BY DEF ToolsOf, ToolSet
<1>2. j \in JobSet /\ Past(j.cached) /\ Past(j.seen) /\ j.tool = t /\ j.command = cmd
  BY <1>0, <1>1 DEF Job, JobSet, FileTypeOK, TimesArePast, Past
<1>3. job' = [job EXCEPT ![c] = j] /\ FileStays /\ UNCHANGED <<cache, lock>>
  BY DEF Start
<1>4. PICK pc \in {"stat", "locking", "checking"} :
        /\ Proceed(c, pc)
        /\ pc \in PlacesOf(t)
        /\ t = "Bash" => pc = "checking" /\ BashAdmits(My(c), cmd)
        /\ t # "Bash" => pc # "checking"
        /\ t = "Edit" => j.cached # Missing
  BY <1>1 DEF Start, ToolSet, PlacesOf, Pauses, Job
<1>5. where'[c] = pc /\ job'[c] = j /\ My(c)' = My(c)
  BY <1>0, <1>3, <1>4 DEF FileTypeOK, Proceed, FileStays, My
<1>. HIDE DEF j
<1>6. (Admitted(c) /\ Holds(c) /\ SameTimeSameFile(c) /\ SeenIsThere(c))'
  <2>1. Admitted(c)'
    BY <1>1, <1>2, <1>4, <1>5 DEF Admitted, ToolSet
  <2>2. Holds(c)'
    BY <1>2, <1>4, <1>5 DEF Holds, Pauses
  <2>3. SameTimeSameFile(c)' /\ SeenIsThere(c)'
    BY <1>2, <1>4, <1>5 DEF SameTimeSameFile, SeenIsThere
  <2>. QED BY <2>1, <2>2, <2>3
<1>7. pc \in Place
  BY <1>4, CommandsAreKnown DEF Pauses
<1>. QED BY <1>2, <1>3, <1>4, <1>6, <1>7, FileOthersKeep

\* Reading or checking a file keeps the invariant,
LEMMA ReadStatKeeps ==
  ASSUME FileInv, NEW c \in Call, ReadStat(c)
  PROVE  FileInv'
<1>0. FileTypeOK /\ TimesArePast /\ Admitted(c)
  BY DEF FileInv
<1>1. CASE disk = Missing
  BY <1>0, <1>1, FileEndKeeps DEF ReadStat, TimesArePast, FileTypeOK
<1>2. CASE disk # Missing
  <2> DEFINE j == [job[c] EXCEPT !.seen = disk]
  <2>1. job[c] \in JobSet /\ disk \in File
    BY <1>0, <1>2 DEF FileTypeOK
  <2>2. /\ j \in JobSet /\ j.tool = job[c].tool /\ j.command = job[c].command
        /\ j.cached = job[c].cached /\ j.seen = disk
    BY <2>1 DEF JobSet
  <2>3. Past(j.cached) /\ Past(j.seen)
    BY <1>0, <2>2 DEF TimesArePast
  <2>4. /\ job' = [job EXCEPT ![c] = j] /\ Proceed(c, "reading") /\ lock' = lock
        /\ FileStays /\ UNCHANGED cache /\ where[c] = "stat"
    BY <1>2 DEF ReadStat, GoOn
  <2>5. where'[c] = "reading" /\ job'[c] = j /\ My(c)' = My(c)
    BY <1>0, <2>4 DEF FileTypeOK, Proceed, FileStays, My
  <2>. HIDE DEF j
  <2>6. (Admitted(c) /\ Holds(c) /\ SameTimeSameFile(c) /\ SeenIsThere(c))'
    <3>1. job[c].tool = "Read"
      BY <1>0, <2>1, <2>4 DEF Admitted, PlacesOf, JobSet, ToolSet, Idle, Pauses
    <3>. QED BY <1>0, <1>2, <2>2, <2>4, <2>5, <3>1
             DEF Admitted, Holds, SameTimeSameFile, SeenIsThere, PlacesOf, Pauses, Idle
  <2>. QED BY <2>2, <2>3, <2>4, <2>6, CommandsAreKnown, FileOthersKeep
<1>. QED BY <1>1, <1>2

\* The cache gets bytes read just now with a time read before.
LEMMA ReadBytesKeeps ==
  ASSUME FileInv, NEW c \in Call, ReadBytes(c)
  PROVE  FileInv'
<1>0. /\ FileTypeOK /\ TimesArePast /\ job[c] \in JobSet /\ My(c) \in Session
      /\ Admitted(c) /\ where[c] = "reading"
  BY DEF FileInv, FileTypeOK, My, ReadBytes
<1>1. job[c].seen \in File /\ job[c].seen.time <= clock
  BY <1>0 DEF JobSet, TimesArePast, Past, Admitted, Idle
<1>2. CASE disk = Missing
  BY <1>0, <1>2, FileEndKeeps DEF ReadBytes, TimesArePast, FileTypeOK
<1>3. CASE disk # Missing
  <2> DEFINE e == [content |-> disk.content, time |-> job[c].seen.time]
  <2>1. e \in Entry /\ Past(e)
    BY <1>0, <1>1, <1>3 DEF FileTypeOK, File, Entry, Past
  <2>2. cache' = [cache EXCEPT ![My(c)] = e]
    BY <1>3 DEF ReadBytes
  <2>. HIDE DEF e
  <2>3. cache' \in [Session -> Entry \cup {Missing}] /\ \A s \in Session : Past(cache'[s])
    BY <1>0, <2>1, <2>2 DEF FileTypeOK, TimesArePast
  <2>. QED BY <2>3, FileEndKeeps DEF ReadBytes
<1>. QED BY <1>2, <1>3

\* taking the lock of a file,
LEMMA TakeLockKeeps ==
  ASSUME FileInv, NEW c \in Call, TakeLock(c)
  PROVE  FileInv'
<1>0. /\ FileTypeOK /\ TimesArePast /\ Admitted(c)
      /\ job[c] \in JobSet /\ My(c) \in Session /\ job \in [Call -> JobSet]
  BY DEF FileInv, FileTypeOK, My
<1>1. /\ job' = [job EXCEPT ![c] = job[c]] /\ Proceed(c, "looking")
      /\ FileStays /\ UNCHANGED cache /\ where[c] = "locking"
      /\ lock' = [lock EXCEPT ![My(c)] = c] /\ lock[My(c)] = Unlocked
  BY <1>0 DEF TakeLock
<1>2. where'[c] = "looking" /\ job'[c] = job[c] /\ My(c)' = My(c) /\ lock'[My(c)] = c
  BY <1>0, <1>1 DEF FileTypeOK, Proceed, FileStays, My
<1>3. (Admitted(c) /\ Holds(c) /\ SameTimeSameFile(c) /\ SeenIsThere(c))'
  <2>1. job[c].tool \in {"Edit", "Write"}
    BY <1>0, <1>1 DEF Admitted, PlacesOf, JobSet, ToolSet, Idle, Pauses
  <2>. QED BY <1>0, <1>1, <1>2, <2>1
           DEF Admitted, Holds, SameTimeSameFile, SeenIsThere, PlacesOf, Pauses, Idle
<1>4. Past(job[c].cached) /\ Past(job[c].seen)
  BY <1>0 DEF TimesArePast
<1>5. "looking" \in Place
  BY CommandsAreKnown DEF Pauses
<1>. QED BY <1>0, <1>1, <1>3, <1>4, <1>5, FileOthersKeep

\* What a call finds under the lock is what is there.
LEMMA LookKeeps ==
  ASSUME FileInv, NEW c \in Call, Look(c)
  PROVE  FileInv'
<1>0. /\ FileTypeOK /\ TimesArePast /\ Admitted(c) /\ job[c] \in JobSet
      /\ where[c] \in Pauses /\ where[c] = "looking" /\ My(c) \in Session
  BY DEF FileInv, FileTypeOK, My, Look, Pauses
<1>1. CASE Is(c, "Edit") = (disk = Missing)
  BY <1>0, <1>1, FileEndKeeps DEF Look, TimesArePast, FileTypeOK
<1>2. CASE Is(c, "Edit") # (disk = Missing)
  <2> DEFINE j == [job[c] EXCEPT !.seen = disk, !.overtaken = FALSE]
             pc == IF Is(c, "Edit") THEN "comparing" ELSE "checking"
  <2>1. job[c].tool # "Bash" /\ job[c].tool \in PlacesOf(job[c].tool) \cup ToolSet
    BY <1>0 DEF Admitted, PlacesOf, JobSet, ToolSet, Idle
  <2>2. job[c].tool \in {"Edit", "Write"} /\ lock[My(c)] = c
    BY <1>0, <2>1, EditOrWrite
  <2>3. /\ j \in JobSet /\ j.tool = job[c].tool /\ j.command = job[c].command
        /\ j.cached = job[c].cached /\ j.seen = disk /\ ~j.overtaken
    BY <1>0 DEF JobSet, FileTypeOK
  <2>4. Past(j.cached) /\ Past(j.seen)
    BY <1>0, <2>3 DEF TimesArePast
  <2>5. /\ job' = [job EXCEPT ![c] = j] /\ Proceed(c, pc) /\ lock' = lock
        /\ FileStays /\ UNCHANGED cache
    BY <1>2 DEF Look, GoOn
  <2>6. pc \in {"comparing", "checking"} /\ pc \in Place /\ pc \in PlacesOf(j.tool)
    BY <2>2, <2>3, CommandsAreKnown DEF Pauses, PlacesOf, Is
  <2>7. where'[c] = pc /\ job'[c] = j /\ My(c)' = My(c) /\ disk' = disk
    BY <1>0, <2>5 DEF FileTypeOK, Proceed, FileStays, My
  <2>. HIDE DEF j, pc
  <2>8. (Admitted(c) /\ Holds(c) /\ SameTimeSameFile(c) /\ SeenIsThere(c))'
    BY <1>0, <2>2, <2>3, <2>5, <2>6, <2>7
       DEF Admitted, Holds, SameTimeSameFile, SeenIsThere, Idle
  <2>. QED BY <2>3, <2>4, <2>5, <2>6, <2>8, FileOthersKeep
<1>. QED BY <1>1, <1>2

\* The time agrees with the cache, and the text with the cache: the file is the
\* one that was read.
LEMMA CompareKeeps ==
  ASSUME FileInv, NEW c \in Call, Compare(c)
  PROVE  FileInv'
<1> DEFINE fresh == disk # Missing /\ IsFresh(job[c].cached, disk.time, job[c].seen.content)
<1>0. /\ FileTypeOK /\ TimesArePast /\ Admitted(c) /\ job[c] \in JobSet /\ Holds(c)
      /\ SameTimeSameFile(c) /\ where[c] = "comparing" /\ My(c) \in Session
  BY DEF FileInv, FileTypeOK, My, Compare
<1>1. job[c].tool = "Edit" /\ lock[My(c)] = c
  BY <1>0 DEF Admitted, Holds, PlacesOf, JobSet, ToolSet, Idle, Pauses
<1>2. CASE ~fresh
  BY <1>0, <1>2, FileEndKeeps DEF Compare, TimesArePast, FileTypeOK
<1>3. CASE fresh
  <2> DEFINE j == [job[c] EXCEPT !.overtaken = FALSE]
  <2>1. /\ j \in JobSet /\ j.tool = job[c].tool /\ j.command = job[c].command
        /\ j.cached = job[c].cached /\ j.seen = job[c].seen
    BY <1>0 DEF JobSet
  <2>2. Past(j.cached) /\ Past(j.seen)
    BY <1>0, <2>1 DEF TimesArePast
  <2>3. /\ job' = [job EXCEPT ![c] = j] /\ Proceed(c, "checking") /\ lock' = lock
        /\ FileStays /\ UNCHANGED cache
    BY <1>3 DEF Compare, GoOn
  <2>4. where'[c] = "checking" /\ job'[c] = j /\ My(c)' = My(c) /\ disk' = disk
    BY <1>0, <2>3 DEF FileTypeOK, Proceed, FileStays, My
  <2>5. disk = job[c].seen
    BY <1>0, <1>3 DEF SameTimeSameFile, IsFresh
  <2>6. "checking" \in Place
    BY CommandsAreKnown DEF Pauses
  <2>. HIDE DEF j
  <2>7. (Admitted(c) /\ Holds(c) /\ SameTimeSameFile(c) /\ SeenIsThere(c))'
    BY <1>0, <1>1, <2>1, <2>3, <2>4, <2>5
       DEF Admitted, Holds, SameTimeSameFile, SeenIsThere, PlacesOf, Pauses, Idle
  <2>. QED BY <2>1, <2>2, <2>3, <2>6, <2>7, FileOthersKeep
<1>. QED BY <1>2, <1>3

\* checking it under the lock,
LEMMA CheckKeeps ==
  ASSUME FileInv, NEW c \in Call, Check(c)
  PROVE  FileInv'
<1>0. /\ FileTypeOK /\ TimesArePast /\ Admitted(c) /\ job[c] \in JobSet /\ Holds(c)
      /\ SeenIsThere(c) /\ where[c] = "checking" /\ My(c) \in Session
  BY DEF FileInv, FileTypeOK, My, Check
<1>1. CASE End(c) /\ FileStays /\ UNCHANGED cache
  BY <1>0, <1>1, FileEndKeeps DEF TimesArePast, FileTypeOK
<1>2. ASSUME NEW pc \in {"asking", "writing"}, NEW text \in Content \cup {Missing},
             Proceed(c, pc), UNCHANGED <<lock, cache>>, FileStays,
             job' = [job EXCEPT ![c].given = text]
      PROVE  FileInv'
  <2> DEFINE j == [job[c] EXCEPT !.given = text]
  <2>1. /\ j \in JobSet /\ j.tool = job[c].tool /\ j.command = job[c].command
        /\ j.cached = job[c].cached /\ j.seen = job[c].seen
        /\ j.overtaken = job[c].overtaken
    BY <1>0 DEF JobSet
  <2>2. Past(j.cached) /\ Past(j.seen)
    BY <1>0, <2>1 DEF TimesArePast
  <2>3. job' = [job EXCEPT ![c] = j]
    BY <1>2
  <2>4. where'[c] = pc /\ job'[c] = j /\ My(c)' = My(c) /\ disk' = disk /\ lock' = lock
    BY <1>0, <1>2, <2>3 DEF FileTypeOK, Proceed, FileStays, My
  <2>5. pc \in Place /\ pc \in Pauses
    BY <1>2, CommandsAreKnown DEF Pauses
  <2>. HIDE DEF j
  <2>6. pc \in PlacesOf(j.tool)
    BY <1>0, <1>2, <2>1 DEF Admitted, PlacesOf, Pauses, JobSet, ToolSet, Idle
  <2>7. (Admitted(c) /\ Holds(c) /\ SameTimeSameFile(c) /\ SeenIsThere(c))'
    BY <1>0, <1>2, <2>1, <2>4, <2>5, <2>6
       DEF Admitted, Holds, SameTimeSameFile, SeenIsThere, Pauses, Idle
  <2>. QED BY <1>2, <2>1, <2>2, <2>3, <2>5, <2>7, FileOthersKeep
<1>. QED BY <1>1, <1>2 DEF Check, GoOn

\* the answer of the user,
LEMMA ApproveKeeps ==
  ASSUME FileInv, NEW c \in Call, Approve(c)
  PROVE  FileInv'
<1>0. /\ FileTypeOK /\ TimesArePast /\ Admitted(c) /\ job[c] \in JobSet /\ Holds(c)
      /\ SeenIsThere(c) /\ where[c] = "asking" /\ My(c) \in Session
      /\ job \in [Call -> JobSet]
  BY DEF FileInv, FileTypeOK, My, Approve
<1>1. /\ job' = [job EXCEPT ![c] = job[c]] /\ Proceed(c, "writing")
      /\ FileStays /\ UNCHANGED <<cache, lock>>
  BY <1>0 DEF Approve, GoOn
<1>2. where'[c] = "writing" /\ job'[c] = job[c] /\ My(c)' = My(c) /\ disk' = disk
  BY <1>0, <1>1 DEF FileTypeOK, Proceed, FileStays, My
<1>3. "writing" \in Place /\ Past(job[c].cached) /\ Past(job[c].seen)
  BY <1>0, CommandsAreKnown DEF TimesArePast, Pauses
<1>4. "writing" \in PlacesOf(job[c].tool)
  BY <1>0 DEF Admitted, PlacesOf, Pauses, JobSet, ToolSet, Idle
<1>5. (Admitted(c) /\ Holds(c) /\ SameTimeSameFile(c) /\ SeenIsThere(c))'
  BY <1>0, <1>1, <1>2, <1>4
     DEF Admitted, Holds, SameTimeSameFile, SeenIsThere, Pauses, Idle
<1>. QED BY <1>0, <1>1, <1>3, <1>5, FileOthersKeep

\* The file changes, and nobody but the call that changed it moves.  A call of
\* the same session cannot have been waiting to write: it would hold the lock.
LEMMA WritingKeeps ==
  ASSUME FileInv, NEW c \in Call, NEW pc \in {"filling", "remembering"},
         where[c] \in {"writing", "filling"}, job[c].tool # "Bash",
         NEW text \in Content \cup {Torn, Missing}, Change(c, text),
         GoOn(c, pc), UNCHANGED <<cache, sessionOf>>
  PROVE  FileInv'
<1>0. /\ FileTypeOK /\ where[c] \in Pauses /\ Admitted(c) /\ Holds(c)
      /\ where' = [where EXCEPT ![c] = pc] /\ lock' = lock
      /\ My(c) \in Session
  BY DEF FileInv, FileTypeOK, My, Pauses, GoOn, Proceed
<1>1. /\ disk' \in File \cup {Missing} /\ clock' \in Nat
      /\ job' \in [Call -> JobSet] /\ TimesArePast'
  BY FileChangeKeeps
<1>2. job[c].tool \in {"Edit", "Write"}
  BY <1>0, EditOrWrite
<1>4. pc \in Place /\ pc \in Pauses
  BY CommandsAreKnown DEF Pauses
<1>5. FileTypeOK'
  BY <1>0, <1>1, <1>4 DEF FileTypeOK
<1>6. ASSUME NEW d \in Call
      PROVE  (Admitted(d) /\ Holds(d) /\ SameTimeSameFile(d) /\ SeenIsThere(d))'
  <2>0. /\ Admitted(d) /\ Holds(d) /\ SameTimeSameFile(d) /\ SeenIsThere(d)
        /\ My(d)' = My(d) /\ My(d) \in Session
    BY <1>0 DEF FileInv, My, FileTypeOK
  <2>1. /\ job'[d].tool = job[d].tool /\ job'[d].command = job[d].command
        /\ job'[d].cached = job[d].cached /\ job'[d].seen = job[d].seen
        /\ job[d].cached # Missing /\ disk' # Missing => disk'.time # job[d].cached.time
        /\ ~job'[d].overtaken /\ where[d] # Idle /\ c # d => My(c) = My(d)
        /\ ~job'[d].overtaken => ~job[d].overtaken
    BY FileChangeKeeps
  <2>2. CASE d = c
    <3>1. where'[d] = pc
      BY <1>0, <2>2 DEF FileTypeOK
    <3>2. pc \in PlacesOf(job[c].tool)
      BY <1>2, <1>4 DEF PlacesOf
    <3>3. lock[My(c)] = c
      BY <1>0 DEF Holds
    <3>. QED BY <1>0, <1>2, <2>0, <2>1, <2>2, <3>1, <3>2, <3>3
             DEF Admitted, Holds, SameTimeSameFile, SeenIsThere, Idle, Pauses
  <2>3. CASE d # c
    <3>1. where'[d] = where[d]
      BY <1>0, <2>3 DEF FileTypeOK
    <3>2. Admitted(d)' /\ Holds(d)'
      BY <1>0, <2>0, <2>1, <3>1 DEF Admitted, Holds
    <3>3. SameTimeSameFile(d)'
      <4>1. SUFFICES ASSUME where[d] = "comparing"
                     PROVE  job[d].cached # Missing
        BY <2>1, <3>1 DEF SameTimeSameFile
      <4>2. job[d] \in JobSet /\ where[d] # Idle
        BY <1>0, <4>1 DEF FileTypeOK, Idle
      <4>. QED BY <2>0, <4>1, <4>2 DEF Admitted, PlacesOf, Pauses, JobSet, ToolSet
    <3>4. SeenIsThere(d)'
      <4>1. SUFFICES ASSUME where[d] \in {"checking", "asking", "writing"},
                            job[d].tool \in {"Edit", "Write"}, ~job'[d].overtaken
                     PROVE  FALSE
        BY <2>1, <3>1 DEF SeenIsThere
      <4>2. where[d] \in Pauses /\ where[d] # Idle /\ job[d].tool # "Bash"
        BY <4>1 DEF Pauses, Idle
      <4>. QED BY <1>0, <2>1, <2>3, <4>1, <4>2, FileOneHolder
    <3>. QED BY <3>2, <3>3, <3>4
  <2>. QED BY <2>2, <2>3
<1>. QED BY <1>1, <1>5, <1>6 DEF FileInv

\* The file is changed by a command or by somebody outside, who hold no lock:
\* whoever is at work is marked.
LEMMA UnlockedChangeKeeps ==
  ASSUME FileInv, NEW who, who \notin Call \/ job[who].tool = "Bash",
         NEW text \in Content \cup {Torn, Missing}, Change(who, text),
         UNCHANGED <<cache, lock, sessionOf, where>>
  PROVE  FileInv'
<1>0. FileTypeOK
  BY DEF FileInv
<1>1. /\ disk' \in File \cup {Missing} /\ clock' \in Nat
      /\ job' \in [Call -> JobSet] /\ TimesArePast'
  BY FileChangeKeeps
<1>2. FileTypeOK'
  BY <1>0, <1>1 DEF FileTypeOK
<1>3. ASSUME NEW d \in Call
      PROVE  (Admitted(d) /\ Holds(d) /\ SameTimeSameFile(d) /\ SeenIsThere(d))'
  <2>0. /\ Admitted(d) /\ Holds(d) /\ My(d)' = My(d) /\ job[d] \in JobSet
    BY <1>0 DEF FileInv, My, FileTypeOK
  <2>1. /\ job'[d].tool = job[d].tool /\ job'[d].command = job[d].command
        /\ job'[d].cached = job[d].cached /\ job'[d].seen = job[d].seen
        /\ job[d].cached # Missing /\ disk' # Missing => disk'.time # job[d].cached.time
        /\ ~job'[d].overtaken /\ where[d] # Idle /\ who # d =>
               who \in Call /\ job[who].tool # "Bash"
    BY FileChangeKeeps
  <2>2. Admitted(d)' /\ Holds(d)'
    BY <2>0, <2>1 DEF Admitted, Holds
  <2>3. SameTimeSameFile(d)'
    <3>1. SUFFICES ASSUME where[d] = "comparing"
                   PROVE  job[d].cached # Missing
      BY <2>1 DEF SameTimeSameFile
    <3>. QED BY <2>0, <3>1 DEF Admitted, PlacesOf, Pauses, JobSet, ToolSet, Idle
  <2>4. SeenIsThere(d)'
    <3>1. SUFFICES ASSUME where[d] \in {"checking", "asking", "writing"},
                          job[d].tool \in {"Edit", "Write"}, ~job'[d].overtaken
                   PROVE  FALSE
      BY <2>1 DEF SeenIsThere
    <3>2. where[d] # Idle
      BY <3>1 DEF Idle
    <3>. QED BY <2>1, <3>1, <3>2
  <2>. QED BY <2>2, <2>3, <2>4
<1>. QED BY <1>1, <1>2, <1>3 DEF FileInv

\* and noting what was read or written.
LEMMA RememberKeeps ==
  ASSUME FileInv, NEW c \in Call, Remember(c)
  PROVE  FileInv'
<1>0. FileTypeOK /\ TimesArePast /\ job[c] \in JobSet /\ My(c) \in Session
  BY DEF FileInv, FileTypeOK, My
<1>1. CASE disk = Missing
  BY <1>0, <1>1, FileEndKeeps DEF Remember, TimesArePast, FileTypeOK
<1>2. CASE disk # Missing
  <2> DEFINE e == [content |-> job[c].given, time |-> disk.time]
  <2>1. e \in Entry /\ Past(e)
    BY <1>0, <1>2 DEF FileTypeOK, TimesArePast, File, FileText, Entry, Past, JobSet
  <2>2. cache' = [cache EXCEPT ![My(c)] = e]
    BY <1>2 DEF Remember
  <2>. HIDE DEF e
  <2>3. cache' \in [Session -> Entry \cup {Missing}] /\ \A s \in Session : Past(cache'[s])
    BY <1>0, <2>1, <2>2 DEF FileTypeOK, TimesArePast
  <2>. QED BY <2>3, FileEndKeeps DEF Remember
<1>. QED BY <1>1, <1>2

\* So does every step.
LEMMA FileNextKeeps == FileInv /\ [FileNext]_fileVars => FileInv'
<1> SUFFICES ASSUME FileInv, [FileNext]_fileVars PROVE FileInv'
  OBVIOUS
<1>0. FileTypeOK /\ TimesArePast
  BY DEF FileInv
<1>1. CASE UNCHANGED fileVars
  BY <1>1 DEF fileVars, FileInv, FileTypeOK, TimesArePast, Past, Admitted, Holds,
              SameTimeSameFile, SeenIsThere, My
<1>2. CASE OutsiderWrites
  BY <1>2, UnlockedChangeKeeps, FileAssumption DEF OutsiderWrites, Outsider
<1>3. ASSUME NEW c \in Call, NEW t \in ToolsOf(My(c)), NEW cmd \in Commands,
             t # "Bash" => cmd = "inspect", Start(c, t, cmd)
      PROVE  FileInv'
  BY <1>3, FileStartKeeps
<1>4. ASSUME NEW c \in Call, CallStep(c)
      PROVE  FileInv'
  <2>1. CASE Truncate(c)
    BY <2>1, WritingKeeps DEF Truncate, Is
  <2>2. CASE Fill(c)
    <3>1. job[c] \in JobSet /\ where[c] = "filling" /\ Admitted(c)
      BY <1>0, <2>2 DEF Fill, FileTypeOK, FileInv
    <3>2. job[c].given \in Content \cup {Torn, Missing} /\ job[c].tool # "Bash"
      BY <3>1 DEF JobSet, Admitted, PlacesOf, Idle
    <3>. QED BY <2>2, <3>1, <3>2, WritingKeeps DEF Fill
  <2>3. CASE Over(c)
    BY <1>0, <2>3, FileEndKeeps DEF Over, FileTypeOK, TimesArePast
  <2>. QED BY <1>4, <2>1, <2>2, <2>3, ReadStatKeeps, ReadBytesKeeps, TakeLockKeeps,
              LookKeeps, CompareKeeps, CheckKeeps, ApproveKeeps, RememberKeeps DEF CallStep
<1>5. ASSUME NEW c \in Call, CommandWrites(c)
      PROVE  FileInv'
  <2>1. job[c] \in JobSet /\ where[c] = "writing" /\ Admitted(c) /\ job[c].tool = "Bash"
    BY <1>0, <1>5 DEF CommandWrites, FileTypeOK, FileInv, Is
  <2>2. PICK text \in Content \cup {Missing} : Change(c, text)
    BY <1>5 DEF CommandWrites
  <2>. QED BY <1>5, <2>1, <2>2, UnlockedChangeKeeps DEF CommandWrites
<1>6. ASSUME NEW c \in Call, InterruptCall(c)
      PROVE  FileInv'
  BY <1>0, <1>6, FileEndKeeps DEF InterruptCall, FileTypeOK, TimesArePast
<1>. QED BY <1>1, <1>2, <1>3, <1>4, <1>5, <1>6 DEF FileNext

\* It holds at the start.
LEMMA FileInitHolds == FileInit => FileInv
<1> SUFFICES ASSUME FileInit PROVE FileInv
  OBVIOUS
<1>1. NoJob \in JobSet /\ NoJob.cached = Missing /\ NoJob.seen = Missing
  BY DEF NoJob, Job, JobSet, ToolSet, Commands
<1>2. FileTypeOK
  <2>1. [content : Content, time : {0}] \subseteq File
    BY DEF File, FileText
  <2>2. disk \in File \cup {Missing}
    BY <2>1 DEF FileInit
  <2>. QED BY <1>1, <2>2 DEF FileInit, FileTypeOK
<1>3. TimesArePast
  BY <1>1 DEF FileInit, TimesArePast, Past
<1>4. ASSUME NEW c \in Call
      PROVE  Admitted(c) /\ Holds(c) /\ SameTimeSameFile(c) /\ SeenIsThere(c)
  <2>1. where[c] = "idle"
    BY DEF FileInit, Idle
  <2>. QED BY <2>1 DEF Admitted, Holds, SameTimeSameFile, SeenIsThere, Idle, Pauses
<1>. QED BY <1>2, <1>3, <1>4 DEF FileInv

-----------------------------------------------------------------------------
(* What holds of every run.                                                *)

\* The invariant holds in every state.
THEOREM FileInvariant == FileSpec => []FileInv
  BY FileInitHolds, FileNextKeeps, PTL DEF FileSpec

\* An edit or a write replaces the text its call has seen, whatever the other
\* calls, the other sessions and the user's editor do while it waits for the
\* lock, the disk and the user: edit.ts and write.ts look under the lock, and
\* nothing but an outsider can have changed the file since.
THEOREM NothingIsLost == FileSpec => []NoLostChange
<1>1. FileInv => NoLostChange
  <2>. SUFFICES ASSUME FileInv, NEW c \in Call, where[c] = "writing",
                       job[c].tool \in {"Edit", "Write"}, ~job[c].overtaken
                PROVE  disk = job[c].seen
    BY DEF NoLostChange
  <2>. QED BY DEF FileInv, SeenIsThere
<1>. QED BY <1>1, FileInvariant, PTL
=============================================================================

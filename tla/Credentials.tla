----------------------------- MODULE Credentials ------------------------------
(***************************************************************************)
(* Who holds the Codex tokens: the refresh of openai-codex.ts shared by    *)
(* the turns of a process, auth.json as codex-auth.ts reads and writes it, *)
(* the sign-in of codex-oauth.ts, and the settings, which write auth.json  *)
(* as well.                                                                *)
(*                                                                         *)
(* The key of the provider Codex is the number of a refresh token.  The    *)
(* server takes each token once and answers with the next.                 *)
(***************************************************************************)
EXTENDS Settings

CONSTANTS
    Turn,         \* turns that can ask for credentials at once, of parent and children
    Codex,        \* the provider
    Free,
    MaxTokens     \* bound; the restarts are bounded with the edits

ASSUME CredentialsAssumption ==
    /\ Codex \in Provider
    /\ MaxTokens \in Nat
    /\ None \notin Nat /\ Free \notin Turn

VARIABLES
    issued,     \* the newest token
    spent,      \* tokens the server has taken
    gate,       \* refreshGate: per token the turn that exchanges it, or Free
    at,         \* per turn: where resolveCredentials waits
    token,      \* per turn: the token it has read
    minted,     \* per turn: the token it persists
    copy,       \* per turn, and of the sign-in: auth.json as loaded for a persist
    login,      \* the sign-in: "off", "waiting", "saving", "mirroring"
    overtaken,  \* for the properties, per turn: its token was being refreshed, or
                \* auth.json astray, when it read it; or it was spent since
    mislaid     \* for the properties: auth.json was given a token that is spent,
                \* or was not given the newest

tokenVars == <<issued, spent>>
turnVars  == <<gate, at, token, minted, copy, overtaken>>
credentialsVars == <<settingsVars, tokenVars, turnVars, login, mislaid>>

SignIn == "signin"
Found(p) == IF p = Codex THEN 0 ELSE None     \* what the Codex CLI has left
FoundKeys == [p \in Provider |-> Found(p)]

CredentialsInit ==
    /\ SettingsInit(FoundKeys)
    /\ issued = 0 /\ spent = {}
    /\ gate = [n \in 0..MaxTokens |-> Free]
    /\ at = [t \in Turn |-> "idle"]
    /\ token = [t \in Turn |-> None] /\ minted = [t \in Turn |-> None]
    /\ copy = [w \in Turn \cup {SignIn} |-> Nobody]
    /\ login = "off"
    /\ overtaken = [t \in Turn |-> FALSE]
    /\ mislaid = FALSE

Goto(t, pc) == at' = [at EXCEPT ![t] = pc]
Refreshing(n) == {t \in Turn : token[t] = n /\ at[t] \in {"exchanging", "persisting", "saving"}}

-----------------------------------------------------------------------------
(* A turn resolves its credentials.                                        *)

\* The resolver reads auth.json; before it holds Codex tokens, what the model
\* was built with.
Read(t) ==
    /\ at[t] = "idle" /\ config.keys[Codex] # None
    /\ LET n == IF auth[Codex] # None THEN auth[Codex] ELSE config.keys[Codex]
       IN  /\ token' = [token EXCEPT ![t] = n]
           /\ overtaken' = [overtaken EXCEPT ![t] = mislaid \/ Refreshing(n) # {}]
    /\ Goto(t, "read")
    /\ UNCHANGED <<settingsVars, tokenVars, gate, minted, copy, login, mislaid>>

Done(t) ==
    /\ Goto(t, "idle")
    /\ token' = [token EXCEPT ![t] = None]
    /\ minted' = [minted EXCEPT ![t] = None]
    /\ copy' = [copy EXCEPT ![t] = Nobody]

\* What the turns that have just read a token know of it, once those of `taken`
\* are spent; the turns of `done` are over.
Overtake(taken, done) ==
    /\ spent' = spent \cup taken
    /\ overtaken' = [u \in Turn |->
            /\ u \notin done
            /\ overtaken[u] \/ (at[u] = "read" /\ token[u] \in taken)]

\* The access token is good for a while yet; whether it is, is a matter of time.
UseAsIs(t) ==
    /\ at[t] = "read"
    /\ Done(t) /\ Overtake({}, {t})
    /\ UNCHANGED <<settingsVars, issued, gate, login, mislaid>>

\* Mutant: every turn exchanges its token itself.
RefreshAlone(t) ==
    /\ at[t] = "read"
    /\ gate' = [gate EXCEPT ![token[t]] = t]
    /\ Goto(t, "exchanging")
    /\ UNCHANGED <<settingsVars, tokenVars, token, minted, copy, overtaken, login, mislaid>>

\* sharedRefresh: the first owns the exchange, the others await it.
SharedRefresh(t) ==
    /\ at[t] = "read"
    /\ IF gate[token[t]] = Free
       THEN gate' = [gate EXCEPT ![token[t]] = t] /\ Goto(t, "exchanging")
       ELSE UNCHANGED gate /\ Goto(t, "sharing")
    /\ UNCHANGED <<settingsVars, tokenVars, token, minted, copy, overtaken, login, mislaid>>

\* The owner and those who await it.
Sharing(t) == {u \in Turn : token[u] = token[t] /\ (u = t \/ at[u] = "sharing")}

\* The server rotates the token, or issues no other and the old one stays
\* (fallbackRefresh).  The gate is open again before anything is written.
ExchangeSucceeds(t) ==
    /\ at[t] = "exchanging" /\ token[t] \notin spent
    /\ \E n \in {issued + 1, token[t]} :
        /\ minted' = [u \in Turn |-> IF u \in Sharing(t) THEN n ELSE minted[u]]
        /\ IF n = token[t]
           THEN UNCHANGED issued /\ Overtake({}, Sharing(t))
           ELSE issued < MaxTokens /\ issued' = n /\ Overtake({token[t]}, Sharing(t))
    /\ gate' = [gate EXCEPT ![token[t]] = Free]
    /\ at' = [u \in Turn |-> IF u \in Sharing(t) THEN "persisting" ELSE at[u]]
    /\ UNCHANGED <<settingsVars, token, copy, login, mislaid>>

\* The server refuses, the network fails, or the answer never comes; the
\* server may have taken the token all the same.
ExchangeFails(t) ==
    /\ at[t] = "exchanging"
    /\ \/ Overtake({}, Sharing(t)) /\ UNCHANGED mislaid
       \/ Overtake({token[t]}, Sharing(t)) /\ mislaid' = TRUE
    /\ gate' = [gate EXCEPT ![token[t]] = Free]
    /\ at' = [u \in Turn |-> IF u \in Sharing(t) THEN "idle" ELSE at[u]]
    /\ token' = [u \in Turn |-> IF u \in Sharing(t) THEN None ELSE token[u]]
    /\ UNCHANGED <<settingsVars, issued, minted, copy, login>>

\* The turn is interrupted: what comes after the exchange is not run, the gate
\* stays shut.  A persist under way is a promise and goes on without its turn.
Interrupt(t) ==
    /\ at[t] \in {"read", "exchanging", "sharing"}
    /\ Done(t)
    /\ \/ at[t] = "exchanging" /\ Overtake({token[t]}, {t}) /\ mislaid' = TRUE
       \/ Overtake({}, {t}) /\ UNCHANGED mislaid
    /\ UNCHANGED <<settingsVars, issued, gate, login>>

-----------------------------------------------------------------------------
(* persistCodexCredentials: load, then rename a new file into place.       *)

Load(w) == copy' = [copy EXCEPT ![w] = auth]

Put(n, w) ==
    /\ auth' = [copy[w] EXCEPT ![Codex] = n]
    /\ mislaid' = (n \in spent \/ n # issued)

PersistLoad(t) ==
    /\ at[t] = "persisting"
    /\ Load(t)
    /\ Goto(t, "saving")
    /\ UNCHANGED <<settingsVars, tokenVars, gate, token, minted, overtaken, login, mislaid>>

PersistSave(t) ==
    /\ at[t] = "saving"
    /\ Put(minted[t], t)
    /\ Done(t) /\ Overtake({}, {t})
    /\ UNCHANGED <<config, choices, edit, current, offered, basis, edits,
                   issued, gate, login>>

\* The write fails, and the turn with it.
PersistFails(t) ==
    /\ at[t] \in {"persisting", "saving"}
    /\ Done(t) /\ Overtake({}, {t})
    /\ mislaid' = TRUE
    /\ UNCHANGED <<settingsVars, issued, gate, login>>

-----------------------------------------------------------------------------
(* loginCodex and what loginProvider does after it.                        *)

LoginUnchanged == UNCHANGED <<gate, at, token, minted, overtaken>>

OpenLogin ==
    /\ login = "off"
    /\ login' = "waiting"
    /\ LoginUnchanged /\ UNCHANGED <<settingsVars, tokenVars, copy, mislaid>>

\* Cancelled, timed out, a bad callback; or the code cannot be exchanged, or
\* the tokens cannot be written.
LoginFails ==
    /\ login # "off"
    /\ login' = "off"
    /\ copy' = [copy EXCEPT ![SignIn] = Nobody]
    /\ LoginUnchanged /\ UNCHANGED <<settingsVars, tokenVars, mislaid>>

\* A callback with the state of this sign-in and a code, exchanged for tokens.
\* The old token is not spent, but no longer the newest.
LoginExchange ==
    /\ login = "waiting" /\ issued < MaxTokens
    /\ issued' = issued + 1
    /\ Load(SignIn)
    /\ login' = "saving"
    /\ mislaid' = TRUE
    /\ LoginUnchanged /\ UNCHANGED <<settingsVars, spent>>

LoginSave ==
    /\ login = "saving"
    /\ Put(issued, SignIn)
    /\ copy' = [copy EXCEPT ![SignIn] = Nobody]
    /\ login' = "mirroring"
    /\ LoginUnchanged
    /\ UNCHANGED <<config, choices, edit, current, offered, basis, edits, tokenVars>>

\* The tokens are read back into the configuration in memory.
LoginMirror ==
    /\ login = "mirroring"
    /\ config' = [config EXCEPT !.keys[Codex] = auth[Codex]]
    /\ login' = "off"
    /\ LoginUnchanged
    /\ UNCHANGED <<choices, auth, edit, current, offered, basis, edits, tokenVars, copy, mislaid>>

-----------------------------------------------------------------------------
(* The others.                                                             *)

\* persistConfig ends with saveAuth, of the keys it took from memory.
SettingsSaveAuth ==
    /\ SaveAuth
    /\ mislaid' = (mislaid \/ auth'[Codex] # auth[Codex])
    /\ UNCHANGED <<tokenVars, turnVars, login>>

OtherSettings ==
    /\ \/ \E p \in Provider \ {Codex} : ConnectProvider(p, NewKey)
       \/ SaveConfig \/ EditFails
    /\ UNCHANGED <<tokenVars, turnVars, login, mislaid>>

\* The process ends and another one starts.
RestartProcess ==
    /\ Restart(FoundKeys, None, FALSE)
    /\ gate' = [n \in DOMAIN gate |-> Free]
    /\ at' = [t \in Turn |-> "idle"]
    /\ token' = [t \in Turn |-> None] /\ minted' = [t \in Turn |-> None]
    /\ copy' = [w \in Turn \cup {SignIn} |-> Nobody]
    /\ login' = "off"
    /\ \E taken \in SUBSET {t \in Turn : at[t] = "exchanging"} :
            /\ Overtake({token[t] : t \in taken}, Turn)
            /\ mislaid' = (\/ mislaid \/ taken # {}
                           \/ \E t \in Turn : at[t] \in {"persisting", "saving"})
    /\ UNCHANGED issued

RefreshStep(t) ==
    \/ UseAsIs(t) \/ SharedRefresh(t)
    \/ ExchangeSucceeds(t) \/ ExchangeFails(t)
    \/ PersistLoad(t) \/ PersistSave(t) \/ PersistFails(t)

CredentialsNext ==
    \/ \E t \in Turn : Read(t) \/ RefreshStep(t) \/ Interrupt(t)
    \/ OpenLogin \/ LoginFails \/ LoginExchange \/ LoginSave \/ LoginMirror
    \/ SettingsSaveAuth \/ OtherSettings
    \/ RestartProcess

CredentialsSpec == CredentialsInit /\ [][CredentialsNext]_credentialsVars
CredentialsFairSpec ==
    CredentialsSpec /\ \A t \in Turn : WF_credentialsVars(RefreshStep(t))

-----------------------------------------------------------------------------
(* What must hold.                                                         *)

\* A turn sends the server a token that is spent only if somebody spent it after
\* the turn had read it, was refreshing it when the turn read it, or left
\* auth.json without the newest token.
NoNeedlessReplay ==
    \A t \in Turn : at[t] = "exchanging" /\ token[t] \in spent => overtaken[t]

\* The comment at openai-codex.ts:174: the gate is always cleared and awaiters
\* are always released, even if the owner is interrupted.
AwaitersAreReleased == \A t \in Turn : at[t] = "sharing" ~> at[t] # "sharing"
=============================================================================

------------------------------ MODULE MCServices ------------------------------
(***************************************************************************)
(* Small instances of FileAccess, Settings, Credentials, Exec, Terminal and *)
(* Accounting.                                                             *)
(* In the program they share nothing but the files the modules name, so    *)
(* one run checks them side by side: `part` says which one moves, and the  *)
(* others stay as they begin.                                              *)
(***************************************************************************)
EXTENDS Credentials, FileAccess, Exec, Terminal, Accounting, TLC

CONSTANTS Part, t1, t2, p1, p2, a, b

VARIABLE part

-----------------------------------------------------------------------------
(* Settings and credentials: two variants of a Codex model, and a model of *)
(* another provider that is better than the one and cheaper than the other. *)

Targets     == {"c1", "c2", "o1"}
Owner       == [c1 |-> "codex", c2 |-> "codex", o1 |-> "other"]
Model       == [c1 |-> "c", c2 |-> "c", o1 |-> "o"]
Recommended == [c1 |-> "c1", c2 |-> "c1", o1 |-> "o1"]
Skill       == [c1 |-> 1, c2 |-> 2, o1 |-> 3]
Price       == [c1 |-> 1, c2 |-> 3, o1 |-> 2]
Firsts      == [codex |-> "c2", other |-> "o1"]

(* Files: the parent and a read-only child.                                *)
Kinds == [main |-> "main", child |-> "readonly"]

(* Exec: argument lists right and wrong.                                   *)
CommandLines ==
    {<<"--permission-mode", "auto", "do">>,
     <<"--permission-mode", "plan", "--output-format", "stream-json", "-">>,
     <<"--permission-mode", "auto", "--output-format", "stream-json",
       "--trace-dir", "dir", "--router", "do">>,
     <<"--permission-mode", "auto", "--trace-dir", "dir", "--router", "--", "--router">>,
     <<"--permission-mode", "ask", "do">>,
     <<"do", "-">>,
     <<"do">>,
     <<"--permission-mode">>}

(* The terminal: the turn asks for an approval and puts a question, a child *)
(* asks for an approval.                                                    *)
Asking == [mine |-> "approval", childs |-> "approval", question |-> "question"]

(* Accounting: two models, of which one has half the context and would      *)
(* reserve most of it for its output.                                      *)
Windows == [big |-> 24, small |-> 14]
Outputs == [big |-> 4, small |-> 9]

-----------------------------------------------------------------------------
ServicesInit ==
    /\ part \in Part
    /\ CredentialsInit
    /\ FileInit
    /\ part # "files" => disk = Missing /\ sessionOf = [c \in Call |-> "main"]
    /\ ExecInit
    /\ part # "exec" => options = ParseExec(<<"do">>)
    /\ TerminalInit
    /\ AccountingInit
    /\ part # "context" => modelNow = "big"

ServicesVars == <<part, credentialsVars, fileVars, execVars, terminalVars, accountingVars>>

FilesMove ==
    /\ part = "files" /\ FileNext
    /\ UNCHANGED <<part, credentialsVars, execVars, terminalVars, accountingVars>>

SettingsMove ==
    /\ part = "settings" /\ SettingsNext
    /\ UNCHANGED <<part, tokenVars, turnVars, login, mislaid, fileVars, execVars, terminalVars, accountingVars>>

\* One operation of the settings or one start, and beside a sign-in only while a
\* token is left to be issued.
CredentialsMove ==
    /\ part = "credentials" /\ CredentialsNext /\ edits' <= 1
    /\ login' = "off" \/ edits' = 0 \/ issued' < MaxTokens
    /\ UNCHANGED <<part, fileVars, execVars, terminalVars, accountingVars>>

ExecMove ==
    /\ part = "exec" /\ ExecNext
    /\ UNCHANGED <<part, credentialsVars, fileVars, terminalVars, accountingVars>>

TerminalMove ==
    /\ part = "terminal" /\ TerminalNext
    /\ UNCHANGED <<part, credentialsVars, fileVars, execVars, accountingVars>>

ContextMove ==
    /\ part = "context" /\ AccountingNext
    /\ UNCHANGED <<part, credentialsVars, fileVars, execVars, terminalVars>>

ServicesNext == FilesMove \/ SettingsMove \/ CredentialsMove
                \/ ExecMove \/ TerminalMove \/ ContextMove
ServicesSpec == ServicesInit /\ [][ServicesNext]_ServicesVars

\* CredentialsFairSpec beside the others.
Refresh(t) ==
    /\ part = "credentials" /\ RefreshStep(t)
    /\ UNCHANGED <<part, fileVars, execVars, terminalVars, accountingVars>>
GateSpec   == ServicesSpec /\ \A t \in Turn : WF_ServicesVars(Refresh(t))

Alike == Permutations({t1, t2}) \cup Permutations({p1, p2}) \cup Permutations({a, b})
=============================================================================

------------------------------- MODULE Accounting ------------------------------
(***************************************************************************)
(* How full the context is, and what follows from it: accounting.ts, the   *)
(* cut of compaction.ts, token-counter.ts and tool-result-storage.ts of    *)
(* packages/core/src/context, and the places in agent.ts that record, use  *)
(* and outdate the usage a provider reports.                               *)
(*                                                                         *)
(* AgentLoop leaves open when a compaction is asked for and where it cuts; *)
(* here a message has a size and both are computed.  The estimator and the *)
(* provider count alike: what is checked is the bookkeeping, not the guess *)
(* of four characters a token.  The rest of the turn is as coarse as that  *)
(* allows; its retries, and a model the user picks, are left out.          *)
(***************************************************************************)
EXTENDS Integers, Sequences, FiniteSetsExt

CONSTANTS
    Window, MaxOutput,   \* limits, per model: contextWindow, maxOutputTokens
    OutputReserveCap, TailBudget, SummaryOverhead,
    SystemTokens, ToolTokens,     \* system prompt, tool schemas
    CallTokens, NoticeTokens,     \* a reply's calls, a switch or interruption
    MessageTokens,       \* sizes of prompts, texts and summaries
    ResultTokens,        \* sizes of what tools return
    Threshold, PreviewTokens,
    Unmeasured,          \* contextUsage is undefined
    MaxRequests, MaxHistory     \* requests of a turn; bound on the history

ASSUME AccountingAssumption ==
    /\ {SystemTokens, ToolTokens, CallTokens, NoticeTokens, PreviewTokens} \subseteq Nat
    /\ MessageTokens \subseteq Nat /\ ResultTokens \subseteq Nat

VARIABLES
    history,       \* session.messages, with sizes
    usage,         \* session.contextUsage
    modelNow,      \* session.systemContext.model
    autoCompact,   \* session.compaction.autoEnabled
    doing,         \* what the session waits for
    requests,      \* requests of the turn
    swapped,       \* the turn has switched models
    retried,       \* the turn has compacted after an overflow
    tailStart      \* the cut of the compaction underway

accountingVars == <<history, usage, modelNow, autoCompact, doing, requests, retried, swapped,
                    tailStart>>
turnPart       == <<requests, retried, swapped>>

\* The context of a request and the places to cut it are Transcript's.
Sized == INSTANCE Transcript WITH Tool <- {}, SwitchCall <- {}, Model <- DOMAIN Window

Text(role, kind, n) == [role |-> role, kind |-> kind, text |-> n, calls |-> 0, tail |-> 0]

AccountingInit ==
    /\ history = <<>> /\ usage = Unmeasured
    /\ modelNow \in DOMAIN Window /\ autoCompact = TRUE
    /\ doing = "rest" /\ requests = 0 /\ retried = FALSE /\ swapped = FALSE
    /\ tailStart = 0

-----------------------------------------------------------------------------
(* Token counts and budgets.                                               *)

Smaller(m, n) == IF m < n THEN m ELSE n

\* estimateMessages over the positions K of h.
Tokens(h, K) == MapThenSumSet(LAMBDA i : h[i].text + h[i].calls, K)

\* deriveContext: the last summary, if any, and the messages after it.
ContextTokens(h) ==
    Tokens(h, Sized!Context(h) \cup ({Sized!LastMarker(h)} \ {0}))

\* effectiveContextWindow with outputReserve.
EffectiveWindow(m) ==
    Window[m] - Smaller(Smaller(MaxOutput[m], OutputReserveCap), Window[m] \div 2)

\* estimateCurrentContextTokens.
Estimate(h, u) ==
    IF u # Unmeasured /\ u.at <= Len(h)
    THEN u.active + Tokens(h, u.at + 1 .. Len(h))
    ELSE SystemTokens + ToolTokens + ContextTokens(h)

\* shouldAutoCompact: nine tenths of the effective window are used.
ShouldAutoCompact(h) ==
    autoCompact /\ 10 * Estimate(h, usage) >= 9 * EffectiveWindow(modelNow)

\* Context and summary on either side of a cut.
Kept(c)   == {i \in Sized!Context(history) : i >= c}
Folded(c) == (Sized!Context(history) \ Kept(c)) \cup ({Sized!LastMarker(history)} \ {0})

\* selectCut, as a position in the history; 0 if there is none.
SelectCut ==
    LET places == Sized!Boundaries(history)
        short  == {c \in places : Tokens(history, Kept(c))
                        <= Smaller(TailBudget, EffectiveWindow(modelNow) \div 2)}
        fits   == {c \in places : Tokens(history, Folded(c))
                        <= EffectiveWindow(modelNow) - SummaryOverhead}
        start  == IF short = {} THEN Max(places) ELSE Min(short)
    IN IF places = {} THEN 0
       ELSE IF start \in fits THEN start
       ELSE Max({0} \cup {c \in fits : c < start})

-----------------------------------------------------------------------------
(* The user's prompt, and compaction.                                      *)

EndOfTurn == doing' = "rest" /\ requests' = 0 /\ retried' = FALSE /\ swapped' = FALSE

\* submitPrompt, and the preflight of runTurn.
Say(n) ==
    /\ doing = "rest" /\ Len(history) < MaxHistory
    /\ history' = Append(history, Text("user", "prompt", n))
    /\ doing' = IF ShouldAutoCompact(history') THEN "auto" ELSE "asking"
    /\ UNCHANGED <<usage, modelNow, turnPart, autoCompact, tailStart>>

\* /compact.
CompactByHand ==
    /\ doing = "rest" /\ history # <<>> /\ Len(history) < MaxHistory
    /\ doing' = "manual"
    /\ UNCHANGED <<history, usage, modelNow, turnPart, autoCompact, tailStart>>

\* compactSession up to its request: the prefix is sent to be summarized.
SendPrefix ==
    /\ doing \in {"auto", "manual", "overflow"} /\ tailStart = 0
    /\ SelectCut > 0
    /\ tailStart' = SelectCut
    /\ UNCHANGED <<history, usage, modelNow, turnPart, autoCompact, doing>>

\* Nothing to compact, no summary, or a tail that may not be sent: the
\* automatic compaction is then the last of its kind, the one after an
\* overflow ends the turn.
NoSummary ==
    /\ doing \in {"auto", "manual", "overflow"}
    /\ tailStart # 0 \/ SelectCut = 0
    /\ tailStart' = 0
    /\ IF doing = "auto"
       THEN autoCompact' = FALSE /\ doing' = "asking" /\ UNCHANGED turnPart
       ELSE EndOfTurn /\ UNCHANGED autoCompact
    /\ UNCHANGED <<history, usage, modelNow>>

\* Mutant: the snapshot survives the compaction.
KeepUsage == usage' = usage

\* The context has changed: the next estimate is made from scratch.
Invalidate == usage' = Unmeasured

\* isValidlyPaired of the tail: every call has its results behind it.
KeptIsPaired ==
    \A i \in Kept(tailStart) : history[i].calls > 0 =>
        i < Len(history) /\ history[i + 1].kind = "results"

\* compactSession after its request.
Summarized(n) ==
    /\ tailStart # 0 /\ KeptIsPaired
    /\ history' = Append(history, [Text("user", "compaction", n) EXCEPT !.tail = tailStart])
    /\ Invalidate
    /\ tailStart' = 0
    /\ IF doing = "manual" THEN EndOfTurn ELSE doing' = "asking" /\ UNCHANGED turnPart
    /\ UNCHANGED <<modelNow, autoCompact>>

-----------------------------------------------------------------------------
(* Requests and replies.                                                   *)

\* The last permitted request offers no tools.
ToolsAllowed == requests < MaxRequests - 1

\* What the provider counts of a request and the reply to it.
Counted(n, calls) ==
    SystemTokens + (IF ToolsAllowed THEN ToolTokens ELSE 0) + ContextTokens(history) + n + calls

\* recordContextUsage, after the reply was pushed; a provider may report none.
RecordUsage(n, calls) ==
    usage' \in {usage, [active |-> Counted(n, calls), at |-> Len(history')]}

\* A reply of n tokens of text that calls tools, or ends the turn.
Answered(n, calls) ==
    /\ doing = "asking"
    /\ calls > 0 => ToolsAllowed
    /\ history' = Append(history, [Text("assistant", "reply", n) EXCEPT !.calls = calls])
    /\ RecordUsage(n, calls)
    /\ IF calls > 0 THEN doing' = "tools" /\ UNCHANGED turnPart ELSE EndOfTurn
    /\ UNCHANGED <<modelNow, autoCompact, tailStart>>

\* The provider finds the context too long: compact and start over, once.
Overflows ==
    /\ doing = "asking" /\ ~retried
    /\ doing' = "overflow" /\ requests' = 0 /\ retried' = TRUE /\ swapped' = FALSE
    /\ UNCHANGED <<history, usage, modelNow, autoCompact, tailStart>>

\* persist: a large result leaves a preview in the transcript, unless the
\* file cannot be written.
Persisted(n) == IF n <= Threshold THEN {n} ELSE {n, PreviewTokens}

\* The tools have run, a refused switch included.
ToolsAnswered(n) ==
    /\ doing = "tools"
    /\ \E size \in Persisted(n) : history' = Append(history, Text("user", "results", size))
    /\ doing' = "asking" /\ requests' = requests + 1
    /\ UNCHANGED <<usage, modelNow, retried, swapped, autoCompact, tailStart>>

\* The reply asks for another model: it loses its calls, or, with no text,
\* its place.  The snapshot stays.
SwitchTo(m) ==
    /\ doing = "tools" /\ ~swapped /\ m # modelNow
    /\ modelNow' = m /\ swapped' = TRUE
    /\ LET last   == Len(history)
           notice == Text("user", "model-switch", NoticeTokens)
       IN history' = IF history[last].text = 0
                     THEN [history EXCEPT ![last] = notice]
                     ELSE Append([history EXCEPT ![last].calls = 0], notice)
    /\ doing' = "asking" /\ requests' = requests + 1
    /\ UNCHANGED <<usage, retried, autoCompact, tailStart>>

\* recordInterruption.
WithInterruption(h) ==
    h \o (IF h[Len(h)].calls > 0 THEN <<Text("user", "results", NoticeTokens)>> ELSE <<>>)
      \o <<Text("assistant", "interrupted", NoticeTokens)>>

\* Esc, Ctrl+C or an error ends the turn: Esc answers what was called and
\* leaves a notice, the others nothing.
StopTurn ==
    /\ \/ doing \in {"asking", "tools"}
       \/ doing \in {"auto", "overflow"} /\ tailStart # 0
    /\ history' \in {history, WithInterruption(history)}
    /\ tailStart' = 0
    /\ EndOfTurn
    /\ UNCHANGED <<usage, modelNow, autoCompact>>

\* Esc during /compact leaves its notice and stops nothing.
EscInCompact ==
    /\ doing = "manual" /\ tailStart # 0 /\ Len(history) < MaxHistory
    /\ history' = WithInterruption(history)
    /\ UNCHANGED <<usage, modelNow, turnPart, autoCompact, doing, tailStart>>

\* The session is resumed from its files, which hold no usage.
Resume ==
    /\ doing = "rest" /\ usage # Unmeasured
    /\ usage' = Unmeasured
    /\ UNCHANGED <<history, modelNow, turnPart, autoCompact, doing, tailStart>>

AccountingNext ==
    \/ \E n \in MessageTokens : Say(n) \/ Summarized(n)
    \/ CompactByHand \/ SendPrefix \/ NoSummary
    \/ \E n \in {0} \cup MessageTokens, calls \in {0, CallTokens} :
          n + calls > 0 /\ Answered(n, calls)
    \/ Overflows
    \/ \E n \in ResultTokens : ToolsAnswered(n)
    \/ \E m \in DOMAIN Window : SwitchTo(m)
    \/ StopTurn \/ EscInCompact \/ Resume

AccountingSpec == AccountingInit /\ [][AccountingNext]_accountingVars

-----------------------------------------------------------------------------
(* Properties.                                                             *)

\* What the next full request would really carry.
Actual == SystemTokens + ToolTokens + ContextTokens(history)

\* However a session was measured, interrupted, switched, compacted and
\* resumed, the estimate that decides about compaction is never above the
\* context by more than the calls of one reply, and short of it only by the
\* tool schemas, when the measured request had none, or by the notice that
\* replaced the measured reply (estimateCurrentContextTokens;
\* token-counter.ts:23-25 calls under-counting "the dangerous direction").
EstimateIsCurrent ==
    /\ Estimate(history, usage) <= Actual + CallTokens
    /\ Estimate(history, usage) >= Actual - Max({ToolTokens, NoticeTokens - CallTokens})
=============================================================================

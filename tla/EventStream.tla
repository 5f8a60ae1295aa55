----------------------------- MODULE EventStream ----------------------------
(***************************************************************************)
(* What every protocol promises about the events of a stream, whatever the *)
(* provider's own wire looks like: content is started once, extended only  *)
(* while it is open and ended once; a call is announced once, right when   *)
(* its input is complete; the finish comes last and leaves nothing open.   *)
(***************************************************************************)
EXTENDS Events

VARIABLE log   \* the events of the attempt

Started(k) == \E n \in DOMAIN log : log[n].type = "start" /\ Key(log[n]) = k
Ended(k)   == \E n \in DOMAIN log : log[n].type = "end" /\ Key(log[n]) = k
Called(id) == \E n \in DOMAIN log : log[n].type = "call" /\ log[n].id = id
Finished   == \E n \in DOMAIN log : log[n].type = "finish"

IsOpenContent(k) == Started(k) /\ ~Ended(k)
Keys == {Key(log[n]) : n \in {m \in DOMAIN log : log[m].type = "start"}}

\* The next event, given the events so far.
StartContent(e)  == e.type = "start" /\ ~Started(Key(e))
ExtendContent(e) == e.type = "delta" /\ IsOpenContent(Key(e))
EndContent(e)    == e.type = "end" /\ IsOpenContent(Key(e))
AnnounceCall(e)  == e.type = "call" /\ Ended(<<"tool", e.id>>) /\ ~Called(e.id)
NoteError(e)     == e.type = "provider-error"
FinishStream(e)  == /\ e.type = "finish"
                    /\ \A k \in Keys : Ended(k) /\ (k[1] = "tool" => Called(k[2]))

Emit(e) ==
    /\ log' = Append(log, e)
    /\ ~Finished
    /\ \/ StartContent(e) \/ ExtendContent(e) \/ EndContent(e)
       \/ AnnounceCall(e) \/ NoteError(e) \/ FinishStream(e)

\* An attempt that did not finish is thrown away, and the next starts afresh.
Retry == ~Finished /\ log' = <<>>

StreamInit == log = <<>>
StreamNext == Retry \/ (log' # <<>> /\ Emit(Last(log')))
StreamSpec == StreamInit /\ [][StreamNext]_log
=============================================================================

-------------------------------- MODULE Delivery -------------------------------
(***************************************************************************)
(* What the controller promises about the results of delegated children:   *)
(* each is told to the parent, a turn of the parent reads it, and the      *)
(* session is called idle only when nothing is left to tell or to read.    *)
(***************************************************************************)
CONSTANT AgentId

VARIABLES
    stage,   \* per child: "none", "pending", "told" or "read"
    idle     \* waitUntilIdle has resolved

deliveryVars == <<stage, idle>>

In(s) == {a \in AgentId : stage[a] = s}

Promote(S, s) == stage' = [a \in AgentId |-> IF a \in S THEN s ELSE stage[a]]

DeliveryInit ==
    /\ stage = [a \in AgentId |-> "none"]
    /\ idle = FALSE

Finish(a) ==
    /\ ~idle
    /\ stage[a] = "none"
    /\ Promote({a}, "pending")
    /\ UNCHANGED idle

\* Everything pending goes into one message.
Tell ==
    /\ In("pending") # {}
    /\ Promote(In("pending"), "told")
    /\ UNCHANGED idle

\* A turn reads the whole transcript.
Read ==
    /\ In("told") # {}
    /\ Promote(In("told"), "read")
    /\ UNCHANGED idle

Quiesce ==
    /\ In("pending") \cup In("told") = {}
    /\ idle' = TRUE
    /\ UNCHANGED stage

DeliveryNext == (\E a \in AgentId : Finish(a)) \/ Tell \/ Read \/ Quiesce

DeliverySpec ==
    /\ DeliveryInit
    /\ [][DeliveryNext]_deliveryVars
    /\ WF_deliveryVars(Tell)
    /\ WF_deliveryVars(Read)
=============================================================================

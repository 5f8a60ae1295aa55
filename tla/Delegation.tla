------------------------------- MODULE Delegation ------------------------------
(***************************************************************************)
(* What delegation promises the parent: a child runs once, its outcome is  *)
(* recorded in the task store before its bell rings, the bell rings at     *)
(* most once, and a child that no longer lives never comes back.           *)
(***************************************************************************)
EXTENDS Naturals

CONSTANT AgentId

VARIABLES
    life,    \* per child: "none", "live", "recorded", "gone" or "dead"
    bells    \* wake-ups offered to the completions queue since the start

delegationVars == <<life, bells>>

DelegationInit ==
    /\ life = [a \in AgentId |-> "none"]
    /\ bells = 0

Becomes(a, old, new) ==
    /\ life[a] = old
    /\ life' = [life EXCEPT ![a] = new]

Start(a)  == Becomes(a, "none", "live") /\ UNCHANGED bells
Record(a) == Becomes(a, "live", "recorded") /\ UNCHANGED bells
Bell(a)   == Becomes(a, "recorded", "gone") /\ bells' = bells + 1

\* A defect, or interruptAll.
Die(a) ==
    /\ life[a] \in {"live", "recorded"}
    /\ life' = [life EXCEPT ![a] = "dead"]
    /\ UNCHANGED bells

\* The process ends: the queue and every child with it.
AllDie ==
    /\ life' = [a \in AgentId |->
                  IF life[a] \in {"live", "recorded"} THEN "dead" ELSE life[a]]
    /\ bells' = 0

DelegationNext ==
    \/ \E a \in AgentId : Start(a) \/ Record(a) \/ Bell(a) \/ Die(a)
    \/ AllDie

DelegationSpec == DelegationInit /\ [][DelegationNext]_delegationVars
=============================================================================

------------------------------ MODULE MCAgentLoop ------------------------------
(* Small instances of AgentLoop.                                           *)
EXTENDS AgentLoop, TLC

SmallReplies == {{}, {"Read", "Edit"}, {"SwitchModel"}, {"Read", "SwitchModel"}}
=============================================================================

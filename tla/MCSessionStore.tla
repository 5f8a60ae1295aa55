----------------------------- MODULE MCSessionStore ----------------------------
(* Small instances of SessionStore.                                        *)
EXTENDS SessionStore, TLC

SmallReplies == {{}, {"Read"}, {"SwitchModel"}}
=============================================================================

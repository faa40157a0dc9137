----------------------------- MODULE MC_Session -----------------------------
(* Values for the constants of Session. *)
EXTENDS Session

Nowhere == {}
WhileConnecting == {"connecting"}
Everywhere == {"connecting", "up"}
BeforeStarted == {"idle", "upgraded"}
Always == {"idle", "upgraded", "started", "heard"}
=============================================================================

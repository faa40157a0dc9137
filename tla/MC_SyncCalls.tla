---------------------------- MODULE MC_SyncCalls ----------------------------
(* Values of the constants of SyncCalls that a cfg cannot write.            *)
EXTENDS SyncCalls

CONSTANTS r1, r2, u1

MCMaxCalls == [u \in Users |-> IF u = u1 THEN 2 ELSE 1]

\* While one starts and waits, another stops this request or starts its own; callbacks
\* make every call.
Apart == [u \in Users |-> IF u = u1 THEN {<<"start", r1>>}
                          ELSE {<<"stop", r1>>, <<"start", r2>>}]

\* One request and two threads that use it: a session is stopped and started anew by the
\* one and sent to or started by the other.
Shared(ops) == [u \in Users |-> IF u = u1 THEN {"start", "stop"} \X {r1} ELSE ops \X {r1}]

MCPlans == [t \in {{}, {"wakeup"}, {"idle"}, {"send", "wakeup", "idle"}} |->
              IF t = {} THEN Apart
              ELSE IF "send" \in t THEN Shared({"send", "audio"})
              ELSE Shared({"start"})]
=============================================================================

----------------------------- MODULE TaskEvents -----------------------------
(***************************************************************************)
(* What the SDK promises the user of one request: the order in which the   *)
(* callbacks of a task arrive. setOnTranscriptionStarted, ...Completed,    *)
(* setOnTaskFailed and setOnChannelClosed of a request are the events      *)
(* "Started", "Completed", "TaskFailed" and "Close"; "Result" stands for   *)
(* every callback that carries a result.                                   *)
(***************************************************************************)
EXTENDS Sequences

VARIABLE log   \* the callbacks made so far

Told(e) == \E i \in DOMAIN log : log[i] = e

Ended == Told("Completed") \/ Told("TaskFailed")

Init == log = <<>>

\* The server is ready.
Started == ~Told("Started") /\ ~Ended /\ log' = Append(log, "Started")

\* The server reports a result.
Result == Told("Started") /\ ~Ended /\ log' = Append(log, "Result")

\* The server finished a task it had started.
Completed == Told("Started") /\ ~Ended /\ log' = Append(log, "Completed")

\* The task failed, before or after it was started.
TaskFailed == ~Ended /\ log' = Append(log, "TaskFailed")

\* The last callback: the task is over.
Close == Ended /\ ~Told("Close") /\ log' = Append(log, "Close")

Next == Started \/ Result \/ Completed \/ TaskFailed \/ Close

Spec == Init /\ [][Next]_log
=============================================================================

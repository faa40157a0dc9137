------------------------------ MODULE MC_Demos ------------------------------
(***************************************************************************)
(* Every program with every set of its options, by one thread, and some    *)
(* programs by two threads. A program has all of the troubles at once,     *)
(* except for those that break it.                                         *)
(***************************************************************************)
EXTENDS Demos

CONSTANTS w1, w2

\* --loopAudioFile keeps a long connection in its loop of sends, whatever global_run says
Calls == {s \in Setup : /\ s.form \in DOMAIN Demos[s.demo].forms
                        /\ Option(s) \subseteq Demos[s.demo].options
                        /\ s.count \in {0, MaxRounds}
                        /\ ~(s.loop /\ s.form = "long")}

Pairs == {<<"sy", "short">>, <<"da", "short">>, <<"winSr", "short">>}

Usual == {s \in Calls : s.workers = {w1} \/ (s.workers = {w1, w2} /\ <<s.demo, s.form>> \in Pairs)}
===============================================================================

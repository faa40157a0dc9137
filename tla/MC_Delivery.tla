----------------------------- MODULE MC_Delivery -----------------------------
(***************************************************************************)
(* Every feature and every way to use it; two requests of a feature where   *)
(* they share its event.                                                   *)
(***************************************************************************)
EXTENDS Delivery, TLC

CONSTANTS r1, r2, t1, t2

OneThread == [r \in {r1, r2} |-> t1]
TwoThreads == r1 :> t1 @@ r2 :> t2

Twins(S) == {[r \in {r1, r2} |-> s] : s \in S}
Single(S) == {[r \in {r1, r2} |-> IF r = r1 THEN s ELSE [s EXCEPT !.rounds = 0]] : s \in S}

Fits(s) == /\ s.csharp => s.kind \in Bound /\ ~s.message /\ ~s.long
           /\ s.rounds = IF s.long THEN MaxRounds ELSE 1
           /\ s.results = IF s.csharp THEN 1 ELSE MaxResults

\* the C# binding with two requests of a feature
Sharing == Twins({s \in Setup : s.csharp /\ Fits(s)})

\* every feature in C++, without setEnableOnMessage where there is audio
Usual == Sharing \cup
  Single({s \in Setup : /\ ~s.csharp /\ Fits(s)
                        /\ s.message => s.kind \in {"sr", "st", "funasr", "paraformer"}})

\* setEnableOnMessage where there is audio
Messages == Single({s \in Setup : /\ s.message /\ ~s.csharp /\ Fits(s)
                                  /\ s.kind \in {"sy", "fss", "cosyvoice"}})
===============================================================================

------------------------------ MODULE DemoPorts -------------------------------
(***************************************************************************)
(* The demos of Windows and Android, which are older copies of those of    *)
(* Linux, and the monkey tests, in the instructions of DemoPrograms.       *)
(***************************************************************************)
EXTENDS DemoPrograms

\* demo/Windows/dialogAssistantDemo
winDaHead == daHead
winDaCreate == daCreate
winDaStart == daStart
winDaSend == daSend
winDaStop == daStop
winDaTail == daTail
winDaForms ==
  [short |-> Program(winDaHead, winDaCreate \o winDaStart \o winDaSend \o winDaStop, winDaTail)]
winDaOnClosed == daOnClosed
winDa == [forms |-> winDaForms, options |-> {},
          on |-> Callbacks(daOnStarted, daOnResult, daOnCompleted, daOnFailed, Nothing,
                           winDaOnClosed)]

\* demo/Android/dialogAssistantDemo
androidDaHead == winDaHead
androidDaCreate == winDaCreate
androidDaStart == winDaStart
androidDaSend == winDaSend
androidDaStop == winDaStop
androidDaTail == winDaTail
androidDaForms ==
  [short |-> Program(androidDaHead, androidDaCreate \o androidDaStart \o androidDaSend
                                    \o androidDaStop, androidDaTail)]
androidDaOnClosed == winDaOnClosed
androidDa == [forms |-> androidDaForms, options |-> {},
              on |-> Callbacks(daOnStarted, daOnResult, daOnCompleted, daOnFailed, Nothing,
                               androidDaOnClosed)]

(***************************************************************************)
(* The demos of Windows and Android: no count of rounds, and no look at    *)
(* whether a wait expired.                                                 *)
(***************************************************************************)
winStHead == <<Or("open", <<"return">>), Step("param"), Step("enter")>>
winStCreate == <<Or("create", <<"return">>)>>
winStStart == <<Or("start", Leave), Step("await Started")>>
winStSend == Steps(<<"send">>)
winStStop == <<Or("stop", <<"skip">>), Step("await Closed"), Step("release"), Step("next")>>
winStTail == Steps(<<"forget">>)
winStForms ==
  [short |-> Program(winStHead, winStCreate \o winStStart \o winStSend \o winStStop, winStTail)]
winStOnStarted == Signal
winStOnResult == Param
winStOnCompleted == Param
winStOnFailed == Param
winStOnClosed == Signal
winSt == [forms |-> winStForms, options |-> {},
          on |-> Callbacks(winStOnStarted, winStOnResult, winStOnCompleted, winStOnFailed,
                           Nothing, winStOnClosed)]

androidStHead == winStHead
androidStCreate == winStCreate
androidStStart == winStStart
androidStSend == winStSend
androidStStop == winStStop
androidStTail == winStTail
androidStForms ==
  [short |-> Program(androidStHead, androidStCreate \o androidStStart \o androidStSend
                                    \o androidStStop, androidStTail)]
androidStOnStarted == winStOnStarted
androidStOnResult == winStOnResult
androidStOnCompleted == winStOnCompleted
androidStOnFailed == winStOnFailed
androidStOnClosed == winStOnClosed
androidSt == [forms |-> androidStForms, options |-> {},
              on |-> Callbacks(androidStOnStarted, androidStOnResult, androidStOnCompleted,
                               androidStOnFailed, Nothing, androidStOnClosed)]

winSrHead == <<Or("open", <<"return">>), Step("param"), Step("next")>>
winSrCreate == <<Or("create", <<"break">>)>>
winSrStart == winStStart
winSrSend == winStSend
winSrStop == winStStop
winSrTail == winStTail
winSrForms ==
  [short |-> Program(winSrHead, winSrCreate \o winSrStart \o winSrSend \o winSrStop, winSrTail)]
winSrOnStarted == Signal
winSrOnResult == Param
winSrOnCompleted == Param
winSrOnFailed == Param
winSrOnClosed == Signal
winSr == [forms |-> winSrForms, options |-> {},
          on |-> Callbacks(winSrOnStarted, winSrOnResult, winSrOnCompleted, winSrOnFailed,
                           Nothing, winSrOnClosed)]

androidSrHead == winSrHead
androidSrCreate == winSrCreate
androidSrStart == winSrStart
androidSrSend == winSrSend
androidSrStop == winSrStop
androidSrTail == winSrTail
androidSrForms ==
  [short |-> Program(androidSrHead, androidSrCreate \o androidSrStart \o androidSrSend
                                    \o androidSrStop, androidSrTail)]
androidSrOnStarted == winSrOnStarted
androidSrOnResult == winSrOnResult
androidSrOnCompleted == winSrOnCompleted
androidSrOnFailed == winSrOnFailed
androidSrOnClosed == winSrOnClosed
androidSr == [forms |-> androidSrForms, options |-> {},
              on |-> Callbacks(androidSrOnStarted, androidSrOnResult, androidSrOnCompleted,
                               androidSrOnFailed, Nothing, androidSrOnClosed)]

winSyHead == Steps(<<"param", "next">>)
winSyCreate == <<Or("create", <<"break">>)>>
winSyStart == <<Or("start", Leave)>>
winSyStop == Steps(<<"stop nothing", "await Closed", "release", "next">>)
winSyTail == Steps(<<"forget">>)
winSyForms == [short |-> Program(winSyHead, winSyCreate \o winSyStart \o winSyStop, winSyTail)]
winSyOnCompleted == Param
winSyOnFailed == Param
winSyOnClosed == Signal
winSy == [forms |-> winSyForms, options |-> {},
          on |-> Callbacks(Nothing, Nothing, winSyOnCompleted, winSyOnFailed, Nothing,
                           winSyOnClosed)]

androidSyHead == winSyHead
androidSyCreate == winSyCreate
androidSyStart == winSyStart
androidSyStop == winSyStop
androidSyTail == winSyTail
androidSyForms ==
  [short |-> Program(androidSyHead, androidSyCreate \o androidSyStart \o androidSyStop,
                     androidSyTail)]
androidSyOnCompleted == winSyOnCompleted
androidSyOnFailed == winSyOnFailed
androidSyOnClosed == winSyOnClosed
androidSy == [forms |-> androidSyForms, options |-> {},
              on |-> Callbacks(Nothing, Nothing, androidSyOnCompleted, androidSyOnFailed,
                               Nothing, androidSyOnClosed)]

(***************************************************************************)
(* The monkey tests never wait: a round is abandoned, stopped, cancelled   *)
(* or released at any moment; --special cancels every round.               *)
(***************************************************************************)
Abandoned == <<Or("lucky", <<"release", "continue">>)>>
Special == <<Or("unless special", <<"cancel", "release", "count", "continue">>)>>

stMonkeyHead == <<Or("open", <<"return">>), Step("param"), Step("enter")>>
stMonkeyCreate == <<Or("create", <<"forget", "return">>)>> \o Abandoned
stMonkeyStart == <<Or("start", <<"release", "continue">>)>> \o Special
stMonkeySend == Steps(<<"send">>)
stMonkeyStop == Steps(<<"stop or cancel or nothing">>) \o NextRound
stMonkeyTail == Steps(<<"forget">>)
stMonkeyForms ==
  [short |-> Program(stMonkeyHead, stMonkeyCreate \o stMonkeyStart \o stMonkeySend
                                   \o stMonkeyStop, stMonkeyTail)]
stMonkeyOnStarted == Param
stMonkeyOnResult == Param
stMonkeyOnFailed == Param
stMonkeyOnClosed == Param
stMonkey == [forms |-> stMonkeyForms, options |-> {"count", "special"},
             on |-> Callbacks(stMonkeyOnStarted, stMonkeyOnResult, Nothing, stMonkeyOnFailed,
                              Nothing, stMonkeyOnClosed)]

srMonkeyHead == <<Or("open", <<"return">>), Step("param"), Step("next")>>
srMonkeyCreate == <<Or("create", <<"break">>)>> \o Abandoned
srMonkeyStart == <<Or("start", <<"release", "continue">>)>>
srMonkeySend == Steps(<<"send">>)
srMonkeyStop == Steps(<<"stop">>) \o NextRound
srMonkeyTail == Steps(<<"forget">>)
srMonkeyForms ==
  [short |-> Program(srMonkeyHead, srMonkeyCreate \o srMonkeyStart \o srMonkeySend
                                   \o srMonkeyStop, srMonkeyTail)]
srMonkeyOnStarted == Param
srMonkeyOnResult == Param
srMonkeyOnCompleted == Param
srMonkeyOnFailed == Param
srMonkeyOnClosed == Param
srMonkey == [forms |-> srMonkeyForms, options |-> {"count"},
             on |-> Callbacks(srMonkeyOnStarted, srMonkeyOnResult, srMonkeyOnCompleted,
                              srMonkeyOnFailed, Nothing, srMonkeyOnClosed)]

syMonkeyHead == Steps(<<"param", "next">>)
syMonkeyCreate == <<Or("create", <<"break">>)>> \o Abandoned
syMonkeyStart == <<Or("start", <<"release", "continue">>)>> \o Special
syMonkeyStop == Steps(<<"stop nothing or cancel or nothing">>) \o NextRound
syMonkeyTail == Steps(<<"forget">>)
syMonkeyForms ==
  [short |-> Program(syMonkeyHead, syMonkeyCreate \o syMonkeyStart \o syMonkeyStop,
                     syMonkeyTail)]
syMonkeyOnResult == Param
syMonkeyOnFailed == Param
syMonkeyOnClosed == Param
syMonkey == [forms |-> syMonkeyForms, options |-> {"count", "special"},
             on |-> Callbacks(Nothing, syMonkeyOnResult, Nothing, syMonkeyOnFailed, Nothing,
                              syMonkeyOnClosed)]

fssMonkeyHead == Steps(<<"param", "next">>)
fssMonkeyCreate == <<Or("create", <<"break">>)>> \o Abandoned
fssMonkeyStart == <<Or("start", <<"release", "continue">>)>> \o Special
fssMonkeySend == <<Or("send while running", <<"release", "count", "continue">>)>>
fssMonkeyStop == Steps(<<"stop or cancel">>) \o NextRound
fssMonkeyTail == Steps(<<"forget">>)
fssMonkeyForms ==
  [short |-> Program(fssMonkeyHead, fssMonkeyCreate \o fssMonkeyStart \o fssMonkeySend
                                    \o fssMonkeyStop, fssMonkeyTail)]
fssMonkeyOnResult == Param
fssMonkeyOnFailed == Param
fssMonkeyOnClosed == Param
fssMonkey == [forms |-> fssMonkeyForms, options |-> {"count", "special"},
              on |-> Callbacks(Nothing, fssMonkeyOnResult, Nothing, fssMonkeyOnFailed, Nothing,
                               fssMonkeyOnClosed)]

Demos == [st |-> st, funasr |-> funasr, paraformer |-> paraformer, sr |-> sr, sy |-> sy,
          fss |-> fss, cosy |-> cosy, da |-> da, winDa |-> winDa, androidDa |-> androidDa,
          winSt |-> winSt, winSr |-> winSr, winSy |-> winSy, androidSt |-> androidSt,
          androidSr |-> androidSr, androidSy |-> androidSy, stMonkey |-> stMonkey,
          srMonkey |-> srMonkey, syMonkey |-> syMonkey, fssMonkey |-> fssMonkey]
===============================================================================

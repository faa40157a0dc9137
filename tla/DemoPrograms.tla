---------------------------- MODULE DemoPrograms ----------------------------
(***************************************************************************)
(* The demos of Linux, which come with the SDK and show its use: what a    *)
(* worker thread of each does with its request and with the parameter of   *)
(* its callbacks, and what its callbacks do.                               *)
(*                                                                         *)
(* A program is a record [head, body, tail] of sequences of instructions:  *)
(* head is what comes before the loop, body a round, tail what comes after *)
(* the loop. An instruction is an operation and what the program does      *)
(* instead of going on when the operation fails. Demos says what the       *)
(* operations do; these are the jumps:                                     *)
(*   enter     into the loop, at the do of a do-while                      *)
(*   next      to the test of global_run                                   *)
(*   continue  the same, from within a round                               *)
(*   break     out of the loop                                             *)
(*   return    out of the thread                                           *)
(*   skip      over the next instruction                                   *)
(* Parameters of the request, statistics, pacing of the audio and sleeps   *)
(* are left out, and so is the synchronous mode of start and stop.         *)
(*                                                                         *)
(* Much of the demos is one text copied from feature to feature: a part    *)
(* that was copied unchanged is defined by the name of the original.       *)
(***************************************************************************)
EXTENDS Sequences

Step(do) == [do |-> do, else |-> <<>>]
Steps(ops) == [i \in DOMAIN ops |-> Step(ops[i])]
Or(do, else) == [do |-> do, else |-> Steps(else)]

Program(head, body, tail) == [head |-> head, body |-> body, tail |-> tail]

Callbacks(started, result, completed, failed, message, closed) ==
  [Started |-> started, Result |-> result, Completed |-> completed,
   Failed |-> failed, Message |-> message, Closed |-> closed]

Nothing == {}                 \* a callback that prints what it got,
Param == {"param"}            \* one that looks at its parameter,
Signal == {"param", "signal"} \* and one that wakes the worker, too

StartAndWait(refused, expired) == <<Or("start", refused), Or("await Started", expired)>>
StopAndWait(expired) == <<Or("stop", <<"skip">>), Or("await Closed", expired)>>
NextRound == Steps(<<"release", "count", "next">>)
GiveUp == <<"cancel", "release", "continue">>
Leave == <<"release", "break">>

(***************************************************************************)
(* speechTranscriberDemo; --long takes the long program.                   *)
(***************************************************************************)
stHead == <<Or("open", <<"return">>), Step("param"), Step("enter")>>
stCreate == <<Or("create", <<"forget", "return">>), Or("vip", <<"break">>)>>
\* mutant: the request is not released when the wait expires
stStartAbandoned == StartAndWait(Leave, <<"cancel", "continue">>)
stStart == StartAndWait(Leave, GiveUp)
\* mutant: the loop of sends does not look at global_run
stSendForever == Steps(<<"send">>)
stSend == Steps(<<"send while running">>)
stStop == StopAndWait(<<"release", "continue">>) \o NextRound
stTail == Steps(<<"forget">>)

stLongHead == <<Step("param"), Or("create", <<"forget", "return">>), Step("enter")>>
stLongStart == <<Or("open", <<"break">>)>> \o StartAndWait(<<"break">>, <<"cancel", "break">>)
stLongSend == Steps(<<"send">>)
stLongStop == StopAndWait(<<"break">>) \o Steps(<<"count", "next">>)
\* mutant: cbParam is deleted before the request is released
stLongTailSwapped == Steps(<<"forget", "release">>)
stLongTail == Steps(<<"release", "forget">>)

stOnStarted == Signal
stOnResult == Param
stOnCompleted == Param
stOnFailed == Param
stOnMessage == Nothing        \* parseJsonMsg fails, and that ends the callback
stOnClosed == Signal
stCallbacks == Callbacks(stOnStarted, stOnResult, stOnCompleted, stOnFailed, stOnMessage,
                         stOnClosed)

stOptions == {"count", "long", "message", "loop file"}
stForms == [short |-> Program(stHead, stCreate \o stStart \o stSend \o stStop, stTail),
            long |-> Program(stLongHead, stLongStart \o stLongSend \o stLongStop, stLongTail)]
st == [forms |-> stForms, options |-> stOptions, on |-> stCallbacks]

(***************************************************************************)
(* funAsrTranscriberDemo                                                   *)
(***************************************************************************)
funasrHead == stHead
funasrCreate == <<Or("create", <<"forget", "return">>)>>
funasrStart == stStart
funasrSend == stSend
funasrStop == stStop
funasrTail == stTail

funasrLongHead == stLongHead
funasrLongStart == stLongStart
funasrLongSend == stLongSend
funasrLongStop == stLongStop
funasrLongTail == stLongTail

funasrOnStarted == stOnStarted
funasrOnResult == stOnResult
funasrOnCompleted == stOnCompleted
funasrOnFailed == stOnFailed
funasrOnMessage == stOnMessage
funasrOnClosed == stOnClosed
funasrCallbacks ==
  Callbacks(funasrOnStarted, funasrOnResult, funasrOnCompleted, funasrOnFailed,
            funasrOnMessage, funasrOnClosed)

funasrOptions == stOptions
funasrForms ==
  [short |-> Program(funasrHead, funasrCreate \o funasrStart \o funasrSend
                              \o funasrStop, funasrTail),
   long |-> Program(funasrLongHead, funasrLongStart \o funasrLongSend
                                 \o funasrLongStop, funasrLongTail)]
funasr == [forms |-> funasrForms, options |-> funasrOptions, on |-> funasrCallbacks]

(***************************************************************************)
(* paraformerTranscriberDemo                                               *)
(***************************************************************************)
paraformerHead == stHead
paraformerCreate == funasrCreate
paraformerStart == stStart
paraformerSend == stSend
paraformerStop == stStop
paraformerTail == stTail

paraformerLongHead == stLongHead
paraformerLongStart == stLongStart
paraformerLongSend == stLongSend
paraformerLongStop == stLongStop
paraformerLongTail == stLongTail

paraformerOnStarted == stOnStarted
paraformerOnResult == stOnResult
paraformerOnCompleted == stOnCompleted
paraformerOnFailed == stOnFailed
paraformerOnMessage == stOnMessage
paraformerOnClosed == stOnClosed
paraformerCallbacks ==
  Callbacks(paraformerOnStarted, paraformerOnResult, paraformerOnCompleted, paraformerOnFailed,
            paraformerOnMessage, paraformerOnClosed)

paraformerOptions == stOptions
paraformerForms ==
  [short |-> Program(paraformerHead, paraformerCreate \o paraformerStart \o paraformerSend
                              \o paraformerStop, paraformerTail),
   long |-> Program(paraformerLongHead, paraformerLongStart \o paraformerLongSend
                                 \o paraformerLongStop, paraformerLongTail)]
paraformer == [forms |-> paraformerForms, options |-> paraformerOptions, on |-> paraformerCallbacks]

(***************************************************************************)
(* speechRecognizerDemo                                                    *)
(***************************************************************************)
srHead == <<Or("open", <<"return">>), Step("param"), Step("next")>>
srCreate == <<Or("create", <<"break">>), Or("vip", <<"break">>)>>
srStart == StartAndWait(Leave, GiveUp)
srSend == Steps(<<"send">>)
\* mutant: the request is released without a wait for Closed
srStopAtOnce == <<Or("stop", <<>>)>> \o NextRound
srStop == StopAndWait(<<"release", "continue">>) \o NextRound
srTail == Steps(<<"forget">>)

srLongHead == <<Step("param"), Or("create", <<"forget", "return">>), Step("next")>>
srLongStart == <<Or("open", <<"break">>)>> \o StartAndWait(<<"break">>, <<"cancel", "break">>)
srLongSend == Steps(<<"send">>)
srLongStop == StopAndWait(<<"break">>) \o Steps(<<"count", "next">>)
srLongTail == Steps(<<"release", "forget">>)

srOnStarted == Signal
srOnResult == Param
srOnCompleted == Param
srOnFailed == Param
srOnClosed == Signal
srCallbacks == Callbacks(srOnStarted, srOnResult, srOnCompleted, srOnFailed, Nothing, srOnClosed)

srOptions == {"count", "long"}
srForms == [short |-> Program(srHead, srCreate \o srStart \o srSend \o srStop, srTail),
            long |-> Program(srLongHead, srLongStart \o srLongSend \o srLongStop, srLongTail)]
sr == [forms |-> srForms, options |-> srOptions, on |-> srCallbacks]

(***************************************************************************)
(* speechSynthesizerDemo: its text is a parameter of start, and its stop   *)
(* does nothing. The parameter of the callbacks is on the worker's stack.  *)
(***************************************************************************)
syHead == Steps(<<"param", "next">>)
syCreate == <<Or("create", <<"break">>), Or("vip", <<"break">>)>>
syStart == <<Or("start", Leave)>>
syStop == Steps(<<"stop nothing", "await Closed">>)
syNext == NextRound
syTail == Steps(<<"forget">>)

syLongHead == <<Step("param"), Or("create", <<"forget", "return">>), Step("next")>>
syLongStart == <<Or("start", <<"break">>)>>
syLongStop == Steps(<<"stop nothing", "await Closed", "count", "next">>)
syLongTail == Steps(<<"release", "forget">>)

syOnResult == Param
syOnCompleted == Param
syOnFailed == Param
syOnClosed == Signal
syCallbacks == Callbacks(Nothing, syOnResult, syOnCompleted, syOnFailed, Nothing, syOnClosed)

syOptions == {"count", "long"}
syForms == [short |-> Program(syHead, syCreate \o syStart \o syStop \o syNext, syTail),
            long |-> Program(syLongHead, syLongStart \o syLongStop, syLongTail)]
sy == [forms |-> syForms, options |-> syOptions, on |-> syCallbacks]

(***************************************************************************)
(* flowingSynthesizerDemo: sends text; --singleRound gives it to start.    *)
(* Its waits leave the loop without a release.                             *)
(***************************************************************************)
fssHead == Steps(<<"param", "next">>)
fssCreate == <<Or("create", <<"break">>), Or("vip", <<"break">>)>>
fssStart == StartAndWait(Leave, <<"cancel", "break">>)
fssSend == <<Or("send while running", Leave)>>
fssStop == StopAndWait(<<"break">>)
fssNext == NextRound
fssTail == Steps(<<"forget">>)

fssSingleHead == fssHead
fssSingleCreate == fssCreate \o <<Or("single", Leave)>>
fssSingleStart == fssStart
fssSingleStop == fssStop
fssSingleNext == fssNext
fssSingleTail == fssTail

fssLongHead == <<Step("param"), Or("create", <<"forget", "return">>), Step("next")>>
fssLongStart == StartAndWait(<<"break">>, <<"cancel", "break">>)
fssLongSend == <<Or("send while running", Leave)>>
fssLongStop == StopAndWait(<<"break">>) \o Steps(<<"count", "next">>)
fssLongTail == Steps(<<"release", "forget">>)

fssOnStarted == Signal
fssOnResult == Param
fssOnCompleted == Param
fssOnFailed == Param
fssOnClosed == Signal
fssCallbacks ==
  Callbacks(fssOnStarted, fssOnResult, fssOnCompleted, fssOnFailed, Nothing, fssOnClosed)

fssOptions == {"count", "long", "single"}
fssForms ==
  [short |-> Program(fssHead, fssCreate \o fssStart \o fssSend \o fssStop \o fssNext, fssTail),
   single |-> Program(fssSingleHead, fssSingleCreate \o fssSingleStart \o fssSingleStop
                                     \o fssSingleNext, fssSingleTail),
   long |-> Program(fssLongHead, fssLongStart \o fssLongSend \o fssLongStop, fssLongTail)]
fss == [forms |-> fssForms, options |-> fssOptions, on |-> fssCallbacks]

(***************************************************************************)
(* cosyvoiceSynthesizerDemo                                                *)
(***************************************************************************)
cosyHead == fssHead
cosyCreate == <<Or("create", <<"break">>)>>
cosyStart == fssStart
cosySend == fssSend
cosyStop == fssStop
cosyNext == fssNext
cosyTail == fssTail

cosySingleHead == fssHead
cosySingleCreate == cosyCreate \o <<Or("single", Leave)>>
cosySingleStart == fssSingleStart
cosySingleStop == fssSingleStop
cosySingleNext == fssSingleNext
cosySingleTail == fssSingleTail

cosyLongHead == fssLongHead
cosyLongStart == fssLongStart
cosyLongSend == fssLongSend
cosyLongStop == fssLongStop
cosyLongTail == fssLongTail

cosyOnStarted == fssOnStarted
cosyOnResult == fssOnResult
cosyOnCompleted == fssOnCompleted
cosyOnFailed == fssOnFailed
cosyOnClosed == fssOnClosed
cosyCallbacks ==
  Callbacks(cosyOnStarted, cosyOnResult, cosyOnCompleted, cosyOnFailed, Nothing, cosyOnClosed)

cosyOptions == fssOptions
cosyForms ==
  [short |-> Program(cosyHead, cosyCreate \o cosyStart \o cosySend \o cosyStop \o cosyNext,
                     cosyTail),
   single |-> Program(cosySingleHead, cosySingleCreate \o cosySingleStart \o cosySingleStop
                                      \o cosySingleNext, cosySingleTail),
   long |-> Program(cosyLongHead, cosyLongStart \o cosyLongSend \o cosyLongStop, cosyLongTail)]
cosy == [forms |-> cosyForms, options |-> cosyOptions, on |-> cosyCallbacks]

(***************************************************************************)
(* dialogAssistantDemo: polls for Started, and does not look at whether    *)
(* its wait for Closed expired.                                            *)
(***************************************************************************)
daHead == <<Or("open", <<"return">>), Step("param"), Step("next")>>
daCreate == <<Or("create", <<"break">>)>>
daStart == <<Or("start", <<"break">>), Step("poll")>>
daSend == Steps(<<"send">>)
daStop == <<Or("stop", <<"skip">>), Step("await Closed"), Step("release"),
            Or("unless failed", <<"break">>), Step("next")>>
daTail == Steps(<<"forget">>)

daOnStarted == Param
daOnResult == Param
daOnCompleted == Param
daOnFailed == Param
daOnClosed == Signal
daCallbacks == Callbacks(daOnStarted, daOnResult, daOnCompleted, daOnFailed, Nothing, daOnClosed)

daForms == [short |-> Program(daHead, daCreate \o daStart \o daSend \o daStop, daTail)]
da == [forms |-> daForms, options |-> {}, on |-> daCallbacks]
===============================================================================

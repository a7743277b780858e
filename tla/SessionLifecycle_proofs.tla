----------------------- MODULE SessionLifecycle_proofs -----------------------
(***************************************************************************)
(* Proofs about SessionLifecycle: whatever the delays, the tab ends up     *)
(* showing the status that was emitted last.                               *)
(*                                                                         *)
(* A tab adopts its session without having seen any of its status events,  *)
(* so the argument is about what cannot have been emitted by then: until   *)
(* the tab has attached, the goroutine waits to write its first frame and  *)
(* "connected" is the last word.  And the wait before a redial is exactly  *)
(* the backoff of the failures before it, for every pair of delays.        *)
(***************************************************************************)
EXTENDS SessionLifecycle, SequenceTheorems, WellFoundedInduction, TLAPS

Under(kind) == \E i \in 1 .. Len(ui) : ui[i].kind = kind

\* The last status under way is the last one emitted.
LastWord == \A i \in 1 .. Len(ui) :
    ui[i].kind = "status" =>
        ui[i].state = lastEmitted \/ \E j \in i + 1 .. Len(ui) : ui[j].kind = "status"

\* An open tab shows the last status, or a status is on its way to it.
Current == known /\ tab = "open" => uiStatus = lastEmitted \/ Under("status")

\* Connect's result arrives once, and nothing about the session is known to
\* the tab before it does.
SingleResult ==
    \A i, j \in 1 .. Len(ui) : ui[i].kind = "result" /\ ui[j].kind = "result" => i = j
OneResult ==
    /\ SingleResult
    /\ Under("result") => returned /\ ~known
    /\ known => returned
    /\ returned => started
    /\ attached \/ ws # "none" => known

\* Until the tab attaches the goroutine is stuck at its first frame.
Fresh == started /\ ~attached => pc = "init" /\ lastEmitted = "connected" /\ ~closed

Unstarted ==
    /\ ~started => ~closed /\ pc \in {"tcp", "handshake", "failed"}
    /\ pc = "failed" => ~started
    /\ Under("reject") => pc = "failed"
    /\ ~known /\ pc # "failed" => uiStatus = "connecting"

IInv == TypeOK /\ LastWord /\ Current /\ OneResult /\ Fresh /\ Unstarted

-----------------------------------------------------------------------------
(* The queue of calls to the webview.                                      *)

LEMMA CallFacts ==
  /\ \A s \in Statuses : Status(s) \in UiCalls /\ Status(s).kind = "status" /\ Status(s).state = s
  /\ Result \in UiCalls /\ Result.kind = "result"
  /\ Reject \in UiCalls /\ Reject.kind = "reject"
  BY DEF UiCalls, Status, Result, Reject

LEMMA Queued ==
  ASSUME TypeOK, NEW calls \in Seq(UiCalls), Call(calls)
  PROVE  /\ ui' \in Seq(UiCalls)
         /\ Len(ui') = Len(ui) + Len(calls)
         /\ \A i \in 1 .. Len(ui) : ui'[i] = ui[i]
         /\ \A i \in 1 .. Len(calls) : ui'[Len(ui) + i] = calls[i]
  BY DEF TypeOK, Call

\* A status joins the queue: it is the last word.
LEMMA Emitted ==
  ASSUME TypeOK, LastWord, SingleResult, NEW s \in Statuses, Emit(s)
  PROVE  /\ ui' \in Seq(UiCalls) /\ LastWord' /\ SingleResult'
         /\ lastEmitted' = s /\ Under("status")'
         /\ Under("result")' => Under("result")
         /\ Under("reject")' => Under("reject")
<1> DEFINE calls == <<Status(s)>>
<1>1. calls \in Seq(UiCalls) /\ Len(calls) = 1 /\ calls[1] = Status(s)
  BY CallFacts
<1>2. Call(calls) /\ lastEmitted' = s
  BY DEF Emit
<1> HIDE DEF calls
<1>3. /\ ui' \in Seq(UiCalls) /\ Len(ui') = Len(ui) + 1
      /\ \A i \in 1 .. Len(ui) : ui'[i] = ui[i]
      /\ ui'[Len(ui) + 1].kind = "status" /\ ui'[Len(ui) + 1].state = s
  <2>1. /\ ui' \in Seq(UiCalls) /\ Len(ui') = Len(ui) + Len(calls)
        /\ \A i \in 1 .. Len(ui) : ui'[i] = ui[i]
        /\ \A i \in 1 .. Len(calls) : ui'[Len(ui) + i] = calls[i]
    BY <1>1, <1>2, Queued
  <2>2. ui'[Len(ui) + 1] = Status(s)
    BY <1>1, <2>1
  <2> QED BY <1>1, <2>1, <2>2, CallFacts
<1>4. Len(ui) \in Nat
  BY DEF TypeOK
<1>5. LastWord'
  BY <1>2, <1>3, <1>4 DEF LastWord
<1>6. SingleResult'
  BY <1>3, <1>4 DEF SingleResult
<1>7. Under("status")' /\ (Under("result")' => Under("result")) /\ (Under("reject")' => Under("reject"))
  BY <1>3, <1>4 DEF Under
<1> QED BY <1>2, <1>3, <1>5, <1>6, <1>7

\* The first call of the queue arrives.
LEMMA Arrived ==
  ASSUME TypeOK, LastWord, SingleResult, ui # <<>>, ui' = Tail(ui), lastEmitted' = lastEmitted
  PROVE  /\ ui' \in Seq(UiCalls) /\ LastWord' /\ SingleResult'
         /\ \A k \in {"status", "result", "reject"} :
               /\ Under(k)' => Under(k)
               /\ Head(ui).kind # k /\ Under(k) => Under(k)'
               /\ Head(ui).kind = k => Under(k)
         /\ Head(ui).kind = "result" => ~Under("result")'
         /\ Head(ui).kind = "status" => Head(ui).state = lastEmitted \/ Under("status")'
         /\ Head(ui) \in UiCalls
<1>1. /\ ui' \in Seq(UiCalls) /\ Len(ui) \in Nat \ {0} /\ Len(ui') = Len(ui) - 1
      /\ \A i \in 1 .. Len(ui') : ui'[i] = ui[i + 1]
      /\ Head(ui) = ui[1] /\ Head(ui) \in UiCalls
  BY DEF TypeOK
<1>2. \A i \in 2 .. Len(ui) : i - 1 \in 1 .. Len(ui') /\ ui'[i - 1] = ui[i]
  BY <1>1
<1>3. LastWord'
  <2> SUFFICES ASSUME NEW i \in 1 .. Len(ui'), ui'[i].kind = "status", ui'[i].state # lastEmitted
               PROVE  \E j \in i + 1 .. Len(ui') : ui'[j].kind = "status"
    BY DEF LastWord
  <2>1. PICK j \in i + 2 .. Len(ui) : ui[j].kind = "status"
    BY <1>1 DEF LastWord
  <2>2. j - 1 \in i + 1 .. Len(ui') /\ ui'[j - 1].kind = "status"
    BY <1>1, <1>2, <2>1
  <2> QED BY <2>2
<1>4. SingleResult'
  BY <1>1 DEF SingleResult
<1>5. \A k \in {"status", "result", "reject"} :
         /\ Under(k)' => Under(k)
         /\ Head(ui).kind # k /\ Under(k) => Under(k)'
         /\ Head(ui).kind = k => Under(k)
  <2> SUFFICES ASSUME NEW k \in {"status", "result", "reject"}
               PROVE  /\ Under(k)' => Under(k)
                      /\ Head(ui).kind # k /\ Under(k) => Under(k)'
                      /\ Head(ui).kind = k => Under(k)
    OBVIOUS
  <2>1. Under(k)' => Under(k)
    BY <1>1 DEF Under
  <2>2. ASSUME Head(ui).kind # k, Under(k) PROVE Under(k)'
    <3>1. PICK i \in 2 .. Len(ui) : ui[i].kind = k
      BY <1>1, <2>2 DEF Under
    <3> QED BY <1>2, <3>1 DEF Under
  <2>3. Head(ui).kind = k => Under(k)
    BY <1>1 DEF Under
  <2> QED BY <2>1, <2>2, <2>3
<1>6. Head(ui).kind = "result" => ~Under("result")'
  BY <1>1 DEF SingleResult, Under
<1>7. ASSUME Head(ui).kind = "status", Head(ui).state # lastEmitted PROVE Under("status")'
  <2>1. PICK j \in 2 .. Len(ui) : ui[j].kind = "status"
    BY <1>1, <1>7 DEF LastWord
  <2> QED BY <1>2, <2>1 DEF Under
<1> QED BY <1>1, <1>3, <1>4, <1>5, <1>6, <1>7

-----------------------------------------------------------------------------
(* The steps.                                                              *)

\* The goroutine returns.
LEMMA EndKeeps ==
  ASSUME IInv, End, started, attached,
         UNCHANGED <<started, returned, delay, attached, tab, known, uiStatus>>,
         misses' \in 0 .. MaxDelay, linkUp' \in BOOLEAN, discPending' \in BOOLEAN,
         server' \in {"up", "silent", "down"}
  PROVE  IInv'
<1>1. /\ ui' \in Seq(UiCalls) /\ LastWord' /\ SingleResult'
      /\ lastEmitted' = "disconnected" /\ Under("status")'
      /\ (Under("result")' => Under("result")) /\ (Under("reject")' => Under("reject"))
  <2>1. "disconnected" \in Statuses
    BY DEF Statuses
  <2> QED BY <2>1, Emitted DEF End, IInv, OneResult
<1>2. TypeOK'
  BY <1>1 DEF IInv, TypeOK, End, Steps, Statuses
<1>3. Current' /\ OneResult' /\ Fresh' /\ Unstarted'
  BY <1>1 DEF IInv, Current, OneResult, Fresh, Unstarted, End
<1> QED BY <1>1, <1>2, <1>3 DEF IInv

\* A step that neither calls the webview nor is seen by the tab.
LEMMA QuietKeeps ==
  ASSUME IInv, TypeOK', Fresh',
         UNCHANGED <<ui, lastEmitted, uiStatus, known, tab, returned, started, closed>>,
         attached' => known, ws' # "none" => known,
         pc' = "failed" <=> pc = "failed", pc' = pc \/ started \/ pc' \in {"tcp", "handshake"}
  PROVE  IInv'
<1>1. LastWord' /\ SingleResult' /\ (\A k \in {"status", "result", "reject"} : Under(k)' = Under(k))
  BY DEF IInv, LastWord, OneResult, SingleResult, Under
<1>2. Current'
  BY <1>1 DEF IInv, Current
<1>3. OneResult'
  BY <1>1 DEF IInv, OneResult
<1>4. Unstarted'
  BY <1>1 DEF IInv, Unstarted
<1> QED BY <1>1, <1>2, <1>3, <1>4 DEF IInv

LEMMA DelayBounds ==
  ASSUME NEW d \in InitialDelay .. MaxDelay
  PROVE  /\ InitialDelay \in InitialDelay .. MaxDelay
         /\ (IF 2 * d > MaxDelay THEN MaxDelay ELSE 2 * d) \in InitialDelay .. MaxDelay
  BY LifecycleAssumption

LEMMA DialFailedKeeps ==
  ASSUME IInv, DialFailed, pc \in {"tcp", "handshake"}
  PROVE  IInv'
<1>1. CASE ~started
  <2> DEFINE calls == <<Status("error"), Reject>>
  <2>1. /\ Call(calls) /\ lastEmitted' = "error" /\ pc' = "failed" /\ cancelled' = TRUE
        /\ linkUp' = FALSE
        /\ UNCHANGED <<live, misses, closed, ws, started, returned, delay, attached, tab, known, uiStatus,
                       discPending, server>>
    BY <1>1 DEF DialFailed
  <2>2. "error" \in Statuses
    BY DEF Statuses
  <2>3. calls \in Seq(UiCalls) /\ Len(calls) = 2 /\ calls[1] = Status("error") /\ calls[2] = Reject
    BY <2>2, CallFacts
  <2> HIDE DEF calls
  <2>4. /\ ui' \in Seq(UiCalls) /\ Len(ui') = Len(ui) + 2 /\ Len(ui) \in Nat
        /\ \A i \in 1 .. Len(ui) : ui'[i] = ui[i]
        /\ ui'[Len(ui) + 1] = Status("error") /\ ui'[Len(ui) + 2] = Reject
    <3>1. /\ ui' \in Seq(UiCalls) /\ Len(ui') = Len(ui) + Len(calls)
          /\ \A i \in 1 .. Len(ui) : ui'[i] = ui[i]
          /\ \A i \in 1 .. Len(calls) : ui'[Len(ui) + i] = calls[i]
      BY <2>1, <2>3, Queued DEF IInv
    <3> QED BY <2>3, <3>1 DEF IInv, TypeOK
  <2>5. ui'[Len(ui) + 1].kind = "status" /\ ui'[Len(ui) + 1].state = "error" /\ ui'[Len(ui) + 2].kind = "reject"
    BY <2>2, <2>4, CallFacts
  <2>6. LastWord'
    BY <2>1, <2>4, <2>5 DEF LastWord
  <2>7. SingleResult' /\ (Under("result")' => Under("result"))
    BY <2>4, <2>5 DEF IInv, OneResult, SingleResult, Under
  <2>8. TypeOK'
    BY <2>1, <2>2, <2>4 DEF IInv, TypeOK, Steps
  <2>9. Current' /\ OneResult' /\ Fresh' /\ Unstarted'
    BY <1>1, <2>1, <2>7 DEF IInv, Current, OneResult, Fresh, Unstarted
  <2> QED BY <2>6, <2>8, <2>9 DEF IInv
<1>2. CASE started /\ cancelled
  <2>1. attached
    BY <1>2 DEF IInv, Fresh
  <2>2. /\ End /\ UNCHANGED <<misses, started, returned, delay, attached, tab, known, uiStatus, discPending, server>>
        /\ linkUp' = FALSE
    BY <1>2 DEF DialFailed
  <2> QED BY <1>2, <2>1, <2>2, EndKeeps DEF IInv, TypeOK
<1>3. CASE started /\ ~cancelled
  <2>1. /\ pc' = "init" /\ misses' = (IF misses = MaxDelay THEN misses ELSE misses + 1) /\ linkUp' = FALSE
        /\ UNCHANGED <<cancelled, live, lastEmitted, closed, ws, ui, started, returned, delay, attached,
                       tab, known, uiStatus, discPending, server>>
    BY <1>3 DEF DialFailed, AfterFailedRedial
  <2>2. TypeOK'
    <3>1. misses' \in 0 .. MaxDelay
      BY <2>1, LifecycleAssumption DEF IInv, TypeOK
    <3> QED BY <2>1, <3>1 DEF IInv, TypeOK, Steps
  <2>3. Fresh'
    BY <1>3, <2>1 DEF IInv, Fresh
  <2> QED BY <1>3, <2>1, <2>2, <2>3, QuietKeeps DEF IInv, OneResult, Unstarted
<1> QED BY <1>1, <1>2, <1>3 DEF IInv, TypeOK

LEMMA HandshakeDoneKeeps ==
  ASSUME IInv, HandshakeDone
  PROVE  IInv'
<1>1. "connected" \in Statuses
  BY DEF Statuses
<1>2. /\ ui' \in Seq(UiCalls) /\ LastWord' /\ SingleResult'
      /\ lastEmitted' = "connected" /\ Under("status")'
      /\ (Under("result")' => Under("result")) /\ (Under("reject")' => Under("reject"))
  BY <1>1, Emitted DEF HandshakeDone, IInv, OneResult
<1>3. TypeOK'
  <2>1. delay' \in InitialDelay .. MaxDelay /\ misses' \in 0 .. MaxDelay
    BY LifecycleAssumption DEF HandshakeDone, DelayAfterSuccess, IInv, TypeOK
  <2> QED BY <1>1, <1>2, <2>1 DEF HandshakeDone, IInv, TypeOK, Steps, bridgeVars, tabVars
<1>4. Current' /\ OneResult' /\ Fresh' /\ Unstarted'
  BY <1>2 DEF HandshakeDone, IInv, Current, OneResult, Fresh, Unstarted, bridgeVars, tabVars
<1> QED BY <1>2, <1>3, <1>4 DEF IInv

LEMMA ReturnResultKeeps ==
  ASSUME IInv, ReturnResult
  PROVE  IInv'
<1> DEFINE calls == <<Result>>
<1>1. calls \in Seq(UiCalls) /\ Len(calls) = 1 /\ calls[1] = Result
  BY CallFacts
<1>2. Call(calls)
  BY DEF ReturnResult
<1> HIDE DEF calls
<1>3. /\ ui' \in Seq(UiCalls) /\ Len(ui') = Len(ui) + 1 /\ Len(ui) \in Nat
      /\ \A i \in 1 .. Len(ui) : ui'[i] = ui[i]
      /\ ui'[Len(ui) + 1].kind = "result"
  <2>1. /\ ui' \in Seq(UiCalls) /\ Len(ui') = Len(ui) + Len(calls)
        /\ \A i \in 1 .. Len(ui) : ui'[i] = ui[i]
        /\ \A i \in 1 .. Len(calls) : ui'[Len(ui) + i] = calls[i]
    BY <1>1, <1>2, Queued DEF IInv
  <2> QED BY <1>1, <2>1, CallFacts DEF IInv, TypeOK
<1>4. ~Under("result") /\ ~known
  BY DEF IInv, OneResult, ReturnResult
<1>5. LastWord'
  <2> SUFFICES ASSUME NEW i \in 1 .. Len(ui'), ui'[i].kind = "status", ui'[i].state # lastEmitted
               PROVE  \E j \in i + 1 .. Len(ui') : ui'[j].kind = "status"
    BY DEF LastWord, ReturnResult
  <2>1. i \in 1 .. Len(ui) /\ ui[i].kind = "status" /\ ui[i].state # lastEmitted
    BY <1>3
  <2>2. PICK j \in i + 1 .. Len(ui) : ui[j].kind = "status"
    BY <2>1 DEF IInv, LastWord
  <2> QED BY <1>3, <2>2
<1>6. SingleResult' /\ (Under("status") => Under("status")') /\ (Under("reject")' => Under("reject"))
  BY <1>3, <1>4 DEF SingleResult, Under
<1>7. TypeOK'
  BY <1>3 DEF ReturnResult, IInv, TypeOK, bridgeVars, tabVars
<1>8. Current' /\ OneResult' /\ Fresh' /\ Unstarted'
  BY <1>4, <1>6 DEF ReturnResult, IInv, Current, OneResult, Fresh, Unstarted, bridgeVars, tabVars
<1> QED BY <1>5, <1>7, <1>8 DEF IInv

LEMMA RunReturnedKeeps ==
  ASSUME IInv, RunReturned
  PROVE  IInv'
<1>1. attached /\ started
  BY DEF RunReturned, IInv, Fresh, Unstarted
<1>2. CASE cancelled
  BY <1>1, <1>2, EndKeeps DEF RunReturned, IInv, TypeOK
<1>3. CASE ~cancelled
  <2>1. "reconnecting" \in Statuses
    BY DEF Statuses
  <2>2. /\ Emit("reconnecting") /\ pc' = "backoff"
        /\ UNCHANGED <<cancelled, live, closed, ws, started, returned, delay, misses, linkUp, attached,
                       tab, known, uiStatus, discPending, server>>
    BY <1>3 DEF RunReturned
  <2>3. /\ ui' \in Seq(UiCalls) /\ LastWord' /\ SingleResult'
        /\ lastEmitted' = "reconnecting" /\ Under("status")'
        /\ (Under("result")' => Under("result")) /\ (Under("reject")' => Under("reject"))
    BY <2>1, <2>2, Emitted DEF IInv, OneResult
  <2>4. TypeOK'
    BY <2>1, <2>2, <2>3 DEF IInv, TypeOK, Steps
  <2>5. Current' /\ OneResult' /\ Fresh' /\ Unstarted'
    BY <1>1, <2>2, <2>3 DEF IInv, Current, OneResult, Fresh, Unstarted
  <2> QED BY <2>3, <2>4, <2>5 DEF IInv
<1> QED BY <1>2, <1>3 DEF IInv, TypeOK

\* The calls arrive at the webview.
LEMMA ArrivalKeeps ==
  ASSUME IInv, Webview
  PROVE  IInv'
<1>1. /\ ui # <<>> /\ ui' = Tail(ui)
      /\ UNCHANGED <<pc, started, returned, cancelled, live, delay, misses, lastEmitted, linkUp,
                     attached, closed, tab, server>>
  BY DEF Webview, StatusArrives, ResultArrives, RejectArrives, sessionVars, bridgeVars
<1>2. /\ ui' \in Seq(UiCalls) /\ LastWord' /\ SingleResult'
      /\ \A k \in {"status", "result", "reject"} :
            /\ Under(k)' => Under(k)
            /\ Head(ui).kind # k /\ Under(k) => Under(k)'
            /\ Head(ui).kind = k => Under(k)
      /\ Head(ui).kind = "result" => ~Under("result")'
      /\ Head(ui).kind = "status" => Head(ui).state = lastEmitted \/ Under("status")'
      /\ Head(ui) \in UiCalls
  BY <1>1, Arrived DEF IInv, OneResult
<1>3. CASE StatusArrives
  <2>1. Head(ui).kind = "status" /\ uiStatus' = (IF known THEN Head(ui).state ELSE uiStatus)
        /\ UNCHANGED <<known, ws, discPending>>
    BY <1>3 DEF StatusArrives
  <2>2. Head(ui).state \in Statuses
    BY <1>2, <2>1, CallFacts DEF UiCalls
  <2>3. TypeOK'
    BY <1>1, <1>2, <2>1, <2>2 DEF IInv, TypeOK
  <2>4. Current' /\ OneResult' /\ Fresh' /\ Unstarted'
    BY <1>1, <1>2, <2>1 DEF IInv, Current, OneResult, Fresh, Unstarted
  <2> QED BY <1>2, <2>3, <2>4 DEF IInv
<1>4. CASE ResultArrives
  <2>1. Head(ui).kind = "result" /\ Under("result")
    BY <1>2, <1>4 DEF ResultArrives
  <2>2. returned /\ ~known /\ started /\ ~attached /\ lastEmitted = "connected" /\ uiStatus = "connecting"
    BY <2>1 DEF IInv, OneResult, Fresh, Unstarted
  <2>3. CASE tab = "closed"
    <3>1. discPending' = TRUE /\ UNCHANGED <<known, uiStatus, ws>>
      BY <1>4, <2>3 DEF ResultArrives
    <3>2. TypeOK'
      BY <1>1, <1>2, <3>1 DEF IInv, TypeOK
    <3>3. Current' /\ OneResult' /\ Fresh' /\ Unstarted'
      BY <1>1, <1>2, <2>3, <3>1 DEF IInv, Current, OneResult, Fresh, Unstarted
    <3> QED BY <1>2, <3>2, <3>3 DEF IInv
  <2>4. CASE tab # "closed"
    <3>1. known' = TRUE /\ uiStatus' = "connected" /\ ws' = "opening" /\ UNCHANGED discPending
      BY <1>4, <2>2, <2>4 DEF ResultArrives
    <3>2. TypeOK'
      BY <1>1, <1>2, <3>1 DEF IInv, TypeOK, Statuses
    <3>3. Current' /\ OneResult' /\ Fresh' /\ Unstarted'
      BY <1>1, <1>2, <2>1, <2>2, <3>1 DEF IInv, Current, OneResult, Fresh, Unstarted
    <3> QED BY <1>2, <3>2, <3>3 DEF IInv
  <2> QED BY <2>3, <2>4
<1>5. CASE RejectArrives
  <2>1. /\ Head(ui).kind = "reject" /\ Under("reject")
        /\ uiStatus' = (IF tab = "open" THEN "error" ELSE uiStatus)
        /\ UNCHANGED <<known, ws, discPending>>
    BY <1>2, <1>5 DEF RejectArrives
  <2>2. pc = "failed" /\ ~known
    BY <2>1 DEF IInv, OneResult, Unstarted
  <2>3. TypeOK'
    BY <1>1, <1>2, <2>1 DEF IInv, TypeOK, Statuses
  <2>4. Current' /\ OneResult' /\ Fresh' /\ Unstarted'
    BY <1>1, <1>2, <2>1, <2>2 DEF IInv, Current, OneResult, Fresh, Unstarted
  <2> QED BY <1>2, <2>3, <2>4 DEF IInv
<1> QED BY <1>3, <1>4, <1>5 DEF Webview

-----------------------------------------------------------------------------
(* The behaviours.                                                         *)

LEMMA InitHolds == Init => IInv
<1> SUFFICES ASSUME Init PROVE IInv
  OBVIOUS
<1>1. "connecting" \in Statuses
  BY DEF Statuses
<1> DEFINE s == Status("connecting")
<1>2. s \in UiCalls /\ s.kind = "status" /\ s.state = "connecting"
  BY <1>1, CallFacts
<1>3. ui = <<s>>
  BY DEF Init
<1> HIDE DEF s
<1>4. ui \in Seq(UiCalls) /\ Len(ui) = 1 /\ ui[1] = s
  BY <1>2, <1>3
<1>5. TypeOK
  <2>1. delay \in InitialDelay .. MaxDelay /\ misses \in 0 .. MaxDelay
    BY LifecycleAssumption DEF Init
  <2>2. pc \in Steps /\ lastEmitted \in Statuses /\ uiStatus \in Statuses
    BY <1>1 DEF Init, Steps
  <2>3. /\ {started, returned, cancelled, live, linkUp, attached, closed, known, discPending} \subseteq BOOLEAN
        /\ tab \in {"open", "closed"} /\ ws \in {"none", "opening", "open", "closed"}
        /\ server \in {"up", "silent", "down"}
    BY DEF Init
  <2> QED BY <1>4, <2>1, <2>2, <2>3 DEF TypeOK
<1>6. LastWord /\ SingleResult /\ ~Under("result") /\ ~Under("reject")
  BY <1>2, <1>4 DEF Init, LastWord, SingleResult, Under
<1>7. Current /\ OneResult /\ Fresh /\ Unstarted
  BY <1>6 DEF Init, Current, OneResult, Fresh, Unstarted
<1> QED BY <1>5, <1>6, <1>7 DEF IInv

LEMMA NextKeeps == IInv /\ [Next]_vars => IInv'
<1> SUFFICES ASSUME IInv, [Next]_vars PROVE IInv'
  OBVIOUS
<1> USE DEF sessionVars, bridgeVars, tabVars
<1>1. CASE TcpConnected
  <2>1. TypeOK' /\ Fresh'
    BY <1>1 DEF TcpConnected, IInv, TypeOK, Fresh, Steps
  <2> QED BY <1>1, <2>1, QuietKeeps DEF TcpConnected, IInv, OneResult
<1>2. CASE TcpFailed
  BY <1>2, DialFailedKeeps DEF TcpFailed
<1>3. CASE HandshakeDone
  BY <1>3, HandshakeDoneKeeps
<1>4. CASE HandshakeFailed
  BY <1>4, DialFailedKeeps DEF HandshakeFailed
<1>5. CASE ReturnResult
  BY <1>5, ReturnResultKeeps
<1>6. CASE InitWritten
  <2>1. TypeOK' /\ Fresh' /\ started
    BY <1>6 DEF InitWritten, WriteReady, IInv, TypeOK, Fresh, Unstarted, Steps
  <2> QED BY <1>6, <2>1, QuietKeeps DEF InitWritten, IInv, OneResult
<1>7. CASE RunFails
  <2>1. TypeOK' /\ Fresh' /\ started
    BY <1>7 DEF RunFails, IInv, TypeOK, Fresh, Unstarted, Steps
  <2> QED BY <1>7, <2>1, QuietKeeps DEF RunFails, IInv, OneResult
<1>8. CASE RunReturned
  BY <1>8, RunReturnedKeeps
<1>9. CASE TimerFires
  <2>1. delay' \in InitialDelay .. MaxDelay
    BY <1>9, DelayBounds DEF TimerFires, DoubledDelay, IInv, TypeOK
  <2>2. TypeOK' /\ Fresh' /\ started
    BY <1>9, <2>1 DEF TimerFires, IInv, TypeOK, Fresh, Unstarted, Steps
  <2> QED BY <1>9, <2>2, QuietKeeps DEF TimerFires, IInv, OneResult
<1>10. CASE BackoffCancelled
  <2>1. attached /\ started
    BY <1>10 DEF BackoffCancelled, IInv, Fresh, Unstarted
  <2> QED BY <1>10, <2>1, EndKeeps DEF BackoffCancelled, IInv, TypeOK
<1>11. CASE Webview
  BY <1>11, ArrivalKeeps
<1>12. CASE Disconnect
  <2>1. TypeOK' /\ Fresh'
    BY <1>12 DEF Disconnect, IInv, TypeOK, Fresh
  <2> QED BY <1>12, <2>1, QuietKeeps DEF Disconnect, IInv, OneResult
<1>13. CASE WsOpens
  <2>1. TypeOK' /\ Fresh' /\ known
    BY <1>13 DEF WsOpens, IInv, TypeOK, Fresh, OneResult
  <2> QED BY <1>13, <2>1, QuietKeeps DEF WsOpens
<1>14. CASE WsDrops
  <2>1. TypeOK' /\ Fresh' /\ known
    BY <1>14 DEF WsDrops, IInv, TypeOK, Fresh, OneResult
  <2> QED BY <1>14, <2>1, QuietKeeps DEF WsDrops
<1>15. CASE CloseTab
  <2>1. UNCHANGED <<ui, lastEmitted, uiStatus, known, returned, started, closed, attached, pc>> /\ tab' = "closed"
    BY <1>15 DEF CloseTab
  <2>2. TypeOK' /\ Fresh'
    BY <1>15 DEF CloseTab, IInv, TypeOK, Fresh
  <2>3. LastWord' /\ SingleResult' /\ (\A k \in {"status", "result", "reject"} : Under(k)' = Under(k))
    BY <2>1 DEF IInv, LastWord, OneResult, SingleResult, Under
  <2>4. Current' /\ OneResult' /\ Unstarted'
    BY <1>15, <2>1, <2>3 DEF CloseTab, IInv, Current, OneResult, Unstarted
  <2> QED BY <2>2, <2>3, <2>4 DEF IInv
<1>16. CASE ServerChanges
  <2>1. TypeOK' /\ Fresh'
    BY <1>16 DEF ServerChanges, IInv, TypeOK, Fresh
  <2> QED BY <1>16, <2>1, QuietKeeps DEF ServerChanges, IInv, OneResult
<1>17. CASE UNCHANGED vars
  <2>1. TypeOK' /\ Fresh'
    BY <1>17 DEF vars, IInv, TypeOK, Fresh
  <2> QED BY <1>17, <2>1, QuietKeeps DEF vars, IInv, OneResult
<1> QED BY <1>1, <1>2, <1>3, <1>4, <1>5, <1>6, <1>7, <1>8, <1>9, <1>10, <1>11, <1>12, <1>13, <1>14,
           <1>15, <1>16, <1>17 DEF Next, Dial, Session

\* The invariant holds of every behaviour.
THEOREM InvariantHolds == Spec => []IInv
<1> QED BY InitHolds, NextKeeps, PTL DEF Spec

\* Session, bridge and tab stay in the states TypeOK gives, the delay between
\* InitialDelay and MaxDelay among them.
THEOREM TypeCorrect == Spec => []TypeOK
<1>1. IInv => TypeOK
  BY DEF IInv
<1> QED BY <1>1, InvariantHolds, PTL

\* An open tab shows the last status of its session once every call has
\* arrived, although the events sent before Connect's result name a session
\* the tab does not know yet (app.go, startSession; main.js, the status event
\* and the result of Connect).
THEOREM StatusReachesTab == Spec => []NoStatusLost
<1>1. IInv => NoStatusLost
  BY DEF IInv, Current, Under, NoStatusLost
<1> QED BY <1>1, InvariantHolds, PTL

-----------------------------------------------------------------------------
(* The delays.                                                             *)

NextDelay(d) == IF 2 * d > MaxDelay THEN MaxDelay ELSE 2 * d

\* What the delay is while the loop is elsewhere than in its wait: a redial
\* under way has doubled it already, and counts as a miss only when it fails.
DelayExact ==
    /\ ~started => delay = InitialDelay /\ misses = 0
    /\ started /\ pc \in {"init", "running", "ranOut", "backoff"} => delay = Backoff[misses]
    /\ started /\ pc \in {"tcp", "handshake"} => delay = NextDelay(Backoff[misses])

\* Induction over the set of the numbers that satisfy what is to be shown.
LEMMA SetInduction ==
  ASSUME NEW S, 0 \in S, \A n \in Nat : n \in S => n + 1 \in S
  PROVE  Nat \subseteq S
<1> SUFFICES ASSUME Nat \ S # {} PROVE FALSE
  OBVIOUS
<1>1. PICK m \in Nat \ S : \A k \in Nat \ S : <<k, m>> \notin OpToRel(<, Nat)
  BY WFMin, NatLessThanWellFounded, Zenon
<1>2. \A k \in Nat \ S : ~(k < m)
  BY <1>1 DEF OpToRel
<1>3. m # 0 /\ m - 1 \in S
  BY <1>2
<1> QED BY <1>3

\* g lists the delays after no more than n failures.
Delays(g, n) == g = [i \in 0 .. n |-> IF i = 0 THEN InitialDelay
                                      ELSE IF 2 * g[i - 1] > MaxDelay THEN MaxDelay ELSE 2 * g[i - 1]]

LEMMA DelaysExist == \A n \in Nat : \E g : Delays(g, n)
<1> DEFINE S == {n \in Nat : \E g : Delays(g, n)}
<1>1. 0 \in S
  <2>1. Delays([i \in 0 .. 0 |-> InitialDelay], 0)
    BY DEF Delays
  <2> QED BY <2>1
<1>2. ASSUME NEW n \in Nat, n \in S PROVE n + 1 \in S
  <2>1. PICK g : Delays(g, n)
    BY <1>2
  <2> DEFINE more == [i \in 0 .. n + 1 |-> IF i <= n THEN g[i] ELSE NextDelay(g[n])]
  <2>2. \A i \in 0 .. n : g[i] = IF i = 0 THEN InitialDelay ELSE NextDelay(g[i - 1])
    BY <2>1 DEF Delays, NextDelay
  <2>3. ASSUME NEW i \in 0 .. n + 1
        PROVE  more[i] = IF i = 0 THEN InitialDelay ELSE NextDelay(more[i - 1])
    <3>1. CASE i <= n
      <4>1. i \in 0 .. n /\ (i # 0 => i - 1 \in 0 .. n + 1 /\ i - 1 <= n)
        BY <3>1
      <4> QED BY <2>2, <4>1
    <3>2. CASE i = n + 1
      BY <3>2
    <3> QED BY <3>1, <3>2
  <2>4. more = [i \in 0 .. n + 1 |-> more[i]]
    OBVIOUS
  <2> HIDE DEF more
  <2>5. more = [i \in 0 .. n + 1 |-> IF i = 0 THEN InitialDelay ELSE NextDelay(more[i - 1])]
    BY <2>3, <2>4
  <2>6. Delays(more, n + 1)
    BY <2>5 DEF Delays, NextDelay
  <2> QED BY <2>6
<1> HIDE DEF S
<1>3. Nat \subseteq S
  BY <1>1, <1>2, SetInduction
<1> QED BY <1>3 DEF S

LEMMA BackoffIs ==
  /\ Backoff[0] = InitialDelay
  /\ \A n \in 1 .. MaxDelay : Backoff[n] = NextDelay(Backoff[n - 1])
<1> DEFINE g == CHOOSE f : Delays(f, MaxDelay)
<1>1. Delays(g, MaxDelay)
  BY DelaysExist, LifecycleAssumption, Zenon
<1>2. Backoff = g
  BY DEF Backoff, Delays
<1> HIDE DEF g
<1>3. \A n \in 0 .. MaxDelay : g[n] = IF n = 0 THEN InitialDelay ELSE NextDelay(g[n - 1])
  BY <1>1 DEF Delays, NextDelay
<1> QED BY <1>2, <1>3, LifecycleAssumption

\* The delays grow until they reach MaxDelay, so they have reached it where
\* the count of misses ends.
LEMMA BackoffGrows ==
  /\ \A n \in 0 .. MaxDelay : Backoff[n] \in Nat /\ (Backoff[n] = MaxDelay \/ Backoff[n] > n)
  /\ Backoff[MaxDelay] = MaxDelay
<1> DEFINE grown(n) == Backoff[n] \in 1 .. MaxDelay /\ (Backoff[n] = MaxDelay \/ Backoff[n] > n)
           S == {n \in Nat : n <= MaxDelay => grown(n)}
<1>1. 0 \in S
  BY BackoffIs, LifecycleAssumption
<1>2. ASSUME NEW n \in Nat, n \in S PROVE n + 1 \in S
  <2> SUFFICES ASSUME n + 1 <= MaxDelay PROVE grown(n + 1)
    OBVIOUS
  <2>1. grown(n)
    BY <1>2, LifecycleAssumption
  <2>2. Backoff[n + 1] = NextDelay(Backoff[n])
    <3>1. n + 1 \in 1 .. MaxDelay /\ (n + 1) - 1 = n
      BY LifecycleAssumption
    <3> QED BY <3>1, BackoffIs
  <2> QED BY <2>1, <2>2, LifecycleAssumption DEF NextDelay
<1>3. Nat \subseteq S
  <2> HIDE DEF S
  <2> QED BY <1>1, <1>2, SetInduction
<1>4. \A n \in 0 .. MaxDelay : grown(n)
  BY <1>3, LifecycleAssumption
<1> QED BY <1>4, LifecycleAssumption

\* One more miss is one more doubling, also where the count ends.
LEMMA OneMoreMiss ==
  ASSUME NEW n \in 0 .. MaxDelay
  PROVE  Backoff[IF n = MaxDelay THEN n ELSE n + 1] = NextDelay(Backoff[n])
<1>1. CASE n = MaxDelay
  BY <1>1, BackoffGrows, LifecycleAssumption DEF NextDelay
<1>2. CASE n # MaxDelay
  <2>1. n + 1 \in 1 .. MaxDelay /\ (n + 1) - 1 = n
    BY <1>2, LifecycleAssumption
  <2> QED BY <1>2, <2>1, BackoffIs
<1> QED BY <1>1, <1>2

LEMMA InitDelay == Init => DelayExact
  BY DEF Init, DelayExact

LEMMA NextDelays ==
  ASSUME IInv, DelayExact, [Next]_vars
  PROVE  DelayExact'
<1> USE DEF sessionVars, bridgeVars, tabVars
<1>1. misses \in 0 .. MaxDelay /\ delay \in InitialDelay .. MaxDelay /\ pc \in Steps
      /\ (~started => pc \in {"tcp", "handshake", "failed"})
  BY DEF IInv, TypeOK, Unstarted
<1>2. CASE TcpConnected
  BY <1>2 DEF TcpConnected, DelayExact
<1>3. CASE (TcpFailed \/ HandshakeFailed)
  <2>1. DialFailed /\ pc \in {"tcp", "handshake"}
    BY <1>3 DEF TcpFailed, HandshakeFailed
  <2>2. UNCHANGED <<started, delay>>
    BY <2>1 DEF DialFailed
  <2>3. CASE ~started
    BY <2>1, <2>2, <2>3 DEF DialFailed, DelayExact
  <2>4. CASE started /\ cancelled
    BY <2>1, <2>2, <2>4 DEF DialFailed, End, DelayExact
  <2>5. CASE started /\ ~cancelled
    <3>1. pc' = "init" /\ misses' = (IF misses = MaxDelay THEN misses ELSE misses + 1)
      BY <2>1, <2>5 DEF DialFailed, AfterFailedRedial
    <3>2. delay = NextDelay(Backoff[misses])
      BY <2>1, <2>5 DEF DelayExact
    <3>3. Backoff[misses'] = NextDelay(Backoff[misses])
      BY <1>1, <3>1, OneMoreMiss
    <3> QED BY <2>2, <2>5, <3>1, <3>2, <3>3 DEF DelayExact
  <2> QED BY <2>3, <2>4, <2>5 DEF IInv, TypeOK
<1>4. CASE HandshakeDone
  <2>1. delay' = InitialDelay /\ misses' = 0 /\ started' = TRUE /\ pc' = "init"
    BY <1>4 DEF HandshakeDone, DelayAfterSuccess, DelayExact
  <2> QED BY <2>1, BackoffIs DEF DelayExact
<1>5. CASE RunReturned \/ BackoffCancelled
  BY <1>1, <1>5 DEF RunReturned, BackoffCancelled, End, DelayExact
<1>6. CASE TimerFires
  <2>1. started /\ delay = Backoff[misses] /\ pc' = "tcp" /\ UNCHANGED <<started, misses>>
    BY <1>1, <1>6 DEF TimerFires, DelayExact
  <2>2. delay' = NextDelay(delay)
    BY <1>1, <1>6, LifecycleAssumption DEF TimerFires, DoubledDelay, NextDelay
  <2> QED BY <2>1, <2>2 DEF DelayExact
<1>7. CASE InitWritten \/ RunFails
  BY <1>1, <1>7 DEF InitWritten, RunFails, DelayExact
<1>8. CASE ReturnResult \/ Webview \/ Disconnect \/ WsOpens \/ WsDrops \/ CloseTab \/ ServerChanges
           \/ UNCHANGED vars
  <2>1. UNCHANGED <<pc, started, delay, misses>>
    BY <1>8 DEF ReturnResult, Webview, StatusArrives, ResultArrives, RejectArrives, Disconnect, WsOpens,
                WsDrops, CloseTab, ServerChanges, vars
  <2> QED BY <2>1 DEF DelayExact
<1> QED BY <1>2, <1>3, <1>4, <1>5, <1>6, <1>7, <1>8 DEF Next, Dial, Session

\* The wait before a redial is the exponential backoff of the redials that
\* failed since the last success, however connects and failures alternated
\* before and however long a server stays down (app.go, startSession's loop).
THEOREM BackoffHolds == Spec => []BackoffExact
<1>1. Init => IInv /\ DelayExact
  BY InitHolds, InitDelay
<1>2. IInv /\ DelayExact /\ [Next]_vars => IInv' /\ DelayExact'
  BY NextKeeps, NextDelays
<1>3. IInv /\ DelayExact => BackoffExact
  BY DEF IInv, Unstarted, DelayExact, BackoffExact
<1> QED BY <1>1, <1>2, <1>3, PTL DEF Spec
=============================================================================

--------------------------- MODULE DispatchProofs ---------------------------
(***************************************************************************)
(* Proofs about the dispatch of requests, for any number of messages: what *)
(* has been started can be found, and what stays in the maps is known.     *)
(***************************************************************************)
EXTENDS DispatchProps, TLAPS

Calls(r) == r.initial /\ r.method \in {"INVITE", "UPDATE"}
Unanswered == {"starting", "sent", "calling"}

\* What a message has done by the time its goroutine, its transaction and its call are
\* where they are.
Progress(h) ==
  /\ pc[h] = "idle" <=> req[h] = None
  /\ pc[h] \in {"idle", "dialog", "lookup"} => tx[h] = "none" /\ got[h] = None
  /\ pc[h] = "add" <=> tx[h] = "new"
  /\ pc[h] \in {"add", "indialog"} /\ got[h] /= None => ~req[h].initial
  /\ pc[h] = "indialog" => got[h] /= None /\ tu[h] = "none"
  /\ tx[h] \in {"none", "new"} => tu[h] = "none" /\ h \notin watched
  /\ tx[h] = "none" => req[h] = None \/ pc[h] /= "indialog"
  /\ tx[h] \in {"live", "completed"} => h \in watched
  /\ tu[h] = "start" => tx[h] = "live"
  /\ call[h] /= "none" => tu[h] = "ended" /\ Calls(req[h])
  /\ req[h] = None => tx[h] = "none"

\* A transaction without a final response has somebody who will give it one, or is one
\* that nobody answers; a client transaction that is live has a call that waits for it.
Waiting(h) ==
  /\ tx[h] = "live" => \/ tu[h] = "start" \/ call[h] \in Unanswered \/ pc[h] = "indialog"
                       \/ ~req[h].initial /\ req[h].method /= "BYE"
  /\ leg[h] = "live" => call[h] \in {"sent", "calling"}
  /\ call[h] = "sent" \/ h \in legs => leg[h] /= "none"

\* Whoever has found a call, or is found in a map, has started.
Started ==
  /\ \A h \in Message : got[h] /= None => call[got[h]] /= "none"
  /\ \A b \in Branch : transactions[b] /= None =>
       transactions[b] \in watched /\ req[transactions[b]].branch = b
  /\ \A b \in Branch : b2buaByTx[b] /= None => call[b2buaByTx[b]] /= "none"
  /\ \A d \in Dialog : dialogs[d] /= None => call[dialogs[d]] = "up" \/ crashed

Dead(h) == tx[h] = "over" /\ call[h] = "none" /\ h \notin watched

\* Of the messages with a branch that is not shared, one at most has a transaction in the
\* map or a call.
Alone ==
  \A g, h \in Message :
    g /= h /\ tx[g] /= "none" /\ tx[h] /= "none" /\ req[g].branch = req[h].branch =>
      req[g].branch \in rivals \/ Dead(g) \/ Dead(h)

Own == \A h \in Message : req[h] /= None =>
         /\ req[h].branch \notin rivals =>
              /\ h \in watched => transactions[req[h].branch] = h
              /\ call[h] \in Running /\ h \notin cleaned => b2buaByTx[req[h].branch] = h
         /\ call[h] = "up" /\ h \notin cleaned /\ ~SharesDialog(h) =>
              dialogs[req[h].dialog] = h

Orderly == /\ \A h \in Message : Progress(h) /\ Waiting(h)
           /\ Started /\ Alone /\ Own

-----------------------------------------------------------------------------
(* The types *)

LEMMA InitTyped == Init => TypeOK
<1> SUFFICES ASSUME Init PROVE TypeOK
  OBVIOUS
<1>1. /\ pc \in [Message -> {"idle", "dialog", "lookup", "add", "indialog", "cancel",
                             "cancelling", "cleanup", "ended"}]
      /\ req \in [Message -> Requests \cup {None}]
      /\ got \in [Message -> Message \cup {None}]
      /\ tx \in [Message -> {"none", "new", "live", "completed", "over"}]
      /\ tu \in [Message -> {"none", "start", "ended"}]
      /\ leg \in [Message -> {"none", "live", "answered", "terminated"}]
      /\ call \in [Message -> Running \cup {"none", "ended"}]
  BY DEF Init
<1>2. \A h \in Message : pc[h] = "idle"
  BY DEF Init
<1>3. /\ transactions \in [Branch -> Message \cup {None}]
      /\ b2buaByTx \in [Branch -> Message \cup {None}]
      /\ dialogs \in [Dialog -> Message \cup {None}]
  BY DEF Init
<1>4. /\ watched \subseteq Message /\ legs \subseteq Message /\ cleaned \subseteq Message
      /\ answered \subseteq Requests /\ rivals \subseteq Branch /\ crashed \in BOOLEAN
  BY DEF Init
<1> QED BY <1>1, <1>2, <1>3, <1>4 DEF TypeOK

\* What the steps of a message work on.
LEMMA Types ==
  ASSUME TypeOK, NEW h \in Message
  PROVE  /\ pc[h] /= "idle" /\ Progress(h) => req[h] \in Requests /\ req[h].branch \in Branch
         /\ None \notin Message
         /\ \A r \in Requests : Calls(r) \/ ~r.initial => r.dialog \in Dialog
BY DispatchAssumption DEF TypeOK, Progress, Branch, Dialog, Message, Calls

LEMMA HandlerTyped ==
  ASSUME TypeOK, Orderly, NEW h \in Message, HandlerStep(h)
  PROVE  TypeOK'
<1>1. pc[h] /= "idle"
  BY DEF HandlerStep, LooksForDialog, LooksForTransaction, Adds, HandlesInDialog, HandlesCancel,
         CancelsCall, CleansUp
<1>2. /\ req[h] \in Requests /\ req[h].branch \in Branch /\ None \notin Message
      /\ DialogOf(h) /= None => DialogOf(h) \in Dialog
      /\ got[h] /= None => got[h] \in Message /\ call[got[h]] /= "none"
  BY <1>1, Types DEF Orderly, DialogOf, TypeOK, Started
<1>3. CASE LooksForDialog(h)
  BY <1>2, <1>3 DEF LooksForDialog, Creates, GoTo, callVars, TypeOK, Running
<1>4. CASE LooksForTransaction(h)
  BY <1>2, <1>4 DEF LooksForTransaction, Creates, GoTo, callVars, TypeOK, Running
<1>5. CASE Adds(h)
  BY <1>2, <1>5 DEF Adds, GoTo, callVars, TypeOK, Running
<1>6. CASE HandlesInDialog(h)
  BY <1>2, <1>6 DEF HandlesInDialog, Respond, GoTo, callVars, TypeOK, Running
<1>7. CASE HandlesCancel(h)
  <2> DEFINE c == b2buaByTx[req[h].branch]
  <2>1. c \in Message \cup {None} /\ (c /= None => call[c] /= "none")
    BY <1>2 DEF TypeOK, Orderly, Started
  <2>2. /\ got' = [got EXCEPT ![h] = c]
        /\ pc' = [pc EXCEPT ![h] = IF c = None THEN "ended" ELSE "cancelling"]
        /\ answered' = answered \cup {req[h]}
        /\ UNCHANGED <<req, txVars, callVars, rivals, crashed>>
    BY <1>7 DEF HandlesCancel, GoTo, TypeOK
  <2> HIDE DEF c
  <2> QED BY <1>2, <2>1, <2>2 DEF callVars, txVars, TypeOK, Running
<1>8. CASE CancelsCall(h)
  <2>1. got[h] \in Message /\ req[got[h]] \in Requests
    BY <1>8, DispatchAssumption DEF CancelsCall, TypeOK, Orderly, Progress
  <2>2. /\ tx' = [tx EXCEPT ![got[h]] = "completed"] \/ tx' = tx
        /\ leg' = [leg EXCEPT ![got[h]] = "terminated"] \/ leg' = leg
        /\ answered' = answered \cup {req[got[h]]} /\ pc' = [pc EXCEPT ![h] = "cleanup"]
        /\ UNCHANGED <<req, got, tu, watched, transactions, legs, call, cleaned, b2buaByTx,
                       dialogs, rivals, crashed>>
        /\ pc[h] = "cancelling"
    BY <1>8 DEF CancelsCall, TerminatesLeg, Respond, GoTo
  <2> QED BY <2>1, <2>2 DEF TypeOK, Running
<1>9. CASE CleansUp(h)
  BY <1>2, <1>9 DEF CleansUp, GoTo, txVars, TypeOK, Running
<1> QED BY <1>3, <1>4, <1>5, <1>6, <1>7, <1>8, <1>9 DEF HandlerStep

LEMMA OtherTyped ==
  ASSUME TypeOK, Orderly, NEW h \in Message, UserStep(h) \/ CallStep(h) \/ EndStep(h)
  PROVE  TypeOK'
<1>1. tu[h] = "start" \/ call[h] /= "none" \/ tx[h] /= "none" \/ h \in watched \/ h \in legs
  BY DEF UserStep, Answers, Reinvites, Refuses, StartsCall, CallStep, CallSends, CallAdds,
         CalleeAnswers, CallEstablishes, CallFails, CallEnds, EndStep, TxEnds, Removes,
         RemovesLeg
<1>2. ASSUME tu[h] = "start" \/ call[h] /= "none" \/ tx[h] /= "none" \/ h \in watched
      PROVE  /\ req[h] \in Requests /\ req[h].branch \in Branch
             /\ Calls(req[h]) \/ ~req[h].initial => req[h].dialog \in Dialog
             /\ call[h] /= "none" => Calls(req[h])
  <2>1. tx[h] /= "none"
    BY <1>2 DEF Orderly, Progress
  <2>2. req[h] /= None /\ (call[h] /= "none" => Calls(req[h]))
    BY <2>1 DEF Orderly, Progress
  <2>3. pc[h] /= "idle"
    BY <2>2 DEF Orderly, Progress
  <2> QED BY <2>2, <2>3, Types DEF Orderly
<1>3. CASE Answers(h)
  BY <1>2, <1>3 DEF Answers, Respond, msgVars, callVars, TypeOK, Running
<1>4. CASE Reinvites(h)
  BY <1>2, <1>4 DEF Reinvites, Respond, msgVars, callVars, TypeOK, Running
<1>5. CASE Refuses(h)
  BY <1>2, <1>5 DEF Refuses, Respond, msgVars, callVars, TypeOK, Running
<1>6. CASE StartsCall(h)
  BY <1>2, <1>6 DEF StartsCall, msgVars, TypeOK, Running
<1>7. CASE CallSends(h)
  BY <1>7 DEF CallSends, msgVars, txVars, TypeOK, Running
<1>8. CASE CallAdds(h)
  BY <1>8 DEF CallAdds, msgVars, txVars, TypeOK, Running
<1>9. CASE CalleeAnswers(h)
  BY <1>2, <1>9 DEF CalleeAnswers, Respond, msgVars, TypeOK, Running
<1>10. CASE CallEstablishes(h)
  BY <1>2, <1>10 DEF CallEstablishes, msgVars, txVars, TypeOK, Running
<1>11. CASE CallFails(h)
  BY <1>2, <1>11 DEF CallFails, Respond, TerminatesLeg, RunReturns, msgVars, TypeOK, Running
<1>12. CASE CallEnds(h)
  BY <1>12 DEF CallEnds, RunReturns, msgVars, txVars, TypeOK, Running
<1>13. CASE TxEnds(h)
  BY <1>13 DEF TxEnds, msgVars, callVars, TypeOK, Running
<1>14. CASE Removes(h)
  BY <1>2, <1>14 DEF Removes, msgVars, callVars, TypeOK, Running
<1>15. CASE RemovesLeg(h)
  BY <1>15 DEF RemovesLeg, msgVars, txVars, TypeOK, Running
<1> QED BY <1>3, <1>4, <1>5, <1>6, <1>7, <1>8, <1>9, <1>10, <1>11, <1>12, <1>13, <1>14, <1>15
        DEF UserStep, CallStep, EndStep

LEMMA ArrivesTyped ==
  ASSUME TypeOK, NEW h \in Message, NEW r \in Requests, Arrives(h, r)
  PROVE  TypeOK'
BY DispatchAssumption DEF Arrives, GoTo, txVars, callVars, TypeOK, Running

LEMMA NextTyped == TypeOK /\ Orderly /\ [Next]_vars => TypeOK'
<1> SUFFICES ASSUME TypeOK, Orderly, [Next]_vars PROVE TypeOK'
  OBVIOUS
<1>1. CASE UNCHANGED vars
  BY <1>1 DEF vars, msgVars, txVars, callVars, TypeOK
<1>2. CASE Next
  BY <1>2, HandlerTyped, OtherTyped, ArrivesTyped DEF Next, Step
<1> QED BY <1>1, <1>2

-----------------------------------------------------------------------------
(* What a message has done *)

LEMMA InitOrderly == Init => Orderly
<1> SUFFICES ASSUME Init PROVE Orderly
  OBVIOUS
<1>1. /\ \A h \in Message : /\ pc[h] = "idle" /\ req[h] = None /\ got[h] = None
                            /\ tx[h] = "none" /\ tu[h] = "none" /\ leg[h] = "none"
                            /\ call[h] = "none"
      /\ watched = {} /\ legs = {}
      /\ \A b \in Branch : transactions[b] = None /\ b2buaByTx[b] = None
      /\ \A d \in Dialog : dialogs[d] = None
  BY DEF Init
<1>2. \A h \in Message : Progress(h)
  BY <1>1 DEF Progress
<1>3. \A h \in Message : Waiting(h)
  BY <1>1 DEF Waiting
<1>4. Started
  BY <1>1 DEF Started
<1>5. Alone
  BY <1>1 DEF Alone
<1>6. Own
  BY <1>1 DEF Own
<1> QED BY <1>2, <1>3, <1>4, <1>5, <1>6 DEF Orderly

\* A message's own part of the state.
Unmoved(g) == /\ pc'[g] = pc[g] /\ req'[g] = req[g] /\ got'[g] = got[g] /\ tx'[g] = tx[g]
              /\ tu'[g] = tu[g] /\ call'[g] = call[g] /\ leg'[g] = leg[g]
              /\ (g \in watched' <=> g \in watched) /\ (g \in legs' <=> g \in legs)

LEMMA UnmovedKeeps ==
  ASSUME NEW g, Progress(g), Waiting(g), Unmoved(g)
  PROVE  Progress(g)' /\ Waiting(g)'
BY DEF Progress, Waiting, Unmoved, Calls

\* A step moves nothing but its own message, and the one whose call is cancelled.
LEMMA OthersUnmoved ==
  ASSUME TypeOK, NEW h \in Message, Step(h) \/ (\E r \in Requests : Arrives(h, r)),
         NEW g \in Message, g /= h, g /= got[h] \/ ~CancelsCall(h)
  PROVE  Unmoved(g)
<1>1. /\ pc \in [Message -> {"idle", "dialog", "lookup", "add", "indialog", "cancel",
                             "cancelling", "cleanup", "ended"}]
      /\ req \in [Message -> Requests \cup {None}]
      /\ got \in [Message -> Message \cup {None}]
      /\ tx \in [Message -> {"none", "new", "live", "completed", "over"}]
      /\ tu \in [Message -> {"none", "start", "ended"}]
      /\ leg \in [Message -> {"none", "live", "answered", "terminated"}]
      /\ call \in [Message -> Running \cup {"none", "ended"}]
  BY DEF TypeOK
<1>2. ASSUME NEW r \in Requests, Arrives(h, r) PROVE Unmoved(g)
  BY <1>1, <1>2 DEF Arrives, GoTo, txVars, callVars, Unmoved
<1>3. CASE HandlerStep(h) /\ ~CancelsCall(h)
  BY <1>1, <1>3 DEF HandlerStep, LooksForDialog, LooksForTransaction, Adds, HandlesInDialog,
         HandlesCancel, CleansUp, Creates, GoTo, Respond, txVars, callVars, Unmoved
<1>4. CASE CancelsCall(h)
  BY <1>1, <1>4 DEF CancelsCall, TerminatesLeg, Respond, GoTo, Unmoved
<1>5. CASE UserStep(h)
  BY <1>1, <1>5 DEF UserStep, Answers, Reinvites, Refuses, StartsCall, Respond, msgVars,
                    callVars, Unmoved
<1>6. CASE CallStep(h)
  BY <1>1, <1>6 DEF CallStep, CallSends, CallAdds, CalleeAnswers, CallEstablishes, CallFails,
                    CallEnds, Respond, TerminatesLeg, RunReturns, msgVars, txVars, Unmoved
<1>7. CASE EndStep(h)
  BY <1>1, <1>7 DEF EndStep, TxEnds, Removes, RemovesLeg, msgVars, txVars, callVars, Unmoved
<1> QED BY <1>2, <1>3, <1>4, <1>5, <1>6, <1>7 DEF Step

\* The message that a step is of.
LEMMA HandlerMoves ==
  ASSUME TypeOK, Orderly, NEW h \in Message, HandlerStep(h), ~CancelsCall(h)
  PROVE  Progress(h)' /\ Waiting(h)'
<1>1. /\ pc \in [Message -> {"idle", "dialog", "lookup", "add", "indialog", "cancel",
                             "cancelling", "cleanup", "ended"}]
      /\ req \in [Message -> Requests \cup {None}]
      /\ got \in [Message -> Message \cup {None}]
      /\ tx \in [Message -> {"none", "new", "live", "completed", "over"}]
      /\ tu \in [Message -> {"none", "start", "ended"}]
      /\ leg \in [Message -> {"none", "live", "answered", "terminated"}]
      /\ call \in [Message -> Running \cup {"none", "ended"}]
  BY DEF TypeOK
<1>2. Progress(h) /\ Waiting(h)
  BY DEF Orderly
<1>3. CASE LooksForDialog(h)
  BY <1>1, <1>2, <1>3 DEF LooksForDialog, Creates, GoTo, callVars, DialogOf, Progress, Waiting,
                          Calls
<1>4. CASE LooksForTransaction(h)
  BY <1>1, <1>2, <1>4 DEF LooksForTransaction, Creates, GoTo, callVars, Progress, Waiting, Calls
<1>5. CASE Adds(h)
  BY <1>1, <1>2, <1>5 DEF Adds, GoTo, callVars, Progress, Waiting, Calls
<1>6. CASE HandlesInDialog(h)
  BY <1>1, <1>2, <1>6 DEF HandlesInDialog, Respond, GoTo, callVars, Progress, Waiting, Calls
<1>7. CASE HandlesCancel(h)
  <2> DEFINE c == b2buaByTx[req[h].branch]
  <2>1. /\ got' = [got EXCEPT ![h] = c] /\ pc[h] = "cancel"
        /\ pc' = [pc EXCEPT ![h] = IF c = None THEN "ended" ELSE "cancelling"]
        /\ UNCHANGED <<req, txVars, callVars>>
    BY <1>1, <1>7 DEF HandlesCancel, GoTo
  <2> HIDE DEF c
  <2> QED BY <1>1, <1>2, <2>1 DEF callVars, txVars, Progress, Waiting, Calls
<1>8. CASE CleansUp(h)
  BY <1>1, <1>2, <1>8 DEF CleansUp, GoTo, txVars, Progress, Waiting, Calls
<1> QED BY <1>3, <1>4, <1>5, <1>6, <1>7, <1>8 DEF HandlerStep

LEMMA CancelMoves ==
  ASSUME TypeOK, Orderly, NEW h \in Message, CancelsCall(h), NEW g \in Message
  PROVE  Progress(g)' /\ Waiting(g)'
<1>1. /\ pc \in [Message -> {"idle", "dialog", "lookup", "add", "indialog", "cancel",
                             "cancelling", "cleanup", "ended"}]
      /\ tx \in [Message -> {"none", "new", "live", "completed", "over"}]
      /\ leg \in [Message -> {"none", "live", "answered", "terminated"}]
      /\ got[h] \in Message /\ call[got[h]] /= "none" /\ pc[h] = "cancelling"
  BY DEF TypeOK, CancelsCall
<1>2. \A m \in Message : Progress(m) /\ Waiting(m)
  BY DEF Orderly
<1>3. UNCHANGED <<req, got, tu, watched, legs, call>>
  BY DEF CancelsCall
<1>4. /\ pc'[h] = "cleanup" /\ \A m \in Message \ {h} : pc'[m] = pc[m]
      /\ \A m \in Message : \/ tx'[m] = tx[m]
                            \/ tx[m] = "live" /\ tx'[m] = "completed" /\ call[m] /= "none"
      /\ \A m \in Message : leg'[m] = leg[m] \/ (leg[m] = "live" /\ leg'[m] = "terminated")
  BY <1>1 DEF CancelsCall, TerminatesLeg, Respond, GoTo
<1>5. Progress(g)'
  BY <1>1, <1>2, <1>3, <1>4 DEF Progress, Calls
<1>6. Waiting(g)'
  BY <1>1, <1>2, <1>3, <1>4 DEF Waiting
<1> QED BY <1>5, <1>6

LEMMA OtherMoves ==
  ASSUME TypeOK, Orderly, NEW h \in Message,
         UserStep(h) \/ CallStep(h) \/ EndStep(h) \/ \E r \in Requests : Arrives(h, r)
  PROVE  Progress(h)' /\ Waiting(h)'
<1>1. /\ pc \in [Message -> {"idle", "dialog", "lookup", "add", "indialog", "cancel",
                             "cancelling", "cleanup", "ended"}]
      /\ req \in [Message -> Requests \cup {None}]
      /\ got \in [Message -> Message \cup {None}]
      /\ tx \in [Message -> {"none", "new", "live", "completed", "over"}]
      /\ tu \in [Message -> {"none", "start", "ended"}]
      /\ leg \in [Message -> {"none", "live", "answered", "terminated"}]
      /\ call \in [Message -> Running \cup {"none", "ended"}]
  BY DEF TypeOK
<1>2. Progress(h) /\ Waiting(h)
  BY DEF Orderly
<1>3. ASSUME NEW r \in Requests, Arrives(h, r) PROVE Progress(h)' /\ Waiting(h)'
  BY <1>1, <1>2, <1>3, DispatchAssumption
     DEF Arrives, GoTo, txVars, callVars, Progress, Waiting, Calls
<1>4. CASE UserStep(h)
  <2>1. CASE Answers(h)
    BY <1>1, <1>2, <2>1 DEF Answers, Respond, msgVars, callVars, Progress, Waiting, Calls
  <2>2. CASE Reinvites(h)
    BY <1>1, <1>2, <2>2 DEF Reinvites, Respond, msgVars, callVars, Progress, Waiting, Calls
  <2>3. CASE Refuses(h)
    BY <1>1, <1>2, <2>3 DEF Refuses, Respond, msgVars, callVars, Progress, Waiting, Calls
  <2>4. CASE StartsCall(h)
    BY <1>1, <1>2, <2>4 DEF StartsCall, msgVars, Progress, Waiting, Calls, Unanswered
  <2> QED BY <1>4, <2>1, <2>2, <2>3, <2>4 DEF UserStep
<1>5. CASE CallStep(h)
  <2>1. CASE CallSends(h)
    BY <1>1, <1>2, <2>1 DEF CallSends, msgVars, txVars, Progress, Waiting, Calls, Unanswered
  <2>2. CASE CallAdds(h)
    BY <1>1, <1>2, <2>2 DEF CallAdds, msgVars, txVars, Progress, Waiting, Calls, Unanswered
  <2>3. CASE CalleeAnswers(h)
    BY <1>1, <1>2, <2>3 DEF CalleeAnswers, Respond, msgVars, Progress, Waiting, Calls
  <2>4. CASE CallEstablishes(h)
    BY <1>1, <1>2, <2>4 DEF CallEstablishes, msgVars, txVars, Progress, Waiting, Calls,
                            Unanswered
  <2>5. CASE CallFails(h)
    BY <1>1, <1>2, <2>5 DEF CallFails, Respond, TerminatesLeg, RunReturns, msgVars, Progress,
                            Waiting, Calls
  <2>6. CASE CallEnds(h)
    BY <1>1, <1>2, <2>6 DEF CallEnds, RunReturns, msgVars, txVars, Progress, Waiting, Calls,
                            Unanswered
  <2> QED BY <1>5, <2>1, <2>2, <2>3, <2>4, <2>5, <2>6 DEF CallStep
<1>6. CASE EndStep(h)
  BY <1>1, <1>2, <1>6 DEF EndStep, TxEnds, Removes, RemovesLeg, msgVars, txVars, callVars,
                          Progress, Waiting, Calls
<1> QED BY <1>3, <1>4, <1>5, <1>6

\* Every message keeps the order of its own steps.
LEMMA MessagesKeep ==
  ASSUME TypeOK, Orderly, NEW h \in Message, Step(h) \/ \E r \in Requests : Arrives(h, r),
         NEW g \in Message
  PROVE  Progress(g)' /\ Waiting(g)'
<1>1. CASE CancelsCall(h)
  BY <1>1, CancelMoves
<1>2. CASE ~CancelsCall(h) /\ g = h
  BY <1>2, HandlerMoves, OtherMoves DEF Step
<1>3. CASE ~CancelsCall(h) /\ g /= h
  BY <1>3, OthersUnmoved, UnmovedKeeps DEF Orderly
<1> QED BY <1>1, <1>2, <1>3

-----------------------------------------------------------------------------
(* What is found has started *)

\* What a step may not undo.
LEMMA Grows ==
  ASSUME TypeOK, Orderly, NEW h \in Message, Step(h) \/ (\E r \in Requests : Arrives(h, r)),
         NEW g \in Message
  PROVE  /\ call[g] /= "none" => call'[g] /= "none"
         /\ req[g] /= None => req'[g] = req[g]
         /\ tx[g] /= "none" => tx'[g] /= "none"
         /\ Dead(g) => Dead(g)'
<1>1. /\ pc \in [Message -> {"idle", "dialog", "lookup", "add", "indialog", "cancel",
                             "cancelling", "cleanup", "ended"}]
      /\ req \in [Message -> Requests \cup {None}]
      /\ tx \in [Message -> {"none", "new", "live", "completed", "over"}]
      /\ tu \in [Message -> {"none", "start", "ended"}]
      /\ call \in [Message -> Running \cup {"none", "ended"}]
  BY DEF TypeOK
<1>2. Progress(g)
  BY DEF Orderly
<1>3. CASE g /= h /\ ~CancelsCall(h)
  BY <1>3, OthersUnmoved DEF Unmoved, Dead
<1>4. CASE CancelsCall(h)
  <2>1. UNCHANGED <<req, watched, call>>
    BY <1>4 DEF CancelsCall
  <2>2. tx'[g] = tx[g] \/ (tx[g] = "live" /\ tx'[g] = "completed")
    BY <1>1, <1>4 DEF CancelsCall, Respond
  <2> QED BY <2>1, <2>2 DEF Dead
<1>5. CASE g = h
  <2>1. ASSUME NEW r \in Requests, Arrives(h, r)
        PROVE  req[g] = None /\ tx[g] = "none" /\ UNCHANGED <<tx, call>>
    BY <1>2, <1>5, <2>1 DEF Arrives, txVars, callVars, Progress
  <2>2. CASE HandlerStep(h) /\ ~CancelsCall(h)
    BY <1>1, <1>2, <1>5, <2>2 DEF HandlerStep, LooksForDialog, LooksForTransaction, Adds,
           HandlesInDialog, HandlesCancel, CleansUp, Creates, GoTo, Respond, txVars, callVars,
           Progress, Dead
  <2>3. CASE UserStep(h)
    BY <1>1, <1>2, <1>5, <2>3 DEF UserStep, Answers, Reinvites, Refuses, StartsCall, Respond,
           msgVars, callVars, Progress, Dead
  <2>4. CASE CallStep(h)
    BY <1>1, <1>2, <1>5, <2>4 DEF CallStep, CallSends, CallAdds, CalleeAnswers,
           CallEstablishes, CallFails, CallEnds, Respond, TerminatesLeg, RunReturns, msgVars,
           txVars, Progress, Dead
  <2>5. CASE EndStep(h)
    BY <1>1, <1>2, <1>5, <2>5 DEF EndStep, TxEnds, Removes, RemovesLeg, msgVars, txVars,
           callVars, Progress, Dead
  <2> QED BY <1>2, <1>4, <2>1, <2>2, <2>3, <2>4, <2>5 DEF Step, Dead, Progress
<1> QED BY <1>3, <1>4, <1>5

LEMMA StartedKeeps ==
  ASSUME TypeOK, Orderly, ~crashed, NEW h \in Message,
         Step(h) \/ \E r \in Requests : Arrives(h, r)
  PROVE  Started'
<1>1. /\ got \in [Message -> Message \cup {None}] /\ req \in [Message -> Requests \cup {None}]
      /\ transactions \in [Branch -> Message \cup {None}] /\ watched \subseteq Message
      /\ b2buaByTx \in [Branch -> Message \cup {None}]
      /\ dialogs \in [Dialog -> Message \cup {None}]
      /\ call \in [Message -> Running \cup {"none", "ended"}]
      /\ None \notin Message
  BY DispatchAssumption DEF TypeOK, Message
<1>2. /\ \A g \in Message : got[g] /= None => call[got[g]] /= "none"
      /\ \A b \in Branch : transactions[b] /= None =>
           transactions[b] \in watched /\ req[transactions[b]].branch = b
      /\ \A b \in Branch : b2buaByTx[b] /= None => call[b2buaByTx[b]] /= "none"
      /\ \A d \in Dialog : dialogs[d] /= None => call[dialogs[d]] = "up"
  BY DEF Orderly, Started
<1>3. /\ \A g \in Message : call[g] /= "none" => call'[g] /= "none"
      /\ \A g \in Message : req[g] /= None => req'[g] = req[g]
      /\ \A g \in watched : req[g] /= None
      /\ pc[h] /= "idle" => req[h] \in Requests /\ req[h].branch \in Branch
  <2>1. \A g \in watched : g \in Message /\ tx[g] /= "none"
    BY <1>1 DEF Orderly, Progress
  <2>2. \A g \in Message : tx[g] /= "none" => req[g] /= None
    BY DEF Orderly, Progress
  <2> QED BY <2>1, <2>2, Grows, Types DEF Orderly
<1>4. \A g \in Message : got'[g] /= None => call'[got'[g]] /= "none"
  <2>1. got' = got \/ LooksForDialog(h) \/ HandlesCancel(h)
    BY DEF Step, HandlerStep, LooksForTransaction, Adds, HandlesInDialog, CancelsCall, CleansUp,
           UserStep, Answers, Reinvites, Refuses, StartsCall, CallStep, CallSends, CallAdds,
           CalleeAnswers, CallEstablishes, CallFails, CallEnds, EndStep, TxEnds, Removes,
           RemovesLeg, msgVars, Arrives
  <2>2. CASE LooksForDialog(h)
    <3>1. got' = got \/ (got' = [got EXCEPT ![h] = dialogs[DialogOf(h)]]
                         /\ DialogOf(h) /= None /\ dialogs[DialogOf(h)] /= None)
      BY <2>2 DEF LooksForDialog
    <3>2. DialogOf(h) /= None => DialogOf(h) \in Dialog
      BY <1>3, <2>2 DEF LooksForDialog, DialogOf, Dialog
    <3> QED BY <1>1, <1>2, <1>3, <3>1, <3>2
  <2>3. CASE HandlesCancel(h)
    <3>1. got' = [got EXCEPT ![h] = b2buaByTx[req[h].branch]] /\ req[h].branch \in Branch
      BY <1>3, <2>3 DEF HandlesCancel
    <3> QED BY <1>1, <1>2, <1>3, <3>1
  <2>4. CASE got' = got
    BY <1>1, <1>2, <1>3, <2>4
  <2> QED BY <2>1, <2>2, <2>3, <2>4
<1>5. \A b \in Branch : transactions'[b] /= None =>
        transactions'[b] \in watched' /\ req'[transactions'[b]].branch = b
  <2>1. (transactions' = transactions /\ watched' = watched) \/ Adds(h) \/ Removes(h)
    BY DEF Step, HandlerStep, LooksForDialog, LooksForTransaction, HandlesInDialog,
           HandlesCancel, CancelsCall, CleansUp,
           UserStep, Answers, Reinvites, Refuses, StartsCall, CallStep, CallSends, CallAdds,
           CalleeAnswers, CallEstablishes, CallFails, CallEnds, EndStep, TxEnds,
           RemovesLeg, txVars, Arrives
  <2>2. CASE Adds(h)
    <3>1. /\ transactions' = [transactions EXCEPT ![req[h].branch] = h]
          /\ watched' = watched \cup {h} /\ req' = req /\ req[h].branch \in Branch
      BY <1>3, <2>2 DEF Adds
    <3> QED BY <1>1, <1>2, <3>1
  <2>3. CASE Removes(h)
    <3>1. /\ transactions' = [transactions EXCEPT ![req[h].branch] = None]
          /\ watched' = watched \ {h} /\ req' = req
      BY <2>3 DEF Removes, msgVars
    <3> QED BY <1>1, <1>2, <3>1
  <2>4. CASE transactions' = transactions /\ watched' = watched
    BY <1>1, <1>2, <1>3, <2>4
  <2> QED BY <2>1, <2>2, <2>3, <2>4
<1>6. \A b \in Branch : b2buaByTx'[b] /= None => call'[b2buaByTx'[b]] /= "none"
  <2>1. b2buaByTx' = b2buaByTx \/ StartsCall(h) \/ CleansUp(h)
    BY DEF Step, HandlerStep, LooksForDialog, LooksForTransaction, Adds, HandlesInDialog,
           HandlesCancel, CancelsCall,
           UserStep, Answers, Reinvites, Refuses, CallStep, CallSends, CallAdds,
           CalleeAnswers, CallEstablishes, CallFails, CallEnds, EndStep, TxEnds, Removes,
           RemovesLeg, callVars, Arrives
  <2>2. CASE StartsCall(h)
    <3>1. b2buaByTx' = [b2buaByTx EXCEPT ![req[h].branch] = h] /\ call'[h] /= "none"
      BY <1>1, <2>2 DEF StartsCall
    <3> QED BY <1>1, <1>2, <1>3, <3>1
  <2>3. CASE CleansUp(h)
    BY <1>1, <1>2, <1>3, <2>3 DEF CleansUp
  <2>4. CASE b2buaByTx' = b2buaByTx
    BY <1>1, <1>2, <1>3, <2>4
  <2> QED BY <2>1, <2>2, <2>3, <2>4
<1>7. \A d \in Dialog : dialogs'[d] /= None => call'[dialogs'[d]] = "up" \/ crashed'
  <2>1. \/ dialogs' = dialogs
        \/ CallEstablishes(h)
        \/ CleansUp(h)
    BY DEF Step, HandlerStep, LooksForDialog, LooksForTransaction, Adds, HandlesInDialog,
           HandlesCancel, CancelsCall,
           UserStep, Answers, Reinvites, Refuses, StartsCall, CallStep, CallSends, CallAdds,
           CalleeAnswers, CallFails, CallEnds, EndStep, TxEnds, Removes,
           RemovesLeg, callVars, Arrives
  <2>2. \A g \in Message : call[g] = "up" => call'[g] = "up" \/ crashed'
    BY <1>1 DEF Step, HandlerStep, LooksForDialog, LooksForTransaction, Adds, HandlesInDialog,
           HandlesCancel, CancelsCall, CleansUp,
           UserStep, Answers, Reinvites, Refuses, StartsCall, CallStep, CallSends, CallAdds,
           CalleeAnswers, CallEstablishes, CallFails, CallEnds, RunReturns, EndStep, TxEnds,
           Removes, RemovesLeg, callVars, Arrives, Orderly, Progress
  <2>3. CASE CallEstablishes(h)
    <3>1. dialogs' = [dialogs EXCEPT ![req[h].dialog] = h] /\ call'[h] = "up"
      BY <1>1, <2>3 DEF CallEstablishes
    <3> QED BY <1>1, <1>2, <2>2, <3>1
  <2>4. CASE CleansUp(h)
    <3>1. dialogs' = dialogs \/ dialogs' = [dialogs EXCEPT ![req[got[h]].dialog] = None]
      BY <2>4 DEF CleansUp
    <3> QED BY <1>1, <1>2, <2>2, <3>1
  <2>5. CASE dialogs' = dialogs
    BY <1>1, <1>2, <2>2, <2>5
  <2> QED BY <2>1, <2>3, <2>4, <2>5
<1> QED BY <1>4, <1>5, <1>6, <1>7 DEF Started

-----------------------------------------------------------------------------
(* Whose keys the maps hold *)

\* Nobody but the message of the step gets a transaction, and only by creating it.
LEMMA OneCreates ==
  ASSUME TypeOK, Orderly, NEW h \in Message, Step(h) \/ (\E r \in Requests : Arrives(h, r)),
         NEW g \in Message, tx[g] = "none", tx'[g] /= "none"
  PROVE  /\ g = h /\ req' = req /\ req[h] \in Requests
         /\ transactions[req[h].branch] = None \/ req[h].branch \in rivals'
         /\ SharesKeys(h) => req[h].branch \in rivals'
<1>1. /\ tx \in [Message -> {"none", "new", "live", "completed", "over"}]
      /\ got \in [Message -> Message \cup {None}]
  BY DEF TypeOK
<1>2. CASE CancelsCall(h)
  BY <1>1, <1>2 DEF CancelsCall, Respond
<1>3. CASE ~CancelsCall(h)
  <2>1. g = h
    BY <1>3, OthersUnmoved DEF Unmoved
  <2>2. Progress(h)
    BY DEF Orderly
  <2>3. LooksForDialog(h) \/ LooksForTransaction(h)
    BY <1>1, <1>3, <2>1, <2>2 DEF Step, HandlerStep, Adds, HandlesInDialog, HandlesCancel,
           CleansUp, UserStep, Answers, Reinvites, Refuses, StartsCall, CallStep, CallSends,
           CallAdds, CalleeAnswers, CallEstablishes, CallFails, CallEnds, EndStep, TxEnds,
           Removes, RemovesLeg, Respond, txVars, Arrives, Progress
  <2>4. pc[h] /= "idle"
    BY <2>3 DEF LooksForDialog, LooksForTransaction
  <2>5. req[h] \in Requests
    BY <2>2, <2>4, Types
  <2>6. CASE LooksForDialog(h)
    BY <2>1, <2>5, <2>6 DEF LooksForDialog, Creates
  <2>7. CASE LooksForTransaction(h)
    BY <2>1, <2>5, <2>7 DEF LooksForTransaction, Creates
  <2> QED BY <2>1, <2>3, <2>5, <2>6, <2>7
<1> QED BY <1>2, <1>3

LEMMA RivalsGrow ==
  ASSUME NEW h \in Message, Step(h) \/ \E r \in Requests : Arrives(h, r)
  PROVE  rivals \subseteq rivals' /\ cleaned \subseteq cleaned'
BY DEF Step, HandlerStep, LooksForDialog, LooksForTransaction, Adds, HandlesInDialog,
       HandlesCancel, CancelsCall, CleansUp, Creates, UserStep, Answers, Reinvites, Refuses,
       StartsCall, CallStep, CallSends, CallAdds, CalleeAnswers, CallEstablishes, CallFails,
       CallEnds, EndStep, TxEnds, Removes, RemovesLeg, callVars, Arrives

\* Whoever creates a transaction without rivals finds what was there before dead.
LEMMA CreatesAlone ==
  ASSUME TypeOK, Orderly, NEW h \in Message, NEW k \in Message,
         transactions[req[h].branch] = None, ~SharesKeys(h), req[h].branch \notin rivals,
         k /= h, tx[k] /= "none", req[k] /= None, req[k].branch = req[h].branch
  PROVE  Dead(k)
<1>1. Progress(k)
  BY DEF Orderly
<1>2. tx[k] \in {"none", "new", "live", "completed", "over"} /\ None \notin Message
  BY DispatchAssumption DEF TypeOK, Message
<1>3. k \notin watched
  BY <1>2 DEF Orderly, Own
<1>4. pc[k] /= "add" /\ ~(tx[k] = "over" /\ call[k] /= "none")
  BY DEF SharesKeys
<1> QED BY <1>1, <1>2, <1>3, <1>4 DEF Progress, Dead

LEMMA AloneKeeps ==
  ASSUME TypeOK, Orderly, NEW h \in Message, Step(h) \/ \E r \in Requests : Arrives(h, r)
  PROVE  Alone'
<1> SUFFICES ASSUME NEW g \in Message, NEW k \in Message, g /= k, tx'[g] /= "none",
                    tx'[k] /= "none", req'[g].branch = req'[k].branch,
                    req'[g].branch \notin rivals'
             PROVE  Dead(g)' \/ Dead(k)'
  BY DEF Alone
<1>1. rivals \subseteq rivals'
  BY RivalsGrow
<1>2. \A m \in Message : tx[m] /= "none" => req[m] /= None /\ req'[m] = req[m]
  BY Grows DEF Orderly, Progress
<1>3. \A m \in Message : Dead(m) => Dead(m)'
  BY Grows
<1>4. CASE tx[g] /= "none" /\ tx[k] /= "none"
  BY <1>1, <1>2, <1>3, <1>4 DEF Orderly, Alone
<1>5. ASSUME NEW m \in Message, NEW n \in Message, m /= n, tx'[m] /= "none", tx'[n] /= "none",
             req'[m].branch = req'[n].branch, req'[m].branch \notin rivals', tx[m] = "none"
      PROVE  Dead(n)'
  <2>1. /\ m = h /\ req' = req /\ req[h] \in Requests
        /\ transactions[req[h].branch] = None \/ req[h].branch \in rivals'
        /\ SharesKeys(h) => req[h].branch \in rivals'
    BY <1>5, OneCreates
  <2>2. tx[n] /= "none"
    BY <1>5, <2>1, OneCreates
  <2>3. Dead(n)
    BY <1>1, <1>2, <1>5, <2>1, <2>2, CreatesAlone
  <2> QED BY <1>3, <2>3
<1>6. CASE tx[g] = "none"
  BY <1>5, <1>6
<1>7. CASE tx[k] = "none"
  BY <1>5, <1>7
<1> QED BY <1>4, <1>6, <1>7

\* Two messages with the same branch that are both in use are the same one.
LEMMA SameUser ==
  ASSUME TypeOK, Orderly, NEW m \in Message, NEW n \in Message,
         req[m].branch = req[n].branch, req[m].branch \notin rivals,
         m \in watched \/ call[m] /= "none" \/ tx[m] \in {"new", "live"},
         n \in watched \/ call[n] /= "none" \/ tx[n] \in {"new", "live"}
  PROVE  m = n
<1>1. /\ tx \in [Message -> {"none", "new", "live", "completed", "over"}]
      /\ Progress(m) /\ Progress(n) /\ Alone
  BY DEF TypeOK, Orderly
<1>2. tx[m] /= "none" /\ tx[n] /= "none" /\ ~Dead(m) /\ ~Dead(n)
  BY <1>1 DEF Progress, Dead
<1> QED BY <1>1, <1>2 DEF Alone

\* How a call gets where it is.
LEMMA CallMoves ==
  ASSUME TypeOK, Orderly, NEW h \in Message, Step(h) \/ (\E r \in Requests : Arrives(h, r)),
         NEW g \in Message
  PROVE  /\ call'[g] \in Running => call[g] \in Running \/ (StartsCall(h) /\ g = h)
         /\ call'[g] = "up" => call[g] = "up" \/ (CallEstablishes(h) /\ g = h)
<1>1. /\ call \in [Message -> Running \cup {"none", "ended"}]
      /\ got \in [Message -> Message \cup {None}]
  BY DEF TypeOK
<1>2. call' = call \/ UserStep(h) \/ CallStep(h)
  BY DEF Step, HandlerStep, LooksForDialog, LooksForTransaction, Adds, HandlesInDialog,
         HandlesCancel, CancelsCall, CleansUp, EndStep, TxEnds, Removes, RemovesLeg, callVars,
         Arrives
<1>3. CASE UserStep(h)
  BY <1>1, <1>3 DEF UserStep, Answers, Reinvites, Refuses, StartsCall, callVars
<1>4. CASE CallStep(h)
  BY <1>1, <1>4 DEF CallStep, CallSends, CallAdds, CalleeAnswers, CallEstablishes, CallFails,
                    CallEnds, RunReturns, Running
<1>5. CASE call' = call
  BY <1>5
<1> QED BY <1>2, <1>3, <1>4, <1>5

LEMMA OwnKeeps ==
  ASSUME TypeOK, Orderly, NEW h \in Message, Step(h) \/ \E r \in Requests : Arrives(h, r)
  PROVE  Own'
<1> SUFFICES ASSUME NEW m \in Message, req'[m] /= None
             PROVE  /\ req'[m].branch \notin rivals' =>
                         /\ m \in watched' => transactions'[req'[m].branch] = m
                         /\ call'[m] \in Running /\ m \notin cleaned' =>
                              b2buaByTx'[req'[m].branch] = m
                    /\ call'[m] = "up" /\ m \notin cleaned' /\ ~SharesDialog(m)' =>
                         dialogs'[req'[m].dialog] = m
  BY DEF Own
<1>1. /\ transactions \in [Branch -> Message \cup {None}] /\ watched \subseteq Message
      /\ b2buaByTx \in [Branch -> Message \cup {None}]
      /\ dialogs \in [Dialog -> Message \cup {None}]
      /\ got \in [Message -> Message \cup {None}]
      /\ call \in [Message -> Running \cup {"none", "ended"}]
      /\ rivals \subseteq rivals' /\ cleaned \subseteq cleaned'
  BY RivalsGrow DEF TypeOK
<1>2. \A n \in Message : n \in watched \/ call[n] /= "none" \/ tx[n] /= "none" =>
                         /\ req'[n] = req[n] /\ req[n] \in Requests /\ req[n].branch \in Branch
                         /\ call[n] /= "none" => Calls(req[n]) /\ req[n].dialog \in Dialog
  <2> TAKE n \in Message
  <2>1. Progress(n)
    BY DEF Orderly
  <2> HAVE n \in watched \/ call[n] /= "none" \/ tx[n] /= "none"
  <2>2. req[n] /= None /\ pc[n] /= "idle" /\ (call[n] /= "none" => Calls(req[n]))
    BY <2>1 DEF Progress
  <2> QED BY <2>1, <2>2, Grows, Types
<1>3. ASSUME m \in watched \/ call[m] /= "none" \/ tx[m] /= "none"
      PROVE  /\ req'[m].branch \notin rivals' =>
                  /\ m \in watched => transactions[req[m].branch] = m
                  /\ call[m] \in Running /\ m \notin cleaned => b2buaByTx[req[m].branch] = m
                  /\ req[m].branch \notin rivals
             /\ call[m] = "up" /\ m \notin cleaned /\ ~SharesDialog(m) =>
                  dialogs[req[m].dialog] = m
  BY <1>1, <1>2, <1>3, DispatchAssumption DEF Orderly, Own
<1>4. ASSUME req'[m].branch \notin rivals'
      PROVE  m \in watched' => transactions'[req'[m].branch] = m
  <2>1. (transactions' = transactions /\ watched' = watched) \/ Adds(h) \/ Removes(h)
    BY DEF Step, HandlerStep, LooksForDialog, LooksForTransaction, HandlesInDialog,
           HandlesCancel, CancelsCall, CleansUp,
           UserStep, Answers, Reinvites, Refuses, StartsCall, CallStep, CallSends, CallAdds,
           CalleeAnswers, CallEstablishes, CallFails, CallEnds, EndStep, TxEnds,
           RemovesLeg, txVars, Arrives
  <2>2. CASE Adds(h)
    <3>1. /\ transactions' = [transactions EXCEPT ![req[h].branch] = h] /\ req' = req
          /\ watched' = watched \cup {h} /\ pc[h] = "add"
      BY <2>2 DEF Adds
    <3>2. tx[h] = "new"
      BY <3>1 DEF Orderly, Progress
    <3>3. m \in watched /\ req[m].branch = req[h].branch => m = h
      BY <1>3, <1>4, <3>2, SameUser
    <3> QED BY <1>1, <1>2, <1>3, <1>4, <3>1, <3>2, <3>3
  <2>3. CASE Removes(h)
    <3>1. /\ transactions' = [transactions EXCEPT ![req[h].branch] = None] /\ req' = req
          /\ watched' = watched \ {h} /\ h \in watched
      BY <2>3 DEF Removes, msgVars
    <3>2. m \in watched /\ req[m].branch = req[h].branch => m = h
      BY <1>3, <1>4, <3>1, SameUser
    <3> QED BY <1>1, <1>2, <1>3, <1>4, <3>1, <3>2
  <2>4. CASE transactions' = transactions /\ watched' = watched
    BY <1>2, <1>3, <1>4, <2>4
  <2> QED BY <2>1, <2>2, <2>3, <2>4
<1>5. ASSUME req'[m].branch \notin rivals'
      PROVE  call'[m] \in Running /\ m \notin cleaned' => b2buaByTx'[req'[m].branch] = m
  <2> SUFFICES ASSUME call'[m] \in Running, m \notin cleaned'
               PROVE  b2buaByTx'[req'[m].branch] = m
    OBVIOUS
  <2>1. b2buaByTx' = b2buaByTx \/ StartsCall(h) \/ CleansUp(h)
    BY DEF Step, HandlerStep, LooksForDialog, LooksForTransaction, Adds, HandlesInDialog,
           HandlesCancel, CancelsCall,
           UserStep, Answers, Reinvites, Refuses, CallStep, CallSends, CallAdds,
           CalleeAnswers, CallEstablishes, CallFails, CallEnds, EndStep, TxEnds, Removes,
           RemovesLeg, callVars, Arrives
  <2>2. "none" \notin Running /\ "ended" \notin Running
    BY DEF Running
  <2>3. CASE StartsCall(h)
    <3>1. /\ b2buaByTx' = [b2buaByTx EXCEPT ![req[h].branch] = h] /\ tu[h] = "start"
          /\ req' = req
      BY <2>3 DEF StartsCall, msgVars
    <3>2. tx[h] = "live"
      BY <3>1 DEF Orderly, Progress
    <3>3. CASE m = h
      BY <1>1, <1>2, <3>1, <3>2, <3>3
    <3>4. CASE m /= h
      <4>1. call[m] \in Running
        BY <3>4, CallMoves
      <4>2. req[m].branch /= req[h].branch
        BY <1>3, <1>5, <2>2, <3>2, <3>4, <4>1, SameUser
      <4> QED BY <1>1, <1>2, <1>3, <1>5, <2>2, <3>1, <4>1, <4>2
    <3> QED BY <3>3, <3>4
  <2>4. CASE CleansUp(h)
    <3>1. /\ b2buaByTx' = [b2buaByTx EXCEPT ![req[got[h]].branch] = None]
          /\ call' = call /\ req' = req /\ pc[h] = "cleanup"
          /\ call[got[h]] = "ended" \/ got[h] \in cleaned'
      BY <2>4 DEF CleansUp
    <3>2. got[h] \in Message /\ call[got[h]] /= "none"
      BY <3>1 DEF TypeOK
    <3>3. m /= got[h]
      BY <2>2, <3>1
    <3>4. req[m].branch /= req[got[h]].branch
      BY <1>3, <1>5, <2>2, <3>1, <3>2, <3>3, SameUser
    <3> QED BY <1>1, <1>2, <1>3, <1>5, <2>2, <3>1, <3>4
  <2>5. CASE b2buaByTx' = b2buaByTx /\ ~StartsCall(h)
    <3>1. call[m] \in Running
      BY <2>5, CallMoves
    <3> QED BY <1>1, <1>2, <1>3, <1>5, <2>2, <2>5, <3>1
  <2> QED BY <2>1, <2>3, <2>4, <2>5
<1>6. call'[m] = "up" /\ m \notin cleaned' /\ ~SharesDialog(m)' =>
        dialogs'[req'[m].dialog] = m
  <2> SUFFICES ASSUME call'[m] = "up", m \notin cleaned', ~SharesDialog(m)'
               PROVE  dialogs'[req'[m].dialog] = m
    OBVIOUS
  <2>0. \A n \in Message \ {m} : call'[n] /= "none" => req'[n].dialog /= req'[m].dialog
    BY DEF SharesDialog
  <2>5. \A n \in Message : call[n] /= "none" => call'[n] /= "none"
    BY Grows
  <2>6. call[m] = "up" => ~SharesDialog(m)
    BY <1>2, <2>0, <2>5 DEF SharesDialog
  <2>1. \/ dialogs' = dialogs
        \/ CallEstablishes(h)
        \/ CleansUp(h)
    BY DEF Step, HandlerStep, LooksForDialog, LooksForTransaction, Adds, HandlesInDialog,
           HandlesCancel, CancelsCall,
           UserStep, Answers, Reinvites, Refuses, StartsCall, CallStep, CallSends, CallAdds,
           CalleeAnswers, CallFails, CallEnds, EndStep, TxEnds, Removes,
           RemovesLeg, callVars, Arrives
  <2>2. CASE CallEstablishes(h)
    <3>1. /\ dialogs' = [dialogs EXCEPT ![req[h].dialog] = h] /\ call[h] /= "none"
          /\ req' = req
      BY <2>2 DEF CallEstablishes, msgVars
    <3>2. CASE m = h
      BY <1>1, <1>2, <3>1, <3>2
    <3>3. CASE m /= h
      <4>1. call[m] = "up"
        BY <3>3, CallMoves
      <4>2. req[m].dialog /= req[h].dialog
        BY <1>2, <2>0, <2>5, <3>1, <3>3, <4>1
      <4> QED BY <1>1, <1>2, <1>3, <2>6, <3>1, <4>1, <4>2
    <3> QED BY <3>2, <3>3
  <2>3. CASE CleansUp(h)
    <3>1. /\ call[got[h]] = "up" \/ dialogs' = dialogs
          /\ dialogs' = dialogs \/ dialogs' = [dialogs EXCEPT ![req[got[h]].dialog] = None]
          /\ call' = call /\ req' = req /\ pc[h] = "cleanup"
          /\ call[got[h]] = "ended" \/ got[h] \in cleaned'
      BY <2>3 DEF CleansUp
    <3>2. got[h] \in Message /\ call[got[h]] /= "none"
      BY <3>1 DEF TypeOK
    <3>3. m /= got[h]
      BY <3>1
    <3>4. req[m].dialog /= req[got[h]].dialog
      BY <1>2, <2>0, <2>5, <3>1, <3>2, <3>3
    <3> QED BY <1>1, <1>2, <1>3, <2>6, <3>1, <3>4
  <2>4. CASE dialogs' = dialogs /\ ~CallEstablishes(h)
    <3>1. call[m] = "up"
      BY <2>4, CallMoves
    <3> QED BY <1>1, <1>2, <1>3, <2>4, <2>6, <3>1
  <2> QED BY <2>1, <2>2, <2>3, <2>4
<1> QED BY <1>4, <1>5, <1>6

LEMMA NextOrderly == TypeOK /\ Orderly /\ [Next]_vars => Orderly'
<1> SUFFICES ASSUME TypeOK, Orderly, [Next]_vars PROVE Orderly'
  OBVIOUS
<1>1. CASE UNCHANGED vars
  <2>1. \A h \in Message : Progress(h)' /\ Waiting(h)'
    BY <1>1 DEF vars, msgVars, txVars, callVars, Orderly, Progress, Waiting
  <2>2. Started' /\ Own'
    BY <1>1 DEF vars, msgVars, txVars, callVars, Orderly, Started, Own, SharesDialog
  <2>3. Alone'
    BY <1>1 DEF vars, msgVars, txVars, callVars, Orderly, Alone, Dead
  <2> QED BY <2>1, <2>2, <2>3 DEF Orderly
<1>2. CASE Next
  <2>1. ~crashed
    BY <1>2 DEF Next
  <2>2. PICK h \in Message : Step(h) \/ \E r \in Requests : Arrives(h, r)
    BY <1>2 DEF Next
  <2>3. \A g \in Message : Progress(g)' /\ Waiting(g)'
    BY <2>2, MessagesKeep
  <2> QED BY <2>1, <2>2, <2>3, StartedKeeps, AloneKeeps, OwnKeeps DEF Orderly
<1> QED BY <1>1, <1>2

\* The inductive invariant: whoever works on a request has come there by the steps of the
\* code in their order, and whoever is entered under a key uses it alone.
THEOREM OrderKept == Safety => [](TypeOK /\ Orderly)
<1>1. Init => TypeOK /\ Orderly
  BY InitTyped, InitOrderly
<1>2. TypeOK /\ Orderly /\ [Next]_vars => (TypeOK /\ Orderly)'
  BY NextTyped, NextOrderly
<1> QED BY <1>1, <1>2, PTL DEF Safety

-----------------------------------------------------------------------------
(* What the runs check, for any number of messages *)

\* The variables keep their types, and whoever uses a call has found one that has started.
THEOREM TypeCorrect == Spec => []TypeOK
BY OrderKept, PTL DEF Spec

\* What has been started and has its keys for itself is found under them.
THEOREM StaysFindable == Spec => []Findable
<1>1. TypeOK /\ Orderly => Findable
  <2> SUFFICES ASSUME TypeOK, Orderly PROVE Findable
    OBVIOUS
  <2>1. Own /\ \A h \in Message : tx[h] \in {"live", "completed"} => h \in watched
    BY DEF Orderly, Progress
  <2> QED BY <2>1 DEF Findable, Own
<1> QED BY <1>1, OrderKept, PTL DEF Spec

\* A server at rest holds calls that are up, and nothing else but what is known to stay.
THEOREM NothingLeftBehind == Spec => []NothingElseStays
<1>1. TypeOK /\ Orderly => NothingElseStays
  <2> SUFFICES ASSUME TypeOK, Orderly, AtRest PROVE NothingElseStays
    BY DEF NothingElseStays
  <2>1. /\ \A h \in Message : Progress(h) /\ Waiting(h)
        /\ Started /\ None \notin Message
    BY DispatchAssumption DEF Orderly, Message
  <2>2. ASSUME NEW b \in Branch, transactions[b] /= None
        PROVE  ~req[transactions[b]].initial /\ req[transactions[b]].method /= "BYE"
    <3> DEFINE t == transactions[b]
    <3>1. t \in Message /\ t \in watched
      BY <2>1, <2>2 DEF Started, TypeOK
    <3> HIDE DEF t
    <3>2. tx[t] \in {"none", "new", "live", "completed", "over"}
      BY <3>1 DEF TypeOK
    <3>3. tx[t] = "live"
      BY <2>1, <3>1, <3>2 DEF AtRest, Progress
    <3>4. tu[t] /= "start" /\ call[t] \notin Unanswered /\ pc[t] /= "indialog"
      BY <3>1 DEF AtRest, Unanswered, Running
    <3>5. ~req[t].initial /\ req[t].method /= "BYE"
      BY <2>1, <3>1, <3>3, <3>4 DEF Waiting
    <3> QED BY <3>5 DEF t
  <2>3. ASSUME NEW h \in legs PROVE leg[h] = "answered"
    <3>1. h \in Message /\ leg[h] \in {"none", "live", "answered", "terminated"}
      BY DEF TypeOK
    <3>2. leg[h] /= "terminated" /\ call[h] \notin {"sent", "calling"}
      BY <3>1 DEF AtRest, Running
    <3> QED BY <2>1, <3>1, <3>2 DEF Waiting
  <2>4. ASSUME NEW b \in Branch, b2buaByTx[b] /= None
        PROVE  call[b2buaByTx[b]] \in {"up", "ended"}
    BY <2>1, <2>4 DEF Started, TypeOK, AtRest
  <2>5. ASSUME NEW d \in Dialog, dialogs[d] /= None PROVE call[dialogs[d]] = "up"
    BY <2>1, <2>5 DEF Started, AtRest
  <2> QED BY <2>2, <2>3, <2>4, <2>5 DEF NothingElseStays
<1> QED BY <1>1, OrderKept, PTL DEF Spec
=============================================================================

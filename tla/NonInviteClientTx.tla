-------------------------- MODULE NonInviteClientTx --------------------------
(***************************************************************************)
(* The non-INVITE client transaction of                                    *)
(* internal/sip/transaction_noninvite_client.go: the run goroutine, the    *)
(* goroutines that dispatch received responses, the callbacks of timers E, *)
(* F and K, and the transaction user.  The only users in the program send  *)
(* a BYE (B2BUA.Disconnect, App.sendBye): each reads one response and then *)
(* never looks at Responses() again.                                       *)
(*                                                                         *)
(* Locking is modelled as in InviteClientTx.                               *)
(***************************************************************************)
EXTENDS Naturals, Sequences, FiniteSets

CONSTANTS Dispatchers,   \* goroutines that pass received responses to ReceiveResponse
          Prov, Final,   \* 1xx and 2xx-6xx responses of the peer
          Timeout,       \* the 408 that timer F makes up
          Unavailable,   \* the 503 that a failed write makes up
          WriteMayFail,  \* transport.Write may return an error
          MaxResend,     \* bound: retransmissions of the request (10 fit before timer F)
          None

Received == Prov \cup Final
Response == Received \cup {Timeout, Unavailable}

ASSUME NonInviteClientTxAssumption ==
  /\ Prov \cap Final = {}
  /\ Timeout \notin Received /\ Unavailable \notin Received
  /\ WriteMayFail \in BOOLEAN
  /\ MaxResend \in Nat
  /\ None \notin Response

Run == <<"run", None>>
TU == <<"tu", None>>
TimerE == <<"E", None>>
TimerF == <<"F", None>>
TimerK == <<"K", None>>
Timer == {TimerE, TimerF, TimerK}
Dispatch(d) == <<"dispatch", d>>
Goroutine == {Run, TU} \cup Timer \cup ({"dispatch"} \X Dispatchers)

State == {"Trying", "Proceeding", "Completed", "Terminated"}

VARIABLES
  reliable,      \* isReliable(transport.GetProto())
  state,         \* tx.state
  mu,            \* the goroutine that holds tx.mu for ever, or None
  lastResponse,  \* tx.lastResponse
  responses,     \* the channel tx.responses, of capacity 1
  done,          \* tx.done is closed
  armed,         \* the timers that run
  pc,            \* where each goroutine is
  requests,      \* how often the request was written
  answer         \* the response the TU read, or None

vars == <<reliable, state, mu, lastResponse, responses, done, armed, pc, requests, answer>>

\* NewNonInviteClientTx, its run goroutine about to send the request.
Init == /\ reliable \in BOOLEAN
        /\ state = "Trying"
        /\ mu = None
        /\ lastResponse = None
        /\ responses = <<>>
        /\ done = FALSE
        /\ armed = {}
        /\ pc = [g \in Goroutine |->
                   IF g = Run THEN "send" ELSE IF g = TU THEN "read" ELSE "idle"]
        /\ requests = 0
        /\ answer = None

-----------------------------------------------------------------------------
GoTo(g, l) == pc' = [pc EXCEPT ![g] = l]

\* Where a goroutine goes once its call of Terminate has returned: run goes on to
\* start its timers after a failed write, the others are through.
After(g) == IF g = Run THEN "startF" ELSE "idle"

-----------------------------------------------------------------------------
(* run and sendRequest *)

RunSends == /\ pc[Run] = "send"
            /\ \/ GoTo(Run, "startF") /\ requests' = requests + 1
               \/ WriteMayFail /\ GoTo(Run, "push503") /\ UNCHANGED requests
            /\ UNCHANGED <<state, mu, lastResponse, responses, done, armed, answer,
                           reliable>>

\* Mutant: timer F for reliable transports only.
RunStartsFReliable == /\ pc[Run] = "startF"
                      /\ armed' = IF reliable THEN armed \cup {TimerF} ELSE armed
                      /\ GoTo(Run, "startE")
                      /\ UNCHANGED <<state, mu, lastResponse, responses, done,
                                     requests, answer, reliable>>

RunStartsF == /\ pc[Run] = "startF"
              /\ armed' = armed \cup {TimerF}
              /\ GoTo(Run, "startE")
              /\ UNCHANGED <<state, mu, lastResponse, responses, done, requests,
                             answer, reliable>>

RunStartsE == /\ pc[Run] = "startE"
              /\ armed' = IF reliable THEN armed ELSE armed \cup {TimerE}
              /\ GoTo(Run, "wait")
              /\ UNCHANGED <<state, mu, lastResponse, responses, done, requests,
                             answer, reliable>>

\* <-tx.done; the deferred Terminate finds the state already Terminated.
RunEnds == /\ pc[Run] = "wait" /\ done
           /\ GoTo(Run, "ended")
           /\ UNCHANGED <<state, mu, lastResponse, responses, done, armed, requests,
                          answer, reliable>>

\* tx.responses <- 503 of a failed write (run, timer E), tx.responses <- 408 of timer F:
\* blocks while the channel is full, then calls Terminate.  Timer E holds the lock here,
\* and so waits for itself next.
Push(g, l, r, next) == /\ pc[g] = l
                       /\ responses = <<>>
                       /\ responses' = <<r>>
                       /\ GoTo(g, next)
                       /\ UNCHANGED <<state, mu, lastResponse, done, armed, requests,
                                      answer, reliable>>

PushUnavailable == \/ Push(Run, "push503", Unavailable, "terminate")
                   \/ Push(TimerE, "push503", Unavailable, "wedged")
PushTimeout == Push(TimerF, "push408", Timeout, "terminate")

-----------------------------------------------------------------------------
(* The timers *)

\* A timer expires: its callback is a goroutine that Stop no longer reaches.
Fire(t) == /\ t \in armed /\ pc[t] = "idle"
           /\ t = TimerE => requests <= MaxResend
           /\ armed' = armed \ {t}
           /\ GoTo(t, IF t = TimerE THEN "resend"
                      ELSE IF t = TimerF THEN "push408" ELSE "terminate")
           /\ UNCHANGED <<state, mu, lastResponse, responses, done, requests, answer,
                          reliable>>

\* Mutant: timer E stops retransmitting only when the transaction is over.
ResendRequestLate == /\ pc[TimerE] = "resend" /\ mu = None
                     /\ state /= "Terminated"
                     /\ requests' = requests + 1
                     /\ armed' = armed \cup {TimerE}
                     /\ GoTo(TimerE, "idle")
                     /\ UNCHANGED <<mu, state, lastResponse, responses, done, answer,
                                    reliable>>

\* The callback of timer E: until there is a final response the request leaves again.
ResendRequest ==
  /\ pc[TimerE] = "resend" /\ mu = None
  /\ \/ /\ state \in {"Trying", "Proceeding"}
        /\ requests' = requests + 1
        /\ armed' = armed \cup {TimerE}
        /\ GoTo(TimerE, "idle")
        /\ UNCHANGED mu
     \/ /\ state \in {"Trying", "Proceeding"} /\ WriteMayFail
        /\ mu' = TimerE
        /\ GoTo(TimerE, "push503")
        /\ UNCHANGED <<requests, armed>>
     \/ /\ state \notin {"Trying", "Proceeding"}
        /\ GoTo(TimerE, "idle")
        /\ UNCHANGED <<mu, requests, armed>>
  /\ UNCHANGED <<state, lastResponse, responses, done, answer, reliable>>

-----------------------------------------------------------------------------
(* ReceiveResponse *)

\* The peer answers a request it has got.
Receives(d, r) == /\ pc[Dispatch(d)] = "idle" /\ mu = None
                  /\ requests > 0
                  /\ lastResponse' = r
                  /\ UNCHANGED <<mu, done, requests, answer, reliable>>

\* sendResponseToTU: never blocks, a response that finds the channel full is lost.
Deliver(r) == responses' = IF responses = <<>> THEN <<r>> ELSE responses

\* Too late for the transaction, but not for lastResponse.
ReceiveLate(d, r) == /\ Receives(d, r)
                     /\ state \in {"Completed", "Terminated"}
                     /\ UNCHANGED <<state, responses, armed, pc>>

ReceiveProv(d, r) == /\ Receives(d, r)
                     /\ r \in Prov /\ state \in {"Trying", "Proceeding"}
                     /\ Deliver(r)
                     /\ state' = "Proceeding"
                     /\ UNCHANGED <<armed, pc>>

\* Mutant: the state is set to Terminated before Terminate is called.
ReceiveFinalPreset(d, r) == /\ Receives(d, r)
                            /\ r \in Final /\ state \in {"Trying", "Proceeding"}
                            /\ Deliver(r)
                            /\ state' = "Terminated"
                            /\ armed' = {} /\ GoTo(Dispatch(d), "terminate")

\* A final response: timers E and F stop; timer K, or on TCP unlock and Terminate.
ReceiveFinal(d, r) == /\ Receives(d, r)
                      /\ r \in Final /\ state \in {"Trying", "Proceeding"}
                      /\ Deliver(r)
                      /\ state' = "Completed"
                      /\ IF reliable
                         THEN armed' = {} /\ GoTo(Dispatch(d), "terminate")
                         ELSE armed' = {TimerK} /\ UNCHANGED pc

ReceiveResponse(d, r) == ReceiveLate(d, r) \/ ReceiveProv(d, r) \/ ReceiveFinal(d, r)

\* The TU reads one response, whatever it is.
TUReads == /\ pc[TU] = "read"
           /\ responses /= <<>>
           /\ answer' = Head(responses)
           /\ responses' = <<>>
           /\ GoTo(TU, "ended")
           /\ UNCHANGED <<state, mu, lastResponse, done, armed, requests, reliable>>

-----------------------------------------------------------------------------
(* Terminate, called by g without the lock *)

\* Mutant: no early return for a terminated transaction.
TerminateAgain(g) == /\ pc[g] = "terminate" /\ mu = None
                     /\ state' = "Terminated" /\ armed' = {} /\ GoTo(g, "close")
                     /\ UNCHANGED <<mu, lastResponse, responses, done, requests,
                                    answer, reliable>>

Terminate(g) == /\ pc[g] = "terminate" /\ mu = None
                /\ IF state = "Terminated"
                   THEN GoTo(g, After(g)) /\ UNCHANGED <<state, armed>>
                   ELSE state' = "Terminated" /\ armed' = {} /\ GoTo(g, "close")
                /\ UNCHANGED <<mu, lastResponse, responses, done, requests, answer,
                               reliable>>

CloseDone(g) == /\ pc[g] = "close"
                /\ done' = TRUE
                /\ GoTo(g, After(g))
                /\ UNCHANGED <<state, mu, lastResponse, responses, armed, requests,
                               answer, reliable>>

-----------------------------------------------------------------------------
RunStep == RunSends \/ RunStartsF \/ RunStartsE \/ RunEnds

Next == \/ RunStep \/ PushUnavailable \/ PushTimeout
        \/ \E t \in Timer : Fire(t)
        \/ ResendRequest
        \/ \E d \in Dispatchers, r \in Received : ReceiveResponse(d, r)
        \/ TUReads
        \/ \E g \in Goroutine : Terminate(g) \/ CloseDone(g)

\* As in InviteClientTx.
Fairness == /\ WF_vars(RunStep) /\ WF_vars(ResendRequest) /\ WF_vars(TUReads)
            /\ SF_vars(PushUnavailable) /\ SF_vars(PushTimeout)
            /\ \A t \in Timer : WF_vars(Fire(t))
            /\ \A g \in Goroutine : WF_vars(Terminate(g)) /\ WF_vars(CloseDone(g))

Safety == Init /\ [][Next]_vars
Spec == Safety /\ Fairness
=============================================================================

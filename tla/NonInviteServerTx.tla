-------------------------- MODULE NonInviteServerTx --------------------------
(***************************************************************************)
(* The non-INVITE server transaction of                                    *)
(* internal/sip/transaction_noninvite_server.go: the run goroutine, the    *)
(* goroutines that dispatch retransmitted requests, the callback of timer  *)
(* J, and transaction users that may respond as often as they like.        *)
(*                                                                         *)
(* Locking is modelled as in InviteServerTx; Receive takes the read lock,  *)
(* and a goroutine that calls Terminate while it holds the read lock waits *)
(* for itself just as well.                                                *)
(***************************************************************************)
EXTENDS Naturals, Sequences, FiniteSets

CONSTANTS TUs,          \* goroutines that call Respond
          Dispatchers,  \* goroutines that pass received requests to Receive
          Prov, Final,  \* 1xx and 2xx-6xx responses
          WriteMayFail, \* transport.Write may return an error
          None

Response == Prov \cup Final

Run == <<"run", None>>
TimerJ == <<"J", None>>
Dispatch(d) == <<"dispatch", d>>
Goroutine == {Run, TimerJ} \cup ({"dispatch"} \X Dispatchers)

ASSUME NonInviteServerTxAssumption ==
  /\ Prov \cap Final = {}
  /\ WriteMayFail \in BOOLEAN
  /\ None \notin Response \cup Goroutine

State == {"Trying", "Proceeding", "Completed", "Terminated"}

VARIABLES
  reliable,      \* isReliable(transport.GetProto())
  state,         \* tx.state
  mu,            \* the goroutine that holds tx.mu for ever, or None
  lastResponse,  \* tx.lastResponse
  responses,     \* the channel tx.responses, of capacity 1
  done,          \* tx.done is closed
  armed,         \* timer J runs
  pc,            \* where each goroutine of the transaction is
  taken,         \* the response run has received and not handled yet, or None
  offer,         \* the response a TU is blocked on in Respond, or None
  wire           \* the responses written to the transport

vars == <<reliable, state, mu, lastResponse, responses, done, armed, pc, taken, offer, wire>>

\* NewNonInviteServerTx
Init == /\ reliable \in BOOLEAN
        /\ state = "Trying"
        /\ mu = None
        /\ lastResponse = None
        /\ responses = <<>>
        /\ done = FALSE
        /\ armed = FALSE
        /\ pc = [g \in Goroutine |-> IF g = Run THEN "select" ELSE "idle"]
        /\ taken = None
        /\ offer = [u \in TUs |-> None]
        /\ wire = {}

-----------------------------------------------------------------------------
GoTo(g, l) == pc' = [pc EXCEPT ![g] = l]

\* Where a goroutine goes once its call of Terminate has returned.
After(g) == IF g = Run THEN "ended" ELSE "idle"

\* tx.send under the lock: the write succeeds, or g waits for itself in Terminate.
Written(res) == mu' = None /\ wire' = wire \cup {res}
WriteFails(g) == /\ WriteMayFail
                 /\ mu' = g
                 /\ GoTo(g, "wedged")
                 /\ UNCHANGED wire

-----------------------------------------------------------------------------
(* The transaction users *)

Respond(u, r) == /\ offer[u] = None
                 /\ offer' = [offer EXCEPT ![u] = r]
                 /\ UNCHANGED <<state, mu, lastResponse, responses, done, armed, pc,
                                taken, wire, reliable>>

RespondAccepted(u) == /\ offer[u] /= None
                      /\ responses = <<>>
                      /\ responses' = <<offer[u]>>
                      /\ offer' = [offer EXCEPT ![u] = None]
                      /\ UNCHANGED <<state, mu, lastResponse, done, armed, pc, taken,
                                     wire, reliable>>

RespondRefused(u) == /\ offer[u] /= None
                     /\ done
                     /\ offer' = [offer EXCEPT ![u] = None]
                     /\ UNCHANGED <<state, mu, lastResponse, responses, done, armed, pc,
                                    taken, wire, reliable>>

-----------------------------------------------------------------------------
(* The run goroutine *)

RunTakes == /\ pc[Run] = "select"
            /\ responses /= <<>>
            /\ taken' = Head(responses)
            /\ responses' = <<>>
            /\ GoTo(Run, "took")
            /\ UNCHANGED <<state, mu, lastResponse, done, armed, offer, wire, reliable>>

\* run sees Done() and returns, by its deferred Terminate.
RunSeesDone == /\ pc[Run] = "select" /\ done
               /\ GoTo(Run, "terminate")
               /\ UNCHANGED <<state, mu, lastResponse, responses, done, armed, taken,
                              offer, wire, reliable>>

\* A response that comes too late ends run; one that follows a final response is ignored.
RunDrops == /\ pc[Run] = "took" /\ mu = None
            /\ \/ state = "Terminated" /\ GoTo(Run, "terminate")
               \/ state = "Completed" /\ lastResponse \in Final /\ GoTo(Run, "select")
            /\ taken' = None
            /\ UNCHANGED <<state, mu, lastResponse, responses, done, armed, offer,
                           wire, reliable>>

\* Mutant: timer J for the wrong transports.
RunGoesOnSwapped == \/ /\ taken \in Prov
                       /\ state' = "Proceeding"
                       /\ GoTo(Run, "select")
                       /\ UNCHANGED armed
                    \/ /\ taken \in Final
                       /\ state' = "Completed"
                       /\ armed' = reliable
                       /\ GoTo(Run, "select")

\* Mutant: neither timer J nor Terminate on a reliable transport.
RunGoesOnIdle == /\ state' = IF taken \in Prov THEN "Proceeding" ELSE "Completed"
                 /\ armed' = (taken \in Final /\ ~reliable)
                 /\ GoTo(Run, "select")

\* A 1xx moves on to Proceeding; a final response to Completed, with timer J, or on a
\* reliable transport unlock and Terminate.
RunGoesOn == \/ /\ taken \in Prov
                /\ state' = "Proceeding"
                /\ GoTo(Run, "select")
                /\ UNCHANGED armed
             \/ /\ taken \in Final
                /\ state' = "Completed"
                /\ armed' = ~reliable
                /\ GoTo(Run, IF reliable THEN "terminate" ELSE "select")

\* Mutant: no look at the state after the response was taken.
RunSendsAlways == /\ pc[Run] = "took" /\ mu = None
                  /\ lastResponse' = taken
                  /\ taken' = None
                  /\ Written(taken) /\ RunGoesOn
                  /\ UNCHANGED <<responses, done, offer, reliable>>

RunSends == /\ pc[Run] = "took" /\ mu = None
            /\ state \in {"Trying", "Proceeding"}
            /\ lastResponse' = taken
            /\ taken' = None
            /\ \/ Written(taken) /\ RunGoesOn
               \/ WriteFails(Run) /\ UNCHANGED <<state, armed>>
            /\ UNCHANGED <<responses, done, offer, reliable>>

-----------------------------------------------------------------------------
\* Receive: a retransmitted request is answered with the last response.
Receive(d) == LET g == Dispatch(d) IN
  /\ pc[g] = "idle" /\ mu = None
  /\ state \in {"Proceeding", "Completed"}
  /\ lastResponse /= None
  /\ \/ Written(lastResponse) /\ UNCHANGED pc
     \/ WriteFails(g)
  /\ UNCHANGED <<state, lastResponse, responses, done, armed, taken, offer, reliable>>

\* Timer J expires: its callback calls Terminate.
FireJ == /\ armed
         /\ armed' = FALSE
         /\ GoTo(TimerJ, "terminate")
         /\ UNCHANGED <<state, mu, lastResponse, responses, done, taken, offer, wire,
                        reliable>>

-----------------------------------------------------------------------------
(* Terminate, called by g without the lock *)

Terminate(g) == /\ pc[g] = "terminate" /\ mu = None
                /\ IF state = "Terminated"
                   THEN GoTo(g, After(g)) /\ UNCHANGED <<state, armed>>
                   ELSE state' = "Terminated" /\ armed' = FALSE /\ GoTo(g, "close")
                /\ UNCHANGED <<mu, lastResponse, responses, done, taken, offer, wire,
                               reliable>>

CloseDone(g) == /\ pc[g] = "close"
                /\ done' = TRUE
                /\ GoTo(g, After(g))
                /\ UNCHANGED <<state, mu, lastResponse, responses, armed, taken, offer,
                               wire, reliable>>

-----------------------------------------------------------------------------
RunStep == RunTakes \/ RunSeesDone \/ RunDrops \/ RunSends

Next == \/ \E u \in TUs : \/ \E r \in Response : Respond(u, r)
                          \/ RespondAccepted(u)
                          \/ RespondRefused(u)
        \/ RunStep
        \/ \E d \in Dispatchers : Receive(d)
        \/ FireJ
        \/ \E g \in Goroutine : Terminate(g) \/ CloseDone(g)

\* As in InviteServerTx.
Fairness == /\ WF_vars(RunStep) /\ WF_vars(FireJ)
            /\ \A u \in TUs : SF_vars(RespondAccepted(u)) /\ WF_vars(RespondRefused(u))
            /\ \A g \in Goroutine : WF_vars(Terminate(g)) /\ WF_vars(CloseDone(g))

Safety == Init /\ [][Next]_vars
Spec == Safety /\ Fairness
=============================================================================

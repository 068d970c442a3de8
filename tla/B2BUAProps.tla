----------------------------- MODULE B2BUAProps -----------------------------
(***************************************************************************)
(* The properties of B2BUA.                                                *)
(***************************************************************************)
EXTENDS B2BUA

\* The types of the variables; those of the legs and of the two ends of the call first.
UacType == [state : {"none", "calling", "completed", "answered", "terminated"},
            inbox : {<<>>} \cup {<<r>> : r \in Response},
            last : Response \cup {NoResponse},
            timerB : {"off", "armed", "fired"}]
UasType == [state : {"proceeding", "completed", "terminated"},
            channel : {<<>>} \cup {<<r>> : r \in Response},
            last : Response \cup {NoResponse}]
CalleeType == [did : {"nothing", "invited", "answered", "rejected", "hungup", "refused"},
               cancelled : BOOLEAN, acked : BOOLEAN, bye : BOOLEAN]
CallerType == [finals : SUBSET Final, acked : BOOLEAN, bye : BOOLEAN]

TypeOK == /\ pc \in [Goroutine -> {"start", "publish", "mediate", "retry", "relay", "establish",
                                   "wait", "abandon", "exit", "ended", "idle", "cancel", "terminate",
                                   "respond", "cleanup", "close"}]
          /\ cur \in Tx \cup {NoTx} /\ virtualUACTx \in Tx \cup {NoTx}
          /\ res \in Response \cup {NoResponse}
          /\ bdone \in BOOLEAN /\ crashed \in BOOLEAN /\ established \in BOOLEAN
          /\ leg \in [Cancels -> Tx \cup {NoTx}] /\ misread \in BOOLEAN
          /\ dialogs \subseteq {UASDialogID, UACDialogID} /\ byTx \in BOOLEAN
          /\ uac \in [Tx -> UacType] /\ uas \in UasType
          /\ caller \in CallerType /\ callee \in [Tx -> CalleeType]

PickedUp(i) == callee[i].did \in {"answered", "hungup", "refused"}

\* The caller is told that the call is up only if the callee did pick up, through every
\* retry, lost response, timeout and cancellation; unless the 200 of a CANCEL comes before
\* the transaction that was cancelled has been terminated.
NeverConnectedToNobody == Answer \in caller.finals => misread \/ \E i \in Tx : PickedUp(i)

\* One INVITE at most is picked up: a retry after a 422 never leaves an earlier INVITE of
\* the same call behind that somebody could still answer.
OneLegIsPickedUp == Cardinality({i \in Tx : PickedUp(i)}) <= 1

\* The call is in a state of the program, in which one of its INVITEs at most is picked up.
Inv == TypeOK /\ OneLegIsPickedUp

\* When Run is over no phone is left ringing, unless by a timeout (timer B or mediate's
\* own): every INVITE got its final response from the callee or was cancelled, also one
\* that was sent while Cancel was looking at its predecessor, or before Run had
\* published it.
NoPhoneLeftRinging ==
  pc["Run"] \in {"exit", "ended"} /\ res /= Timeout =>
    \A i \in Tx : callee[i].did = "invited" => callee[i].cancelled \/ uac[i].timerB = "fired"

\* Without a CANCEL the caller gets one final response, whatever the timeouts and the
\* retries do: a late 200, a 408 of timer B and mediate's own 408 exclude each other.
OneFinalResponse == Cardinality(caller.finals) <= 1

\* Without a CANCEL, whoever finds the call in server.dialogs (a BYE, the web interface)
\* finds one that still runs: the entries are gone before b.done is closed and Run ends.
DialogsAreLive == dialogs /= {} => ~bdone /\ pc["Run"] = "wait"

\* The caller gets a final response, although the callee may be silent, a final
\* response of it may be lost on the full channel, and 1xx may come without end; unless
\* the call is hung up before its 200 was sent, which ends the process (DoneClosedOnce).
CallerGetsFinal == <>(caller.finals /= {} \/ crashed)

\* b.done is closed once: a second close would end the process and every call in it.
DoneClosedOnce == ~crashed

\* What the two ends see of a call, whatever the goroutines, the legs and the timers do,
\* is the call of BridgedCall: phones ring in turn and never once the caller has its final
\* response, only a caller that gave up is obeyed, and the caller hears one final response
\* besides a 487, a 200 last and not for nothing.
PhoneOf(i) == IF callee[i].did = "nothing" THEN "none"
              ELSE IF callee[i].did = "invited" THEN "ringing"
              ELSE IF callee[i].did = "rejected" THEN "refused"
              ELSE "pickedUp"
Bridge == INSTANCE BridgedCall WITH
  Phones <- Tx,
  phone <- [i \in Tx |-> PhoneOf(i)],
  calledOff <- {i \in Tx : callee[i].cancelled},
  heard <- caller.finals,
  gaveUp <- \E c \in Cancels : pc[c] /= "idle",
  mistaken <- misread
BridgesCall == Bridge!Safety
=============================================================================

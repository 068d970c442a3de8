--------------------------- MODULE DispatchProps ---------------------------
(***************************************************************************)
(* The properties of Dispatch.                                             *)
(***************************************************************************)
EXTENDS Dispatch

\* The types of the variables; whoever uses a call has found one.
TypeOK == /\ pc \in [Message -> {"idle", "dialog", "lookup", "add", "indialog", "cancel",
                                 "cancelling", "cleanup", "ended"}]
          /\ req \in [Message -> Requests \cup {None}]
          /\ got \in [Message -> Message \cup {None}]
          /\ \A h \in Message : pc[h] \in {"indialog", "cancelling", "cleanup"} =>
               got[h] \in Message /\ call[got[h]] /= "none"
          /\ tx \in [Message -> {"none", "new", "live", "completed", "over"}]
          /\ tu \in [Message -> {"none", "start", "ended"}]
          /\ watched \subseteq Message /\ legs \subseteq Message /\ cleaned \subseteq Message
          /\ transactions \in [Branch -> Message \cup {None}]
          /\ leg \in [Message -> {"none", "live", "answered", "terminated"}]
          /\ call \in [Message -> Running \cup {"none", "ended"}]
          /\ b2buaByTx \in [Branch -> Message \cup {None}]
          /\ dialogs \in [Dialog -> Message \cup {None}]
          /\ answered \subseteq Requests /\ rivals \subseteq Branch
          /\ crashed \in BOOLEAN

\* The To tag of a 200 is always the same, so that two INVITEs of one caller can have the
\* same dialog ID, whatever their branches are.
SharesDialog(h) ==
  \E g \in Message \ {h} : call[g] /= "none" /\ req[g].dialog = req[h].dialog

\* What has been started can be found by the messages that come for it, as long as its
\* keys are its own: a transaction in the map until it is over, so that no
\* retransmission makes a second one; a call under its branch until it is cleaned up, so
\* that a CANCEL stops it; an established call in server.dialogs, so that a BYE ends it.
Findable ==
  \A h \in Message : req[h] /= None =>
    /\ req[h].branch \notin rivals =>
         /\ tx[h] \in {"live", "completed"} => transactions[req[h].branch] = h
         /\ call[h] \in Running /\ h \notin cleaned => b2buaByTx[req[h].branch] = h
    /\ call[h] = "up" /\ h \notin cleaned /\ ~SharesDialog(h) => dialogs[req[h].dialog] = h

\* Nothing is about to happen but by a message that arrives.
AtRest == /\ \A h \in Message : /\ pc[h] \in {"idle", "ended"} /\ tu[h] /= "start"
                                /\ call[h] \notin Running \ {"up"}
                                /\ tx[h] /= "completed"
                                /\ ~(h \in watched /\ tx[h] = "over")
                                /\ ~(h \in legs /\ leg[h] = "terminated")
                                /\ ~(call[h] = "up" /\ h \in cleaned)
          /\ ~crashed

\* When the server is at rest its maps hold nothing but the calls that are up and what
\* is known to stay: transactions of requests in a dialog that nobody answers, client
\* transactions that a 2xx has ended, and calls that failed before they were up.  Neither
\* retransmissions nor CANCELs at any moment leave anything else behind.
NothingElseStays ==
  AtRest =>
    /\ \A b \in Branch : transactions[b] /= None =>
         LET r == req[transactions[b]] IN ~r.initial /\ r.method /= "BYE"
    /\ \A h \in legs : leg[h] = "answered"
    /\ \A b \in Branch : b2buaByTx[b] /= None => call[b2buaByTx[b]] \in {"up", "ended"}
    /\ \A d \in Dialog : dialogs[d] /= None => call[dialogs[d]] = "up"

\* Requests that the code answers; in a dialog it answers BYEs only.
Answerable(r) == r.method /= "ACK" /\ (r.initial \/ r.method = "BYE")

\* Every request that arrives has a final response in the end, also a retransmission
\* that overtakes its original and a CANCEL that finds nothing to cancel.
EveryRequestAnswered ==
  <>[](crashed \/ \A h \in Message : req[h] /= None /\ Answerable(req[h]) => req[h] \in answered)
=============================================================================

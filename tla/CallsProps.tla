----------------------------- MODULE CallsProps -----------------------------
(***************************************************************************)
(* What the dialogs, the web interface's view of them and the session      *)
(* timers promise.                                                         *)
(***************************************************************************)
EXTENDS Calls

SearchType == [pc : {"idle", "range", "callback", "done"},
               callID : Invites \cup {None}, todo : SUBSET Ids,
               entry : (Ids \X Calls) \cup {None},
               found : [Calls -> Nat]]

TypeOK == /\ invite \in [Calls -> Invites]
          /\ dialogs \in [Ids -> Calls \cup {None}]
          /\ run \in [Calls -> {"answered", "established", "waiting"}]
          /\ ending \subseteq Calls /\ early \subseteq done /\ done \subseteq Calls
          /\ crashed \in BOOLEAN
          /\ sessions \in [Ids -> Calls \cup {None}]
          /\ timer \in [Calls -> {"none", "running", "stopped", "fired", "over"}]
          /\ search \in [Searches -> SearchType]
          /\ \A s \in Searches : search[s].pc = "callback" => search[s].entry \in Ids \X Calls
          /\ seen \in [Searches -> [always : SUBSET Calls, once : SUBSET Calls]]

\* Whoever finds a call in server.dialogs, for a BYE or for the web interface, finds one
\* that has not been cleaned up, under an ID of its own; unless cleanup was there before
\* establishDialogs, for a CANCEL that crossed the callee's 200.
NoDeadEntry == \A i \in Ids : dialogs[i] /= None =>
                 /\ i \in Mine(dialogs[i])
                 /\ dialogs[i] \in done => dialogs[i] \in early

\* The variables have their types, and server.dialogs holds no dead entry.
Inv == TypeOK /\ NoDeadEntry

\* However calls come, end and take each other's ID while Range is under way: a call that
\* had its IDs all the time is listed, no call is listed twice, and none that was not there
\* at any time (GetActiveSessions); a disconnection finds the call whose Call-ID was asked
\* for if that had its IDs all the time, and no other call (DisconnectSession).
SearchIsFaithful ==
  \A s \in Searches : search[s].pc = "done" =>
    LET found == {c \in Calls : search[s].found[c] > 0}
        wanted == {c \in Calls : IsList(s) \/ invite[c] = search[s].callID}
    IN /\ found \subseteq wanted \cap seen[s].once
       /\ IsList(s) => /\ seen[s].always \subseteq found
                         /\ \A c \in Calls : search[s].found[c] <= 1
       /\ ~IsList(s) /\ found = {} => seen[s].always \cap wanted = {}

\* A session has a timer of its own that runs, or whose function is on its way: it does not
\* stay for ever, also if it took over the ID of another session whose timer had been
\* stopped, or had already fired and could not be (createOrUpdateSession).
SessionIsTimed == \A i \in Ids : sessions[i] /= None => timer[sessions[i]] \in {"running", "fired"}
=============================================================================

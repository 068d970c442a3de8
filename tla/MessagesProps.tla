---------------------------- MODULE MessagesProps ----------------------------
(***************************************************************************)
(* What the server reads is what the sender meant.                         *)
(***************************************************************************)
EXTENDS Messages

\* To of a later request of the caller in the dialog is the one of the 200; the callee's
\* To is not shown to it, but looked up by the ID (handleRequest, handleInvite).
NextRequestTo == resTo

\* Whatever commas are in the quoted parameters of a Via line, and whatever To mentions:
\* an INVITE with one Via line is known by the branch of the hop it comes from, is taken
\* for looped only if this server is among its Vias, and is rejected then; and the call it
\* makes can be found: its dialog has a tag, which the caller's next request comes with.
ReadAsMeant ==
  /\ Len(lines) = 1 =>
       /\ stage \in {"received", "answered"} =>
            /\ tx = lines[1][1].branch
            /\ \A i \in DOMAIN lines[1] : lines[1][i].host /= ListenHost
       /\ stage = "looped" => \E i \in DOMAIN lines[1] : lines[1][i].host = ListenHost
  /\ stage = "answered" => dialogID /= "" /\ GetTag(NextRequestTo) = dialogID
=============================================================================

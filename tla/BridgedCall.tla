----------------------------- MODULE BridgedCall -----------------------------
(***************************************************************************)
(* What B2BUA.Run and B2BUA.Cancel of internal/sip/b2bua.go promise to the *)
(* two ends of a call, with no goroutine, no transaction, no channel and   *)
(* no timer: the phones that are called for the caller, and the final      *)
(* responses that the caller hears.                                        *)
(*                                                                         *)
(* Phones ring one after the other, the next only when the one before has  *)
(* been refused.  The caller hears one final response, and a 200 only if a *)
(* phone was picked up.  A caller that gives up may hear a 487 besides, up *)
(* to a 200; and the 200 that confirms its CANCEL may pass for an answer.  *)
(***************************************************************************)
EXTENDS Naturals

CONSTANTS Phones,     \* INVITEs to the callee: 1 .. some number
          Final,      \* the final responses
          Answer,     \* the one that a phone was picked up
          Cancelled   \* the one that a CANCEL was obeyed

VARIABLES phone,      \* "none", "ringing", "pickedUp" or "refused"
          calledOff,  \* the phones that were sent a CANCEL
          heard,      \* the final responses that the caller got
          gaveUp,     \* the caller has sent a CANCEL
          mistaken    \* the 200 of a CANCEL was taken for an answer

vars == <<phone, calledOff, heard, gaveUp, mistaken>>

Init == /\ phone = [i \in Phones |-> "none"]
        /\ calledOff = {} /\ heard = {}
        /\ gaveUp = FALSE /\ mistaken = FALSE

\* Nobody is called once the caller has its final response.
Ring(i) == /\ phone[i] = "none"
           /\ \A j \in Phones \ {i} : phone[j] = IF j < i THEN "refused" ELSE "none"
           /\ heard \subseteq {Cancelled}
           /\ phone' = [phone EXCEPT ![i] = "ringing"]
           /\ UNCHANGED <<calledOff, heard, gaveUp, mistaken>>

\* The callee decides, also when it was called off.
Decides(i) == /\ phone[i] = "ringing"
              /\ \E d \in {"pickedUp", "refused"} : phone' = [phone EXCEPT ![i] = d]
              /\ UNCHANGED <<calledOff, heard, gaveUp, mistaken>>

GiveUp == /\ gaveUp' = TRUE
          /\ UNCHANGED <<phone, calledOff, heard, mistaken>>

\* A phone that was called, whatever it has decided meanwhile.
CallOff(i) == /\ gaveUp
              /\ phone[i] /= "none"
              /\ calledOff' = calledOff \cup {i}
              /\ UNCHANGED <<phone, heard, gaveUp, mistaken>>

Mistake(i) == /\ i \in calledOff
              /\ mistaken' = TRUE
              /\ UNCHANGED <<phone, calledOff, heard, gaveUp>>

Hear(r) == /\ Answer \notin heard
           /\ IF r = Cancelled THEN gaveUp ELSE heard \subseteq {Cancelled}
           /\ r = Answer => mistaken \/ \E i \in Phones : phone[i] = "pickedUp"
           /\ heard' = heard \cup {r}
           /\ UNCHANGED <<phone, calledOff, gaveUp, mistaken>>

Next == \/ \E i \in Phones : Ring(i) \/ Decides(i) \/ CallOff(i) \/ Mistake(i)
        \/ GiveUp
        \/ \E r \in Final : Hear(r)

Safety == Init /\ [][Next]_vars
=============================================================================

----------------------------- MODULE MCDispatch -----------------------------
(***************************************************************************)
(* A small instance of Dispatch: the messages of one call, a REGISTER and  *)
(* requests that are refused at once.  Every message may be any request,   *)
(* so that each is repeated and overtaken.                                 *)
(***************************************************************************)
EXTENDS DispatchProps

CONSTANTS b1, b2, b3, b4, b5, b6, b7, d1

R(method, branch, dialog, initial, looped) ==
  [method |-> method, branch |-> branch, dialog |-> dialog, initial |-> initial,
   looped |-> looped]

MCRequests == {R("INVITE", b1, d1, TRUE, FALSE), R("CANCEL", b1, None, TRUE, FALSE),
               R("ACK", b2, d1, FALSE, FALSE), R("BYE", b3, d1, FALSE, FALSE),
               R("ACK", b1, d1, FALSE, FALSE),
               R("INVITE", b4, d1, FALSE, FALSE), R("REGISTER", b5, None, TRUE, FALSE),
               R("OTHER", b6, None, TRUE, FALSE), R("REGISTER", b7, None, TRUE, TRUE)}
=============================================================================

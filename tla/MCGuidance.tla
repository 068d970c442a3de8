----------------------------- MODULE MCGuidance -----------------------------
(***************************************************************************)
(* A small instance of Guidance: two submissions at a time, forms with a   *)
(* user named twice, with an empty row and with none, and one call.        *)
(***************************************************************************)
EXTENDS GuidanceProps

CONSTANTS announcement, other, f1, f2

Row(u, f) == [uri |-> u, file |-> f]
MCForms == {<<>>, <<Row(other, f1), Row(other, f2), Row(announcement, Blank)>>}
=============================================================================

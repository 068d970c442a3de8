----------------------------- MODULE MCRegistrar -----------------------------
(***************************************************************************)
(* A small instance of Registrar: one user, two contacts, two REGISTERs at *)
(* a time and two look-ups.                                                *)
(***************************************************************************)
EXTENDS RegistrarProps, TLC

CONSTANTS u1, c1, c2, p1, p2, l1, l2, n1, n2, n3

MCContactLists == {<<c1>>, <<c2, c1>>, <<Star>>}
Symmetry == Permutations({p1, p2}) \cup Permutations({l1, l2}) \cup Permutations({n1, n2, n3})
=============================================================================

------------------------ MODULE MCProtectedDatabase ------------------------
(* Small instances of ProtectedDatabase. *)
EXTENDS ProtectedDatabase

OneDatabase == {1}
ThreeWorkRequests == 1 .. 3

S(p, c, o) == [pw |-> p, comp |-> c, other |-> o]

\* Generation 2 has another password only, or a move and other changes.
OneEdit ==
    {<<S("p1", "c1", "o1"), S("p2", "c1", "o1")>>,
     <<S("p1", "c1", "o1"), S("p1", "c2", "o2")>>}

\* Generation 2 has another password and another compartment.
PasswordAndMove == {<<S("p1", "c1", "o1"), S("p2", "c2", "o1")>>}
=============================================================================

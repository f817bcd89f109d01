------------------------ MODULE MCWebAppAcceleration ------------------------
(* Small instances of WebAppAcceleration. *)
EXTENDS WebAppAcceleration

TwoResources == {1, 2}
TwoWorkRequests == 1 .. 2

\* Every operation has a work request, as long as there are some; or a move may
\* have none.
AllTracked == {}
UntrackedMoves == {"move"}

\* One generation only.
NoEdit == {<<[comp |-> "c1", body |-> "b1", lb |-> "l1"]>>}

\* Generation 2 moves the resource and updates it, or asks for what cannot be
\* changed after the create.
MoveUpdateOrDrift ==
    LET s(c, b, l) == [comp |-> c, body |-> b, lb |-> l]
    IN  {<<s("c1", "b1", "l1"), s("c2", "b2", "l1")>>,
         <<s("c1", "b1", "l1"), s("c1", "b1", "l2")>>}
=============================================================================

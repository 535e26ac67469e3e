------------------------- MODULE MCShmAllreduceWeak -------------------------
(***************************************************************************)
(* Two dies of one rank each.                                               *)
(***************************************************************************)
EXTENDS ShmAllreduceWeak

MCWorlds == {<<<<1, 2>>, 1>>}
=============================================================================

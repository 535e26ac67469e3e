--------------------------- MODULE MCShmAllreduce ---------------------------
(***************************************************************************)
(* Four ranks in one, two and four dies.                                    *)
(***************************************************************************)
EXTENDS ShmAllreduce

MCWorlds == {<<<<1, 1>>, 4>>, <<<<1, 2>>, 2>>, <<<<2, 2>>, 1>>}
=============================================================================

----------------------------- MODULE MCProjects -----------------------------
(* Three requests for the names "p" and "p 2", whose slugs overlap. *)
EXTENDS Projects

MCNames == {<<>>, <<2>>}
=============================================================================

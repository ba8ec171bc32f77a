---------------------------- MODULE MCAuthorCall ----------------------------
(* Two starts of the controller on one diagnostic root, a crash anywhere in the
   first; and one bare call of spawnWithInput.                                  *)
EXTENDS AuthorCall

=============================================================================

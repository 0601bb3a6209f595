---------------------------- MODULE MCApplicationInit ----------------------------
(*****************************************************************************)
(* Two calls of run(): they overlap, or the second is a retry of one that    *)
(* has failed or a call that must be refused.  Two scanners and two OnConfig *)
(* callbacks, so that one may settle after another has failed the run.       *)
(*****************************************************************************)
EXTENDS ApplicationInit
===============================================================================

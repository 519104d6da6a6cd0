----------------------------- MODULE MCAppThreads -----------------------------
(***************************************************************************)
(* Two Python apps and the north IO app, with batches of up to two         *)
(* messages and one mbuf, so that it runs out.                             *)
(***************************************************************************)
EXTENDS AppThreads

CONSTANTS t1, t2
MCThreads == {t1, t2}
=============================================================================

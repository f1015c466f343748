----------------------------- MODULE MCCatalog -----------------------------
(* Catalog: the loop and one thread.                                       *)
EXTENDS Catalog

CONSTANT Thread

MCCallers == {Loop, Thread}
=============================================================================

------------------------ MODULE MCCatalogProjection ------------------------
(* CatalogProjection with two threads, two menus and one dish. *)
EXTENDS CatalogProjection, TLC

CONSTANTS t1, t2, m1, m2, e1, n1, empty

TwoThreads == {t1, t2}
TwoMenus == {m1, m2}
OneDish == {e1}
TwoNames == {n1, empty}
=============================================================================

---------------------------- MODULE MCAdminPages ----------------------------
(* AdminPages with the bounds of pages.cfg.                                *)
EXTENDS AdminPages
=============================================================================

---------------------------- MODULE MCTestClient ----------------------------
(***************************************************************************)
(* Small instances of TestClient: all scripts.                             *)
(***************************************************************************)
EXTENDS TestClient

AllScripts == DOMAIN Programs

=============================================================================

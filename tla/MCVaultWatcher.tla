---------------------------- MODULE MCVaultWatcher ----------------------------
(* Instances of VaultWatcher for TLC: two inbox names, two documents.      *)
EXTENDS VaultWatcher
CONSTANTS p1, p2, d1, d2

MCPaths == {p1, p2}
MCContents == {d1, d2}
OneContent == {d1}
=============================================================================

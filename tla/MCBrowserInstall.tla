-------------------------- MODULE MCBrowserInstall --------------------------
(* Two launchers that start on one cache at the same time.                 *)
EXTENDS BrowserInstall

CONSTANTS p1, p2

MCPair == {p1, p2}
=============================================================================

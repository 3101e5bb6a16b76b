----------------------------- MODULE MCSubprocess -----------------------------
(* One child of each kind of owner, over pipes that hold one piece.          *)
EXTENDS Subprocess

MCKinds == {"encoder", "mixer", "bundler", "probe", "browser"}
=============================================================================

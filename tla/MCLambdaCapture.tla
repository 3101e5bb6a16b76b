--------------------------- MODULE MCLambdaCapture ---------------------------
(***************************************************************************)
(* Two invocations of one identity.  Captures come out in two ways, as     *)
(* they do where rendering is not deterministic.                           *)
(***************************************************************************)
EXTENDS LambdaCapture
=============================================================================

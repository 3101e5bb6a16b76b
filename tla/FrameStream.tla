----------------------------- MODULE FrameStream -----------------------------
(***************************************************************************)
(* What a capture promises its sink: the frames of the film, each with the *)
(* picture the film shows at it, in order and without a gap, and either    *)
(* all of them or a failure.  How pictures come about is left open.        *)
(***************************************************************************)
EXTENDS Naturals, Sequences

VARIABLES
    film,     \* the sequence of frames, with their pictures
    stream,   \* the frames delivered
    status

streamVars == <<film, stream, status>>

Init == stream = <<>> /\ status = "running"

Deliver ==
    /\ status = "running"
    /\ Len(stream) < Len(film)
    /\ stream' = Append(stream, film[Len(stream) + 1])
    /\ UNCHANGED <<film, status>>

Complete ==
    /\ status = "running"
    /\ stream = film
    /\ status' = "done"
    /\ UNCHANGED <<film, stream>>

Break ==
    /\ status = "running"
    /\ status' = "failed"
    /\ UNCHANGED <<film, stream>>

Next == Deliver \/ Complete \/ Break

(* What may happen; and that it comes to an end. *)
Delivery == Init /\ [][Next]_streamVars

Spec == Delivery /\ WF_streamVars(Next)
=============================================================================

-------------------------- MODULE MCSessionBuffer --------------------------
(* A ring of two messages, so that the third one already pushes one out.     *)
EXTENDS SessionBuffer
=============================================================================

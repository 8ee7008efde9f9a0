--------------------------- MODULE MCChatRequest ---------------------------
(* A small instance of ChatRequest: one key, an original request and a      *)
(* duplicate of it with the same body.                                      *)
EXTENDS ChatRequest

CONSTANT k1

MCKeyOf == [r \in Requests |-> k1]
MCFingerprintOf == [r \in Requests |-> "same"]
=============================================================================

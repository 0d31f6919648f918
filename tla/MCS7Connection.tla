--------------------------- MODULE MCS7Connection ----------------------------
(* Clients for S7Connection. *)
EXTENDS S7Connection

AnyPacket == Kinds
=============================================================================

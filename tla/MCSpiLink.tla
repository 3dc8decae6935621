----------------------------- MODULE MCSpiLink ------------------------------
(* The link with two ways callers give sequence numbers, for TLC. *)
EXTENDS SpiLink

OwnNumber(id) == id         (* every packet its own number *)
DefaultNumber(id) == 0      (* the default argument of FpgaClient::control_packet *)
=============================================================================

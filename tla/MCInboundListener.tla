------------------------- MODULE MCInboundListener -------------------------
(* Three connections and two callers of Close: enough for a connection in    *)
(* hand while another handler is the last to finish.                         *)
EXTENDS InboundListener

CONSTANTS x1, x2, x3, k1, k2
=============================================================================

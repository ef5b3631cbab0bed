------------------------- MODULE MCJobDelivery -------------------------
(* Bounds for model checking JobDelivery; the configurations give them.    *)
EXTENDS JobDelivery
================

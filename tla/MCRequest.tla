----------------------------- MODULE MCRequest -----------------------------
(* Instances of Request for TLC. *)
EXTENDS Request

(* A plain status, one below hyper's range, one that wraps around u16 into
   the range (65736 = 65536 + 200) and a negative one. *)
MCStatuses == {404, 70, 65736, -1}
=============================================================================

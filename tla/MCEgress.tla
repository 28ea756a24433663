------------------------------ MODULE MCEgress ------------------------------
(***************************************************************************)
(* Small instances of Egress: four ports, frames of one to three words,    *)
(* buffers of exactly one frame or of two short ones; one busy source      *)
(* against the others, whichever port it has.                              *)
(***************************************************************************)
EXTENDS Egress

Busy == <<2, 2, 2, 2, 2>>
MCScripts == {<<Busy, <<3>>, <<1, 2>>, <<>>>>,
              <<<<>>, <<3>>, <<1, 2>>, Busy>>,
              <<<<2>>, <<3, 3>>, <<2>>, <<2>>>>}
MCOutDepth == [s \in 1 .. 4 |-> IF s = 3 THEN 2 ELSE 4]
=============================================================================

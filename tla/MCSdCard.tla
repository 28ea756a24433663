------------------------------ MODULE MCSdCard ------------------------------
(***************************************************************************)
(* A small instance of SdCard: DES blocks of 2 bytes, AES blocks of 4, one *)
(* DMA transfer of 4 bytes, a file of two transfers.  The network delivers *)
(* less than, exactly and more than a block, so that a session can find    *)
(* the path drained or with a whole or a partial block in it.              *)
(*                                                                         *)
(* With an enc_data_buf of one, five network bytes are the least that can  *)
(* leave a session more than the path has room for: one handed over, one   *)
(* in enc_data_buf, two in the DES core, which is no longer selected, and  *)
(* one in the AES core.  One move of the switches can select the AES core  *)
(* and start the session.                                                  *)
(***************************************************************************)
EXTENDS SdCard

MCBlockOf == [c \in Cores |-> IF c = "DES" THEN 2 ELSE 4]

\* Bound: a second move of the switches, and so a second session, with at most
\* two network bytes; up to NetBytes of them with one.
MCBound == flips <= 1 \/ arrived <= 2

\* The two positions of the SD switch are only compared with each other: one of
\* them is enough to begin with.
MCSpec == Init /\ dip.sd = 0 /\ [][Next /\ MCBound']_vars /\ Fairness
=============================================================================

---------------------------- MODULE MCLinkSearch ----------------------------
(***************************************************************************)
(* Every ledger of up to three transfers within a small horizon, in every  *)
(* order and with every overlap, and every search on it.                   *)
(***************************************************************************)
EXTENDS LinkSearch

CONSTANT Horizon

MCSlots == {s \in [start : 0 .. Horizon, fin : 0 .. Horizon] : s.start < s.fin}

MCLedgers == UNION {[1 .. n -> MCSlots] : n \in 0 .. 3}
MCBases == 0 .. Horizon
MCDurations == 1 .. 3
=============================================================================

---------------------------- MODULE MCCandleWalk ----------------------------
(* Small instances of CandleWalk for TLC. *)
EXTENDS CandleWalk

Sheet(from, to, res, spot, force) ==
  [from |-> from, to |-> to, res |-> res, spot |-> spot, force |-> force]

\* A full sheet, and a forced one cut on both sides with the spot series along.
MCSheets == {Sheet(NoDay, NoDay, Resolutions, FALSE, FALSE),
             Sheet(2, 4, Resolutions, TRUE, TRUE)}
=============================================================================

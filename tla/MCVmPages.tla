----------------------------- MODULE MCVmPages -----------------------------
(***************************************************************************)
(* VmPages with twelve 4 KiB pages, nine of them identity-mapped into the  *)
(* host, one guest id (g2 is declared for configurations that nest), root  *)
(* alignment of four pages (sv48x4's 16 KiB), interior nodes covering four *)
(* GPAs, and a PTE pool of one page so that its limit is reached. Bulk     *)
(* calls move one aligned block of four pages; two calls may be in flight. *)
(***************************************************************************)
EXTENDS VmPages

CONSTANTS g1, g2

MCGuestIds == {g1}
MCPages == 0..11
MCNumGpas == 12
MCHostMapped == 0..8
MCTopLevelAlign == 4
MCLeafSpan == 4
MCMaxOwners == 4
MCPoolCap == 1
MCCounts == {4}
MCDstGpas == {0}
MCHarts == 2
=============================================================================

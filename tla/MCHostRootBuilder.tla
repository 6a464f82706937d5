------------------------- MODULE MCHostRootBuilder --------------------------
(***************************************************************************)
(* Boot with fourteen pages of hypervisor memory: four root pages, two PTE *)
(* pages (one per four-GPA node of an eight-page host address space) and   *)
(* eight host pages, which the boot code passes in runs of two or four.    *)
(* Owner stacks hold two ids: hypervisor and host.                         *)
(***************************************************************************)
EXTENDS HostRootBuilder

MCGuestIds == {}
MCPages == 0..13
MCNumGpas == 8
MCTopLevelAlign == 4
MCLeafSpan == 4
MCMaxOwners == 2
MCCounts == {2, 4}
=============================================================================

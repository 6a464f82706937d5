--------------------------- MODULE MCVmPagesNested ---------------------------
(***************************************************************************)
(* VmPages with two guest ids, so that a guest can build a guest of its    *)
(* own. Sixteen identity-mapped host pages are enough for the host to      *)
(* carve the first guest (six pages), give it a PTE page and six data      *)
(* pages, and for that guest to carve the second from its own table. One   *)
(* interior node covers eight GPAs, so a guest's six pages need one PTE    *)
(* page; calls move one page or an aligned block of four.                  *)
(***************************************************************************)
EXTENDS VmPages

CONSTANTS g1, g2

NestGuestIds == {g1, g2}
NestPages == 0..15
NestNumGpas == 16
NestHostMapped == 0..15
NestTopLevelAlign == 4
NestLeafSpan == 8
NestMaxOwners == 4
NestPoolCap == 1
NestCounts == {4}
NestDstGpas == {0, 4}
NestHarts == 1

\* The run on this configuration looks for one long sequence of calls, so
\* the search is kept to the calls that can lie on it, as a schedule of
\* the host's boot code would be: no panic or dropped VM, zero pages only,
\* the first guest carved at GPA 0, PTE pages from the block at 12, data
\* pages from the blocks at 4 and 8, reclaims of the block at 8, and no
\* bulk call of the guests themselves. Every state it keeps is a state of
\* VmPages, so a violation found under it is a behaviour of VmPages.
\* (The host may still pass either builder to its bulk calls.)
NestScenario ==
  /\ ~panicked
  /\ \A v \in Vms : status[v] # "dropped" /\ measurement[v] = <<>>
  /\ root[g1] \in {{}, 0..3}
  /\ op[Host].kind = "pte" => op[Host].end = 16
  /\ op[Host].kind = "data" => op[Host].end \in {8, 12}
  /\ op[Host].kind = "remove" => op[Host].end = 12
  /\ \A g \in NestGuestIds : op[g].kind = "idle"

\* The host's bulk calls are passed the builder of its own child only.
HostFeedsOwnChild == op[Host].child \in {NoVm, g1}
=============================================================================

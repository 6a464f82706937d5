----------------------------- MODULE PageTable -----------------------------
(***************************************************************************)
(* PlatformPageTable: the second-stage (G-stage) table of every VM, keyed  *)
(* by its owner id. Its code is not part of this repository's source; the  *)
(* operations VmPages calls are modelled from the spec (section 4.3).      *)
(*                                                                         *)
(* A leaf entry is absent, valid (the page is accessible to the VM) or     *)
(* invalid (invalidate_range kept the page in the table but revoked        *)
(* access). The radix walk is abstracted to one level of interior nodes:   *)
(* each node covers LeafSpan consecutive GPAs and is built from a page the *)
(* caller's pte_supplier hands out when the walk finds it missing. The     *)
(* root pages are the four SequentialPages T::new receives.                *)
(***************************************************************************)
EXTENDS PhysPages, FiniteSetsExt

CONSTANTS
  NumGpas,        \* guest-physical page numbers are 0..NumGpas-1
  TopLevelAlign,  \* T::TOP_LEVEL_ALIGN in pages (16 KiB = 4 pages)
  LeafSpan,       \* GPAs covered by one interior node
  NoPage          \* model value: no page

ASSUME NumGpas % TopLevelAlign = 0 /\ NumGpas % LeafSpan = 0

Vms == {Host} \cup GuestIds
Gpas == 0..(NumGpas - 1)
Leaves == 0..(NumGpas \div LeafSpan - 1)
Leaf(gpa) == gpa \div LeafSpan

NoEntry == [page |-> NoPage, valid |-> FALSE]
Entries == {NoEntry} \cup [page : Pages, valid : BOOLEAN]

VARIABLES
  pte,   \* pte[v][gpa]: the leaf entry for gpa in v's table
  node   \* node[v][l]: the page holding interior node l of v's table

tableVars == <<pte, node>>

TableTypeOK ==
  /\ pte \in [Vms -> [Gpas -> Entries]]
  /\ node \in [Vms -> [Leaves -> Pages \cup {NoPage}]]

IsValid(v, gpa) == pte[v][gpa].valid
IsPresent(v, gpa) == pte[v][gpa].page # NoPage

\* invalidate_range / unmap_range return None unless gpa_base is
\* TOP_LEVEL_ALIGN-aligned and the range stays inside the address space.
RangeOk(from, count) ==
  /\ from % TopLevelAlign = 0
  /\ from + count <= NumGpas

\* The iterators walk the range in ascending GPA order and skip holes:
\* invalidate_range yields the valid entries, unmap_range every entry that
\* holds a page. Each returns the next GPA at or after lo, or hi if none.
FirstIn(S, hi) == IF S = {} THEN hi ELSE Min(S)
NextValid(v, lo, hi) == FirstIn({k \in lo..(hi - 1) : IsValid(v, k)}, hi)
NextPresent(v, lo, hi) == FirstIn({k \in lo..(hi - 1) : IsPresent(v, k)}, hi)

\* The invalidate_range iterator's next() on each GPA of S: the entries
\* stay but are no longer valid.
Invalidated(v, S) ==
  [pte EXCEPT ![v] = [k \in Gpas |->
     IF k \in S THEN [pte[v][k] EXCEPT !.valid = FALSE] ELSE pte[v][k]]]
InvalidateEntries(v, S) == pte' = Invalidated(v, S)

\* The unmap_range iterator's next(): the entry is cleared.
UnmapEntry(v, gpa) == pte' = [pte EXCEPT ![v][gpa] = NoEntry]

\* map_page_4k(gpa, page, pte_supplier): fails with AlreadyMapped when the
\* leaf entry holds a page, asks the supplier once when the interior node is
\* missing and fails with NoPte when the supplier has none. `tables` is pte
\* as the caller's own invalidation in the same step left it.
MapNeedsPte(v, gpa) == node[v][Leaf(gpa)] = NoPage

MapPage4k(tables, v, gpa, p, ptePage) ==
  /\ pte' = [tables EXCEPT ![v][gpa] = [page |-> p, valid |-> TRUE]]
  /\ node' = IF MapNeedsPte(v, gpa)
               THEN [node EXCEPT ![v][Leaf(gpa)] = ptePage]
               ELSE node

\* T::new(root_pages, owner, phys_pages) fails (BadRoot) unless it gets the
\* platform's four root pages, consecutive and TOP_LEVEL_ALIGN-aligned.
RootCount == 4
IsRoot(ps) ==
  /\ Len(ps) = RootCount
  /\ ps[1] % TopLevelAlign = 0
  /\ \A i \in 1..(RootCount - 1) : ps[i + 1] = ps[i] + 1

\* A table with no entries and no interior nodes.
EmptyTable == [k \in Gpas |-> NoEntry]
NoNodes == [l \in Leaves |-> NoPage]
=============================================================================

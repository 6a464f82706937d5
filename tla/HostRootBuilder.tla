--------------------------- MODULE HostRootBuilder --------------------------
(***************************************************************************)
(* HostRootBuilder (src/src/vm_pages.rs): boot-time construction of the    *)
(* host's G-stage table. from_hyp_mem takes the root and PTE pages from    *)
(* the hypervisor allocator and turns the rest of memory into host pages;  *)
(* the boot code then passes runs of those pages to add_4k_data_pages      *)
(* (measured) and add_4k_pages (not measured) in any order, and finally    *)
(* create_host freezes the builder into HostRootPages.                     *)
(*                                                                         *)
(* Boot runs on one hart, so there is no interleaving; each call is still  *)
(* stepped one page per loop iteration, because its unwrap()s and          *)
(* assert_eq! can stop it half-way. The table is PageTable's, with the     *)
(* host as its only VM.                                                    *)
(***************************************************************************)
EXTENDS PageTable

CONSTANTS
  Counts      \* how many pages a boot call passes

ASSUME Counts \subseteq Nat \ {0}

\* HypPageAlloc hands out memory in ascending page order.
Frames == 0..(Cardinality(Pages) - 1)
ASSUME Pages = Frames

\* T::max_pte_pages(host_gpa_size / 4 KiB) for the one-level table: a node
\* per LeafSpan GPAs.
MaxPtePages == Cardinality(Leaves)

VARIABLES
  phase,        \* "boot", "building", "built" (HostRootPages) or "panic"
  rootPages,    \* the four pages T::new received
  ptePages,     \* the builder's PageRange of PTE pages, in the order next() yields
  hostPages,    \* the PageVec of host pages from_hyp_mem returned, not yet passed in
  call,         \* the add_4k_* call in flight: its pages, position and to_addr
  measurement,  \* the builder's D: the (gpa, page) pairs folded in, in order
  dataAdded     \* every (gpa, page) any add_4k_data_pages call measured, in order

hostVars == <<phase, rootPages, ptePages, hostPages, call, measurement, dataAdded>>
vars == <<physVars, tableVars, hostVars>>

NoCall == [kind |-> "idle", pages |-> <<>>, i |-> 1, to |-> 0]

TypeOK ==
  /\ PhysTypeOK
  /\ TableTypeOK
  /\ phase \in {"boot", "building", "built", "panic"}
  /\ rootPages \subseteq Frames
  /\ ptePages \in Seq(Frames)
  /\ hostPages \subseteq Frames
  /\ call \in [kind : {"idle", "data", "zero"}, pages : Seq(Frames),
               i : 1..(Cardinality(Frames) + 1), to : Gpas]
  /\ measurement \in Seq(Gpas \X Frames)
  /\ dataAdded \in Seq(Gpas \X Frames)

Init ==
  /\ owners = [p \in Pages |-> <<Hyp>>]
  /\ active = {}
  /\ allocated = {}
  /\ pte = [v \in Vms |-> EmptyTable]
  /\ node = [v \in Vms |-> NoNodes]
  /\ phase = "boot"
  /\ rootPages = {}
  /\ ptePages = <<>>
  /\ hostPages = {}
  /\ call = NoCall
  /\ measurement = <<>>
  /\ dataAdded = <<>>

\* Fault variant: the host range runs one page past the end of memory.
FromHypMemPastEnd ==
  /\ phase = "boot"
  /\ phase' = "building"
  /\ rootPages' = 0..(RootCount - 1)
  /\ ptePages' = [i \in 1..MaxPtePages |-> RootCount + i - 1]
  /\ hostPages' = (RootCount + MaxPtePages)..Cardinality(Frames)
  /\ UNCHANGED <<physVars, tableVars, call, measurement, dataAdded>>

\* from_hyp_mem: four TOP_LEVEL_ALIGN-aligned pages for the root (the first
\* ones, memory being handed out in order), then max_pte_pages PTE pages;
\* PageState::from turns the rest into the host's pages, all owned by the
\* hypervisor. T::new(root, host) and a default measurement.
FromHypMem ==
  /\ phase = "boot"
  /\ phase' = "building"
  /\ rootPages' = 0..(RootCount - 1)
  /\ ptePages' = [i \in 1..MaxPtePages |-> RootCount + i - 1]
  /\ hostPages' = (RootCount + MaxPtePages)..(Cardinality(Frames) - 1)
  /\ UNCHANGED <<physVars, tableVars, call, measurement, dataAdded>>

\* The boot code passes `count` consecutive host pages starting at `first`
\* and a to_addr; the loop zips them with to_addr, to_addr + 1, ...
Runs == {<<first, n>> \in Frames \X Counts :
           (first..(first + n - 1)) \subseteq hostPages}
RunPages(r) == [i \in 1..r[2] |-> r[1] + i - 1]

StartCall(kind, r, to) ==
  /\ phase = "building"
  /\ call.kind = "idle"
  /\ to + r[2] <= NumGpas
  /\ call' = [kind |-> kind, pages |-> RunPages(r), i |-> 1, to |-> to]
  /\ hostPages' = hostPages \ ToSet(RunPages(r))

\* add_4k_data_pages(to_addr, pages): `let mut measurement = D::default()`
\* before the loop, so whatever the builder had measured is dropped.
Add4kDataPages(r, to) ==
  /\ StartCall("data", r, to)
  /\ measurement' = <<>>
  /\ UNCHANGED <<physVars, tableVars, phase, rootPages, ptePages, dataAdded>>

\* add_4k_pages(to_addr, pages): the builder's measurement is carried over.
Add4kPages(r, to) ==
  /\ StartCall("zero", r, to)
  /\ UNCHANGED <<physVars, tableVars, phase, rootPages, ptePages,
                 measurement, dataAdded>>

\* The page and GPA of the current loop iteration.
CurPage == call.pages[call.i]
CurGpa == call.to + call.i - 1

\* assert_eq!(vm_addr & (ALIGN - 1), page.addr() & (ALIGN - 1)).
Aligned(gpa, p) == gpa % TopLevelAlign = p % TopLevelAlign

\* map_page_4k(vm_addr, page, || pte_pages.next()) returns Ok.
HostCanMap(gpa) ==
  /\ ~IsPresent(Host, gpa)
  /\ MapNeedsPte(Host, gpa) => ptePages # <<>>

\* add_page (data pages only) comes first in the body.
MeasureCur ==
  IF call.kind = "data"
    THEN /\ measurement' = Append(measurement, <<CurGpa, CurPage>>)
         /\ dataAdded' = Append(dataAdded, <<CurGpa, CurPage>>)
    ELSE UNCHANGED <<measurement, dataAdded>>

\* Fault variant: the owner is not recorded.
HostSetOwnerSkipped(p) == UNCHANGED owners

\* root.phys_pages().set_page_owner(page, host).unwrap().
HostSetOwner(p) == SetPageOwner(p, Host)

\* One loop iteration that runs to the end: measure, assert, set the owner,
\* map (taking the next PTE page when the walk needs a node).
HostMapNext ==
  /\ phase = "building"
  /\ call.kind # "idle"
  /\ call.i <= Len(call.pages)
  /\ Aligned(CurGpa, CurPage)
  /\ CanSetPageOwner(CurPage)
  /\ HostCanMap(CurGpa)
  /\ MeasureCur
  /\ HostSetOwner(CurPage)
  /\ MapPage4k(pte, Host, CurGpa, CurPage,
               IF MapNeedsPte(Host, CurGpa) THEN Head(ptePages) ELSE NoPage)
  /\ ptePages' = IF MapNeedsPte(Host, CurGpa) THEN Tail(ptePages) ELSE ptePages
  /\ call' = [call EXCEPT !.i = @ + 1]
  /\ UNCHANGED <<active, allocated, phase, rootPages, hostPages>>

\* The assert_eq! or an unwrap() (set_page_owner, map_page_4k: AlreadyMapped
\* or out of PTE pages) fails: the hypervisor panics during boot.
HostMapPanics ==
  /\ phase = "building"
  /\ call.kind # "idle"
  /\ call.i <= Len(call.pages)
  /\ ~Aligned(CurGpa, CurPage) \/ ~CanSetPageOwner(CurPage) \/ ~HostCanMap(CurGpa)
  /\ phase' = "panic"
  /\ UNCHANGED <<physVars, tableVars, rootPages, ptePages, hostPages, call,
                 measurement, dataAdded>>

\* The pages iterator is exhausted: the call returns the new builder.
HostCallDone ==
  /\ phase = "building"
  /\ call.kind # "idle"
  /\ call.i > Len(call.pages)
  /\ call' = NoCall
  /\ UNCHANGED <<physVars, tableVars, phase, rootPages, ptePages, hostPages,
                 measurement, dataAdded>>

\* create_host(): HostRootPages { VmPages { root, measurement } }. The
\* builder's remaining PTE pages are dropped with it.
CreateHost ==
  /\ phase = "building"
  /\ call.kind = "idle"
  /\ phase' = "built"
  /\ UNCHANGED <<physVars, tableVars, rootPages, ptePages, hostPages, call,
                 measurement, dataAdded>>

Next ==
  \/ FromHypMem
  \/ \E r \in Runs, to \in Gpas : Add4kDataPages(r, to) \/ Add4kPages(r, to)
  \/ HostMapNext \/ HostMapPanics \/ HostCallDone
  \/ CreateHost

Spec == Init /\ [][Next]_vars
-----------------------------------------------------------------------------
(* Properties                                                              *)

\* What VmPages takes for granted of the host it starts from: every page
\* the host can reach through its table has the owner stack hypervisor ->
\* host, is mapped at one GPA only, and is none of the pages that hold the
\* table itself (root and PTE pages) nor still among the unused host pages.
HostOwnsMapped ==
  \A g \in Gpas : IsValid(Host, g) =>
    LET p == pte[Host][g].page IN
    /\ owners[p] = <<Hyp, Host>>
    /\ \A g2 \in Gpas \ {g} : pte[Host][g2].page # p
    /\ p \notin rootPages \cup ToSet(ptePages) \cup hostPages
    /\ \A l \in Leaves : node[Host][l] # p

\* The host's measurement attests every page add_4k_data_pages measured:
\* once HostRootPages exists, its measurement is the fold over all of them,
\* in order (spec 8, invariant 4).
HostMeasurementCoversImage ==
  phase = "built" => measurement = dataAdded
=============================================================================

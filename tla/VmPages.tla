------------------------------ MODULE VmPages ------------------------------
(***************************************************************************)
(* VmPages and GuestRootBuilder (src/vm_pages.rs) after boot: the host and *)
(* the guests it (and they) create move pages between their second-stage   *)
(* tables through PhysPages.                                               *)
(*                                                                         *)
(* Every VM runs its VmPages calls one at a time (&mut self), on its own   *)
(* hart; calls of different VMs interleave. The bulk calls iterate lazily  *)
(* over invalidate_range / unmap_range, so each loop iteration is one step *)
(* (op[v] is the call in flight) and PhysPages, shared by all VMs, sees    *)
(* the iterations of different VMs interleave. create_guest_root_builder   *)
(* touches six pages of the caller's own table and is one step.            *)
(*                                                                         *)
(* A page's linear handle lives in exactly one place: a valid leaf entry,  *)
(* a root, interior-node or PTE-pool page of a table, the PageVec page     *)
(* backing a builder's pool, or the state page create_guest_root_builder   *)
(* returns. An invalid entry is the record a parent keeps of a page it     *)
(* donated. A page whose handle is dropped is leaked.                      *)
(***************************************************************************)
EXTENDS PageTable, TLC

CONSTANTS
  NoVm,        \* model value: no parent
  HostMapped,  \* GPAs the host root builder identity-mapped at boot
  PoolCap,     \* Page4k handles the builder's one-page PageVec can hold
  Counts,      \* the `count` arguments callers pass
  DstGpas,     \* the `to_addr` arguments callers pass
  Harts        \* how many VMs' bulk calls may be in flight at once

ASSUME HostMapped \subseteq Gpas /\ Gpas \subseteq Pages
ASSUME Harts \in Nat \ {0}
ASSUME PoolCap \in Nat /\ Counts \subseteq Nat \ {0} /\ DstGpas \subseteq Gpas

\* create_guest_root_builder carves this many pages: four for the root, one
\* for the PTE pool's PageVec, one returned as the state page.
CreateCount == 6

OpKinds == {"idle", "pte", "data", "remove"}
IdleOp == [kind |-> "idle", cur |-> 0, end |-> 0, child |-> NoVm,
           dst |-> 0, measure |-> FALSE, count |-> 0, moved |-> 0]

VARIABLES
  status,       \* "none", "building" (a GuestRootBuilder), "running"
                \* (a VmPages) or "dropped"
  parent,       \* the VM whose pages built the guest
  root,         \* the four root pages of a guest's table
  pool,         \* GuestRootBuilder::pte_pages, the PageVec<Page4k>
  poolPage,     \* the page backing that PageVec
  statePage,    \* the state page create_guest_root_builder returned
  measurement,  \* the (gpa, page) pairs folded into D::add_page, in order
  dirty,        \* pages holding data written before they reached their holder
  op,           \* op[v]: the bulk VmPages call v has in flight
  panicked      \* the hypervisor hit an unwrap() or assert and stopped

vmVars == <<status, parent, root, pool, poolPage, statePage, measurement,
            dirty, op, panicked>>
vars == <<physVars, tableVars, vmVars>>

TypeOK ==
  /\ PhysTypeOK
  /\ TableTypeOK
  /\ status \in [Vms -> {"none", "building", "running", "dropped"}]
  /\ parent \in [GuestIds -> Vms \cup {NoVm}]
  /\ root \in [Vms -> SUBSET Pages]
  /\ pool \in [Vms -> Seq(Pages)]
  /\ \A v \in Vms : Len(pool[v]) <= PoolCap
  /\ poolPage \in [Vms -> Pages \cup {NoPage}]
  /\ statePage \in [Vms -> Pages \cup {NoPage}]
  /\ measurement \in [Vms -> Seq(Gpas \X Pages)]
  /\ dirty \subseteq Pages
  /\ op \in [Vms -> [kind : OpKinds, cur : 0..NumGpas, end : 0..NumGpas,
                     child : Vms \cup {NoVm}, dst : 0..NumGpas,
                     measure : BOOLEAN, count : 0..NumGpas,
                     moved : 0..NumGpas]]
  /\ panicked \in BOOLEAN

-----------------------------------------------------------------------------
(* The state after boot: HostRootBuilder identity-mapped HostMapped, set    *)
(* the host as owner of each of those pages and froze into HostRootPages.  *)

Init ==
  /\ owners = [p \in Pages |-> IF p \in HostMapped THEN <<Hyp, Host>> ELSE <<Hyp>>]
  /\ active = {}
  /\ allocated = {}
  /\ pte = [v \in Vms |->
              IF v = Host
                THEN [k \in Gpas |-> IF k \in HostMapped
                                        THEN [page |-> k, valid |-> TRUE]
                                        ELSE NoEntry]
                ELSE EmptyTable]
  /\ node = [v \in Vms |-> NoNodes]
  /\ status = [v \in Vms |-> IF v = Host THEN "running" ELSE "none"]
  /\ parent = [g \in GuestIds |-> NoVm]
  /\ root = [v \in Vms |-> {}]
  /\ pool = [v \in Vms |-> <<>>]
  /\ poolPage = [v \in Vms |-> NoPage]
  /\ statePage = [v \in Vms |-> NoPage]
  /\ measurement = [v \in Vms |-> <<>>]
  /\ dirty = HostMapped
  /\ op = [v \in Vms |-> IdleOp]
  /\ panicked = FALSE

\* v's VmPages can take a new call.
Ready(v) ==
  /\ ~panicked
  /\ status[v] = "running"
  /\ op[v].kind = "idle"

\* A VM's bulk call has g's builder as its `to: &mut GuestRootBuilder`.
Borrowed(g) == \E w \in Vms : op[w].kind \in {"pte", "data"} /\ op[w].child = g

\* g can be passed as `to`: a GuestRootBuilder that exists and is not
\* mutably borrowed already. Nothing ties it to the VmPages called: the
\* caller may pass any builder it has.
CanBorrowBuilder(g) == status[g] = "building" /\ ~Borrowed(g)

\* Fault variant: the conversion to CleanPage forgets to zero the page.
CleanPageSkipped(p) == dirty' = dirty

\* CleanPage::from(page): the contents are zeroed.
CleanPage(p) == dirty' = dirty \ {p}

\* The next id add_active_guest returns.
NewGuestId == CHOOSE g \in FreshGuestIds : TRUE

-----------------------------------------------------------------------------
(* create_guest_root_builder(from_addr)                                    *)

\* The GPAs invalidate_range(from_addr, 6) yields, ascending, holes skipped,
\* and the pages they held.
CreateGpas(v, from) ==
  LET S == {k \in from..(from + CreateCount - 1) : IsValid(v, k)}
  IN [i \in 1..Cardinality(S) |->
        CHOOSE k \in S : Cardinality({j \in S : j < k}) = i - 1]
CreateYield(v, from) ==
  LET gs == CreateGpas(v, from) IN [i \in DOMAIN gs |-> pte[v][gs[i]].page]

\* Every unwrap() of the call succeeds: six pages came back, the first four
\* form a root T::new accepts, and every set_page_owner succeeds.
CreateSucceeds(v, from) ==
  LET ps == CreateYield(v, from) IN
  /\ Len(ps) = CreateCount
  /\ IsRoot(SubSeq(ps, 1, RootCount))
  /\ \A i \in DOMAIN ps : CanSetPageOwner(ps[i])

\* The alignment check passed and add_active_guest returned an id, but
\* invalidate_range returned None: Err(InvalidRange), the id stays active.
CreateGuestInvalidRange(v, from) ==
  /\ Ready(v)
  /\ from % TopLevelAlign = 0
  /\ FreshGuestIds # {}
  /\ ~RangeOk(from, CreateCount)
  /\ AddActiveGuest(NewGuestId)
  /\ UNCHANGED <<owners, tableVars, vmVars>>

\* Ok((GuestRootBuilder::new(root, pte_page), state_page)): v holds the new
\* builder, whose table is rooted in the first four pages, whose PTE pool
\* is an empty PageVec in the fifth, with a default measurement; the sixth
\* page is returned to v as the state page.
GuestRootBuilderNew(v, id, ps) ==
  /\ status' = [status EXCEPT ![id] = "building"]
  /\ root' = [root EXCEPT ![id] = ToSet(SubSeq(ps, 1, RootCount))]
  /\ pool' = [pool EXCEPT ![id] = <<>>]
  /\ poolPage' = [poolPage EXCEPT ![id] = ps[5]]
  /\ measurement' = [measurement EXCEPT ![id] = <<>>]
  /\ statePage' = [statePage EXCEPT ![id] = ps[6]]
  /\ parent' = [parent EXCEPT ![id] = v]

CreateGuestRootBuilder(v, from) ==
  LET id == NewGuestId
      ps == CreateYield(v, from)
  IN
  /\ Ready(v)
  /\ from % TopLevelAlign = 0
  /\ FreshGuestIds # {}
  /\ RangeOk(from, CreateCount)
  /\ CreateSucceeds(v, from)
  /\ AddActiveGuest(id)
  /\ InvalidateEntries(v, ToSet(CreateGpas(v, from)))
  /\ PushOwners([p \in ToSet(ps) |-> id])
  /\ GuestRootBuilderNew(v, id, ps)
  /\ UNCHANGED <<node, dirty, op, panicked>>

\* An unwrap() fails: fewer than six valid entries in the range (holes or
\* pages already donated), a first four that are not a root, or a full
\* owner stack. The hypervisor panics.
CreateGuestPanics(v, from) ==
  /\ Ready(v)
  /\ from % TopLevelAlign = 0
  /\ FreshGuestIds # {}
  /\ RangeOk(from, CreateCount)
  /\ ~CreateSucceeds(v, from)
  /\ panicked' = TRUE
  /\ UNCHANGED <<physVars, tableVars, status, parent, root, pool, poolPage,
                 statePage, measurement, dirty, op>>
-----------------------------------------------------------------------------
(* Starting a bulk call: invalidate_range / unmap_range returned Some.     *)
(* (A None is Err(InvalidRange) with nothing changed.)                     *)

StartOp(v, kind, from, count, g, to, measure) ==
  /\ Cardinality({w \in Vms : op[w].kind # "idle"}) < Harts
  /\ op' = [op EXCEPT ![v] = [kind |-> kind, cur |-> from, end |-> from + count,
                           child |-> g, dst |-> to, measure |-> measure,
                           count |-> count, moved |-> 0]]

\* add_pte_pages_builder(from_addr, count, to)
AddPtePagesBuilder(v, from, count, g) ==
  /\ Ready(v)
  /\ CanBorrowBuilder(g)
  /\ RangeOk(from, count)
  /\ StartOp(v, "pte", from, count, g, 0, FALSE)
  /\ UNCHANGED <<physVars, tableVars, status, parent, root, pool, poolPage,
                 statePage, measurement, dirty, panicked>>

\* add_4k_pages_builder(from_addr, count, to, to_addr, measure_preserve)
Add4kPagesBuilder(v, from, count, g, to, measure) ==
  /\ Ready(v)
  /\ CanBorrowBuilder(g)
  /\ RangeOk(from, count)
  /\ to + count <= NumGpas  \* the destinations lie inside the modelled GPAs
  /\ StartOp(v, "data", from, count, g, to, measure)
  /\ UNCHANGED <<physVars, tableVars, status, parent, root, pool, poolPage,
                 statePage, measurement, dirty, panicked>>

\* remove_4k_pages(from_addr, count)
Remove4kPages(v, from, count) ==
  /\ Ready(v)
  /\ RangeOk(from, count)
  /\ StartOp(v, "remove", from, count, NoVm, 0, FALSE)
  /\ UNCHANGED <<physVars, tableVars, status, parent, root, pool, poolPage,
                 statePage, measurement, dirty, panicked>>

\* The GPA the iterator of v's call yields next (op[v].end when exhausted).
NextGpa(v) ==
  IF op[v].kind = "remove" THEN NextPresent(v, op[v].cur, op[v].end)
                           ELSE NextValid(v, op[v].cur, op[v].end)

\* The iterator is exhausted: the call returns Ok.
FinishOp(v) ==
  /\ ~panicked
  /\ op[v].kind # "idle"
  /\ NextGpa(v) = op[v].end
  /\ op' = [op EXCEPT ![v] = IdleOp]
  /\ UNCHANGED <<physVars, tableVars, status, parent, root, pool, poolPage,
                 statePage, measurement, dirty, panicked>>

\* The loop body ran for GPA k (one more page moved) and continues after it.
Continue(v, k) == op' = [op EXCEPT ![v].cur = k + 1, ![v].moved = @ + 1]
\* The loop body returned Err through `?`: the iterator is dropped.
Fail(v) == op' = [op EXCEPT ![v] = IdleOp]

\* Fault variant: add_pte_page pushes without try_reserve.
PoolHasRoomUnchecked(g) == TRUE

\* self.pte_pages.try_reserve(1) succeeds.
PoolHasRoom(g) == Len(pool[g]) < PoolCap

-----------------------------------------------------------------------------
(* One iteration of add_pte_pages_builder: the entry is invalidated, the    *)
(* page cleaned, the child pushed as its owner and the page pushed on the   *)
(* builder's PTE pool (add_pte_page, which fails when try_reserve does).    *)

AddPtePagesNext(v) ==
  LET k == NextGpa(v)
      p == pte[v][k].page
      g == op[v].child
  IN
  /\ ~panicked
  /\ op[v].kind = "pte"
  /\ k < op[v].end
  /\ InvalidateEntries(v, {k})
  /\ CleanPage(p)
  /\ CanSetPageOwner(p)
  /\ SetPageOwner(p, g)
  /\ PoolHasRoom(g)
  /\ pool' = [pool EXCEPT ![g] = Append(@, p)]
  /\ Continue(v, k)
  /\ UNCHANGED <<active, allocated, node, status, parent, root, poolPage,
                 statePage, measurement, panicked>>

\* set_page_owner fails (SettingOwner), or it succeeds and add_pte_page fails
\* (InsufficientPtePageStorage): the page, already out of v's table, is
\* dropped.
AddPtePagesFails(v) ==
  LET k == NextGpa(v)
      p == pte[v][k].page
      g == op[v].child
  IN
  /\ ~panicked
  /\ op[v].kind = "pte"
  /\ k < op[v].end
  /\ InvalidateEntries(v, {k})
  /\ CleanPage(p)
  /\ ~CanSetPageOwner(p) \/ ~PoolHasRoom(g)
  /\ IF CanSetPageOwner(p) THEN SetPageOwner(p, g) ELSE UNCHANGED owners
  /\ Fail(v)
  /\ UNCHANGED <<active, allocated, node, status, parent, root, pool,
                 poolPage, statePage, measurement, panicked>>

-----------------------------------------------------------------------------
(* One iteration of add_4k_pages_builder: the entry is invalidated (the     *)
(* page is not cleaned), the child pushed as owner, then add_data_page      *)
(* (measure, then map) or add_zero_page (map). map_page_4k's pte_supplier   *)
(* pops the builder's PTE pool.                                            *)

\* add_data_page folds (gpa, page) into the measurement before mapping.
Measure(g, gpa, p, measure) ==
  measurement' = IF measure
                   THEN [measurement EXCEPT ![g] = Append(@, <<gpa, p>>)]
                   ELSE measurement

\* Fault variant: the supplier reads the last page without removing it.
PtePagesPeek(g, gpa) == pool' = pool

\* The pte_supplier closure `|| self.pte_pages.pop()`: PageVec::pop takes the
\* last page of the pool, and only when the walk needs an interior node.
PtePagesPop(g, gpa) ==
  pool' = IF MapNeedsPte(g, gpa) THEN [pool EXCEPT ![g] = Front(@)] ELSE pool
SuppliedPte(g, gpa) == IF MapNeedsPte(g, gpa) THEN Last(pool[g]) ELSE NoPage

\* map_page_4k fails: AlreadyMapped, or NoPte with an empty pool.
MapFails(g, gpa) ==
  \/ IsPresent(g, gpa)
  \/ MapNeedsPte(g, gpa) /\ pool[g] = <<>>

Add4kPagesNext(v) ==
  LET k == NextGpa(v)
      p == pte[v][k].page
      g == op[v].child
      gpa == op[v].dst
  IN
  /\ ~panicked
  /\ op[v].kind = "data"
  /\ k < op[v].end
  /\ CanSetPageOwner(p)
  /\ ~MapFails(g, gpa)
  /\ MapPage4k(Invalidated(v, {k}), g, gpa, p, SuppliedPte(g, gpa))
  /\ PtePagesPop(g, gpa)
  /\ SetPageOwner(p, g)
  /\ Measure(g, gpa, p, op[v].measure)
  /\ op' = [op EXCEPT ![v].cur = k + 1, ![v].dst = gpa + 1, ![v].moved = @ + 1]
  /\ UNCHANGED <<active, allocated, status, parent, root, poolPage,
                 statePage, dirty, panicked>>

\* set_page_owner fails (SettingOwner), or add_data_page / add_zero_page
\* fails to map (Mapping4kPage): the page, already out of v's table, is
\* dropped; add_data_page has measured it all the same.
Add4kPagesFails(v) ==
  LET k == NextGpa(v)
      p == pte[v][k].page
      g == op[v].child
      gpa == op[v].dst
  IN
  /\ ~panicked
  /\ op[v].kind = "data"
  /\ k < op[v].end
  /\ ~CanSetPageOwner(p) \/ MapFails(g, gpa)
  /\ InvalidateEntries(v, {k})
  /\ IF CanSetPageOwner(p)
       THEN SetPageOwner(p, g) /\ Measure(g, gpa, p, op[v].measure)
       ELSE UNCHANGED <<owners, measurement>>
  /\ Fail(v)
  /\ UNCHANGED <<active, allocated, node, status, parent, root, pool,
                 poolPage, statePage, dirty, panicked>>

-----------------------------------------------------------------------------
(* One iteration of remove_4k_pages: the entry is unmapped and the page     *)
(* cleaned, then pop_owner; the popped id must be v's own.                 *)

Remove4kPagesNext(v) ==
  LET k == NextGpa(v)
      p == pte[v][k].page
  IN
  /\ ~panicked
  /\ op[v].kind = "remove"
  /\ k < op[v].end
  /\ CanPopOwner(p)
  /\ TopOwner(p) = v
  /\ UnmapEntry(v, k)
  /\ CleanPage(p)
  /\ PopOwner(p)
  /\ Continue(v, k)
  /\ UNCHANGED <<active, allocated, node, status, parent, root, pool,
                 poolPage, statePage, measurement, panicked>>

\* pop_owner fails, or pops an id other than v's: Err(UnownedPage). The
\* entry is already unmapped, the page cleaned and the id popped.
Remove4kPagesUnowned(v) ==
  LET k == NextGpa(v)
      p == pte[v][k].page
  IN
  /\ ~panicked
  /\ op[v].kind = "remove"
  /\ k < op[v].end
  /\ ~CanPopOwner(p) \/ TopOwner(p) # v
  /\ UnmapEntry(v, k)
  /\ CleanPage(p)
  /\ IF CanPopOwner(p) THEN PopOwner(p) ELSE UNCHANGED owners
  /\ Fail(v)
  /\ UNCHANGED <<active, allocated, node, status, parent, root, pool,
                 poolPage, statePage, measurement, panicked>>

-----------------------------------------------------------------------------
(* Finishing a builder, dropping builders and VMs                          *)

\* create_pages(): the builder becomes the guest's VmPages. Its PageVec of
\* PTE pages, and the page backing it, are dropped with the builder.
CreatePages(g) ==
  /\ ~panicked
  /\ status[g] = "building"
  /\ ~Borrowed(g)
  /\ status' = [status EXCEPT ![g] = "running"]
  /\ pool' = [pool EXCEPT ![g] = <<>>]
  /\ poolPage' = [poolPage EXCEPT ![g] = NoPage]
  /\ UNCHANGED <<physVars, tableVars, parent, root, statePage, measurement,
                 dirty, op, panicked>>

\* A GuestRootBuilder is dropped unfinished: it has no Drop, so its id
\* stays active.
DropBuilder(g) ==
  /\ ~panicked
  /\ status[g] = "building"
  /\ ~Borrowed(g)
  /\ status' = [status EXCEPT ![g] = "dropped"]
  /\ UNCHANGED <<physVars, tableVars, parent, root, pool, poolPage,
                 statePage, measurement, dirty, op, panicked>>

\* Drop for VmPages: rm_active_guest(page_owner_id()); no page is reclaimed.
DropVmPages(g) ==
  /\ g \in GuestIds
  /\ Ready(g)
  /\ RmActiveGuest(g)
  /\ status' = [status EXCEPT ![g] = "dropped"]
  /\ UNCHANGED <<owners, tableVars, parent, root, pool, poolPage,
                 statePage, measurement, dirty, op, panicked>>

-----------------------------------------------------------------------------

Froms == {a \in Gpas : a % TopLevelAlign = 0}

Next ==
  \/ \E v \in Vms, from \in Froms :
       \/ CreateGuestInvalidRange(v, from)
       \/ CreateGuestRootBuilder(v, from)
       \/ CreateGuestPanics(v, from)
  \/ \E v \in Vms, g \in GuestIds, from \in Froms, count \in Counts :
       \/ AddPtePagesBuilder(v, from, count, g)
       \/ \E to \in DstGpas, measure \in BOOLEAN :
            Add4kPagesBuilder(v, from, count, g, to, measure)
  \/ \E v \in Vms, from \in Froms, count \in Counts : Remove4kPages(v, from, count)
  \/ \E v \in Vms :
       \/ AddPtePagesNext(v) \/ AddPtePagesFails(v)
       \/ Add4kPagesNext(v) \/ Add4kPagesFails(v)
       \/ Remove4kPagesNext(v) \/ Remove4kPagesUnowned(v)
       \/ FinishOp(v)
  \/ \E g \in GuestIds : CreatePages(g) \/ DropBuilder(g) \/ DropVmPages(g)

Spec == Init /\ [][Next]_vars

-----------------------------------------------------------------------------
(* Properties                                                              *)

\* How many places hold the linear handle of page p.
HandleCount(p) ==
  LET live == [page |-> p, valid |-> TRUE] IN
  Cardinality({x \in Vms \X Gpas : pte[x[1]][x[2]] = live})
  + Cardinality({v \in Vms : p \in root[v]})
  + Cardinality({x \in Vms \X Leaves : node[x[1]][x[2]] = p})
  + Cardinality({x \in Vms \X (1..PoolCap) :
                   x[2] <= Len(pool[x[1]]) /\ pool[x[1]][x[2]] = p})
  + Cardinality({v \in Vms : poolPage[v] = p})
  + Cardinality({v \in Vms : statePage[v] = p})

\* Isolation through linearity: every page's handle is in at most one place.
\* So no page is accessible through valid entries of two tables (or at two
\* GPAs of one), and no page backing a table, a PTE pool or a guest's state
\* is accessible to any VM. It depends on every transfer (create, donate,
\* map, the pool's pop) revoking the old place as it fills the new one,
\* while calls of several VMs interleave.
PagesAreLinear == \A p \in Pages : HandleCount(p) <= 1

\* The pages a guest's table can take interior nodes from, and the nodes it
\* has, hold no data a VM wrote: add_pte_pages_builder cleans every page
\* before the pool gets it, so a parent cannot plant translations in a
\* child's table.
PtePagesScrubbed ==
  \A v \in Vms :
    /\ \A l \in Leaves : node[v][l] \notin dirty
    /\ \A i \in DOMAIN pool[v] : pool[v][i] \notin dirty

\* create_guest_root_builder: "Can't fail if enough aligned pages are provided
\* (checked above)": none of its unwrap()s panics once the alignment check
\* has passed.
CreateGuestNeverPanics == ~panicked

\* When create_pages turns a builder into a guest, every (gpa, page) folded
\* into its measurement is what the guest's table maps at gpa: the
\* measurement attests the initial image.
MeasuredImageMapped ==
  [][\A g \in GuestIds :
       status[g] = "building" /\ status'[g] = "running" =>
         \A i \in DOMAIN measurement[g] :
           pte[g][measurement[g][i][1]] = [page |-> measurement[g][i][2], valid |-> TRUE]
    ]_vars

\* A page add_4k_pages_builder maps with measure_preserve = false went
\* through add_zero_page, "a zeroed data page": no data a VM wrote is
\* readable through a guest entry that was not measured as an image page.
ZeroPagesZeroed ==
  \A g \in GuestIds, k \in Gpas :
    IsValid(g, k) /\ ~(\E i \in DOMAIN measurement[g] :
                         measurement[g][i] = <<k, pte[g][k].page>>)
      => pte[g][k].page \notin dirty

\* Page handles are linear and dropping one without returning it through
\* pop_owner leaks it (spec section 5): every page whose owner stack names
\* a VM is held somewhere a VM or builder can still reach and give back.
NoPageLeaks ==
  ~panicked => \A p \in Pages : TopOwner(p) # Hyp => HandleCount(p) >= 1

\* An id stays in the active-guest set only while a GuestRootBuilder or a
\* VmPages carries it: Drop for VmPages is the one place that removes it,
\* so no other path may leave an id active without an owner.
ActiveIdsHeld ==
  \A g \in active : status[g] \in {"building", "running"}

\* add_4k_pages_builder and remove_4k_pages return Ok(count): the caller is
\* told that `count` pages moved. Every such return must follow a loop that
\* moved a page for each GPA of the range, although the iterators of
\* invalidate_range and unmap_range skip holes silently.
OkCountMoved ==
  [][\A v \in Vms :
       FinishOp(v) /\ op[v].kind \in {"data", "remove"} =>
         op[v].moved = op[v].count
    ]_vars

\* The id below a VM on an owner stack: the VM whose pages built it.
ParentId(o) == IF o = Host THEN Hyp ELSE parent[o]

\* Every owner stack is a donation chain: the hypervisor at the bottom, and
\* each id above it a child of the id below (spec 8, invariants 1 and 5:
\* after remove_4k_pages succeeds the new top is the parent owner). A VM
\* only pushes its children, but it pushes them on pages of its own table
\* whatever their stack's top: a stack an ancestor has popped under it.
OwnerStacksFollowParents ==
  \A p \in Pages :
    /\ owners[p][1] = Hyp
    /\ \A i \in 2..Len(owners[p]) : ParentId(owners[p][i]) = owners[p][i - 1]

\* The pages v has: their handles are in valid entries, the root, interior
\* nodes, the PTE pool or the pool's PageVec page of v's table or builder,
\* or they are state pages create_guest_root_builder returned to v.
HeldBy(v) ==
  {pte[v][k].page : k \in {k \in Gpas : pte[v][k].valid}}
  \cup root[v] \cup Range(node[v]) \cup Range(pool[v]) \cup {poolPage[v]}
  \cup {statePage[g] : g \in {g \in GuestIds : parent[g] = v}}

\* For each page, the VMs that have it.
HoldersMap ==
  LET held == [v \in Vms |-> HeldBy(v)] IN
  [p \in Pages |-> {v \in Vms : p \in held[v]}]

Holders == INSTANCE PageHolders
             WITH Root <- Host, Nobody <- NoVm,
                  holders <- HoldersMap,
                  parentOf <- [v \in Vms |-> IF v = Host THEN NoVm ELSE parent[v]]

\* VmPages implements PageHolders, the rule of its doc comment ("Machines
\* are allowed to donate pages to child machines"): every step either
\* leaves who-has-what alone or is one VM handing pages to a child it
\* created (create_guest_root_builder, the iterations of
\* add_pte_pages_builder and add_4k_pages_builder) or giving pages up
\* (remove_4k_pages, and the pages the error paths and create_pages drop).
\* No page reaches a VM that is not a child of its holder, and none comes
\* back once every VM has let go of it.
RefinesPageHolders == Holders!Spec
=============================================================================

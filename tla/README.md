# TLA+ models of salus' VM page management

This directory models the two source files of the repository. The first is
`src/riscv-page-tables/src/sequential_pages.rs`, the contiguous page range. The
second is `src/src/vm_pages.rs`, which holds VmPages and the host and guest
root builders. It also models the collaborators they call. Those
collaborators are specified in `spec.md` but are not under `src/`: the physical
page directory and the platform page table.

## 1. Inventory

### Components

| Part | Code | State | Operations (state-changing) |
|------|------|-------|-----------------------------|
| C1 SequentialPages | sequential_pages.rs | `addr`, `count` (u64) | `from_pages`, `SeqPageIter::next`, `into_iter`; `length_bytes` (pure) |
| C2 PhysPages | not in src/ (spec 4.2) | owner stack per page, active-guest set | `add_active_guest`, `rm_active_guest`, `set_page_owner`, `pop_owner` |
| C3 page types | not in src/ (spec 3) | the contents of a frame | `CleanPage::from` zeroes; `ok4k_or` |
| C4 PlatformPageTable | not in src/ (spec 4.3) | leaf entries and interior nodes of one VM's G-stage table | `new`, `invalidate_range`, `unmap_range` (lazy iterators), `map_page_4k` with a PTE supplier |
| C5 VmPages | vm_pages.rs 38-181 | root table and measurement | `create_guest_root_builder`, `add_pte_pages_builder`, `add_4k_pages_builder`, `remove_4k_pages`, `handle_page_fault`, `Drop` |
| C6a GuestRootBuilder | vm_pages.rs 295-353 | root, measurement, PTE pool (a `PageVec` in one page) | `new`, `add_pte_page`, `add_data_page`, `add_zero_page`, `create_pages` |
| C6b HostRootBuilder | vm_pages.rs 183-293 | root, PTE page range, measurement | `from_hyp_mem`, `add_4k_data_pages`, `add_4k_pages`, `create_host` |

### How the parts interact

- At boot, the host root builder maps the host's memory into a table owned by
  the host. The result becomes the host's VmPages.
- A VM (the host, or a guest with its own children) creates a child in the
  following order:
  1. `create_guest_root_builder` carves six pages out of its own table: four
     for the root, one for the PTE pool and one state page.
  2. `add_pte_pages_builder` donates pages that become the child's interior
     nodes.
  3. `add_4k_pages_builder` donates data pages, either measured or "zero".
  4. `create_pages` finishes the child.
- Every transfer does three things:
  - it invalidates the entry in the giver's table;
  - it pushes the child's id on the page's owner stack in PhysPages;
  - it hands the page's linear handle to the child.
- `remove_4k_pages` is the reverse path. It unmaps the page, zeroes it and pops
  the owner.
- PhysPages is the only state shared between VMs (spec 5). Each of its
  operations holds one mutex. Calls on one VmPages are serialised by `&mut self`.

### Hard behaviours

- **Bulk operations are loops over lazy iterators.** Every page is
  invalidated, re-owned and mapped in its own iteration. A failure at page k
  leaves pages 0..k committed.
- **Calls interleave page by page.** Calls of different VMs run on different
  harts, so their loops interleave at that granularity.
- **Order inside a step matters.** `remove_4k_pages` pops before it checks, and
  `add_data_page` measures before it maps.
- **Bounded resources fill up.** The owner stack depth, the one-page PTE pool
  and the id space are all bounded.
- **u64 arithmetic can overflow.** The affected operations are `from_pages`,
  `length_bytes` and `SeqPageIter::next`.

## 2. Modules

| Module | Models | Source |
|--------|--------|--------|
| `SequentialPages` | one caller of `from_pages` (with any iterator, or one built by `from_mem_range` or `From<Page>`) and the draining of what it returns | sequential_pages.rs 19-153 |
| `PhysPages` | the owner stacks and the active-guest set (spec_modelled) | spec 3, 4.2 |
| `PageTable` | the leaf entries and interior nodes of every VM's table (spec_modelled) | spec 4.3 |
| `VmPages` | VmPages, GuestRootBuilder and their composition with PhysPages and PageTable | vm_pages.rs 38-181, 295-353 |
| `PageHolders` | the abstract promise of VmPages: who has each page, pages handed only to a VM's own child or given up, never regained | vm_pages.rs 31-37 (doc comment), spec 1 |
| `PageRoundTrip` | the abstract promise of `from_pages`: decide once, hand every page back in order | sequential_pages.rs 28-31 (doc comment) |
| `HostRootBuilder` | boot: `from_hyp_mem`, `add_4k_data_pages`, `add_4k_pages`, `create_host` over PhysPages and PageTable | vm_pages.rs 204-292 |
| `MCSequentialPages`, `MCVmPages`, `MCVmPagesNested`, `MCHostRootBuilder` | constants for TLC | |

### SequentialPages

- **State.** The variables are:
  - `made`: `{}` when the caller hands in any iterator of pages (an array, as
    in the tests), or `{s}` when it hands in `s.into_iter()` for a `s` built
    by `from_mem_range(start, count)` or `From<Page>`;
  - `input`, the iterator handed in;
  - `pos`, the position of `page_iter`;
  - `seq` and `lastAddr`, the local variables of `from_pages`;
  - `pc`;
  - `result`;
  - `tail`, the `once(page).chain(page_iter)` part of the error value;
  - `out`, the pages the caller drained.
- **Actions.**
  - There is one action per loop iteration or early return of `from_pages`:
    `FromPagesEmpty`, `FromPagesFirst`, `FromPagesAccept`, `FromPagesOverflow`
    (the `checked_add` `None`), `FromPagesGap` and `FromPagesOk`.
  - There is one action per `next()` of the result: `SeqIterNext`, `TailNext`
    and `DrainDone`.
  - `SourceOverflowPanics` is the debug build's panic when `from_pages`
    pulls the top page of memory out of a `SeqPageIter` input.
  - `SeqIterNext` models the unchecked `addr += SIZE_BYTES` as a
    nondeterministic choice between the two builds: the debug build panics and
    the release build wraps modulo 2^AddrBits.
- **Bounds.** There are 4-bit addresses and 4-byte pages, so 4 page frames, and
  every injective input of up to 4 pages, plus the 14 values the two
  constructors can build (`from_mem_range` is `unsafe`: the caller must own
  the memory, so only ranges inside the address space are chosen, the empty
  ones included). At these bounds the top of the
  address space is in reach, and so are every gap, every overflow and the
  empty input.
- **Abstract specification and refinement.** `PageRoundTrip` has three
  variables: `input`, `result` and `out`. Its `Decide` step returns `ok`
  exactly for the inputs `Accepts` (instantiated with `IsSequential`). Its
  `Yield` step hands back the next input page. `SequentialPages` instantiates
  it under the identity mapping of those three variables, and checks
  `RoundTrip!Spec` as the property `RefinesRoundTrip`. The steps map as
  follows:
  - the loop steps are stuttering steps;
  - the early returns are `Decide`;
  - every `next()` that yields a page is `Yield`.
- **Fairness.** None. The run checks safety and refinement only: every call
  and every drain is a bounded loop over a finite input, so its termination
  holds by the shape of the model and says nothing about the code.

### HostRootBuilder

- **State.** The variables are:
  - `phase`: boot, building, built, or panic;
  - `rootPages`;
  - `ptePages`, the builder's `PageRange` in the order `next()` yields;
  - `hostPages`, the pages `from_hyp_mem` returned that the boot code has
    not passed in yet;
  - `call`, the loop in flight;
  - `measurement`;
  - `dataAdded`, a history of every pair any `add_4k_data_pages` measured.

  The owner stacks and the host's table are PhysPages' and PageTable's, with
  no guest ids.
- **Actions.**
  - `FromHypMem` is `from_hyp_mem`. The allocator, which is not in the
    repository, hands memory out in ascending order, so the root is pages 0-3
    and the PTE pages come next.
  - `Add4kDataPages` is the entry of `add_4k_data_pages`, including line 234's
    `D::default()`. `Add4kPages` is the entry of `add_4k_pages`.
  - `HostMapNext` is one loop iteration: measure, `assert_eq!`,
    `set_page_owner`, then `map_page_4k` with `pte_pages.next()`.
  - `HostMapPanics` is the assert or an `unwrap()` failing.
  - `HostCallDone` is the loop ending.
  - `CreateHost` is `create_host`.
- **The caller.** The boot code is modelled as passing any run of consecutive
  host pages, to any `to_addr` whose run fits in the address space.
- **Bounds.** `MCHostRootBuilder` has:
  - 14 pages of memory: 4 root pages, 2 PTE pages and 8 host pages;
  - 8 GPAs;
  - runs of 2 or 4 pages.

  With these bounds the model reaches:
  - every misaligned `to_addr`;
  - a remap of a GPA that is already mapped;
  - several data calls in a row.
- **Deadlock.** Boot stops after `create_host`, so deadlock is not checked.

### PhysPages and PageTable

- **Why they are modelled from the spec.** Their code is not in this
  repository. They are modelled from `spec.md` and marked `spec_modelled` in
  PROJECT.json.
- **PhysPages operations.** Each operation is one atomic step because of the
  PhysPages mutex.
- **Leaf entries.** An entry is `NoEntry`, valid, or invalid. An invalid entry
  is one that `invalidate_range` took the page out of while keeping the slot.
- **Interior nodes.** The radix walk is abstracted to one level of interior
  nodes, each covering `LeafSpan` GPAs.
- **The PTE supplier.** `map_page_4k` asks the supplier for a page only when
  the node is missing. It fails with `AlreadyMapped` or `NoPte`.
- **Range iterators.** `invalidate_range` and `unmap_range` return `None` for
  an unaligned or out-of-range request. Otherwise they return a lazy iterator
  that skips holes.

### VmPages

- **State.** The state of VmPages and its builders is kept per VM id:
  - `status` is one of none, building, running or dropped;
  - `parent`;
  - `root`, the four root pages;
  - `pool`, the PTE `PageVec`, and `poolPage`, its backing page;
  - `statePage`;
  - `measurement`, the (gpa, page) pairs in order;
  - `dirty`, the pages holding data that `CleanPage` would zero;
  - `op[v]`, the bulk call VM v has in flight (its iterator position, its end,
    the child, the destination GPA, the measure flag, the `count` it was
    called with and the pages it has moved so far);
  - `panicked`.
- **Bulk calls.**
  - A bulk call is started by `AddPtePagesBuilder`, `Add4kPagesBuilder` or
    `Remove4kPages`. In the code this is the point where `invalidate_range` or
    `unmap_range` returned `Some`.
  - It then takes one `*Next` step per loop iteration. Each step is the whole
    body of the iteration: the iterator's invalidate or unmap, `CleanPage`,
    `set_page_owner` or `pop_owner`, `add_pte_page`, and `add_data_page` or
    `add_zero_page` with its map and pool pop.
  - A failing iteration is a `*Fails` or `*Unowned` step. It does what the body
    did up to the `?` and ends the call.
  - `FinishOp` is the `Ok` return.
- **Create.** `create_guest_root_builder` is one step in three variants:
  - `CreateGuestInvalidRange`: an id has been allocated, then `InvalidRange`;
  - `CreateGuestRootBuilder`: success;
  - `CreateGuestPanics`: an `unwrap` fails.

  It is one step because no other VM touches the parent's table. The pages it
  invalidates are the parent's own, and the owner pushes are atomic in
  PhysPages.
- **Finishing and dropping.**
  - `CreatePages` is `create_pages`.
  - `DropBuilder` is a builder going out of scope; it has no `Drop`.
  - `DropVmPages` is `Drop for VmPages`.
- **Abstract specification and refinement.** `PageHolders` has two
  variables:
  - `holders[p]`, the VMs that have page p (at most one);
  - `parentOf[g]`, the VM that created g.

  It has two actions. `Give(v, g)` hands pages of v to g, where g is v's
  child or is created as v's child in that very step. `GiveUp(v)` sends pages
  of v back to v's parent or out of every VM. `VmPages` instantiates it
  with `holders` mapped to `HoldersMap`. A VM has a page when the page's
  handle is in a valid entry, the root, an interior node, the pool or the
  pool's backing page of that VM's table or builder, or when it is a state
  page `create_guest_root_builder` returned to it. `parentOf` is mapped to
  `parent`. `RefinesPageHolders` checks `Holders!Spec`. The steps should
  map as follows:
  - `CreateGuestRootBuilder`, `AddPtePagesNext` and `Add4kPagesNext` are
    `Give`;
  - `Remove4kPagesNext`, the failing iterations (which drop the page they
    took) and `CreatePages` (which drops the pool) are `GiveUp`;
  - everything else, including a pool page becoming an interior node, is
    stuttering.

  With one guest id only the host can hand pages on, to its only child, so
  the check is made on the nested configuration, where the code's `to:
  &mut GuestRootBuilder` may be any live builder (`CanBorrowBuilder`), and
  it fails there (finding 9).

  The abstraction is deliberately about handles, not owner stacks. An
  abstraction that also tied each holder to the top of the page's owner
  stack would fail at once on finding 8 (a failed reclaim pops the child's
  id while the child keeps the page) and on finding 5 (an id pushed on a
  page that is then dropped). Those are what the violation runs show.
- **Init** is the state after boot. The host has identity-mapped
  `HostMapped` and owns those pages. The remaining frames belong to the
  hypervisor.
- **Bounds.** The bounds in `MCVmPages` are:
  - 12 frames and 12 GPAs, with the host mapping 0..8 (two full blocks for
    creating a guest and one page in the third);
  - 4-page top-level alignment;
  - 4 GPAs per interior node;
  - owner stacks of depth 4;
  - a PTE pool of 1 page;
  - bulk calls of 4 pages to destination GPA 0;
  - at most 2 calls in flight (`Harts`).

  With these bounds the model reaches every path of every action:
  - creation from block 0 (the only block of six mapped pages);
  - the panic from block 4 (GPA 9 is a hole) and from any block with a page
    already donated or removed;
  - `InvalidRange` from block 8 (the six GPAs run past the table);
  - a full pool, `NoPte` on an empty pool, and `AlreadyMapped`;
  - the host reclaiming pages it donated while the guest is running;
  - two calls interleaving page by page.
- **Guest ids.** One guest id is enough for the host/guest questions.
- **Nesting (`MCVmPagesNested`).** A second id lets a guest build a guest of
  its own. That needs 16 host pages, and the unrestricted state space does
  not finish within ten minutes. So the two runs on it,
  `vm_nested_owner_chain` and `vm_builder_mixup`, add the state constraint
  `NestScenario`. The
  constraint plays the part of a boot script: the host builds its guest at
  GPA 0, takes PTE pages from block 12, data pages from blocks 4 and 8, and
  reclaims block 8; the guests make no bulk calls, nobody panics or is
  dropped, and no page is measured. `vm_nested_owner_chain` also adds
  `HostFeedsOwnChild` (the host passes only g1's builder), so that its
  trace is the owner-chain bug and not the builder mix-up. A constraint only removes states, so
  the violation it finds is a behaviour of `VmPages`. It is used for a
  violation run only, never to claim that something holds.
- **Deadlock.** Deadlock is not checked (`CHECK_DEADLOCK FALSE`). The bounded
  system really does stop: once the single id is spent and the pages are
  given away, no call can change the state. Calls that return an error
  without changing state are not modelled as steps.
- **Fairness.** None: every run on `VmPages` checks safety. A bulk call's
  loop runs over a bounded range and never waits on another VM, so that it
  returns holds by the shape of the model and is not checked.

## 3. Runs

| Run | Checks | Result |
|-----|--------|--------|
| `seq_pages` | `FromPagesMatchesReference`, `NoPageLost`, `RefinesRoundTrip` | pass (589 states) |
| `vm_pages` | `TypeOK`, `PagesAreLinear`, `PtePagesScrubbed` | pass (124 284 states, about 25 s) |
| `vm_create_panics` | `CreateGuestNeverPanics` | violation |
| `vm_measured_image` | `MeasuredImageMapped` (action property) | violation |
| `vm_zero_pages` | `ZeroPagesZeroed` | violation |
| `vm_page_leak` | `NoPageLeaks` | violation: `create_pages` right after create |
| `vm_id_leak` | `ActiveIdsHeld` | violation: a builder dropped unfinished, or `InvalidRange` after `add_active_guest` |
| `host_boot` | `TypeOK`, `HostOwnsMapped` | pass (about 36 000 states) |
| `host_measurement_reset` | `HostMeasurementCoversImage` | violation: two `add_4k_data_pages` calls |
| `vm_count_overstated` | `OkCountMoved` (action property) | violation: a data call over a block already carved returns `Ok(4)` having moved nothing |
| `vm_nested_owner_chain` | `OwnerStacksFollowParents` (nested, under `NestScenario` and `HostFeedsOwnChild`) | violation in 19 steps |
| `vm_builder_mixup` | `RefinesPageHolders` (nested, under `NestScenario`) | violation in 19 steps: the host donates to its grandchild |

### What the properties say

- **`FromPagesMatchesReference`.** `from_pages` returns `Ok` exactly when the
  input satisfies the reference definition `IsSequential`. When it returns
  `Ok`, `base` is the first page and `count` is the input length.
- **`NoPageLost`.** Draining the result gives back exactly the input, in order.
  This is spec 8.3 together with the round-trip law (the inputs include the
  `SeqPageIter` of every `SequentialPages` that `from_mem_range` and
  `From<Page>` build), and it covers the release build's wrap at the top
  page.
- **`RefinesRoundTrip`.** `from_pages` together with the iterator it returns
  implements `PageRoundTrip`.
- **`HostOwnsMapped`.** Every page the host's table reaches has the owner
  stack hypervisor → host, is mapped at one GPA only, and is none of the
  table's own pages. This is what `VmPages`' `Init` assumes, so this run is
  the link between the two modules.
- **`HostMeasurementCoversImage`.** Once `HostRootPages` exists, its
  measurement is the fold over every page measured.
- **`RefinesPageHolders`.** `VmPages` implements `PageHolders`, whichever
  way the calls of several VMs interleave (checked on the nested
  configuration, where it fails). No page reaches a VM other than a
  child of the VM that had it. A VM's creator never changes. A page that has
  left every VM never comes back.
- **`NoPageLeaks`.** Every page whose stack names a VM is still held
  somewhere.
- **`ActiveIdsHeld`.** Every active id belongs to a live builder or VmPages.
- **`PagesAreLinear`.** Each page's linear handle sits in one place only. The
  places are a valid entry, a root, an interior node, a pool slot, a pool's
  backing page and a state page. This is isolation: two VMs never reach the
  same frame, and no VM reaches a page that backs a table. It has to hold
  while the host's and the guest's loops interleave.
- **`PtePagesScrubbed`.** Interior nodes and pool pages never hold data.
- **`MeasuredImageMapped`.** At `create_pages`, everything in the measurement is
  mapped.
- **`ZeroPagesZeroed`.** An unmeasured guest page holds no data from another
  VM.
- **`OkCountMoved`.** When `add_4k_pages_builder` or `remove_4k_pages`
  returns `Ok(count)`, its loop moved `count` pages.
- **`OwnerStacksFollowParents`.** Every owner stack is a donation chain: the
  hypervisor, then the host, then each guest above its parent (spec 8,
  invariants 1 and 5). With one guest id it holds by construction, so it is
  checked only on the nested configuration.

### Mutants

Each property of a passing run is broken by a plausible bug in the code it
depends on:

| Property | Mutated code | Mutation |
|----------|--------------|----------|
| `FromPagesMatchesReference` | `FromPagesFirst` | count starts at 0 |
| `NoPageLost` | `Reject` | the offending page is dropped |
| `TypeOK` (VmPages) | `PoolHasRoom` | no `try_reserve` |
| `PagesAreLinear` | `PtePagesPop` | the supplier peeks instead of popping |
| `PtePagesScrubbed` | `CleanPage` | no zeroing |
| `RefinesRoundTrip` | `SeqPageAdvance` | `count` not decremented when the address wraps |
| `TypeOK` (HostRootBuilder) | `FromHypMem` | host range one page past memory |
| `HostOwnsMapped` | `HostSetOwner` | `set_page_owner` left out |

## 4. Findings

1. **`create_guest_root_builder` panics (vm_pages.rs:76-80).**
   - Only alignment is checked, although the comment says the `unwrap()`s
     cannot fail.
   - An aligned block with a hole panics the hypervisor. It is enough that the
     host first removed a page, or that the block was partly donated already.
2. **A failed `add_data_page` stays measured (vm_pages.rs:333).**
   - The measurement is taken before the map. When `NoPte` fails on an empty
     pool, the measurement covers a page the guest does not have.
   - The spec does not say whether that is intended.
3. **Zero pages are not zeroed (vm_pages.rs:132).**
   - `add_zero_page` is documented as adding "a zeroed data page", but
     `add_4k_pages_builder` never cleans the page it passes in.
4. **The host measurement is reset (vm_pages.rs:234).**
   - `HostRootBuilder::add_4k_data_pages` starts from `D::default()`.
   - A second call therefore drops every pair the first one measured. The
     host's attested measurement then misses part of its image.
5. **Pages leak (vm_pages.rs:348, 104).**
   - `create_pages` drops the pool of unused PTE pages and the page backing
     it. The shortest trace is a create followed at once by `create_pages`.
   - A failed `add_pte_page` drops a page the same way.
   - In both cases the page keeps the guest's id on its owner stack, and
     nothing is left that could pop it.
6. **Guest ids leak (vm_pages.rs:64, 296).**
   - An `InvalidRange` error after `add_active_guest` leaves the new id
     active.
   - So does dropping an unfinished `GuestRootBuilder`, which has no `Drop`.
   - Only `Drop for VmPages` removes an id.
7. **`Ok(count)` overstates what moved (vm_pages.rs:135, 157).**
   - Both bulk calls return the requested `count`. The range iterators skip
     holes silently, so fewer pages, or none, may have moved.
   - In the trace the host calls `add_4k_pages_builder` on the block it has
     just carved a guest from, moves nothing, and is told `Ok(4)`.
8. **`remove_4k_pages` pops before it checks, and a grandchild lands on a
   page its parent no longer owns (vm_pages.rs:150, 72).**
   - The host creates g1, donates pages to it, and calls `remove_4k_pages`
     on the donated range. For each page the code unmaps (the entry is
     already invalid), zeroes it and pops g1's id before it returns
     `UnownedPage` (spec S6 expects a failure with nothing reclaimed). g1's
     entry for page 8 stays valid while the stack says the host owns it.
   - g1 then carves g2 out of its table, page 8 included. Nothing checks
     that g1 is on top of the page's stack, so the stack becomes
     hypervisor → host → g2, with g2's parent missing.
   - If g2 later reclaims such a page with a successful `remove_4k_pages`,
     the host, not g1, is left on top. Spec 8 invariant 5 says the parent
     should be.

9. **Any builder can be passed as `to` (vm_pages.rs:90).**
   - The doc comment of `VmPages` says machines donate pages to child
     machines, but `add_pte_pages_builder` and `add_4k_pages_builder` take
     any `&mut GuestRootBuilder` and push its id without relating it to
     `self`.
   - In the trace g1 has carved g2; the host then passes g2's builder to
     `add_pte_pages_builder`, and page 14 gets the stack hypervisor → host
     → g2. `RefinesPageHolders` fails: the host gave a page to a VM that is
     not its child. Only the caller's discipline prevents it.

A further gap has no violation run of its own:

- **`length_bytes` can overflow (sequential_pages.rs:91).** `from_pages`
  accepts a run covering the whole address space, whose length 2^64 wraps
  to 0, contrary to the comment "Guaranteed not to overflow by the
  constructor". The small model reaches it (0, 4, 8, 12 at 4-bit addresses)
  but no platform has memory reaching address 0 and the top, so it is not
  checked.
## 5. Not modelled, and the plan

Done so far:
- SequentialPages, together with its abstract spec `PageRoundTrip` and the
  refinement check, on arrays and on the iterators of the constructors;
- PhysPages and PageTable;
- VmPages and GuestRootBuilder, with a nested two-guest configuration, and
  their abstract spec `PageHolders` with the refinement check (which the
  code fails);
- HostRootBuilder.

Still to do, most important first:

1. **Siblings and `PagesAreLinear` with two guest ids.** The nested
   configuration is only searched under a scenario constraint. A pass run
   would need the host's choices cut down some other way, for example
   fewer blocks with the same two ids.
2. **Boot composed with VmPages.** Instead of `VmPages`' identity-mapped
   `Init`, run `VmPages` from the states `HostRootBuilder` ends in. Both
   modules together exceed the time bound at useful sizes. `host_boot`
   checks the assumptions the `Init` makes instead.

Out of reach or out of scope:

- **Outside TLC's reach or the repository.** `handle_page_fault` and
  `do_guest_fault`, the real radix walk, and the TLB.
- **Host page contents at boot.** `HostRootBuilder::add_4k_pages` says it
  adds "zeroed pages" but never cleans them (vm_pages.rs:257). What memory
  holds when `HypPageAlloc` hands it out is outside the repository, so
  `HostRootBuilder` does not track contents. The guest-side twin of this
  gap is `ZeroPagesZeroed`.
- **Contents of a new guest's root.** `create_guest_root_builder` hands
  four of the parent's pages to `T::new` as they were (never `CleanPage`,
  unlike `add_pte_pages_builder`, vm_pages.rs:78). Whether they reach the
  child's table with the parent's data depends on `T::new`, whose code is
  not in this repository, so no run checks it.
- **The hash function.** It is abstracted to the sequence of pairs it absorbs.
- **Page sizes.** Only 4 KiB pages exist, so `Non4kPteEntry` is unreachable.
- **`HostRootPages::into_inner`.** It only moves the field out and changes no
  state.
- **`base()` and the tests.** `base()` is a pure getter. The unit tests'
  inputs are among the inputs `SequentialPages` enumerates, scaled to four
  address bits.
- **Boot GPAs beyond `host_gpa_size`.** The boot code never passes them in
  the model. `from_hyp_mem` sizes the PTE pages for `host_gpa_size`, but
  nothing in the builder checks `to_addr` against it, so a PTE-exhaustion
  panic beyond that size is left out.

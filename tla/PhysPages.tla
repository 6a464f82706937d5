----------------------------- MODULE PhysPages -----------------------------
(***************************************************************************)
(* The physical page directory (riscv_page_tables::PageState/PhysPages):   *)
(* for every physical page a bounded stack of owner ids, the donation      *)
(* chain hypervisor -> host -> guest -> ..., and the set of active guest   *)
(* ids. Its code is not part of this repository's source; the operations  *)
(* are modelled from the spec (sections 3 and 4.2). Every operation takes  *)
(* the directory's lock, so each is one atomic step of whoever calls it.   *)
(***************************************************************************)
EXTENDS Integers, Sequences, SequencesExt, FiniteSets

CONSTANTS
  Hyp,        \* PageOwnerId of the hypervisor: the bottom of every stack
  Host,       \* PageOwnerId::host()
  GuestIds,   \* the ids add_active_guest can hand out
  Pages,      \* physical page frames (page frame numbers)
  MaxOwners   \* depth of an owner stack

ASSUME MaxOwners \in Nat /\ MaxOwners >= 2

OwnerIds == {Hyp, Host} \cup GuestIds

VARIABLES
  owners,     \* owners[p]: the owner stack of page p, bottom first
  active,     \* the active-guest set
  allocated   \* every id add_active_guest has ever returned

physVars == <<owners, active, allocated>>

PhysTypeOK ==
  /\ owners \in [Pages -> Seq(OwnerIds)]
  /\ \A p \in Pages : Len(owners[p]) \in 1..MaxOwners
  /\ active \subseteq GuestIds
  /\ allocated \subseteq GuestIds

TopOwner(p) == Last(owners[p])

\* add_active_guest(): a fresh id, never handed out before, joins the active
\* set; with none left it fails (GuestId error) and nothing changes.
FreshGuestIds == GuestIds \ allocated

AddActiveGuest(id) ==
  /\ id \in FreshGuestIds
  /\ active' = active \cup {id}
  /\ allocated' = allocated \cup {id}

\* rm_active_guest(id).
RmActiveGuest(id) ==
  /\ active' = active \ {id}
  /\ UNCHANGED allocated

\* set_page_owner(addr, id) succeeds unless the stack is full.
CanSetPageOwner(p) == Len(owners[p]) < MaxOwners

\* The stack pushes of one step: ids[p] is pushed on the stack of each page
\* p in DOMAIN ids.
PushOwners(ids) ==
  owners' = [p \in Pages |->
               IF p \in DOMAIN ids THEN Append(owners[p], ids[p]) ELSE owners[p]]

SetPageOwner(p, id) == PushOwners(p :> id)

\* pop_owner(addr) fails on a stack holding only the hypervisor; otherwise it
\* pops and returns the id that was on top.
CanPopOwner(p) == Len(owners[p]) > 1

PopOwner(p) == owners' = [owners EXCEPT ![p] = Front(@)]
=============================================================================

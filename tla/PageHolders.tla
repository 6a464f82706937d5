---------------------------- MODULE PageHolders ----------------------------
(***************************************************************************)
(* What VmPages promises about who has each page, with no tables, owner    *)
(* stacks or loops: every page is held by at most one VM, a VM hands pages *)
(* only down to a child it created (spec 1: "donating it to a child"),     *)
(* and gives pages up only back to its parent or out of every table        *)
(* ("reclaiming it"). A VM is adopted once, by the VM that creates it, and *)
(* a page that has left every VM never comes back.                         *)
(***************************************************************************)
EXTENDS FiniteSets

CONSTANTS
  Vms,      \* the VMs: the root one and the guests
  Root,     \* the VM no one created (the host)
  Pages,    \* the physical pages
  Nobody    \* the parent of a VM not created yet, and of Root

VARIABLES
  holders,  \* holders[p]: the VMs that have page p ({} or one VM)
  parentOf  \* parentOf[g]: the VM that created g, or Nobody

phVars == <<holders, parentOf>>

Init ==
  /\ holders \in [Pages -> {{}} \cup {{v} : v \in Vms}]
  /\ parentOf = [v \in Vms |-> Nobody]

\* In the operators below, a step takes the pages `moved` from the holders
\* `old` to `new`.

\* v may hand pages to g: g is v's child, or g is new (never created, holds
\* nothing) and this step creates it as v's child.
MayGiveTo(v, g, old) ==
  /\ g # v
  /\ \/ parentOf[g] = v
     \/ /\ parentOf[g] = Nobody
        /\ g # Root
        /\ \A p \in Pages : g \notin old[p]

\* v hands some of its pages to g.
Give(v, g, old, new, moved) ==
  /\ MayGiveTo(v, g, old)
  /\ \A p \in moved : old[p] = {v} /\ new[p] = {g}
  /\ parentOf' = [parentOf EXCEPT ![g] = v]

\* v gives up some of its pages: back to its parent, or out of every VM.
GiveUp(v, old, new, moved) ==
  /\ moved # {}
  /\ \A p \in moved :
       /\ old[p] = {v}
       /\ new[p] \in {{}} \cup ({{parentOf[v]}} \cap {{w} : w \in Vms})
  /\ UNCHANGED parentOf

\* (old and new are bound once, as values, for the whole step.)
Next ==
  \E old \in {holders}, new \in {holders'} :
    LET moved == {p \in Pages : new[p] # old[p]} IN
    \E v \in Vms : \/ GiveUp(v, old, new, moved)
                 \/ \E g \in Vms : Give(v, g, old, new, moved)

Spec == Init /\ [][Next]_phVars
=============================================================================

-------------------------- MODULE SequentialPages --------------------------
(***************************************************************************)
(* SequentialPages<S> (riscv-page-tables/src/sequential_pages.rs): a       *)
(* linear handle over `count` consecutive pages starting at `addr`.        *)
(*                                                                         *)
(* The module follows one caller through                                   *)
(*   0. the iterator it hands in: any iterator of pages (an array, as in   *)
(*      the tests), or seq.into_iter() of a SequentialPages it built with  *)
(*      from_mem_range or From<Page> (the round trip of spec section 8),   *)
(*   1. SequentialPages::from_pages(input): the verification loop, one     *)
(*      action per loop iteration, ending in Ok(seq) or in Err(iter), and  *)
(*   2. the caller draining what it got back: seq.into_iter() on Ok, the   *)
(*      chain seq.into_iter() ++ once(page) ++ page_iter on Err, one       *)
(*      action per call of next().                                         *)
(*                                                                         *)
(* Addresses are byte addresses of AddrBits bits (64 in the code) and the  *)
(* page size is PageSize bytes (S::SIZE_BYTES): a small width keeps the    *)
(* top of the address space, where checked_add and `addr += SIZE` bite,    *)
(* inside the model.                                                       *)
(***************************************************************************)
EXTENDS Integers, Sequences, SequencesExt, Functions

CONSTANTS
  AddrBits,   \* width of a u64 physical address (64 in the code)
  PageSize,   \* S::SIZE_BYTES, a power of two
  MaxInput    \* longest page iterator handed to from_pages

ASSUME AddrBits \in Nat \ {0} /\ PageSize \in Nat \ {0} /\ MaxInput \in Nat

AddrLimit == 2^AddrBits

\* The page-aligned addresses: the values of PageAddr<S>::bits().
PageAddrs == {a \in 0..(AddrLimit - 1) : a % PageSize = 0}

\* Page<S> handles are linear: an iterator never yields one frame twice.
Inputs == {s \in BoundedSeq(PageAddrs, MaxInput) : IsInjective(s)}

VARIABLES
  made,      \* {} for any iterator, or {s}: the input is s.into_iter()
  input,     \* the pages the caller hands to from_pages, in order
  pos,       \* index in `input` of the page page_iter.next() returns next
  seq,       \* the SequentialPages under construction: [addr, count]
  lastAddr,  \* last_addr
  pc,        \* "start", "loop", "drain", "done" or "panic"
  result,    \* "none", "ok" or "err": what from_pages returned
  tail,      \* pages the returned iterator yields after seq's pages
  out        \* pages the caller has received from the returned iterator

vars == <<made, input, pos, seq, lastAddr, pc, result, tail, out>>

\* from_mem_range(start, count): "the caller must uniquely own that memory",
\* so the range lies inside the address space.
FromMemRange(start, count) == [addr |-> start, count |-> count]
OwnedRanges ==
  {FromMemRange(r[1], r[2]) :
     r \in {x \in PageAddrs \X (0..MaxInput) : x[1] + x[2] * PageSize <= AddrLimit}}

\* From<Page>: a sequence of one page.
FromPage(p) == [addr |-> p, count |-> 1]

\* The pages seq.into_iter() yields: SeqPageIter::next from addr upwards.
RangePages(s) == [i \in 1..s.count |-> s.addr + (i - 1) * PageSize]

\* The rest of page_iter from index i on.
Rest(i) == SubSeq(input, i, Len(input))

-----------------------------------------------------------------------------
(* from_pages                                                              *)

Init ==
  /\ \/ made = {} /\ input \in Inputs
     \/ \E s \in OwnedRanges \cup {FromPage(p) : p \in PageAddrs} :
          made = {s} /\ input = RangePages(s)
  /\ pos = 1
  /\ seq = [addr |-> 0, count |-> 0]
  /\ lastAddr = 0
  /\ pc = "start"
  /\ result = "none"
  /\ tail = <<>>
  /\ out = <<>>

\* SequentialPages::empty(): no pages, at address 0.
Empty == [addr |-> 0, count |-> 0]

\* create_dummy_page_once_iter(): a Once whose page was taken and forgotten,
\* so it yields nothing.
DummyOnce == <<>>

\* page_iter.next() is None: Err(empty().into_iter() ++ dummy-once ++ page_iter).
FromPagesEmpty ==
  /\ pc = "start"
  /\ Len(input) = 0
  /\ seq' = Empty
  /\ tail' = DummyOnce \o Rest(1)
  /\ result' = "err"
  /\ pc' = "drain"
  /\ UNCHANGED <<input, pos, lastAddr, out>>

\* Fault variant: the sequence starts empty, not holding the first page.
FromPagesFirstCountZero ==
  /\ pc = "start"
  /\ Len(input) > 0
  /\ seq' = [addr |-> input[1], count |-> 0]
  /\ lastAddr' = input[1]
  /\ pos' = 2
  /\ pc' = "loop"
  /\ UNCHANGED <<input, result, tail, out>>

\* The first page starts the sequence: addr = last_addr = its address, count 1.
FromPagesFirst ==
  /\ pc = "start"
  /\ Len(input) > 0
  /\ seq' = [addr |-> input[1], count |-> 1]
  /\ lastAddr' = input[1]
  /\ pos' = 2
  /\ pc' = "loop"
  /\ UNCHANGED <<input, result, tail, out>>

\* last_addr.checked_add(SIZE_BYTES) is Some(next_addr) and the page is there.
FromPagesAccept ==
  /\ pc = "loop"
  /\ pos <= Len(input)
  /\ lastAddr + PageSize < AddrLimit
  /\ input[pos] = lastAddr + PageSize
  /\ lastAddr' = input[pos]
  /\ seq' = [seq EXCEPT !.count = @ + 1]
  /\ pos' = pos + 1
  /\ UNCHANGED <<input, pc, result, tail, out>>

\* Fault variant: the error iterator leaves out the offending page.
RejectDropsPage ==
  /\ tail' = Rest(pos + 1)
  /\ result' = "err"
  /\ pc' = "drain"
  /\ UNCHANGED <<input, pos, seq, lastAddr, out>>

\* Both rejections return Err(seq.into_iter() ++ once(page) ++ page_iter).
Reject ==
  /\ tail' = <<input[pos]>> \o Rest(pos + 1)
  /\ result' = "err"
  /\ pc' = "drain"
  /\ UNCHANGED <<input, pos, seq, lastAddr, out>>

\* checked_add overflows: the page cannot follow last_addr.
FromPagesOverflow ==
  /\ pc = "loop"
  /\ pos <= Len(input)
  /\ lastAddr + PageSize >= AddrLimit
  /\ Reject

\* this_addr != next_addr: a gap (or a page out of order).
FromPagesGap ==
  /\ pc = "loop"
  /\ pos <= Len(input)
  /\ lastAddr + PageSize < AddrLimit
  /\ input[pos] # lastAddr + PageSize
  /\ Reject

\* page_iter is exhausted: Ok(seq).
FromPagesOk ==
  /\ pc = "loop"
  /\ pos > Len(input)
  /\ result' = "ok"
  /\ tail' = <<>>
  /\ pc' = "drain"
  /\ UNCHANGED <<input, pos, seq, lastAddr, out>>

-----------------------------------------------------------------------------
(* Draining the returned pages: SeqPageIter::next, then the chained tail.  *)

\* `addr += S::SIZE_BYTES` as a release build computes it: wrapping in u64.
NextPageAddr(a) == (a + PageSize) % AddrLimit

\* SeqPageIter::next with pages.count > 0: yields addr, then addr += SIZE_BYTES
\* and count -= 1. The addition is unchecked: below the top of the address
\* space it is exact; past it a debug build panics and a release build wraps.
\* Fault variant: `count -= 1` is done only while the address does not wrap.
SeqPageAdvanceKeepCount(s) ==
  [addr |-> NextPageAddr(s.addr),
   count |-> IF s.addr + PageSize < AddrLimit THEN s.count - 1 ELSE s.count]

\* The iterator's state after `addr += SIZE_BYTES; count -= 1`.
SeqPageAdvance(s) == [addr |-> NextPageAddr(s.addr), count |-> s.count - 1]

SeqIterNext ==
  /\ pc = "drain"
  /\ seq.count > 0
  /\ \/ /\ seq' = SeqPageAdvance(seq)
        /\ out' = Append(out, seq.addr)
        /\ UNCHANGED pc
     \/ /\ seq.addr + PageSize >= AddrLimit
        /\ pc' = "panic"
        /\ UNCHANGED <<seq, out>>
  /\ UNCHANGED <<input, pos, lastAddr, result, tail>>

\* SeqPageIter is exhausted (count == 0): Chain moves on to the tail.
TailNext ==
  /\ pc = "drain"
  /\ seq.count = 0
  /\ tail # <<>>
  /\ out' = Append(out, Head(tail))
  /\ tail' = Tail(tail)
  /\ UNCHANGED <<input, pos, seq, lastAddr, pc, result>>

DrainDone ==
  /\ pc = "drain"
  /\ seq.count = 0
  /\ tail = <<>>
  /\ pc' = "done"
  /\ UNCHANGED <<input, pos, seq, lastAddr, result, tail, out>>

\* from_pages pulls the top page of memory out of a SeqPageIter input, whose
\* `addr += SIZE_BYTES` overflows: a debug build panics there.
SourceOverflowPanics ==
  /\ made # {}
  /\ pc \in {"start", "loop"}
  /\ pos <= Len(input)
  /\ input[pos] + PageSize >= AddrLimit
  /\ pc' = "panic"
  /\ UNCHANGED <<input, pos, seq, lastAddr, result, tail, out>>

Next ==
  /\ UNCHANGED made
  /\ \/ FromPagesEmpty \/ FromPagesFirst \/ FromPagesAccept
     \/ FromPagesOverflow \/ FromPagesGap \/ FromPagesOk
     \/ SourceOverflowPanics
     \/ SeqIterNext \/ TailNext \/ DrainDone

Spec == Init /\ [][Next]_vars

-----------------------------------------------------------------------------
(* Reference definition and properties                                     *)

\* Reference: from_pages accepts exactly the non-empty inputs in which each
\* page is SIZE_BYTES above the previous one without leaving the address space.
IsSequential(s) ==
  /\ Len(s) > 0
  /\ \A i \in 1..(Len(s) - 1) : s[i + 1] = s[i] + PageSize

\* from_pages returns Ok exactly for sequential inputs, and its Ok value
\* covers all of them: base() is the first page and count the input length.
\* Checked on the value as returned, before the caller drains it.
FromPagesMatchesReference ==
  result # "none" /\ out = <<>> /\ pc # "panic" =>
    /\ (result = "ok") <=> IsSequential(input)
    /\ result = "ok" => seq.addr = input[1] /\ seq.count = Len(input)

\* No page leaks and none is duplicated: whatever from_pages returned, the
\* caller who drains it gets back exactly the pages it passed in, in order
\* (the Err case is the "holding an iterator so they don't leak" promise of
\* the from_pages doc comment; the Ok case is the round-trip law).
NoPageLost == pc = "done" => out = input

\* from_pages keeps its promise: the loop and the chained error iterator
\* implement PageRoundTrip, deciding Ok exactly for sequential inputs and
\* handing back the input's pages in order, whichever way it returned.
RoundTrip == INSTANCE PageRoundTrip WITH Accepts <- IsSequential

RefinesRoundTrip == RoundTrip!Spec
=============================================================================

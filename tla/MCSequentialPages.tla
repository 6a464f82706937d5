------------------------- MODULE MCSequentialPages -------------------------
(***************************************************************************)
(* SequentialPages with 4-bit byte addresses and 4-byte pages: four page   *)
(* frames 0, 4, 8, 12, the last of which touches the top of the address    *)
(* space, and iterators of up to four pages, enough for every gap,         *)
(* reordering and overflow pattern and for a range covering all memory.    *)
(***************************************************************************)
EXTENDS SequentialPages

MCAddrBits == 4
MCPageSize == 4
MCMaxInput == 4
=============================================================================

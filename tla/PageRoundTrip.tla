--------------------------- MODULE PageRoundTrip ---------------------------
(***************************************************************************)
(* What SequentialPages::from_pages promises its caller, with no loop and  *)
(* no address arithmetic: it decides once whether the pages it was given   *)
(* are accepted, and whatever it decided, the value it returns hands the   *)
(* caller back the very pages it was given, one per next(), in order       *)
(* ("an Error will be returned holding an iterator to the passed in pages  *)
(* so they don't leak"; for Ok, the round-trip law of spec section 8).     *)
(***************************************************************************)
EXTENDS Naturals, Sequences

CONSTANTS
  Inputs,       \* the page sequences a caller can pass
  Accepts(_)    \* the inputs from_pages returns Ok for

VARIABLES
  input,   \* the pages passed in
  result,  \* "none" until from_pages returns, then "ok" or "err"
  out      \* the pages the caller has taken back so far

rtVars == <<input, result, out>>

Init ==
  /\ input \in Inputs
  /\ result = "none"
  /\ out = <<>>

\* from_pages returns.
Decide ==
  /\ result = "none"
  /\ result' = IF Accepts(input) THEN "ok" ELSE "err"
  /\ UNCHANGED <<input, out>>

\* One next() on the returned value yields the next page passed in.
Yield ==
  /\ result # "none"
  /\ Len(out) < Len(input)
  /\ out' = Append(out, input[Len(out) + 1])
  /\ UNCHANGED <<input, result>>

Next == Decide \/ Yield

Spec == Init /\ [][Next]_rtVars
=============================================================================

------------------------------ MODULE LeastScan ------------------------------
(***************************************************************************)
(* *std::min_element(begin(v), end(v)), as the one-sided runners evaluate  *)
(* it over memory that their peers write to meanwhile.                     *)
(*                                                                         *)
(* The elements are compared one after the other with the least so far.    *)
(* What min_element() returns is where that one is, and it is read for its *)
(* value once more.  Each time the least so far is needed, the build may   *)
(* read it from memory again or still have it in a register: either may    *)
(* come out of a data race.                                                *)
(*                                                                         *)
(* A comparison is one step.  An element that is written between its two   *)
(* reads might as well have been written before or after both: nobody but  *)
(* the reader can tell, and it keeps the older value in the register.      *)
(***************************************************************************)
EXTENDS Integers

\* A scan of size elements: the one to be compared next, the least so far, and
\* the value that was read of that.
Scans(size, values) == [next : 0..size, least : 0..(size - 1), seen : values]

Start == [next |-> 0, least |-> 0, seen |-> 0]

Complete(s, size) == s.next = size

\* What the least so far may be taken for.
Found(s, v) == {s.seen, v[s.least]}

\* What may become of a scan with its next step; equal elements leave the first.
Steps(s, v, size) ==
  IF s.next = 0 THEN {[next |-> 1, least |-> 0, seen |-> v[0]]}
  ELSE IF Complete(s, size) THEN {}
  ELSE {IF v[s.next] < value
        THEN [next |-> s.next + 1, least |-> s.next, seen |-> v[s.next]]
        ELSE [next |-> s.next + 1, least |-> s.least, seen |-> value] : value \in Found(s, v)}
=============================================================================

--------------------------- MODULE MCPublications ---------------------------
(***************************************************************************)
(* Instances of Publications for TLC: the cut points of an instance.       *)
(***************************************************************************)
EXTENDS Publications

Cut(snap, offset) == [snap |-> snap, offset |-> offset]

\* A chain of three, a rewound offset, and two reports for one snapshot time are
\* all there.
PlainCuts == {Cut(1, 1), Cut(2, 2), Cut(3, 1), Cut(3, 2)}
=============================================================================

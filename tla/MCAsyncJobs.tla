----------------------------- MODULE MCAsyncJobs -----------------------------
(***************************************************************************)
(* Small instances of AsyncJobs: up to three calls, two of them for the    *)
(* same probe, with request ids of their own or with a shared one.         *)
(***************************************************************************)
EXTENDS AsyncJobs, TLC

CONSTANTS c1, c2, c3, alice, bob, system, p1, p2

OneCall == {c1}
TwoCalls == {c1, c2}
ThreeCalls == {c1, c2, c3}
People == {alice, bob, system}
Self == [p \in People |-> p]
OwnRequest == [c \in {c1, c2, c3} |-> c]
SharedRequest == [c \in {c1, c2, c3} |-> IF c = c2 THEN c1 ELSE c]
Placement == [c \in {c1, c2, c3} |-> IF c = c3 THEN p2 ELSE p1]

\* c1 and c2 share a probe and are interchangeable while they have request ids of their own.
CallSymmetry == Permutations({c1, c2})
=============================================================================

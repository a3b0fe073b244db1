-------------------------- MODULE MCProjectRegistry --------------------------
(* Instances of ProjectRegistry for TLC. *)
EXTENDS ProjectRegistry, TLC
CONSTANTS a, b, P, Q, internal, health

NoCandidates == {}
TwoCandidates == {[id |-> a, path |-> P, class |-> health],
                  [id |-> b, path |-> Q, class |-> health]}

\* Handlers and time stamps are interchangeable.
Overlap == Permutations(Handlers) \cup Permutations(Stamps)
=============================================================================

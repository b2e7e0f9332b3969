---------------------------- MODULE MCServerQueue ----------------------------
(***************************************************************************)
(* Instances of ServerQueue for TLC: more readers than slots, so that      *)
(* tasks are deferred.                                                     *)
(***************************************************************************)
EXTENDS ServerQueue

\* Without is SelectSeq, on every short sequence.
Letters == {"a", "b", "c"}
ASSUME WithoutSelects ==
    \A s \in UNION {[1..n -> Letters] : n \in 0..5}, S \in SUBSET Letters :
        Without(s, S) = SelectSeq(s, LAMBDA x : x \notin S)
=============================================================================

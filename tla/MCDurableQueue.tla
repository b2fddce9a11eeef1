--------------------------- MODULE MCDurableQueue ---------------------------
(* Small instances of DurableQueue. *)
EXTENDS DurableQueue, TLC

CONSTANTS w1, w2, j1, j2

\* Two queues polled in this order; one request dedupes, one task has no handler.
MCQueueRank  == [deferred |-> 1, annuity |-> 2]
Plain        == [queue |-> "deferred", key |-> NoKey, handled |-> TRUE]
Deduped      == [queue |-> "annuity", key |-> "k", handled |-> TRUE]
Unhandled    == [queue |-> "annuity", key |-> NoKey, handled |-> FALSE]
MCKeyed      == {Plain, Deduped}
MCAllKinds   == {Deduped, Unhandled}
MCOneKey     == {Deduped}
MCOwnHosts   == w1 :> "h1" @@ w2 :> "h2"
MCSharedHost == w1 :> "h1" @@ w2 :> "h1"
Symmetry     == Permutations({j1, j2})
FullSymmetry == Permutations({j1, j2}) \union Permutations({w1, w2})
=============================================================================

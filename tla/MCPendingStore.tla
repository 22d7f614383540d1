--------------------------- MODULE MCPendingStore ---------------------------
EXTENDS PendingStore

\* What Without returns, said with the library's filter: the provers know nothing of
\* SelectSeq, so the module says where each record goes instead.
ASSUME WithoutFilters ==
    \A n \in 0..4 : \A s \in [1..n -> Record] : \A keys \in SUBSET Key :
        Without(s, keys) = SelectSeq(s, LAMBDA r : r.key \notin keys)
=============================================================================

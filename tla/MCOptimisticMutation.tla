------------------------ MODULE MCOptimisticMutation ------------------------
(***************************************************************************)
(* Instances of OptimisticMutation for TLC.  Two shapes of resource: one   *)
(* that every write replaces (a template key, a theme), and one of two     *)
(* fields of which a write changes one (a settings document).              *)
(***************************************************************************)
EXTENDS OptimisticMutation

CONSTANTS v1, v2, x1, x2

\* A write replaces the whole resource.
ReplaceVariables == {v1, v2}
ReplaceDocs == {v1, v2, x1}
ReplaceApply(doc, v) == v

\* A write sets one of the fields x1, x2; a caller that spreads an undefined
\* document would invent the other field, this one leaves the cache alone.
MergeVariables == {x1, x2} \X {v1, v2}
MergeDocs == [{x1, x2} -> {v1, v2}]
MergeApply(doc, v) == [doc EXCEPT ![v[1]] = v[2]]
MergeOptimistic(doc, v) == IF doc = Undefined THEN Undefined ELSE MergeApply(doc, v)
=============================================================================

--------------------------- MODULE BillingHistory ---------------------------
(***************************************************************************)
(* Billing with history variables that no action reads: which webhooks of  *)
(* one subscription were handled at once.  The retrieval, the lookup and   *)
(* the write of a webhook are not one transaction and no index makes the   *)
(* subscription of a row unique (billing.go, lines 382-474), so two that   *)
(* overlap may leave two rows or an older status.                          *)
(***************************************************************************)
EXTENDS Billing

VARIABLES
    together,  \* handlers that had another one of their subscription beside them
    raced      \* subscriptions with webhooks handled at once, none alone since

Overlap(s) ==
    \E g, h \in Handlers : g # h /\ sync'[g].sub = s /\ sync'[h].sub = s

\* A webhook that was alone all the time wrote the only row.
Rights(h, s) ==
    /\ sync[h].sub = s /\ h \notin together
    /\ sync'[h] = Idle /\ s \notin missed'
    /\ \A i, j \in RowsOf(s)' : i = j

Records ==
    /\ together' = {h \in Handlers :
                      /\ sync'[h] # Idle
                      /\ \/ h \in together
                         \/ \E g \in Handlers \ {h} : sync'[g].sub = sync'[h].sub}
    /\ raced' = {s \in Subs : \/ Overlap(s)
                              \/ s \in raced /\ \A h \in Handlers : ~Rights(h, s)}

HistoryInit == Init /\ together = {} /\ raced = {}
HistorySpec == HistoryInit /\ [][Next /\ Records]_<<vars, together, raced>>

---------------------------------------------------------------------------
InStep(s) == \E i \in DOMAIN rows : RowsOf(s) = {i} /\ rows[i].status = status[s]

\* "reconciles the local subscriptions row with the authoritative state of a
\* Stripe subscription" (billing.go, line 375): whatever the sweep wrote in
\* between, whichever webhooks failed before the last one, and although the
\* handlers of other subscriptions insert and update meanwhile, the settled
\* subscription has one row, with Stripe's status; and one webhook that is
\* handled alone mends what overlapping ones left in their one row.
RowsFollowStripe == \A s \in Subs : Settled(s) /\ s \notin raced => InStep(s)

\* Access that ended comes back only with a late answer: a canceled row becomes
\* something else only where a handler saves what it retrieved before, and
\* another webhook of the subscription was handled beside it.  The sweep does
\* not do it, and neither does a webhook that was late but alone.
CanceledStays ==
    [][\A i \in DOMAIN rows : rows[i].status = "canceled" =>
         \/ rows'[i].status = "canceled"
         \/ \E h \in together : sync[h].row = i /\ sync'[h] = Idle]_vars
=============================================================================

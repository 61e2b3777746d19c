------------------------------ MODULE Billing ------------------------------
(***************************************************************************)
(* The Go billing package for one organization: the subscriptions table    *)
(* that webhooks bring in line with Stripe (billing.go,                    *)
(* handlers/billing.go), the sweep of expired trials, and the guard in     *)
(* front of the host's routes with the monthly counter it reads            *)
(* (middleware/billing.go, quota.go).                                      *)
(*                                                                         *)
(* Handlers run at once and use no transaction: the retrieval of a         *)
(* subscription, the lookup of its row and the write are three steps.      *)
(* Stripe, the clock and the requests of the host are external.            *)
(***************************************************************************)
EXTENDS Integers, Sequences

CONSTANTS
    LastSub,       \* Stripe subscriptions of the organization: 1..LastSub, one after another
    AtOnce,        \* how many webhook handlers may run at once
    Requests,      \* how many guarded requests may run at once
    StarterLimit,  \* monthly limit of the plan given at registration, negative: unlimited
    PaidLimit,     \* monthly limit of the plan bought at Stripe, negative: unlimited
    MaxChanges,    \* bound: changes and reminders at Stripe
    MaxFaults,     \* bound: handlers that fail
    MaxFree,       \* bound: requests admitted in a month without a limit
    MaxAmount      \* bound: what one request adds to the counter

Subs == 1..LastSub
Handlers == 1..AtOnce

ASSUME BillingAssumption ==
    /\ LastSub \in Nat /\ AtOnce \in Nat
    /\ Requests \in Nat \ {0} /\ MaxAmount \in Nat \ {0}
    /\ StarterLimit \in Int /\ PaidLimit \in Int
    /\ {MaxChanges, MaxFaults, MaxFree} \subseteq Nat

VARIABLES
    status,   \* Stripe: the status of every subscription
    elapsed,  \* subscriptions whose trial_end has passed
    events,   \* webhooks on their way, per subscription
    rows,     \* the subscriptions table in the order of its inserts; gateway 0: the row
              \* made at registration
    sync,     \* what each webhook handler is at
    acting,   \* how many requests the guard let through, not ended yet
    used,     \* the usage_metrics row of the month
    free,     \* ghost: requests admitted this month without a limit: no row, an
              \* unlimited plan, or a read that failed
    missed,   \* ghost: subscriptions whose last webhook failed
    changes, faults  \* counters

stripe == <<status, elapsed, events, changes>>
usage  == <<acting, used, free>>
vars   == <<status, elapsed, events, rows, sync, acting, used, free, missed, changes, faults>>

States == {"trialing", "active", "past_due", "canceled"}
Rows   == [gateway : 0..LastSub, status : States, created : Nat]
Idle   == [phase |-> "idle", sub |-> 0, seen |-> "none", row |-> 0]

\* The host's registration may have given the organization a plan.
Init ==
    /\ status = [s \in Subs |-> "none"] /\ elapsed = {} /\ events = [s \in Subs |-> 0]
    /\ rows \in {<<>>, << [gateway |-> 0, status |-> "active", created |-> 1] >>}
    /\ sync = [h \in Handlers |-> Idle]
    /\ acting = 0 /\ used = 0 /\ free = 0 /\ missed = {}
    /\ changes = 0 /\ faults = 0

---------------------------------------------------------------------------
\* Stripe and the clock (external).

\* A completed checkout: a paid plan begins with a trial, and
\* checkout.session.completed and customer.subscription.created leave together.
\* The organization buys again only once its subscription was canceled.
Subscribes(s) ==
    /\ status[s] = "none" /\ \A p \in 1..(s - 1) : status[p] = "canceled"
    /\ status' = [status EXCEPT ![s] = "trialing"]
    /\ events' = [events EXCEPT ![s] = @ + 2]
    /\ UNCHANGED <<elapsed, rows, sync, usage, missed, changes, faults>>

TrialElapses(s) ==
    /\ status[s] # "none" /\ s \notin elapsed
    /\ elapsed' = elapsed \cup {s}
    /\ UNCHANGED <<status, events, rows, sync, usage, missed, changes, faults>>

\* A change of status, or (to = status[s]) an event without one: trial_will_end,
\* an invoice.  A canceled subscription stays so.
StripeMoves(s, to) ==
    /\ changes < MaxChanges
    /\ status[s] \notin {"none", "canceled"} /\ (to = "trialing" => status[s] = "trialing")
    /\ status' = [status EXCEPT ![s] = to]
    /\ events' = [events EXCEPT ![s] = @ + 1]
    /\ changes' = changes + 1
    /\ UNCHANGED <<elapsed, rows, sync, usage, missed, faults>>

---------------------------------------------------------------------------
\* Webhook, up to the answer of Stripe: whatever the event was about, Stripe is
\* asked (handlers are alike: the first free one).
WebhookBegins(h, s) ==
    /\ sync[h] = Idle /\ (\A g \in 1..(h - 1) : sync[g] # Idle)
    /\ events[s] > 0
    /\ events' = [events EXCEPT ![s] = @ - 1]
    /\ sync' = [sync EXCEPT ![h] = [phase |-> "retrieved", sub |-> s, seen |-> status[s], row |-> 0]]
    /\ UNCHANGED <<status, elapsed, rows, usage, missed, changes, faults>>

RowsOf(s) == {i \in DOMAIN rows : rows[i].gateway = s}

\* Variant: the row of an earlier webhook is not found.
FindsNothing(h) ==
    /\ sync[h].phase = "retrieved"
    /\ sync' = [sync EXCEPT ![h].phase = "looked"]
    /\ UNCHANGED <<stripe, rows, usage, missed, faults>>

\* Variant: the row is looked up by its organization.
FindsAny(h) ==
    /\ sync[h].phase = "retrieved"
    /\ \/ rows = <<>> /\ sync' = [sync EXCEPT ![h].phase = "looked"]
       \/ \E i \in DOMAIN rows : sync' = [sync EXCEPT ![h].phase = "looked", ![h].row = i]
    /\ UNCHANGED <<stripe, rows, usage, missed, faults>>

\* applyStripeSubscription: First(&existing), any if there are several.
LooksUp(h) ==
    /\ sync[h].phase = "retrieved"
    /\ \/ RowsOf(sync[h].sub) = {} /\ sync' = [sync EXCEPT ![h].phase = "looked"]
       \/ \E i \in RowsOf(sync[h].sub) :
             sync' = [sync EXCEPT ![h].phase = "looked", ![h].row = i]
    /\ UNCHANGED <<stripe, rows, usage, missed, faults>>

\* Create, with the present as created_at.
Creates(h) ==
    /\ sync[h].phase = "looked" /\ sync[h].row = 0
    /\ rows' = Append(rows, [gateway |-> sync[h].sub, status |-> sync[h].seen,
                             created |-> Len(rows) + 1])
    /\ sync' = [sync EXCEPT ![h] = Idle]
    /\ missed' = missed \ {sync[h].sub}
    /\ UNCHANGED <<stripe, usage, faults>>

\* Save writes every column, and `values` has no created_at.
Saved(r, seen) == [r EXCEPT !.status = seen, !.created = 0]

Saves(h) ==
    /\ sync[h].phase = "looked" /\ sync[h].row # 0
    /\ rows' = [rows EXCEPT ![sync[h].row] = Saved(@, sync[h].seen)]
    /\ sync' = [sync EXCEPT ![h] = Idle]
    /\ missed' = missed \ {sync[h].sub}
    /\ UNCHANGED <<stripe, usage, faults>>

\* Stripe or the database fails: logged, and the webhook is answered with 200.
SyncFails(h) ==
    /\ sync[h] # Idle /\ faults < MaxFaults
    /\ missed' = missed \cup {sync[h].sub}
    /\ sync' = [sync EXCEPT ![h] = Idle]
    /\ faults' = faults + 1
    /\ UNCHANGED <<stripe, rows, usage>>

Expired(r) == r.status = "trialing" /\ r.gateway \in elapsed

\* RunTrialExpirationSweep, one statement.
Sweep ==
    /\ \E i \in DOMAIN rows : Expired(rows[i])
    /\ rows' = [i \in DOMAIN rows |->
                  IF Expired(rows[i]) THEN [rows[i] EXCEPT !.status = "past_due"] ELSE rows[i]]
    /\ UNCHANGED <<stripe, sync, usage, missed, faults>>

---------------------------------------------------------------------------
\* loadSubscription: created_at DESC, any if there are several.
Current(i) == \A j \in DOMAIN rows : rows[i].created >= rows[j].created

LimitOf(r) == IF r.gateway = 0 THEN StarterLimit ELSE PaidLimit

\* The reads of a guarded route, each of which may fail.
Reads == {"status", "plan", "count"}

\* Variant: a request that reaches the limit is let through.
OneTooMany(r, failed) == "count" \in failed \/ used <= LimitOf(r)

\* CheckQuota with a limit: a count that cannot be read is 0.
WithinQuota(r, failed) == (IF "count" \in failed THEN 0 ELSE used) < LimitOf(r)

\* CheckActiveSubscription: a row that cannot be read is no row.
Admits(r, failed) == "status" \in failed \/ r.status \notin {"past_due", "canceled"}

\* The request is not counted against a limit.
Unlimited(r, failed) == "plan" \in failed \/ LimitOf(r) < 0

\* The guard of a route with ActiveSubscriptionRequired and RequireQuota: one
\* step, since nothing the host does is decided between its reads.
RequestBegins ==
    /\ acting < Requests
    /\ \E failed \in SUBSET Reads :
         /\ rows = <<>> \/ \E i \in DOMAIN rows : Current(i) /\ Admits(rows[i], failed)
         /\ \/ /\ rows = <<>> \/ \E i \in DOMAIN rows : Current(i) /\ Unlimited(rows[i], failed)
               /\ free < MaxFree /\ free' = free + 1
            \/ /\ \E i \in DOMAIN rows : /\ Current(i) /\ ~Unlimited(rows[i], failed)
                                         /\ WithinQuota(rows[i], failed)
               /\ IF "count" \in failed THEN free < MaxFree /\ free' = free + 1
                                        ELSE UNCHANGED free
    /\ acting' = acting + 1
    /\ UNCHANGED <<stripe, rows, sync, used, missed, faults>>

\* IncrementMetric after the action succeeded: one upsert on the month's row.
RequestSucceeds ==
    /\ acting > 0
    /\ acting' = acting - 1 /\ \E by \in 1..MaxAmount : used' = used + by
    /\ UNCHANGED <<stripe, rows, sync, free, missed, faults>>

RequestFails ==
    /\ acting > 0
    /\ acting' = acting - 1
    /\ UNCHANGED <<stripe, rows, sync, used, free, missed, faults>>

\* CurrentMonthStart: another period, another counter.
MonthTurns ==
    /\ used + free > 0 /\ used' = 0 /\ free' = 0
    /\ UNCHANGED <<stripe, rows, sync, acting, missed, faults>>

---------------------------------------------------------------------------
Next ==
    \/ \E s \in Subs : Subscribes(s) \/ TrialElapses(s)
    \/ \E s \in Subs, to \in States : StripeMoves(s, to)
    \/ \E h \in Handlers, s \in Subs : WebhookBegins(h, s)
    \/ \E h \in Handlers : LooksUp(h) \/ Creates(h) \/ Saves(h) \/ SyncFails(h)
    \/ Sweep \/ MonthTurns
    \/ RequestBegins \/ RequestSucceeds \/ RequestFails

Spec == Init /\ [][Next]_vars

---------------------------------------------------------------------------
Phases == {"retrieved", "looked"}
Syncs  == {Idle} \cup [phase : Phases, sub : Subs, seen : States, row : Nat]

TypeOK ==
    /\ status \in [Subs -> States \cup {"none"}] /\ elapsed \subseteq Subs
    /\ events \in [Subs -> Nat]
    /\ rows \in Seq(Rows) /\ sync \in [Handlers -> Syncs]
    /\ acting \in 0..Requests /\ used \in Nat /\ free \in Nat
    /\ missed \subseteq Subs
    /\ changes \in Nat /\ faults \in Nat

\* Check, act and count are three steps: a month goes over the limit of its
\* plan by no more than what the requests that ran at once add, less one, and
\* what those add that no limit was applied to.
Largest == IF StarterLimit > PaidLimit THEN StarterLimit ELSE PaidLimit
OvershootIsBounded ==
    used + 1 <= MaxAmount * (free + Requests) + IF Largest > 0 THEN Largest ELSE 1

\* Nothing of the subscription is on its way, its last webhook was handled, and
\* its trial is not just over (Stripe is about to say what follows).
Settled(s) ==
    /\ status[s] # "none" /\ events[s] = 0 /\ s \notin missed
    /\ \A h \in Handlers : sync[h].sub # s
    /\ ~(status[s] = "trialing" /\ s \in elapsed)

\* loadSubscription "returns the org's most recent subscription row": with
\* everything settled, the guard reads the row of the last subscription.
GuardReadsLatest ==
    (\A s \in Subs : status[s] = "none" \/ Settled(s)) =>
        \A s \in Subs, i \in DOMAIN rows :
            Current(i) /\ status[s] # "none" => rows[i].gateway >= s
=============================================================================

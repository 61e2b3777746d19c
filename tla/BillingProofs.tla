--------------------------- MODULE BillingProofs ---------------------------
(***************************************************************************)
(* Theorems about Billing, for any number of subscriptions, handlers and   *)
(* requests and any limits.                                                *)
(***************************************************************************)
EXTENDS BillingHistory, SequenceTheorems, TLAPS

\* A subscription Stripe does not know has no webhook, and a handler that has
\* nothing to do is Idle.
Known    == \A s \in Subs : status[s] = "none" => events[s] = 0
Cap      == IF Largest > 0 THEN Largest ELSE 1
InBounds == used + MaxAmount * acting + 1 <= MaxAmount * (free + Requests) + Cap

BaseInv == TypeOK /\ Known /\ InBounds

\* A handler that nobody was beside has its subscription to itself: what it
\* looked up is still so when it writes, and what it retrieved is Stripe's status
\* unless another webhook is on its way.  One that had company is at a raced
\* subscription.  What a row says of the end of a subscription is true.
Crowded  == \A h \in Handlers :
              /\ h \in together => sync[h] # Idle /\ sync[h].sub \in raced
              /\ \A g \in Handlers : g # h /\ sync[h] # Idle /\ sync[g].sub = sync[h].sub => h \in together
OneRow   == \A s \in Subs : s \notin raced => \A i, j \in RowsOf(s) : i = j
Looked   == \A h \in Handlers :
              /\ sync[h].phase = "retrieved" => sync[h].row = 0
              /\ \A s \in Subs : sync[h].phase = "looked" /\ sync[h].sub = s =>
                   IF sync[h].row = 0 THEN h \in together \/ RowsOf(s) = {} ELSE sync[h].row \in RowsOf(s)
Fresh    == \A h \in Handlers : h \notin together =>
              (sync[h] # Idle /\ events[sync[h].sub] = 0 => sync[h].seen = status[sync[h].sub])
Canceled == \A i \in DOMAIN rows : rows[i].status = "canceled" =>
              /\ rows[i].gateway # 0 /\ status[rows[i].gateway] = "canceled"
              /\ \A h \in Handlers : h \notin together =>
                   (sync[h].sub = rows[i].gateway => sync[h].seen = "canceled")
SeenKept == \A h \in Handlers : sync[h].seen = "canceled" => status[sync[h].sub] = "canceled"

SyncInv == Crowded /\ OneRow /\ Looked /\ Fresh /\ Canceled /\ SeenKept /\ RowsFollowStripe

\* The constants are numbers.
LEMMA Numbers ==
  /\ LastSub \in Nat /\ AtOnce \in Nat /\ Requests \in Nat /\ Requests > 0
  /\ StarterLimit \in Int /\ PaidLimit \in Int /\ MaxFree \in Nat /\ MaxChanges \in Nat /\ MaxFaults \in Nat
  /\ MaxAmount \in Nat /\ MaxAmount > 0
  /\ Cap \in Nat /\ Cap > 0 /\ StarterLimit <= Cap /\ PaidLimit <= Cap
  BY BillingAssumption DEF Cap, Largest

\* Zero is no subscription, and a state is not "none".
LEMMA Words == 0 \notin Subs /\ "none" \notin States /\ "idle" \notin Phases /\ "canceled" \in States
               /\ Subs \subseteq Nat /\ Handlers \subseteq Nat
  BY Numbers DEF Subs, States, Phases, Handlers

\* What a handler is at: nothing, or a subscription with a status of Stripe.
LEMMA Handler ==
  ASSUME TypeOK, NEW h \in Handlers
  PROVE  /\ sync[h] \in Syncs
         /\ sync[h] = Idle <=> sync[h].phase = "idle"
         /\ sync[h] # Idle <=> sync[h].sub \in Subs
         /\ sync[h] # Idle => /\ sync[h] \in [phase : Phases, sub : Subs, seen : States, row : Nat]
                              /\ sync[h].seen \in States /\ sync[h].row \in Nat /\ sync[h].phase \in Phases
         /\ sync[h] = Idle => sync[h].sub = 0 /\ sync[h].seen = "none"
  <1>1. sync[h] \in Syncs
    BY DEF TypeOK
  <1>2. CASE sync[h] = Idle
    BY <1>1, <1>2, Words DEF Idle
  <1>3. CASE sync[h] # Idle
    <2>1. sync[h] \in [phase : Phases, sub : Subs, seen : States, row : Nat]
      BY <1>1, <1>3 DEF Syncs
    <2> QED BY <1>1, <1>3, <2>1, Words
  <1> QED BY <1>2, <1>3

\* The table as a function on its positions.
LEMMA Table ==
  ASSUME TypeOK
  PROVE  /\ Len(rows) \in Nat /\ DOMAIN rows = 1..Len(rows) /\ rows \in [1..Len(rows) -> Rows]
         /\ \A i \in DOMAIN rows : /\ rows[i] \in Rows /\ rows[i].status \in States
                                   /\ rows[i].gateway \in 0..LastSub /\ rows[i].created \in Nat
                                   /\ rows[i].gateway = 0 \/ rows[i].gateway \in Subs
  <1>1. rows \in Seq(Rows)
    BY DEF TypeOK
  <1>2. Len(rows) \in Nat /\ DOMAIN rows = 1..Len(rows) /\ rows \in [1..Len(rows) -> Rows]
    BY <1>1, LenProperties
  <1>3. \A i \in DOMAIN rows : rows[i] \in Rows
    BY <1>2
  <1> QED BY <1>2, <1>3, Numbers DEF Rows, Subs

\* An insert adds a position, and nothing else changes.
LEMMA Inserted ==
  ASSUME TypeOK, NEW h \in Handlers, Creates(h)
  PROVE  /\ rows' \in Seq(Rows) /\ DOMAIN rows' = DOMAIN rows \cup {Len(rows) + 1}
         /\ Len(rows) + 1 \notin DOMAIN rows
         /\ \A i \in DOMAIN rows : rows'[i] = rows[i]
         /\ rows'[Len(rows) + 1] = [gateway |-> sync[h].sub, status |-> sync[h].seen, created |-> Len(rows) + 1]
  <1> DEFINE r == [gateway |-> sync[h].sub, status |-> sync[h].seen, created |-> Len(rows) + 1]
  <1>1. sync[h].phase = "looked"
    BY DEF Creates
  <1>2. sync[h].sub \in Subs /\ sync[h].seen \in States
    BY <1>1, Handler
  <1>3. r \in Rows
    BY <1>2, Table, Numbers DEF Rows, Subs
  <1>4. rows \in Seq(Rows) /\ rows' = Append(rows, r)
    BY DEF TypeOK, Creates
  <1>5. /\ Append(rows, r) \in Seq(Rows) /\ Len(Append(rows, r)) = Len(rows) + 1
        /\ \A i \in 1..Len(rows) : Append(rows, r)[i] = rows[i]
        /\ Append(rows, r)[Len(rows) + 1] = r
    BY <1>3, <1>4, AppendProperties
  <1>6. DOMAIN rows' = 1..(Len(rows) + 1)
    BY <1>4, <1>5, LenProperties
  <1> QED BY <1>4, <1>5, <1>6, Table

\* An update by primary key changes one position.
LEMMA Updated ==
  ASSUME TypeOK, NEW h \in Handlers, Saves(h), sync[h].row \in DOMAIN rows
  PROVE  /\ rows' \in Seq(Rows) /\ DOMAIN rows' = DOMAIN rows
         /\ \A i \in DOMAIN rows : i # sync[h].row => rows'[i] = rows[i]
         /\ rows'[sync[h].row] = [rows[sync[h].row] EXCEPT !.status = sync[h].seen, !.created = 0]
         /\ rows'[sync[h].row].status = sync[h].seen
         /\ rows'[sync[h].row].gateway = rows[sync[h].row].gateway
  <1> DEFINE k == sync[h].row
             r == [rows[k] EXCEPT !.status = sync[h].seen, !.created = 0]
  <1>1. sync[h].seen \in States
    BY Handler DEF Saves, Idle
  <1>2. rows[k] \in Rows
    BY Table
  <1>3. r \in Rows /\ r.status = sync[h].seen /\ r.gateway = rows[k].gateway
    BY <1>1, <1>2 DEF Rows
  <1>4. rows \in Seq(Rows) /\ rows' = [rows EXCEPT ![k] = r] /\ k \in 1..Len(rows)
    BY Table DEF TypeOK, Saves, Saved
  <1>5. /\ [rows EXCEPT ![k] = r] \in Seq(Rows)
        /\ \A j \in 1..Len(rows) : [rows EXCEPT ![k] = r][j] = IF j = k THEN r ELSE rows[j]
    BY <1>3, <1>4, ExceptSeq
  <1> HIDE DEF r
  <1>6. DOMAIN rows' = DOMAIN rows
    BY <1>4
  <1>7. rows'[k] = r /\ \A i \in DOMAIN rows : i # k => rows'[i] = rows[i]
    BY <1>4, <1>5, Table
  <1> QED BY <1>3, <1>4, <1>5, <1>6, <1>7 DEF r

\* The sweep changes the status of expired trials and nothing else.
LEMMA Swept ==
  ASSUME TypeOK, Sweep
  PROVE  /\ rows' \in Seq(Rows) /\ DOMAIN rows' = DOMAIN rows
         /\ \A i \in DOMAIN rows :
              /\ rows'[i].gateway = rows[i].gateway
              /\ IF Expired(rows[i]) THEN rows'[i].status = "past_due" ELSE rows'[i] = rows[i]
  <1>1. /\ DOMAIN rows' = DOMAIN rows
        /\ \A i \in DOMAIN rows :
             rows'[i] = IF Expired(rows[i]) THEN [rows[i] EXCEPT !.status = "past_due"] ELSE rows[i]
    BY DEF Sweep
  <1>2. \A i \in DOMAIN rows : rows[i] \in Rows
    BY Table
  <1>3. \A i \in DOMAIN rows : [rows[i] EXCEPT !.status = "past_due"] \in Rows
    BY <1>2 DEF Rows, States
  <1>4. \A i \in DOMAIN rows : rows'[i] \in Rows
    BY <1>1, <1>2, <1>3
  <1>5. rows' \in [1..Len(rows) -> Rows]
    BY <1>1, <1>4, Table DEF Sweep
  <1>6. rows' \in Seq(Rows)
    BY <1>5, Table
  <1>7. \A i \in DOMAIN rows :
           /\ [rows[i] EXCEPT !.status = "past_due"].gateway = rows[i].gateway
           /\ [rows[i] EXCEPT !.status = "past_due"].status = "past_due"
    BY <1>2 DEF Rows
  <1> QED BY <1>1, <1>6, <1>7

\* One request more, and what it may add; one that ends and what it added.
LEMMA More ==
  ASSUME NEW u \in Nat, NEW a \in Nat, NEW f \in Nat, a + 1 <= Requests
  PROVE  /\ MaxAmount * (f + 1 + Requests) = MaxAmount * (f + Requests) + MaxAmount
         /\ MaxAmount * (a + 1) = MaxAmount * a + MaxAmount
         /\ MaxAmount * (a + 1) <= MaxAmount * (f + Requests)
         /\ MaxAmount * a \in Nat /\ MaxAmount * (f + Requests) \in Nat
  <1>1. MaxAmount \in Nat /\ Requests \in Nat
    BY Numbers
  <1>2. \A x, y \in Nat : MaxAmount * (x + y) = MaxAmount * x + MaxAmount * y /\ MaxAmount * x \in Nat
    BY <1>1
  <1>3. MaxAmount * (a + 1) = MaxAmount * a + MaxAmount
    BY <1>1, <1>2
  <1>4. MaxAmount * (f + 1 + Requests) = MaxAmount * (f + Requests) + MaxAmount
    <2>1. f + 1 + Requests = (f + Requests) + 1 /\ f + Requests \in Nat /\ MaxAmount * 1 = MaxAmount
      BY <1>1
    <2> QED BY <1>2, <2>1
  <1>5. PICK d \in Nat : f + Requests = (a + 1) + d
    <2>1. f + Requests - (a + 1) \in Nat
      BY <1>1
    <2> QED BY <1>1, <2>1
  <1>6. MaxAmount * (f + Requests) = MaxAmount * (a + 1) + MaxAmount * d /\ MaxAmount * d \in Nat
    <2>1. a + 1 \in Nat
      OBVIOUS
    <2>2. MaxAmount * ((a + 1) + d) = MaxAmount * (a + 1) + MaxAmount * d
      BY <1>2, <2>1
    <2> QED BY <1>2, <1>5, <2>2
  <1>7. MaxAmount * (a + 1) \in Nat
    BY <1>2
  <1> QED BY <1>1, <1>2, <1>3, <1>4, <1>6, <1>7

LEMMA AllAtOnce ==
  ASSUME NEW a \in Nat, NEW f \in Nat, a <= Requests
  PROVE  MaxAmount * a <= MaxAmount * (f + Requests) /\ MaxAmount * a \in Nat
  <1>1. MaxAmount \in Nat /\ Requests \in Nat
    BY Numbers
  <1>2. \A x, y \in Nat : MaxAmount * (x + y) = MaxAmount * x + MaxAmount * y /\ MaxAmount * x \in Nat
    BY <1>1
  <1>3. PICK d \in Nat : f + Requests = a + d
    <2>1. f + Requests - a \in Nat
      BY <1>1
    <2> QED BY <1>1, <2>1
  <1>4. MaxAmount * (f + Requests) = MaxAmount * a + MaxAmount * d
    BY <1>2, <1>3
  <1> QED BY <1>2, <1>4

LEMMA Fewer ==
  ASSUME NEW a \in Nat, NEW by \in 0..MaxAmount, a > 0
  PROVE  MaxAmount * (a - 1) + by <= MaxAmount * a /\ MaxAmount * (a - 1) \in Nat
  <1>1. a = (a - 1) + 1 /\ a - 1 \in Nat /\ MaxAmount \in Nat
    BY Numbers
  <1>2. \A x, y \in Nat : MaxAmount * (x + y) = MaxAmount * x + MaxAmount * y /\ MaxAmount * x \in Nat
    BY <1>1
  <1>3. MaxAmount * a = MaxAmount * (a - 1) + MaxAmount * 1
    BY <1>1, <1>2
  <1> QED BY <1>1, <1>2, <1>3

---------------------------------------------------------------------------
\* An organization begins with no subscription, and with a row or without one.
LEMMA InitBase == Init => BaseInv
  <1> SUFFICES ASSUME Init PROVE BaseInv
    OBVIOUS
  <1>1. rows \in Seq(Rows)
    <2>1. [gateway |-> 0, status |-> "active", created |-> 1] \in Rows
      BY Numbers DEF Rows, States
    <2>2. << >> \in Seq(Rows) /\ << [gateway |-> 0, status |-> "active", created |-> 1] >> \in Seq(Rows)
      BY <2>1
    <2> QED BY <2>2 DEF Init
  <1>2. TypeOK
    BY <1>1, Numbers DEF Init, TypeOK, Syncs
  <1>3. Known
    BY DEF Init, Known
  <1>4. InBounds
    BY Numbers, 0 \in Nat, 0 <= Requests, AllAtOnce DEF Init, InBounds
  <1> QED BY <1>2, <1>3, <1>4 DEF BaseInv

\* Steps of Stripe and of the handlers: the types, and who is known.
LEMMA BaseStripe ==
  ASSUME BaseInv, NEW s \in Subs,
         Subscribes(s) \/ TrialElapses(s) \/ \E to \in States : StripeMoves(s, to)
  PROVE  BaseInv'
  <1> USE DEF BaseInv
  <1>1. UNCHANGED <<rows, sync, acting, used, free, missed, faults>>
    BY DEF Subscribes, TrialElapses, StripeMoves, usage
  <1>2. events' \in [Subs -> Nat] /\ elapsed' \subseteq Subs /\ changes' \in Nat
    BY SMTT(30) DEF TypeOK, Subscribes, TrialElapses, StripeMoves
  <1>3. status' \in [Subs -> States \cup {"none"}] /\ status'[s] # "none"
    BY DEF TypeOK, Subscribes, TrialElapses, StripeMoves, States
  <1>4. \A t \in Subs : t # s => status'[t] = status[t] /\ events'[t] = events[t]
    BY DEF TypeOK, Subscribes, TrialElapses, StripeMoves
  <1>5. TypeOK'
    BY <1>1, <1>2, <1>3 DEF TypeOK
  <1>6. Known'
    BY <1>3, <1>4 DEF Known
  <1> QED BY <1>1, <1>5, <1>6 DEF InBounds

\* A webhook is about a subscription Stripe knows.
LEMMA BaseHandlers ==
  ASSUME BaseInv, NEW h \in Handlers,
         (\E s \in Subs : WebhookBegins(h, s)) \/ LooksUp(h) \/ Creates(h) \/ Saves(h) \/ SyncFails(h),
         Saves(h) => sync[h].row \in DOMAIN rows
  PROVE  BaseInv'
  <1> USE DEF BaseInv
  <1>1. CASE \E s \in Subs : WebhookBegins(h, s)
    <2>1. PICK s \in Subs : WebhookBegins(h, s)
      BY <1>1
    <2>2. events[s] \in Nat /\ events[s] > 0 /\ events' = [events EXCEPT ![s] = events[s] - 1]
      BY <2>1 DEF WebhookBegins, TypeOK
    <2>3. events' \in [Subs -> Nat]
      BY <2>2 DEF TypeOK
    <2>4. status[s] \in States
      BY <2>2 DEF Known, TypeOK
    <2>5. [phase |-> "retrieved", sub |-> s, seen |-> status[s], row |-> 0] \in Syncs
      BY <2>4 DEF Syncs, Phases
    <2>6. sync' \in [Handlers -> Syncs]
      BY <2>1, <2>5 DEF WebhookBegins, TypeOK
    <2>7. TypeOK' /\ InBounds'
      BY <2>1, <2>3, <2>6 DEF WebhookBegins, TypeOK, usage, InBounds
    <2>8. Known'
      BY <2>1, <2>2 DEF WebhookBegins, Known, TypeOK
    <2> QED BY <2>7, <2>8
  <1>2. CASE LooksUp(h)
    <2>1. sync[h] \in [phase : Phases, sub : Subs, seen : States, row : Nat]
      BY <1>2, Handler DEF LooksUp
    <2>2. \A i \in DOMAIN rows : i \in Nat
      BY Table
    <2>3. \A i \in Nat : [sync[h] EXCEPT !.phase = "looked", !.row = i] \in Syncs
      BY <2>1 DEF Syncs, Phases
    <2>4. [sync[h] EXCEPT !.phase = "looked"] \in Syncs
      BY <2>1 DEF Syncs, Phases
    <2>5. \/ sync' = [sync EXCEPT ![h] = [sync[h] EXCEPT !.phase = "looked"]]
          \/ \E i \in Nat : sync' = [sync EXCEPT ![h] = [sync[h] EXCEPT !.phase = "looked", !.row = i]]
      BY <1>2, <2>2 DEF LooksUp, RowsOf, TypeOK
    <2>6. sync' \in [Handlers -> Syncs]
      BY <2>3, <2>4, <2>5 DEF TypeOK
    <2> QED BY <1>2, <2>6 DEF LooksUp, TypeOK, stripe, usage, InBounds, Known
  <1>3. CASE Creates(h)
    <2>1. rows' \in Seq(Rows)
      BY <1>3, Inserted
    <2>2. sync' \in [Handlers -> Syncs] /\ missed' \subseteq Subs
      BY <1>3 DEF Creates, TypeOK, Syncs
    <2> QED BY <1>3, <2>1, <2>2 DEF Creates, TypeOK, stripe, usage, InBounds, Known
  <1>4. CASE Saves(h)
    <2>1. rows' \in Seq(Rows)
      BY <1>4, Updated
    <2>2. sync' \in [Handlers -> Syncs] /\ missed' \subseteq Subs
      BY <1>4 DEF Saves, TypeOK, Syncs
    <2> QED BY <1>4, <2>1, <2>2 DEF Saves, TypeOK, stripe, usage, InBounds, Known
  <1>5. CASE SyncFails(h)
    <2>1. sync[h].sub \in Subs
      BY <1>5, Handler DEF SyncFails
    <2>2. sync' \in [Handlers -> Syncs] /\ missed' \subseteq Subs /\ faults' \in Nat
      BY <1>5, <2>1 DEF SyncFails, TypeOK, Syncs
    <2> QED BY <1>5, <2>2 DEF SyncFails, TypeOK, stripe, usage, InBounds, Known
  <1> QED BY <1>1, <1>2, <1>3, <1>4, <1>5

\* A request passes the guard below the limit of some plan, so the requests on
\* their way and those counted stay below it by what may run at once.
LEMMA BaseRequests ==
  ASSUME BaseInv, RequestBegins \/ RequestSucceeds \/ RequestFails \/ MonthTurns
  PROVE  BaseInv'
  <1> USE DEF BaseInv
  <1>0. acting \in Nat /\ used \in Nat /\ free \in Nat /\ acting <= Requests /\ Requests \in Nat
    BY Numbers DEF TypeOK
  <1>1. UNCHANGED <<status, elapsed, events, changes, rows, sync, missed, faults>>
    BY DEF RequestBegins, RequestSucceeds, RequestFails, MonthTurns, stripe
  <1>2. CASE RequestBegins
    <2>1. acting' = acting + 1 /\ acting < Requests /\ used' = used
      BY <1>2 DEF RequestBegins
    <2>2. free' = free + 1 \/ (free' = free /\ used < Cap)
      <3>1. PICK failed \in SUBSET Reads :
               \/ free' = free + 1
               \/ \E i \in DOMAIN rows : /\ WithinQuota(rows[i], failed)
                                        /\ IF "count" \in failed THEN free' = free + 1 ELSE free' = free
        BY <1>2 DEF RequestBegins
      <3>2. ASSUME NEW i \in DOMAIN rows, WithinQuota(rows[i], failed), "count" \notin failed
            PROVE  used < Cap
        <4>1. LimitOf(rows[i]) \in Int /\ LimitOf(rows[i]) <= Cap
          BY Numbers DEF LimitOf
        <4> QED BY <3>2, <4>1, <1>0, Numbers DEF WithinQuota
      <3> QED BY <3>1, <3>2
    <2>3. InBounds'
      <3>1. acting + 1 <= Requests
        BY <1>0, <2>1
      <3>2. /\ MaxAmount * (free + 1 + Requests) = MaxAmount * (free + Requests) + MaxAmount
            /\ MaxAmount * (acting + 1) = MaxAmount * acting + MaxAmount
            /\ MaxAmount * (acting + 1) <= MaxAmount * (free + Requests)
            /\ MaxAmount * acting \in Nat /\ MaxAmount * (free + Requests) \in Nat
        BY <1>0, <3>1, More
      <3> QED BY <1>0, <2>1, <2>2, <3>2, Numbers DEF InBounds
    <2>4. acting' \in 0..Requests /\ used' \in Nat /\ free' \in Nat
      BY <1>0, <2>1, <2>2
    <2> QED BY <1>1, <2>3, <2>4 DEF TypeOK, Known
  <1>3. CASE RequestSucceeds \/ RequestFails
    <2>1. PICK by \in 0..MaxAmount :
             acting > 0 /\ acting' = acting - 1 /\ free' = free /\ used' = used + by
      <3>1. CASE RequestSucceeds
        BY <1>0, <3>1, Numbers DEF RequestSucceeds
      <3>2. CASE RequestFails
        <4>1. used' = used + 0 /\ 0 \in 0..MaxAmount
          BY <1>0, <3>2, Numbers DEF RequestFails
        <4> QED BY <3>2, <4>1 DEF RequestFails
      <3> QED BY <1>3, <3>1, <3>2
    <2>2. MaxAmount * acting' + by <= MaxAmount * acting /\ used' \in Nat
      BY <1>0, <2>1, Fewer, Numbers
    <2>3. InBounds'
      <3>1. MaxAmount * acting \in Nat /\ MaxAmount * acting' \in Nat /\ MaxAmount * (free + Requests) \in Nat
        BY <1>0, <2>1, Numbers
      <3> QED BY <1>0, <2>1, <2>2, <3>1, Numbers DEF InBounds
    <2>4. acting' \in 0..Requests /\ used' \in Nat /\ free' \in Nat
      BY <1>0, <2>1, <2>2
    <2> QED BY <1>1, <2>3, <2>4 DEF TypeOK, Known
  <1>4. CASE MonthTurns
    <2>1. used' = 0 /\ free' = 0 /\ acting' = acting
      BY <1>4 DEF MonthTurns
    <2>2. InBounds'
      <3>1. MaxAmount * acting <= MaxAmount * (0 + Requests) /\ MaxAmount * acting \in Nat
        BY <1>0, AllAtOnce
      <3>2. MaxAmount * (0 + Requests) \in Nat
        BY <1>0, Numbers
      <3> QED BY <2>1, <3>1, <3>2, Numbers DEF InBounds
    <2> QED BY <1>1, <2>1, <2>2 DEF TypeOK, Known
  <1> QED BY <1>2, <1>3, <1>4
---------------------------------------------------------------------------
\* Every step keeps the types, what is known and the bound, given that a Save
\* finds the row it looked up.
RowIsThere == \A h \in Handlers : sync[h].row = 0 \/ sync[h].row \in DOMAIN rows

\* What was looked up is a position of the table, and the table only grows.
LEMMA InitThere == Init => RowIsThere
  BY DEF Init, RowIsThere, Idle

\* The lookup names a position, and nothing removes one.
LEMMA ThereStep ==
  ASSUME BaseInv, RowIsThere, [Next]_vars
  PROVE  BaseInv' /\ RowIsThere'
  <1> USE DEF BaseInv
  <1>0. \A h \in Handlers : Saves(h) => sync[h].row \in DOMAIN rows
    BY DEF RowIsThere, Saves
  <1>1. CASE \E s \in Subs : Subscribes(s) \/ TrialElapses(s) \/ \E to \in States : StripeMoves(s, to)
    <2>1. BaseInv'
      BY <1>1, BaseStripe
    <2>2. UNCHANGED <<rows, sync>>
      BY <1>1 DEF Subscribes, TrialElapses, StripeMoves
    <2> QED BY <2>1, <2>2 DEF RowIsThere
  <1>2. CASE \E h \in Handlers : (\E s \in Subs : WebhookBegins(h, s)) \/ LooksUp(h) \/ Creates(h) \/ Saves(h) \/ SyncFails(h)
    <2>1. PICK h \in Handlers : (\E s \in Subs : WebhookBegins(h, s)) \/ LooksUp(h) \/ Creates(h) \/ Saves(h) \/ SyncFails(h)
      BY <1>2
    <2>2. BaseInv'
      BY <2>1, <1>0, BaseHandlers
    <2>3. \A g \in Handlers : g # h => sync'[g] = sync[g]
      BY <2>1 DEF WebhookBegins, LooksUp, Creates, Saves, SyncFails, TypeOK
    <2>4. \A i \in DOMAIN rows : i \in DOMAIN rows'
      <3>1. CASE Creates(h)
        BY <3>1, Inserted
      <3>2. CASE Saves(h)
        BY <3>2, <1>0, Updated
      <3> QED BY <2>1, <3>1, <3>2 DEF WebhookBegins, LooksUp, SyncFails
    <2>5. sync'[h].row = 0 \/ sync'[h].row \in DOMAIN rows'
      <3>1. CASE LooksUp(h)
        <4>1. sync[h] \in [phase : Phases, sub : Subs, seen : States, row : Nat] /\ sync[h].phase = "retrieved"
          BY <3>1, Handler DEF LooksUp
        <4>2. sync'[h].row = sync[h].row \/ sync'[h].row \in DOMAIN rows
          BY <3>1, <4>1 DEF LooksUp, RowsOf, TypeOK
        <4> QED BY <4>2, <2>4 DEF RowIsThere
      <3>2. CASE ~LooksUp(h)
        <4>1. sync'[h].row = 0
          BY <2>1, <3>2 DEF WebhookBegins, Creates, Saves, SyncFails, TypeOK, Idle
        <4> QED BY <4>1
      <3> QED BY <3>1, <3>2
    <2> QED BY <2>2, <2>3, <2>4, <2>5 DEF RowIsThere
  <1>3. CASE RequestBegins \/ RequestSucceeds \/ RequestFails \/ MonthTurns
    <2>1. BaseInv' /\ UNCHANGED <<rows, sync>>
      BY <1>3, BaseRequests DEF RequestBegins, RequestSucceeds, RequestFails, MonthTurns
    <2> QED BY <2>1 DEF RowIsThere
  <1>4. CASE Sweep
    <2>1. rows' \in Seq(Rows) /\ DOMAIN rows' = DOMAIN rows
      BY <1>4, Swept
    <2> QED BY <1>4, <2>1 DEF Sweep, TypeOK, Known, InBounds, RowIsThere, stripe, usage
  <1>5. CASE UNCHANGED vars
    BY <1>5 DEF vars, TypeOK, Known, InBounds, RowIsThere
  <1> QED BY <1>1, <1>2, <1>3, <1>4, <1>5 DEF Next
---------------------------------------------------------------------------
\* What a step does to the history: who has company and goes on keeps it, and
\* only a webhook that was alone takes the mark off its subscription.
LEMMA CrowdedStep ==
  ASSUME TypeOK, TypeOK', Crowded, Records,
         \A g \in Handlers : sync[g] # Idle /\ sync'[g] # Idle => sync'[g].sub = sync[g].sub
  PROVE  /\ Crowded'
         /\ \A g \in Handlers : g \in together /\ sync'[g] # Idle => g \in together'
         /\ \A s \in Subs : s \in raced /\ s \notin raced' => \E g \in Handlers : Rights(g, s)
  <1>1. \A g \in Handlers : g \in together' <=>
           /\ sync'[g] # Idle
           /\ g \in together \/ \E k \in Handlers \ {g} : sync'[k].sub = sync'[g].sub
    BY DEF Records
  <1>2. \A s \in Subs : s \in raced' <=>
           Overlap(s) \/ (s \in raced /\ \A g \in Handlers : ~Rights(g, s))
    BY DEF Records
  <1>3. ASSUME NEW g \in Handlers, g \in together'
        PROVE  sync'[g] # Idle /\ sync'[g].sub \in raced'
    <2>1. sync'[g] # Idle
      BY <1>1, <1>3
    <2>2. PICK s \in Subs : sync'[g].sub = s
      BY <2>1 DEF TypeOK, Syncs
    <2>3. CASE \E k \in Handlers \ {g} : sync'[k].sub = s
      <3>1. Overlap(s)
        BY <2>2, <2>3 DEF Overlap
      <3> QED BY <1>2, <2>1, <2>2, <3>1
    <2>4. CASE g \in together
      <3>1. sync[g] # Idle /\ sync[g].sub = s /\ s \in raced
        BY <2>1, <2>2, <2>4 DEF Crowded
      <3>2. \A k \in Handlers : ~Rights(k, s)
        <4> SUFFICES ASSUME NEW k \in Handlers, Rights(k, s) PROVE FALSE
          OBVIOUS
        <4>1. sync[k].sub = s /\ k \notin together /\ sync'[k] = Idle
          BY DEF Rights
        <4>2. k # g /\ sync[k] # Idle
          BY <4>1, <2>1, Handler, Words
        <4> QED BY <4>1, <4>2, <3>1 DEF Crowded
      <3> QED BY <1>2, <2>1, <2>2, <3>1, <3>2
    <2> QED BY <1>1, <1>3, <2>2, <2>3, <2>4
  <1>4. Crowded'
    BY <1>1, <1>3 DEF Crowded
  <1> QED BY <1>1, <1>2, <1>4

\* A handler that is only deleted with a failure takes no mark off.
LEMMA RacedStays ==
  ASSUME TypeOK, Records,
         \A g \in Handlers : sync[g] # Idle /\ sync'[g] = Idle => sync[g].sub \in missed'
  PROVE  \A s \in Subs : s \in raced => s \in raced'
  <1> SUFFICES ASSUME NEW s \in Subs, s \in raced, NEW g \in Handlers, Rights(g, s) PROVE FALSE
    BY DEF Records
  <1>1. sync[g].sub = s /\ sync'[g] = Idle /\ s \notin missed'
    BY DEF Rights
  <1>2. sync[g] # Idle
    BY <1>1, Handler, Words
  <1> QED BY <1>1, <1>2

\* At first every handler is idle, and the only row is that of the registration.
LEMMA InitSync == HistoryInit => SyncInv
  <1> SUFFICES ASSUME Init, together = {}, raced = {} PROVE SyncInv
    BY DEF HistoryInit
  <1>1. \A h \in Handlers : sync[h] = Idle
    BY DEF Init
  <1>2. Crowded /\ Looked /\ Fresh /\ SeenKept
    BY <1>1 DEF Crowded, Looked, Fresh, SeenKept, Idle
  <1>3. \A i \in DOMAIN rows : rows[i].gateway = 0 /\ rows[i].status = "active"
    BY DEF Init
  <1>4. OneRow /\ Canceled
    BY <1>3, Words DEF OneRow, RowsOf, Canceled
  <1>5. RowsFollowStripe
    BY DEF Init, RowsFollowStripe, Settled
  <1> QED BY <1>2, <1>4, <1>5 DEF SyncInv

\* A change at Stripe leaves with an event, so nothing settled is out of date.
LEMMA SyncStripe ==
  ASSUME BaseInv, BaseInv', SyncInv, Records, NEW s \in Subs,
         Subscribes(s) \/ TrialElapses(s) \/ \E to \in States : StripeMoves(s, to)
  PROVE  SyncInv'
  <1> USE DEF BaseInv, SyncInv
  <1>1. UNCHANGED <<rows, sync, missed>>
    BY DEF Subscribes, TrialElapses, StripeMoves
  <1>2. \A t \in Subs : t # s => status'[t] = status[t] /\ events'[t] = events[t]
    BY DEF TypeOK, Subscribes, TrialElapses, StripeMoves
  <1>3. status[s] = "canceled" => status'[s] = "canceled"
    BY DEF TypeOK, Subscribes, TrialElapses, StripeMoves
  <1>4. events'[s] # 0 \/ (status' = status /\ events' = events /\ elapsed \subseteq elapsed')
    BY DEF TypeOK, Subscribes, TrialElapses, StripeMoves
  <1>5. \A t \in Subs : status[t] = "canceled" => status'[t] = "canceled"
    BY <1>2, <1>3
  <1>6. elapsed \subseteq elapsed'
    BY DEF Subscribes, TrialElapses, StripeMoves
  <1>7. /\ Crowded' /\ \A g \in Handlers : g \in together /\ sync[g] # Idle => g \in together'
        /\ \A t \in Subs : t \in raced => t \in raced'
    BY <1>1, CrowdedStep, RacedStays
  <1>8. \A g \in Handlers : g \in together => g \in together'
    BY <1>7 DEF Crowded
  <1>9. OneRow' /\ Looked'
    BY <1>1, <1>7, <1>8 DEF OneRow, Looked, RowsOf
  <1>10. Fresh'
    <2> SUFFICES ASSUME NEW h \in Handlers, h \notin together, sync[h] # Idle, events'[sync[h].sub] = 0
                 PROVE  sync[h].seen = status'[sync[h].sub]
      BY <1>1, <1>8 DEF Fresh
    <2>1. sync[h].sub \in Subs
      BY Handler
    <2>2. CASE sync[h].sub = s
      BY <2>2, <1>4 DEF Fresh
    <2>3. CASE sync[h].sub # s
      BY <2>1, <2>3, <1>2 DEF Fresh
    <2> QED BY <2>2, <2>3
  <1>11. Canceled'
    <2>1. \A i \in DOMAIN rows : rows[i].gateway = 0 \/ rows[i].gateway \in Subs
      BY Table
    <2> QED BY <1>1, <1>5, <1>8, <2>1 DEF Canceled
  <1>12. SeenKept'
    <2> SUFFICES ASSUME NEW h \in Handlers, sync[h].seen = "canceled"
                 PROVE  status'[sync[h].sub] = "canceled"
      BY <1>1 DEF SeenKept
    <2>1. sync[h].sub \in Subs
      BY Handler
    <2> QED BY <2>1, <1>5 DEF SeenKept
  <1>13. RowsFollowStripe'
    <2> SUFFICES ASSUME NEW t \in Subs, Settled(t)', t \notin raced PROVE InStep(t)'
      BY <1>7 DEF RowsFollowStripe
    <2>1. status'[t] = status[t] /\ events'[t] = events[t]
      BY <1>2, <1>4 DEF Settled
    <2>2. Settled(t)
      BY <2>1, <1>1, <1>6 DEF Settled
    <2> QED BY <2>1, <2>2, <1>1 DEF RowsFollowStripe, InStep, RowsOf
  <1> QED BY <1>7, <1>9, <1>10, <1>11, <1>12, <1>13

\* A webhook begins with what Stripe says now; whoever is at its subscription
\* has company from then on.
LEMMA SyncBegins ==
  ASSUME BaseInv, BaseInv', SyncInv, Records, NEW h \in Handlers, NEW s \in Subs, WebhookBegins(h, s)
  PROVE  SyncInv'
  <1> USE DEF BaseInv, SyncInv
  <1>1. UNCHANGED <<status, elapsed, rows, missed>>
    BY DEF WebhookBegins
  <1>2. /\ sync[h] = Idle
        /\ sync' = [sync EXCEPT ![h] = [phase |-> "retrieved", sub |-> s, seen |-> status[s], row |-> 0]]
    BY DEF WebhookBegins
  <1>3. /\ sync'[h].phase = "retrieved" /\ sync'[h].sub = s /\ sync'[h].seen = status[s] /\ sync'[h].row = 0
        /\ \A g \in Handlers : g # h => sync'[g] = sync[g]
    BY <1>2 DEF TypeOK
  <1>4. \A t \in Subs : t # s => events'[t] = events[t]
    BY DEF WebhookBegins, TypeOK
  <1>5. /\ Crowded' /\ \A g \in Handlers : g \in together /\ sync'[g] # Idle => g \in together'
        /\ \A t \in Subs : t \in raced => t \in raced'
    BY <1>2, <1>3, CrowdedStep, RacedStays
  <1>6. \A g \in Handlers : g # h /\ g \in together => g \in together'
    BY <1>3, <1>5 DEF Crowded
  <1>7. \A g \in Handlers : g # h /\ sync[g].sub = s => g \in together'
    <2> SUFFICES ASSUME NEW g \in Handlers, g # h, sync[g].sub = s PROVE g \in together'
      OBVIOUS
    <2>1. sync'[g] # Idle /\ sync'[g].sub = s
      <3>1. sync'[g] = sync[g] /\ s # 0
        BY <1>3, Words
      <3>2. Idle.sub = 0
        BY DEF Idle
      <3> QED BY <3>1, <3>2
    <2> QED BY <1>3, <1>5, <2>1 DEF Crowded
  <1>8. OneRow' /\ Looked'
    BY <1>1, <1>3, <1>5, <1>6 DEF OneRow, Looked, RowsOf
  <1>9. Fresh'
    <2> SUFFICES ASSUME NEW g \in Handlers, g # h, g \notin together', sync[g] # Idle, events'[sync[g].sub] = 0
                 PROVE  sync[g].seen = status[sync[g].sub]
      BY <1>1, <1>3 DEF Fresh
    <2>1. sync[g].sub \in Subs /\ sync[g].sub # s
      BY <1>7, Handler
    <2> QED BY <2>1, <1>4, <1>6 DEF Fresh
  <1>10. Canceled' /\ SeenKept'
    BY <1>1, <1>3, <1>6 DEF Canceled, SeenKept
  <1>11. RowsFollowStripe'
    <2> SUFFICES ASSUME NEW t \in Subs, Settled(t)', t \notin raced PROVE InStep(t)'
      BY <1>5 DEF RowsFollowStripe
    <2>1. t # s
      BY <1>3 DEF Settled
    <2>2. sync[h].sub # t
      BY <1>2, Words DEF Idle
    <2>3. Settled(t)
      BY <2>1, <2>2, <1>1, <1>3, <1>4 DEF Settled
    <2> QED BY <2>3, <1>1 DEF RowsFollowStripe, InStep, RowsOf
  <1> QED BY <1>5, <1>8, <1>9, <1>10, <1>11

\* The lookup finds a row of the subscription, or finds none.
LEMMA SyncLooksUp ==
  ASSUME BaseInv, BaseInv', SyncInv, Records, NEW h \in Handlers, LooksUp(h)
  PROVE  SyncInv'
  <1> USE DEF BaseInv, SyncInv
  <1>1. UNCHANGED <<status, elapsed, events, rows, missed>>
    BY DEF LooksUp, stripe
  <1>2. sync[h] \in [phase : Phases, sub : Subs, seen : States, row : Nat] /\ sync[h].phase = "retrieved"
    BY Handler, Words DEF LooksUp
  <1>3. /\ sync'[h].phase = "looked" /\ sync'[h].sub = sync[h].sub /\ sync'[h].seen = sync[h].seen
        /\ \/ sync'[h].row = sync[h].row /\ RowsOf(sync[h].sub) = {}
           \/ sync'[h].row \in RowsOf(sync[h].sub)
        /\ \A g \in Handlers : g # h => sync'[g] = sync[g]
    BY <1>2 DEF LooksUp, TypeOK
  <1>4. sync[h] # Idle /\ sync'[h] # Idle
    BY <1>2, <1>3 DEF Idle
  <1>5. /\ Crowded' /\ \A g \in Handlers : g \in together /\ sync'[g] # Idle => g \in together'
        /\ \A t \in Subs : t \in raced => t \in raced'
    BY <1>3, <1>4, CrowdedStep, RacedStays
  <1>6. \A g \in Handlers : g \in together => g \in together'
    BY <1>3, <1>4, <1>5 DEF Crowded
  <1>7. Looked'
    <2>1. RowsOf(sync[h].sub) \subseteq DOMAIN rows /\ 0 \notin DOMAIN rows
      BY Table DEF RowsOf
    <2>2. sync[h].row = 0
      BY <1>2 DEF Looked
    <2> QED BY <1>1, <1>3, <1>6, <2>1, <2>2 DEF Looked, RowsOf
  <1>8. OneRow' /\ Fresh' /\ Canceled' /\ SeenKept'
    BY <1>1, <1>3, <1>4, <1>5, <1>6 DEF OneRow, RowsOf, Fresh, Canceled, SeenKept
  <1>9. RowsFollowStripe'
    <2> SUFFICES ASSUME NEW t \in Subs, Settled(t)', t \notin raced PROVE InStep(t)'
      BY <1>5 DEF RowsFollowStripe
    <2>1. \A g \in Handlers : sync'[g].sub = sync[g].sub
      BY <1>3
    <2>2. Settled(t)
      BY <1>1, <2>1 DEF Settled
    <2> QED BY <2>2, <1>1 DEF RowsFollowStripe, InStep, RowsOf
  <1> QED BY <1>5, <1>7, <1>8, <1>9

\* A failure is remembered until the next webhook of the subscription.
LEMMA SyncFailed ==
  ASSUME BaseInv, BaseInv', SyncInv, Records, NEW h \in Handlers, SyncFails(h)
  PROVE  SyncInv'
  <1> USE DEF BaseInv, SyncInv
  <1>1. UNCHANGED <<status, elapsed, events, rows>> /\ missed' = missed \cup {sync[h].sub}
    BY DEF SyncFails, stripe
  <1>2. sync'[h] = Idle /\ \A g \in Handlers : g # h => sync'[g] = sync[g]
    BY DEF SyncFails, TypeOK
  <1>3. Idle.sub = 0 /\ Idle.phase = "idle" /\ Idle.seen = "none"
    BY DEF Idle
  <1>4. /\ Crowded' /\ \A g \in Handlers : g \in together /\ sync'[g] # Idle => g \in together'
        /\ \A t \in Subs : t \in raced => t \in raced'
    BY <1>1, <1>2, CrowdedStep, RacedStays
  <1>5. \A g \in Handlers : g # h /\ g \in together => g \in together'
    BY <1>2, <1>4 DEF Crowded
  <1>6. OneRow' /\ Looked' /\ Fresh' /\ SeenKept'
    BY <1>1, <1>2, <1>3, <1>4, <1>5 DEF OneRow, RowsOf, Looked, Fresh, SeenKept
  <1>7. Canceled'
    BY <1>1, <1>2, <1>3, <1>5 DEF Canceled
  <1>8. RowsFollowStripe'
    <2> SUFFICES ASSUME NEW t \in Subs, Settled(t)', t \notin raced PROVE InStep(t)'
      BY <1>4 DEF RowsFollowStripe
    <2>1. sync[h].sub # t
      BY <1>1 DEF Settled
    <2>2. Settled(t)
      BY <1>1, <1>2, <2>1 DEF Settled
    <2> QED BY <2>2, <1>1 DEF RowsFollowStripe, InStep, RowsOf
  <1> QED BY <1>4, <1>6, <1>7, <1>8

\* A handler wrote position k for its subscription, which has no other row
\* unless its webhooks are handled at once: what an insert and an update have
\* in common.
LEMMA SyncWrites ==
  ASSUME BaseInv, BaseInv', SyncInv, Records, NEW h \in Handlers, sync[h] # Idle, NEW k, NEW s \in Subs,
         sync[h].sub = s, sync' = [sync EXCEPT ![h] = Idle], missed' = missed \ {s},
         UNCHANGED stripe,
         DOMAIN rows' = DOMAIN rows \cup {k},
         rows'[k].gateway = s, rows'[k].status = sync[h].seen,
         s \notin raced => RowsOf(s) \subseteq {k}, k \in DOMAIN rows => k \in RowsOf(s),
         \A i \in DOMAIN rows : i # k => rows'[i] = rows[i]
  PROVE  SyncInv'
  <1> USE DEF BaseInv, SyncInv
  <1>1. UNCHANGED <<status, elapsed, events>>
    BY DEF stripe
  <1>2. sync'[h] = Idle /\ \A g \in Handlers : g # h => sync'[g] = sync[g]
    BY DEF TypeOK
  <1>3. Idle.sub = 0 /\ Idle.phase = "idle" /\ Idle.seen = "none"
    BY DEF Idle
  <1>4. s # 0 /\ sync[h].seen \in States
    BY Handler, Words
  <1>5. RowsOf(s)' = RowsOf(s) \cup {k} /\ k \in DOMAIN rows'
    <2>1. \A i \in DOMAIN rows' : rows'[i].gateway = s <=> i = k \/ (i \in DOMAIN rows /\ rows[i].gateway = s)
      OBVIOUS
    <2> QED BY <2>1 DEF RowsOf
  <1>6. \A t \in Subs : t # s => RowsOf(t)' = RowsOf(t)
    BY DEF RowsOf
  <1>7. /\ Crowded' /\ \A g \in Handlers : g \in together /\ sync'[g] # Idle => g \in together'
        /\ \A t \in Subs : t \in raced /\ t \notin raced' => \E g \in Handlers : Rights(g, t)
    BY <1>2, CrowdedStep
  <1>8. \A g \in Handlers : g # h /\ g \in together => g \in together'
    BY <1>2, <1>7 DEF Crowded
  <1>9. \A g \in Handlers : g # h /\ sync[g] # Idle =>
            sync[g].sub \in Subs /\ (sync[g].sub = s => g \in together /\ g \in together')
    BY <1>8, Handler DEF Crowded
  <1>10. \A t \in Subs, g \in Handlers : Rights(g, t) => g = h /\ t = s
    <2> SUFFICES ASSUME NEW t \in Subs, NEW g \in Handlers, Rights(g, t) PROVE g = h /\ t = s
      OBVIOUS
    <2>1. sync[g].sub = t /\ sync'[g] = Idle
      BY DEF Rights
    <2>2. sync[g] # Idle
      BY <2>1, Handler, Words
    <2> QED BY <2>1, <2>2, <1>2
  <1>11. ASSUME s \notin raced' PROVE RowsOf(s)' = {k}
    <2>1. CASE s \notin raced
      BY <2>1, <1>5
    <2>2. CASE s \in raced
      <3>1. PICK g \in Handlers : Rights(g, s)
        BY <1>7, <1>11, <2>2
      <3>2. \A i, j \in RowsOf(s)' : i = j
        BY <3>1 DEF Rights
      <3> QED BY <3>2, <1>5
    <2> QED BY <2>1, <2>2
  <1>12. ASSUME s \notin raced' PROVE h \notin together
    <2>1. CASE s \notin raced
      BY <2>1 DEF Crowded
    <2>2. CASE s \in raced
      <3>1. PICK g \in Handlers : Rights(g, s)
        BY <1>7, <1>12, <2>2
      <3>2. g = h
        BY <3>1, <1>10
      <3> QED BY <3>1, <3>2 DEF Rights
    <2> QED BY <2>1, <2>2
  <1>13. \A t \in Subs : t # s /\ t \in raced => t \in raced'
    BY <1>7, <1>10
  <1>14. OneRow'
    <2> SUFFICES ASSUME NEW t \in Subs, t \notin raced', NEW i \in RowsOf(t)', NEW j \in RowsOf(t)' PROVE i = j
      BY DEF OneRow
    <2>1. CASE t = s
      BY <2>1, <1>11
    <2>2. CASE t # s
      BY <2>2, <1>6, <1>13 DEF OneRow
    <2> QED BY <2>1, <2>2
  <1>15. Looked'
    <2> SUFFICES ASSUME NEW g \in Handlers, NEW u \in Subs
                 PROVE  /\ sync'[g].phase = "retrieved" => sync'[g].row = 0
                        /\ sync'[g].phase = "looked" /\ sync'[g].sub = u =>
                             IF sync'[g].row = 0 THEN g \in together' \/ RowsOf(u)' = {}
                                                 ELSE sync'[g].row \in RowsOf(u)'
      BY DEF Looked
    <2>1. CASE g = h
      BY <2>1, <1>2, <1>3
    <2>2. CASE g # h /\ sync[g] = Idle
      BY <2>2, <1>2, <1>3
    <2>3. CASE g # h /\ sync[g] # Idle
      <3>1. sync'[g] = sync[g]
        BY <2>3, <1>2
      <3>2. CASE u = s
        BY <3>1, <3>2, <2>3, <1>5, <1>9 DEF Looked
      <3>3. CASE u # s
        BY <3>1, <3>3, <2>3, <1>6, <1>8 DEF Looked
      <3> QED BY <3>2, <3>3
    <2> QED BY <2>1, <2>2, <2>3
  <1>16. Fresh' /\ SeenKept'
    BY <1>1, <1>2, <1>3, <1>8 DEF Fresh, SeenKept
  <1>17. Canceled'
    <2> SUFFICES ASSUME NEW i \in DOMAIN rows', rows'[i].status = "canceled"
                 PROVE  /\ rows'[i].gateway # 0 /\ status[rows'[i].gateway] = "canceled"
                        /\ \A g \in Handlers : g \notin together' =>
                              (sync'[g].sub = rows'[i].gateway => sync'[g].seen = "canceled")
      BY <1>1 DEF Canceled
    <2>1. CASE i = k
      <3>1. status[s] = "canceled" /\ rows'[i].gateway = s
        BY <2>1 DEF SeenKept
      <3>2. \A g \in Handlers : g \notin together' => sync'[g].sub # s
        BY <1>2, <1>3, <1>4, <1>9, Handler
      <3> QED BY <3>1, <3>2, <1>4
    <2>2. CASE i # k
      <3>1. i \in DOMAIN rows /\ rows'[i] = rows[i]
        BY <2>2
      <3>2. rows[i].gateway # 0 /\ status[rows[i].gateway] = "canceled"
        BY <3>1 DEF Canceled
      <3>3. \A g \in Handlers : sync'[g].sub = rows[i].gateway => g # h
        BY <3>2, <1>2, <1>3
      <3> QED BY <3>1, <3>2, <3>3, <1>2, <1>8 DEF Canceled
    <2> QED BY <2>1, <2>2
  <1>18. RowsFollowStripe'
    <2> SUFFICES ASSUME NEW t \in Subs, Settled(t)', t \notin raced' PROVE InStep(t)'
      BY DEF RowsFollowStripe
    <2>1. CASE t = s
      <3>1. sync[h].seen = status[s]
        BY <2>1, <1>1, <1>12 DEF Settled, Fresh
      <3> QED BY <2>1, <3>1, <1>1, <1>5, <1>11 DEF InStep
    <2>2. CASE t # s
      <3>1. Settled(t)
        BY <2>2, <1>1, <1>2 DEF Settled
      <3>2. PICK i \in DOMAIN rows : RowsOf(t) = {i} /\ rows[i].status = status[t]
        BY <3>1, <2>2, <1>13 DEF RowsFollowStripe, InStep
      <3>3. i # k
        BY <3>2, <2>2 DEF RowsOf
      <3>4. RowsOf(t)' = {i} /\ rows'[i].status = status'[t] /\ i \in DOMAIN rows'
        BY <3>2, <3>3, <2>2, <1>1, <1>6
      <3> QED BY <3>4 DEF InStep
    <2> QED BY <2>1, <2>2
  <1> QED BY <1>7, <1>14, <1>15, <1>16, <1>17, <1>18

\* The handler writes the row of its subscription and no other one.
LEMMA SyncWritten ==
  ASSUME BaseInv, BaseInv', SyncInv, Records, NEW h \in Handlers, Creates(h) \/ Saves(h)
  PROVE  SyncInv'
  <1> USE DEF BaseInv
  <1>1. sync[h].phase = "looked" /\ sync[h] # Idle /\ sync[h].sub \in Subs
    BY Handler, Words DEF Creates, Saves, Idle
  <1>2. sync[h].sub \notin raced => h \notin together
    BY DEF SyncInv, Crowded
  <1>3. CASE Creates(h)
    <2> DEFINE k == Len(rows) + 1
    <2>1. /\ rows'[k] = [gateway |-> sync[h].sub, status |-> sync[h].seen, created |-> k]
          /\ DOMAIN rows' = DOMAIN rows \cup {k} /\ k \notin DOMAIN rows
          /\ \A i \in DOMAIN rows : rows'[i] = rows[i]
      BY <1>3, Inserted
    <2> HIDE DEF k
    <2>2. rows'[k].gateway = sync[h].sub /\ rows'[k].status = sync[h].seen
      BY <2>1
    <2>3. sync[h].sub \notin raced => RowsOf(sync[h].sub) \subseteq {k}
      BY <1>1, <1>2, <1>3 DEF Creates, SyncInv, Looked
    <2> QED BY <1>1, <1>3, <2>1, <2>2, <2>3, SyncWrites, ZenonT(60) DEF Creates
  <1>4. CASE Saves(h)
    <2>1. sync[h].row \in RowsOf(sync[h].sub)
      BY <1>1, <1>4 DEF Saves, SyncInv, Looked
    <2>2. sync[h].row \in DOMAIN rows /\ rows[sync[h].row].gateway = sync[h].sub
      BY <2>1 DEF RowsOf
    <2>3. sync[h].sub \notin raced => RowsOf(sync[h].sub) \subseteq {sync[h].row}
      BY <1>1, <2>1 DEF SyncInv, OneRow
    <2>4. /\ rows'[sync[h].row].gateway = sync[h].sub /\ rows'[sync[h].row].status = sync[h].seen
          /\ DOMAIN rows' = DOMAIN rows
          /\ \A i \in DOMAIN rows : i # sync[h].row => rows'[i] = rows[i]
      BY <1>4, <2>2, Updated
    <2>5. DOMAIN rows' = DOMAIN rows \cup {sync[h].row}
      BY <2>2, <2>4
    <2>6. /\ sync' = [sync EXCEPT ![h] = Idle] /\ missed' = missed \ {sync[h].sub}
          /\ UNCHANGED stripe
      BY <1>4 DEF Saves
    <2>7. PICK k : k = sync[h].row
      OBVIOUS
    <2>8. PICK s \in Subs : s = sync[h].sub
      BY <1>1
    <2> QED BY <1>1, <2>1, <2>2, <2>3, <2>4, <2>5, <2>6, <2>7, <2>8, SyncWrites, ZenonT(60)
  <1> QED BY <1>3, <1>4

\* The sweep touches trials that are over, of which nothing is settled.
LEMMA SyncSwept ==
  ASSUME BaseInv, BaseInv', SyncInv, Records, Sweep
  PROVE  SyncInv'
  <1> USE DEF BaseInv, SyncInv
  <1>1. UNCHANGED <<status, elapsed, events, sync, missed>>
    BY DEF Sweep, stripe
  <1>2. /\ DOMAIN rows' = DOMAIN rows
        /\ \A i \in DOMAIN rows :
              /\ rows'[i].gateway = rows[i].gateway
              /\ IF Expired(rows[i]) THEN rows'[i].status = "past_due" ELSE rows'[i] = rows[i]
    BY Swept
  <1>3. \A t \in Subs \cup {0} : RowsOf(t)' = RowsOf(t)
    BY <1>2 DEF RowsOf
  <1>4. /\ Crowded' /\ \A g \in Handlers : g \in together => g \in together'
        /\ \A t \in Subs : t \in raced => t \in raced'
    <2>1. /\ Crowded' /\ \A g \in Handlers : g \in together /\ sync'[g] # Idle => g \in together'
          /\ \A t \in Subs : t \in raced => t \in raced'
      BY <1>1, CrowdedStep, RacedStays
    <2> QED BY <1>1, <2>1 DEF Crowded
  <1>5. OneRow' /\ Fresh' /\ SeenKept'
    BY <1>1, <1>3, <1>4 DEF OneRow, Fresh, SeenKept
  <1>6. Looked'
    BY <1>1, <1>3, <1>4 DEF Looked
  <1>7. \A i \in DOMAIN rows : rows'[i].status = "canceled" => rows[i].status = "canceled"
    BY <1>2 DEF Expired
  <1>8. Canceled'
    BY <1>1, <1>2, <1>4, <1>7 DEF Canceled
  <1>9. RowsFollowStripe'
    <2> SUFFICES ASSUME NEW t \in Subs, Settled(t)', t \notin raced PROVE InStep(t)'
      BY <1>4 DEF RowsFollowStripe
    <2>1. Settled(t)
      BY <1>1 DEF Settled
    <2>2. PICK i \in DOMAIN rows : RowsOf(t) = {i} /\ rows[i].status = status[t]
      BY <2>1 DEF RowsFollowStripe, InStep
    <2>3. rows[i].gateway = t
      BY <2>2 DEF RowsOf
    <2>4. ~Expired(rows[i])
      BY <2>1, <2>2, <2>3 DEF Expired, Settled
    <2> QED BY <1>1, <1>2, <1>3, <2>2, <2>4 DEF InStep
  <1> QED BY <1>4, <1>5, <1>6, <1>8, <1>9

\* Every step.
LEMMA SyncStep ==
  ASSUME BaseInv, RowIsThere, SyncInv, [Next /\ Records]_<<vars, together, raced>>
  PROVE  SyncInv'
  <1>1. BaseInv'
    BY ThereStep DEF vars
  <1>2. CASE Records /\ \E s \in Subs : Subscribes(s) \/ TrialElapses(s) \/ \E to \in States : StripeMoves(s, to)
    BY <1>1, <1>2, SyncStripe
  <1>3. CASE Records /\ \E h \in Handlers, s \in Subs : WebhookBegins(h, s)
    BY <1>1, <1>3, SyncBegins
  <1>4. CASE Records /\ \E h \in Handlers : LooksUp(h) \/ Creates(h) \/ Saves(h) \/ SyncFails(h)
    BY <1>1, <1>4, SyncLooksUp, SyncWritten, SyncFailed
  <1>5. CASE Records /\ Sweep
    BY <1>1, <1>5, SyncSwept
  <1>6. CASE Records /\ (MonthTurns \/ RequestBegins \/ RequestSucceeds \/ RequestFails)
    <2>1. UNCHANGED <<status, elapsed, events, rows, sync, missed>>
      BY <1>6 DEF MonthTurns, RequestBegins, RequestSucceeds, RequestFails, stripe
    <2>2. /\ Crowded' /\ \A g \in Handlers : g \in together /\ sync'[g] # Idle => g \in together'
          /\ \A t \in Subs : t \in raced => t \in raced'
      BY <1>1, <1>6, <2>1, CrowdedStep, RacedStays DEF BaseInv, SyncInv
    <2>3. \A g \in Handlers : g \in together => g \in together'
      BY <2>1, <2>2 DEF SyncInv, Crowded
    <2>4. OneRow' /\ Looked' /\ Fresh' /\ Canceled' /\ SeenKept'
      BY <2>1, <2>2, <2>3 DEF SyncInv, OneRow, RowsOf, Looked, Fresh, Canceled, SeenKept
    <2>5. RowsFollowStripe'
      BY <2>1, <2>2 DEF SyncInv, RowsFollowStripe, Settled, InStep, RowsOf
    <2> QED BY <2>2, <2>4, <2>5 DEF SyncInv
  <1>7. CASE UNCHANGED <<vars, together, raced>>
    BY <1>7 DEF vars, SyncInv, Crowded, OneRow, RowsOf, Looked, Fresh, Canceled, SeenKept,
                RowsFollowStripe, Settled, InStep
  <1> QED BY <1>2, <1>3, <1>4, <1>5, <1>6, <1>7 DEF Next

\* A canceled row is written only with what a handler retrieved, and a handler
\* that was alone retrieved that it is canceled.
LEMMA CanceledStep ==
  ASSUME BaseInv, RowIsThere, SyncInv, [Next]_vars
  PROVE  \A i \in DOMAIN rows : rows[i].status = "canceled" =>
            \/ rows'[i].status = "canceled"
            \/ \E h \in together : sync[h].row = i /\ sync'[h] = Idle
  <1> SUFFICES ASSUME NEW i \in DOMAIN rows, rows[i].status = "canceled",
                      ~\E h \in together : sync[h].row = i /\ sync'[h] = Idle
               PROVE  rows'[i].status = "canceled"
    OBVIOUS
  <1> USE DEF BaseInv, SyncInv
  <1>1. CASE \E h \in Handlers : Creates(h)
    BY <1>1, Inserted
  <1>2. CASE \E h \in Handlers : Saves(h)
    <2>1. PICK h \in Handlers : Saves(h)
      BY <1>2
    <2>2. sync[h].sub \in Subs /\ sync'[h] = Idle
      BY <2>1, Handler, Words DEF Saves, TypeOK
    <2>3. sync[h].row \in RowsOf(sync[h].sub)
      BY <2>1, <2>2 DEF Saves, Looked
    <2>4. sync[h].row \in DOMAIN rows /\ rows[sync[h].row].gateway = sync[h].sub
      BY <2>3 DEF RowsOf
    <2>5. i = sync[h].row => sync[h].seen = "canceled"
      BY <2>2, <2>4 DEF Canceled
    <2> QED BY <2>1, <2>4, <2>5, Updated
  <1>3. CASE Sweep
    BY <1>3, Swept DEF Expired
  <1>4. CASE UNCHANGED rows
    BY <1>4
  <1>5. rows' = rows \/ Sweep \/ (\E h \in Handlers : Creates(h) \/ Saves(h))
    BY DEF Next, vars, Subscribes, TrialElapses, StripeMoves, WebhookBegins, LooksUp, SyncFails,
           MonthTurns, RequestBegins, RequestSucceeds, RequestFails
  <1> QED BY <1>1, <1>2, <1>3, <1>4, <1>5

---------------------------------------------------------------------------
\* For any constants: the state is well typed, and a month goes over the limit
\* of its plan by less than what the requests that run at once may add, and
\* those that no limit was applied to: no row, an unlimited plan, a failed read.
THEOREM BillingIsTyped == Spec => [](TypeOK /\ OvershootIsBounded)
  <1>1. Init => BaseInv /\ RowIsThere
    BY InitBase, InitThere
  <1>2. BaseInv /\ RowIsThere /\ [Next]_vars => BaseInv' /\ RowIsThere'
    BY ThereStep
  <1>3. BaseInv => TypeOK /\ OvershootIsBounded
    <2> SUFFICES ASSUME BaseInv PROVE OvershootIsBounded
      BY DEF BaseInv
    <2>1. acting \in Nat /\ used \in Nat /\ free \in Nat
      BY Numbers DEF BaseInv, TypeOK
    <2>2. MaxAmount * acting \in Nat /\ MaxAmount * (free + Requests) \in Nat
      BY <2>1, Numbers
    <2> QED BY <2>1, <2>2, Numbers DEF BaseInv, InBounds, OvershootIsBounded, Cap
  <1> QED BY <1>1, <1>2, <1>3, PTL DEF Spec

\* Every step keeps what the history says.
LEMMA AllStep ==
  ASSUME BaseInv, RowIsThere, SyncInv, [Next /\ Records]_<<vars, together, raced>>
  PROVE  BaseInv' /\ RowIsThere' /\ SyncInv'
  BY ThereStep, SyncStep DEF vars

\* For any number of subscriptions, handlers at once, failures and sweeps: a
\* subscription that is settled has one row, and the row has Stripe's status,
\* unless webhooks of it overlapped and none was handled alone since.
THEOREM RowsAlwaysFollow == HistorySpec => []RowsFollowStripe
  <1>1. HistoryInit => BaseInv /\ RowIsThere /\ SyncInv
    BY InitBase, InitThere, InitSync DEF HistoryInit
  <1>2. BaseInv /\ RowIsThere /\ SyncInv /\ [Next /\ Records]_<<vars, together, raced>>
           => BaseInv' /\ RowIsThere' /\ SyncInv'
    BY AllStep
  <1>3. SyncInv => RowsFollowStripe
    BY DEF SyncInv
  <1> QED BY <1>1, <1>2, <1>3, PTL DEF HistorySpec

\* In every behaviour a row that says canceled says so for ever, but where a
\* webhook that overlapped another one of its subscription saves over it.
THEOREM CanceledAlwaysStays == HistorySpec => CanceledStays
  <1>1. HistoryInit => BaseInv /\ RowIsThere /\ SyncInv
    BY InitBase, InitThere, InitSync DEF HistoryInit
  <1>2. BaseInv /\ RowIsThere /\ SyncInv /\ [Next /\ Records]_<<vars, together, raced>>
           => BaseInv' /\ RowIsThere' /\ SyncInv'
    BY AllStep
  <1>3. BaseInv /\ RowIsThere /\ SyncInv /\ [Next /\ Records]_<<vars, together, raced>>
           => [\A i \in DOMAIN rows : rows[i].status = "canceled" =>
                  \/ rows'[i].status = "canceled"
                  \/ \E h \in together : sync[h].row = i /\ sync'[h] = Idle]_vars
    BY CanceledStep
  <1> QED BY <1>1, <1>2, <1>3, PTL DEF HistorySpec, CanceledStays
=============================================================================

--------------------------- MODULE StorefrontCart ---------------------------
(***************************************************************************)
(* CartProvider of packages/storefront-react/src/cart.tsx and the carts of *)
(* the store's API (packages/storefront/src/client.ts, carts).             *)
(*                                                                         *)
(* A mutation is a number and a kind: an "add" (addLines), an "update"     *)
(* (updateLines, removeLines), a "set" (discounts, buyer, address,         *)
(* delivery) or a "refresh".  The content of a cart is the set of the      *)
(* mutations the server applied to it.  A request, its treatment by the    *)
(* server and its answer are three steps, and an answer may be lost.  0 is *)
(* no cart.                                                                *)
(***************************************************************************)
EXTENDS Naturals, Sequences, FiniteSets

CONSTANTS
    MaxOps,      \* bound: mutations issued
    MaxCarts,    \* bound: carts ever created, the first one included
    MaxLost,     \* bound: requests or answers lost
    MaxLoads     \* bound: page loads after the first

ASSUME CartAssumption ==
    MaxOps \in Nat /\ MaxCarts \in Nat \ {0} /\ MaxLost \in Nat /\ MaxLoads \in Nat

VARIABLES
    carts,      \* the server's carts: [alive, lines]
    made,       \* carts created so far
    confirmed,  \* confirmedRef: {} or {the last cart the server answered}
    pending,    \* pendingRef: the optimistic layers, in the order of their numbers
    id,         \* idRef
    cookie,     \* the sf_cart cookie
    queue,      \* queueRef: mutations not settled; the head may be running
    call,       \* {} or {the request of the head of the queue}
    hydration,  \* {} or {the request of the mount effect}
    issued, lost, loads,   \* counters
    late,       \* ghost: a hydration was applied over a confirmed mutation
    left,       \* ghost: carts the client gave up or never heard of
    forgot      \* ghost: "no", or how the last clear() found the provider

page == <<confirmed, pending, id, cookie, queue, call, hydration>>
ghosts == <<late, left, forgot>>
vars == <<carts, made, page, issued, lost, loads, ghosts>>

Kinds == {"add", "update", "set", "refresh"}
Ids == 1..MaxCarts
Ops == [op : 1..MaxOps, kind : Kinds]

\* A cart as the server answers it.
Cart(c) == [id |-> c, lines |-> carts[c].lines]

\* The mount effect with an id and no cart loaded: one get.
Hydrate(c) == IF c = 0 THEN {} ELSE {[id |-> c, back |-> "sent", cart |-> {}]}

\* A shopper without a cart, or who comes back with the cookie of one (which
\* may be gone since).
Init ==
    /\ made = 1
    /\ \E alive \in BOOLEAN :
          carts = [c \in Ids |-> [alive |-> alive /\ c = 1, lines |-> {}]]
    /\ confirmed = {} /\ pending = {} /\ queue = <<>> /\ call = {}
    /\ cookie \in {0, 1} /\ id = cookie /\ hydration = Hydrate(cookie)
    /\ issued = 0 /\ lost = 0 /\ loads = 0
    /\ late = FALSE /\ forgot = "no" /\ left = (IF cookie = 0 THEN {1} ELSE {})

---------------------------------------------------------------------------
(* What the provider shows.                                                *)

\* A layer has an effect on a cart, and an add makes one (optimisticCart).
Layers ==
    {p.op : p \in {p \in pending :
        \/ confirmed # {}
        \/ \E q \in pending : q.op <= p.op /\ q.kind = "add"}}

\* render: the confirmed cart under the pending layers.
Shown == (UNION {c.lines : c \in confirmed}) \cup Layers

---------------------------------------------------------------------------
(* The mutations.                                                          *)

\* Variant: an id once known is never replaced.
PersistFirst(c) == IF id # 0 /\ c # 0 THEN UNCHANGED <<id, cookie>>
                                     ELSE id' = c /\ cookie' = c

\* persistId: the reference and the cookie, when the id changes.
Persist(c) == IF id = c THEN UNCHANGED <<id, cookie>> ELSE id' = c /\ cookie' = c

\* Variant: the layer of a mutation stays.
SettleWithLayer(o) == queue' = Tail(queue) /\ UNCHANGED pending

\* Variant: the other layers leave with it.
SettleAlone(o) == queue' = Tail(queue) /\ pending' = {}

\* finally: the layer of the mutation leaves, and the next one may run.
Settle(o) ==
    /\ queue' = Tail(queue)
    /\ pending' = {p \in pending : p.op # o}

\* The mutation fails: nothing is confirmed.
Fail(o) == Settle(o) /\ call' = {} /\ UNCHANGED <<confirmed, id, cookie>>

\* The mutation is answered with a cart: confirm.
Confirm(o, c) ==
    /\ Settle(o) /\ call' = {} /\ confirmed' = {c} /\ Persist(c.id)

\* A refresh is answered that there is no cart.
Vanish(o) == Settle(o) /\ call' = {} /\ confirmed' = {} /\ Persist(0)

\* The request of a mutation, with the id known now.
Request(o, verb) == call' = {[op |-> o.op, kind |-> o.kind, verb |-> verb,
                              id |-> id, back |-> "sent", cart |-> {}]}

\* addLines, updateLines, removeLines, set..., refresh: the layer shows at
\* once, the call waits for its turn.
Mutate(kind) ==
    /\ issued < MaxOps /\ issued' = issued + 1
    /\ LET o == [op |-> issued', kind |-> kind]
       IN  /\ queue' = Append(queue, o)
           /\ pending' = IF kind \in {"add", "update"} THEN pending \cup {o} ELSE pending
    /\ forgot' = IF kind = "add" THEN "no" ELSE forgot
    /\ UNCHANGED <<carts, made, confirmed, id, cookie, call, hydration, lost, loads, late, left>>

\* The head of the queue runs: it reads the id now.  Without a cart an add
\* creates one, a refresh has nothing to load and the others throw.
Run ==
    /\ queue # <<>> /\ call = {}
    /\ LET o == Head(queue)
       IN  \/ /\ o.kind = "add" \/ id # 0
              /\ Request(o, IF id = 0 THEN "create" ELSE IF o.kind = "refresh" THEN "get" ELSE "write")
              /\ UNCHANGED <<confirmed, pending, id, cookie, queue>>
           \/ o.kind = "refresh" /\ id = 0 /\ Vanish(o.op)
           \/ o.kind \in {"update", "set"} /\ id = 0 /\ Fail(o.op)
    /\ UNCHANGED <<carts, made, hydration, issued, lost, loads, ghosts>>

\* An add to a cart that is gone creates another one.
Restarted(r) == [r EXCEPT !.verb = "create", !.back = "sent"]

\* Variant: a write to a cart that is gone is asked again.
AnswerAgain ==
    \E r \in call :
        /\ r.back # "sent"
        /\ \/ r.back = "cart" /\ \E c \in r.cart : Confirm(r.op, c)
           \/ r.back = "none" /\ Vanish(r.op)
           \/ /\ r.back = "404" /\ call' = {[r EXCEPT !.back = "sent"]}
              /\ UNCHANGED <<confirmed, pending, id, cookie, queue>>
           \/ r.back \in {"refused", "lost"} /\ Fail(r.op)
        /\ UNCHANGED <<carts, made, hydration, issued, lost, loads, late, forgot>>
        /\ left' = IF id' = id THEN left ELSE left \cup {id}

\* The answer of the running mutation.
Answer ==
    \E r \in call :
        /\ r.back # "sent"
        /\ \/ r.back = "cart" /\ \E c \in r.cart : Confirm(r.op, c)
           \/ r.back = "none" /\ Vanish(r.op)
           \/ /\ r.back = "404" /\ r.kind = "add"
              /\ call' = {Restarted(r)}
              /\ UNCHANGED <<confirmed, pending, id, cookie, queue>>
           \/ r.back \in {"refused", "lost"} /\ Fail(r.op)
           \/ r.back = "404" /\ r.kind # "add" /\ Fail(r.op)
        /\ UNCHANGED <<carts, made, hydration, issued, lost, loads, late, forgot>>
        /\ left' = IF id' = id THEN left ELSE left \cup {id}

\* Variant: clear leaves the cookie to the next persisted id.
ClearState ==
    /\ confirmed # {} \/ id # 0
    /\ confirmed' = {} /\ pending' = {} /\ id' = 0
    /\ left' = left \cup {id}
    /\ forgot' = IF queue = <<>> /\ hydration = {} THEN "idle" ELSE "busy"
    /\ UNCHANGED <<carts, made, cookie, queue, call, hydration, issued, lost, loads, late>>

\* clear: at once, whatever the queue holds.
Clear ==
    /\ confirmed # {} \/ id # 0
    /\ confirmed' = {} /\ pending' = {} /\ Persist(0)
    /\ left' = left \cup {id}
    /\ forgot' = IF queue = <<>> /\ hydration = {} THEN "idle" ELSE "busy"
    /\ UNCHANGED <<carts, made, queue, call, hydration, issued, lost, loads, late>>

---------------------------------------------------------------------------
(* The mount effect, the page and the store.                               *)

\* The answer of the mount effect: the cart loaded, or no cart by that id.
\* An error changes nothing.
HydrationAnswer ==
    \E h \in hydration :
        /\ h.back # "sent" /\ hydration' = {}
        /\ \/ h.back = "cart" /\ confirmed' = h.cart /\ Persist(h.id)
           \/ h.back = "none" /\ Persist(0) /\ UNCHANGED confirmed
           \/ h.back \in {"refused", "lost"} /\ UNCHANGED <<confirmed, id, cookie>>
        /\ late' = (late \/ confirmed # {} \/ id = 0)
        /\ left' = IF id' = id THEN left ELSE left \cup {id}
        /\ UNCHANGED <<carts, made, pending, queue, call, issued, lost, loads, forgot>>

\* The page is loaded again: the loader of the server loads the cart of the
\* cookie, or leaves it to the mount effect.
Load ==
    /\ loads < MaxLoads /\ loads' = loads + 1
    /\ id' = cookie /\ pending' = {} /\ queue' = <<>> /\ call' = {}
    /\ \/ confirmed' = {} /\ hydration' = Hydrate(cookie)
       \/ /\ cookie # 0 /\ carts[cookie].alive
          /\ confirmed' = {Cart(cookie)} /\ hydration' = {}
    /\ late' = FALSE
    /\ left' = (1..made) \ {cookie}
    /\ UNCHANGED <<carts, made, cookie, issued, lost, forgot>>

\* The server treats a request: it creates the cart, applies the write, reads
\* the cart, answers 404 (null to a get) for one that is gone, or refuses.
Treated(r, back, cart) == [r EXCEPT !.back = back, !.cart = cart]

Serve ==
    \E r \in call :
        /\ r.back = "sent"
        /\ \/ /\ r.verb = "create" /\ made < MaxCarts /\ made' = made + 1
              /\ carts' = [carts EXCEPT ![made'] = [alive |-> TRUE, lines |-> {r.op}]]
              /\ call' = {Treated(r, "cart", {[id |-> made', lines |-> {r.op}]})}
           \/ /\ r.verb = "write" /\ carts[r.id].alive /\ UNCHANGED made
              /\ carts' = [carts EXCEPT ![r.id].lines = @ \cup {r.op}]
              /\ call' = {Treated(r, "cart", {[id |-> r.id, lines |-> carts'[r.id].lines]})}
           \/ /\ r.verb = "get" /\ carts[r.id].alive
              /\ call' = {Treated(r, "cart", {Cart(r.id)})} /\ UNCHANGED <<carts, made>>
           \/ /\ r.verb # "create" /\ ~carts[r.id].alive
              /\ call' = {Treated(r, IF r.verb = "get" THEN "none" ELSE "404", {})}
              /\ UNCHANGED <<carts, made>>
           \/ call' = {Treated(r, "refused", {})} /\ UNCHANGED <<carts, made>>
        /\ UNCHANGED <<confirmed, pending, id, cookie, queue, hydration, issued, lost, loads, ghosts>>

ServeHydration ==
    \E h \in hydration :
        /\ h.back = "sent"
        /\ hydration' = {IF carts[h.id].alive THEN Treated(h, "cart", {Cart(h.id)})
                                              ELSE Treated(h, "none", {})}
        /\ UNCHANGED <<carts, made, confirmed, pending, id, cookie, queue, call,
                       issued, lost, loads, ghosts>>

\* A request is lost on its way or after it was treated (network, timeout).
Lose ==
    /\ lost < MaxLost /\ lost' = lost + 1
    /\ \/ /\ \E r \in call :
                /\ r.back \in {"sent", "cart"} /\ call' = {Treated(r, "lost", {})}
                /\ left' = left \cup (IF r.verb = "create" THEN {c.id : c \in r.cart} ELSE {})
          /\ UNCHANGED hydration
       \/ /\ \E h \in hydration : h.back = "sent" /\ hydration' = {Treated(h, "lost", {})}
          /\ UNCHANGED <<call, left>>
    /\ UNCHANGED <<carts, made, confirmed, pending, id, cookie, queue, issued, loads, late, forgot>>

\* A cart is paid, from here or elsewhere, or expires.
Expire ==
    /\ \E c \in Ids : carts[c].alive /\ carts' = [carts EXCEPT ![c].alive = FALSE]
    /\ UNCHANGED <<made, page, issued, lost, loads, ghosts>>

Next ==
    \/ \E k \in Kinds : Mutate(k)
    \/ Run \/ Answer \/ Clear \/ HydrationAnswer \/ Load
    \/ Serve \/ ServeHydration \/ Lose \/ Expire

Spec == Init /\ [][Next]_vars

\* The store answers what it is asked, the answers are handled and the queue
\* goes on.
FairSpec == Spec /\ WF_vars(Run) /\ WF_vars(Answer) /\ WF_vars(Serve)

---------------------------------------------------------------------------
(* Properties.                                                             *)

CartSet == {{}} \cup {{c} : c \in [id : Ids, lines : SUBSET (1..MaxOps)]}

Requests ==
    [op : 1..MaxOps, kind : Kinds, verb : {"create", "write", "get"}, id : {0} \cup Ids,
     back : {"sent", "cart", "none", "404", "refused", "lost"}, cart : CartSet]
Hydrations ==
    [id : Ids, back : {"sent", "cart", "none", "refused", "lost"}, cart : CartSet]

TypeOK ==
    /\ carts \in [Ids -> [alive : BOOLEAN, lines : SUBSET (1..MaxOps)]]
    /\ made \in Ids /\ confirmed \in CartSet
    /\ id \in {0} \cup Ids /\ cookie \in {0} \cup Ids
    /\ pending \subseteq Ops /\ queue \in Seq(Ops)
    /\ call \subseteq Requests /\ hydration \subseteq Hydrations
    /\ issued \in 0..MaxOps /\ lost \in 0..MaxLost /\ loads \in 0..MaxLoads
    /\ late \in BOOLEAN /\ left \subseteq {0} \cup Ids
    /\ forgot \in {"no", "idle", "busy"}
    /\ \A r \in call : /\ queue # <<>> /\ r.op = Head(queue).op
                       /\ r.verb = "create" \/ r.id \in Ids

\* The shopper has one cart: two adds in a row, an add to an expired cart or a
\* reload never leave a second one behind, except one given up by clear() or
\* by a late hydration, or whose creation was never answered.
OneCart == Cardinality({c \in Ids : carts[c].alive} \ left) <= 1

\* When everything is settled, what is shown is what the store has: a failed
\* mutation left nothing on screen and took nothing of the others away.
QuietIsServer ==
    \A c \in confirmed :
        (queue = <<>> /\ lost = 0 /\ ~late /\ hydration = {} /\ carts[c.id].alive)
            => Shown = carts[c.id].lines

\* The cart on screen is the one written to next and found again by a reload
\* (the id is persisted in the cookie), but for a late hydration.
ShownIsKnown == ~late => \A c \in confirmed : c.id = id /\ id = cookie

\* The same, claimed of every hydration.
CartIdIsPersisted == \A c \in confirmed : c.id = id /\ id = cookie

\* A clear() that finds nothing under way forgets the cart until the next add.
ClearForgetsIdle == forgot = "idle" => (confirmed = {} /\ id = 0 /\ cookie = 0)

\* The same, claimed of every clear(): "forgets the cart (clears state and
\* cookie), e.g. after checkout".
ClearForgets == forgot # "no" => (confirmed = {} /\ id = 0 /\ cookie = 0)

\* Nothing shown disappears because of the answer of another mutation: only
\* its own failure, a cart that is gone or replaced, clear() or a late
\* hydration take a mutation off the screen.
NothingElseRollsBack ==
    [][\A o \in Shown :
          \/ o \in Shown' \/ loads' # loads \/ late'
          \/ (queue # <<>> /\ Head(queue).op = o /\ queue' = Tail(queue))
          \/ confirmed' = {}
          \/ \E c \in confirmed, d \in confirmed' : c.id # d.id]_vars

\* Every mutation is settled: a failure does not hold the queue, and no cart
\* that is gone is asked for again and again.
QueueDrains == queue # <<>> ~> queue = <<>>
=============================================================================

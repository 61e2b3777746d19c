----------------------- MODULE StorefrontCartProofs -----------------------
(***************************************************************************)
(* Theorems about StorefrontCart, for any number of mutations, carts, lost *)
(* answers and page loads.                                                 *)
(***************************************************************************)
EXTENDS StorefrontCart, FiniteSetTheorems, TLAPS

\* A cart that does not count any more: none, given up, or gone.
Gone(c) == c = 0 \/ c \in left \/ ~carts[c].alive

\* The requests: one at a time, and a cart in them is the one asked for.
Asked ==
    /\ \A q, r \in call : q = r
    /\ \A g, h \in hydration : g = h
    /\ \A r \in call :
          /\ r.back # "cart" => r.cart = {}
          /\ r.back = "404" => r.verb = "write" /\ ~carts[r.id].alive
          /\ r.verb # "create" => \A d \in r.cart : d.id = r.id
    /\ \A h \in hydration : (h.back # "cart" => h.cart = {}) /\ \A d \in h.cart : d.id = h.id

\* Who may own a cart that is alive and was not given up: the provider, or
\* the answer of the creation it asked for when it had none.
Owned ==
    /\ id = cookie
    /\ \A c \in Ids : carts[c].alive => c <= made
    /\ id <= made /\ (\A h \in hydration : h.id <= made)
    /\ \A r \in call : r.id <= made /\ \A d \in r.cart : d.id <= made
    /\ \A c \in Ids : (carts[c].alive /\ c \notin left) =>
          c = id \/ \E r \in call : r.verb = "create" /\ \E d \in r.cart : d.id = c
    /\ \A r \in call : Gone(id) \/ (r.verb # "create" /\ r.id = id)
    /\ \A h \in hydration : h.id = id \/ h.id \in left

\* After a clear() that found nothing under way, nothing can bring a cart back
\* but an add.
Forgotten ==
    forgot = "idle" =>
        /\ confirmed = {} /\ id = 0 /\ call = {} /\ hydration = {}
        /\ \A i \in 1..Len(queue) : queue[i].kind # "add"

\* What is known of a cart is what the store has, or its answer is under way.
Fresh(d) ==
    carts[d.id].alive => \/ d.lines = carts[d.id].lines
                         \/ \E r \in call : \E e \in r.cart : e.id = d.id

Known ==
    /\ \A p \in pending : \E i \in 1..Len(queue) : queue[i].op = p.op
    /\ \A r \in call : \A d \in r.cart : carts[d.id].alive => d.lines = carts[d.id].lines
    /\ (lost = 0 /\ ~late) =>
          /\ \A d \in confirmed : Fresh(d)
          /\ (confirmed = {} /\ id # 0) => \A h \in hydration : \A d \in h.cart : Fresh(d)

\* The store only adds lines to a cart: an older answer holds no line that a
\* newer one lacks, and the answer of the running mutation is the newest.
Grown ==
    /\ \A d \in confirmed : d.id <= made /\ d.lines \subseteq carts[d.id].lines
    /\ \A h \in hydration : \A d \in h.cart : d.lines \subseteq carts[d.id].lines
    /\ \A r \in call : \A d \in r.cart : d.lines = carts[d.id].lines

CartInv == TypeOK /\ Asked /\ Owned /\ Forgotten /\ Known

---------------------------------------------------------------------------
\* persistId leaves the reference and the cookie equal.
LEMMA PersistFacts ==
  ASSUME id = cookie, NEW c, Persist(c) PROVE id' = c /\ cookie' = c
  BY DEF Persist

\* The tail of a queue: what follows the head, in the same order.
LEMMA TailFacts ==
  ASSUME NEW q \in Seq(Ops), q # <<>>
  PROVE  /\ Tail(q) \in Seq(Ops) /\ Len(q) \in Nat \ {0} /\ Len(Tail(q)) = Len(q) - 1
         /\ Head(q) \in Ops /\ Head(q) = q[1]
         /\ \A i \in 1..Len(Tail(q)) : i + 1 \in 1..Len(q) /\ Tail(q)[i] = q[i + 1]
         /\ \A i \in 1..Len(q) : i = 1 \/ (i - 1 \in 1..Len(Tail(q)) /\ Tail(q)[i - 1] = q[i])
  OBVIOUS

\* A queue that grows keeps its head and its order.
LEMMA AppendFacts ==
  ASSUME NEW q \in Seq(Ops), NEW o \in Ops
  PROVE  /\ Append(q, o) \in Seq(Ops) /\ Append(q, o) # <<>> /\ Len(q) \in Nat
         /\ Len(Append(q, o)) = Len(q) + 1 /\ Append(q, o)[Len(q) + 1] = o
         /\ \A i \in 1..Len(q) : Append(q, o)[i] = q[i]
         /\ q # <<>> => Head(Append(q, o)) = Head(q)
  <1>1. Append(q, o) \in Seq(Ops) /\ Len(q) \in Nat /\ Len(Append(q, o)) = Len(q) + 1
    OBVIOUS
  <1>2. Append(q, o)[Len(q) + 1] = o /\ \A i \in 1..Len(q) : Append(q, o)[i] = q[i]
    OBVIOUS
  <1>3. Append(q, o) # <<>>
    OBVIOUS
  <1>4. q # <<>> => Head(Append(q, o)) = Head(q)
    OBVIOUS
  <1> QED BY <1>1, <1>2, <1>3, <1>4

\* A shopper who arrives has the cart of the cookie, or none.
LEMMA InitInv == Init => CartInv
  <1> SUFFICES ASSUME Init PROVE CartInv
    OBVIOUS
  <1> USE CartAssumption
  <1>1. PICK alive \in BOOLEAN : carts = [c \in Ids |-> [alive |-> alive /\ c = 1, lines |-> {}]]
    BY DEF Init
  <1>2. 1 \in Ids /\ made \in Ids /\ cookie \in {0, 1} /\ id = cookie /\ id \in {0} \cup Ids
    BY DEF Init, Ids
  <1>3. carts \in [Ids -> [alive : BOOLEAN, lines : SUBSET (1..MaxOps)]]
    <2>1. \A c \in Ids : (alive /\ c = 1) \in BOOLEAN
      OBVIOUS
    <2>2. {} \in SUBSET (1..MaxOps)
      OBVIOUS
    <2> QED BY <1>1, <2>1, <2>2
  <1>4. hydration = (IF cookie = 0 THEN {} ELSE {[id |-> cookie, back |-> "sent", cart |-> {}]})
    BY DEF Init, Hydrate
  <1>5. hydration \subseteq Hydrations
    BY <1>2, <1>4 DEF Hydrations, CartSet
  <1>6. <<>> \in Seq(Ops) /\ Len(<<>>) = 0 /\ issued \in 0..MaxOps /\ lost \in 0..MaxLost
        /\ loads \in 0..MaxLoads /\ left \subseteq {0} \cup Ids
    BY <1>2 DEF Init
  <1>7. TypeOK
    BY <1>2, <1>3, <1>5, <1>6 DEF Init, TypeOK, CartSet
  <1>h. \A h \in hydration : h.id = cookie /\ h.cart = {} /\ h = [id |-> cookie, back |-> "sent", cart |-> {}]
    BY <1>4
  <1>c. call = {} /\ made = 1
    BY DEF Init
  <1>8. Asked
    BY <1>c, <1>h DEF Asked
  <1>9. Owned
    <2>1. \A c \in Ids : carts[c].alive => c = 1
      BY <1>1
    <2>2. \A c \in Ids : c \notin left /\ carts[c].alive => c = id
      BY <1>2, <2>1 DEF Init
    <2>3. \A c \in Ids : carts[c].alive => c <= made
      BY <1>c, <2>1
    <2> QED BY <1>2, <1>h, <1>c, <2>2, <2>3 DEF Owned
  <1>10. Forgotten /\ Known
    BY <1>4, <1>6 DEF Init, Forgotten, Known
  <1> QED BY <1>7, <1>8, <1>9, <1>10 DEF CartInv

\* The running mutation ends: it failed, was answered with a cart, or the
\* store has none.
LEMMA Ended ==
  ASSUME CartInv, queue # <<>>, Settle(Head(queue).op), call' = {},
         left' = (IF id' = id THEN left ELSE left \cup {id}),
         UNCHANGED <<carts, made, hydration, issued, lost, loads, late, forgot>>,
         \/ UNCHANGED <<confirmed, id, cookie>> /\ (\A r \in call : r.cart = {})
         \/ confirmed' = {} /\ Persist(0) /\ (\A r \in call : r.cart = {})
         \/ \E r \in call : \E d \in r.cart : confirmed' = {d} /\ Persist(d.id)
  PROVE  CartInv'
  <1> USE CartAssumption
  <1>t. TypeOK /\ Asked /\ Owned /\ Forgotten /\ Known
    BY DEF CartInv
  <1>s. /\ queue \in Seq(Ops) /\ pending \subseteq Ops /\ confirmed \in CartSet
        /\ id \in {0} \cup Ids /\ call \subseteq Requests /\ id = cookie /\ left \subseteq {0} \cup Ids
    BY <1>t DEF TypeOK, Owned
  <1>q. /\ queue' = Tail(queue) /\ queue' \in Seq(Ops)
        /\ pending' = {p \in pending : p.op # Head(queue).op} /\ pending' \subseteq Ops
    BY <1>s, TailFacts DEF Settle
  <1>c. \A r \in call : \A d \in r.cart : d \in [id : Ids, lines : SUBSET (1..MaxOps)]
    BY <1>s DEF Requests, CartSet
  <1>0. /\ id' \in {0} \cup Ids /\ cookie' = id' /\ confirmed' \in CartSet
        /\ \/ id' = id /\ confirmed' = confirmed /\ (\A r \in call : r.cart = {})
           \/ id' = 0 /\ confirmed' = {} /\ (\A r \in call : r.cart = {})
           \/ \E r \in call : \E d \in r.cart : confirmed' = {d} /\ id' = d.id
    <2>1. CASE UNCHANGED <<confirmed, id, cookie>> /\ (\A r \in call : r.cart = {})
      BY <1>s, <2>1
    <2>2. CASE confirmed' = {} /\ Persist(0) /\ (\A r \in call : r.cart = {})
      BY <1>s, <2>2, PersistFacts DEF CartSet
    <2>3. CASE \E r \in call : \E d \in r.cart : confirmed' = {d} /\ Persist(d.id)
      <3>1. PICK r \in call : \E d \in r.cart : confirmed' = {d} /\ Persist(d.id)
        BY <2>3
      <3>2. PICK d \in r.cart : confirmed' = {d} /\ Persist(d.id)
        BY <3>1
      <3>3. id' = d.id /\ cookie' = d.id
        BY <1>s, <3>2, PersistFacts
      <3> QED BY <1>c, <3>1, <3>2, <3>3 DEF CartSet
    <2> QED BY <2>1, <2>2, <2>3
  <1>1. TypeOK'
    <2>1. left' \subseteq {0} \cup Ids
      BY <1>s
    <2> QED BY <1>t, <1>q, <1>0, <2>1 DEF TypeOK
  <1>2. Asked'
    BY <1>t DEF Asked
  <1>3. Owned'
    <2>1. ASSUME NEW c \in Ids, carts[c].alive, c \notin left' PROVE c = id'
      <3>1. c \notin left
        BY <2>1
      <3>2. c = id \/ \E r \in call : r.verb = "create" /\ \E d \in r.cart : d.id = c
        BY <1>t, <2>1, <3>1 DEF Owned
      <3>3. CASE c = id
        BY <2>1, <3>3
      <3>4. CASE \E r \in call : r.verb = "create" /\ \E d \in r.cart : d.id = c
        <4>1. PICK r \in call : r.verb = "create" /\ \E d \in r.cart : d.id = c
          BY <3>4
        <4>2. PICK d \in r.cart : d.id = c
          BY <4>1
        <4>3. \A x \in call : x = r
          BY <1>t DEF Asked
        <4>4. \A x \in r.cart : x = d
          BY <1>s DEF Requests, CartSet
        <4>5. id' = d.id
          BY <1>0, <4>2, <4>3, <4>4
        <4> QED BY <4>2, <4>5
      <3> QED BY <3>2, <3>3, <3>4
    <2>2. \A h \in hydration : h.id = id' \/ h.id \in left'
      BY <1>t DEF Owned
    <2>3. made \in Nat /\ 0 <= made
      BY <1>t DEF TypeOK, Ids
    <2>4. id' <= made
      BY <1>t, <1>0, <2>3 DEF Owned
    <2>5. \A c \in Ids : carts[c].alive => c <= made
      BY <1>t DEF Owned
    <2>6. \A h \in hydration : h.id <= made
      BY <1>t DEF Owned
    <2> QED BY <1>0, <2>1, <2>2, <2>4, <2>5, <2>6 DEF Owned
  <1>4. Forgotten'
    <2> SUFFICES ASSUME forgot = "idle"
                 PROVE  /\ confirmed' = {} /\ id' = 0 /\ hydration' = {}
                        /\ \A i \in 1..Len(queue') : queue'[i].kind # "add"
      BY DEF Forgotten
    <2>1. confirmed = {} /\ id = 0 /\ call = {} /\ hydration = {}
          /\ \A i \in 1..Len(queue) : queue[i].kind # "add"
      BY <1>t DEF Forgotten
    <2>2. confirmed' = {} /\ id' = 0
      BY <1>0, <2>1
    <2> QED BY <1>s, <1>q, <2>1, <2>2, TailFacts
  <1>5. Known'
    <2>1. ASSUME NEW p \in pending' PROVE \E i \in 1..Len(queue') : queue'[i].op = p.op
      <3>1. PICK i \in 1..Len(queue) : queue[i].op = p.op
        BY <1>t, <1>q, <2>1 DEF Known
      <3>2. i # 1
        BY <1>s, <1>q, <2>1, <3>1, TailFacts
      <3>3. i - 1 \in 1..Len(Tail(queue)) /\ Tail(queue)[i - 1] = queue[i]
        BY <1>s, <3>2, TailFacts
      <3> QED BY <1>q, <3>1, <3>3
    <2>2. ASSUME lost = 0, ~late, NEW d \in confirmed', carts[d.id].alive PROVE d.lines = carts[d.id].lines
      <3>1. CASE confirmed' = confirmed /\ (\A r \in call : r.cart = {})
        BY <1>t, <2>2, <3>1 DEF Known, Fresh
      <3>2. CASE \E r \in call : \E e \in r.cart : confirmed' = {e}
        BY <1>t, <2>2, <3>2 DEF Known
      <3> QED BY <1>0, <2>2, <3>1, <3>2
    <2>3. ASSUME lost = 0, ~late, confirmed' = {}, id' # 0, NEW h \in hydration, NEW d \in h.cart,
                 carts[d.id].alive
          PROVE  d.lines = carts[d.id].lines
      <3>1. id' = id /\ confirmed' = confirmed /\ \A r \in call : r.cart = {}
        BY <1>0, <2>3
      <3> QED BY <1>t, <2>3, <3>1 DEF Known, Fresh
    <2> QED BY <2>1, <2>2, <2>3 DEF Known, Fresh
  <1> QED BY <1>1, <1>2, <1>3, <1>4, <1>5 DEF CartInv

\* A mutation takes its place at the end of the queue.
LEMMA MutateInv == ASSUME CartInv, NEW k \in Kinds, Mutate(k) PROVE CartInv'
  <1> USE CartAssumption
  <1>t. TypeOK /\ Asked /\ Owned /\ Forgotten /\ Known
    BY DEF CartInv
  <1> DEFINE o == [op |-> issued + 1, kind |-> k]
  <1>1. /\ issued < MaxOps /\ issued' = issued + 1 /\ queue' = Append(queue, o)
        /\ pending' \in {pending, pending \cup {o}}
        /\ forgot' = (IF k = "add" THEN "no" ELSE forgot)
        /\ UNCHANGED <<carts, made, confirmed, id, cookie, call, hydration, lost, loads, late, left>>
    BY DEF Mutate
  <1>2. o \in Ops /\ o.kind = k /\ issued' \in 0..MaxOps
    BY <1>t, <1>1 DEF TypeOK, Ops
  <1> HIDE DEF o
  <1>s. queue \in Seq(Ops)
    BY <1>t DEF TypeOK
  <1>3. /\ queue' \in Seq(Ops) /\ queue' # <<>> /\ Len(queue) \in Nat /\ Len(queue') = Len(queue) + 1
        /\ queue'[Len(queue) + 1] = o /\ (\A i \in 1..Len(queue) : queue'[i] = queue[i])
        /\ (queue # <<>> => Head(queue') = Head(queue))
    BY <1>1, <1>2, <1>s, AppendFacts
  <1>4. TypeOK'
    <2>1. pending' \subseteq Ops /\ forgot' \in {"no", "idle", "busy"}
      BY <1>t, <1>1, <1>2 DEF TypeOK
    <2> QED BY <1>t, <1>1, <1>2, <1>3, <2>1 DEF TypeOK
  <1>5. Asked' /\ Owned'
    BY <1>t, <1>1 DEF Asked, Owned, Gone
  <1>6. Forgotten'
    BY <1>t, <1>1, <1>2, <1>3 DEF Forgotten
  <1>7. Known'
    <2>1. ASSUME NEW p \in pending' PROVE \E i \in 1..Len(queue') : queue'[i].op = p.op
      <3>1. CASE p \in pending
        <4>1. PICK i \in 1..Len(queue) : queue[i].op = p.op
          BY <1>t, <3>1 DEF Known
        <4>2. i \in 1..Len(queue') /\ queue'[i].op = p.op
          BY <1>3, <4>1
        <4> QED BY <4>2
      <3>2. CASE p = o
        <4>1. Len(queue) + 1 \in 1..Len(queue')
          BY <1>3
        <4> QED BY <1>3, <3>2, <4>1
      <3> QED BY <1>1, <2>1, <3>1, <3>2
    <2> QED BY <1>t, <1>1, <2>1 DEF Known, Fresh
  <1> QED BY <1>4, <1>5, <1>6, <1>7 DEF CartInv

\* The head of the queue asks the store, or ends at once.
LEMMA RunInv == ASSUME CartInv, Run PROVE CartInv'
  <1> USE CartAssumption
  <1>t. TypeOK /\ Asked /\ Owned /\ Forgotten /\ Known
    BY DEF CartInv
  <1> DEFINE o == Head(queue)
  <1>1. /\ queue # <<>> /\ call = {} /\ UNCHANGED <<carts, made, hydration, issued, lost, loads, late, left, forgot>>
        /\ \/ /\ o.kind = "add" \/ id # 0
              /\ Request(o, IF id = 0 THEN "create" ELSE IF o.kind = "refresh" THEN "get" ELSE "write")
              /\ UNCHANGED <<confirmed, pending, id, cookie, queue>>
           \/ id = 0 /\ Vanish(o.op)
           \/ Fail(o.op)
    BY DEF Run, ghosts
  <1>2. CASE id = 0 /\ Vanish(o.op)
    <2>1. Settle(o.op) /\ call' = {} /\ confirmed' = {} /\ Persist(0)
      BY <1>2 DEF Vanish
    <2>2. id' = id
      BY <1>2, <2>1 DEF Persist
    <2> QED BY <1>1, <2>1, <2>2, Ended
  <1>3. CASE Fail(o.op)
    <2>1. Settle(o.op) /\ call' = {} /\ UNCHANGED <<confirmed, id, cookie>>
      BY <1>3 DEF Fail
    <2> QED BY <1>1, <2>1, Ended
  <1>4. CASE /\ o.kind = "add" \/ id # 0
             /\ Request(o, IF id = 0 THEN "create" ELSE IF o.kind = "refresh" THEN "get" ELSE "write")
             /\ UNCHANGED <<confirmed, pending, id, cookie, queue>>
    <2>1. o \in Ops /\ o = queue[1] /\ 1 \in 1..Len(queue)
      BY <1>t, <1>1, TailFacts DEF TypeOK
    <2> DEFINE verb == IF id = 0 THEN "create" ELSE IF o.kind = "refresh" THEN "get" ELSE "write"
               r == [op |-> o.op, kind |-> o.kind, verb |-> verb, id |-> id, back |-> "sent", cart |-> {}]
    <2>2. call' = {r}
      BY <1>4 DEF Request
    <2>3. r \in Requests
      BY <1>t, <2>1 DEF TypeOK, Ops, Requests, CartSet
    <2>4. r.op = o.op /\ r.id = id /\ r.cart = {} /\ r.back = "sent" /\ (r.verb = "create" <=> id = 0)
      OBVIOUS
    <2> HIDE DEF r, verb
    <2>5. TypeOK'
      <3>1. \A q \in call' : queue' # <<>> /\ q.op = Head(queue').op /\ (q.verb = "create" \/ q.id \in Ids)
        BY <1>t, <1>1, <1>4, <2>2, <2>4 DEF TypeOK
      <3>2. call' \subseteq Requests
        BY <2>2, <2>3
      <3>3. /\ UNCHANGED <<carts, made, hydration, issued, lost, loads, late, left, forgot>>
            /\ UNCHANGED <<confirmed, pending, id, cookie, queue>>
        BY <1>1, <1>4
      <3> QED BY <1>t, <3>1, <3>2, <3>3 DEF TypeOK
    <2>6. Asked'
      BY <1>t, <1>1, <2>2, <2>4 DEF Asked
    <2>7. Owned'
      <3>1. \A c \in Ids : (carts[c].alive /\ c \notin left) => c = id
        BY <1>t, <1>1 DEF Owned
      <3> QED BY <1>t, <1>1, <1>4, <2>2, <2>4, <3>1 DEF Owned, Gone
    <2>8. Forgotten'
      BY <1>t, <1>1, <1>4, <2>1 DEF Forgotten
    <2>9. Known'
      BY <1>t, <1>1, <1>4, <2>2, <2>4 DEF Known, Fresh
    <2> QED BY <2>5, <2>6, <2>7, <2>8, <2>9 DEF CartInv
  <1> QED BY <1>1, <1>2, <1>3, <1>4

\* The answer of the running mutation.
LEMMA AnswerInv == ASSUME CartInv, Answer PROVE CartInv'
  <1> USE CartAssumption
  <1>t. TypeOK /\ Asked /\ Owned /\ Forgotten /\ Known
    BY DEF CartInv
  <1>1. PICK r \in call :
          /\ r.back # "sent"
          /\ \/ r.back = "cart" /\ \E c \in r.cart : Confirm(r.op, c)
             \/ r.back = "none" /\ Vanish(r.op)
             \/ /\ r.back = "404" /\ r.kind = "add"
                /\ call' = {Restarted(r)}
                /\ UNCHANGED <<confirmed, pending, id, cookie, queue>>
             \/ r.back \in {"refused", "lost"} /\ Fail(r.op)
             \/ r.back = "404" /\ r.kind # "add" /\ Fail(r.op)
          /\ UNCHANGED <<carts, made, hydration, issued, lost, loads, late, forgot>>
          /\ left' = IF id' = id THEN left ELSE left \cup {id}
    BY DEF Answer
  <1>2. r \in Requests /\ queue # <<>> /\ r.op = Head(queue).op /\ \A x \in call : x = r
    BY <1>t DEF TypeOK, Asked
  <1>3. r.back # "cart" => \A x \in call : x.cart = {}
    BY <1>t, <1>2 DEF Asked
  <1>4. CASE r.back = "cart" /\ \E c \in r.cart : Confirm(r.op, c)
    <2>1. PICK c \in r.cart : Confirm(r.op, c)
      BY <1>4
    <2>2. Settle(Head(queue).op) /\ call' = {} /\ confirmed' = {c} /\ Persist(c.id)
      BY <1>2, <2>1 DEF Confirm
    <2> QED BY <1>1, <1>2, <2>2, Ended
  <1>5. CASE r.back = "none" /\ Vanish(r.op)
    <2>1. Settle(Head(queue).op) /\ call' = {} /\ confirmed' = {} /\ Persist(0)
      BY <1>2, <1>5 DEF Vanish
    <2> QED BY <1>1, <1>2, <1>3, <1>5, <2>1, Ended
  <1>6. CASE r.back \in {"refused", "lost", "404"} /\ Fail(r.op)
    <2>1. Settle(Head(queue).op) /\ call' = {} /\ UNCHANGED <<confirmed, id, cookie>>
      BY <1>2, <1>6 DEF Fail
    <2> QED BY <1>1, <1>2, <1>3, <1>6, <2>1, Ended
  <1>7. CASE /\ r.back = "404" /\ call' = {Restarted(r)}
             /\ UNCHANGED <<confirmed, pending, id, cookie, queue>>
    <2> DEFINE n == Restarted(r)
    <2>1. /\ n \in Requests /\ n.op = r.op /\ n.id = r.id /\ n.verb = "create" /\ n.back = "sent" /\ n.cart = {}
      BY <1>2, <1>3, <1>7 DEF Restarted, Requests
    <2>2. call' = {n} /\ left' = left
      BY <1>1, <1>7
    <2> HIDE DEF n
    <2>3. TypeOK'
      <3>1. \A q \in call' : queue' # <<>> /\ q.op = Head(queue').op /\ (q.verb = "create" \/ q.id \in Ids)
        BY <1>2, <1>7, <2>1, <2>2
      <3> QED BY <1>t, <1>1, <1>7, <2>1, <2>2, <3>1 DEF TypeOK
    <2>4. Asked'
      BY <1>t, <1>1, <2>1, <2>2 DEF Asked
    <2>5. Owned'
      <3>1. Gone(id)
        BY <1>t, <1>7 DEF Owned, Asked, Gone
      <3>2. \A c \in Ids : (carts[c].alive /\ c \notin left) => c = id
        BY <1>t, <1>3, <1>7 DEF Owned
      <3> QED BY <1>t, <1>1, <1>7, <2>1, <2>2, <3>1, <3>2 DEF Owned, Gone
    <2>6. Forgotten'
      BY <1>t, <1>1, <1>7 DEF Forgotten
    <2>7. Known'
      <3>1. \A d : Fresh(d) => (carts[d.id].alive => d.lines = carts[d.id].lines)
        BY <1>3, <1>7 DEF Fresh
      <3> QED BY <1>t, <1>1, <1>7, <2>1, <2>2, <3>1, ZenonT(60) DEF Known, Fresh
    <2> QED BY <2>3, <2>4, <2>5, <2>6, <2>7 DEF CartInv
  <1> QED BY <1>1, <1>4, <1>5, <1>6, <1>7

\* clear() gives the cart up, whatever the queue holds.
LEMMA ClearInv == ASSUME CartInv, Clear PROVE CartInv'
  <1> USE CartAssumption
  <1>t. TypeOK /\ Asked /\ Owned /\ Forgotten /\ Known
    BY DEF CartInv
  <1>1. /\ confirmed' = {} /\ pending' = {} /\ Persist(0) /\ left' = left \cup {id}
        /\ forgot' = (IF queue = <<>> /\ hydration = {} THEN "idle" ELSE "busy")
        /\ UNCHANGED <<carts, made, queue, call, hydration, issued, lost, loads, late>>
    BY DEF Clear
  <1>2. id' = 0 /\ cookie' = 0
    BY <1>t, <1>1, PersistFacts DEF Owned
  <1>3. TypeOK'
    <2>1. left' \subseteq {0} \cup Ids /\ confirmed' \in CartSet /\ pending' \subseteq Ops
          /\ forgot' \in {"no", "idle", "busy"}
      BY <1>t, <1>1 DEF TypeOK, CartSet
    <2> QED BY <1>t, <1>1, <1>2, <2>1 DEF TypeOK
  <1>4. Asked'
    BY <1>t, <1>1 DEF Asked
  <1>5. Owned'
    <2>1. \A c \in Ids : (carts[c].alive /\ c \notin left') =>
             \E r \in call : r.verb = "create" /\ \E d \in r.cart : d.id = c
      BY <1>t, <1>1 DEF Owned
    <2>2. \A h \in hydration : h.id \in left'
      BY <1>t, <1>1 DEF Owned
    <2>3. 0 <= made
      BY <1>t DEF TypeOK, Ids
    <2>4. /\ \A c \in Ids : carts[c].alive => c <= made
          /\ (\A h \in hydration : h.id <= made)
          /\ \A r \in call : r.id <= made /\ \A d \in r.cart : d.id <= made
      BY <1>t DEF Owned
    <2>5. Gone(0)'
      BY DEF Gone
    <2> QED BY <1>1, <1>2, <2>1, <2>2, <2>3, <2>4, <2>5 DEF Owned
  <1>6. Forgotten'
    <2> SUFFICES ASSUME forgot' = "idle" PROVE call = {} /\ hydration = {} /\ Len(queue) = 0
      BY <1>1, <1>2 DEF Forgotten
    <2>1. queue = <<>> /\ hydration = {}
      BY <1>1
    <2> QED BY <1>t, <2>1 DEF TypeOK
  <1>7. Known'
    BY <1>t, <1>1, <1>2 DEF Known, Fresh
  <1> QED BY <1>3, <1>4, <1>5, <1>6, <1>7 DEF CartInv

\* The mount effect is answered.
LEMMA HydrationInv == ASSUME CartInv, HydrationAnswer PROVE CartInv'
  <1> USE CartAssumption
  <1>t. TypeOK /\ Asked /\ Owned /\ Forgotten /\ Known
    BY DEF CartInv
  <1>1. PICK h \in hydration :
          /\ h.back # "sent" /\ hydration' = {}
          /\ \/ h.back = "cart" /\ confirmed' = h.cart /\ Persist(h.id)
             \/ h.back = "none" /\ Persist(0) /\ UNCHANGED confirmed
             \/ h.back \in {"refused", "lost"} /\ UNCHANGED <<confirmed, id, cookie>>
          /\ late' = (late \/ confirmed # {} \/ id = 0)
          /\ left' = IF id' = id THEN left ELSE left \cup {id}
          /\ UNCHANGED <<carts, made, pending, queue, call, issued, lost, loads, forgot>>
    BY DEF HydrationAnswer
  <1>2. h \in Hydrations /\ h.id \in Ids /\ h.cart \in CartSet /\ id = cookie
    BY <1>t DEF TypeOK, Owned, Hydrations
  <1>3. /\ cookie' = id' /\ id' \in {0, id, h.id} /\ confirmed' \in CartSet
        /\ \/ h.back = "cart" /\ confirmed' = h.cart /\ id' = h.id
           \/ id' = 0 /\ confirmed' = confirmed
           \/ id' = id /\ confirmed' = confirmed
    <2>1. CASE h.back = "cart" /\ confirmed' = h.cart /\ Persist(h.id)
      BY <1>2, <2>1, PersistFacts
    <2>2. CASE Persist(0) /\ UNCHANGED confirmed
      BY <1>t, <1>2, <2>2, PersistFacts DEF TypeOK
    <2>3. CASE UNCHANGED <<confirmed, id, cookie>>
      BY <1>t, <1>2, <2>3 DEF TypeOK
    <2> QED BY <1>1, <2>1, <2>2, <2>3
  <1>4. TypeOK'
    <2>1. left' \subseteq {0} \cup Ids /\ id' \in {0} \cup Ids
      BY <1>t, <1>1, <1>2, <1>3 DEF TypeOK
    <2>2. late' \in BOOLEAN
      BY <1>1
    <2>3. hydration' \subseteq Hydrations
      BY <1>1
    <2> QED BY <1>t, <1>1, <1>3, <2>1, <2>2, <2>3 DEF TypeOK
  <1>5. Asked'
    BY <1>t, <1>1 DEF Asked
  <1>6. Owned'
    <2>1. h.id = id \/ h.id \in left
      BY <1>t DEF Owned
    <2>2. \A c \in Ids : (carts[c].alive /\ c \notin left') =>
             c = id' \/ \E r \in call : r.verb = "create" /\ \E d \in r.cart : d.id = c
      BY <1>t, <1>1 DEF Owned
    <2>3. \A r \in call : Gone(id)' \/ (r.verb # "create" /\ r.id = id')
      <3>1. CASE id' = id
        BY <1>t, <1>1, <3>1 DEF Owned, Gone
      <3>2. CASE id' = 0
        BY <3>2 DEF Gone
      <3>3. CASE id' = h.id /\ id' # id
        BY <1>1, <2>1, <3>3 DEF Gone
      <3> QED BY <1>3, <3>1, <3>2, <3>3
    <2>4. id' <= made
      <3>1. 0 <= made
        BY <1>t DEF TypeOK, Ids
      <3> QED BY <1>t, <1>3, <3>1 DEF Owned
    <2>5. /\ \A c \in Ids : carts[c].alive => c <= made
          /\ \A r \in call : r.id <= made /\ \A d \in r.cart : d.id <= made
      BY <1>t DEF Owned
    <2> QED BY <1>1, <1>3, <2>2, <2>3, <2>4, <2>5 DEF Owned
  <1>7. Forgotten'
    BY <1>t, <1>1 DEF Forgotten
  <1>8. Known'
    <2>1. ASSUME lost' = 0, ~late', NEW d \in confirmed' PROVE Fresh(d)
      <3>1. lost = 0 /\ ~late /\ confirmed = {} /\ id # 0
        BY <1>1, <2>1
      <3>2. d \in h.cart
        BY <1>3, <2>1, <3>1
      <3> QED BY <1>t, <3>1, <3>2 DEF Known
    <2>2. \A d : Fresh(d) => Fresh(d)'
      BY <1>1 DEF Fresh
    <2> QED BY <1>t, <1>1, <2>1, <2>2 DEF Known
  <1> QED BY <1>4, <1>5, <1>6, <1>7, <1>8 DEF CartInv

\* The page is loaded again.
LEMMA LoadInv == ASSUME CartInv, Load PROVE CartInv'
  <1> USE CartAssumption
  <1>t. TypeOK /\ Asked /\ Owned /\ Forgotten /\ Known
    BY DEF CartInv
  <1>1. /\ id' = cookie /\ pending' = {} /\ queue' = <<>> /\ call' = {}
        /\ \/ confirmed' = {} /\ hydration' = Hydrate(cookie)
           \/ /\ cookie # 0 /\ carts[cookie].alive
              /\ confirmed' = {Cart(cookie)} /\ hydration' = {}
        /\ late' = FALSE /\ left' = (1..made) \ {cookie}
        /\ UNCHANGED <<carts, made, cookie, issued, lost, forgot>>
        /\ loads < MaxLoads /\ loads' = loads + 1
    BY DEF Load
  <1>2. cookie \in {0} \cup Ids /\ id = cookie /\ made \in Ids /\ Len(<<>>) = 0 /\ <<>> \in Seq(Ops)
    BY <1>t DEF TypeOK, Owned
  <1>3. \A h \in hydration' : /\ h = [id |-> cookie, back |-> "sent", cart |-> {}] /\ cookie \in Ids
                             /\ h.id = cookie /\ h.cart = {} /\ h.back = "sent"
    <2>1. CASE hydration' = Hydrate(cookie)
      BY <1>2, <2>1 DEF Hydrate
    <2>2. CASE hydration' = {}
      BY <2>2
    <2> QED BY <1>1, <2>1, <2>2
  <1>4. \A d \in confirmed' : /\ cookie # 0 /\ confirmed' = {d} /\ d.lines = carts[d.id].lines
                             /\ d \in [id : Ids, lines : SUBSET (1..MaxOps)]
    BY <1>t, <1>1, <1>2 DEF Cart, TypeOK
  <1>5. TypeOK'
    <2>1. confirmed' \in CartSet
      BY <1>4 DEF CartSet
    <2>2. hydration' \subseteq Hydrations
      BY <1>3 DEF Hydrations, CartSet
    <2>3. left' \subseteq {0} \cup Ids /\ loads' \in 0..MaxLoads
      BY <1>t, <1>1, <1>2 DEF Ids, TypeOK
    <2> QED BY <1>t, <1>1, <1>2, <2>1, <2>2, <2>3 DEF TypeOK
  <1>6. Asked'
    BY <1>1, <1>3 DEF Asked
  <1>7. Owned'
    <2>1. \A c \in Ids : carts[c].alive => c \in 1..made
      BY <1>t, <1>2 DEF Owned, Ids
    <2>2. \A c \in Ids : (carts[c].alive /\ c \notin left') => c = id'
      BY <1>1, <2>1
    <2> QED BY <1>t, <1>1, <1>2, <1>3, <2>2 DEF Owned
  <1>8. Forgotten'
    <2> SUFFICES ASSUME forgot = "idle" PROVE confirmed' = {} /\ id' = 0 /\ hydration' = {}
      BY <1>1, <1>2 DEF Forgotten
    <2>1. cookie = 0
      BY <1>t, <1>2 DEF Forgotten
    <2> QED BY <1>1, <2>1 DEF Hydrate
  <1>9. Known'
    BY <1>1, <1>2, <1>3, <1>4 DEF Known, Fresh
  <1> QED BY <1>5, <1>6, <1>7, <1>8, <1>9 DEF CartInv

\* The answer b with the carts k to the request r, in a step of the store.
Answers(r, b, k) ==
    /\ call' = {Treated(r, b, k)}
    /\ b # "cart" => k = {}
    /\ b = "404" => r.verb = "write" /\ ~carts'[r.id].alive
    /\ \A d \in k : d.lines = carts'[d.id].lines /\ d.id \in Ids /\ d.id <= made'
    /\ r.verb # "create" => \A d \in k : d.id = r.id
    /\ \A c \in Ids : \/ carts'[c] = carts[c]
                      \/ /\ \E d \in k : d.id = c
                         /\ \/ r.verb = "create" /\ c = made + 1
                            \/ carts[c].alive

\* The store treats the request of the running mutation: what it answers is
\* what it has now.
LEMMA ServeInv == ASSUME CartInv, Serve PROVE CartInv'
  <1> USE CartAssumption
  <1>t. TypeOK /\ Asked /\ Owned /\ Forgotten /\ Known
    BY DEF CartInv
  <1>1. PICK r \in call :
        /\ r.back = "sent"
        /\ \/ /\ r.verb = "create" /\ made < MaxCarts /\ made' = made + 1
              /\ carts' = [carts EXCEPT ![made'] = [alive |-> TRUE, lines |-> {r.op}]]
              /\ call' = {Treated(r, "cart", {[id |-> made', lines |-> {r.op}]})}
           \/ /\ r.verb = "write" /\ carts[r.id].alive /\ UNCHANGED made
              /\ carts' = [carts EXCEPT ![r.id].lines = @ \cup {r.op}]
              /\ call' = {Treated(r, "cart", {[id |-> r.id, lines |-> carts'[r.id].lines]})}
           \/ /\ r.verb = "get" /\ carts[r.id].alive
              /\ call' = {Treated(r, "cart", {Cart(r.id)})} /\ UNCHANGED <<carts, made>>
           \/ /\ r.verb # "create" /\ ~carts[r.id].alive
              /\ call' = {Treated(r, IF r.verb = "get" THEN "none" ELSE "404", {})}
              /\ UNCHANGED <<carts, made>>
           \/ call' = {Treated(r, "refused", {})} /\ UNCHANGED <<carts, made>>
        /\ UNCHANGED <<confirmed, pending, id, cookie, queue, hydration, issued, lost, loads, late, left, forgot>>
    BY DEF Serve, ghosts
  <1>2. /\ r \in Requests /\ r.op \in 1..MaxOps /\ r.verb \in {"create", "write", "get"}
        /\ queue # <<>> /\ r.op = Head(queue).op /\ (r.verb = "create" \/ r.id \in Ids)
        /\ \A x \in call : x = r /\ x.cart = {}
    BY <1>t, <1>1 DEF TypeOK, Asked, Requests
  <1>3. carts \in [Ids -> [alive : BOOLEAN, lines : SUBSET (1..MaxOps)]] /\ made \in Ids
    BY <1>t DEF TypeOK
  \* What each answer is.
  <1>4. /\ carts' \in [Ids -> [alive : BOOLEAN, lines : SUBSET (1..MaxOps)]] /\ made' \in Ids
        /\ \A c \in Ids : carts'[c].alive => c <= made'
        /\ \E b \in {"cart", "none", "404", "refused"}, k \in CartSet : Answers(r, b, k)
    <2>1. CASE /\ r.verb = "create" /\ made < MaxCarts /\ made' = made + 1
               /\ carts' = [carts EXCEPT ![made'] = [alive |-> TRUE, lines |-> {r.op}]]
               /\ call' = {Treated(r, "cart", {[id |-> made', lines |-> {r.op}]})}
      <3>1. made' \in Ids /\ \A c \in Ids : c <= made => c <= made'
        BY <1>3, <2>1 DEF Ids
      <3>2. \A c \in Ids : carts[c].alive => c <= made
        BY <1>t DEF Owned
      <3>3. made' <= made'
        BY <1>3, <2>1 DEF Ids
      <3>4. {[id |-> made', lines |-> {r.op}]} \in CartSet
        BY <1>2, <3>1 DEF CartSet
      <3>5. [alive |-> TRUE, lines |-> {r.op}] \in [alive : BOOLEAN, lines : SUBSET (1..MaxOps)]
        BY <1>2
      <3>6. carts' \in [Ids -> [alive : BOOLEAN, lines : SUBSET (1..MaxOps)]]
            /\ carts'[made'] = [alive |-> TRUE, lines |-> {r.op}]
            /\ \A c \in Ids : c # made' => carts'[c] = carts[c]
        BY <1>3, <2>1, <3>1, <3>5
      <3>7. \A c \in Ids : carts'[c].alive => c <= made'
        BY <3>1, <3>2, <3>3, <3>6
      <3> DEFINE k == {[id |-> made', lines |-> {r.op}]}
      <3>8. \A d \in k : d.id = made' /\ d.lines = {r.op}
        OBVIOUS
      <3>9. \E d \in k : d.id = made'
        OBVIOUS
      <3>10. call' = {Treated(r, "cart", k)} /\ k \in CartSet
        BY <2>1, <3>4
      <3> HIDE DEF k
      <3>11. \A d \in k : d.lines = carts'[d.id].lines /\ d.id \in Ids /\ d.id <= made'
        <4>1. carts'[made'].lines = {r.op}
          BY <3>6
        <4> QED BY <3>1, <3>3, <3>8, <4>1
      <3>12. Answers(r, "cart", k)
        BY <2>1, <3>6, <3>8, <3>9, <3>10, <3>11 DEF Answers
      <3> QED BY <3>1, <3>6, <3>7, <3>10, <3>12
    <2>2. CASE /\ r.verb = "write" /\ carts[r.id].alive /\ UNCHANGED made
               /\ carts' = [carts EXCEPT ![r.id].lines = @ \cup {r.op}]
               /\ call' = {Treated(r, "cart", {[id |-> r.id, lines |-> carts'[r.id].lines]})}
      <3>1. r.id \in Ids
        BY <1>2, <2>2
      <3>2. PICK n : n = [carts[r.id] EXCEPT !.lines = @ \cup {r.op}]
        OBVIOUS
      <3>3. n \in [alive : BOOLEAN, lines : SUBSET (1..MaxOps)] /\ n.alive = carts[r.id].alive
        BY <1>2, <1>3, <3>1, <3>2
      <3>4. carts' = [carts EXCEPT ![r.id] = n]
        BY <1>3, <2>2, <3>1, <3>2
      <3>5. carts' \in [Ids -> [alive : BOOLEAN, lines : SUBSET (1..MaxOps)]]
            /\ carts'[r.id] = n /\ \A c \in Ids : c # r.id => carts'[c] = carts[c]
        BY <1>3, <3>1, <3>3, <3>4
      <3> DEFINE k == {[id |-> r.id, lines |-> carts'[r.id].lines]}
      <3>6. k \in CartSet
        BY <3>1, <3>3, <3>5 DEF CartSet
      <3>7. \A d \in k : d.id = r.id /\ d.lines = carts'[r.id].lines
        OBVIOUS
      <3>8. \E d \in k : d.id = r.id
        OBVIOUS
      <3>9. call' = {Treated(r, "cart", k)}
        BY <2>2
      <3>10. \A c \in Ids : carts'[c].alive => c <= made'
        BY <1>t, <2>2, <3>3, <3>5 DEF Owned
      <3> HIDE DEF k
      <3>11. \A c \in Ids : carts'[c] = carts[c] \/ ((\E d \in k : d.id = c) /\ carts[c].alive)
        BY <2>2, <3>5, <3>8
      <3>12. Answers(r, "cart", k)
        BY <1>t, <1>1, <2>2, <3>1, <3>7, <3>9, <3>11 DEF Answers, Owned
      <3> QED BY <1>3, <2>2, <3>5, <3>6, <3>10, <3>12
    <2>3. CASE /\ r.verb = "get" /\ carts[r.id].alive
               /\ call' = {Treated(r, "cart", {Cart(r.id)})} /\ UNCHANGED <<carts, made>>
      <3>1. r.id \in Ids
        BY <1>2, <2>3
      <3> DEFINE k == {Cart(r.id)}
      <3>2. k \in CartSet
        BY <1>3, <3>1 DEF CartSet, Cart
      <3>3. \A d \in k : d.id = r.id /\ d.lines = carts[r.id].lines
        BY DEF Cart
      <3>4. call' = {Treated(r, "cart", k)}
        BY <2>3
      <3>5. \A c \in Ids : carts'[c].alive => c <= made'
        BY <1>t, <2>3 DEF Owned
      <3> HIDE DEF k
      <3>6. Answers(r, "cart", k)
        BY <1>t, <1>1, <2>3, <3>1, <3>3, <3>4 DEF Answers, Owned
      <3> QED BY <1>3, <2>3, <3>2, <3>5, <3>6
    <2>4. CASE /\ r.verb # "create" /\ ~carts[r.id].alive
               /\ call' = {Treated(r, IF r.verb = "get" THEN "none" ELSE "404", {})}
               /\ UNCHANGED <<carts, made>>
      <3>1. {} \in CartSet
        BY DEF CartSet
      <3>2. \A c \in Ids : carts'[c].alive => c <= made'
        BY <1>t, <2>4 DEF Owned
      <3>3. CASE r.verb = "get"
        <4>1. Answers(r, "none", {})
          BY <2>4, <3>3 DEF Answers
        <4> QED BY <1>3, <2>4, <3>1, <3>2, <4>1
      <3>4. CASE r.verb = "write"
        <4>1. Answers(r, "404", {})
          BY <2>4, <3>4 DEF Answers
        <4> QED BY <1>3, <2>4, <3>1, <3>2, <4>1
      <3> QED BY <1>2, <2>4, <3>3, <3>4
    <2>5. CASE call' = {Treated(r, "refused", {})} /\ UNCHANGED <<carts, made>>
      <3>1. {} \in CartSet
        BY DEF CartSet
      <3>2. \A c \in Ids : carts'[c].alive => c <= made'
        BY <1>t, <2>5 DEF Owned
      <3>3. Answers(r, "refused", {})
        BY <2>5 DEF Answers
      <3> QED BY <1>3, <2>5, <3>1, <3>2, <3>3
    <2> QED BY <1>1, <2>1, <2>2, <2>3, <2>4, <2>5
  <1>5. PICK b \in {"cart", "none", "404", "refused"}, k \in CartSet : Answers(r, b, k)
    BY <1>4
  <1>a. /\ call' = {Treated(r, b, k)}
        /\ b # "cart" => k = {}
        /\ b = "404" => r.verb = "write" /\ ~carts'[r.id].alive
        /\ \A d \in k : d.lines = carts'[d.id].lines /\ d.id \in Ids /\ d.id <= made'
        /\ r.verb # "create" => \A d \in k : d.id = r.id
        /\ \A c \in Ids : \/ carts'[c] = carts[c]
                          \/ /\ \E d \in k : d.id = c
                             /\ \/ r.verb = "create" /\ c = made + 1
                                \/ carts[c].alive
    BY <1>5 DEF Answers
  <1>6. PICK n : n = Treated(r, b, k)
    OBVIOUS
  <1>7. /\ call' = {n} /\ n \in Requests /\ n.back = b /\ n.cart = k
        /\ n.op = r.op /\ n.id = r.id /\ n.verb = r.verb
    <2>1. b \in {"sent", "cart", "none", "404", "refused", "lost"} /\ k \in CartSet
      BY <1>5
    <2>2. n = [r EXCEPT !.back = b, !.cart = k] /\ call' = {n}
      BY <1>6, <1>a DEF Treated
    <2>3. n \in Requests
      BY <1>2, <2>1, <2>2 DEF Requests
    <2>4. n.back = b /\ n.cart = k /\ n.op = r.op /\ n.id = r.id /\ n.verb = r.verb
      BY <1>2, <2>2 DEF Requests
    <2> QED BY <2>2, <2>3, <2>4
  <1>8. TypeOK'
    <2>1. \A q \in call' : queue' # <<>> /\ q.op = Head(queue').op /\ (q.verb = "create" \/ q.id \in Ids)
      BY <1>1, <1>2, <1>7
    <2>2. UNCHANGED <<confirmed, pending, id, cookie, queue, hydration, issued, lost, loads,
                     late, left, forgot>>
      BY <1>1
    <2>3. call' \subseteq Requests
      BY <1>7
    <2> QED BY <1>t, <1>4, <2>1, <2>2, <2>3 DEF TypeOK
  <1>9. Asked'
    <2>1. (\A q, x \in call' : q = x) /\ \A g, h \in hydration : g = h
      BY <1>t, <1>7 DEF Asked
    <2>2. \A q \in call' :
             /\ q.back # "cart" => q.cart = {}
             /\ q.back = "404" => q.verb = "write" /\ ~carts'[q.id].alive
             /\ q.verb # "create" => \A d \in q.cart : d.id = q.id
      BY <1>7, <1>a
    <2> QED BY <1>t, <1>1, <2>1, <2>2 DEF Asked
  <1>10. Owned'
    <2>1. \A c \in Ids : (carts[c].alive /\ c \notin left) => c = id
      BY <1>t, <1>2 DEF Owned
    <2>2. ASSUME NEW c \in Ids, carts'[c].alive, c \notin left
          PROVE  c = id \/ \E q \in call' : q.verb = "create" /\ \E d \in q.cart : d.id = c
      <3>1. CASE carts'[c] = carts[c]
        BY <2>1, <2>2, <3>1
      <3>2. CASE (\E d \in k : d.id = c) /\ r.verb = "create"
        BY <1>7, <3>2
      <3>3. CASE (\E d \in k : d.id = c) /\ carts[c].alive
        BY <2>1, <2>2, <3>3
      <3> QED BY <1>a, <3>1, <3>2, <3>3
    <2>3. Gone(id) \/ (r.verb # "create" /\ r.id = id)
      BY <1>t DEF Owned
    <2>4. Gone(id) => Gone(id)' \/ (r.verb # "create" /\ r.id = id)
      <3> SUFFICES ASSUME Gone(id), id # 0, id \notin left PROVE ~carts'[id].alive \/ (r.verb # "create" /\ r.id = id)
        BY <1>1 DEF Gone
      <3>1. id \in Ids /\ ~carts[id].alive
        BY <1>t DEF TypeOK, Gone
      <3>2. CASE carts'[id] = carts[id]
        BY <3>1, <3>2
      <3>3. CASE id = made + 1
        BY <1>t, <1>3, <3>3 DEF Owned, Ids
      <3> QED BY <1>a, <3>1, <3>2, <3>3
    <2>5. made \in Nat /\ made' \in Nat /\ made <= made'
      BY <1>1, <1>3 DEF Ids
    <2>6. id <= made' /\ (\A h \in hydration : h.id <= made') /\ r.id <= made'
      BY <1>t, <1>2, <2>5 DEF Owned, TypeOK, Ids, Hydrations, Requests
    <2> QED BY <1>t, <1>1, <1>4, <1>7, <1>a, <2>2, <2>3, <2>4, <2>6 DEF Owned
  <1>11. Forgotten'
    BY <1>t, <1>1 DEF Forgotten
  <1>12. Known'
    <2>1. \A q \in call' : \A d \in q.cart : d.lines = carts'[d.id].lines
      BY <1>a, <1>7
    <2>2. ASSUME NEW d, d.id \in Ids, Fresh(d) PROVE Fresh(d)'
      <3>1. carts[d.id].alive => d.lines = carts[d.id].lines
        BY <1>2, <2>2 DEF Fresh
      <3>2. CASE carts'[d.id] = carts[d.id]
        BY <3>1, <3>2 DEF Fresh
      <3>3. CASE \E e \in k : e.id = d.id
        BY <1>7, <3>3 DEF Fresh
      <3> QED BY <1>a, <2>2, <3>2, <3>3
    <2>3. (\A d \in confirmed : d.id \in Ids) /\ \A h \in hydration : \A d \in h.cart : d.id \in Ids
      BY <1>t DEF TypeOK, CartSet, Hydrations
    <2> QED BY <1>t, <1>1, <2>1, <2>2, <2>3 DEF Known
  <1> QED BY <1>8, <1>9, <1>10, <1>11, <1>12 DEF CartInv

\* The store answers the mount effect.
LEMMA ServeHydrationInv == ASSUME CartInv, ServeHydration PROVE CartInv'
  <1> USE CartAssumption
  <1>t. TypeOK /\ Asked /\ Owned /\ Forgotten /\ Known
    BY DEF CartInv
  <1>1. PICK h \in hydration :
        /\ h.back = "sent"
        /\ hydration' = {IF carts[h.id].alive THEN Treated(h, "cart", {Cart(h.id)})
                                              ELSE Treated(h, "none", {})}
        /\ UNCHANGED <<carts, made, confirmed, pending, id, cookie, queue, call,
                       issued, lost, loads, late, left, forgot>>
    BY DEF ServeHydration, ghosts
  <1>2. h \in Hydrations /\ h.id \in Ids
    BY <1>t DEF TypeOK, Hydrations
  <1>3. {Cart(h.id)} \in CartSet /\ {} \in CartSet
    BY <1>t, <1>2 DEF TypeOK, CartSet, Cart
  <1>4. \E n \in Hydrations : /\ hydration' = {n} /\ n.id = h.id /\ (n.back # "cart" => n.cart = {})
                             /\ \A d \in n.cart : d.id = h.id /\ d.lines = carts[h.id].lines
    <2>1. CASE carts[h.id].alive
      <3>1. hydration' = {Treated(h, "cart", {Cart(h.id)})}
        BY <1>1, <2>1
      <3>2. \A d \in {Cart(h.id)} : d.id = h.id /\ d.lines = carts[h.id].lines
        BY DEF Cart
      <3>3. PICK n : n = [h EXCEPT !.back = "cart", !.cart = {Cart(h.id)}]
        OBVIOUS
      <3>4. n \in Hydrations /\ n.id = h.id /\ n.cart = {Cart(h.id)} /\ n.back = "cart"
        BY <1>2, <1>3, <3>3 DEF Hydrations
      <3> QED BY <3>1, <3>2, <3>3, <3>4 DEF Treated
    <2>2. CASE ~carts[h.id].alive
      <3>1. hydration' = {Treated(h, "none", {})}
        BY <1>1, <2>2
      <3>2. PICK n : n = [h EXCEPT !.back = "none", !.cart = {}]
        OBVIOUS
      <3>3. n \in Hydrations /\ n.id = h.id /\ n.cart = {}
        BY <1>2, <1>3, <3>2 DEF Hydrations
      <3> QED BY <3>1, <3>2, <3>3 DEF Treated
    <2> QED BY <2>1, <2>2
  <1>5. PICK n \in Hydrations : /\ hydration' = {n} /\ n.id = h.id /\ (n.back # "cart" => n.cart = {})
                              /\ \A d \in n.cart : d.id = h.id /\ d.lines = carts[h.id].lines
    BY <1>4
  <1>6. TypeOK'
    <2>1. hydration' \subseteq Hydrations
      BY <1>5
    <2> QED BY <1>t, <1>1, <2>1 DEF TypeOK
  <1>7. Asked'
    BY <1>t, <1>1, <1>5 DEF Asked
  <1>8. Owned'
    BY <1>t, <1>1, <1>5 DEF Owned, Gone
  <1>9. Forgotten'
    <2>1. hydration # {}
      BY <1>1
    <2> QED BY <1>t, <1>1, <2>1 DEF Forgotten
  <1>10. Known'
    <2>1. \A d : Fresh(d) => Fresh(d)'
      BY <1>1 DEF Fresh
    <2>2. \A d \in n.cart : Fresh(d)
      BY <1>5 DEF Fresh
    <2> QED BY <1>t, <1>1, <1>5, <2>1, <2>2 DEF Known
  <1> QED BY <1>6, <1>7, <1>8, <1>9, <1>10 DEF CartInv

\* A request or its answer is lost: the cart a creation made goes unknown.
LEMMA LoseInv == ASSUME CartInv, Lose PROVE CartInv'
  <1> USE CartAssumption
  <1>t. TypeOK /\ Asked /\ Owned /\ Forgotten /\ Known
    BY DEF CartInv
  <1>1. /\ lost' = lost + 1 /\ lost < MaxLost
        /\ UNCHANGED <<carts, made, confirmed, pending, id, cookie, queue, issued, loads, late, forgot>>
    BY DEF Lose
  <1>e. {} \in CartSet
    BY DEF CartSet
  <1>l. lost' \in 0..MaxLost /\ lost' # 0
    BY <1>t, <1>1 DEF TypeOK
  <1>2. CASE /\ \E r \in call :
                  /\ r.back \in {"sent", "cart"} /\ call' = {Treated(r, "lost", {})}
                  /\ left' = left \cup (IF r.verb = "create" THEN {c.id : c \in r.cart} ELSE {})
             /\ UNCHANGED hydration
    <2>1. PICK r \in call :
              /\ call' = {Treated(r, "lost", {})}
              /\ left' = left \cup (IF r.verb = "create" THEN {c.id : c \in r.cart} ELSE {})
      BY <1>2
    <2>2. r \in Requests /\ queue # <<>> /\ r.op = Head(queue).op /\ (r.verb = "create" \/ r.id \in Ids)
          /\ (\A x \in call : x = r) /\ \A c \in r.cart : c.id \in Ids
      BY <1>t DEF TypeOK, Asked, Requests, CartSet
    <2>3. PICK n \in Requests : /\ call' = {n} /\ n.cart = {} /\ n.back = "lost" /\ n.op = r.op
                              /\ n.id = r.id /\ n.verb = r.verb
      <3>1. PICK n : n = [r EXCEPT !.back = "lost", !.cart = {}]
        OBVIOUS
      <3>2. n \in Requests /\ n.cart = {} /\ n.back = "lost" /\ n.op = r.op /\ n.id = r.id /\ n.verb = r.verb
        BY <1>e, <2>2, <3>1 DEF Requests
      <3> QED BY <2>1, <3>1, <3>2 DEF Treated
    <2>4. TypeOK'
      <3>1. \A q \in call' : queue' # <<>> /\ q.op = Head(queue').op /\ (q.verb = "create" \/ q.id \in Ids)
        BY <1>1, <2>2, <2>3
      <3>2. left' \subseteq {0} \cup Ids /\ call' \subseteq Requests
        BY <1>t, <2>1, <2>2, <2>3, ZenonT(60) DEF TypeOK
      <3> QED BY <1>t, <1>1, <1>2, <1>l, <3>1, <3>2 DEF TypeOK
    <2>5. Asked'
      BY <1>t, <1>2, <2>3 DEF Asked
    <2>6. Owned'
      <3>1. ASSUME NEW c \in Ids, carts[c].alive, c \notin left' PROVE c = id
        <4>1. c \notin left /\ (r.verb = "create" => \A d \in r.cart : d.id # c)
          BY <2>1, <3>1
        <4> QED BY <1>t, <2>2, <3>1, <4>1 DEF Owned
      <3>2. left \subseteq left'
        BY <2>1
      <3>3. \A h \in hydration : h.id = id \/ h.id \in left'
        BY <1>t, <3>2 DEF Owned
      <3>4. Gone(id)' \/ (r.verb # "create" /\ r.id = id)
        BY <1>t, <1>1, <3>2 DEF Owned, Gone
      <3>5. id = cookie /\ (\A c \in Ids : carts[c].alive => c <= made)
            /\ id <= made /\ (\A h \in hydration : h.id <= made) /\ r.id <= made
        BY <1>t DEF Owned
      <3> QED BY <1>1, <1>2, <2>3, <3>1, <3>3, <3>4, <3>5 DEF Owned
    <2>7. Forgotten'
      BY <1>t, <1>1, <1>2 DEF Forgotten
    <2>8. Known'
      BY <1>t, <1>1, <1>l, <2>3 DEF Known
    <2> QED BY <2>4, <2>5, <2>6, <2>7, <2>8 DEF CartInv
  <1>3. CASE /\ \E h \in hydration : h.back = "sent" /\ hydration' = {Treated(h, "lost", {})}
             /\ UNCHANGED <<call, left>>
    <2>1. PICK h \in hydration : hydration' = {Treated(h, "lost", {})}
      BY <1>3
    <2>2. h \in Hydrations
      BY <1>t DEF TypeOK
    <2>3. PICK n \in Hydrations : hydration' = {n} /\ n.cart = {} /\ n.id = h.id
      <3>1. PICK n : n = [h EXCEPT !.back = "lost", !.cart = {}]
        OBVIOUS
      <3>2. n \in Hydrations /\ n.cart = {} /\ n.id = h.id
        BY <1>e, <2>2, <3>1 DEF Hydrations
      <3> QED BY <2>1, <3>1, <3>2 DEF Treated
    <2>4. TypeOK'
      <3>1. hydration' \subseteq Hydrations
        BY <2>3
      <3> QED BY <1>t, <1>1, <1>3, <1>l, <3>1 DEF TypeOK
    <2>5. Asked'
      BY <1>t, <1>1, <1>3, <2>3 DEF Asked
    <2>6. Owned'
      BY <1>t, <1>1, <1>3, <2>3 DEF Owned, Gone
    <2>7. Forgotten'
      BY <1>t, <1>1, <1>3 DEF Forgotten
    <2>8. Known'
      BY <1>t, <1>1, <1>3, <1>l DEF Known
    <2> QED BY <2>4, <2>5, <2>6, <2>7, <2>8 DEF CartInv
  <1> QED BY <1>2, <1>3 DEF Lose

\* A cart ends: it counts no more.
LEMMA ExpireInv == ASSUME CartInv, Expire PROVE CartInv'
  <1>t. TypeOK /\ Asked /\ Owned /\ Forgotten /\ Known
    BY DEF CartInv
  <1>1. PICK c \in Ids : carts' = [carts EXCEPT ![c].alive = FALSE]
    BY DEF Expire
  <1>2. UNCHANGED <<made, confirmed, pending, id, cookie, queue, call, hydration, issued, lost, loads,
                    late, left, forgot>>
    BY DEF Expire, page, ghosts
  <1>3. PICK n : n = [carts[c] EXCEPT !.alive = FALSE]
    OBVIOUS
  <1>4. n \in [alive : BOOLEAN, lines : SUBSET (1..MaxOps)] /\ ~n.alive /\ n.lines = carts[c].lines
    BY <1>t, <1>3 DEF TypeOK
  <1>5. carts' = [carts EXCEPT ![c] = n]
    BY <1>1, <1>3
  <1>6. /\ carts' \in [Ids -> [alive : BOOLEAN, lines : SUBSET (1..MaxOps)]]
        /\ \A d \in Ids : carts'[d].lines = carts[d].lines /\ (carts'[d].alive => carts[d].alive)
    BY <1>t, <1>4, <1>5 DEF TypeOK
  <1>7. TypeOK'
    BY <1>t, <1>2, <1>6 DEF TypeOK
  <1>8. Asked'
    <2>1. \A r \in call : r.back = "404" => r.id \in Ids
      BY <1>t DEF TypeOK, Asked
    <2> QED BY <1>t, <1>2, <1>6, <2>1 DEF Asked
  <1>9. Owned'
    <2>1. id \in {0} \cup Ids
      BY <1>t DEF TypeOK
    <2>2. Gone(id) => Gone(id)'
      BY <1>2, <1>6, <2>1 DEF Gone
    <2>3. \A d \in Ids : carts'[d].alive => d <= made
      BY <1>t, <1>6 DEF Owned
    <2> QED BY <1>t, <1>2, <1>6, <2>2, <2>3 DEF Owned
  <1>10. Forgotten'
    BY <1>t, <1>2 DEF Forgotten
  <1>11. Known'
    <2>1. \A d : d.id \in Ids => (Fresh(d) => Fresh(d)')
      BY <1>2, <1>6 DEF Fresh
    <2>2. /\ \A d \in confirmed : d.id \in Ids
          /\ \A r \in call : \A d \in r.cart : d.id \in Ids
          /\ \A h \in hydration : \A d \in h.cart : d.id \in Ids
      BY <1>t DEF TypeOK, CartSet, Requests, Hydrations
    <2> QED BY <1>t, <1>2, <1>6, <2>1, <2>2 DEF Known
  <1> QED BY <1>7, <1>8, <1>9, <1>10, <1>11 DEF CartInv

\* Every step of the provider, the page and the store keeps the invariant.
LEMMA StepInv == ASSUME CartInv, [Next]_vars PROVE CartInv'
  <1>1. ASSUME NEW k \in Kinds, Mutate(k) PROVE CartInv'
    BY <1>1, MutateInv
  <1>2. CASE Run
    BY <1>2, RunInv
  <1>3. CASE Answer
    BY <1>3, AnswerInv
  <1>4. CASE Clear
    BY <1>4, ClearInv
  <1>5. CASE HydrationAnswer
    BY <1>5, HydrationInv
  <1>6. CASE Load
    BY <1>6, LoadInv
  <1>7. CASE Serve
    BY <1>7, ServeInv
  <1>8. CASE ServeHydration
    BY <1>8, ServeHydrationInv
  <1>9. CASE Lose
    BY <1>9, LoseInv
  <1>10. CASE Expire
    BY <1>10, ExpireInv
  <1>11. CASE UNCHANGED vars
    <2>1. UNCHANGED <<carts, made, confirmed, pending, id, cookie, queue, call, hydration, issued, lost,
                      loads, late, left, forgot>>
      BY <1>11 DEF vars, page, ghosts
    <2>2. TypeOK'
      BY <2>1 DEF CartInv, TypeOK
    <2>3. Asked' /\ Forgotten'
      BY <2>1 DEF CartInv, Asked, Forgotten
    <2>4. Owned'
      BY <2>1 DEF CartInv, Owned, Gone
    <2>5. Known'
      BY <2>1 DEF CartInv, Known, Fresh
    <2> QED BY <2>2, <2>3, <2>4, <2>5 DEF CartInv
  <1> QED BY <1>1, <1>2, <1>3, <1>4, <1>5, <1>6, <1>7, <1>8, <1>9, <1>10, <1>11 DEF Next

---------------------------------------------------------------------------
\* The provider's references, cookie, queue and requests, and the carts of the
\* store, keep their types; a running request is that of the head of the queue.
THEOREM CartIsTyped == Spec => []TypeOK
  <1>1. CartInv => TypeOK
    BY DEF CartInv
  <1> QED BY <1>1, InitInv, StepInv, PTL DEF Spec

\* persistId, the queue and the restart after a 404 never leave the shopper
\* with two carts, whatever is lost, expires or is loaded again.
THEOREM OneCartAlways == Spec => []OneCart
  <1>1. ASSUME CartInv PROVE OneCart
    <2> DEFINE L == {c \in Ids : carts[c].alive} \ left
    <2>1. \A c, d \in L : c = d
      <3>1. /\ \A c \in L : c \in Ids /\ carts[c].alive /\ c \notin left
            /\ call \subseteq Requests /\ id \in {0} \cup Ids
        BY <1>1 DEF CartInv, TypeOK
      <3>2. /\ \A c \in L : c = id \/ \E r \in call : r.verb = "create" /\ \E d \in r.cart : d.id = c
            /\ \A r \in call : Gone(id) \/ (r.verb # "create" /\ r.id = id)
            /\ \A q, r \in call : q = r
        BY <1>1, <3>1 DEF CartInv, Owned, Asked
      <3>3. \A r \in call : \A d, e \in r.cart : d = e
        BY <3>1 DEF Requests, CartSet
      <3>4. \A c \in L : Gone(id) => c # id
        BY <3>1 DEF Gone, Ids
      <3> HIDE DEF L
      <3> QED BY <3>2, <3>3, <3>4
    <2>2. IsFiniteSet(Ids)
      <3>1. 1 \in Int /\ MaxCarts \in Int
        BY CartAssumption
      <3> QED BY <3>1, FS_Interval DEF Ids
    <2>3. L = {} \/ \E c \in L : L = {c}
      <3> HIDE DEF L
      <3> QED BY <2>1
    <2>4. Cardinality(L) <= 1
      <3> HIDE DEF L
      <3>1. CASE L = {}
        BY <3>1, FS_EmptySet
      <3>2. CASE \E c \in L : L = {c}
        BY <3>2, FS_Singleton
      <3> QED BY <2>3, <3>1, <3>2
    <2> QED BY <2>4 DEF OneCart
  <1> QED BY <1>1, InitInv, StepInv, PTL DEF Spec

\* clear() with nothing under way leaves no cart, no id and no cookie until
\* the shopper adds again.
THEOREM ClearForgetsWhenIdle == Spec => []ClearForgetsIdle
  <1>1. CartInv => ClearForgetsIdle
    BY DEF CartInv, Owned, Forgotten, ClearForgetsIdle
  <1> QED BY <1>1, InitInv, StepInv, PTL DEF Spec

\* With nothing lost and no late hydration, what the provider shows when its
\* queue is empty is what the store has.
THEOREM QuietShowsServer == Spec => []QuietIsServer
  <1>1. ASSUME CartInv PROVE QuietIsServer
    <2> SUFFICES ASSUME NEW c \in confirmed, queue = <<>>, lost = 0, ~late, carts[c.id].alive
                 PROVE  Shown = carts[c.id].lines
      BY DEF QuietIsServer
    <2>1. call = {}
      BY <1>1 DEF CartInv, TypeOK
    <2>2. pending = {}
      <3>1. Len(queue) = 0
        BY <1>1 DEF CartInv, TypeOK
      <3> QED BY <1>1, <3>1 DEF CartInv, Known
    <2>3. Layers = {}
      BY <2>2 DEF Layers
    <2>4. confirmed = {c}
      BY <1>1 DEF CartInv, TypeOK, CartSet
    <2>5. c.lines = carts[c.id].lines
      BY <1>1, <2>1 DEF CartInv, Known, Fresh
    <2>6. {d.lines : d \in confirmed} = {c.lines}
      BY <2>4
    <2>7. UNION {d.lines : d \in confirmed} = c.lines
      BY <2>6
    <2> QED BY <2>3, <2>5, <2>7 DEF Shown
  <1> QED BY <1>1, InitInv, StepInv, PTL DEF Spec

---------------------------------------------------------------------------
\* A mutation ends: what is confirmed is what it was, nothing, or its answer.
LEMMA EndedGrown ==
  ASSUME CartInv, Grown, call' = {}, UNCHANGED <<carts, made, hydration>>,
         \/ confirmed' \in {confirmed, {}}
         \/ \E r \in call : \E d \in r.cart : confirmed' = {d}
  PROVE  Grown'
  <1>1. \A r \in call : \A d \in r.cart : d.id <= made
    BY DEF CartInv, Owned
  <1> QED BY <1>1 DEF Grown

\* Every step but those of the store.
LEMMA PageGrown ==
  ASSUME CartInv, Grown,
         (\E k \in Kinds : Mutate(k)) \/ Run \/ Answer \/ Clear \/ HydrationAnswer \/ Load
  PROVE  Grown'
  <1> USE CartAssumption
  <1>t. TypeOK /\ Asked /\ Owned
    BY DEF CartInv
  <1>1. CASE \E k \in Kinds : Mutate(k)
    BY <1>1 DEF Mutate, Grown
  <1>2. CASE Run
    <2>1. CASE /\ Request(Head(queue), IF id = 0 THEN "create"
                                       ELSE IF Head(queue).kind = "refresh" THEN "get" ELSE "write")
               /\ UNCHANGED confirmed
      <3>1. \A r \in call' : r.cart = {}
        BY <2>1 DEF Request
      <3> QED BY <3>1, <2>1, <1>2 DEF Run, Grown
    <2>2. CASE Vanish(Head(queue).op) \/ Fail(Head(queue).op)
      <3>1. call' = {} /\ UNCHANGED <<carts, made, hydration>> /\ confirmed' \in {confirmed, {}}
        BY <2>2, <1>2 DEF Run, Vanish, Fail
      <3> QED BY <3>1, EndedGrown
    <2> QED BY <2>1, <2>2, <1>2 DEF Run
  <1>3. CASE Answer
    <2>1. PICK r \in call :
            /\ UNCHANGED <<carts, made, hydration>>
            /\ \/ \E c \in r.cart : Confirm(r.op, c)
               \/ Vanish(r.op) \/ Fail(r.op)
               \/ call' = {Restarted(r)} /\ r.back = "404" /\ UNCHANGED confirmed
      BY <1>3 DEF Answer
    <2>2. CASE (\E c \in r.cart : Confirm(r.op, c)) \/ Vanish(r.op) \/ Fail(r.op)
      <3>1. call' = {} /\ (confirmed' \in {confirmed, {}} \/ \E d \in r.cart : confirmed' = {d})
        BY <2>2 DEF Confirm, Vanish, Fail
      <3> QED BY <2>1, <3>1, EndedGrown
    <2>3. CASE call' = {Restarted(r)} /\ r.back = "404" /\ UNCHANGED confirmed
      <3>1. \A q \in call' : q.cart = r.cart
        BY <2>3, <1>t DEF Restarted, TypeOK, Requests
      <3>2. r.cart = {}
        BY <2>3, <1>t DEF Asked
      <3> QED BY <2>1, <2>3, <3>1, <3>2 DEF Grown
    <2> QED BY <2>1, <2>2, <2>3
  <1>4. CASE Clear
    BY <1>4 DEF Clear, Grown
  <1>5. CASE HydrationAnswer
    <2>1. PICK h \in hydration :
            /\ hydration' = {} /\ confirmed' \in {h.cart, confirmed}
            /\ UNCHANGED <<carts, made, call>>
      BY <1>5 DEF HydrationAnswer
    <2>2. h.id <= made /\ \A d \in h.cart : d.id = h.id
      BY <2>1, <1>t DEF Owned, Asked
    <2> QED BY <2>1, <2>2 DEF Grown
  <1>6. CASE Load
    <2>1. /\ call' = {} /\ UNCHANGED <<carts, made>>
          /\ \A h \in hydration' : h.cart = {}
      BY <1>6 DEF Load, Hydrate
    <2>2. \A d \in confirmed' : d = Cart(cookie)
      BY <1>6 DEF Load
    <2>3. cookie <= made
      BY <1>t DEF Owned
    <2> QED BY <2>1, <2>2, <2>3 DEF Grown, Cart
  <1> QED BY <1>1, <1>2, <1>3, <1>4, <1>5, <1>6

\* The store adds lines, and answers with what it has after that.
LEMMA StoreAdds ==
  ASSUME CartInv, Serve
  PROVE  /\ made' \in Nat /\ made <= made' /\ UNCHANGED <<confirmed, hydration>>
         /\ \A c \in Ids : c <= made => carts[c].lines \subseteq carts'[c].lines
         /\ \A q \in call' : \A d \in q.cart : d.lines = carts'[d.id].lines
  <1> USE CartAssumption
  <1>t. TypeOK /\ Asked /\ Owned
    BY DEF CartInv
  <1>1. PICK r \in call :
        /\ \/ /\ r.verb = "create" /\ made < MaxCarts /\ made' = made + 1
              /\ carts' = [carts EXCEPT ![made'] = [alive |-> TRUE, lines |-> {r.op}]]
              /\ call' = {Treated(r, "cart", {[id |-> made', lines |-> {r.op}]})}
           \/ /\ r.verb = "write" /\ UNCHANGED made
              /\ carts' = [carts EXCEPT ![r.id].lines = @ \cup {r.op}]
              /\ call' = {Treated(r, "cart", {[id |-> r.id, lines |-> carts'[r.id].lines]})}
           \/ /\ UNCHANGED <<carts, made>>
              /\ \E b \in {"cart", "none", "404", "refused"}, k \in {{}, {Cart(r.id)}} :
                    call' = {Treated(r, b, k)}
        /\ UNCHANGED <<confirmed, hydration>>
    BY DEF Serve
  <1>2. /\ made \in Nat /\ made \in Ids /\ r \in Requests
        /\ carts \in [Ids -> [alive : BOOLEAN, lines : SUBSET (1..MaxOps)]]
        /\ r.verb = "write" => r.id \in Ids
    BY <1>t DEF TypeOK, Ids
  <1>u. UNCHANGED <<confirmed, hydration>>
    BY <1>1
  <1>3. ASSUME NEW b, NEW k PROVE Treated(r, b, k).cart = k
    BY <1>2 DEF Treated, Requests
  <1>4. CASE /\ made < MaxCarts /\ made' = made + 1
             /\ carts' = [carts EXCEPT ![made'] = [alive |-> TRUE, lines |-> {r.op}]]
             /\ call' = {Treated(r, "cart", {[id |-> made', lines |-> {r.op}]})}
    <2>1. made' \in Ids /\ made' \in Nat /\ made <= made' /\ \A c \in Ids : c <= made => c # made'
      BY <1>2, <1>4 DEF Ids
    <2>2. /\ carts'[made'] = [alive |-> TRUE, lines |-> {r.op}]
          /\ \A c \in Ids : c # made' => carts'[c] = carts[c]
      BY <1>2, <1>4, <2>1
    <2> DEFINE k == {[id |-> made', lines |-> {r.op}]}
    <2>3. \A d \in k : d.lines = carts'[d.id].lines
      BY <2>2
    <2>4. \A q \in call' : q.cart = k
      BY <1>3, <1>4
    <2> HIDE DEF k
    <2> QED BY <1>u, <2>1, <2>2, <2>3, <2>4
  <1>5. CASE /\ r.verb = "write" /\ UNCHANGED made
             /\ carts' = [carts EXCEPT ![r.id].lines = @ \cup {r.op}]
             /\ call' = {Treated(r, "cart", {[id |-> r.id, lines |-> carts'[r.id].lines]})}
    <2>1. \A c \in Ids : carts[c].lines \subseteq carts'[c].lines
      BY <1>2, <1>5
    <2> DEFINE k == {[id |-> r.id, lines |-> carts'[r.id].lines]}
    <2>2. \A d \in k : d.lines = carts'[d.id].lines
      OBVIOUS
    <2>3. \A q \in call' : q.cart = k
      BY <1>3, <1>5
    <2> HIDE DEF k
    <2>4. made' \in Nat /\ made <= made'
      BY <1>2, <1>5
    <2> QED BY <1>u, <2>1, <2>2, <2>3, <2>4
  <1>6. CASE /\ UNCHANGED <<carts, made>>
             /\ \E b \in {"cart", "none", "404", "refused"}, k \in {{}, {Cart(r.id)}} :
                   call' = {Treated(r, b, k)}
    <2>1. \A q \in call' : q.cart \in {{}, {Cart(r.id)}}
      BY <1>3, <1>6
    <2>2. \A d \in {Cart(r.id)} : d.lines = carts[d.id].lines
      BY DEF Cart
    <2> QED BY <1>1, <1>2, <1>6, <2>1, <2>2
  <1> QED BY <1>1, <1>4, <1>5, <1>6

\* The steps of the store.
LEMMA StoreGrown ==
  ASSUME CartInv, Grown, Serve \/ ServeHydration \/ Lose \/ Expire
  PROVE  Grown'
  <1> USE CartAssumption
  <1>t. TypeOK /\ Asked /\ Owned
    BY DEF CartInv
  <1>1. CASE Serve
    <2>1. \A d \in confirmed : d.id \in Ids /\ d.id <= made /\ d.id <= made'
      <3>1. \A d \in confirmed : d.id \in Ids /\ d.id <= made
        BY <1>t DEF Grown, TypeOK, CartSet
      <3>2. made \in Nat /\ made' \in Nat /\ made <= made' /\ \A c \in Ids : c \in Nat
        BY <1>t, <1>1, StoreAdds DEF TypeOK, Ids
      <3> QED BY <3>1, <3>2
    <2>2. \A h \in hydration : \A d \in h.cart : d.id \in Ids /\ d.id <= made
      BY <1>t DEF TypeOK, Hydrations, Asked, Owned
    <2> QED BY <1>1, <2>1, <2>2, StoreAdds DEF Grown
  <1>2. CASE ServeHydration
    <2>1. PICK h \in hydration :
            /\ hydration' = {IF carts[h.id].alive THEN Treated(h, "cart", {Cart(h.id)})
                                                  ELSE Treated(h, "none", {})}
            /\ UNCHANGED <<carts, made, confirmed, call>>
      BY <1>2 DEF ServeHydration
    <2>2. \A b, k : Treated(h, b, k).cart = k
      BY <1>t DEF Treated, TypeOK, Hydrations
    <2>3. \A g \in hydration' : \A d \in g.cart : d = Cart(h.id)
      BY <2>1, <2>2
    <2>4. \A g \in hydration' : \A d \in g.cart : d.lines = carts[d.id].lines
      BY <2>3 DEF Cart
    <2> QED BY <2>1, <2>4 DEF Grown
  <1>3. CASE Lose
    <2>1. /\ UNCHANGED <<carts, made, confirmed>>
          /\ \/ hydration' = hydration /\ \E r \in call : call' = {Treated(r, "lost", {})}
             \/ call' = call /\ \E h \in hydration : hydration' = {Treated(h, "lost", {})}
      BY <1>3 DEF Lose
    <2>2. \A r \in call \cup hydration : Treated(r, "lost", {}).cart = {}
      BY <1>t DEF Treated, TypeOK, Hydrations, Requests
    <2> QED BY <2>1, <2>2 DEF Grown
  <1>4. CASE Expire
    <2>1. /\ UNCHANGED <<made, confirmed, call, hydration>>
          /\ \E c \in Ids : carts' = [carts EXCEPT ![c].alive = FALSE]
      BY <1>4 DEF Expire, page
    <2>2. \A c \in Ids : carts'[c].lines = carts[c].lines
      BY <1>t, <2>1 DEF TypeOK
    <2>3. /\ \A d \in confirmed : d.id \in Ids
          /\ \A h \in hydration : \A d \in h.cart : d.id \in Ids
          /\ \A r \in call : \A d \in r.cart : d.id \in Ids
      BY <1>t DEF TypeOK, CartSet, Hydrations, Requests
    <2> QED BY <2>1, <2>2, <2>3 DEF Grown
  <1> QED BY <1>1, <1>2, <1>3, <1>4

\* A layer that has an effect on the cart shown.
Above(p) == confirmed # {} \/ \E q \in pending : q.op <= p.op /\ q.kind = "add"

\* What the provider shows: the lines of the confirmed cart and the layers.
ShownIs ==
  /\ \A c \in confirmed : \A o \in c.lines : o \in Shown
  /\ \A p \in pending : Above(p) => p.op \in Shown
  /\ \A o \in Shown : \/ \E c \in confirmed : o \in c.lines
                      \/ \E p \in pending : p.op = o /\ Above(p)

LEMMA ShownFacts == ShownIs
  <1>1. Layers = {p.op : p \in {p \in pending : Above(p)}}
    BY DEF Layers, Above
  <1>2. \A o : o \in Layers <=> \E p \in pending : p.op = o /\ Above(p)
    BY <1>1
  <1>3. \A o : o \in UNION {c.lines : c \in confirmed} <=> \E c \in confirmed : o \in c.lines
    OBVIOUS
  <1> QED BY <1>2, <1>3 DEF Shown, ShownIs

LEMMA ShownNext == ShownIs'
  BY ShownFacts, PTL

\* The running mutation is answered: its own layer leaves, and the lines shown
\* stay in the cart that answers, if it is the same one.
LEMMA EndedShows ==
  ASSUME CartInv, Grown, queue # <<>>, Settle(Head(queue).op), NEW o \in Shown,
         \/ confirmed' \in {confirmed, {}}
         \/ \E r \in call : \E d \in r.cart : confirmed' = {d}
  PROVE  \/ o \in Shown' \/ Head(queue).op = o \/ confirmed' = {}
         \/ \E c \in confirmed, d \in confirmed' : c.id # d.id
  <1>t. TypeOK
    BY DEF CartInv
  <1> SUFFICES ASSUME Head(queue).op # o, confirmed' # {},
                      \A c \in confirmed, d \in confirmed' : c.id = d.id
               PROVE  o \in Shown'
    OBVIOUS
  <1>1. \A p \in pending : p.op = o => p \in pending'
    BY DEF Settle
  <1>2. /\ \A c \in confirmed' : \A x \in c.lines : x \in Shown'
        /\ \A p \in pending' : Above(p)' => p.op \in Shown'
    BY ShownNext DEF ShownIs
  <1>3. CASE \E p \in pending : p.op = o
    BY <1>1, <1>2, <1>3 DEF Above
  <1>4. CASE \E c \in confirmed : o \in c.lines
    <2>1. PICK c \in confirmed : o \in c.lines
      BY <1>4
    <2>2. PICK d \in confirmed' : TRUE
      OBVIOUS
    <2>3. c.lines \subseteq carts[c.id].lines /\ \A e \in confirmed : e = c
      BY <1>t, <2>1 DEF Grown, TypeOK, CartSet
    <2>4. o \in d.lines
      <3>1. CASE confirmed' = confirmed
        BY <2>1, <2>2, <2>3, <3>1
      <3>2. CASE \E r \in call : \E e \in r.cart : confirmed' = {e}
        <4>1. d.lines = carts[d.id].lines
          BY <2>2, <3>2 DEF Grown
        <4> QED BY <2>1, <2>2, <2>3, <4>1
      <3> QED BY <3>1, <3>2
    <2> QED BY <2>4, <2>2, <1>2
  <1> QED BY <1>3, <1>4, ShownFacts DEF ShownIs

\* Nothing confirmed and no layer is taken away.
LEMMA KeptShows ==
  ASSUME confirmed' = confirmed \/ confirmed = {}, pending \subseteq pending', NEW o \in Shown
  PROVE  o \in Shown'
  <1>1. /\ \A c \in confirmed' : \A x \in c.lines : x \in Shown'
        /\ \A p \in pending' : Above(p)' => p.op \in Shown'
    BY ShownNext DEF ShownIs
  <1>2. CASE \E c \in confirmed : o \in c.lines
    BY <1>1, <1>2
  <1>3. CASE \E p \in pending : p.op = o /\ Above(p)
    BY <1>1, <1>3 DEF Above
  <1> QED BY <1>2, <1>3, ShownFacts DEF ShownIs

\* No step takes another mutation off the screen.
LEMMA StepShows ==
  ASSUME CartInv, Grown, [Next]_vars, NEW o \in Shown
  PROVE  \/ o \in Shown' \/ loads' # loads \/ late'
         \/ (queue # <<>> /\ Head(queue).op = o /\ queue' = Tail(queue))
         \/ confirmed' = {}
         \/ \E c \in confirmed, d \in confirmed' : c.id # d.id
  <1> USE CartAssumption
  <1>t. TypeOK
    BY DEF CartInv
  <1>1. CASE Run
    <2>1. queue # <<>> /\ (UNCHANGED <<confirmed, pending>> \/ Vanish(Head(queue).op) \/ Fail(Head(queue).op))
      BY <1>1 DEF Run
    <2>2. CASE UNCHANGED <<confirmed, pending>>
      BY <2>2, KeptShows
    <2>3. CASE Vanish(Head(queue).op) \/ Fail(Head(queue).op)
      <3>1. Settle(Head(queue).op) /\ confirmed' \in {confirmed, {}}
        BY <2>3 DEF Vanish, Fail
      <3> QED BY <2>1, <3>1, EndedShows DEF Settle
    <2> QED BY <2>1, <2>2, <2>3
  <1>2. CASE Answer
    <2>1. PICK r \in call :
            \/ \E c \in r.cart : Confirm(r.op, c)
            \/ Vanish(r.op) \/ Fail(r.op)
            \/ UNCHANGED <<confirmed, pending>>
      BY <1>2 DEF Answer
    <2>2. queue # <<>> /\ r.op = Head(queue).op
      BY <1>t DEF TypeOK
    <2>3. CASE UNCHANGED <<confirmed, pending>>
      BY <2>3, KeptShows
    <2>4. CASE (\E c \in r.cart : Confirm(r.op, c)) \/ Vanish(r.op) \/ Fail(r.op)
      <3>1. /\ Settle(Head(queue).op)
            /\ confirmed' \in {confirmed, {}} \/ \E d \in r.cart : confirmed' = {d}
        BY <2>2, <2>4 DEF Confirm, Vanish, Fail
      <3> QED BY <2>2, <3>1, EndedShows DEF Settle
    <2> QED BY <2>1, <2>3, <2>4
  <1>3. CASE Clear
    BY <1>3 DEF Clear
  <1>4. CASE HydrationAnswer
    <2>1. pending' = pending /\ (late' \/ confirmed = {})
      BY <1>4 DEF HydrationAnswer
    <2> QED BY <2>1, KeptShows
  <1>5. CASE Load
    BY <1>t, <1>5 DEF Load, TypeOK
  <1>6. CASE \/ \E k \in Kinds : Mutate(k)
             \/ Serve \/ ServeHydration \/ Lose \/ Expire \/ UNCHANGED vars
    <2>1. confirmed' = confirmed /\ pending \subseteq pending'
      BY <1>6 DEF Mutate, Serve, ServeHydration, Lose, Expire, vars, page
    <2> QED BY <2>1, KeptShows
  <1> QED BY <1>1, <1>2, <1>3, <1>4, <1>5, <1>6 DEF Next

\* The answer of one mutation takes nothing of the others off the screen
\* (cart.tsx settles a layer at a time): only its own failure, a cart that
\* is gone or replaced, clear() or a late hydration do.
THEOREM OthersAreNotRolledBack == Spec => NothingElseRollsBack
  <1>1. Init => Grown
    BY DEF Init, Grown, Hydrate
  <1>2. CartInv /\ Grown /\ [Next]_vars => Grown'
    <2> SUFFICES ASSUME CartInv, Grown, [Next]_vars PROVE Grown'
      OBVIOUS
    <2>1. CASE UNCHANGED vars
      BY <2>1 DEF vars, page, Grown
    <2> QED BY <2>1, PageGrown, StoreGrown DEF Next
  <1>3. CartInv /\ Grown /\ [Next]_vars =>
          [\A o \in Shown :
             \/ o \in Shown' \/ loads' # loads \/ late'
             \/ (queue # <<>> /\ Head(queue).op = o /\ queue' = Tail(queue))
             \/ confirmed' = {}
             \/ \E c \in confirmed, d \in confirmed' : c.id # d.id]_vars
    BY StepShows
  <1> QED BY <1>1, <1>2, <1>3, InitInv, StepInv, PTL DEF Spec, NothingElseRollsBack
===========================================================================

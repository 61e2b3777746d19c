--------------------------- MODULE WebSocketProofs ---------------------------
(***************************************************************************)
(* Theorems about the two connections packages/websocket keeps: the pooled *)
(* one of ChannelClient, for every set of handlers, limit of attempts and  *)
(* number of sockets; and the one of WebSocketProvider, for any urls, any  *)
(* number of connects that wait for their token at once and any number of  *)
(* moves.                                                                  *)
(***************************************************************************)
EXTENDS ChannelHistory, WebSocketProvider, TLAPS

-----------------------------------------------------------------------------
(***************************************************************************)
(* The connections of the pool.                                            *)
(***************************************************************************)

\* A record of a connection is what its fields are.
LEMMA ConnectionFacts ==
  ASSUME NEW c \in Connections
  PROVE  /\ c.ready \in {"unmade", "connecting", "open", "closing", "closed"}
         /\ c.handlers \in Sockets /\ c.attempts \in 0..MaxReconnectAttempts
         /\ c.tries \in 0..(MaxReconnectAttempts + 1)
         /\ c.reconnect \in TimerStates /\ c.close \in TimerStates
         /\ c.isClosed \in BOOLEAN /\ c.closeOnOpen \in BOOLEAN
  BY DEF Connections

\* A new connection is one.
LEMMA NewFacts ==
  ASSUME NEW set \in Sockets, NEW a \in 0..MaxReconnectAttempts,
         NEW t \in 0..(MaxReconnectAttempts + 1)
  PROVE  /\ NewConnection(set, a, t) \in Connections
         /\ NewConnection(set, a, t).ready = "connecting"
         /\ NewConnection(set, a, t).handlers = set
         /\ NewConnection(set, a, t).attempts = a /\ NewConnection(set, a, t).tries = t
         /\ NewConnection(set, a, t).reconnect = "none" /\ NewConnection(set, a, t).close = "none"
         /\ ~NewConnection(set, a, t).isClosed /\ ~NewConnection(set, a, t).closeOnOpen
  BY DEF NewConnection, Connections, TimerStates

\* What the invariant says of the types.
LEMMA PoolFacts ==
  ASSUME PoolInv
  PROVE  /\ conn \in [Sockets -> Connections] /\ members \in [Sockets -> SUBSET Handlers]
         /\ made \in Nat /\ made <= MaxSockets /\ Sockets \subseteq Nat /\ None \notin Sockets
         /\ sub \in [Handlers -> {"idle", "subscribed", "cut"}] /\ token \in BOOLEAN
         /\ \A i \in Sockets : conn[i] \in Connections /\ TimerIsTrue(conn[i])
                               /\ conn[i].tries <= MaxReconnectAttempts
         /\ pool # None => /\ pool \in Sockets /\ pool <= made /\ conn[pool].ready # "unmade"
                           /\ ~conn[pool].isClosed /\ conn[pool].reconnect # "fired"
  <1>1. /\ conn \in [Sockets -> Connections] /\ members \in [Sockets -> SUBSET Handlers]
        /\ made \in 0..MaxSockets /\ pool \in {None} \cup Sockets
        /\ sub \in [Handlers -> {"idle", "subscribed", "cut"}] /\ token \in BOOLEAN
    BY DEF PoolInv, TypeOK
  <1>2. made \in Nat /\ made <= MaxSockets /\ Sockets \subseteq Nat /\ None \notin Sockets
    BY <1>1, BoundsAssumption DEF Sockets, None
  <1>3. pool # None => pool \in Sockets /\ pool <= made /\ conn[pool].ready # "unmade"
    <2>1. \A i \in Sockets : i <= made => conn[i].ready # "unmade"
      BY <1>2 DEF PoolInv, Numbered
    <2> QED BY <1>1, <1>2, <2>1 DEF PoolInv, Numbered
  <1>4. \A i \in Sockets : conn[i] \in Connections /\ TimerIsTrue(conn[i])
                            /\ conn[i].tries <= MaxReconnectAttempts
    BY <1>1 DEF PoolInv, BackoffIsBounded
  <1>5. pool # None => ~conn[pool].isClosed /\ conn[pool].reconnect # "fired"
    BY DEF PoolInv
  <1> QED BY <1>1, <1>2, <1>3, <1>4, <1>5

\* A connection changes, and no other is made.
LEMMA OneChanges ==
  ASSUME PoolInv, NEW i \in Sockets, NEW n \in Connections, conn' = [conn EXCEPT ![i] = n],
         n.handlers = conn[i].handlers, n.ready = "unmade" <=> conn[i].ready = "unmade",
         i <= made \/ n.close = conn[i].close,
         n.tries <= MaxReconnectAttempts, TimerIsTrue(n),
         pool' \in {pool, None}, made' = made, token' \in BOOLEAN,
         sub' \in [Handlers -> {"idle", "subscribed", "cut"}],
         members' \in [Sockets -> SUBSET Handlers],
         \A j \in Sockets : j > made => members'[j] = members[j],
         pool' = i => ~n.isClosed /\ n.reconnect # "fired"
  PROVE  PoolInv'
  <1>1. /\ conn' \in [Sockets -> Connections] /\ conn'[i] = n
        /\ \A j \in Sockets \ {i} : conn'[j] = conn[j]
    BY PoolFacts
  <1>2. TypeOK'
    BY <1>1 DEF PoolInv, TypeOK
  <1>3. Numbered'
    BY <1>1, PoolFacts DEF PoolInv, Numbered, None
  <1>4. BackoffIsBounded' /\ \A j \in Sockets : TimerIsTrue(conn'[j])
    BY <1>1, PoolFacts DEF BackoffIsBounded
  <1>5. pool' # None => ~conn'[pool'].isClosed /\ conn'[pool'].reconnect # "fired"
    BY <1>1, PoolFacts
  <1> QED BY <1>2, <1>3, <1>4, <1>5 DEF PoolInv

\* A connection is made, and the rest keeps what it was.
LEMMA OneMore ==
  ASSUME PoolInv, made < MaxSockets, made' = made + 1, pool' = made',
         NEW base \in [Sockets -> Connections], NEW c \in Connections,
         conn' = [base EXCEPT ![made'] = c],
         \A j \in Sockets : /\ base[j].ready = conn[j].ready /\ base[j].handlers = conn[j].handlers
                            /\ base[j].close = conn[j].close /\ base[j].tries = conn[j].tries
                            /\ TimerIsTrue(base[j]),
         c.ready = "connecting", c.handlers <= made', c.attempts = c.tries,
         c.reconnect = "none", ~c.isClosed,
         token' \in BOOLEAN, sub' \in [Handlers -> {"idle", "subscribed", "cut"}],
         members' \in [Sockets -> SUBSET Handlers],
         \A j \in Sockets : j > made' => members'[j] = members[j]
  PROVE  PoolInv' /\ made' \in Sockets
  <1>1. made' \in Sockets /\ made' \in 0..MaxSockets /\ made' > made /\ made \in Nat
    BY PoolFacts, BoundsAssumption DEF Sockets
  <1>2. /\ conn' \in [Sockets -> Connections] /\ conn'[made'] = c
        /\ \A j \in Sockets : j # made' => conn'[j] = base[j]
    BY <1>1
  <1>3. TypeOK'
    BY <1>1, <1>2 DEF PoolInv, TypeOK
  <1>4. Numbered'
    <2>1. ASSUME NEW j \in Sockets
          PROVE  IF j > made' THEN conn'[j].ready = "unmade" /\ conn'[j].close = "none" /\ members'[j] = {}
                 ELSE conn'[j].ready # "unmade" /\ conn'[j].handlers <= made'
      <3>1. CASE j = made'
        BY <1>1, <1>2, <3>1
      <3>2. CASE j > made'
        <4>1. j > made /\ j # made'
          BY <1>1, <3>2, PoolFacts
        <4> QED BY <1>2, <3>2, <4>1 DEF PoolInv, Numbered
      <3>3. CASE j # made' /\ ~(j > made')
        <4>1. ~(j > made)
          BY <1>1, <3>3, PoolFacts
        <4>2. conn[j].ready # "unmade" /\ conn[j].handlers <= made /\ conn[j].handlers \in Nat
          BY <4>1, PoolFacts, ConnectionFacts DEF PoolInv, Numbered
        <4>3. conn'[j].ready = conn[j].ready /\ conn'[j].handlers = conn[j].handlers
          BY <1>2, <3>3
        <4>4. conn[j].handlers <= made + 1
          BY <1>1, <4>2
        <4> QED BY <3>3, <4>2, <4>3, <4>4
      <3> QED BY <3>1, <3>2, <3>3
    <2> QED BY <1>1, <2>1 DEF Numbered
  <1>5. BackoffIsBounded'
    <2>1. c.tries <= MaxReconnectAttempts
      BY ConnectionFacts, BoundsAssumption
    <2> QED BY <1>2, <2>1, PoolFacts DEF BackoffIsBounded
  <1>6. \A j \in Sockets : TimerIsTrue(conn'[j])
    <2>1. TimerIsTrue(c)
      BY DEF TimerIsTrue
    <2> QED BY <1>2, <2>1
  <1>7. pool' # None => ~conn'[pool'].isClosed /\ conn'[pool'].reconnect # "fired"
    BY <1>2
  <1> QED BY <1>1, <1>3, <1>4, <1>5, <1>6, <1>7 DEF PoolInv

-----------------------------------------------------------------------------
(***************************************************************************)
(* The entry and what is given up.                                         *)
(***************************************************************************)

\* A connection that was given up stays so.
LEMMA StaysGivenUp ==
  ASSUME NEW j \in Sockets, GivenUp(j),
         conn'[j].ready = conn[j].ready, conn'[j].handlers = conn[j].handlers,
         conn'[j].reconnect = conn[j].reconnect, conn'[j].isClosed = conn[j].isClosed,
         conn'[j].closeOnOpen = conn[j].closeOnOpen,
         conn[j].ready \in {"connecting", "closing"} =>
           /\ members'[conn[j].handlers] \subseteq members[conn[j].handlers]
           /\ pool' # None => conn[j].handlers # conn'[pool'].handlers
  PROVE  GivenUp(j)'
  <1>1. conn[j].ready \in {"connecting", "closing"} /\ Heard(j) = {} => Heard(j)' = {}
    BY DEF Heard
  <1> QED BY <1>1 DEF GivenUp

\* Nothing is left of a channel: it has no entry and no subscriber.
LEMMA LeftEntry == Left' => EntryInv'
  BY DEF Left, EntryInv, GivenUp, Subscribed

\* The entry changes and stays the entry, or leaves its place to a connection
\* with its handlers; its set keeps the subscribers.
LEMMA EntryChanges ==
  ASSUME PoolInv, EntryInv, pool # None, pool' # None, pool' \in Sockets,
         \A j \in Sockets : j \notin {pool, pool'} => conn'[j] = conn[j],
         conn'[pool'].handlers = conn[pool].handlers, ~conn'[pool'].closeOnOpen,
         conn'[pool'].reconnect = (IF conn'[pool'].ready = "closed" THEN "pending" ELSE "none"),
         members' = [members EXCEPT ![conn[pool].handlers] = Subscribed'],
         pool' # pool => conn'[pool].ready = "closed" /\ conn'[pool].reconnect = "fired"
  PROVE  EntryInv'
  <1>1. pool \in Sockets /\ conn[pool].handlers \in Sockets /\ members \in [Sockets -> SUBSET Handlers]
    BY PoolFacts, ConnectionFacts
  <1>2. members'[conn'[pool'].handlers] = Subscribed'
    BY <1>1
  <1>3. ASSUME NEW j \in Sockets \ {pool'} PROVE GivenUp(j)'
    <2>1. CASE j = pool
      BY <1>3, <2>1 DEF GivenUp
    <2>2. CASE j # pool
      <3>1. GivenUp(j) /\ conn'[j] = conn[j]
        BY <1>3, <2>2 DEF EntryInv
      <3>2. conn[j].ready \in {"connecting", "closing"} =>
              /\ members'[conn[j].handlers] = members[conn[j].handlers]
              /\ conn[j].handlers # conn[pool].handlers
        BY <1>1, <3>1, PoolFacts, ConnectionFacts DEF GivenUp
      <3> QED BY <3>1, <3>2, StaysGivenUp
    <2> QED BY <2>1, <2>2
  <1>4. EntryIsTrue'
    BY <1>2 DEF EntryIsTrue, Heard
  <1> QED BY <1>3, <1>4 DEF EntryInv

\* A connection changes and the channel has no entry.
LEMMA NoEntryLeft ==
  ASSUME PoolInv, EntryInv, NEW i \in Sockets, pool' = None, members' = members,
         \A j \in Sockets \ {i} : conn'[j] = conn[j], Subscribed' = {},
         GivenUp(i)', \A p \in Sockets \ {i} : p = pool => GivenUp(p)'
  PROVE  EntryInv'
  <1>1. ASSUME NEW j \in Sockets, j # i, j # pool PROVE GivenUp(j)'
    <2>1. GivenUp(j) /\ conn'[j] = conn[j]
      BY <1>1 DEF EntryInv
    <2> QED BY <2>1, StaysGivenUp
  <1> QED BY <1>1 DEF EntryInv, None

\* Another connection takes the entry away: nobody was listening to it, and it
\* was closing already.
LEMMA LosesEntry ==
  ASSUME PoolInv, EntryInv, ~Crosses, NEW p \in Sockets, p = pool, pool' = None,
         NEW i \in 1..made, i # p, conn'[i] # conn[i], conn'[p] = conn[p], members' = members
  PROVE  Subscribed = {} /\ GivenUp(p)'
  <1>1. /\ EntryIsTrue /\ pool # None /\ ~conn[p].isClosed /\ conn[p].reconnect # "fired"
        /\ conn[p].ready \in {"connecting", "open", "closing", "closed"}
    BY PoolFacts, ConnectionFacts DEF EntryInv
  <1>2. ~InUse(p)
    BY <1>1 DEF Crosses, Ended, OfAnother
  <1>3. Heard(p) = {} /\ conn[p].ready = "closing" /\ conn[p].reconnect # "pending"
    BY <1>1, <1>2 DEF InUse, Live, EntryIsTrue
  <1> QED BY <1>1, <1>3 DEF GivenUp, Heard, EntryIsTrue

\* ensureConnection drops an entry nobody was listening to.
LEMMA DropsIdle ==
  ASSUME PoolInv, EntryInv, ~Crosses, ~Usable, NEW p \in Sockets, p = pool, pool' # p,
         conn'[p] = [conn[p] EXCEPT !.reconnect = "none"]
  PROVE  Subscribed = {} /\ Heard(p) = {} /\ conn[p].ready \in {"closing", "closed"}
  <1>1. /\ EntryIsTrue /\ pool # None /\ ~conn[p].isClosed /\ conn[p] \in Connections
        /\ conn[p].ready \in {"closing", "closed"} /\ ~Live(p)
    BY PoolFacts, ConnectionFacts DEF EntryInv, Usable, Live
  <1>2. /\ conn'[p].isClosed = conn[p].isClosed /\ conn'[p].ready = conn[p].ready
        /\ conn'[p].reconnect = "none"
    BY <1>1 DEF Connections
  <1>3. Heard(p) = {}
    BY <1>1, <1>2 DEF Crosses, Ended, InUse
  <1> QED BY <1>1, <1>3 DEF EntryIsTrue

-----------------------------------------------------------------------------
(***************************************************************************)
(* The steps.                                                              *)
(***************************************************************************)

\* A first connection: what was there is forgotten, and nobody listened to it
\* unless the entry crosses.
LEMMA FreshStep ==
  ASSUME PoolInv, MakeFresh, token' = token,
         sub' \in [Handlers -> {"idle", "subscribed", "cut"}],
         NEW H \in SUBSET Handlers, members' = [members EXCEPT ![made'] = H],
         Subscribed' = Subscribed \cup H
  PROVE  PoolInv' /\ (EntryInv /\ ~Crosses => EntryInv')
  <1>1. /\ ~Usable /\ made < MaxSockets /\ made' = made + 1 /\ pool' = made'
        /\ conn' = [WithoutReconnect EXCEPT ![made'] = NewConnection(made', 0, 0)]
        /\ made' \in Sockets /\ ~(made' <= made) /\ made \in Nat
    BY PoolFacts, BoundsAssumption DEF MakeFresh, Sockets
  <1> DEFINE c == NewConnection(made', 0, 0)
  <1>2. /\ c \in Connections /\ c.ready = "connecting" /\ c.handlers = made' /\ c.attempts = 0
        /\ c.tries = 0 /\ c.reconnect = "none" /\ ~c.isClosed /\ ~c.closeOnOpen
    BY <1>1, NewFacts, BoundsAssumption
  <1> DEFINE base == WithoutReconnect
  <1>3. /\ base \in [Sockets -> Connections]
        /\ \A j \in Sockets : j # pool => base[j] = conn[j]
        /\ pool # None => base[pool] = [conn[pool] EXCEPT !.reconnect = "none"]
    <2>1. CASE pool = None
      BY <2>1, PoolFacts DEF WithoutReconnect
    <2>2. CASE pool # None
      <3>1. PICK n : n = [conn[pool] EXCEPT !.reconnect = "none"]
        OBVIOUS
      <3>2. n \in Connections
        BY <2>2, <3>1, PoolFacts DEF Connections, TimerStates
      <3>3. base = [conn EXCEPT ![pool] = n]
        BY <2>2, <3>1, PoolFacts DEF WithoutReconnect
      <3> HIDE DEF base
      <3> QED BY <2>2, <3>1, <3>2, <3>3, PoolFacts
    <2> QED BY <2>1, <2>2
  <1>9. conn' = [base EXCEPT ![made'] = c]
    BY <1>1
  <1> HIDE DEF base
  <1>4. ASSUME NEW j \in Sockets
        PROVE  /\ base[j].ready = conn[j].ready /\ base[j].handlers = conn[j].handlers
               /\ base[j].close = conn[j].close /\ base[j].tries = conn[j].tries
               /\ base[j].isClosed = conn[j].isClosed /\ base[j].closeOnOpen = conn[j].closeOnOpen
               /\ TimerIsTrue(base[j])
    <2>1. CASE j # pool
      BY <1>3, <2>1, PoolFacts
    <2>2. CASE j = pool
      <3>1. base[j] = [conn[j] EXCEPT !.reconnect = "none"] /\ conn[j] \in Connections
            /\ TimerIsTrue(conn[j])
        BY <1>3, <2>2, PoolFacts
      <3> QED BY <3>1 DEF Connections, TimerIsTrue
    <2> QED BY <2>1, <2>2
  <1> HIDE DEF c
  <1>5. /\ token' \in BOOLEAN /\ members' \in [Sockets -> SUBSET Handlers]
        /\ \A j \in Sockets : j # made' => members'[j] = members[j]
    BY <1>1, PoolFacts
  <1>6. PoolInv'
    <2>1. c.handlers <= made' /\ \A j \in Sockets : j > made' => members'[j] = members[j]
      BY <1>1, <1>2, <1>5, PoolFacts
    <2>2. c.attempts = c.tries
      BY <1>2
    <2>3. \A j \in Sockets : /\ base[j].ready = conn[j].ready /\ base[j].handlers = conn[j].handlers
                             /\ base[j].close = conn[j].close /\ base[j].tries = conn[j].tries
                             /\ TimerIsTrue(base[j])
      BY <1>4
    <2> HIDE DEF TimerIsTrue
    <2> QED BY <1>1, <1>2, <1>3, <1>5, <1>9, <2>1, <2>2, <2>3, OneMore
  <1>7. ASSUME EntryInv, ~Crosses PROVE EntryInv'
    <2>1. /\ conn'[made'] = c /\ made' # pool
          /\ \A j \in Sockets : j # made' => conn'[j] = base[j]
      BY <1>1, <1>3, <1>9, PoolFacts
    <2>2. ASSUME NEW p \in Sockets, p = pool
          PROVE  Subscribed = {} /\ Heard(p) = {} /\ conn[p].ready \in {"closing", "closed"}
      BY <1>1, <1>3, <1>7, <2>1, <2>2, DropsIdle, PoolFacts
    <2>3. Subscribed = {}
      BY <1>7, <2>2, PoolFacts DEF EntryInv
    <2>4. ASSUME NEW j \in Sockets, j # made' PROVE GivenUp(j)'
      <3>1. conn[j].ready \in {"connecting", "closing"} => conn[j].handlers # made'
        <4>1. j > made => conn[j].ready = "unmade"
          BY DEF PoolInv, Numbered
        <4>2. ~(j > made) => conn[j].handlers <= made
          BY DEF PoolInv, Numbered
        <4> QED BY <1>1, <4>1, <4>2
      <3>2. conn[j].ready \in {"connecting", "closing"} => members'[conn[j].handlers] = members[conn[j].handlers]
        BY <1>5, <3>1, PoolFacts, ConnectionFacts
      <3>3. CASE j = pool
        <4>1. base[j].reconnect = "none"
          <5>1. conn[j] \in Connections /\ base[j] = [conn[j] EXCEPT !.reconnect = "none"]
            BY <1>3, <3>3, PoolFacts
          <5> QED BY <5>1 DEF Connections
        <4>2. conn'[j] = base[j] /\ conn[j].ready \in {"closing", "closed"} /\ Heard(j) = {}
          BY <2>1, <2>2, <2>4, <3>3
        <4>3. /\ conn'[j].ready = conn[j].ready /\ conn'[j].handlers = conn[j].handlers
              /\ conn'[j].reconnect = "none"
          BY <1>4, <4>1, <4>2
        <4>4. conn[j].ready = "closing" => Heard(j)' = {}
          BY <3>2, <4>2, <4>3 DEF Heard
        <4>5. conn[j].ready = "closing" => conn'[j].handlers # conn'[pool'].handlers
          BY <1>1, <1>2, <2>1, <3>1, <4>3
        <4> QED BY <4>2, <4>3, <4>4, <4>5 DEF GivenUp
      <3>4. CASE j # pool
        <4>1. GivenUp(j) /\ conn'[j] = conn[j]
          BY <1>3, <1>7, <2>1, <2>4, <3>4 DEF EntryInv
        <4> QED BY <1>1, <1>2, <2>1, <3>1, <3>2, <4>1, StaysGivenUp
      <3> QED BY <3>3, <3>4
    <2>5. EntryIsTrue'
      <3>1. members'[c.handlers] = Subscribed'
        BY <1>1, <1>2, <2>3, PoolFacts
      <3> QED BY <1>1, <1>2, <2>1, <3>1 DEF EntryIsTrue, Heard
    <2> QED BY <1>1, <2>4, <2>5, PoolFacts DEF EntryInv
  <1> QED BY <1>6, <1>7

\* ensureConnection without a token: the entry is dropped.
LEMMA RefuseStep ==
  ASSUME PoolInv, RefuseFresh
  PROVE  PoolInv' /\ (EntryInv /\ ~Crosses => EntryInv')
  <1>1. ~Usable /\ pool' = None /\ conn' = WithoutReconnect /\ UNCHANGED <<made, members, token, sub>>
    BY DEF RefuseFresh
  <1>2. CASE pool = None
    <2>1. UNCHANGED <<conn, members, pool, made, token, sub>>
      BY <1>1, <1>2 DEF WithoutReconnect
    <2> QED BY <2>1 DEF PoolInv, TypeOK, Numbered, BackoffIsBounded, EntryInv, GivenUp, EntryIsTrue,
                        Heard, Subscribed
  <1>3. ASSUME NEW p \in Sockets, p = pool, pool # None
        PROVE  PoolInv' /\ (EntryInv /\ ~Crosses => EntryInv')
    <2>1. PICK n \in Connections :
            /\ n = [conn[p] EXCEPT !.reconnect = "none"]
            /\ n.ready = conn[p].ready /\ n.handlers = conn[p].handlers /\ n.close = conn[p].close
            /\ n.tries = conn[p].tries /\ n.attempts = conn[p].attempts
            /\ n.reconnect = "none"
      <3>1. PICK c : c = [conn[p] EXCEPT !.reconnect = "none"]
        OBVIOUS
      <3>2. /\ c \in Connections
            /\ c.ready = conn[p].ready /\ c.handlers = conn[p].handlers /\ c.close = conn[p].close
            /\ c.tries = conn[p].tries /\ c.attempts = conn[p].attempts
            /\ c.reconnect = "none"
        BY <3>1, PoolFacts DEF Connections, TimerStates
      <3> QED BY <3>1, <3>2, Zenon
    <2>2. conn' = [conn EXCEPT ![p] = n]
      BY <1>1, <1>3, <2>1, PoolFacts DEF WithoutReconnect
    <2>3. TimerIsTrue(n) /\ n.tries <= MaxReconnectAttempts
      BY <2>1, PoolFacts DEF TimerIsTrue
    <2>4. PoolInv'
      BY <1>1, <1>3, <2>1, <2>2, <2>3, OneChanges, PoolFacts
    <2>5. ASSUME EntryInv, ~Crosses PROVE EntryInv'
      <3>1. conn'[p] = n /\ \A j \in Sockets \ {p} : conn'[j] = conn[j]
        BY <2>2, PoolFacts
      <3>2. Subscribed = {} /\ Heard(p) = {} /\ conn[p].ready \in {"closing", "closed"}
        BY <1>1, <1>3, <2>1, <2>5, <3>1, DropsIdle, PoolFacts
      <3>3. GivenUp(p)' /\ Subscribed' = {}
        BY <1>1, <2>1, <3>1, <3>2 DEF GivenUp, Heard, Subscribed
      <3> QED BY <1>1, <1>3, <2>5, <3>1, <3>3, NoEntryLeft
    <2> QED BY <2>4, <2>5
  <1> QED BY <1>2, <1>3, PoolFacts

\* subscribe() joins the entry, or makes one, or is refused.
LEMMA SubscribeStep ==
  ASSUME PoolInv, NEW h \in Handlers, Subscribe(h)
  PROVE  PoolInv' /\ (EntryInv /\ ~Crosses => EntryInv')
  <1>1. ASSUME sub' = [sub EXCEPT ![h] = "subscribed"]
        PROVE  /\ sub' \in [Handlers -> {"idle", "subscribed", "cut"}]
               /\ Subscribed' = Subscribed \cup {h}
    BY <1>1, PoolFacts DEF Subscribed
  <1>2. ASSUME /\ Usable /\ conn' = CancelClose(pool)
               /\ members' = [members EXCEPT ![conn[pool].handlers] = @ \cup {h}]
               /\ sub' = [sub EXCEPT ![h] = "subscribed"]
               /\ UNCHANGED <<pool, made, token>>,
               NEW p \in Sockets, p = pool
        PROVE  PoolInv' /\ (EntryInv /\ ~Crosses => EntryInv')
    <2>1. pool # None /\ conn[p].ready \in {"connecting", "open"} /\ p <= made
          /\ conn[p] \in Connections /\ conn[p].handlers \in Sockets
      BY <1>2, PoolFacts, ConnectionFacts DEF Usable, Live
    <2>2. PICK n : n = [conn[p] EXCEPT !.close = "none",
                          !.isClosed = IF conn[p].close = "none" THEN @ ELSE FALSE]
      OBVIOUS
    <2>3. conn' = [conn EXCEPT ![p] = n]
      BY <1>2, <2>1, <2>2, PoolFacts DEF CancelClose
    <2>4. /\ n \in Connections /\ n.ready = conn[p].ready /\ n.handlers = conn[p].handlers
          /\ n.attempts = conn[p].attempts /\ n.tries = conn[p].tries
          /\ n.reconnect = conn[p].reconnect /\ n.closeOnOpen = conn[p].closeOnOpen
          /\ n.isClosed = IF conn[p].close = "none" THEN conn[p].isClosed ELSE FALSE
      BY <2>1, <2>2 DEF Connections, TimerStates
    <2>5. TimerIsTrue(n) /\ n.tries <= MaxReconnectAttempts /\ ~n.isClosed /\ n.reconnect # "fired"
      BY <1>2, <2>1, <2>4, PoolFacts DEF TimerIsTrue
    <2>6. members' \in [Sockets -> SUBSET Handlers]
          /\ \A j \in Sockets : j > made => members'[j] = members[j]
      <3>1. conn[p].handlers <= made
        BY <2>1, PoolFacts DEF PoolInv, Numbered
      <3>2. \A j \in Sockets : j > made => j # conn[p].handlers
        BY <2>1, <3>1, PoolFacts
      <3> QED BY <1>2, <2>1, <3>2, PoolFacts
    <2>7. token' \in BOOLEAN /\ made' = made /\ pool' = pool
      BY <1>2, PoolFacts
    <2>8. PoolInv'
      BY <1>1, <1>2, <2>1, <2>3, <2>4, <2>5, <2>6, <2>7, OneChanges
    <2>9. ASSUME EntryInv PROVE EntryInv'
      <3>1. EntryIsTrue /\ members[conn[p].handlers] = Subscribed
        BY <1>2, <2>1, <2>9 DEF EntryInv, EntryIsTrue, Heard
      <3>2. conn'[p] = n /\ \A j \in Sockets \ {p} : conn'[j] = conn[j]
        BY <2>3, PoolFacts
      <3>3. members' = [members EXCEPT ![conn[pool].handlers] = Subscribed']
        BY <1>1, <1>2, <2>1, <3>1, PoolFacts
      <3>4. ~n.closeOnOpen /\ n.reconnect = (IF n.ready = "closed" THEN "pending" ELSE "none")
        BY <1>2, <2>4, <3>1 DEF EntryIsTrue
      <3> QED BY <1>2, <2>1, <2>4, <2>7, <2>9, <3>2, <3>3, <3>4, EntryChanges
    <2> QED BY <2>8, <2>9
  <1>3. CASE /\ MakeFresh /\ members' = [members EXCEPT ![made'] = {h}]
             /\ sub' = [sub EXCEPT ![h] = "subscribed"] /\ UNCHANGED token
    <2>1. token' = token /\ {h} \in SUBSET Handlers
      BY <1>3
    <2> QED BY <1>1, <1>3, <2>1, FreshStep
  <1> QED BY <1>2, <1>3, RefuseStep, PoolFacts DEF Subscribe, Usable

\* send() makes a connection that nobody listens to, or is refused.
LEMMA SendStep ==
  ASSUME PoolInv, Send
  PROVE  PoolInv' /\ (EntryInv /\ ~Crosses => EntryInv')
  <1>1. CASE MakeFresh /\ UNCHANGED <<members, token, sub>>
    <2>1. made \in Nat /\ made' = made + 1 /\ made' \in Sockets
      BY <1>1, PoolFacts, BoundsAssumption DEF MakeFresh, Sockets
    <2>2. members[made'] = {}
      BY <2>1, PoolFacts DEF PoolInv, Numbered
    <2>3. members' = [members EXCEPT ![made'] = {}]
      BY <1>1, <2>1, <2>2, PoolFacts
    <2>4. Subscribed' = Subscribed \cup {} /\ sub' \in [Handlers -> {"idle", "subscribed", "cut"}]
      BY <1>1, PoolFacts DEF Subscribed
    <2> QED BY <1>1, <2>3, <2>4, FreshStep
  <1> QED BY <1>1, RefuseStep DEF Send

\* The function subscribe returned, at any time.
LEMMA UnsubscribeStep ==
  ASSUME PoolInv, NEW h \in Handlers, Unsubscribe(h)
  PROVE  PoolInv' /\ (EntryInv /\ ~Crosses => EntryInv')
  <1>1. /\ sub' = [sub EXCEPT ![h] = "idle"] /\ pool' = pool /\ made' = made /\ token' \in BOOLEAN
        /\ sub' \in [Handlers -> {"idle", "subscribed", "cut"}]
        /\ Subscribed' = Subscribed \ {h}
    BY PoolFacts DEF Unsubscribe, Subscribed
  <1>2. CASE pool = None
    <2>1. UNCHANGED <<conn, members>>
      BY <1>2 DEF Unsubscribe, Entry
    <2>2. PoolInv'
      BY <1>1, <2>1 DEF PoolInv, TypeOK, Numbered, BackoffIsBounded
    <2>3. ASSUME EntryInv PROVE EntryInv'
      BY <1>1, <1>2, <2>1, <2>3 DEF EntryInv, GivenUp, Heard
    <2> QED BY <2>2, <2>3
  <1>3. ASSUME NEW p \in Sockets, p = pool, pool # None
        PROVE  PoolInv' /\ (EntryInv => EntryInv')
    <2> DEFINE set == conn[p].handlers
    <2>1. /\ set \in Sockets /\ p <= made /\ conn[p] \in Connections /\ set <= made
          /\ members' = [members EXCEPT ![set] = @ \ {h}]
          /\ \/ conn' = conn
             \/ conn' = [conn EXCEPT ![p].close = "pending"]
      BY <1>3, PoolFacts, ConnectionFacts DEF Unsubscribe, Entry, PoolInv, Numbered
    <2>2. PICK n \in Connections :
            /\ conn' = [conn EXCEPT ![p] = n] /\ n.ready = conn[p].ready
            /\ n.handlers = set /\ n.attempts = conn[p].attempts /\ n.tries = conn[p].tries
            /\ n.reconnect = conn[p].reconnect /\ n.closeOnOpen = conn[p].closeOnOpen
            /\ n.isClosed = conn[p].isClosed
      <3>1. CASE conn' = conn
        <4>1. conn' = [conn EXCEPT ![p] = conn[p]]
          BY <3>1, PoolFacts
        <4> QED BY <2>1, <4>1
      <3>2. CASE conn' = [conn EXCEPT ![p].close = "pending"]
        <4>1. PICK c : c = [conn[p] EXCEPT !.close = "pending"]
          OBVIOUS
        <4>2. conn' = [conn EXCEPT ![p] = c]
          BY <3>2, <4>1, PoolFacts
        <4>3. /\ c \in Connections /\ c.ready = conn[p].ready
              /\ c.handlers = set /\ c.attempts = conn[p].attempts /\ c.tries = conn[p].tries
              /\ c.reconnect = conn[p].reconnect /\ c.closeOnOpen = conn[p].closeOnOpen
              /\ c.isClosed = conn[p].isClosed
          BY <2>1, <4>1 DEF Connections, TimerStates
        <4> QED BY <4>2, <4>3, Zenon
      <3> QED BY <2>1, <3>1, <3>2
    <2>3. /\ TimerIsTrue(n) /\ n.tries <= MaxReconnectAttempts /\ ~n.isClosed /\ n.reconnect # "fired"
      BY <1>3, <2>2, PoolFacts DEF TimerIsTrue
    <2>4. /\ members' \in [Sockets -> SUBSET Handlers]
          /\ \A j \in Sockets : j > made => members'[j] = members[j]
      BY <2>1, PoolFacts
    <2>5. PoolInv'
      BY <1>1, <2>1, <2>2, <2>3, <2>4, OneChanges
    <2>6. ASSUME EntryInv PROVE EntryInv'
      <3>1. EntryIsTrue /\ members[conn[p].handlers] = Subscribed
        BY <1>3, <2>6 DEF EntryInv, EntryIsTrue, Heard
      <3>2. conn'[p] = n /\ \A j \in Sockets \ {p} : conn'[j] = conn[j]
        BY <2>2, PoolFacts
      <3>3. members' = [members EXCEPT ![conn[pool].handlers] = Subscribed']
        BY <1>1, <1>3, <2>1, <3>1, PoolFacts
      <3>4. ~n.closeOnOpen /\ n.reconnect = (IF n.ready = "closed" THEN "pending" ELSE "none")
        BY <1>3, <2>2, <3>1 DEF EntryIsTrue
      <3> QED BY <1>1, <1>3, <2>2, <2>6, <3>2, <3>3, <3>4, EntryChanges
    <2> QED BY <2>5, <2>6
  <1> QED BY <1>2, <1>3, PoolFacts

\* The debounced close: somebody came back, or the connection is given up and
\* the entry deleted, whoever's it is.
LEMMA CloseTimerStep ==
  ASSUME PoolInv, NEW i \in Sockets, CloseTimerFires(i)
  PROVE  PoolInv' /\ (EntryInv /\ ~Crosses => EntryInv')
  <1>1. /\ conn[i].close = "pending" /\ members' = members /\ made' = made /\ sub' = sub
        /\ token' \in BOOLEAN /\ conn[i] \in Connections /\ i <= made /\ i \in 1..made
        /\ sub' \in [Handlers -> {"idle", "subscribed", "cut"}]
        /\ members' \in [Sockets -> SUBSET Handlers] /\ Subscribed' = Subscribed
    BY PoolFacts DEF CloseTimerFires, PoolInv, Numbered, Sockets, Subscribed
  <1>2. CASE Heard(i) # {} /\ conn' = [conn EXCEPT ![i].close = "fired"] /\ pool' = pool
    <2>1. PICK n : n = [conn[i] EXCEPT !.close = "fired"]
      OBVIOUS
    <2>2. conn' = [conn EXCEPT ![i] = n]
      BY <1>2, <2>1, PoolFacts
    <2>3. /\ n \in Connections /\ n.ready = conn[i].ready /\ n.handlers = conn[i].handlers
          /\ n.attempts = conn[i].attempts /\ n.tries = conn[i].tries
          /\ n.reconnect = conn[i].reconnect /\ n.closeOnOpen = conn[i].closeOnOpen
          /\ n.isClosed = conn[i].isClosed
      BY <1>1, <2>1 DEF Connections, TimerStates
    <2>4. TimerIsTrue(n) /\ n.tries <= MaxReconnectAttempts
      BY <2>3, PoolFacts DEF TimerIsTrue
    <2>5. pool' = i => ~n.isClosed /\ n.reconnect # "fired"
      BY <1>2, <2>3, PoolFacts
    <2>6. PoolInv'
      BY <1>1, <1>2, <2>2, <2>3, <2>4, <2>5, OneChanges
    <2>7. ASSUME EntryInv PROVE EntryInv'
      <3>1. ASSUME NEW j \in Sockets
            PROVE  /\ conn'[j].ready = conn[j].ready /\ conn'[j].handlers = conn[j].handlers
                   /\ conn'[j].reconnect = conn[j].reconnect /\ conn'[j].isClosed = conn[j].isClosed
                   /\ conn'[j].closeOnOpen = conn[j].closeOnOpen
        BY <2>2, <2>3, PoolFacts
      <3>2. \A j \in Sockets : GivenUp(j) => GivenUp(j)'
        BY <1>1, <1>2, <3>1, PoolFacts DEF GivenUp, Heard
      <3>3. pool # None /\ EntryIsTrue => EntryIsTrue'
        BY <1>1, <1>2, <3>1, PoolFacts DEF EntryIsTrue, Heard
      <3> QED BY <1>1, <1>2, <2>7, <3>2, <3>3 DEF EntryInv
    <2> QED BY <2>6, <2>7
  <1>3. CASE Heard(i) = {} /\ conn' = [conn EXCEPT ![i] = ShutDown(i)] /\ pool' = None
    <2>1. PICK n : n = ShutDown(i)
      OBVIOUS
    <2>2. /\ n \in Connections /\ n.handlers = conn[i].handlers /\ n.tries = conn[i].tries
          /\ n.ready = IF conn[i].ready = "open" THEN "closing" ELSE conn[i].ready
          /\ n.reconnect = "none" /\ n.isClosed /\ n.close = "fired" /\ n.attempts = conn[i].attempts
          /\ n.closeOnOpen = (conn[i].closeOnOpen \/ conn[i].ready = "connecting")
      BY <1>1, <2>1 DEF ShutDown, Connections, TimerStates
    <2>3. TimerIsTrue(n) /\ n.tries <= MaxReconnectAttempts /\ pool' # i
      BY <1>1, <1>3, <2>2, PoolFacts DEF TimerIsTrue
    <2>4. conn' = [conn EXCEPT ![i] = n]
      BY <1>3, <2>1
    <2>5. PoolInv'
      BY <1>1, <1>3, <2>2, <2>3, <2>4, OneChanges
    <2>6. ASSUME EntryInv, ~Crosses PROVE EntryInv'
      <3>1. conn'[i] = n /\ \A j \in Sockets \ {i} : conn'[j] = conn[j]
        BY <2>4, PoolFacts
      <3>2. GivenUp(i)'
        <4>1. conn'[i] = n /\ members' = members /\ pool' = None /\ members[conn[i].handlers] = {}
          BY <1>1, <1>3, <3>1 DEF Heard
        <4> QED BY <2>2, <4>1 DEF GivenUp, Heard
      <3>3. ASSUME NEW p \in Sockets \ {i}, p = pool PROVE Subscribed = {} /\ GivenUp(p)'
        <4>1. conn'[i] # conn[i] /\ conn'[p] = conn[p]
          BY <1>1, <2>2, <3>1
        <4> QED BY <1>1, <1>3, <2>6, <3>3, <4>1, LosesEntry
      <3>4. Subscribed = {}
        <4>1. CASE i = pool
          BY <1>3, <2>6, <4>1, PoolFacts DEF EntryInv, EntryIsTrue
        <4>2. CASE pool = None
          BY <2>6, <4>2 DEF EntryInv
        <4> QED BY <3>3, <4>1, <4>2, PoolFacts
      <3> QED BY <1>1, <1>3, <2>6, <3>1, <3>2, <3>3, <3>4, NoEntryLeft
    <2> QED BY <2>5, <2>6
  <1> QED BY <1>2, <1>3 DEF CloseTimerFires, NobodyListens

\* The reconnection timer makes the entry, or gives the channel up.
LEMMA ReconnectTimerStep ==
  ASSUME PoolInv, NEW i \in Sockets, ReconnectTimerFires(i)
  PROVE  PoolInv' /\ (EntryInv /\ ~Crosses => EntryInv')
  <1>1. /\ conn[i].reconnect = "pending" /\ members' = members /\ token' \in BOOLEAN
        /\ conn[i] \in Connections /\ conn[i].handlers \in Sockets
        /\ conn[i].ready = "closed" /\ conn[i].tries = conn[i].attempts
        /\ conn[i].attempts < MaxReconnectAttempts /\ conn[i].attempts \in Nat
        /\ members' \in [Sockets -> SUBSET Handlers]
    BY PoolFacts, ConnectionFacts, BoundsAssumption DEF ReconnectTimerFires, TimerIsTrue
  <1>2. conn[i].attempts + 1 \in 0..MaxReconnectAttempts /\ i <= made /\ conn[i].handlers <= made
    BY <1>1, PoolFacts, BoundsAssumption DEF PoolInv, Numbered
  <1>3. PICK n : n = [conn[i] EXCEPT !.reconnect = "fired", !.attempts = @ + 1]
    OBVIOUS
  <1>4. /\ n \in Connections /\ n.ready = "closed" /\ n.handlers = conn[i].handlers
        /\ n.reconnect = "fired" /\ n.tries = conn[i].tries /\ n.close = conn[i].close
    BY <1>1, <1>2, <1>3 DEF Connections, TimerStates
  <1>5. TimerIsTrue(n) /\ n.tries <= MaxReconnectAttempts
    BY <1>4, PoolFacts DEF TimerIsTrue
  <1>6. ASSUME EntryInv PROVE i = pool /\ pool # None /\ members[conn[i].handlers] = Subscribed
    <2>1. i = pool
      BY <1>1, <1>6 DEF EntryInv, GivenUp
    <2>2. pool # None
      BY <2>1, PoolFacts
    <2> QED BY <1>6, <2>1, <2>2 DEF EntryInv, EntryIsTrue, Heard
  <1>7. CASE /\ token /\ made < MaxSockets
             /\ made' = made + 1 /\ pool' = made'
             /\ conn' = [conn EXCEPT ![i].reconnect = "fired", ![i].attempts = @ + 1,
                           ![made'] = NewConnection(SharedHandlers(i), AttemptsAfter(i),
                                                    conn[i].tries + 1)]
             /\ UNCHANGED sub
    <2> DEFINE c == NewConnection(conn[i].handlers, conn[i].attempts + 1, conn[i].tries + 1)
    <2>1. /\ c \in Connections /\ c.ready = "connecting" /\ c.handlers = conn[i].handlers
          /\ c.attempts = conn[i].attempts + 1 /\ c.tries = conn[i].attempts + 1
          /\ c.reconnect = "none" /\ ~c.isClosed /\ ~c.closeOnOpen
      <3>1. conn[i].attempts + 1 \in 0..(MaxReconnectAttempts + 1)
        BY <1>1, BoundsAssumption
      <3> QED BY <1>1, <1>2, <3>1, NewFacts
    <2> DEFINE base == [conn EXCEPT ![i] = n]
    <2>2. /\ base \in [Sockets -> Connections] /\ base[i] = n
          /\ \A j \in Sockets \ {i} : base[j] = conn[j]
      BY <1>4, PoolFacts
    <2>3. made' # i /\ made' \in Sockets /\ sub' \in [Handlers -> {"idle", "subscribed", "cut"}]
      BY <1>2, <1>7, PoolFacts, BoundsAssumption DEF Sockets
    <2>4. conn' = [base EXCEPT ![made'] = c]
      BY <1>3, <1>7, <2>3, PoolFacts DEF SharedHandlers, AttemptsAfter
    <2> HIDE DEF c, base
    <2>5. \A j \in Sockets : /\ base[j].ready = conn[j].ready /\ base[j].handlers = conn[j].handlers
                             /\ base[j].close = conn[j].close /\ base[j].tries = conn[j].tries
                             /\ TimerIsTrue(base[j])
      BY <1>1, <1>4, <1>5, <2>2, PoolFacts
    <2>6. c.handlers <= made' /\ c.attempts = c.tries
          /\ \A j \in Sockets : j > made' => members'[j] = members[j]
      <3>1. conn[i].handlers <= made + 1
        BY <1>1, <1>2, PoolFacts
      <3> QED BY <1>1, <1>7, <2>1, <3>1
    <2>7. PoolInv'
      BY <1>1, <1>7, <2>1, <2>2, <2>3, <2>4, <2>5, <2>6, OneMore
    <2>8. ASSUME EntryInv PROVE EntryInv'
      <3>1. /\ conn'[made'] = c /\ conn'[i] = n
            /\ \A j \in Sockets : j \notin {i, made'} => conn'[j] = conn[j]
        BY <2>2, <2>3, <2>4
      <3>2. i = pool /\ pool # None /\ members[conn[i].handlers] = Subscribed /\ Subscribed' = Subscribed
        BY <1>6, <1>7, <2>8 DEF Subscribed
      <3>3. members' = [members EXCEPT ![conn[pool].handlers] = Subscribed']
        BY <1>1, <3>2, PoolFacts
      <3>4. pool' # None /\ pool' \in Sockets
        BY <1>7, <2>3, PoolFacts
      <3> QED BY <1>4, <1>7, <2>1, <2>8, <3>1, <3>2, <3>3, <3>4, EntryChanges
    <2> QED BY <2>7, <2>8
  <1>8. CASE /\ ~token /\ pool' = None
             /\ conn' = [conn EXCEPT ![i].reconnect = "fired", ![i].attempts = @ + 1]
             /\ sub' = [h \in Handlers |-> IF h \in Heard(i) THEN "cut" ELSE sub[h]]
             /\ UNCHANGED made
    <2>1. conn' = [conn EXCEPT ![i] = n]
      BY <1>3, <1>8, PoolFacts
    <2>2. sub' \in [Handlers -> {"idle", "subscribed", "cut"}] /\ pool' # i
      BY <1>8, PoolFacts
    <2>3. PoolInv'
      BY <1>1, <1>4, <1>5, <1>8, <2>1, <2>2, OneChanges
    <2>4. ASSUME EntryInv PROVE EntryInv'
      <3>1. conn'[i] = n /\ \A j \in Sockets \ {i} : conn'[j] = conn[j]
        BY <1>4, <2>1, PoolFacts
      <3>2. GivenUp(i)' /\ i = pool
        BY <1>4, <1>6, <2>4, <3>1 DEF GivenUp
      <3>3. Subscribed' = {}
        BY <1>6, <1>8, <2>4 DEF Heard, Subscribed
      <3> QED BY <1>1, <1>8, <2>4, <3>1, <3>2, <3>3, NoEntryLeft
    <2> QED BY <2>3, <2>4
  <1> QED BY <1>7, <1>8 DEF ReconnectTimerFires, NoEntry

\* disconnectAll() gives the entry up.
LEMMA DisconnectStep ==
  ASSUME PoolInv, DisconnectAll
  PROVE  PoolInv' /\ (EntryInv /\ ~Crosses => EntryInv')
  <1>1. PICK p \in Sockets : p = pool
    BY PoolFacts DEF DisconnectAll
  <1>2. /\ pool # None /\ pool' = None /\ members' = members /\ made' = made /\ token' \in BOOLEAN
        /\ conn[p] \in Connections /\ p <= made /\ conn[p].ready # "unmade"
        /\ sub' \in [Handlers -> {"idle", "subscribed", "cut"}] /\ Subscribed' = {}
        /\ members' \in [Sockets -> SUBSET Handlers] /\ pool' # p
    BY <1>1, PoolFacts DEF DisconnectAll, Subscribed
  <1>3. PICK n : n = [conn[p] EXCEPT !.isClosed = TRUE, !.reconnect = "none", !.close = "none",
                                     !.ready = IF Live(p) THEN "closing" ELSE @]
    OBVIOUS
  <1>4. conn' = [conn EXCEPT ![p] = n]
    BY <1>1, <1>3, PoolFacts DEF DisconnectAll
  <1>5. /\ n \in Connections /\ n.handlers = conn[p].handlers /\ n.tries = conn[p].tries
        /\ n.attempts = conn[p].attempts /\ n.reconnect = "none" /\ n.isClosed
        /\ n.ready = IF Live(p) THEN "closing" ELSE conn[p].ready
    BY <1>2, <1>3 DEF Connections, TimerStates, Live
  <1>6. n.ready \in {"closing", "closed"} /\ TimerIsTrue(n) /\ n.tries <= MaxReconnectAttempts
    BY <1>2, <1>5, PoolFacts, ConnectionFacts DEF Live, TimerIsTrue
  <1>7. PoolInv'
    BY <1>2, <1>4, <1>5, <1>6, OneChanges
  <1>8. ASSUME EntryInv PROVE EntryInv'
    <2>1. conn'[p] = n /\ \A j \in Sockets \ {p} : conn'[j] = conn[j]
      BY <1>4, <1>5, PoolFacts
    <2>2. GivenUp(p)'
      BY <1>2, <1>5, <1>6, <2>1 DEF GivenUp
    <2> QED BY <1>1, <1>2, <1>8, <2>1, <2>2, NoEntryLeft
  <1> QED BY <1>7, <1>8

\* A socket that changes its state and nothing else: what the records are.
LEMMA SocketChanges ==
  ASSUME PoolInv, NEW i \in Sockets, NEW n \in Connections, conn' = [conn EXCEPT ![i] = n],
         conn[i].ready # "unmade", n.ready # "unmade", n.handlers = conn[i].handlers,
         n.isClosed = conn[i].isClosed, n.closeOnOpen = conn[i].closeOnOpen,
         n.tries <= MaxReconnectAttempts, TimerIsTrue(n), n.reconnect # "fired",
         pool' \in {pool, None}, made' = made, members' = members, token' \in BOOLEAN,
         sub' \in [Handlers -> {"idle", "subscribed", "cut"}]
  PROVE  PoolInv' /\ i \in 1..made
  <1>1. i <= made /\ i \in 1..made
    BY PoolFacts DEF PoolInv, Numbered, Sockets
  <1>2. pool' = i => ~n.isClosed
    BY PoolFacts
  <1> QED BY <1>1, <1>2, PoolFacts, OneChanges

\* onopen: the entry is open, or a connection given up starts to close.
LEMMA SocketOpensStep ==
  ASSUME PoolInv, NEW i \in Sockets, SocketOpens(i)
  PROVE  PoolInv' /\ (EntryInv /\ ~Crosses => EntryInv')
  <1>1. /\ conn[i].ready = "connecting" /\ conn[i] \in Connections /\ conn[i].reconnect = "none"
        /\ pool' = pool /\ made' = made /\ members' = members /\ sub' = sub
        /\ token' \in BOOLEAN /\ sub' \in [Handlers -> {"idle", "subscribed", "cut"}]
        /\ Subscribed' = Subscribed
    BY PoolFacts DEF SocketOpens, TimerIsTrue, Subscribed
  <1>2. PICK n : n = [conn[i] EXCEPT !.attempts = 0, !.tries = 0,
                      !.ready = IF conn[i].closeOnOpen /\ Heard(i) = {} THEN "closing" ELSE "open"]
    OBVIOUS
  <1>3. conn' = [conn EXCEPT ![i] = n]
    BY <1>2, PoolFacts DEF SocketOpens
  <1>4. /\ n \in Connections /\ n.handlers = conn[i].handlers /\ n.attempts = 0 /\ n.tries = 0
        /\ n.ready = IF conn[i].closeOnOpen /\ Heard(i) = {} THEN "closing" ELSE "open"
        /\ n.reconnect = "none" /\ n.isClosed = conn[i].isClosed
        /\ n.closeOnOpen = conn[i].closeOnOpen
    <2>1. 0 \in 0..MaxReconnectAttempts /\ 0 \in 0..(MaxReconnectAttempts + 1)
      BY BoundsAssumption
    <2> QED BY <1>1, <1>2, <2>1 DEF Connections
  <1>5. TimerIsTrue(n) /\ n.tries <= MaxReconnectAttempts
    BY <1>4, BoundsAssumption DEF TimerIsTrue
  <1>6. PoolInv'
    BY <1>1, <1>3, <1>4, <1>5, SocketChanges
  <1>7. ASSUME EntryInv PROVE EntryInv'
    <2>1. conn'[i] = n /\ \A j \in Sockets \ {i} : conn'[j] = conn[j]
      BY <1>3, <1>4, PoolFacts
    <2>2. CASE i = pool
      <3>1. pool # None /\ EntryIsTrue
        BY <1>7, <2>2, PoolFacts DEF EntryInv
      <3>2. members' = [members EXCEPT ![conn[pool].handlers] = Subscribed']
        BY <1>1, <2>2, <3>1, PoolFacts DEF EntryIsTrue, Heard
      <3>3. n.ready = "open" /\ ~n.closeOnOpen
        BY <1>4, <2>2, <3>1 DEF EntryIsTrue
      <3> QED BY <1>1, <1>4, <1>7, <2>1, <2>2, <3>1, <3>2, <3>3, PoolFacts, EntryChanges
    <2>3. CASE i # pool
      <3>1. GivenUp(i)
        BY <1>7, <2>3 DEF EntryInv
      <3>2. n.ready = "closing" /\ Heard(i) = {}
            /\ (pool # None => conn[i].handlers # conn[pool].handlers)
        BY <1>1, <1>4, <3>1 DEF GivenUp
      <3>3. \A p \in Sockets : p = pool => conn'[p] = conn[p]
        BY <2>1, <2>3
      <3>4. GivenUp(i)'
        BY <1>1, <1>4, <2>1, <3>2, <3>3, PoolFacts DEF GivenUp, Heard
      <3>5. ASSUME NEW j \in Sockets, j # i, j # pool PROVE GivenUp(j)'
        <4>1. GivenUp(j) /\ conn'[j] = conn[j]
          BY <1>7, <2>1, <3>5 DEF EntryInv
        <4> QED BY <1>1, <3>3, <4>1, PoolFacts DEF GivenUp, Heard
      <3>6. pool # None /\ EntryIsTrue => EntryIsTrue'
        BY <1>1, <3>3, PoolFacts DEF EntryIsTrue, Heard
      <3> QED BY <1>1, <1>7, <3>4, <3>5, <3>6 DEF EntryInv
    <2> QED BY <2>2, <2>3
  <1> QED BY <1>6, <1>7

\* The server closes a socket: without a crossing the entry's, no other is open.
LEMMA ServerClosesStep ==
  ASSUME PoolInv, NEW i \in Sockets, ServerCloses(i)
  PROVE  PoolInv' /\ (EntryInv /\ ~Crosses => EntryInv')
  <1>1. /\ conn[i].ready = "open" /\ conn[i] \in Connections /\ conn[i].reconnect = "none"
        /\ pool' = pool /\ made' = made /\ members' = members /\ sub' = sub
        /\ token' \in BOOLEAN /\ sub' \in [Handlers -> {"idle", "subscribed", "cut"}]
        /\ Subscribed' = Subscribed
    BY PoolFacts DEF ServerCloses, TimerIsTrue, Subscribed
  <1>2. PICK n : n = [conn[i] EXCEPT !.ready = "closing"]
    OBVIOUS
  <1>3. conn' = [conn EXCEPT ![i] = n]
    BY <1>2, PoolFacts DEF ServerCloses
  <1>4. /\ n \in Connections /\ n.handlers = conn[i].handlers /\ n.ready = "closing"
        /\ n.attempts = conn[i].attempts /\ n.tries = conn[i].tries
        /\ n.reconnect = "none" /\ n.isClosed = conn[i].isClosed
        /\ n.closeOnOpen = conn[i].closeOnOpen
    BY <1>1, <1>2 DEF Connections
  <1>5. TimerIsTrue(n) /\ n.tries <= MaxReconnectAttempts
    BY <1>1, <1>4, PoolFacts DEF TimerIsTrue
  <1>6. PoolInv'
    BY <1>1, <1>3, <1>4, <1>5, SocketChanges
  <1>7. ASSUME EntryInv PROVE EntryInv'
    <2>1. conn'[i] = n /\ \A j \in Sockets \ {i} : conn'[j] = conn[j]
      BY <1>3, <1>4, PoolFacts
    <2>2. i = pool /\ pool # None /\ EntryIsTrue
      BY <1>1, <1>7, PoolFacts DEF EntryInv, GivenUp
    <2>3. members' = [members EXCEPT ![conn[pool].handlers] = Subscribed']
      BY <1>1, <2>2, PoolFacts DEF EntryIsTrue, Heard
    <2>4. ~n.closeOnOpen
      BY <1>4, <2>2 DEF EntryIsTrue
    <2> QED BY <1>1, <1>4, <1>7, <2>1, <2>2, <2>3, <2>4, PoolFacts, EntryChanges
  <1> QED BY <1>6, <1>7

\* onclose: the entry waits to be replaced, or is dropped with its subscribers;
\* the end of another connection deletes it.
LEMMA SocketClosesStep ==
  ASSUME PoolInv, NEW i \in Sockets, NEW clean \in BOOLEAN, SocketCloses(i, clean)
  PROVE  PoolInv' /\ (EntryInv /\ ~Crosses => EntryInv')
  <1>1. /\ conn[i].ready \in {"connecting", "open", "closing"} /\ conn[i] \in Connections
        /\ conn[i].reconnect = "none" /\ conn[i].tries = conn[i].attempts
        /\ made' = made /\ members' = members /\ token' \in BOOLEAN
    BY PoolFacts, ConnectionFacts DEF SocketCloses, TimerIsTrue
  <1>2. CASE /\ WillReconnect(i, clean) /\ pool' = pool /\ sub' = sub
             /\ conn' = [conn EXCEPT ![i].ready = "closed", ![i].reconnect = "pending"]
    <2>1. PICK n : n = [conn[i] EXCEPT !.ready = "closed", !.reconnect = "pending"]
      OBVIOUS
    <2>2. conn' = [conn EXCEPT ![i] = n]
      BY <1>2, <2>1, PoolFacts
    <2>3. /\ n \in Connections /\ n.handlers = conn[i].handlers /\ n.ready = "closed"
          /\ n.attempts = conn[i].attempts /\ n.tries = conn[i].tries
          /\ n.reconnect = "pending" /\ n.isClosed = conn[i].isClosed
          /\ n.closeOnOpen = conn[i].closeOnOpen
      BY <1>1, <2>1 DEF Connections, TimerStates
    <2>4. TimerIsTrue(n) /\ n.tries <= MaxReconnectAttempts
      BY <1>1, <1>2, <2>3, PoolFacts DEF TimerIsTrue, WillReconnect
    <2>5. sub' \in [Handlers -> {"idle", "subscribed", "cut"}] /\ Subscribed' = Subscribed
      BY <1>2, PoolFacts DEF Subscribed
    <2>6. PoolInv'
      BY <1>1, <1>2, <2>2, <2>3, <2>4, <2>5, SocketChanges
    <2>7. ASSUME EntryInv PROVE EntryInv'
      <3>1. conn'[i] = n /\ \A j \in Sockets \ {i} : conn'[j] = conn[j]
        BY <2>2, <2>3, PoolFacts
      <3>2. i = pool /\ pool # None /\ EntryIsTrue
        BY <1>1, <1>2, <2>7, PoolFacts DEF EntryInv, GivenUp, WillReconnect
      <3>3. members' = [members EXCEPT ![conn[pool].handlers] = Subscribed']
        BY <1>1, <2>5, <3>2, PoolFacts DEF EntryIsTrue, Heard
      <3>4. ~n.closeOnOpen
        BY <2>3, <3>2 DEF EntryIsTrue
      <3> QED BY <1>2, <2>3, <2>7, <3>1, <3>2, <3>3, <3>4, PoolFacts, EntryChanges
    <2> QED BY <2>6, <2>7
  <1>3. CASE /\ pool' = None /\ conn' = [conn EXCEPT ![i].ready = "closed"]
             /\ sub' = [h \in Handlers |-> IF h \in Heard(i) /\ i = pool /\ sub[h] = "subscribed"
                                           THEN "cut" ELSE sub[h]]
    <2>1. PICK n : n = [conn[i] EXCEPT !.ready = "closed"]
      OBVIOUS
    <2>2. conn' = [conn EXCEPT ![i] = n]
      BY <1>3, <2>1, PoolFacts
    <2>3. /\ n \in Connections /\ n.handlers = conn[i].handlers /\ n.ready = "closed"
          /\ n.tries = conn[i].tries /\ n.attempts = conn[i].attempts /\ n.reconnect = "none"
          /\ n.isClosed = conn[i].isClosed /\ n.closeOnOpen = conn[i].closeOnOpen
      BY <1>1, <2>1 DEF Connections
    <2>4. TimerIsTrue(n) /\ n.tries <= MaxReconnectAttempts
      BY <1>1, <2>3, PoolFacts DEF TimerIsTrue
    <2>5. sub' \in [Handlers -> {"idle", "subscribed", "cut"}]
      BY <1>3, PoolFacts
    <2>6. PoolInv' /\ i \in 1..made
      BY <1>1, <1>3, <2>2, <2>3, <2>4, <2>5, SocketChanges
    <2>7. ASSUME EntryInv, ~Crosses PROVE EntryInv'
      <3>1. conn'[i] = n /\ \A j \in Sockets \ {i} : conn'[j] = conn[j]
        BY <2>2, <2>3, PoolFacts
      <3>2. GivenUp(i)'
        BY <2>3, <3>1 DEF GivenUp
      <3>3. ASSUME NEW p \in Sockets \ {i}, p = pool PROVE Subscribed = {} /\ GivenUp(p)'
        <4>1. conn'[i] # conn[i] /\ conn'[p] = conn[p]
          BY <1>1, <2>3, <3>1
        <4> QED BY <1>1, <1>3, <2>6, <2>7, <3>3, <4>1, LosesEntry
      <3>4. Subscribed' = {}
        <4>1. CASE i = pool
          <5>1. Heard(i) = Subscribed
            BY <2>7, <4>1, PoolFacts DEF EntryInv, EntryIsTrue
          <5> QED BY <1>3, <4>1, <5>1 DEF Subscribed
        <4>2. CASE i # pool
          <5>1. Subscribed = {}
            BY <2>7, <3>3, <4>2, PoolFacts DEF EntryInv
          <5> QED BY <1>3, <4>2, <5>1 DEF Subscribed
        <4> QED BY <4>1, <4>2
      <3> QED BY <1>1, <1>3, <2>7, <3>1, <3>2, <3>3, <3>4, NoEntryLeft
    <2> QED BY <2>6, <2>7
  <1> QED BY <1>2, <1>3 DEF SocketCloses

\* A page begins without connections.
LEMMA InitChannel == HistoryInit => ChannelInv
  <1> SUFFICES ASSUME Init PROVE PoolInv /\ EntryInv
    BY DEF ChannelInv, HistoryInit
  <1>1. /\ 0 \in 0..MaxReconnectAttempts /\ 0 \in 0..(MaxReconnectAttempts + 1)
        /\ 0 <= MaxReconnectAttempts /\ 0 \in 0..MaxSockets /\ Sockets \subseteq Nat
    BY BoundsAssumption DEF Sockets
  <1>2. ASSUME NEW i \in Sockets
        PROVE  /\ conn[i] \in Connections /\ conn[i].ready = "unmade" /\ conn[i].tries = 0
               /\ conn[i].attempts = 0 /\ conn[i].close = "none"
               /\ conn[i].reconnect = "none" /\ i > 0 /\ members[i] = {}
    <2> DEFINE c == NewConnection(i, 0, 0)
    <2>1. c \in Connections /\ c.tries = 0 /\ c.reconnect = "none" /\ c.attempts = 0 /\ c.close = "none"
      BY <1>1, <1>2, NewFacts
    <2>2. conn[i] = [c EXCEPT !.ready = "unmade"] /\ members[i] = {} /\ i > 0
      BY <1>2 DEF Init, Sockets
    <2> HIDE DEF c
    <2> QED BY <2>1, <2>2 DEF Connections
  <1>3. conn \in [Sockets -> Connections]
    BY <1>2 DEF Init
  <1>4. TypeOK
    BY <1>1, <1>3 DEF Init, TypeOK
  <1>5. Numbered
    BY <1>2 DEF Init, Numbered, None
  <1>6. BackoffIsBounded /\ \A i \in Sockets : TimerIsTrue(conn[i])
    BY <1>1, <1>2 DEF BackoffIsBounded, TimerIsTrue
  <1>7. \A i \in Sockets \ {pool} : GivenUp(i)
    BY <1>2 DEF GivenUp, Init
  <1>8. pool = None /\ Subscribed = {}
    BY DEF Init, Subscribed
  <1> QED BY <1>4, <1>5, <1>6, <1>7, <1>8 DEF PoolInv, EntryInv

\* Every step keeps the pool, and the entry unless it crosses.
LEMMA StepPool ==
  ASSUME PoolInv, Next
  PROVE  PoolInv' /\ (EntryInv /\ ~Crosses => EntryInv')
  <1>1. CASE TokenChanges
    <2>1. UNCHANGED <<conn, members, pool, made, sub>> /\ token' \in BOOLEAN
      BY <1>1, PoolFacts DEF TokenChanges
    <2>2. PoolInv'
      BY <2>1 DEF PoolInv, TypeOK, Numbered, BackoffIsBounded
    <2>3. EntryInv => EntryInv'
      BY <2>1 DEF EntryInv, GivenUp, EntryIsTrue, Heard, Subscribed
    <2> QED BY <2>2, <2>3
  <1> QED BY <1>1, SubscribeStep, UnsubscribeStep, SendStep, DisconnectStep, CloseTimerStep,
             ReconnectTimerStep, SocketOpensStep, ServerClosesStep, SocketClosesStep DEF Next

\* The pool is true, and its entry as long as nothing crossed.
LEMMA ChannelIsTrue == HistorySpec => []ChannelInv
  <1>1. ChannelInv /\ [Next /\ Records]_<<vars, crossed>> => ChannelInv'
    <2>1. ASSUME ChannelInv, Next, Records PROVE ChannelInv'
      <3>1. PoolInv' /\ (EntryInv /\ ~Crosses => EntryInv')
        BY <2>1, StepPool DEF ChannelInv
      <3>2. ~crossed' => Left' \/ (~crossed /\ ~Crosses)
        BY <2>1 DEF Records
      <3> QED BY <2>1, <3>1, <3>2, LeftEntry DEF ChannelInv
    <2>2. ASSUME ChannelInv, UNCHANGED <<vars, crossed>> PROVE ChannelInv'
      <3>1. UNCHANGED <<conn, members, pool, made, token, sub, crossed>>
        BY <2>2 DEF vars
      <3>2. PoolInv => PoolInv'
        BY <3>1 DEF PoolInv, TypeOK, Numbered, BackoffIsBounded
      <3>3. EntryInv => EntryInv'
        BY <3>1 DEF EntryInv, GivenUp, EntryIsTrue, Heard, Subscribed
      <3> QED BY <2>2, <3>1, <3>2, <3>3 DEF ChannelInv
    <2> QED BY <2>1, <2>2
  <1> QED BY InitChannel, <1>1, PTL DEF HistorySpec

\* A channel has one connection until an entry in use is taken away: the
\* sockets a drop, a debounced close, disconnectAll or a replacement leave
\* behind are not open and only wait to be closed.
THEOREM OneConnectionAlways == HistorySpec => []OneConnectionPerChannel
  <1>1. ChannelInv => OneConnectionPerChannel
    <2> SUFFICES ASSUME EntryInv, NEW i \in Sockets, Live(i), ~conn[i].closeOnOpen
                 PROVE  i = pool
      BY DEF OneConnectionPerChannel, ChannelInv
    <2> QED BY DEF Live, EntryInv, GivenUp
  <1> QED BY <1>1, ChannelIsTrue, PTL

\* Until then no subscriber is lost: each of them that the client did not give
\* up is in the set the entry calls, across drops, reconnections and debounced
\* closes, and a handler that unsubscribed is called by no socket.
THEOREM SubscribersAlwaysHeard == HistorySpec => []SubscribersAreHeard
  <1>1. ChannelInv => SubscribersAreHeard
    <2> SUFFICES ASSUME PoolInv, EntryInv, NEW h \in Handlers
                 PROVE  /\ sub[h] = "subscribed" => pool # None /\ h \in Heard(pool)
                        /\ sub[h] = "idle" =>
                             \A i \in Sockets : conn[i].ready = "open" => h \notin Heard(i)
      BY DEF SubscribersAreHeard, ChannelInv
    <2>1. \A i \in Sockets : conn[i].ready = "open" => i = pool
      BY DEF EntryInv, GivenUp
    <2>2. CASE pool = None
      BY <2>1, <2>2, PoolFacts DEF EntryInv, Subscribed
    <2>3. CASE pool # None
      BY <2>1, <2>3 DEF EntryInv, EntryIsTrue, Subscribed
    <2> QED BY <2>2, <2>3
  <1> QED BY <1>1, ChannelIsTrue, PTL

\* No more than maxReconnectAttempts connections in a row are made without one
\* of them opening, and a channel is reported as reconnecting only while a
\* timer runs that will reconnect it, also after a crossing.
THEOREM BackoffAlwaysBounded == HistorySpec => [](BackoffIsBounded /\ ReconnectingIsTrue)
  <1>1. ChannelInv => BackoffIsBounded
    BY DEF ChannelInv, PoolInv
  <1>2. ChannelInv => ReconnectingIsTrue
    <2> SUFFICES ASSUME PoolInv, ConnectionState = "reconnecting"
                 PROVE  conn[pool].reconnect = "pending"
      BY DEF ReconnectingIsTrue, ChannelInv
    <2>1. pool # None
      BY DEF ConnectionState
    <2>2. conn[pool].reconnect # "none"
      <3>1. CASE conn[pool].reconnect = "none"
        BY <2>1, <3>1 DEF ConnectionState
      <3> QED BY <3>1
    <2> QED BY <2>1, <2>2, PoolFacts, ConnectionFacts DEF TimerStates
  <1> QED BY <1>1, <1>2, ChannelIsTrue, PTL

-----------------------------------------------------------------------------
(***************************************************************************)
(* The provider's connection.                                              *)
(***************************************************************************)

\* A timer is set only while an attempt is left, a socket has handlers only
\* while its close would be answered, and what disconnect() left idle has no
\* socket, no timer and no connect that waits.
TimerHasAnAttempt == timer => attempts < MaxAttempts
AtMostOne == \A s, t \in sockets : s = t
AliveIsArmed == sockets # {} => ~manual
IdleIsIdle == off = "idle" => (sockets = {} /\ ~timer /\ \A u \in Urls : calls[u] = 0)

ProviderInv ==
  ProviderTypeOK /\ TimerHasAnAttempt /\ AtMostOne /\ AliveIsArmed /\ OneSocket /\ OpenIsKept /\ IdleIsIdle

\* Tearing the current socket down leaves none.
LEMMA NothingLeft == ASSUME OneSocket PROVE Torn = {}
  BY DEF OneSocket, Torn

\* Nothing waits exactly when no url has a connect that waits.
LEMMA WaitingFacts ==
  ASSUME calls \in [Urls -> 0..MaxCalls]
  PROVE  Waiting = {} <=> \A u \in Urls : calls[u] = 0
  <1>1. \A u \in Urls : calls[u] \in Nat
    BY ProviderAssumption
  <1>2. \A u \in Urls : u \in Waiting <=> calls[u] # 0
    BY <1>1 DEF Waiting
  <1> QED BY <1>2 DEF Waiting

\* The counter of a url stays within its bound.
LEMMA ConnectType ==
  ASSUME calls \in [Urls -> 0..MaxCalls], NEW u \in Urls, Connect(u)
  PROVE  calls' \in [Urls -> 0..MaxCalls]
  BY ProviderAssumption DEF Connect

\* A provider that is not mounted yet shows nothing.
LEMMA InitProvider == ProviderInit => ProviderInv
  <1> SUFFICES ASSUME ProviderInit PROVE ProviderInv
    OBVIOUS
  <1>1. calls \in [Urls -> 0..MaxCalls] /\ attempts \in 0..MaxAttempts
        /\ moves \in 0..MaxMoves /\ skips \in 0..MaxSkips
    BY ProviderAssumption DEF ProviderInit
  <1>3. ProviderTypeOK
    BY <1>1 DEF ProviderInit, ProviderTypeOK
  <1>2. TimerHasAnAttempt /\ AtMostOne /\ AliveIsArmed /\ OneSocket /\ OpenIsKept /\ IdleIsIdle
    BY DEF ProviderInit, TimerHasAnAttempt, AtMostOne, AliveIsArmed, OneSocket, OpenIsKept, IdleIsIdle
  <1> QED BY <1>2, <1>3 DEF ProviderInv

\* A stop, by the cleanup, by disconnect() or by another url, leaves no
\* socket and no timer, whatever waits.
LEMMA Stopped ==
  ASSUME ProviderInv, Stop, TurnedOff \/ off' = "no", attempts' \in {0, attempts},
         calls' \in [Urls -> 0..MaxCalls], off' = "no" \/ calls' = calls,
         url' \in {0} \cup Urls, status' \in {status, "CLOSED"},
         moves' \in 0..MaxMoves, skips' = skips
  PROVE  ProviderInv'
  <1>1. sockets' = {} /\ ws' = 0 /\ timer' = FALSE /\ manual' = TRUE /\ beat' = FALSE
    BY NothingLeft DEF ProviderInv, Stop
  <1>2. off' = "idle" => \A u \in Urls : calls'[u] = 0
    BY WaitingFacts DEF ProviderInv, ProviderTypeOK, TurnedOff
  <1>3. attempts' \in 0..MaxAttempts /\ off' \in {"no", "idle", "busy"} /\ skips' \in 0..MaxSkips
        /\ status' \in {"CLOSED", "CONNECTING", "OPEN"}
    BY ProviderAssumption DEF ProviderInv, ProviderTypeOK, TurnedOff
  <1>4. ProviderTypeOK'
    BY <1>1, <1>3 DEF ProviderTypeOK
  <1> QED
    BY <1>1, <1>2, <1>4 DEF ProviderInv, TimerHasAnAttempt, AtMostOne, AliveIsArmed, OneSocket,
                            OpenIsKept, IdleIsIdle

\* The invariant is kept by every step.
LEMMA StepProvider == ProviderInv /\ [ProviderNext]_providerVars => ProviderInv'
  <1> SUFFICES ASSUME ProviderInv, [ProviderNext]_providerVars PROVE ProviderInv'
    OBVIOUS
  <1> USE ProviderAssumption
  <1>t. /\ ProviderTypeOK /\ TimerHasAnAttempt /\ AtMostOne /\ AliveIsArmed
        /\ OneSocket /\ OpenIsKept /\ IdleIsIdle
    BY DEF ProviderInv
  <1>m. ASSUME Moved PROVE moves' \in 0..MaxMoves
    BY <1>m, <1>t DEF Moved, ProviderTypeOK
  <1>1. ASSUME NEW u \in {0} \cup Urls, SetUrl(u) PROVE ProviderInv'
    <2>1. u # 0 => calls' \in [Urls -> 0..MaxCalls]
      BY <1>1, <1>t, ConnectType DEF SetUrl, ProviderTypeOK
    <2>2. calls' \in [Urls -> 0..MaxCalls] /\ (off' = "no" \/ calls' = calls)
      BY <1>1, <1>t, <2>1 DEF SetUrl, ProviderTypeOK
    <2>3. Stop /\ Moved /\ url' \in {0} \cup Urls /\ skips' = skips
      BY <1>1 DEF SetUrl
    <2>4. (TurnedOff \/ off' = "no") /\ attempts' \in {0, attempts} /\ status' \in {status, "CLOSED"}
      BY <1>1 DEF SetUrl
    <2> QED BY <2>2, <2>3, <2>4, <1>m, Stopped
  <1>2. CASE Unmount \/ Disconnect
    <2>1. Stop /\ Moved /\ TurnedOff /\ attempts' = attempts /\ calls' = calls /\ url' = url
          /\ skips' = skips /\ status' \in {status, "CLOSED"}
      BY <1>2 DEF Unmount, Disconnect
    <2> QED BY <2>1, <1>t, <1>m, Stopped DEF ProviderTypeOK
  <1>3. CASE Reconnect
    <2>1. calls' \in [Urls -> 0..MaxCalls]
      BY <1>3, <1>t, ConnectType DEF Reconnect, ProviderTypeOK
    <2>3. moves' \in 0..MaxMoves /\ timer' = FALSE /\ attempts' = 0 /\ off' = "no"
          /\ UNCHANGED <<url, mounted, sockets, ws, manual, beat, status, skips>>
      BY <1>3, <1>m DEF Reconnect
    <2>4. attempts' \in 0..MaxAttempts
      BY <2>3
    <2>2. ProviderTypeOK'
      BY <2>1, <2>3, <2>4, <1>t DEF ProviderTypeOK
    <2> QED
      BY <1>3, <1>t, <2>2 DEF Reconnect, ProviderInv, TimerHasAnAttempt, AtMostOne, AliveIsArmed, OneSocket,
                               OpenIsKept, IdleIsIdle
  <1>4. CASE Timer
    <2>1. attempts < MaxAttempts /\ off # "idle" /\ timer' = FALSE /\ attempts' = attempts + 1
          /\ UNCHANGED <<url, mounted, sockets, ws, manual, beat, moves, skips, off>>
      BY <1>4, <1>t DEF Timer, TimerHasAnAttempt, IdleIsIdle
    <2>2. calls' \in [Urls -> 0..MaxCalls]
      BY <1>4, <1>t, ConnectType DEF Timer, ProviderTypeOK
    <2>3. status' \in {status, "CLOSED"}
      BY <1>4 DEF Timer
    <2>5. attempts' \in 0..MaxAttempts
      BY <2>1, <1>t DEF ProviderTypeOK
    <2>4. ProviderTypeOK'
      BY <2>1, <2>2, <2>3, <2>5, <1>t DEF ProviderTypeOK
    <2> QED
      BY <2>1, <2>4, <1>t DEF ProviderInv, TimerHasAnAttempt, AtMostOne, AliveIsArmed, OneSocket,
                               OpenIsKept, IdleIsIdle
  <1>5. ASSUME NEW u \in Urls, TokenArrives(u) PROVE ProviderInv'
    <2>1. calls' \in [Urls -> 0..MaxCalls] /\ off # "idle" /\ off' = off
          /\ UNCHANGED <<url, mounted, attempts, beat, moves>>
      BY <1>5, <1>t DEF TokenArrives, ProviderTypeOK, IdleIsIdle
    <2>2. CASE UNCHANGED <<sockets, ws, timer, manual>> /\ skips' = skips + 1 /\ skips < MaxSkips
               /\ status' = "CLOSED"
      <3>1. ProviderTypeOK'
        BY <2>1, <2>2, <1>t DEF ProviderTypeOK
      <3> QED
        BY <2>1, <2>2, <3>1, <1>t DEF ProviderInv, TimerHasAnAttempt, AtMostOne, AliveIsArmed, OneSocket,
                                       OpenIsKept, IdleIsIdle
    <2>3. ASSUME NEW n \in Numbers, sockets' = {[n |-> n, url |-> u, open |-> FALSE]}, ws' = n,
                 manual' = FALSE, status' = "CONNECTING", UNCHANGED <<timer, skips>>
          PROVE  ProviderInv'
      <3>2. sockets' \subseteq ProviderSockets
        BY <2>3 DEF ProviderSockets
      <3>1. ProviderTypeOK'
        BY <2>1, <2>3, <3>2, <1>t DEF ProviderTypeOK
      <3> QED
        BY <2>1, <2>3, <3>1, <1>t DEF ProviderInv, TimerHasAnAttempt, AtMostOne, AliveIsArmed, OneSocket,
                                       OpenIsKept, IdleIsIdle
    <2>4. CASE sockets' = {} /\ ws' = 0 /\ manual' = FALSE /\ status' = "CLOSED" /\ Schedule
               /\ skips' = skips
      <3>1. ProviderTypeOK' /\ TimerHasAnAttempt'
        BY <2>1, <2>4, <1>t DEF ProviderTypeOK, Schedule, TimerHasAnAttempt
      <3> QED
        BY <2>1, <2>4, <3>1, <1>t DEF ProviderInv, AtMostOne, AliveIsArmed, OneSocket, OpenIsKept, IdleIsIdle
    <2> QED BY <1>5, <1>t, <2>2, <2>3, <2>4, NothingLeft DEF TokenArrives
  <1>6. ASSUME NEW s \in ProviderSockets, Opened(s) PROVE ProviderInv'
    <2>1. PICK o \in ProviderSockets : o = [s EXCEPT !.open = TRUE]
      BY DEF ProviderSockets
    <2>2. o.n = s.n /\ s \in sockets /\ sockets' = {o}
      BY <1>6, <2>1, <1>t DEF Opened, AtMostOne, ProviderSockets
    <2>3. attempts' = 0 /\ status' = "OPEN" /\ beat' = TRUE /\ off # "idle"
          /\ UNCHANGED <<url, mounted, calls, ws, timer, manual, moves, skips, off>>
      BY <1>6, <1>t DEF Opened, IdleIsIdle
    <2>m. ~manual
      BY <1>6, <1>t DEF Opened, AliveIsArmed
    <2>4. ProviderTypeOK' /\ TimerHasAnAttempt'
      BY <2>2, <2>3, <1>t DEF ProviderTypeOK, TimerHasAnAttempt
    <2> QED
      BY <2>2, <2>3, <2>4, <2>m, <1>t DEF ProviderInv, AtMostOne, AliveIsArmed, OneSocket,
                                          OpenIsKept, IdleIsIdle
  <1>7. ASSUME NEW s \in ProviderSockets, Closed(s) PROVE ProviderInv'
    <2>1. sockets' = {} /\ beat' = FALSE /\ status' = "CLOSED"
          /\ UNCHANGED <<url, mounted, calls, ws, attempts, manual, moves, skips, off>>
          /\ (Schedule \/ timer' = timer) /\ off # "idle"
      BY <1>7, <1>t DEF Closed, AtMostOne, IdleIsIdle
    <2>3. timer' \in BOOLEAN /\ (timer' => timer \/ attempts < MaxAttempts)
      <3>1. CASE Schedule
        BY <3>1 DEF Schedule
      <3>2. CASE timer' = timer
        BY <3>2, <1>t DEF ProviderTypeOK
      <3> QED BY <2>1, <3>1, <3>2
    <2>2. ProviderTypeOK' /\ TimerHasAnAttempt'
      BY <2>1, <2>3, <1>t DEF ProviderTypeOK, TimerHasAnAttempt
    <2> QED
      BY <2>1, <2>2, <1>t DEF ProviderInv, AtMostOne, AliveIsArmed, OneSocket, OpenIsKept, IdleIsIdle
  <1>8. CASE UNCHANGED providerVars
    BY <1>8, <1>t DEF providerVars, ProviderInv, ProviderTypeOK, TimerHasAnAttempt, AtMostOne, AliveIsArmed,
                      OneSocket, OpenIsKept, IdleIsIdle
  <1> QED BY <1>1, <1>2, <1>3, <1>4, <1>5, <1>6, <1>7, <1>8 DEF ProviderNext

\* However connects overlap, the state is well typed: no more attempts than
\* the page allowed, and never a timer without one left.
THEOREM ProviderIsTyped == ProviderSpec => [](ProviderTypeOK /\ TimerHasAnAttempt)
  BY InitProvider, StepProvider, PTL DEF ProviderSpec, ProviderInv

\* One socket has handlers, whatever connects await their tokens when the
\* url, the page or a timer asks for another one (provider.tsx, connect).
THEOREM OneSocketAlways == ProviderSpec => []OneSocket
  BY InitProvider, StepProvider, PTL DEF ProviderSpec, ProviderInv

\* An open socket always has its heartbeat and is reconnected when it drops.
THEOREM OpenIsAlwaysKept == ProviderSpec => []OpenIsKept
  BY InitProvider, StepProvider, PTL DEF ProviderSpec, ProviderInv

\* Turned off while no connect waits, the provider stays off.
THEOREM OffStaysOff == ProviderSpec => []StaysOffIdle
  <1>1. ProviderInv => StaysOffIdle
    BY DEF ProviderInv, IdleIsIdle, StaysOffIdle
  <1> QED BY <1>1, InitProvider, StepProvider, PTL DEF ProviderSpec

\* No step leaves OPEN shown without an open socket, a connect that waits, or
\* an unmount.
LEMMA StepOpen == ProviderInv /\ OpenIsTrue /\ [ProviderNext]_providerVars => OpenIsTrue'
  <1> SUFFICES ASSUME ProviderInv, OpenIsTrue, [ProviderNext]_providerVars PROVE OpenIsTrue'
    OBVIOUS
  <1> USE DEF OpenIsTrue, Waiting
  <1>t. ProviderTypeOK
    BY DEF ProviderInv
  <1>c. ASSUME NEW u \in Urls, Connect(u) PROVE OpenIsTrue'
    <2>1. calls'[u] > 0
      BY <1>c, <1>t DEF Connect, ProviderTypeOK
    <2> QED BY <2>1
  <1>1. ASSUME NEW u \in {0} \cup Urls, SetUrl(u) PROVE OpenIsTrue'
    BY <1>1, <1>c DEF SetUrl
  <1>2. CASE Unmount
    BY <1>2 DEF Unmount
  <1>3. CASE Disconnect
    BY <1>3 DEF Disconnect
  <1>4. CASE Reconnect
    BY <1>4, <1>c, <1>t DEF Reconnect, ProviderTypeOK
  <1>5. CASE Timer
    BY <1>5, <1>c, <1>t DEF Timer, ProviderTypeOK
  <1>6. ASSUME NEW u \in Urls, TokenArrives(u) PROVE OpenIsTrue'
    BY <1>6 DEF TokenArrives
  <1>7. ASSUME NEW s \in ProviderSockets, Opened(s) PROVE OpenIsTrue'
    <2>1. [s EXCEPT !.open = TRUE] \in sockets' /\ [s EXCEPT !.open = TRUE].open
      BY <1>7 DEF Opened, ProviderSockets
    <2> QED BY <2>1
  <1>8. ASSUME NEW s \in ProviderSockets, Closed(s) PROVE OpenIsTrue'
    BY <1>8 DEF Closed
  <1>9. CASE UNCHANGED providerVars
    BY <1>9 DEF providerVars
  <1> QED BY <1>1, <1>2, <1>3, <1>4, <1>5, <1>6, <1>7, <1>8, <1>9 DEF ProviderNext

\* The provider shows OPEN only with an open socket, or while a connect that
\* replaces it waits for its token.
THEOREM OpenIsAlwaysTrue == ProviderSpec => []OpenIsTrue
  <1>1. ProviderInit => OpenIsTrue
    BY DEF ProviderInit, OpenIsTrue
  <1> QED BY <1>1, InitProvider, StepProvider, StepOpen, PTL DEF ProviderSpec
=============================================================================

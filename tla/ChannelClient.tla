--------------------------- MODULE ChannelClient ---------------------------
(***************************************************************************)
(* createChannelClient (packages/websocket/src/channels.ts): one channel   *)
(* of the pool of WebSockets, with the debounced close, the reconnection   *)
(* with backoff and the browser's socket life cycle.  Channels share       *)
(* nothing but the token, so one is modelled.                              *)
(*                                                                         *)
(* A connection and its socket are one record.  Handler sets are objects   *)
(* of their own: a replacement connection shares the set of the old one.   *)
(***************************************************************************)
EXTENDS Naturals, FiniteSets

CONSTANTS
  Handlers,              \* the message handlers of the page
  MaxReconnectAttempts,  \* options.maxReconnectAttempts
  MaxSockets             \* bound on the sockets made in a behaviour

ASSUME BoundsAssumption == MaxReconnectAttempts \in Nat /\ MaxSockets \in Nat \ {0}

VARIABLES
  conn,     \* the connections made, by number; the pool and timers refer to them
  members,  \* the handler sets, by the number of the connection they began with
  pool,     \* connections.get(channel); None when the map has no entry
  made,     \* how many connections were made
  token,    \* getToken() returns a token
  sub       \* the caller's view: "idle", "subscribed", or "cut" once the
            \* client gave the channel up (documented limits, disconnectAll)

vars == <<conn, members, pool, made, token, sub>>

None == 0
Sockets == 1..MaxSockets
TimerStates == {"none", "pending", "fired"}
Connections ==
  [ready : {"unmade", "connecting", "open", "closing", "closed"},
   handlers : Sockets,            \* which handler set
   attempts : 0..MaxReconnectAttempts,
   tries : 0..MaxReconnectAttempts + 1,  \* history: attempts since it last opened
   reconnect : TimerStates,       \* reconnectTimeout
   close : TimerStates,           \* closeTimeout
   isClosed : BOOLEAN,
   closeOnOpen : BOOLEAN]         \* the 'open' listener of the debounced close

\* A connection as createConnection builds it.
NewConnection(set, attempts, tries) ==
  [ready |-> "connecting", handlers |-> set, attempts |-> attempts, tries |-> tries,
   reconnect |-> "none", close |-> "none", isClosed |-> FALSE, closeOnOpen |-> FALSE]

Init ==
  /\ conn = [i \in Sockets |-> [NewConnection(i, 0, 0) EXCEPT !.ready = "unmade"]]
  /\ members = [i \in Sockets |-> {}]
  /\ pool = None /\ made = 0
  /\ token \in BOOLEAN
  /\ sub = [h \in Handlers |-> "idle"]

Heard(i)  == members[conn[i].handlers]
Live(i)   == conn[i].ready \in {"connecting", "open"}

\* Variant: only an open socket is reused.
UsableOnlyOpen == pool # None /\ conn[pool].ready = "open"

Usable == pool # None /\ Live(pool)

-----------------------------------------------------------------------------
(***************************************************************************)
(* ensureConnection, when the entry cannot be used: its reconnect timer is *)
(* cleared, the entry dropped, and a connection with a new handler set     *)
(* made if there is a token.                                               *)
(***************************************************************************)
WithoutReconnect ==
  IF pool = None THEN conn ELSE [conn EXCEPT ![pool].reconnect = "none"]

MakeFresh ==
  /\ ~Usable /\ token /\ made < MaxSockets
  /\ made' = made + 1 /\ pool' = made'
  /\ conn' = [WithoutReconnect EXCEPT ![made'] = NewConnection(made', 0, 0)]

RefuseFresh ==
  /\ ~Usable /\ ~token
  /\ pool' = None /\ conn' = WithoutReconnect
  /\ UNCHANGED <<made, members, token, sub>>

\* Reusing a connection cancels its pending close.
CancelClose(i) ==
  [conn EXCEPT ![i].close = "none",
               ![i].isClosed = IF conn[i].close = "none" THEN @ ELSE FALSE]

Subscribe(h) ==
  /\ sub[h] = "idle"
  /\ \/ /\ Usable
        /\ conn' = CancelClose(pool)
        /\ members' = [members EXCEPT ![conn[pool].handlers] = @ \cup {h}]
        /\ sub' = [sub EXCEPT ![h] = "subscribed"]
        /\ UNCHANGED <<pool, made, token>>
     \/ /\ MakeFresh
        /\ members' = [members EXCEPT ![made'] = {h}]
        /\ sub' = [sub EXCEPT ![h] = "subscribed"]
        /\ UNCHANGED token
     \/ RefuseFresh

\* connections.get(channel), as the function subscribe returned looks it up.
Entry == pool

\* The function subscribe returned.  It acts on the entry of the map, which
\* need not be the connection it subscribed to.
Unsubscribe(h) ==
  /\ sub[h] # "idle"
  /\ sub' = [sub EXCEPT ![h] = "idle"]
  /\ IF Entry = None THEN UNCHANGED <<conn, members>>
     ELSE LET set == conn[Entry].handlers IN
          /\ members' = [members EXCEPT ![set] = @ \ {h}]
          /\ conn' = IF members'[set] = {} THEN [conn EXCEPT ![Entry].close = "pending"] ELSE conn
  /\ UNCHANGED <<pool, made, token>>

Send ==
  \/ MakeFresh /\ UNCHANGED <<members, token, sub>>
  \/ RefuseFresh

NobodyListens(i) == Heard(i) = {}

\* Variant: a socket still connecting is forgotten instead of closed on open.
ForgetConnecting(i) ==
  [conn[i] EXCEPT !.close = "fired", !.isClosed = TRUE, !.reconnect = "none",
                  !.ready = IF @ = "open" THEN "closing" ELSE @]

ShutDown(i) ==
  [conn[i] EXCEPT !.close = "fired", !.isClosed = TRUE, !.reconnect = "none",
                  !.ready = IF @ = "open" THEN "closing" ELSE @,
                  !.closeOnOpen = @ \/ conn[i].ready = "connecting"]

CloseTimerFires(i) ==
  /\ conn[i].close = "pending"
  /\ \/ /\ ~NobodyListens(i)
        /\ conn' = [conn EXCEPT ![i].close = "fired"]
        /\ UNCHANGED pool
     \/ /\ NobodyListens(i)
        /\ conn' = [conn EXCEPT ![i] = ShutDown(i)]
        /\ pool' = None
  /\ UNCHANGED <<members, made, token, sub>>

\* The attempt counter of the replacement connection.
AttemptsAfter(i) == conn[i].attempts + 1

\* Variant: the replacement connection gets a handler set of its own.
OwnHandlers(i) == made + 1

\* The handler set of the replacement connection.
SharedHandlers(i) == conn[i].handlers

\* connections.delete(channel)
NoEntry == None

ReconnectTimerFires(i) ==
  /\ conn[i].reconnect = "pending"
  /\ \/ /\ token /\ made < MaxSockets
        /\ made' = made + 1 /\ pool' = made'
        /\ conn' = [conn EXCEPT ![i].reconnect = "fired", ![i].attempts = @ + 1,
                      ![made'] = NewConnection(SharedHandlers(i), AttemptsAfter(i), conn[i].tries + 1)]
        /\ UNCHANGED sub
     \/ /\ ~token
        /\ pool' = NoEntry
        /\ conn' = [conn EXCEPT ![i].reconnect = "fired", ![i].attempts = @ + 1]
        /\ sub' = [h \in Handlers |-> IF h \in Heard(i) THEN "cut" ELSE sub[h]]
        /\ UNCHANGED made
  /\ UNCHANGED <<members, token>>

DisconnectAll ==
  /\ pool # None
  /\ conn' = [conn EXCEPT ![pool].isClosed = TRUE, ![pool].reconnect = "none",
                          ![pool].close = "none",
                          ![pool].ready = IF Live(pool) THEN "closing" ELSE @]
  /\ pool' = None
  /\ sub' = [h \in Handlers |-> IF sub[h] = "subscribed" THEN "cut" ELSE sub[h]]
  /\ UNCHANGED <<members, made, token>>

-----------------------------------------------------------------------------
(***************************************************************************)
(* Socket events.                                                          *)
(***************************************************************************)
\* onopen, then the 'open' listener of a debounced close.
SocketOpens(i) ==
  /\ conn[i].ready = "connecting"
  /\ conn' = [conn EXCEPT ![i].attempts = 0, ![i].tries = 0,
                ![i].ready = IF conn[i].closeOnOpen /\ Heard(i) = {} THEN "closing" ELSE "open"]
  /\ UNCHANGED <<members, pool, made, token, sub>>

\* The server starts the closing handshake.
ServerCloses(i) ==
  /\ conn[i].ready = "open"
  /\ conn' = [conn EXCEPT ![i].ready = "closing"]
  /\ UNCHANGED <<members, pool, made, token, sub>>

WillReconnect(i, clean) ==
  /\ ~conn[i].isClosed /\ Heard(i) # {}
  /\ conn[i].attempts < MaxReconnectAttempts /\ ~clean

\* onclose.  Only a handshake ends clean (code 1000); a drop, a refused or an
\* abandoned connection attempt does not.
SocketCloses(i, clean) ==
  /\ conn[i].ready \in {"connecting", "open", "closing"}
  /\ clean => conn[i].ready = "closing"
  /\ \/ /\ WillReconnect(i, clean)
        /\ conn' = [conn EXCEPT ![i].ready = "closed", ![i].reconnect = "pending"]
        /\ UNCHANGED <<pool, sub>>
     \/ /\ ~WillReconnect(i, clean)
        /\ conn' = [conn EXCEPT ![i].ready = "closed"]
        /\ pool' = None
        /\ sub' = [h \in Handlers |-> IF h \in Heard(i) /\ i = pool /\ sub[h] = "subscribed"
                                      THEN "cut" ELSE sub[h]]
  /\ UNCHANGED <<members, made, token>>

TokenChanges ==
  /\ token' = ~token
  /\ UNCHANGED <<conn, members, pool, made, sub>>

\* getConnectionState
ConnectionState ==
  IF pool = None THEN "disconnected"
  ELSE IF conn[pool].reconnect # "none" THEN "reconnecting"
  ELSE CASE conn[pool].ready = "connecting" -> "connecting"
         [] conn[pool].ready = "open" -> "connected"
         [] OTHER -> "disconnected"

-----------------------------------------------------------------------------
Next ==
  \/ \E h \in Handlers : Subscribe(h) \/ Unsubscribe(h)
  \/ Send \/ DisconnectAll \/ TokenChanges
  \/ \E i \in Sockets :
       \/ CloseTimerFires(i) \/ ReconnectTimerFires(i)
       \/ SocketOpens(i) \/ ServerCloses(i)
       \/ \E clean \in BOOLEAN : SocketCloses(i, clean)

\* Timers fire; a connection attempt and a closing handshake come to an end.
Fairness ==
  \A i \in Sockets :
    /\ WF_vars(CloseTimerFires(i)) /\ WF_vars(ReconnectTimerFires(i))
    /\ WF_vars(SocketOpens(i) \/ \E clean \in BOOLEAN :
                 conn[i].ready # "open" /\ SocketCloses(i, clean))

Spec == Init /\ [][Next]_vars
FairSpec == Spec /\ Fairness

-----------------------------------------------------------------------------
TypeOK ==
  /\ conn \in [Sockets -> Connections]
  /\ members \in [Sockets -> SUBSET Handlers]
  /\ pool \in {None} \cup Sockets /\ made \in 0..MaxSockets
  /\ token \in BOOLEAN
  /\ sub \in [Handlers -> {"idle", "subscribed", "cut"}]

\* The backoff of a channel ends: no more than maxReconnectAttempts sockets in
\* a row are made without one of them opening (lines 138-139).
BackoffIsBounded == \A i \in Sockets : conn[i].tries <= MaxReconnectAttempts

\* A channel is reported as reconnecting only while it is going to: a timer
\* that fired, or that was cleared, leaves no entry behind (lines 141-143).
ReconnectingIsTrue ==
  ConnectionState = "reconnecting" => conn[pool].reconnect = "pending"
=============================================================================

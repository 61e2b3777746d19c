--------------------------- MODULE ChannelHistory ---------------------------
(***************************************************************************)
(* The channel client with a history variable that no action reads: the    *)
(* entry of the channel was taken away from a connection that was in use.  *)
(* connections.delete(channel) names the channel and not the connection,   *)
(* and ensureConnection drops an entry with the handlers it has, so the    *)
(* code does this; what it promises otherwise is stated of every behaviour. *)
(***************************************************************************)
EXTENDS ChannelClient

VARIABLE crossed

\* A connection that lives, has handlers, or will be replaced.
InUse(i) == Live(i) \/ Heard(i) # {} \/ conn'[i].reconnect = "pending"

\* The step closed the connection, gave it up or replaced it.
Ended(i) ==
  conn'[i].isClosed \/ conn'[i].ready # conn[i].ready \/ conn'[i].reconnect = "fired"

\* An older connection closed, or one of its timers fired.
OfAnother == \E i \in 1..made : i # pool /\ conn'[i] # conn[i]

\* The entry leaves the map, or makes room for another, and its connection was
\* in use: by what another connection did, or because somebody subscribed or
\* sent while the socket was closing or waited to be replaced.
Crosses ==
  /\ pool # None /\ pool' # pool
  /\ InUse(pool) /\ ~Ended(pool) /\ (Live(pool) => OfAnother)

\* Nothing of the channel is left, on the page or on the wire.
Left ==
  /\ pool = None /\ \A h \in Handlers : sub[h] # "subscribed"
  /\ \A i \in Sockets : /\ conn[i].ready \in {"unmade", "closed"}
                        /\ "pending" \notin {conn[i].reconnect, conn[i].close}

Records == crossed' = ((crossed \/ Crosses) /\ ~Left')

HistoryInit == Init /\ crossed = FALSE
HistorySpec == HistoryInit /\ [][Next /\ Records]_<<vars, crossed>>
FairHistorySpec == HistorySpec /\ Fairness

-----------------------------------------------------------------------------
\* ONE connection PER channel (lines 4-6, 10-11): the only socket that is
\* connecting or open is the pool's, but for one that only waits to be open to
\* be closed.
OneConnectionPerChannel ==
  ~crossed => \A i \in Sockets : Live(i) /\ ~conn[i].closeOnOpen => i = pool

\* The handlers a channel calls are its subscribers (lines 11-13): one that the
\* client did not give up is in the set of the channel's entry, across drops,
\* reconnections and debounced closes, and one that unsubscribed is called by
\* no socket any more.
SubscribersAreHeard ==
  ~crossed =>
    \A h \in Handlers :
      /\ sub[h] = "subscribed" => pool # None /\ h \in Heard(pool)
      /\ sub[h] = "idle" =>
           \A i \in Sockets : conn[i].ready = "open" => h \notin Heard(i)

\* Connections are numbered as they are made, and nobody is in a handler set
\* before its connection is there.
Numbered ==
  /\ pool <= made
  /\ \A i \in Sockets :
       IF i > made THEN conn[i].ready = "unmade" /\ conn[i].close = "none" /\ members[i] = {}
       ELSE conn[i].ready # "unmade" /\ conn[i].handlers <= made

\* A reconnect timer runs only where a socket closed with attempts left, and
\* what a connection counts is what was tried since one opened.
TimerIsTrue(c) ==
  /\ c.ready # "closed" \/ c.reconnect = "pending" => c.tries = c.attempts
  /\ c.reconnect = "pending" => c.attempts < MaxReconnectAttempts
  /\ c.reconnect # "none" => c.ready = "closed"

\* What no crossing disturbs.
PoolInv ==
  /\ TypeOK /\ Numbered /\ BackoffIsBounded
  /\ \A i \in Sockets : TimerIsTrue(conn[i])
  /\ pool # None => ~conn[pool].isClosed /\ conn[pool].reconnect # "fired"

\* A connection that is not the entry was given up: it is on its way to be
\* closed, nobody will join it, and its end reconnects nobody.
GivenUp(i) ==
  /\ conn[i].ready # "open" /\ conn[i].reconnect # "pending"
  /\ conn[i].ready = "connecting" => conn[i].closeOnOpen /\ Heard(i) = {}
  /\ conn[i].ready \in {"connecting", "closing"} =>
       /\ conn[i].isClosed \/ Heard(i) = {}
       /\ pool # None => conn[i].handlers # conn[pool].handlers

Subscribed == {h \in Handlers : sub[h] = "subscribed"}

\* The entry calls the subscribers, and is closed only while it waits to be
\* replaced.
EntryIsTrue ==
  /\ Heard(pool) = Subscribed /\ ~conn[pool].closeOnOpen
  /\ conn[pool].reconnect = IF conn[pool].ready = "closed" THEN "pending" ELSE "none"

\* Why a channel has one connection that hears its subscribers.
EntryInv ==
  /\ \A i \in Sockets \ {pool} : GivenUp(i)
  /\ IF pool = None THEN Subscribed = {} ELSE EntryIsTrue

ChannelInv == PoolInv /\ (~crossed => EntryInv)

\* After the last handler left, the socket goes too, also one that was still
\* connecting or that a reconnect timer made meanwhile (lines 203-224), unless
\* somebody came back in time or the entry was taken away.
IdleSocketCloses ==
  \A i \in Sockets :
    conn[i].close = "pending" ~>
      \/ crossed \/ Heard(i) # {}
      \/ \A j \in Sockets : conn[j].handlers = conn[i].handlers => ~Live(j)

\* While somebody stays subscribed and is not given up, the channel comes back:
\* it does not stay without a socket that is open or on its way.
SubscribersReconnect ==
  [](\A h \in Handlers : sub[h] = "subscribed" =>
       <>(sub[h] # "subscribed" \/ crossed \/ made = MaxSockets
          \/ \E i \in Sockets : conn[i].ready = "open" /\ h \in Heard(i)))
=============================================================================

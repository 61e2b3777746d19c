--------------------------- MODULE RealtimeClient ---------------------------
(***************************************************************************)
(* The realtime data-event client (packages/websocket/src/realtime.ts) on  *)
(* its own socket, the boards that refetch on its events                   *)
(* (useRealtimeTick and DynamicKanban's fetchData in packages/runtime-     *)
(* react) and, from the wire protocol realtime.ts documents, the hub.      *)
(*                                                                         *)
(* A board shows a version of every model it lists.  Events carry no row   *)
(* values, so the only way to a newer version is a refetch, and a change   *)
(* nobody tells the board about stays unseen: the client counts the        *)
(* subscriptions of the page, subscribes the socket to their union, and    *)
(* asks everybody to refetch when frames were lost.                        *)
(***************************************************************************)
EXTENDS Integers, Sequences, SequencesExt, FiniteSets

CONSTANTS
  Models,       \* model keys, trimmed and lower-cased
  Boards,       \* the subscribers of the page
  Watches,      \* how often a board's list names a model
  MaxChanges,   \* bound: row changes on the server
  MaxDrops,     \* bound: sockets lost
  MaxFrames,    \* bound: frames travelling
  MaxFetches,   \* bound: refetches in flight
  MaxAttempts   \* maxReconnectAttempts

ASSUME WatchesAssumption == Watches \in [Boards -> [Models -> Nat]]
ASSUME BoundsAssumption ==
  {MaxChanges, MaxDrops, MaxFrames, MaxFetches} \subseteq Nat /\ MaxAttempts \in Nat \ {0}

VARIABLES
  subscriptions, \* boards with an active subscription
  counts,        \* modelCounts: references per model (0: no entry)
  acked,         \* models of the last DATA_SUBSCRIBED
  everOpened,
  closed,
  ws,            \* the socket: none, connecting, open, closing
  timer,         \* a reconnect is scheduled
  attempts,
  refused,       \* the hub closed the socket with 1008
  up, down,      \* frames on the wire, to and from the hub
  hub,           \* models the hub forwards to this socket
  version,       \* of every model, on the server
  drops,
  due,           \* boards whose debounce timer runs
  fetches,       \* refetches of a board in flight, in the order they left
  seen,          \* what a board shows
  failed         \* boards whose last answered refetch failed

clientVars    == <<subscriptions, counts, acked, everOpened, closed>>
transportVars == <<ws, timer, attempts, refused, drops>>
wireVars      == <<up, down, hub>>
boardVars     == <<due, fetches, seen, failed>>
vars == <<clientVars, transportVars, wireVars, version, boardVars>>

-----------------------------------------------------------------------------
(***************************************************************************)
(* Frames and requests.                                                    *)
(***************************************************************************)

Frame(type, models) == [type |-> type, models |-> models]
Frames ==
  [type : {"SUBSCRIBE", "UNSUBSCRIBE", "DATA_SUBSCRIBED", "DATA_EVENT", "DATA_EVENTS_DROPPED"},
   models : SUBSET Models]

Versions == [Models -> 0..MaxChanges]
\* A refetch in flight: what the server read for it, or nothing yet.
Asked == {}

Names(b) == {m \in Models : Watches[b][m] > 0}

Init ==
  /\ subscriptions = {} /\ counts = [m \in Models |-> 0] /\ acked = {}
  /\ everOpened = FALSE /\ closed = FALSE
  /\ \/ ws = "connecting" /\ timer = FALSE /\ attempts = 0
     \/ ws = "none" /\ timer = TRUE /\ attempts = 1   \* no token yet
  /\ refused = FALSE /\ drops = 0
  /\ up = <<>> /\ down = <<>> /\ hub = {}
  /\ version = [m \in Models |-> 0]
  /\ due = {} /\ fetches = [b \in Boards |-> <<>>]
  /\ seen = [b \in Boards |-> [m \in Models |-> 0]] /\ failed = {}

-----------------------------------------------------------------------------
(***************************************************************************)
(* The client.                                                             *)
(***************************************************************************)

\* transport.isOpen(): a socket that is closing is not open any more.
IsOpen == ws = "open"

\* send: dropped without models or without an open socket.
Sent(type, models) ==
  IF models # {} /\ IsOpen THEN Append(up, Frame(type, models)) ELSE up

OnTheWire == Len(up) + Len(down)

\* A board mounts: its subscription counts every entry of its list, and the
\* first reference to a model is announced.
Mount(b) ==
  LET added == {m \in Names(b) : counts[m] = 0}
  IN /\ ~closed /\ b \notin subscriptions /\ OnTheWire < MaxFrames
     /\ subscriptions' = subscriptions \cup {b}
     /\ counts' = [m \in Models |-> counts[m] + Watches[b][m]]
     /\ up' = Sent("SUBSCRIBE", added)
     /\ due' = due \cup {b}
     /\ UNCHANGED <<acked, everOpened, closed, transportVars, down, hub, version,
                    fetches, seen, failed>>

\* Variant: a model is given up with its first listener.
ReleasedEagerly(b) == Names(b)

\* Models that lose their last reference with b.
Released(b) == {m \in Names(b) : counts[m] - Watches[b][m] <= 0}

\* A board unmounts: the function subscribe returned, and the timers' cleanup.
Unmount(b) ==
  /\ b \in subscriptions /\ OnTheWire < MaxFrames
  /\ subscriptions' = subscriptions \ {b}
  /\ counts' = [m \in Models |-> IF m \in Released(b) THEN 0 ELSE counts[m] - Watches[b][m]]
  /\ up' = Sent("UNSUBSCRIBE", Released(b))
  /\ due' = due \ {b}
  /\ fetches' = [fetches EXCEPT ![b] = <<>>] /\ failed' = failed \ {b}
  /\ UNCHANGED <<acked, everOpened, closed, transportVars, down, hub, version, seen>>

Counted == {m \in Models : counts[m] > 0}

\* dispatch of a data event: the boards that list its model.
Listeners(m) == {b \in subscriptions : m \in Names(b)}

\* Variant: a notice goes to the models the hub confirmed last.
ResyncedAcked == {b \in subscriptions : Names(b) \cap acked # {}}

\* resyncAll: one event per counted model; a board without models takes any.
Resynced ==
  IF Counted = {} THEN {}
  ELSE {b \in subscriptions : Names(b) = {} \/ Names(b) \cap Counted # {}}

\* onFrame
Receive ==
  /\ IsOpen /\ down # <<>>
  /\ down' = Tail(down)
  /\ LET frame == Head(down)
     IN \/ /\ frame.type = "DATA_EVENT"
           /\ due' = due \cup UNION {Listeners(m) : m \in frame.models}
           /\ UNCHANGED acked
        \/ /\ frame.type = "DATA_SUBSCRIBED"
           /\ acked' = frame.models
           /\ UNCHANGED due
        \/ /\ frame.type = "DATA_EVENTS_DROPPED"
           /\ due' = due \cup Resynced
           /\ UNCHANGED acked
  /\ UNCHANGED <<subscriptions, counts, everOpened, closed, transportVars, up, hub,
                 version, fetches, seen, failed>>

\* What the open handler announces.
Announced == Counted

\* Variant: reconnecting asks nobody to refetch.
ResyncedNever == {}

\* onOpen: announce everything; after a gap, everybody refetches.
ResyncedOnOpen == IF everOpened THEN Resynced ELSE {}

SocketOpens ==
  /\ ws = "connecting"
  /\ ws' = "open" /\ attempts' = 0
  /\ up' = IF Announced # {} THEN <<Frame("SUBSCRIBE", Announced)>> ELSE <<>>
  /\ due' = due \cup ResyncedOnOpen
  /\ everOpened' = TRUE
  /\ UNCHANGED <<subscriptions, counts, acked, closed, timer, refused, drops, down, hub,
                 version, fetches, seen, failed>>

Close ==
  /\ ~closed
  /\ closed' = TRUE /\ subscriptions' = {} /\ counts' = [m \in Models |-> 0]
  /\ ws' = "none" /\ timer' = FALSE
  /\ up' = <<>> /\ down' = <<>> /\ hub' = {}
  /\ UNCHANGED <<acked, everOpened, attempts, refused, drops, version, boardVars>>

-----------------------------------------------------------------------------
(***************************************************************************)
(* The socket transport.                                                   *)
(***************************************************************************)

\* schedule
Schedule ==
  IF attempts >= MaxAttempts THEN timer' = FALSE /\ UNCHANGED attempts
  ELSE timer' = TRUE /\ attempts' = attempts + 1

\* connect, from the timer: a new socket, or another wait without a token.
TimerFires ==
  /\ timer
  /\ \/ ws' = "connecting" /\ timer' = FALSE /\ UNCHANGED attempts
     \/ Schedule /\ UNCHANGED ws
  /\ UNCHANGED <<clientVars, refused, drops, wireVars, version, boardVars>>

\* The hub's close frame arrives, after every frame it sent before.
HubCloses ==
  /\ ws = "open" /\ down = <<>> /\ drops < MaxDrops
  /\ ws' = "closing" /\ drops' = drops + 1
  /\ UNCHANGED <<clientVars, timer, attempts, refused, wireVars, version, boardVars>>

\* onclose for any code but 1008
Reconnect == Schedule

\* onclose: frames on the wire and the hub's connection are gone.  1008
\* (channel and organization do not match) is final.
SocketCloses ==
  /\ ws = "closing" \/ (ws \in {"connecting", "open"} /\ drops < MaxDrops)
  /\ drops' = IF ws = "closing" THEN drops ELSE drops + 1
  /\ ws' = "none"
  /\ up' = <<>> /\ down' = <<>> /\ hub' = {}
  /\ \/ Reconnect /\ UNCHANGED refused
     \/ ws = "closing" /\ refused' = TRUE /\ UNCHANGED <<timer, attempts>>
  /\ UNCHANGED <<clientVars, version, boardVars>>

-----------------------------------------------------------------------------
(***************************************************************************)
(* The hub and the rows behind it.                                         *)
(***************************************************************************)

Apply(models, frame) ==
  IF frame.type = "SUBSCRIBE" THEN models \cup frame.models ELSE models \ frame.models

HubReceives ==
  /\ IsOpen /\ up # <<>>
  /\ up' = Tail(up)
  /\ hub' = Apply(hub, Head(up))
  /\ down' = IF Head(up).type = "SUBSCRIBE"
             THEN Append(down, Frame("DATA_SUBSCRIBED", hub')) ELSE down
  /\ UNCHANGED <<clientVars, transportVars, version, boardVars>>

\* A row changes: the hub forwards the event, or reports that it dropped it.
Change(m) ==
  /\ version[m] < MaxChanges
  /\ version' = [version EXCEPT ![m] = @ + 1]
  /\ \/ /\ IsOpen /\ m \in hub /\ OnTheWire < MaxFrames
        /\ \E type \in {"DATA_EVENT", "DATA_EVENTS_DROPPED"} :
              down' = Append(down, Frame(type, {m}))
     \/ ~(IsOpen /\ m \in hub) /\ UNCHANGED down
  /\ UNCHANGED <<clientVars, transportVars, up, hub, boardVars>>

-----------------------------------------------------------------------------
(***************************************************************************)
(* The boards.                                                             *)
(***************************************************************************)

InFlight == UNION {{b} \X DOMAIN fetches[b] : b \in Boards}

\* The debounce timers (300 ms of the tick, 200 ms of the effect) end in
\* fetchData.
TickFires(b) ==
  /\ b \in due /\ Cardinality(InFlight) < MaxFetches
  /\ due' = due \ {b}
  /\ fetches' = [fetches EXCEPT ![b] = Append(@, Asked)]
  /\ UNCHANGED <<clientVars, transportVars, wireVars, version, seen, failed>>

\* The rows of the models a board lists.
Rows(b) == [m \in Models |-> IF m \in Names(b) THEN version[m] ELSE 0]

\* The server reads the rows of a refetch.
FetchReads(b, i) ==
  /\ fetches[b][i] = Asked
  /\ fetches' = [fetches EXCEPT ![b][i] = {Rows(b)}]
  /\ UNCHANGED <<clientVars, transportVars, wireVars, version, due, seen, failed>>

\* Its answer lands: setRecords, whichever refetch it belongs to.
FetchLands(b, i) ==
  /\ \E rows \in fetches[b][i] : seen' = [seen EXCEPT ![b] = rows]
  /\ fetches' = [fetches EXCEPT ![b] = RemoveAt(@, i)] /\ failed' = failed \ {b}
  /\ UNCHANGED <<clientVars, transportVars, wireVars, version, due>>

\* A failed refetch is logged; the board keeps what it shows.
FetchFails(b, i) ==
  /\ fetches' = [fetches EXCEPT ![b] = RemoveAt(@, i)] /\ failed' = failed \cup {b}
  /\ UNCHANGED <<clientVars, transportVars, wireVars, version, due, seen>>

BoardNext ==
  \E b \in Boards :
     \/ Mount(b) \/ Unmount(b) \/ TickFires(b)
     \/ \E i \in DOMAIN fetches[b] : FetchReads(b, i) \/ FetchLands(b, i) \/ FetchFails(b, i)

Next ==
  \/ BoardNext
  \/ Receive \/ SocketOpens \/ Close
  \/ TimerFires \/ HubCloses \/ SocketCloses
  \/ HubReceives \/ (\E m \in Models : Change(m))

Spec == Init /\ [][Next]_vars

\* Timers fire, a socket that is being made opens unless it fails, closing
\* handshakes end, frames and answers arrive.  Nothing has to mount, close,
\* change or fail.
Fairness ==
  /\ WF_vars(TimerFires) /\ WF_vars(SocketOpens) /\ WF_vars(ws = "closing" /\ SocketCloses)
  /\ WF_vars(Receive) /\ WF_vars(HubReceives)
  /\ \A b \in Boards :
        /\ WF_vars(TickFires(b))
        /\ WF_vars(\E i \in DOMAIN fetches[b] : FetchReads(b, i))
        /\ WF_vars(\E i \in DOMAIN fetches[b] : FetchLands(b, i))

FairSpec == Spec /\ Fairness

-----------------------------------------------------------------------------
(***************************************************************************)
(* Properties.                                                             *)
(***************************************************************************)

\* State is well typed, and no more attempts are counted than allowed.
TypeOK ==
  /\ subscriptions \subseteq Boards /\ counts \in [Models -> Nat]
  /\ acked \subseteq Models /\ {everOpened, closed} \subseteq BOOLEAN
  /\ ws \in {"none", "connecting", "open", "closing"}
  /\ {timer, refused} \subseteq BOOLEAN /\ attempts \in 0..MaxAttempts
  /\ up \in Seq(Frames) /\ down \in Seq(Frames) /\ hub \subseteq Models
  /\ version \in Versions /\ drops \in 0..MaxDrops
  /\ {due, failed} \subseteq SUBSET Boards /\ seen \in [Boards -> Versions]
  /\ fetches \in [Boards -> Seq({Asked} \cup {{rows} : rows \in Versions})]

\* What the hub forwards once it read the frames on the wire: of every model,
\* what the last frame that names it says.
WillForward ==
  {m \in Models :
     \/ m \in hub /\ \A i \in DOMAIN up : m \notin up[i].models
     \/ \E i \in DOMAIN up :
          /\ up[i].type = "SUBSCRIBE" /\ m \in up[i].models
          /\ \A j \in DOMAIN up : j > i => m \notin up[j].models}

\* The models some mounted board lists.
Wanted == UNION {Names(b) : b \in subscriptions}

\* "the server only ever forwards what somebody on this page is listening to"
\* (realtime.ts 14-15), and all of it: what the hub will forward is the union
\* of the lists of the mounted boards, across overlapping lists, duplicates,
\* remounts and reconnections.
HubHearsThePage == IsOpen => WillForward = Wanted

\* The references of a model: every mention of it by a mounted board.
References(m) == UNION {{b} \X (1..Watches[b][m]) : b \in subscriptions}

\* The counters are the references, the timer runs only without a socket, and
\* what is on the wire belongs to a socket that opened.
PageInv ==
  /\ TypeOK
  /\ \A m \in Models : IsFiniteSet(References(m)) /\ counts[m] = Cardinality(References(m))
  /\ timer => ws = "none"
  /\ ws \in {"none", "connecting"} => up = <<>> /\ down = <<>> /\ hub = {}
  /\ ws \in {"open", "closing"} => everOpened
  /\ HubHearsThePage

\* Frames were lost: the socket is back after a gap, or the hub dropped some.
LostFrames ==
  \/ everOpened /\ ws = "connecting" /\ ws' = "open"
  \/ /\ down # <<>> /\ Head(down).type = "DATA_EVENTS_DROPPED"
     /\ IsOpen /\ down' = Tail(down) /\ subscriptions # {} /\ ws' = "open"

\* Whoever subscribed refetches when frames were lost, also a subscriber
\* without models, who listens for just that (sdk/src/realtime.ts 62), unless
\* nobody on the page lists a model: resyncAll tells nobody then.
EveryoneHearsOfAGap ==
  [][LostFrames => \A b \in subscriptions : (Names(b) # {} \/ Counted # {}) => b \in due']_vars

\* The transport gave up, and for a reason.
GaveUp == ws = "none" /\ ~timer /\ (closed \/ refused \/ attempts >= MaxAttempts)

\* A socket that was lost is replaced, unless the transport gives up.
Reconnects == ws = "none" ~> (ws = "open" \/ GaveUp)
=============================================================================

------------------------- MODULE WebSocketProvider -------------------------
(***************************************************************************)
(* WebSocketProvider of packages/websocket/src/provider.tsx with a         *)
(* getToken, so that every connect() waits for its token.                  *)
(*                                                                         *)
(* Several connects may wait at once, each with the url it read when it    *)
(* began.  A socket is kept while its handlers are set: one that was torn  *)
(* down, or that closed, is of no more consequence.  Urls are numbered, 0  *)
(* is no url.                                                              *)
(*                                                                         *)
(* Names that ChannelClient has too begin with Provider, so that a module  *)
(* may extend both.                                                        *)
(***************************************************************************)
EXTENDS Naturals, FiniteSets

CONSTANTS
    Urls,         \* values of the url prop other than null
    MaxAttempts,  \* maxReconnectAttempts
    MaxMoves,     \* bound: changes of url, disconnect() and reconnect() calls
    MaxCalls,     \* bound: connects that wait for a token at once
    MaxSkips      \* bound: urls that buildUrl refuses

ASSUME ProviderAssumption ==
    /\ Urls \subseteq Nat \ {0}
    /\ MaxAttempts \in Nat /\ MaxMoves \in Nat /\ MaxCalls \in Nat \ {0} /\ MaxSkips \in Nat

VARIABLES
    url,       \* the url prop (the last one after the unmount), 0 when it is null
    mounted,   \* the provider is mounted
    calls,     \* connects that wait for their token, by url
    sockets,   \* sockets whose handlers are set, not closed yet
    ws,        \* wsRef: the number of a socket, 0 for null
    timer,     \* reconnectTimerRef is set
    attempts,  \* reconnectAttemptsRef
    manual,    \* manualCloseRef
    beat,      \* heartbeatTimerRef is set
    status,    \* the status shown
    moves,     \* counter
    skips,     \* counter
    off        \* ghost: "no", or how disconnect() or the unmount found the provider

providerVars == <<url, mounted, calls, sockets, ws, timer, attempts, manual, beat, status, moves, skips, off>>

Numbers == 1..2
ProviderSockets == [n : Numbers, url : Urls, open : BOOLEAN]
Waiting == {u \in Urls : calls[u] > 0}

ProviderInit ==
    /\ url = 0 /\ mounted = TRUE /\ calls = [u \in Urls |-> 0]
    /\ sockets = {} /\ ws = 0
    /\ timer = FALSE /\ attempts = 0 /\ manual = FALSE /\ beat = FALSE
    /\ status = "CLOSED" /\ moves = 0 /\ skips = 0 /\ off = "idle"

---------------------------------------------------------------------------
\* connect, up to the await: the url is read now, the token comes later.
Connect(u) == calls[u] < MaxCalls /\ calls' = [calls EXCEPT ![u] = @ + 1]

\* Variant: the socket that is replaced keeps its handlers.
TornLoose == sockets

\* teardownSocket: the current socket loses its handlers and is closed.
Torn == {s \in sockets : s.n # ws}

\* Variant: a timer is set only once.
ScheduleFirst == timer' = (timer \/ attempts = 0)

\* scheduleReconnect: nothing once the attempts are exhausted.
Schedule == timer' = (timer \/ attempts < MaxAttempts)

\* What disconnect() and the cleanup of the effect share.
Stop == manual' = TRUE /\ timer' = FALSE /\ beat' = FALSE /\ sockets' = Torn /\ ws' = 0

\* A ghost step: turned off, with or without connects still waiting.
TurnedOff == off' = IF Waiting = {} THEN "idle" ELSE "busy"

Moved == mounted /\ moves < MaxMoves /\ moves' = moves + 1

\* The url prop changes: the cleanup of the old one, then the effect connects
\* or disconnects.
SetUrl(u) ==
    /\ Moved /\ u # url /\ url' = u /\ Stop
    /\ \/ u # 0 /\ Connect(u) /\ attempts' = 0 /\ off' = "no" /\ UNCHANGED status
       \/ u = 0 /\ status' = "CLOSED" /\ TurnedOff /\ UNCHANGED <<calls, attempts>>
    /\ UNCHANGED <<mounted, skips>>

\* The provider is unmounted: the cleanup alone.
Unmount ==
    /\ Moved /\ mounted' = FALSE /\ Stop /\ TurnedOff
    /\ UNCHANGED <<url, calls, attempts, status, skips>>

Disconnect ==
    /\ Moved /\ url # 0 /\ Stop /\ status' = "CLOSED" /\ TurnedOff
    /\ UNCHANGED <<url, mounted, calls, attempts, skips>>

Reconnect ==
    /\ Moved /\ url # 0 /\ Connect(url)
    /\ timer' = FALSE /\ attempts' = 0 /\ off' = "no"
    /\ UNCHANGED <<url, mounted, sockets, ws, manual, beat, status, skips>>

\* connect, from the await on: the token is there (or getToken failed), and
\* nothing else is looked at again.  buildUrl may refuse the url, the
\* constructor may throw.
TokenArrives(u) ==
    /\ calls[u] > 0 /\ calls' = [calls EXCEPT ![u] = @ - 1]
    /\ \/ /\ skips < MaxSkips /\ skips' = skips + 1 /\ status' = "CLOSED"
          /\ UNCHANGED <<sockets, ws, timer, manual>>
       \/ /\ manual' = FALSE /\ status' = "CONNECTING"
          /\ \E n \in Numbers :
                /\ \A s \in Torn : s.n # n
                /\ \A m \in 1..(n - 1) : \E s \in Torn : s.n = m
                /\ sockets' = Torn \cup {[n |-> n, url |-> u, open |-> FALSE]} /\ ws' = n
          /\ UNCHANGED <<timer, skips>>
       \/ /\ manual' = FALSE /\ status' = "CLOSED" /\ sockets' = Torn /\ ws' = 0 /\ Schedule
          /\ UNCHANGED skips
    /\ UNCHANGED <<url, mounted, attempts, beat, moves, off>>

\* Variant: every close stops the heartbeat, an opening does not start it again.
OpenedOnce(s) ==
    /\ s \in sockets /\ ~s.open
    /\ sockets' = (sockets \ {s}) \cup {[s EXCEPT !.open = TRUE]}
    /\ attempts' = 0 /\ status' = "OPEN" /\ beat' = (beat \/ attempts = 0)
    /\ UNCHANGED <<url, mounted, calls, ws, timer, manual, moves, skips, off>>

\* onopen.
Opened(s) ==
    /\ s \in sockets /\ ~s.open
    /\ sockets' = (sockets \ {s}) \cup {[s EXCEPT !.open = TRUE]}
    /\ attempts' = 0 /\ status' = "OPEN" /\ beat' = TRUE
    /\ UNCHANGED <<url, mounted, calls, ws, timer, manual, moves, skips, off>>

\* Variant: the status is left to the reconnection.
ClosedQuietly(s) ==
    /\ s \in sockets /\ sockets' = sockets \ {s}
    /\ beat' = FALSE
    /\ IF manual THEN status' = "CLOSED" /\ UNCHANGED timer ELSE Schedule /\ UNCHANGED status
    /\ UNCHANGED <<url, mounted, calls, ws, attempts, manual, moves, skips, off>>

\* onclose, of a socket that never opened or that the network or the server
\* closed.
Closed(s) ==
    /\ s \in sockets /\ sockets' = sockets \ {s}
    /\ beat' = FALSE /\ status' = "CLOSED"
    /\ IF manual THEN UNCHANGED timer ELSE Schedule
    /\ UNCHANGED <<url, mounted, calls, ws, attempts, manual, moves, skips, off>>

\* The reconnect timer: one more attempt, with the url of now.
Timer ==
    /\ timer /\ timer' = FALSE /\ attempts' = attempts + 1
    /\ IF url = 0 THEN status' = "CLOSED" /\ UNCHANGED calls
                  ELSE Connect(url) /\ UNCHANGED status
    /\ UNCHANGED <<url, mounted, sockets, ws, manual, beat, moves, skips, off>>

ProviderNext ==
    \/ \E u \in {0} \cup Urls : SetUrl(u)
    \/ Unmount \/ Disconnect \/ Reconnect \/ Timer
    \/ \E u \in Urls : TokenArrives(u)
    \/ \E s \in ProviderSockets : Opened(s) \/ Closed(s)

ProviderSpec == ProviderInit /\ [][ProviderNext]_providerVars

\* Timers fire, tokens arrive or fail, and a socket opens or fails.
ProviderFairSpec ==
    /\ ProviderSpec /\ WF_providerVars(Timer)
    /\ \A u \in Urls : WF_providerVars(TokenArrives(u))
    /\ WF_providerVars(\E s \in ProviderSockets : ~s.open /\ (Opened(s) \/ Closed(s)))

---------------------------------------------------------------------------
(* Properties.                                                             *)

ProviderTypeOK ==
    /\ url \in {0} \cup Urls /\ calls \in [Urls -> 0..MaxCalls]
    /\ sockets \subseteq ProviderSockets
    /\ ws \in {0} \cup Numbers
    /\ timer \in BOOLEAN /\ manual \in BOOLEAN /\ beat \in BOOLEAN
    /\ attempts \in 0..MaxAttempts
    /\ status \in {"CLOSED", "CONNECTING", "OPEN"}
    /\ moves \in 0..MaxMoves /\ skips \in 0..MaxSkips
    /\ off \in {"no", "idle", "busy"}

\* However many connects overlap (the effect, reconnect(), the timer), one
\* socket has handlers, the one that send() uses: no message is dispatched
\* twice and no closing socket reconnects on behalf of another.
OneSocket == \A s \in sockets : s.n = ws

\* An open socket is kept alive by the heartbeat and its drop is answered by
\* a reconnection: nothing but the manual close of this provider disarms it.
OpenIsKept == \A s \in sockets : s.open => (beat /\ ~manual)

\* The provider shows OPEN only with an open socket, or while a connect that
\* replaces the socket waits for its token.
OpenIsTrue == status = "OPEN" => ((\E s \in sockets : s.open) \/ Waiting # {} \/ ~mounted)

\* Turned off with nothing waiting, it stays off: no timer brings it back.
StaysOffIdle == off = "idle" => (sockets = {} /\ ~timer)

\* The same, claimed of every disconnect() and unmount.
StaysOff == off # "no" => sockets = {}

\* A provider that lost its socket gets one, exhausts its attempts or is
\* told to stop; a url refused by buildUrl ends the attempts as well.
Recovers ==
    (url # 0 /\ off = "no" /\ sockets = {})
        ~> (\/ \E s \in sockets : s.open
            \/ attempts = MaxAttempts /\ ~timer /\ Waiting = {}
            \/ off # "no" \/ skips > 0)
=============================================================================

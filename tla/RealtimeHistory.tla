-------------------------- MODULE RealtimeHistory ---------------------------
(***************************************************************************)
(* The realtime client with a history variable that no action reads: the   *)
(* boards that something happened to which the code has no answer for, so  *)
(* that what it does promise can be stated of every behaviour.             *)
(***************************************************************************)
EXTENDS RealtimeClient

\* Boards of which, since their last refetch left, a model changed before the
\* hub knew of them, or a refetch was answered before an older one.
VARIABLE unsure

\* The hub knows of the boards that list m, or the page will refetch when the
\* socket is back.  Not so before the first open, nor between a SUBSCRIBE and
\* its arrival.
Joined(m) == m \in hub \/ (everOpened /\ ~IsOpen)

Unheard(b) == \E m \in Names(b) : version'[m] # version[m] /\ ~Joined(m)
Overtaken(b) == Len(fetches'[b]) < Len(fetches[b]) /\ fetches'[b] # Tail(fetches[b])
Refetches(b) == Len(fetches'[b]) > Len(fetches[b])

Records ==
  unsure' = {b \in subscriptions' : (b \in unsure \/ Unheard(b) \/ Overtaken(b)) /\ ~Refetches(b)}

HistoryInit == Init /\ unsure = {}
HistorySpec == HistoryInit /\ [][Next /\ Records]_<<vars, unsure>>
FairHistorySpec == HistorySpec /\ Fairness

-----------------------------------------------------------------------------
\* The page is at rest: connected, nothing on the wire, nothing to fetch.
AtRest ==
  /\ IsOpen /\ up = <<>> /\ down = <<>>
  /\ due = {} /\ \A b \in Boards : fetches[b] = <<>>

\* A page at rest shows every change of the models it lists: a refetch
\* follows every change that an event, a gap or a dropped frame stands for,
\* whatever the changes before.  A board whose last refetch failed keeps its
\* rows (nothing retries it), and nobody vouches for one that is unsure.
NothingMissed ==
  AtRest => \A b \in subscriptions \ (failed \cup unsure) : \A m \in Names(b) : seen[b][m] = version[m]

\* A frame on its way to the page stands for a change of m.
TellsOf(m) ==
  \E i \in DOMAIN down :
    \/ down[i].type = "DATA_EVENT" /\ m \in down[i].models
    \/ down[i].type = "DATA_EVENTS_DROPPED"

\* A board shows the current m, or its last refetch brings it or failed, or
\* another refetch is due, or somebody is about to tell it to refetch.
OnItsWay(b, m) ==
  \/ b \in due \/ TellsOf(m) \/ (everOpened /\ ~IsOpen)
  \/ fetches[b] # <<>> /\ \A rows \in fetches[b][Len(fetches[b])] : rows[m] = version[m]
  \/ fetches[b] = <<>> /\ (b \in failed \/ seen[b][m] = version[m])

\* Why a page at rest missed nothing.
CatchUpInv == \A b \in subscriptions \ unsure : \A m \in Names(b) : OnItsWay(b, m)

\* A board that shows an older version of a model it lists.
Behind(b) == b \in subscriptions /\ \E m \in Names(b) : seen[b][m] < version[m]

\* A board that is behind catches up, whatever is lost on the way, unless its
\* refetch fails, it is unsure or the transport gives up.
CatchesUp == \A b \in Boards : Behind(b) ~> (~Behind(b) \/ b \in failed \cup unsure \/ GaveUp)
=============================================================================

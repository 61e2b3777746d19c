------------------------- MODULE OptimisticMutation -------------------------
(***************************************************************************)
(* useOptimisticMutation (packages/runtime-react/src/                      *)
(* use-optimistic-mutation.ts): an optimistic write over one entry of the  *)
(* TanStack Query cache, with debounce, coalescing, rollback and retry.    *)
(*                                                                         *)
(* The hook's refs and state are the variables of the first group.  The    *)
(* cache entry, the mutation scope and the background refetch belong to    *)
(* TanStack Query, the resource to the server: they are modelled from how  *)
(* the hook uses them.  The last group are history variables.              *)
(***************************************************************************)
EXTENDS Naturals, Sequences

CONSTANTS
  Me,               \* this instance of the hook
  Variables,        \* the variables a caller may pass to mutate
  Docs,             \* the values of the resource, hence of the cache entry
  Undefined,        \* JavaScript's undefined
  Null,             \* JavaScript's null
  Optimistic(_, _), \* options.optimistic(current, variables)
  Apply(_, _),      \* the resource after the server applied a write
  Reconcile,        \* options.reconcile = (server) => server; else default
  Debounce,         \* options.debounceMs > 0
  RefetchMayFail,   \* a background refetch may end in an error
  RefetchMidWrite,  \* other parts of the page may refetch during a write
  MaxCalls          \* bound on the calls of mutate that are not ignored

ASSUME DistinctAssumption ==
  /\ Undefined \notin Variables /\ Null \notin Variables
  /\ Undefined \notin Docs /\ Null \notin Docs
  /\ Undefined # Null
ASSUME ApplyAssumption == \A d \in Docs, v \in Variables : Apply(d, v) \in Docs
ASSUME OptimisticAssumption ==
  \A d \in Docs \cup {Undefined}, v \in Variables :
     Optimistic(d, v) \in Docs \cup {Undefined}
ASSUME NullAssumption ==
  \A v \in Variables, n \in 1..MaxCalls :
     Null # [hook |-> Me, variables |-> v, seq |-> n]
ASSUME OptionsAssumption ==
  /\ {Reconcile, Debounce, RefetchMayFail, RefetchMidWrite} \subseteq BOOLEAN
  /\ MaxCalls \in Nat

VARIABLES
  seq,        \* seqRef: number of the latest call
  confirmed,  \* confirmedRef: Null, or the rollback point (maybe Undefined)
  inFlight,   \* inFlightRef: variables of the last write handed to the scope
  queued,     \* queuedRef: the debounced envelope (its timer is pending)
  pending,    \* pendingVariables: variables of the latest unconfirmed call
  failed,     \* failedRef: variables retry() re-sends
  error,      \* an error is shown
  mounted,    \* the component that owns the hook is mounted

  scope,      \* envelopes of the mutation scope in call order; the head runs
  phase,      \* what became of the head: "running", "succeeded", "failed"
  data,       \* the answer to the head, meaningful when it succeeded
  cache,      \* the cache entry of queryKey
  fetch,      \* its refetch: "idle", "asked", "answered"
  fetched,    \* what the refetch read, meaningful when answered
  stale,      \* the entry was invalidated and not refreshed since
  server,     \* the resource on the server

  known,      \* history: the last value of the resource the client was told
  intent,     \* history: variables of the last call, ignored ones included
  lastWrite   \* history: variables of the last write the server applied

hookVars    == <<seq, confirmed, inFlight, queued, pending, failed, error, mounted>>
scopeVars   == <<scope, phase, data>>
cacheVars   == <<cache, fetch, fetched, stale>>
historyVars == <<known, intent, lastWrite>>
vars == <<hookVars, scopeVars, cacheVars, server, historyVars>>

Envelopes == [hook : {Me}, variables : Variables, seq : 1..MaxCalls]
MaybeDoc  == Docs \cup {Undefined}
MaybeVars == Variables \cup {Undefined}

-----------------------------------------------------------------------------
Init ==
  /\ seq = 0 /\ confirmed = Null /\ inFlight = Undefined /\ queued = Null
  /\ pending = Undefined /\ failed = Null /\ error = FALSE /\ mounted = TRUE
  /\ scope = <<>> /\ phase = "running"
  /\ server \in Docs /\ cache \in {server, Undefined}
  /\ fetch = "idle" /\ stale = FALSE
  /\ data = server /\ fetched = server /\ known = server
  /\ intent = Undefined /\ lastWrite = Undefined

(***************************************************************************)
(* The hook's own operations.                                              *)
(***************************************************************************)

\* Variant: the equality check forgets the debounced envelope.
LatestPendingIgnoringQueue == inFlight

\* latestPending = queuedRef.current?.variables ?? inFlightRef.current
LatestPending == IF queued # Null THEN queued.variables ELSE inFlight

\* a ?? b on documents, and setQueryData's "undefined leaves it untouched"
Coalesce(a, b) == IF a = Undefined THEN b ELSE a

\* send: hand an envelope to the scope; it runs when it reaches the head.
Send(envelope) ==
  /\ inFlight' = envelope.variables
  /\ scope' = Append(scope, envelope)

\* Variant: mutate leaves a travelling refetch alone.
CancelNothing == UNCHANGED fetch

\* qc.cancelQueries: a refetch that is travelling is dropped.  Writing the
\* entry by hand also clears its invalidated mark.
CancelRefetch == fetch' = "idle"

\* mutate: patch the cache, then send or (debounced) queue the write.
Issue(v) ==
  LET envelope == [hook |-> Me, variables |-> v, seq |-> seq + 1]
      next     == Optimistic(cache, v)
  IN /\ seq < MaxCalls
     /\ seq' = seq + 1
     /\ confirmed' = IF confirmed = Null THEN cache ELSE confirmed
     /\ CancelRefetch
     /\ cache' = Coalesce(next, cache)
     /\ stale' = IF next = Undefined THEN stale ELSE FALSE
     /\ pending' = v
     /\ error' = FALSE
     /\ failed' = Null
     /\ intent' = v
     /\ \/ /\ Debounce
           /\ queued' = envelope
           /\ UNCHANGED <<inFlight, scope>>
        \/ /\ ~Debounce
           /\ Send(envelope)
           /\ UNCHANGED queued
     /\ UNCHANGED <<mounted, phase, data, fetched, server, known, lastWrite>>

\* A call equal to the latest unconfirmed one returns at once (double click).
IsRepeat(v) == LatestPending # Undefined /\ LatestPending = v

MutateIgnored(v) ==
  /\ intent' = v
  /\ UNCHANGED <<hookVars, scopeVars, cacheVars, server, known, lastWrite>>

Mutate(v) == mounted /\ IF IsRepeat(v) THEN MutateIgnored(v) ELSE Issue(v)

\* retry: mutate(failed.variables), equality check included.
Retry == mounted /\ failed # Null /\ ~IsRepeat(failed) /\ Issue(failed)

\* flush: the debounced envelope leaves, if there is one.
Flush ==
  /\ IF queued = Null THEN UNCHANGED <<inFlight, scope>> ELSE Send(queued)
  /\ queued' = Null
  /\ UNCHANGED <<seq, confirmed, pending, failed, error, phase, data, cacheVars,
                 server, historyVars>>

DebounceFires == queued # Null /\ Flush /\ UNCHANGED mounted

\* Variant: the cleanup effect clears the timer instead of flushing.
UnmountDropsQueue ==
  /\ mounted /\ mounted' = FALSE /\ queued' = Null
  /\ UNCHANGED <<seq, confirmed, inFlight, pending, failed, error, scopeVars,
                 cacheVars, server, historyVars>>

Unmount == mounted /\ Flush /\ mounted' = FALSE

\* Variant: every answer is taken for the latest one.
EveryAnswerIsLatest(envelope) == TRUE

\* latest = seq === seqRef.current && queuedRef.current === null
IsLatest(envelope) == envelope.seq = seq /\ queued = Null

SettleLatest ==
  /\ confirmed' = Null /\ inFlight' = Undefined /\ pending' = Undefined

\* The scope starts the next write once the callbacks of the head have run.
PopScope == scope' = Tail(scope) /\ phase' = "running"

\* An older success only moves the rollback point forward.
RollbackPointAfter(envelope) ==
  IF confirmed = Null THEN Null
  ELSE Coalesce(IF Reconcile THEN data ELSE Optimistic(confirmed, envelope.variables),
                confirmed)

\* Variant: the failed write is not read back.
InvalidateNothing == UNCHANGED <<stale, fetch>>

\* invalidateQueries restarts the refetch of an entry some mounted component
\* reads, and only marks it otherwise (it is refetched on the next mount).
Invalidate ==
  /\ stale' = TRUE
  /\ fetch' \in {"asked"} \cup IF mounted THEN {} ELSE {"idle"}

HeadIsMine == scope # <<>> /\ Head(scope).hook = Me

OnSuccess ==
  /\ HeadIsMine /\ phase = "succeeded"
  /\ \/ /\ IsLatest(Head(scope))
        /\ cache' = IF Reconcile THEN data ELSE cache
        /\ stale' = IF cache' = Undefined THEN stale ELSE FALSE
        /\ SettleLatest
        /\ error' = FALSE
     \/ /\ ~IsLatest(Head(scope))
        /\ confirmed' = RollbackPointAfter(Head(scope))
        /\ UNCHANGED <<cache, stale, inFlight, pending, error>>
  /\ PopScope
  /\ known' = data
  /\ UNCHANGED <<seq, queued, failed, mounted, data, fetch, fetched, server, intent, lastWrite>>

OnError ==
  /\ HeadIsMine /\ phase = "failed"
  /\ \/ /\ IsLatest(Head(scope))
        /\ cache' = IF confirmed \in {Null, Undefined} THEN cache ELSE confirmed
        /\ SettleLatest
        /\ Invalidate
        /\ failed' = Head(scope).variables
        /\ error' = TRUE
     \/ /\ ~IsLatest(Head(scope))
        /\ UNCHANGED <<cache, confirmed, inFlight, pending, stale, fetch, failed, error>>
  /\ PopScope
  /\ UNCHANGED <<seq, queued, mounted, data, fetched, server, historyVars>>

(***************************************************************************)
(* The server answers the head of the scope.  A failure may come before or *)
(* after the write took effect (an answer lost on the way).                *)
(***************************************************************************)
ServerApplies(outcome) ==
  /\ scope # <<>> /\ phase = "running"
  /\ server' = Apply(server, Head(scope).variables)
  /\ data' = server'
  /\ lastWrite' = Head(scope).variables
  /\ phase' = outcome
  /\ UNCHANGED <<hookVars, scope, cacheVars, known, intent>>

ServerRejects ==
  /\ scope # <<>> /\ phase = "running"
  /\ phase' = "failed"
  /\ UNCHANGED <<hookVars, scope, data, cacheVars, server, historyVars>>

ServerAnswers == ServerApplies("succeeded") \/ ServerApplies("failed") \/ ServerRejects

(***************************************************************************)
(* The background refetch of the entry (TanStack Query).                   *)
(***************************************************************************)
\* Window focus, reconnect, another component's mount or invalidation.
RefetchStarts ==
  /\ fetch = "idle"
  /\ RefetchMidWrite \/ pending = Undefined
  /\ fetch' = "asked"
  /\ UNCHANGED <<hookVars, scopeVars, cache, fetched, stale, server, historyVars>>

RefetchReads ==
  /\ fetch = "asked"
  /\ fetch' = "answered" /\ fetched' = server
  /\ UNCHANGED <<hookVars, scopeVars, cache, stale, server, historyVars>>

RefetchLands ==
  /\ fetch = "answered"
  /\ fetch' = "idle" /\ cache' = fetched /\ stale' = FALSE
  /\ known' = fetched
  /\ UNCHANGED <<hookVars, scopeVars, fetched, server, intent, lastWrite>>

RefetchFails ==
  /\ RefetchMayFail /\ fetch # "idle"
  /\ fetch' = "idle"
  /\ UNCHANGED <<hookVars, scopeVars, cache, fetched, stale, server, historyVars>>

-----------------------------------------------------------------------------
HookNext ==
  \/ \E v \in Variables : Mutate(v)
  \/ Retry \/ DebounceFires \/ Unmount \/ OnSuccess \/ OnError

EnvironmentNext ==
  \/ ServerAnswers
  \/ RefetchStarts \/ RefetchReads \/ RefetchLands \/ RefetchFails

Next == HookNext \/ EnvironmentNext

\* Timers fire, requests are answered and callbacks run; users owe nothing.
Fairness ==
  /\ WF_vars(DebounceFires) /\ WF_vars(ServerAnswers)
  /\ WF_vars(OnSuccess) /\ WF_vars(OnError)
  /\ WF_vars(RefetchReads) /\ WF_vars(RefetchLands)

Spec == Init /\ [][Next]_vars
FairSpec == Spec /\ Fairness

-----------------------------------------------------------------------------
TypeOK ==
  /\ seq \in 0..MaxCalls
  /\ confirmed \in MaybeDoc \cup {Null}
  /\ inFlight \in MaybeVars
  /\ queued \in Envelopes \cup {Null}
  /\ pending \in MaybeVars
  /\ failed \in Variables \cup {Null}
  /\ error \in BOOLEAN /\ mounted \in BOOLEAN
  /\ scope \in Seq(Envelopes)
  /\ phase \in {"running", "succeeded", "failed"}
  /\ data \in Docs /\ server \in Docs /\ known \in Docs /\ fetched \in Docs
  /\ cache \in MaybeDoc
  /\ fetch \in {"idle", "asked", "answered"} /\ stale \in BOOLEAN
  /\ intent \in MaybeVars /\ lastWrite \in MaybeVars

\* Nothing is unconfirmed: the screen shows no call that awaits an answer.
Settled == pending = Undefined

\* The latest call is the last to settle: when the hook says nothing is
\* pending, no envelope waits in the debounce or runs in the scope, and no
\* rollback point is held (settleLatest, lines 106-110, never drops one).
NothingOutstandingWhenSettled ==
  Settled => scope = <<>> /\ queued = Null /\ confirmed = Null /\ inFlight = Undefined

\* While a call is unconfirmed the cache shows the latest one: neither an
\* older answer, a rollback nor a refetch repainted it (lines 80-82, 183).
ShowsLatestCall ==
  ~Settled => Optimistic(cache, pending) \in {cache, Undefined}

\* Once everything settled and no refresh is due, the cache is the server's
\* value, whatever mixture of confirmations, superseded failures, lost answers
\* and retries led there.
SettledIsServer ==
  Settled /\ fetch = "idle" /\ ~stale /\ cache # Undefined => cache = server

\* While the failure of the latest call is reported and not yet refetched,
\* the cache holds the last value the server confirmed (lines 81-82, 36-39).
RolledBackToConfirmed ==
  error /\ stale => cache \in {known, Undefined}

\* "A superseded write that fails is moot: the newer call decides what the
\* screen shows" (lines 138-139): after the newer call is confirmed, the
\* screen holds what the server confirmed and nothing of the failed write.
SupersededFailureIsMoot ==
  Settled /\ ~error /\ ~stale /\ fetch = "idle" => cache \in {known, Undefined}

\* The last click is the last write the server sees (lines 78-79): unless its
\* failure is reported, a settled hook has written what was asked last, also
\* when the last clicks were ignored as repeats or coalesced by the debounce.
LastClickIsLastWrite ==
  Settled /\ ~error /\ intent # Undefined => lastWrite = intent

\* Every call settles in the end: the debounce timer is never lost, unmount
\* included, and every write is answered.
EveryCallSettles == ~Settled ~> Settled

\* In the end the cache agrees with the server, failed writes included: their
\* partial effects are read back by the invalidation of onError (line 147),
\* at once or, for an entry nobody reads, on the next mount.
Converges == <>[](stale \/ cache \in {server, Undefined})

(***************************************************************************)
(* The inductive invariant of the proofs.                                  *)
(***************************************************************************)
\* Envelopes run in the order of their calls, and none is from the future.
CallOrder ==
  /\ \A i \in 1..Len(scope) : scope[i].seq <= seq
  /\ \A i, j \in 1..Len(scope) : i < j => scope[i].seq < scope[j].seq

\* The unconfirmed call is the debounced one or else the last of the scope.
LatestIsLast ==
  ~Settled =>
    /\ confirmed # Null
    /\ queued # Null =>
         /\ Debounce
         /\ queued.seq = seq
         /\ \A i \in 1..Len(scope) : scope[i].seq < seq
    /\ queued = Null => scope # <<>> /\ scope[Len(scope)].seq = seq

OrderInv ==
  TypeOK /\ NothingOutstandingWhenSettled /\ CallOrder /\ LatestIsLast

\* No answer of a read or of a write that travels is older than the server,
\* unless a newer write is on its way to be shown.
AnswersAreFresh ==
  /\ phase # "running" => scope # <<>>
  /\ phase = "succeeded" => data = server
  /\ ~Settled => fetch = "idle"
  /\ Settled /\ fetch = "answered" => fetched = server

FreshIsServer == Settled /\ ~stale /\ cache # Undefined => cache = server

ServerInv == OrderInv /\ AnswersAreFresh /\ FreshIsServer

\* The latest call is what the hook says is pending: in the debounce, or else
\* as the last of the scope, whose variables the equality check compares.
LatestIsPending ==
  ~Settled =>
    /\ queued # Null => queued.variables = pending
    /\ queued = Null => inFlight = pending /\ scope[Len(scope)].variables = pending

\* The last click, ignored or not, asks for what the latest call asks for; a
\* success that is told was the last write.
ClickInv ==
  /\ LatestIsPending
  /\ ~Settled => intent = pending
  /\ phase = "succeeded" => scope # <<>> /\ lastWrite = Head(scope).variables
  /\ LastClickIsLastWrite

\* The rollback point is the last value the server told, or nothing was
\* loaded before the first call and nothing is shown.
ScreenInv ==
  /\ Settled => cache \in {known, Undefined}
  /\ ~Settled =>
       /\ fetch = "idle" /\ confirmed \in {known, Undefined}
       /\ confirmed = Undefined => cache = Undefined

\* The promise to the caller, see WriteScreen: the hook's scope and debounce
\* together are the calls awaiting an answer.
unanswered ==
  [i \in 1..Len(scope) |-> scope[i].variables]
    \o (IF queued = Null THEN <<>> ELSE <<queued.variables>>)
Screen == INSTANCE WriteScreen WITH screen <- cache, calls <- unanswered
ImplementsScreen == Screen!Spec

=============================================================================

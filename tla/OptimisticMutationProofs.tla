---------------------- MODULE OptimisticMutationProofs ----------------------
(***************************************************************************)
(* Theorems about OptimisticMutation, for every set of variables and       *)
(* documents, every optimistic function and any number of calls.           *)
(***************************************************************************)
EXTENDS OptimisticMutation, SequenceTheorems, TLAPS

\* What the scope is after its head settled.
LEMMA PopFacts ==
  ASSUME NEW s \in Seq(Envelopes), s # <<>>
  PROVE  /\ Head(s) = s[1] /\ Head(s) \in Envelopes
         /\ Tail(s) \in Seq(Envelopes)
         /\ Len(s) \in Nat \ {0}
         /\ Len(Tail(s)) = Len(s) - 1
         /\ \A i \in 1..Len(Tail(s)) : Tail(s)[i] = s[i + 1]
         /\ Len(s) = 1 => Tail(s) = <<>>
         /\ Len(s) # 1 => Tail(s) # <<>>
  <1>1. Len(s) \in Nat \ {0}
    BY EmptySeq
  <1>2. Head(s) = s[1]
    OBVIOUS
  <1>3. /\ Head(s) \in Envelopes /\ Tail(s) \in Seq(Envelopes)
        /\ Len(Tail(s)) = Len(s) - 1
        /\ \A i \in 1..Len(Tail(s)) : Tail(s)[i] = s[i + 1]
    BY HeadTailProperties
  <1>4. /\ Len(<<>>) = 0
        /\ Tail(s) # <<>> => Len(Tail(s)) \in Nat \ {0}
    BY <1>3, EmptySeq
  <1>5. (Len(s) = 1 => Tail(s) = <<>>) /\ (Len(s) # 1 => Tail(s) # <<>>)
    BY <1>1, <1>3, <1>4
  <1> QED BY <1>1, <1>2, <1>3, <1>5

\* The numbers the order speaks about are numbers.
LEMMA ScopeFacts ==
  ASSUME TypeOK
  PROVE  /\ Len(scope) \in Nat /\ seq \in Nat
         /\ \A i \in 1..Len(scope) : scope[i] \in Envelopes /\ scope[i].seq \in Nat
         /\ scope # <<>> => Len(scope) \in Nat \ {0}
  <1>1. scope \in Seq(Envelopes) /\ seq \in Nat
    BY OptionsAssumption DEF TypeOK
  <1>2. \A e \in Envelopes : e.seq \in Nat
    BY DEF Envelopes
  <1>3. /\ Len(scope) \in Nat
        /\ \A i \in 1..Len(scope) : scope[i] \in Envelopes
        /\ scope # <<>> => Len(scope) \in Nat \ {0}
    BY <1>1, LenProperties, EmptySeq
  <1> QED BY <1>1, <1>2, <1>3

\* The initial state satisfies the inductive invariant.
LEMMA InitOrder == Init => OrderInv
  <1> SUFFICES ASSUME Init PROVE OrderInv OBVIOUS
  <1>1. TypeOK
    <2>1. scope \in Seq(Envelopes)
      BY EmptySeq DEF Init
    <2>2. cache \in MaybeDoc
      BY DEF Init, MaybeDoc
    <2>3. seq \in 0..MaxCalls
      BY OptionsAssumption DEF Init
    <2>4. /\ confirmed = Null /\ inFlight \in MaybeVars /\ queued = Null
          /\ pending \in MaybeVars /\ failed = Null
          /\ intent \in MaybeVars /\ lastWrite \in MaybeVars
      BY DEF Init, MaybeVars
    <2>5. error = FALSE /\ mounted = TRUE /\ stale = FALSE
      BY DEF Init
    <2>6. /\ data \in Docs /\ server \in Docs /\ known \in Docs /\ fetched \in Docs
          /\ phase = "running" /\ fetch = "idle"
      BY DEF Init
    <2> QED BY <2>1, <2>2, <2>3, <2>4, <2>5, <2>6 DEF TypeOK
  <1>2. NothingOutstandingWhenSettled /\ CallOrder /\ LatestIsLast
    BY DEF Init, NothingOutstandingWhenSettled, CallOrder, LatestIsLast, Settled
  <1> QED BY <1>1, <1>2 DEF OrderInv

\* A call keeps the order: it gets the next number and becomes the last one.
LEMMA IssueOrder ==
  ASSUME OrderInv, NEW v \in Variables, Issue(v)
  PROVE  OrderInv'
  <1> DEFINE e == [hook |-> Me, variables |-> v, seq |-> seq + 1]
  <1> USE DistinctAssumption, OptionsAssumption, OptimisticAssumption
  <1>0. TypeOK /\ NothingOutstandingWhenSettled /\ CallOrder /\ LatestIsLast
    BY DEF OrderInv
  <1>1. /\ e \in Envelopes /\ e.seq = seq + 1
        /\ seq \in Nat /\ seq' = seq + 1 /\ seq' \in 0..MaxCalls
    BY <1>0 DEF TypeOK, Issue, Envelopes
  <1>2. cache' \in MaybeDoc /\ confirmed' \in MaybeDoc \cup {Null} /\ confirmed' # Null
    BY <1>0 DEF TypeOK, Issue, Coalesce, MaybeDoc
  <1>3. pending' = v /\ error' = FALSE /\ failed' = Null /\ intent' = v /\ fetch' = "idle"
    BY DEF Issue, CancelRefetch
  <1>4. stale' \in BOOLEAN
    BY <1>0 DEF TypeOK, Issue
  <1>5. ~Settled'
    BY <1>3 DEF Settled
  <1>6. /\ UNCHANGED <<mounted, phase, data, fetched, server, known, lastWrite>>
        /\ v \in MaybeVars
    BY DEF Issue, MaybeVars
  <1>7. CASE Debounce
    <2>1. queued' = e /\ scope' = scope /\ inFlight' = inFlight
      BY <1>7 DEF Issue
    <2>2. TypeOK'
      BY <2>1, <1>0, <1>1, <1>2, <1>3, <1>4, <1>6 DEF TypeOK
    <2>3. CallOrder' /\ \A i \in 1..Len(scope') : scope'[i].seq < seq'
      <3>1. \A i \in 1..Len(scope) : scope[i].seq <= seq
        BY <1>0 DEF CallOrder
      <3>2. \A i \in 1..Len(scope) : scope[i].seq < seq + 1
        BY <3>1, <1>0, ScopeFacts
      <3> QED BY <2>1, <3>2, <1>0, <1>1, ScopeFacts, SMTT(30) DEF CallOrder
    <2>4. queued' # Null => queued'.seq = seq'
      BY <2>1, <1>1
    <2>5. LatestIsLast'
      <3>1. queued' # Null
        BY <2>1, <1>1, NullAssumption
      <3> QED BY <3>1, <2>3, <2>4, <1>2, <1>7 DEF LatestIsLast
    <2> QED BY <2>2, <2>3, <2>5, <1>5 DEF OrderInv, NothingOutstandingWhenSettled
  <1>8. CASE ~Debounce
    <2>1. queued' = queued /\ scope' = Append(scope, e) /\ inFlight' = v
      BY <1>8 DEF Issue, Send
    <2>2. TypeOK'
      <3>1. scope' \in Seq(Envelopes)
        BY <2>1, <1>0, <1>1, AppendProperties DEF TypeOK
      <3> QED BY <3>1, <2>1, <1>0, <1>1, <1>2, <1>3, <1>4, <1>6 DEF TypeOK
    <2>3. \A i \in 1..Len(scope) : scope[i].seq < seq + 1
      BY <1>0, ScopeFacts DEF CallOrder
    <2>4. /\ Len(scope') = Len(scope) + 1 /\ scope' # <<>>
          /\ scope'[Len(scope) + 1] = e
          /\ \A i \in 1..Len(scope) : scope'[i] = scope[i]
      BY <2>1, <1>0, <1>1, AppendProperties DEF TypeOK
    <2>5. CallOrder'
      BY <2>3, <2>4, <1>0, <1>1, ScopeFacts, SMTT(30) DEF CallOrder
    <2>6. queued = Null
      BY <1>0, <1>8 DEF LatestIsLast, NothingOutstandingWhenSettled
    <2>7. LatestIsLast'
      BY <2>1, <2>4, <2>6, <1>1, <1>2 DEF LatestIsLast
    <2> QED BY <2>2, <2>5, <2>7, <1>5 DEF OrderInv, NothingOutstandingWhenSettled
  <1> QED BY <1>7, <1>8

\* The debounced envelope leaves: it was the latest call and becomes the last
\* of the scope.
LEMMA FlushOrder ==
  ASSUME OrderInv, Flush, mounted' \in BOOLEAN
  PROVE  OrderInv'
  <1> USE NullAssumption, DistinctAssumption
  <1>0. TypeOK /\ NothingOutstandingWhenSettled /\ CallOrder /\ LatestIsLast
    BY DEF OrderInv
  <1>1. /\ queued' = Null
        /\ UNCHANGED <<seq, confirmed, pending, failed, error, phase, data>>
        /\ UNCHANGED <<cache, fetch, fetched, stale, server, known, intent, lastWrite>>
    BY DEF Flush, cacheVars, historyVars
  <1>2. CASE queued = Null
    <2>1. UNCHANGED <<inFlight, scope, queued>>
      BY <1>2, <1>1 DEF Flush
    <2> QED BY <2>1, <1>0, <1>1
      DEF OrderInv, TypeOK, NothingOutstandingWhenSettled, CallOrder, LatestIsLast, Settled
  <1>3. CASE queued # Null
    <2>1. queued \in Envelopes /\ queued.variables \in Variables /\ queued.seq = seq
      BY <1>3, <1>0 DEF TypeOK, Envelopes, LatestIsLast, NothingOutstandingWhenSettled
    <2>2. scope' = Append(scope, queued) /\ inFlight' = queued.variables
      BY <1>3 DEF Flush, Send
    <2>3. /\ scope' \in Seq(Envelopes) /\ scope' # <<>>
          /\ Len(scope') = Len(scope) + 1
          /\ scope'[Len(scope) + 1] = queued
          /\ \A i \in 1..Len(scope) : scope'[i] = scope[i]
      BY <2>1, <2>2, <1>0, AppendProperties DEF TypeOK
    <2>4. TypeOK'
      BY <2>1, <2>2, <2>3, <1>0, <1>1 DEF TypeOK, MaybeVars
    <2>5. \A i \in 1..Len(scope) : scope[i].seq < seq
      BY <1>0, <1>3 DEF LatestIsLast, NothingOutstandingWhenSettled
    <2>6. CallOrder'
      BY <2>1, <2>3, <2>5, <1>0, <1>1, ScopeFacts DEF CallOrder
    <2>7. ~Settled
      BY <1>3, <1>0 DEF NothingOutstandingWhenSettled
    <2>8. LatestIsLast' /\ NothingOutstandingWhenSettled'
      BY <2>1, <2>3, <2>7, <1>0, <1>1, ScopeFacts
      DEF LatestIsLast, NothingOutstandingWhenSettled, Settled
    <2> QED BY <2>4, <2>6, <2>8 DEF OrderInv
  <1> QED BY <1>2, <1>3

\* The head settled.  It is the latest call exactly when nothing else is
\* outstanding: that is what makes settleLatest safe.
LEMMA LatestIsAlone ==
  ASSUME OrderInv, scope # <<>>
  PROVE  /\ ~Settled
         /\ IsLatest(Head(scope)) => Tail(scope) = <<>> /\ queued = Null
         /\ ~IsLatest(Head(scope)) /\ queued = Null => Tail(scope) # <<>>
  <1>0. TypeOK /\ NothingOutstandingWhenSettled /\ CallOrder /\ LatestIsLast
    BY DEF OrderInv
  <1>1. ~Settled
    BY <1>0 DEF NothingOutstandingWhenSettled
  <1>2. Head(scope) = scope[1] /\ Len(scope) \in Nat \ {0}
    BY <1>0, PopFacts DEF TypeOK
  <1>3. queued = Null => scope[Len(scope)].seq = seq
    BY <1>0, <1>1 DEF LatestIsLast
  <1>4. ASSUME IsLatest(Head(scope)) PROVE Len(scope) = 1
    <2>1. scope[1].seq = seq /\ scope[Len(scope)].seq = seq
      BY <1>2, <1>3, <1>4 DEF IsLatest
    <2>2. ASSUME Len(scope) # 1 PROVE FALSE
      <3>1. 1 \in 1..Len(scope) /\ Len(scope) \in 1..Len(scope) /\ 1 < Len(scope)
        <4>1. \A n \in Nat \ {0} : n # 1 => 1 \in 1..n /\ n \in 1..n /\ 1 < n
          OBVIOUS
        <4> QED BY <4>1, <2>2, <1>2
      <3>2. scope[1].seq < scope[Len(scope)].seq
        BY <3>1, <1>0 DEF CallOrder
      <3> QED BY <3>2, <2>1, <1>0, ScopeFacts
    <2> QED BY <2>2
  <1>5. ASSUME ~IsLatest(Head(scope)), queued = Null PROVE Len(scope) # 1
    BY <1>2, <1>3, <1>5 DEF IsLatest
  <1>6. (Len(scope) = 1 => Tail(scope) = <<>>) /\ (Len(scope) # 1 => Tail(scope) # <<>>)
    BY <1>0, PopFacts DEF TypeOK
  <1> QED BY <1>1, <1>4, <1>5, <1>6 DEF IsLatest

\* A step of the hook's callbacks keeps the order if it pops the head and
\* settles exactly when the head was the latest call.
LEMMA PopOrder ==
  ASSUME OrderInv, scope # <<>>, PopScope, TypeOK', UNCHANGED <<seq, queued>>,
         \/ IsLatest(Head(scope)) /\ SettleLatest
         \/ ~IsLatest(Head(scope)) /\ pending' = pending /\ confirmed' # Null
  PROVE  OrderInv'
  <1>0. TypeOK /\ NothingOutstandingWhenSettled /\ CallOrder /\ LatestIsLast
    BY DEF OrderInv
  <1>1. /\ scope' = Tail(scope)
        /\ Len(scope') = Len(scope) - 1 /\ Len(scope) \in Nat \ {0}
        /\ \A i \in 1..Len(scope') : scope'[i] = scope[i + 1]
    BY <1>0, PopFacts DEF PopScope, TypeOK
  <1>2. CallOrder'
    BY <1>0, <1>1, ScopeFacts DEF CallOrder
  <1>3. CASE IsLatest(Head(scope)) /\ SettleLatest
    <2>1. scope' = <<>> /\ queued' = Null /\ confirmed' = Null /\ inFlight' = Undefined
      BY <1>1, <1>3, LatestIsAlone DEF SettleLatest
    <2>2. Settled'
      BY <1>3 DEF SettleLatest, Settled
    <2> QED BY <2>1, <2>2, <1>2 DEF OrderInv, NothingOutstandingWhenSettled, LatestIsLast
  <1>4. CASE ~IsLatest(Head(scope)) /\ pending' = pending /\ confirmed' # Null
    <2>1. ~Settled /\ ~Settled'
      BY <1>4, LatestIsAlone DEF Settled
    <2>2. ASSUME queued # Null
          PROVE  Debounce /\ queued.seq = seq /\ \A i \in 1..Len(scope') : scope'[i].seq < seq
      BY <2>1, <2>2, <1>0, <1>1 DEF LatestIsLast
    <2>3. ASSUME queued = Null
          PROVE  scope' # <<>> /\ scope'[Len(scope')].seq = seq
      <3>1. scope' # <<>>
        BY <2>3, <1>1, <1>4, LatestIsAlone
      <3>2. Len(scope') \in Nat \ {0}
        BY <3>1, EmptySeq DEF TypeOK
      <3>3. scope'[Len(scope')] = scope[Len(scope)]
        BY <3>2, <1>1
      <3> QED BY <3>1, <3>3, <2>1, <2>3, <1>0 DEF LatestIsLast
    <2>4. LatestIsLast'
      BY <2>2, <2>3, <1>4 DEF LatestIsLast
    <2> QED BY <2>1, <2>4, <1>2 DEF OrderInv, NothingOutstandingWhenSettled
  <1> QED BY <1>3, <1>4

\* The answer to a write, good or bad, leaves the hook's state well typed.
LEMMA OnSuccessOrder == OrderInv /\ OnSuccess => OrderInv'
  <1> SUFFICES ASSUME OrderInv, OnSuccess PROVE OrderInv'
    OBVIOUS
  <1> USE DistinctAssumption, OptimisticAssumption
  <1>0. TypeOK /\ scope # <<>> /\ Head(scope) \in Envelopes /\ Head(scope).variables \in Variables
    BY PopFacts DEF OrderInv, OnSuccess, HeadIsMine, TypeOK, Envelopes
  <1>1. scope' \in Seq(Envelopes) /\ phase' = "running" /\ PopScope /\ known' = data
    BY <1>0, PopFacts DEF OnSuccess, PopScope, TypeOK
  <1>2. UNCHANGED <<seq, queued, failed, mounted, data, fetch, fetched, server, intent, lastWrite>>
    BY DEF OnSuccess
  <1>3. confirmed # Null
    BY <1>0, LatestIsAlone DEF OrderInv, LatestIsLast
  <1>4. CASE IsLatest(Head(scope))
    <2>1. SettleLatest /\ error' = FALSE /\ cache' = (IF Reconcile THEN data ELSE cache)
          /\ stale' = (IF cache' = Undefined THEN stale ELSE FALSE)
      BY <1>4 DEF OnSuccess
    <2>2. cache' \in MaybeDoc /\ stale' \in BOOLEAN
      BY <2>1, <1>0 DEF TypeOK, MaybeDoc
    <2>3. TypeOK'
      BY <2>1, <2>2, <1>0, <1>1, <1>2 DEF TypeOK, SettleLatest, MaybeVars
    <2> QED BY <2>1, <2>3, <1>0, <1>1, <1>2, <1>4, PopOrder
  <1>5. CASE ~IsLatest(Head(scope))
    <2>1. /\ confirmed' = RollbackPointAfter(Head(scope))
          /\ UNCHANGED <<cache, stale, inFlight, pending, error>>
      BY <1>5 DEF OnSuccess
    <2>2. confirmed \in MaybeDoc /\ data \in MaybeDoc
      BY <1>0, <1>3 DEF TypeOK, MaybeDoc
    <2>3. Optimistic(confirmed, Head(scope).variables) \in MaybeDoc
      BY <1>0, <2>2 DEF MaybeDoc
    <2>4. confirmed' \in MaybeDoc
      BY <2>1, <2>2, <2>3, <1>3 DEF RollbackPointAfter, Coalesce
    <2>5. confirmed' # Null
      BY <2>4 DEF MaybeDoc
    <2>6. TypeOK'
      BY <2>1, <2>4, <1>0, <1>1, <1>2 DEF TypeOK
    <2> QED BY <2>1, <2>5, <2>6, <1>0, <1>1, <1>2, <1>5, PopOrder
  <1> QED BY <1>4, <1>5

\* A rejection leaves the order of the calls as it was.
LEMMA OnErrorOrder == OrderInv /\ OnError => OrderInv'
  <1> SUFFICES ASSUME OrderInv, OnError PROVE OrderInv'
    OBVIOUS
  <1> USE DistinctAssumption
  <1>0. TypeOK /\ scope # <<>> /\ Head(scope) \in Envelopes /\ Head(scope).variables \in Variables
    BY PopFacts DEF OrderInv, OnError, HeadIsMine, TypeOK, Envelopes
  <1>1. scope' \in Seq(Envelopes) /\ phase' = "running" /\ PopScope
    BY <1>0, PopFacts DEF OnError, PopScope, TypeOK
  <1>2. UNCHANGED <<seq, queued, mounted, data, fetched, server, known, intent, lastWrite>>
    BY DEF OnError, historyVars
  <1>3. confirmed # Null
    BY <1>0, LatestIsAlone DEF OrderInv, LatestIsLast
  <1>4. CASE IsLatest(Head(scope))
    <2>1. /\ SettleLatest /\ Invalidate
          /\ cache' = (IF confirmed \in {Null, Undefined} THEN cache ELSE confirmed)
          /\ failed' = Head(scope).variables /\ error' = TRUE
      BY <1>4 DEF OnError
    <2>2. cache' \in MaybeDoc /\ failed' \in Variables
      BY <2>1, <1>0 DEF TypeOK, MaybeDoc
    <2>3. stale' = TRUE /\ fetch' \in {"idle", "asked", "answered"}
      BY <2>1 DEF Invalidate
    <2>4. TypeOK'
      BY <2>1, <2>2, <2>3, <1>0, <1>1, <1>2 DEF TypeOK, SettleLatest, MaybeVars
    <2> QED BY <2>1, <2>4, <1>0, <1>1, <1>2, <1>4, PopOrder
  <1>5. CASE ~IsLatest(Head(scope))
    <2>1. UNCHANGED <<cache, confirmed, inFlight, pending, stale, fetch, failed, error>>
      BY <1>5 DEF OnError
    <2>2. TypeOK'
      BY <2>1, <1>0, <1>1, <1>2 DEF TypeOK
    <2> QED BY <2>1, <2>2, <1>0, <1>1, <1>2, <1>3, <1>5, PopOrder
  <1> QED BY <1>4, <1>5

\* Steps of the server and of the refetch leave the order alone.
LEMMA QuietOrder ==
  ASSUME OrderInv, TypeOK', UNCHANGED <<seq, confirmed, inFlight, queued, pending, scope>>
  PROVE  OrderInv'
  BY DEF OrderInv, NothingOutstandingWhenSettled, CallOrder, LatestIsLast, Settled

\* The server and the refetches do not touch the calls.
LEMMA EnvironmentOrder == OrderInv /\ EnvironmentNext => OrderInv'
  <1> SUFFICES ASSUME OrderInv, EnvironmentNext PROVE OrderInv'
    OBVIOUS
  <1> USE DEF hookVars, scopeVars, cacheVars, historyVars
  <1>0. TypeOK
    BY DEF OrderInv
  <1>1. ASSUME NEW o \in {"succeeded", "failed"}, ServerApplies(o) PROVE OrderInv'
    <2>1. Head(scope) \in Envelopes /\ Head(scope).variables \in Variables
      BY <1>0, <1>1, PopFacts DEF ServerApplies, TypeOK, Envelopes
    <2>2. server' \in Docs /\ data' \in Docs
      BY <2>1, <1>0, <1>1, ApplyAssumption DEF ServerApplies, TypeOK
    <2>3. TypeOK'
      BY <2>1, <2>2, <1>0, <1>1 DEF ServerApplies, TypeOK, MaybeVars
    <2> QED BY <2>3, <1>1, QuietOrder DEF ServerApplies
  <1>2. CASE ServerRejects
    BY <1>0, <1>2, QuietOrder DEF ServerRejects, TypeOK
  <1>3. CASE RefetchStarts
    BY <1>0, <1>3, QuietOrder DEF RefetchStarts, TypeOK
  <1>4. CASE RefetchReads
    BY <1>0, <1>4, QuietOrder DEF RefetchReads, TypeOK
  <1>5. CASE RefetchLands
    <2>1. cache' \in MaybeDoc /\ known' \in Docs
      BY <1>0, <1>5 DEF RefetchLands, TypeOK, MaybeDoc
    <2> QED BY <2>1, <1>0, <1>5, QuietOrder DEF RefetchLands, TypeOK
  <1>6. CASE RefetchFails
    BY <1>0, <1>6, QuietOrder DEF RefetchFails, TypeOK
  <1> QED BY <1>1, <1>2, <1>3, <1>4, <1>5, <1>6 DEF EnvironmentNext, ServerAnswers

\* Every step of the hook keeps the calls in order.
LEMMA HookOrder == OrderInv /\ HookNext => OrderInv'
  <1> SUFFICES ASSUME OrderInv, HookNext PROVE OrderInv'
    OBVIOUS
  <1>0. TypeOK
    BY DEF OrderInv
  <1>1. ASSUME NEW v \in Variables, Issue(v) PROVE OrderInv'
    BY <1>1, IssueOrder
  <1>2. ASSUME NEW v \in Variables, MutateIgnored(v) PROVE OrderInv'
    BY <1>0, <1>2, QuietOrder
    DEF MutateIgnored, TypeOK, MaybeVars, hookVars, scopeVars, cacheVars
  <1>3. CASE Retry
    <2>1. failed \in Variables /\ Issue(failed)
      BY <1>0, <1>3 DEF Retry, TypeOK
    <2> QED BY <2>1, IssueOrder
  <1>4. CASE DebounceFires
    BY <1>0, <1>4, FlushOrder DEF DebounceFires, TypeOK
  <1>5. CASE Unmount
    BY <1>5, FlushOrder DEF Unmount
  <1>6. CASE OnSuccess
    BY <1>6, OnSuccessOrder
  <1>7. CASE OnError
    BY <1>7, OnErrorOrder
  <1> QED BY <1>1, <1>2, <1>3, <1>4, <1>5, <1>6, <1>7 DEF HookNext, Mutate

\* So does every step of the system.
LEMMA OrderInductive == OrderInv /\ [Next]_vars => OrderInv'
  <1>1. OrderInv /\ UNCHANGED vars => OrderInv'
    BY DEF OrderInv, TypeOK, NothingOutstandingWhenSettled, CallOrder, LatestIsLast, Settled,
           vars, hookVars, scopeVars, cacheVars, historyVars
  <1> QED BY <1>1, HookOrder, EnvironmentOrder DEF Next

(***************************************************************************)
(* The hook's state is well typed, and a hook that says nothing is pending *)
(* has nothing queued, running or held for rollback: settling the latest   *)
(* call never forgets another one.                                         *)
(***************************************************************************)
THEOREM OrderIsInvariant == Spec => []OrderInv
  BY InitOrder, OrderInductive, PTL DEF Spec

\* In every reachable state the variables are well typed, and a hook that
\* reports itself settled has no call outstanding.
THEOREM NothingIsForgotten == Spec => [](TypeOK /\ NothingOutstandingWhenSettled)
  <1>1. OrderInv => TypeOK /\ NothingOutstandingWhenSettled
    BY DEF OrderInv
  <1> QED BY <1>1, OrderIsInvariant, PTL

(***************************************************************************)
(* What a settled hook shows is what the server has.                       *)
(***************************************************************************)
LEMMA InitServer == Init => ServerInv
  <1> SUFFICES ASSUME Init PROVE ServerInv
    OBVIOUS
  <1>1. OrderInv
    BY InitOrder
  <1>2. AnswersAreFresh /\ FreshIsServer
    BY DEF Init, AnswersAreFresh, FreshIsServer, Settled
  <1> QED BY <1>1, <1>2 DEF ServerInv

\* A write in flight keeps every refetch away, so no settled state sees an
\* answer that was read before the write.
LEMMA HookServer ==
  ASSUME ServerInv, OrderInv', HookNext, Reconcile
  PROVE  AnswersAreFresh' /\ FreshIsServer'
  <1> USE DEF AnswersAreFresh, FreshIsServer, Settled
  <1>0. /\ AnswersAreFresh /\ FreshIsServer /\ OrderInv
        /\ TypeOK /\ NothingOutstandingWhenSettled
        /\ NothingOutstandingWhenSettled'
    BY DEF ServerInv, OrderInv
  <1>1. ASSUME NEW v \in Variables, Issue(v) PROVE AnswersAreFresh' /\ FreshIsServer'
    <2>1. pending' = v /\ fetch' = "idle" /\ UNCHANGED <<phase, data, server>>
      BY <1>1 DEF Issue, CancelRefetch
    <2>2. pending' # Undefined
      BY <2>1, DistinctAssumption
    <2>3. phase' # "running" => scope' # <<>>
      <3>1. CASE Debounce
        BY <3>1, <2>1, <1>0, <1>1 DEF Issue
      <3>2. CASE ~Debounce
        <4>1. [hook |-> Me, variables |-> v, seq |-> seq + 1] \in Envelopes
          BY <1>0, <1>1, OptionsAssumption DEF Issue, TypeOK, Envelopes
        <4>2. scope' = Append(scope, [hook |-> Me, variables |-> v, seq |-> seq + 1])
          BY <3>2, <1>1 DEF Issue, Send
        <4> QED BY <4>1, <4>2, <1>0, AppendProperties DEF TypeOK
      <3> QED BY <3>1, <3>2
    <2> QED BY <2>1, <2>2, <2>3, <1>0
  <1>2. ASSUME NEW v \in Variables, MutateIgnored(v) PROVE AnswersAreFresh' /\ FreshIsServer'
    BY <1>0, <1>2 DEF MutateIgnored, hookVars, scopeVars, cacheVars
  <1>3. ASSUME Flush PROVE AnswersAreFresh' /\ FreshIsServer'
    <2>1. UNCHANGED <<pending, phase, data, cache, fetch, fetched, stale, server>>
      BY <1>3 DEF Flush, cacheVars
    <2>2. scope # <<>> => scope' # <<>>
      BY <1>0, <1>3, AppendProperties DEF Flush, Send, TypeOK
    <2> QED BY <2>1, <2>2, <1>0
  <1>4. CASE OnSuccess
    <2>1. scope # <<>> /\ phase' = "running" /\ data = server
          /\ UNCHANGED <<data, fetch, fetched, server>>
      BY <1>0, <1>4 DEF OnSuccess, HeadIsMine, PopScope
    <2>2. ~Settled
      BY <2>1, <1>0 DEF NothingOutstandingWhenSettled
    <2>3. CASE IsLatest(Head(scope))
      BY <2>1, <2>2, <2>3, <1>0, <1>4 DEF OnSuccess
    <2>4. CASE ~IsLatest(Head(scope))
      BY <2>1, <2>2, <2>4, <1>0, <1>4 DEF OnSuccess
    <2> QED BY <2>3, <2>4
  <1>5. CASE OnError
    <2>1. scope # <<>> /\ phase' = "running" /\ UNCHANGED <<data, fetched, server>>
      BY <1>0, <1>5 DEF OnError, HeadIsMine, PopScope
    <2>2. ~Settled
      BY <2>1, <1>0 DEF NothingOutstandingWhenSettled
    <2>3. CASE IsLatest(Head(scope))
      <3>1. stale' = TRUE /\ fetch' \in {"asked", "idle"} /\ pending' = Undefined
        BY <2>3, <1>5 DEF OnError, Invalidate, SettleLatest
      <3> QED BY <3>1, <2>1
    <2>4. CASE ~IsLatest(Head(scope))
      BY <2>1, <2>2, <2>4, <1>0, <1>5 DEF OnError
    <2> QED BY <2>3, <2>4
  <1>6. CASE Retry
    <2>1. failed \in Variables /\ Issue(failed)
      BY <1>0, <1>6 DEF Retry, TypeOK
    <2> QED BY <2>1, <1>1
  <1> QED BY <1>1, <1>2, <1>3, <1>4, <1>5, <1>6
      DEF HookNext, Mutate, DebounceFires, Unmount

\* No answer that the server or a refetch gives is older than the server,
\* unless a newer write is on its way.
LEMMA EnvironmentServer ==
  ASSUME ServerInv, EnvironmentNext, ~RefetchMidWrite
  PROVE  AnswersAreFresh' /\ FreshIsServer'
  <1> USE DEF AnswersAreFresh, FreshIsServer, Settled, hookVars, scopeVars
  <1>0. AnswersAreFresh /\ FreshIsServer /\ NothingOutstandingWhenSettled
    BY DEF ServerInv, OrderInv
  <1>1. ASSUME NEW o \in {"succeeded", "failed"}, ServerApplies(o)
        PROVE  AnswersAreFresh' /\ FreshIsServer'
    <2>1. ~Settled
      BY <1>0, <1>1 DEF ServerApplies, NothingOutstandingWhenSettled
    <2> QED BY <2>1, <1>0, <1>1 DEF ServerApplies, cacheVars
  <1>2. CASE ServerRejects
    BY <1>0, <1>2 DEF ServerRejects, cacheVars
  <1>3. CASE RefetchStarts
    BY <1>0, <1>3 DEF RefetchStarts
  <1>4. CASE RefetchReads
    BY <1>0, <1>4 DEF RefetchReads
  <1>5. CASE RefetchLands
    BY <1>0, <1>5 DEF RefetchLands
  <1>6. CASE RefetchFails
    BY <1>0, <1>6 DEF RefetchFails
  <1> QED BY <1>1, <1>2, <1>3, <1>4, <1>5, <1>6 DEF EnvironmentNext, ServerAnswers

(***************************************************************************)
(* With a reconciling caller, and as long as refetches start only while    *)
(* nothing is pending, a settled hook whose entry is not marked stale      *)
(* shows the server's value: superseded failures, lost answers, retries    *)
(* and refetches in flight notwithstanding.                                *)
(***************************************************************************)
THEOREM SettledShowsServer ==
  ASSUME Reconcile, ~RefetchMidWrite
  PROVE  Spec => []SettledIsServer
  <1>1. ServerInv /\ [Next]_vars => ServerInv'
    <2> SUFFICES ASSUME ServerInv, [Next]_vars PROVE ServerInv'
      OBVIOUS
    <2>1. OrderInv'
      BY OrderInductive DEF ServerInv
    <2>2. CASE UNCHANGED vars
      BY <2>1, <2>2 DEF ServerInv, AnswersAreFresh, FreshIsServer, Settled,
         vars, hookVars, scopeVars, cacheVars
    <2>3. CASE Next
      BY <2>1, <2>3, HookServer, EnvironmentServer DEF Next, ServerInv
    <2> QED BY <2>2, <2>3
  <1>2. ServerInv => SettledIsServer
    BY DEF ServerInv, FreshIsServer, SettledIsServer
  <1> QED BY <1>1, <1>2, InitServer, PTL DEF Spec

(***************************************************************************)
(* Under the same assumption on refetches, and for optimistic functions    *)
(* that are idempotent, the cache shows the latest unconfirmed call at     *)
(* every moment: no older answer and no refetch repaints it.               *)
(***************************************************************************)
THEOREM LatestCallIsShown ==
  ASSUME ~RefetchMidWrite,
         \A d \in MaybeDoc, v \in Variables :
            LET shown == Coalesce(Optimistic(d, v), d)
            IN Optimistic(shown, v) \in {shown, Undefined}
  PROVE  Spec => []ShowsLatestCall
  <1> DEFINE Inv == OrderInv /\ ShowsLatestCall /\ (~Settled => fetch = "idle")
  <1>1. Init => Inv
    BY InitOrder DEF Init, ShowsLatestCall, Settled
  <1>2. Inv /\ [Next]_vars => Inv'
    <2> SUFFICES ASSUME Inv, [Next]_vars PROVE Inv'
      OBVIOUS
    <2> USE DEF ShowsLatestCall, Settled
    <2>1. OrderInv' /\ TypeOK /\ NothingOutstandingWhenSettled
      BY OrderInductive DEF OrderInv
    <2>2. ASSUME NEW v \in Variables, Issue(v) PROVE Inv'
      <3>1. pending' = v /\ fetch' = "idle" /\ cache' = Coalesce(Optimistic(cache, v), cache)
        BY <2>2 DEF Issue, CancelRefetch
      <3>2. cache \in MaybeDoc
        BY <2>1 DEF TypeOK
      <3> QED BY <3>1, <3>2, <2>1
    <2>3. ASSUME UNCHANGED <<pending, cache, fetch>> PROVE Inv'
      BY <2>1, <2>3
    <2>4. ASSUME NEW v \in Variables, MutateIgnored(v) PROVE Inv'
      BY <2>3, <2>4 DEF MutateIgnored, hookVars, cacheVars
    <2>5. ASSUME Flush PROVE Inv'
      BY <2>3, <2>5 DEF Flush, cacheVars
    <2>6. ASSUME SettleLatest PROVE Inv'
      BY <2>1, <2>6 DEF SettleLatest
    <2>7. CASE Retry
      <3>1. failed \in Variables /\ Issue(failed)
        BY <2>1, <2>7 DEF Retry, TypeOK
      <3> QED BY <3>1, <2>2
    <2>8. CASE OnSuccess
      BY <2>3, <2>6, <2>8 DEF OnSuccess
    <2>9. CASE OnError
      BY <2>3, <2>6, <2>9 DEF OnError
    <2>10. CASE ServerAnswers
      BY <2>3, <2>10 DEF ServerAnswers, ServerApplies, ServerRejects, hookVars, cacheVars
    <2>11. CASE RefetchStarts \/ RefetchReads \/ RefetchLands \/ RefetchFails
      BY <2>1, <2>11 DEF RefetchStarts, RefetchReads, RefetchLands, RefetchFails, hookVars
    <2>12. CASE UNCHANGED vars
      BY <2>3, <2>12 DEF vars, hookVars, cacheVars
    <2>13. CASE Next
      BY <2>2, <2>4, <2>5, <2>7, <2>8, <2>9, <2>10, <2>11, <2>13
      DEF Next, HookNext, EnvironmentNext, Mutate, DebounceFires, Unmount
    <2> QED BY <2>12, <2>13
  <1>3. Inv => ShowsLatestCall
    OBVIOUS
  <1> QED BY <1>1, <1>2, <1>3, PTL DEF Spec

(***************************************************************************)
(* The last click is the last write.                                       *)
(***************************************************************************)
\* A sequence that gets one more element ends with it and begins as before.
LEMMA AppendFacts ==
  ASSUME NEW s \in Seq(Envelopes), NEW e \in Envelopes
  PROVE  /\ Append(s, e) \in Seq(Envelopes) /\ Append(s, e) # <<>>
         /\ Append(s, e)[Len(Append(s, e))] = e
         /\ s # <<>> => Head(Append(s, e)) = Head(s)
  <1>1. /\ Append(s, e) \in Seq(Envelopes) /\ Append(s, e) # <<>>
        /\ Len(Append(s, e)) = Len(s) + 1 /\ Len(s) \in Nat
        /\ Append(s, e)[Len(s) + 1] = e
        /\ \A i \in 1..Len(s) : Append(s, e)[i] = s[i]
    BY AppendProperties
  <1>2. s # <<>> => Len(s) \in Nat \ {0}
    BY EmptySeq
  <1>3. s # <<>> => Append(s, e)[1] = s[1]
    BY <1>1, <1>2
  <1> QED BY <1>1, <1>3

\* A call is what the click asked for, and its envelope carries it.
LEMMA IssueClick ==
  ASSUME OrderInv, ClickInv, NEW v \in Variables, Issue(v)
  PROVE  ClickInv'
  <1> DEFINE e == [hook |-> Me, variables |-> v, seq |-> seq + 1]
  <1>0. TypeOK /\ NothingOutstandingWhenSettled /\ LatestIsLast
    BY DEF OrderInv
  <1>1. /\ pending' = v /\ intent' = v
        /\ UNCHANGED <<phase, lastWrite>>
    BY DEF Issue
  <1>2. ~Settled' /\ LastClickIsLastWrite'
    BY <1>1, DistinctAssumption DEF Settled, LastClickIsLastWrite
  <1>3. e \in Envelopes /\ e # Null /\ e.variables = v
    BY <1>0, OptionsAssumption, NullAssumption DEF TypeOK, Issue, Envelopes
  <1>4. CASE Debounce
    <2>1. queued' = e /\ scope' = scope
      BY <1>4 DEF Issue
    <2> QED BY <2>1, <1>1, <1>2, <1>3 DEF ClickInv, LatestIsPending
  <1>5. CASE ~Debounce
    <2>1. queued' = queued /\ scope' = Append(scope, e) /\ inFlight' = v
      BY <1>5 DEF Issue, Send
    <2>2. queued' = Null
      BY <2>1, <1>0, <1>5 DEF LatestIsLast, NothingOutstandingWhenSettled
    <2>3. /\ scope' # <<>> /\ scope'[Len(scope')] = e
          /\ scope # <<>> => Head(scope') = Head(scope)
      BY <2>1, <1>0, <1>3, AppendFacts DEF TypeOK
    <2> QED BY <2>1, <2>2, <2>3, <1>1, <1>2, <1>3 DEF ClickInv, LatestIsPending
  <1> QED BY <1>4, <1>5

\* The debounced envelope leaves with what its call asked for.
LEMMA FlushClick ==
  ASSUME OrderInv, ClickInv, Flush
  PROVE  ClickInv'
  <1>0. TypeOK /\ NothingOutstandingWhenSettled /\ LatestIsLast
    BY DEF OrderInv
  <1>1. queued' = Null /\ UNCHANGED <<pending, error, phase, intent, lastWrite>>
    BY DEF Flush, historyVars
  <1>2. CASE queued = Null
    BY <1>1, <1>2 DEF Flush, ClickInv, LatestIsPending, LastClickIsLastWrite, Settled
  <1>3. CASE queued # Null
    <2>1. queued \in Envelopes /\ ~Settled
      BY <1>3, <1>0 DEF TypeOK, NothingOutstandingWhenSettled
    <2>2. scope' = Append(scope, queued) /\ inFlight' = queued.variables
      BY <1>3 DEF Flush, Send
    <2>3. /\ scope' # <<>> /\ scope'[Len(scope')] = queued
          /\ scope # <<>> => Head(scope') = Head(scope)
      BY <2>1, <2>2, <1>0, AppendFacts DEF TypeOK
    <2> QED BY <2>1, <2>2, <2>3, <1>1, <1>3
        DEF ClickInv, LatestIsPending, LastClickIsLastWrite, Settled
  <1> QED BY <1>2, <1>3

\* What the head leaves behind: nothing if it was the latest call, and else
\* the last of the scope stays the last, or the debounced call is the latest.
LEMMA PopClick ==
  ASSUME OrderInv, ClickInv, scope # <<>>, PopScope,
         UNCHANGED <<seq, queued, intent, lastWrite>>,
         \/ IsLatest(Head(scope)) /\ SettleLatest /\ (error' \/ lastWrite = intent)
         \/ ~IsLatest(Head(scope)) /\ UNCHANGED <<pending, inFlight>>
  PROVE  ClickInv'
  <1>0. TypeOK /\ LatestIsLast
    BY DEF OrderInv
  <1>1. phase' = "running" /\ scope' = Tail(scope)
    BY DEF PopScope
  <1>2. CASE IsLatest(Head(scope)) /\ SettleLatest /\ (error' \/ lastWrite = intent)
    BY <1>1, <1>2 DEF SettleLatest, ClickInv, LatestIsPending, LastClickIsLastWrite, Settled
  <1>3. CASE ~IsLatest(Head(scope)) /\ UNCHANGED <<pending, inFlight>>
    <2>1. ~Settled /\ ~Settled'
      BY <1>3, LatestIsAlone DEF Settled
    <2>2. ASSUME queued = Null PROVE scope'[Len(scope')] = scope[Len(scope)]
      <3>1. Tail(scope) # <<>>
        BY <2>2, <1>3, LatestIsAlone
      <3>2. /\ Len(scope') = Len(scope) - 1 /\ Len(scope) \in Nat \ {0} /\ Len(scope') # 0
            /\ \A i \in 1..Len(scope') : scope'[i] = scope[i + 1]
        BY <3>1, <1>0, <1>1, PopFacts DEF TypeOK
      <3>3. Len(scope') \in 1..Len(scope') /\ Len(scope') + 1 = Len(scope)
        BY <3>2
      <3> QED BY <3>2, <3>3
    <2> QED BY <2>1, <2>2, <1>1, <1>3
        DEF ClickInv, LatestIsPending, LastClickIsLastWrite, Settled
  <1> QED BY <1>2, <1>3

\* The latest call runs alone: when it succeeds, what it wrote is what the
\* last click asked for.
LEMMA OnSuccessClick == OrderInv /\ ClickInv /\ OnSuccess => ClickInv'
  <1> SUFFICES ASSUME OrderInv, ClickInv, OnSuccess PROVE ClickInv'
    OBVIOUS
  <1>0. TypeOK
    BY DEF OrderInv
  <1>1. /\ scope # <<>> /\ PopScope /\ phase = "succeeded"
        /\ UNCHANGED <<seq, queued, intent, lastWrite>>
    BY DEF OnSuccess, HeadIsMine
  <1>2. CASE IsLatest(Head(scope))
    <2>1. SettleLatest
      BY <1>2 DEF OnSuccess
    <2>2. Tail(scope) = <<>> /\ queued = Null /\ ~Settled
      BY <1>1, <1>2, LatestIsAlone
    <2>3. Len(scope) = 1 /\ Head(scope) = scope[1]
      BY <2>2, <1>0, <1>1, PopFacts DEF TypeOK
    <2>4. lastWrite = intent
      BY <2>2, <2>3, <1>1 DEF ClickInv, LatestIsPending
    <2> QED BY <2>1, <2>4, <1>1, <1>2, PopClick
  <1>3. CASE ~IsLatest(Head(scope))
    BY <1>1, <1>3, PopClick DEF OnSuccess
  <1> QED BY <1>2, <1>3

\* A failure of the latest call is reported; any other one changes nothing.
LEMMA OnErrorClick == OrderInv /\ ClickInv /\ OnError => ClickInv'
  <1> SUFFICES ASSUME OrderInv, ClickInv, OnError PROVE ClickInv'
    OBVIOUS
  <1>1. /\ scope # <<>> /\ PopScope
        /\ UNCHANGED <<seq, queued, intent, lastWrite>>
    BY DEF OnError, HeadIsMine, historyVars
  <1>2. CASE IsLatest(Head(scope))
    BY <1>1, <1>2, PopClick DEF OnError
  <1>3. CASE ~IsLatest(Head(scope))
    BY <1>1, <1>3, PopClick DEF OnError
  <1> QED BY <1>2, <1>3

\* The server writes the head of the scope and nothing else.
LEMMA EnvironmentClick == OrderInv /\ ClickInv /\ EnvironmentNext => ClickInv'
  <1> SUFFICES ASSUME OrderInv, ClickInv, EnvironmentNext PROVE ClickInv'
    OBVIOUS
  <1> USE DEF hookVars, scopeVars, historyVars, ClickInv, LatestIsPending,
              LastClickIsLastWrite, Settled
  <1>1. ASSUME NEW o \in {"succeeded", "failed"}, ServerApplies(o) PROVE ClickInv'
    <2>1. ~Settled
      BY <1>1 DEF ServerApplies, OrderInv, NothingOutstandingWhenSettled
    <2> QED BY <2>1, <1>1 DEF ServerApplies
  <1>2. CASE ServerRejects
    BY <1>2 DEF ServerRejects
  <1>3. CASE RefetchStarts \/ RefetchReads \/ RefetchLands \/ RefetchFails
    BY <1>3 DEF RefetchStarts, RefetchReads, RefetchLands, RefetchFails
  <1> QED BY <1>1, <1>2, <1>3 DEF EnvironmentNext, ServerAnswers

\* Nothing was clicked before the first call.
LEMMA ClickInit == Init => ClickInv
  BY DEF Init, ClickInv, LatestIsPending, LastClickIsLastWrite, Settled

\* Every step keeps what the last click asked for.
LEMMA ClickInductive == OrderInv /\ ClickInv /\ [Next]_vars => ClickInv'
  <1> SUFFICES ASSUME OrderInv, ClickInv, [Next]_vars PROVE ClickInv'
    OBVIOUS
  <1>0. TypeOK /\ NothingOutstandingWhenSettled
    BY DEF OrderInv
  <1>1. ASSUME NEW v \in Variables, IsRepeat(v), MutateIgnored(v) PROVE ClickInv'
    <2>1. ~Settled /\ pending = v
      BY <1>0, <1>1 DEF IsRepeat, LatestPending, ClickInv, LatestIsPending, NothingOutstandingWhenSettled
    <2> QED BY <2>1, <1>1 DEF MutateIgnored, hookVars, scopeVars, ClickInv, LatestIsPending,
                              LastClickIsLastWrite, Settled
  <1>2. ASSUME NEW v \in Variables, Mutate(v) PROVE ClickInv'
    BY <1>1, <1>2, IssueClick DEF Mutate
  <1>3. CASE Retry
    <2>1. failed \in Variables /\ Issue(failed)
      BY <1>0, <1>3 DEF Retry, TypeOK
    <2> QED BY <2>1, IssueClick
  <1>4. CASE DebounceFires \/ Unmount
    BY <1>4, FlushClick DEF DebounceFires, Unmount
  <1>5. CASE UNCHANGED vars
    BY <1>5 DEF vars, hookVars, scopeVars, historyVars, ClickInv, LatestIsPending,
                LastClickIsLastWrite, Settled
  <1> QED BY <1>2, <1>3, <1>4, <1>5, OnSuccessClick, OnErrorClick, EnvironmentClick
      DEF Next, HookNext

(***************************************************************************)
(* The last click is the last write the server saw, unless the hook        *)
(* reports its failure: whatever was coalesced by the debounce, ignored as *)
(* a repeat, superseded, or answered after the component went away.        *)
(***************************************************************************)
THEOREM LastClickIsAlwaysWritten == Spec => []LastClickIsLastWrite
  <1>1. ClickInv => LastClickIsLastWrite
    BY DEF ClickInv
  <1> QED BY <1>1, InitOrder, OrderInductive, ClickInit, ClickInductive, PTL DEF Spec

(***************************************************************************)
(* The hook implements WriteScreen.  Its calls are the variables of the    *)
(* scope's envelopes followed by those of the debounced one.               *)
(***************************************************************************)
Asks(s) == [i \in 1..Len(s) |-> s[i].variables]

\* What the envelopes of a sequence ask for.
LEMMA AsksFacts ==
  ASSUME NEW s \in Seq(Envelopes)
  PROVE  /\ Asks(s) \in Seq(Variables) /\ Len(Asks(s)) = Len(s) /\ Len(s) \in Nat
         /\ \A i \in 1..Len(s) : Asks(s)[i] = s[i].variables
  <1>1. Len(s) \in Nat /\ \A i \in 1..Len(s) : s[i] \in Envelopes
    BY LenProperties
  <1>2. \A i \in 1..Len(s) : s[i].variables \in Variables
    BY <1>1 DEF Envelopes
  <1> QED BY <1>1, <1>2 DEF Asks

\* An envelope more is a call more.
LEMMA AsksAppend ==
  ASSUME NEW s \in Seq(Envelopes), NEW e \in Envelopes
  PROVE  Asks(Append(s, e)) = Append(Asks(s), e.variables)
  <1>1. /\ Append(s, e) \in Seq(Envelopes) /\ Len(Append(s, e)) = Len(s) + 1
        /\ Append(s, e)[Len(s) + 1] = e
        /\ \A i \in 1..Len(s) : Append(s, e)[i] = s[i]
    BY AppendProperties
  <1>2. /\ Asks(s) \in Seq(Variables) /\ Len(Asks(s)) = Len(s) /\ Len(s) \in Nat
        /\ e.variables \in Variables
    BY AsksFacts DEF Envelopes
  <1>3. /\ Append(Asks(s), e.variables) \in Seq(Variables)
        /\ Len(Append(Asks(s), e.variables)) = Len(s) + 1
        /\ Append(Asks(s), e.variables)[Len(s) + 1] = e.variables
        /\ \A i \in 1..Len(s) : Append(Asks(s), e.variables)[i] = Asks(s)[i]
    BY <1>2, AppendProperties
  <1>4. /\ Asks(Append(s, e)) \in Seq(Variables) /\ Len(Asks(Append(s, e))) = Len(s) + 1
        /\ \A i \in 1..(Len(s) + 1) : Asks(Append(s, e))[i] = Append(s, e)[i].variables
    BY <1>1, AsksFacts
  <1>5. ASSUME NEW i \in 1..(Len(s) + 1)
        PROVE  Asks(Append(s, e))[i] = Append(Asks(s), e.variables)[i]
    <2>1. CASE i = Len(s) + 1
      BY <2>1, <1>1, <1>3, <1>4
    <2>2. CASE i # Len(s) + 1
      <3>1. i \in 1..Len(s)
        BY <2>2, <1>2
      <3> QED BY <3>1, <1>1, <1>3, <1>4, AsksFacts
    <2> QED BY <2>1, <2>2
  <1> QED BY <1>3, <1>4, <1>5, SeqEqual

\* An envelope that left the head is a call that left the head.
LEMMA AsksTail ==
  ASSUME NEW s \in Seq(Envelopes), s # <<>>
  PROVE  Asks(s) # <<>> /\ Asks(Tail(s)) = Tail(Asks(s))
  <1>1. /\ Tail(s) \in Seq(Envelopes) /\ Len(s) \in Nat \ {0}
        /\ Len(Tail(s)) = Len(s) - 1
        /\ \A i \in 1..Len(Tail(s)) : Tail(s)[i] = s[i + 1]
    BY PopFacts
  <1>2. Asks(s) \in Seq(Variables) /\ Len(Asks(s)) = Len(s)
    BY AsksFacts
  <1>3. Asks(s) # <<>>
    BY <1>1, <1>2, EmptySeq
  <1>4. /\ Tail(Asks(s)) \in Seq(Variables) /\ Len(Tail(Asks(s))) = Len(s) - 1
        /\ \A i \in 1..(Len(s) - 1) : Tail(Asks(s))[i] = Asks(s)[i + 1]
    BY <1>2, <1>3, HeadTailProperties
  <1>5. /\ Asks(Tail(s)) \in Seq(Variables) /\ Len(Asks(Tail(s))) = Len(s) - 1
        /\ \A i \in 1..(Len(s) - 1) : Asks(Tail(s))[i] = Tail(s)[i].variables
    BY <1>1, AsksFacts
  <1>6. ASSUME NEW i \in 1..(Len(s) - 1) PROVE Asks(Tail(s))[i] = Tail(Asks(s))[i]
    <2>1. i + 1 \in 1..Len(s) /\ i \in 1..Len(Tail(s))
      BY <1>1
    <2>2. Asks(s)[i + 1] = s[i + 1].variables
      BY <2>1, AsksFacts
    <2> QED BY <2>1, <2>2, <1>1, <1>4, <1>5
  <1> QED BY <1>3, <1>4, <1>5, <1>6, SeqEqual

\* The calls that await an answer, by where the latest one is.
LEMMA UnansweredOf ==
  ASSUME NEW s \in Seq(Envelopes), NEW q \in Envelopes \cup {Null}
  PROVE  [i \in 1..Len(s) |-> s[i].variables] \o (IF q = Null THEN <<>> ELSE <<q.variables>>)
           = IF q = Null THEN Asks(s) ELSE Append(Asks(s), q.variables)
  <1>1. Asks(s) \in Seq(Variables)
    BY AsksFacts
  <1>2. CASE q = Null
    <2>1. Asks(s) \o <<>> = Asks(s)
      BY <1>1, ConcatEmptySeq
    <2> QED BY <2>1, <1>2 DEF Asks
  <1>3. CASE q # Null
    <2>1. q.variables \in Variables
      BY <1>3 DEF Envelopes
    <2>2. Asks(s) \o <<q.variables>> = Append(Asks(s), q.variables)
      BY <2>1, <1>1, AppendIsConcat
    <2> QED BY <2>2, <1>3 DEF Asks
  <1> QED BY <1>2, <1>3

\* So it is in a state.
LEMMA UnansweredIs ==
  ASSUME TypeOK
  PROVE  unanswered = IF queued = Null THEN Asks(scope) ELSE Append(Asks(scope), queued.variables)
  BY UnansweredOf DEF unanswered, TypeOK

\* And in the next one.
LEMMA UnansweredNext ==
  ASSUME TypeOK'
  PROVE  unanswered' = IF queued' = Null THEN Asks(scope') ELSE Append(Asks(scope'), queued'.variables)
  BY UnansweredOf DEF unanswered, TypeOK

\* The latest call is the last one that awaits an answer; it is the only one
\* when nothing else is outstanding.
LEMMA UnansweredFacts ==
  ASSUME OrderInv, ClickInv
  PROVE  /\ unanswered \in Seq(Variables) /\ Len(unanswered) \in Nat
         /\ unanswered = <<>> <=> Settled
         /\ ~Settled => unanswered # <<>> /\ unanswered[Len(unanswered)] = pending
         /\ scope # <<>> => (Len(unanswered) = 1 <=> IsLatest(Head(scope)))
  <1>0. TypeOK /\ NothingOutstandingWhenSettled /\ LatestIsLast
    BY DEF OrderInv
  <1>1. /\ Asks(scope) \in Seq(Variables) /\ Len(Asks(scope)) = Len(scope) /\ Len(scope) \in Nat
        /\ \A i \in 1..Len(scope) : Asks(scope)[i] = scope[i].variables
        /\ scope # <<>> => Len(scope) # 0
    BY <1>0, AsksFacts, EmptySeq DEF TypeOK
  <1>2. CASE queued = Null
    <2>1. unanswered = Asks(scope)
      BY <1>0, <1>2, UnansweredIs
    <2>2. Settled => scope = <<>>
      BY <1>0 DEF NothingOutstandingWhenSettled
    <2>3. Settled => unanswered = <<>>
      BY <2>1, <2>2, <1>1, EmptySeq
    <2>4. ~Settled => scope # <<>> /\ scope[Len(scope)].variables = pending
      BY <1>0, <1>2 DEF LatestIsLast, ClickInv, LatestIsPending
    <2>5. ~Settled => unanswered # <<>> /\ unanswered[Len(unanswered)] = pending
      <3>1. SUFFICES ASSUME ~Settled
                     PROVE  unanswered # <<>> /\ unanswered[Len(unanswered)] = pending
        OBVIOUS
      <3>2. Len(scope) # 0 /\ Len(scope) \in 1..Len(scope)
        BY <3>1, <2>4, <1>1
      <3> QED BY <3>1, <3>2, <2>1, <2>4, <1>1, EmptySeq
    <2>6. ASSUME scope # <<>> PROVE Len(unanswered) = 1 <=> IsLatest(Head(scope))
      BY <2>6, <2>1, <1>0, <1>1, <1>2, LatestIsAlone, PopFacts DEF TypeOK
    <2> QED BY <2>1, <2>3, <2>5, <2>6, <1>1
  <1>3. CASE queued # Null
    <2>1. ~Settled /\ queued.variables = pending /\ queued.variables \in Variables
      BY <1>0, <1>3 DEF NothingOutstandingWhenSettled, ClickInv, LatestIsPending, TypeOK, Envelopes
    <2>2. unanswered = Append(Asks(scope), queued.variables)
      BY <1>0, <1>3, UnansweredIs
    <2>3. /\ unanswered \in Seq(Variables) /\ unanswered # <<>>
          /\ Len(unanswered) = Len(scope) + 1
          /\ unanswered[Len(scope) + 1] = pending
      BY <2>1, <2>2, <1>1, AppendProperties
    <2>4. ASSUME scope # <<>> PROVE Len(unanswered) # 1 /\ ~IsLatest(Head(scope))
      BY <2>3, <2>4, <1>1, <1>3 DEF IsLatest
    <2> QED BY <2>1, <2>3, <2>4, <1>1
  <1> QED BY <1>2, <1>3

\* The rollback point stays what the server told last.
LEMMA HookScreen ==
  ASSUME OrderInv, ScreenInv, HookNext, Reconcile,
         \A v \in Variables : Optimistic(Undefined, v) = Undefined
  PROVE  ScreenInv'
  <1> USE DEF ScreenInv, Settled
  <1>0. TypeOK /\ NothingOutstandingWhenSettled /\ LatestIsLast
    BY DEF OrderInv
  <1>1. ASSUME NEW v \in Variables, Issue(v) PROVE ScreenInv'
    <2>1. /\ pending' = v /\ fetch' = "idle" /\ known' = known
          /\ confirmed' = IF confirmed = Null THEN cache ELSE confirmed
          /\ cache' = Coalesce(Optimistic(cache, v), cache)
      BY <1>1 DEF Issue, CancelRefetch
    <2>2. v # Undefined
      BY DistinctAssumption
    <2>3. cache = Undefined => cache' = Undefined
      BY <2>1 DEF Coalesce
    <2>4. CASE Settled
      <3>1. confirmed' = cache
        BY <2>1, <2>4, <1>0 DEF NothingOutstandingWhenSettled
      <3> QED BY <3>1, <2>1, <2>2, <2>3, <2>4
    <2>5. CASE ~Settled
      <3>1. confirmed' = confirmed
        BY <2>1, <2>5, <1>0 DEF LatestIsLast
      <3> QED BY <3>1, <2>1, <2>2, <2>3, <2>5
    <2> QED BY <2>4, <2>5
  <1>2. ASSUME NEW v \in Variables, MutateIgnored(v) PROVE ScreenInv'
    BY <1>2 DEF MutateIgnored, hookVars, cacheVars
  <1>3. CASE Retry
    <2>1. failed \in Variables /\ Issue(failed)
      BY <1>0, <1>3 DEF Retry, TypeOK
    <2> QED BY <2>1, <1>1
  <1>4. CASE DebounceFires \/ Unmount
    BY <1>4 DEF DebounceFires, Unmount, Flush, cacheVars, historyVars
  <1>5. CASE OnSuccess
    <2>1. scope # <<>> /\ known' = data /\ UNCHANGED fetch
      BY <1>5 DEF OnSuccess, HeadIsMine
    <2>2. ~Settled /\ confirmed # Null
      BY <2>1, <1>0 DEF NothingOutstandingWhenSettled, LatestIsLast
    <2>3. CASE IsLatest(Head(scope))
      BY <2>1, <2>3, <1>5 DEF OnSuccess, SettleLatest
    <2>4. CASE ~IsLatest(Head(scope))
      <3>1. data # Undefined
        BY <1>0, DistinctAssumption DEF TypeOK
      <3>2. confirmed' = data /\ UNCHANGED <<pending, cache>>
        BY <3>1, <2>2, <2>4, <1>5 DEF OnSuccess, RollbackPointAfter, Coalesce
      <3> QED BY <3>1, <3>2, <2>1, <2>2
    <2> QED BY <2>3, <2>4
  <1>6. CASE OnError
    <2>1. scope # <<>> /\ known' = known
      BY <1>6 DEF OnError, HeadIsMine, historyVars
    <2>2. ~Settled /\ confirmed # Null
      BY <2>1, <1>0 DEF NothingOutstandingWhenSettled, LatestIsLast
    <2>3. CASE IsLatest(Head(scope))
      <3>1. /\ pending' = Undefined
            /\ cache' = IF confirmed \in {Null, Undefined} THEN cache ELSE confirmed
        BY <2>3, <1>6 DEF OnError, SettleLatest
      <3> QED BY <3>1, <2>1, <2>2
    <2>4. CASE ~IsLatest(Head(scope))
      BY <2>1, <2>2, <2>4, <1>6 DEF OnError
    <2> QED BY <2>3, <2>4
  <1> QED BY <1>1, <1>2, <1>3, <1>4, <1>5, <1>6 DEF HookNext, Mutate

\* A refetch that lands finds nothing pending.
LEMMA EnvironmentScreen ==
  ASSUME ScreenInv, EnvironmentNext, ~RefetchMidWrite
  PROVE  ScreenInv'
  <1> USE DEF ScreenInv, Settled, hookVars, scopeVars, historyVars
  <1>1. CASE ServerAnswers
    BY <1>1 DEF ServerAnswers, ServerApplies, ServerRejects, cacheVars
  <1>2. CASE RefetchStarts
    BY <1>2 DEF RefetchStarts
  <1>3. CASE RefetchReads
    BY <1>3 DEF RefetchReads
  <1>4. CASE RefetchLands
    BY <1>4 DEF RefetchLands
  <1>5. CASE RefetchFails
    BY <1>5 DEF RefetchFails
  <1> QED BY <1>1, <1>2, <1>3, <1>4, <1>5 DEF EnvironmentNext

\* A call of the hook is a call of the abstract page: it is not a repeat of the
\* latest one, and it joins the calls or replaces the one still debounced.
LEMMA IssueIsCall ==
  ASSUME OrderInv, ClickInv, OrderInv', NEW v \in Variables, ~IsRepeat(v), Issue(v)
  PROVE  Screen!Call(v)
  <1> DEFINE e == [hook |-> Me, variables |-> v, seq |-> seq + 1]
  <1>0. TypeOK /\ TypeOK' /\ NothingOutstandingWhenSettled /\ LatestIsLast
    BY DEF OrderInv
  <1>1. e \in Envelopes /\ e # Null /\ e.variables = v
    BY <1>0, OptionsAssumption, NullAssumption DEF TypeOK, Issue, Envelopes
  <1>2. unanswered # <<>> => unanswered[Len(unanswered)] # v
    <2>1. SUFFICES ASSUME unanswered # <<>> PROVE unanswered[Len(unanswered)] # v
      OBVIOUS
    <2>2. ~Settled /\ unanswered[Len(unanswered)] = pending
      BY <2>1, UnansweredFacts
    <2>3. LatestPending = pending
      BY <2>2 DEF LatestPending, ClickInv, LatestIsPending
    <2> QED BY <2>2, <2>3 DEF IsRepeat, Settled
  <1>3. /\ cache' = IF Optimistic(cache, v) = Undefined THEN cache ELSE Optimistic(cache, v)
        /\ known' = known
    BY DEF Issue, Coalesce
  <1>4. /\ Asks(scope) \in Seq(Variables) /\ Len(Asks(scope)) \in Nat
        /\ scope \in Seq(Envelopes)
    BY <1>0, AsksFacts DEF TypeOK
  <1>5. \/ unanswered' = Append(unanswered, v)
        \/ unanswered # <<>> /\ unanswered' = [unanswered EXCEPT ![Len(unanswered)] = v]
    <2>1. CASE Debounce
      <3>1. queued' = e /\ scope' = scope
        BY <2>1 DEF Issue
      <3>2. unanswered' = Append(Asks(scope), v)
        BY <3>1, <1>0, <1>1, UnansweredNext
      <3>3. CASE queued = Null
        BY <3>2, <3>3, <1>0, UnansweredIs
      <3>4. CASE queued # Null
        <4>1. queued.variables \in Variables
          BY <3>4, <1>0 DEF TypeOK, Envelopes
        <4>2. unanswered = Append(Asks(scope), queued.variables)
          BY <3>4, <1>0, UnansweredIs
        <4> DEFINE n == Len(Asks(scope)) + 1
        <4>3. /\ unanswered \in Seq(Variables) /\ unanswered # <<>> /\ Len(unanswered) = n
              /\ \A i \in 1..Len(Asks(scope)) : unanswered[i] = Asks(scope)[i]
          BY <4>1, <4>2, <1>4, AppendProperties
        <4>4. /\ unanswered' \in Seq(Variables) /\ Len(unanswered') = n /\ unanswered'[n] = v
              /\ \A i \in 1..Len(Asks(scope)) : unanswered'[i] = Asks(scope)[i]
          BY <3>2, <1>4, AppendProperties
        <4>5. n \in 1..Len(unanswered)
          BY <4>3, <1>4
        <4> DEFINE replaced == [unanswered EXCEPT ![n] = v]
        <4>6. replaced \in Seq(Variables) /\ Len(replaced) = n
          BY <4>3, <4>5, ExceptSeq
        <4>7. ASSUME NEW i \in 1..n PROVE replaced[i] = unanswered'[i]
          <5>1. unanswered \in [1..n -> Variables]
            BY <4>3, LenProperties
          <5>2. CASE i = n
            BY <5>1, <5>2, <4>4
          <5>3. CASE i # n
            <6>1. i \in 1..Len(Asks(scope))
              BY <5>3, <1>4
            <6> QED BY <6>1, <5>1, <5>3, <4>3, <4>4
          <5> QED BY <5>2, <5>3
        <4>8. replaced = unanswered'
          BY <4>4, <4>6, <4>7, SeqEqual
        <4> QED BY <4>3, <4>8
      <3> QED BY <3>3, <3>4
    <2>2. CASE ~Debounce
      <3>1. queued' = queued /\ scope' = Append(scope, e)
        BY <2>2 DEF Issue, Send
      <3>2. queued = Null
        BY <2>2, <1>0 DEF LatestIsLast, NothingOutstandingWhenSettled
      <3>3. Asks(Append(scope, e)) = Append(Asks(scope), v)
        BY <1>1, <1>4, AsksAppend
      <3>4. unanswered = Asks(scope)
        BY <3>2, <1>0, UnansweredIs
      <3>5. unanswered' = Asks(scope')
        BY <3>1, <3>2, <1>0, UnansweredNext
      <3> QED BY <3>1, <3>3, <3>4, <3>5
    <2> QED BY <2>1, <2>2
  <1> QED BY <1>2, <1>3, <1>5 DEF Screen!Call

\* The debounced envelope leaves: the calls are the same.
LEMMA FlushIsStutter ==
  ASSUME OrderInv, OrderInv', Flush
  PROVE  unanswered' = unanswered
  <1>0. TypeOK /\ TypeOK'
    BY DEF OrderInv
  <1>1. queued' = Null
    BY DEF Flush
  <1>2. unanswered' = Asks(scope')
    BY <1>0, <1>1, UnansweredNext
  <1>3. CASE queued = Null
    BY <1>0, <1>2, <1>3, UnansweredIs DEF Flush
  <1>4. CASE queued # Null
    <2>1. scope' = Append(scope, queued) /\ queued \in Envelopes /\ scope \in Seq(Envelopes)
      BY <1>0, <1>4 DEF Flush, Send, TypeOK
    <2>2. Asks(scope') = Append(Asks(scope), queued.variables)
      BY <2>1, AsksAppend
    <2> QED BY <2>2, <1>0, <1>2, <1>4, UnansweredIs
  <1> QED BY <1>3, <1>4

\* The head settled: the oldest call is answered.
LEMMA PopIsTail ==
  ASSUME OrderInv, OrderInv', scope # <<>>, PopScope, UNCHANGED queued
  PROVE  unanswered # <<>> /\ unanswered' = Tail(unanswered)
  <1>0. TypeOK /\ TypeOK'
    BY DEF OrderInv
  <1>1. /\ Asks(scope) \in Seq(Variables) /\ Asks(scope) # <<>>
        /\ Asks(scope') = Tail(Asks(scope))
    BY <1>0, AsksFacts, AsksTail DEF TypeOK, PopScope
  <1>2. unanswered' = IF queued = Null THEN Asks(scope') ELSE Append(Asks(scope'), queued.variables)
    BY <1>0, UnansweredNext
  <1>3. CASE queued = Null
    BY <1>0, <1>1, <1>2, <1>3, UnansweredIs
  <1>4. CASE queued # Null
    <2>1. unanswered = Append(Asks(scope), queued.variables) /\ queued.variables \in Variables
      BY <1>0, <1>4, UnansweredIs DEF TypeOK, Envelopes
    <2>2. unanswered # <<>>
      BY <2>1, <1>1, AppendProperties
    <2>3. Tail(unanswered) = Append(Tail(Asks(scope)), queued.variables)
      BY <2>1, <1>1, HeadTailAppend
    <2> QED BY <2>2, <2>3, <1>1, <1>2, <1>4
  <1> QED BY <1>3, <1>4

\* An answer confirms or rejects the oldest call, and changes what is shown
\* only if it is the only one.
LEMMA OnSuccessIsConfirm ==
  ASSUME OrderInv, OrderInv', ClickInv, OnSuccess, Reconcile
  PROVE  Screen!Confirm(data) /\ data \in Docs
  <1>1. /\ scope # <<>> /\ PopScope /\ UNCHANGED queued /\ known' = data
    BY DEF OnSuccess, HeadIsMine
  <1>2. unanswered # <<>> /\ unanswered' = Tail(unanswered)
    BY <1>1, PopIsTail
  <1>3. Len(unanswered) = 1 <=> IsLatest(Head(scope))
    BY <1>1, UnansweredFacts
  <1>4. cache' = IF Len(unanswered) = 1 THEN data ELSE cache
    BY <1>3 DEF OnSuccess
  <1>5. data \in Docs
    BY DEF OrderInv, TypeOK
  <1> QED BY <1>1, <1>2, <1>4, <1>5 DEF Screen!Confirm

\* A rejected call that found nothing loaded may leave what an older call was
\* confirmed with: it then shows what the server told.
LEMMA OnErrorIsReject ==
  ASSUME OrderInv, OrderInv', ClickInv, ScreenInv, OnError
  PROVE  Screen!Reject \/ (Screen!Confirm(known) /\ known \in Docs)
  <1>1. scope # <<>> /\ PopScope /\ UNCHANGED queued /\ known' = known
    BY DEF OnError, HeadIsMine, historyVars
  <1>2. unanswered # <<>> /\ unanswered' = Tail(unanswered)
    BY <1>1, PopIsTail
  <1>3. Len(unanswered) = 1 <=> IsLatest(Head(scope))
    BY <1>1, UnansweredFacts
  <1>4. ~Settled /\ confirmed # Null /\ known \in Docs /\ known # Undefined
    BY <1>1, DistinctAssumption DEF OrderInv, NothingOutstandingWhenSettled, LatestIsLast, TypeOK
  <1>5. CASE ~IsLatest(Head(scope))
    <2>1. cache' = cache
      BY <1>5 DEF OnError
    <2> QED BY <2>1, <1>1, <1>2, <1>3, <1>5 DEF Screen!Reject
  <1>6. CASE IsLatest(Head(scope))
    <2>1. cache' = IF confirmed = Undefined THEN cache ELSE known
      BY <1>4, <1>6 DEF OnError, ScreenInv
    <2>2. confirmed = Undefined => cache = Undefined
      BY <1>4 DEF ScreenInv
    <2>3. CASE cache # Undefined \/ confirmed = Undefined
      BY <2>1, <2>2, <2>3, <1>1, <1>2, <1>3, <1>6 DEF Screen!Reject
    <2>4. CASE confirmed # Undefined
      BY <2>1, <2>4, <1>1, <1>2, <1>3, <1>4, <1>6 DEF Screen!Confirm
    <2> QED BY <2>3, <2>4
  <1> QED BY <1>5, <1>6

\* Every step of the hook and of what surrounds it is one of the abstract page
\* or changes nothing it speaks about.
LEMMA StepIsStep ==
  ASSUME OrderInv, OrderInv', ClickInv, ScreenInv, [Next]_vars, Reconcile, ~RefetchMidWrite
  PROVE  [Screen!Next]_(Screen!vars)
  <1> USE DEF Screen!vars
  <1>0. TypeOK /\ TypeOK' /\ NothingOutstandingWhenSettled
    BY DEF OrderInv
  <1>1. ASSUME UNCHANGED <<cache, known, scope, queued>> PROVE UNCHANGED Screen!vars
    BY <1>1 DEF unanswered
  <1>2. ASSUME NEW v \in Variables, Mutate(v) PROVE [Screen!Next]_(Screen!vars)
    <2>1. CASE IsRepeat(v)
      <3>1. UNCHANGED <<cache, known, scope, queued>>
        BY <2>1, <1>2 DEF Mutate, MutateIgnored, hookVars, scopeVars, cacheVars
      <3> QED BY <3>1, <1>1
    <2>2. CASE ~IsRepeat(v)
      BY <2>2, <1>2, IssueIsCall DEF Mutate, Screen!Next
    <2> QED BY <2>1, <2>2
  <1>3. CASE Retry
    <2>1. failed \in Variables /\ ~IsRepeat(failed) /\ Issue(failed)
      BY <1>0, <1>3 DEF Retry, TypeOK
    <2> QED BY <2>1, IssueIsCall DEF Screen!Next
  <1>4. CASE DebounceFires \/ Unmount
    <2>1. Flush
      BY <1>4 DEF DebounceFires, Unmount
    <2>2. unanswered' = unanswered
      BY <2>1, FlushIsStutter
    <2> QED BY <2>1, <2>2 DEF Flush, cacheVars, historyVars
  <1>5. CASE OnSuccess
    BY <1>5, OnSuccessIsConfirm DEF Screen!Next
  <1>6. CASE OnError
    BY <1>6, OnErrorIsReject DEF Screen!Next
  <1>7. CASE ServerAnswers \/ RefetchStarts \/ RefetchReads \/ RefetchFails
    <2>1. UNCHANGED <<cache, known, scope, queued>>
      BY <1>7 DEF ServerAnswers, ServerApplies, ServerRejects, RefetchStarts, RefetchReads,
                  RefetchFails, hookVars, scopeVars, cacheVars, historyVars
    <2> QED BY <2>1, <1>1
  <1>8. CASE RefetchLands
    <2>1. /\ cache' = fetched /\ known' = fetched /\ fetched \in Docs /\ fetch # "idle"
          /\ UNCHANGED <<scope, queued>>
      BY <1>0, <1>8 DEF RefetchLands, TypeOK, hookVars, scopeVars
    <2>2. Settled
      BY <2>1 DEF ScreenInv
    <2>3. unanswered = <<>> /\ unanswered' = unanswered
      BY <2>1, <2>2, UnansweredFacts DEF unanswered
    <2>4. Screen!Refresh(fetched)
      BY <2>1, <2>3 DEF Screen!Refresh
    <2> QED BY <2>1, <2>4 DEF Screen!Next
  <1>9. CASE UNCHANGED vars
    <2>1. UNCHANGED <<cache, known, scope, queued>>
      BY <1>9 DEF vars, hookVars, scopeVars, cacheVars, historyVars
    <2> QED BY <2>1, <1>1
  <1> QED BY <1>2, <1>3, <1>4, <1>5, <1>6, <1>7, <1>8, <1>9
      DEF Next, HookNext, EnvironmentNext

(***************************************************************************)
(* For a caller that reconciles and patches only a loaded resource, and    *)
(* without refetches started during a write, the hook implements           *)
(* WriteScreen: every call is shown at once, calls are answered in order,  *)
(* only the answer to the latest one changes the screen, and a failure     *)
(* leaves what the server told last.                                       *)
(***************************************************************************)
THEOREM HookImplementsScreen ==
  ASSUME Reconcile, ~RefetchMidWrite,
         \A v \in Variables : Optimistic(Undefined, v) = Undefined
  PROVE  Spec => ImplementsScreen
  <1>1. Init => Screen!Init
    <2> SUFFICES ASSUME Init PROVE Screen!Init
      OBVIOUS
    <2>1. known \in Docs /\ cache \in {known, Undefined} /\ scope = <<>> /\ queued = Null
      BY DEF Init
    <2>2. unanswered = <<>>
      <3>1. TypeOK
        BY InitOrder DEF OrderInv
      <3>2. Len(<<>>) = 0 /\ <<>> \in Seq(Envelopes)
        BY EmptySeq
      <3>3. Asks(<<>>) = <<>>
        BY <3>2, AsksFacts, EmptySeq
      <3> QED BY <3>1, <3>3, <2>1, UnansweredIs
    <2> QED BY <2>1, <2>2 DEF Screen!Init
  <1>2. Init => ScreenInv
    BY DEF Init, ScreenInv, Settled
  <1>3. OrderInv /\ ScreenInv /\ [Next]_vars => ScreenInv'
    <2>1. ScreenInv /\ UNCHANGED vars => ScreenInv'
      BY DEF ScreenInv, Settled, vars, hookVars, cacheVars, historyVars
    <2> QED BY <2>1, HookScreen, EnvironmentScreen DEF Next
  <1>4. OrderInv /\ OrderInv' /\ ClickInv /\ ScreenInv /\ [Next]_vars => [Screen!Next]_(Screen!vars)
    BY StepIsStep
  <1> QED BY <1>1, <1>2, <1>3, <1>4, InitOrder, OrderInductive, ClickInit, ClickInductive, PTL
      DEF Spec, ImplementsScreen, Screen!Spec

=============================================================================

----------------------------- MODULE QueryBatch -----------------------------
(***************************************************************************)
(* The read batch of the runtime (packages/runtime-react/src/              *)
(* query-batch.ts) with the identity its answers belong to                 *)
(* (cache-scope.ts), the server's cache epoch (packages/sdk/src/           *)
(* cache-epoch.ts, cache-coherence.ts) and the writes of useApi            *)
(* (api-context.tsx).                                                      *)
(*                                                                         *)
(* Reads that arrive within a window share one POST.  Their answers are    *)
(* kept per identity: metadata is served again from memory, rows are only  *)
(* reused when the server says that they did not change.  Answers travel   *)
(* while the user changes account or language, an addon is installed or a  *)
(* row is saved, and each of these must keep what is remembered, and what  *)
(* a reader is handed, true.                                               *)
(*                                                                         *)
(* A read stands for its token: "m" is the metadata of a model, "t" a list *)
(* of its rows.  An answer is the state the server read it from.           *)
(***************************************************************************)
EXTENDS Naturals, Sequences, SequencesExt

CONSTANTS
  Readers,     \* components that read through useApi
  Identities,  \* organization, user and language
  None,        \* the scope when one of them is unknown, the epoch before the first answer
  MaxWrites,   \* bound: rows saved
  MaxEpochs,   \* bound: addons changed
  MaxMoves,    \* bound: changes of identity
  MaxChanges   \* bound: of the three together

ASSUME NoneAssumption == None \notin Identities /\ None \notin Identities \X Nat
ASSUME BoundsAssumption == {MaxWrites, MaxEpochs, MaxMoves, MaxChanges} \subseteq Nat

VARIABLES
  identity,    \* whom the session token belongs to, and the language
  scope,       \* what peekCacheScope would answer
  lastScope,   \* the scope the last cacheScope() saw
  rows,        \* version of the rows on the server
  epoch,       \* version of the metadata on the server
  moves,
  current,     \* the cache epoch last observed
  pushes,      \* CACHE_EPOCH_CHANGED frames on the way
  partCache,   \* answers remembered per scope and token: {} or {answer}
  timer,       \* the window's timer runs
  unsupported, \* the server has no /q
  at,          \* where the read of a reader is
  ask,         \* its token, its scope and, of a list, the rows the server had then
  got,         \* its answer, unless it came from a GET of its own: {} or {answer}
  batches,     \* POSTs in flight, in the order they left
  write        \* a save in flight: {}, {Sent} or {answer}

serverVars == <<identity, scope, rows, epoch, moves>>
cacheVars  == <<lastScope, current, partCache>>
readVars   == <<timer, unsupported, at, ask, got, batches>>
vars == <<serverVars, pushes, cacheVars, readVars, write>>

Tokens == {"m", "t"}
Answers == [who : Identities, epoch : 0..MaxEpochs, rows : 0..MaxWrites]

\* What the server answers to somebody.
AnswerTo(who) == [who |-> who, epoch |-> epoch, rows |-> rows]
Now == AnswerTo(identity)

\* The X-Cache-Epoch header: a token for the caller's organization.
Header(a) == <<a.who, a.epoch>>

\* The etag of a part hashes its content.
Etag(t, a) == <<a.who, IF t = "m" THEN a.epoch ELSE a.rows>>

\* A save in flight that the server did not read yet.
Sent == [who |-> None]

Asks == [token : Tokens, scope : Identities \cup {None}, since : 0..MaxWrites]
Posts == [scope : Identities \cup {None}, who : Identities, readers : SUBSET Readers,
          inm : [Tokens -> SUBSET Answers], answer : SUBSET Answers, parts : SUBSET Tokens]
Resting == {"idle", "memory", "batch", "refused"}
NoAsk == [token |-> "m", scope |-> None, since |-> 0]

MayChange == rows + epoch + moves < MaxChanges

Empty == [s \in Identities |-> [t \in Tokens |-> {}]]

Init ==
  /\ identity \in Identities /\ scope = identity /\ lastScope = scope
  /\ rows = 0 /\ epoch = 0 /\ moves = 0
  /\ current = None /\ pushes = 0 /\ partCache = Empty
  /\ timer = FALSE /\ unsupported = FALSE
  /\ at = [r \in Readers |-> "idle"]
  /\ ask = [r \in Readers |-> NoAsk]
  /\ got = [r \in Readers |-> {}]
  /\ batches = <<>> /\ write = {}

-----------------------------------------------------------------------------
(***************************************************************************)
(* What is dropped.                                                        *)
(***************************************************************************)

\* Variant: rows are served from memory too.
AllServedFromMemory(t) == TRUE

\* servedFromMemory
ServedFromMemory(t) == t = "m"

\* invalidateQueryBatchData: metadata stays.
InvalidateData ==
  [s \in Identities |-> [t \in Tokens |-> IF ServedFromMemory(t) THEN partCache[s][t] ELSE {}]]

Waiting == {r \in Readers : at[r] = "window"}

\* clearQueryBatchCaches rejects the reads of the window, and batchGet answers
\* a rejected read with a GET of its own.
Rejected(readers) == [r \in Readers |-> IF r \in readers THEN "get" ELSE at[r]]

\* cacheScope() tells every cache when the scope moved since the last call.
Moved == scope # lastScope
Synced == IF Moved THEN Empty ELSE partCache
AtSynced == IF Moved THEN Rejected(Waiting) ELSE at

\* Variant: the timer keeps running.
TimerKept == timer

TimerSynced == timer /\ ~Moved

\* Variant: nobody listens to the epoch.
ObservedByNobody(a) == partCache

\* observeCacheEpoch: the first token is the baseline, another one drops
\* everything.
Observed(a) == IF current \in {None, Header(a)} THEN partCache ELSE Empty

-----------------------------------------------------------------------------
(***************************************************************************)
(* Reads.                                                                  *)
(***************************************************************************)

Asked(r, t) ==
  ask' = [ask EXCEPT ![r] = [token |-> t, scope |-> scope,
                            since |-> IF t = "t" THEN rows ELSE 0]]

\* What memory answers a read with (an entry older than 30 s is not used).
Remembered(t) ==
  IF scope # None /\ ServedFromMemory(t) THEN Synced[scope][t] ELSE {}

\* batchGet with a server that has no /q
ReadPlain(r, t) ==
  /\ unsupported /\ at[r] \in Resting
  /\ Asked(r, t) /\ at' = [at EXCEPT ![r] = "get"] /\ got' = [got EXCEPT ![r] = {}]
  /\ UNCHANGED <<serverVars, pushes, cacheVars, timer, unsupported, batches, write>>

\* loadQueryPart from memory
ReadMemory(r, t) ==
  /\ ~unsupported /\ at[r] \in Resting
  /\ Remembered(t) # {}
  /\ Asked(r, t)
  /\ at' = [AtSynced EXCEPT ![r] = "memory"]
  /\ got' = [got EXCEPT ![r] = Remembered(t)]
  /\ lastScope' = scope /\ partCache' = Synced /\ timer' = TimerSynced
  /\ UNCHANGED <<serverVars, pushes, current, unsupported, batches, write>>

\* loadQueryPart into the window, whose timer the first read starts
ReadWindow(r, t) ==
  /\ ~unsupported /\ at[r] \in Resting
  /\ Asked(r, t)
  /\ at' = [AtSynced EXCEPT ![r] = "window"]
  /\ got' = [got EXCEPT ![r] = {}]
  /\ lastScope' = scope /\ partCache' = Synced /\ timer' = TRUE
  /\ UNCHANGED <<serverVars, pushes, current, unsupported, batches, write>>

\* The reads of the window that may travel under the scope of now.
Batch == {r \in Waiting : ask[r].scope = scope}

\* The etags sent along.
Inm(readers) ==
  [t \in Tokens |->
     IF scope # None /\ \E r \in readers : ask[r].token = t THEN Synced[scope][t] ELSE {}]

\* The POST of a window.
Post(readers) ==
  IF readers = {} THEN batches
  ELSE Append(batches, [scope |-> scope, who |-> identity, readers |-> readers,
                        inm |-> Inm(readers), answer |-> {}, parts |-> {}])

\* flushQueryBatch up to its POST
Flush ==
  /\ timer /\ timer' = FALSE
  /\ lastScope' = scope /\ partCache' = Synced
  /\ at' = [r \in Readers |-> IF r \in Batch THEN "travelling" ELSE Rejected(Waiting)[r]]
  /\ batches' = Post(Batch)
  /\ UNCHANGED <<serverVars, pushes, current, unsupported, ask, got, write>>

\* The server reads a batch; some of its parts may fail.
BatchReads(i) ==
  /\ batches[i].answer = {}
  /\ \E parts \in SUBSET {ask[r].token : r \in batches[i].readers} :
        batches' = [batches EXCEPT ![i] =
                      [@ EXCEPT !.answer = {AnswerTo(batches[i].who)}, !.parts = parts]]
  /\ UNCHANGED <<serverVars, pushes, cacheVars, timer, unsupported, at, ask, got, write>>

\* A part comes back as not_modified when the etag sent still is that of the
\* content.
NotModified(b, t, new) == \E a \in b.inm[t] : Etag(t, a) = Etag(t, new)

\* The scope captured before the POST.
ScopeOf(b) == b.scope

\* Variant: whoever asked is answered.
AnsweredAnyway(b) == TRUE

StillMine(b) == scope = ScopeOf(b)

\* What the reads of token t are handed; held is what is remembered once the
\* header was observed and cacheScope() called.
Part(b, t, new, held) ==
  IF ~StillMine(b) \/ t \notin b.parts THEN {}
  ELSE IF NotModified(b, t, new) THEN held[ScopeOf(b)][t] ELSE {new}

\* flushQueryBatch after its POST, with the interceptor that ran before; a
\* part that failed is refused (403, 424) or asked again with a GET.
BatchLands(i) ==
  /\ \E new \in batches[i].answer, denied \in SUBSET (Tokens \ batches[i].parts) :
        LET b    == batches[i]
            held == IF Moved THEN Empty ELSE Observed(new)
            Stored(s, t) == s = ScopeOf(b) /\ StillMine(b) /\ t \in b.parts /\ ~NotModified(b, t, new)
            Handed(r) == Part(b, ask[r].token, new, held)
        IN /\ current' = Header(new) /\ lastScope' = scope
           /\ partCache' = [s \in Identities |-> [t \in Tokens |->
                              IF Stored(s, t) THEN {new} ELSE held[s][t]]]
           /\ at' = [r \in Readers |->
                       CASE r \notin b.readers -> AtSynced[r]
                         [] r \in b.readers /\ Handed(r) # {} -> "batch"
                         [] r \in b.readers /\ StillMine(b) /\ ask[r].token \in denied -> "refused"
                         [] OTHER -> "get"]
           /\ got' = [r \in Readers |-> IF r \in b.readers THEN Handed(r) ELSE got[r]]
  /\ timer' = TimerSynced
  /\ batches' = RemoveAt(batches, i)
  /\ UNCHANGED <<serverVars, pushes, unsupported, ask, write>>

\* A request that fails may still report the epoch of its answer.
Reported(answer) ==
  \/ UNCHANGED <<current, partCache>>
  \/ \E a \in answer : current' = Header(a) /\ partCache' = Observed(a)

\* The POST fails, or is answered without success: its readers ask again with
\* a GET, with 404 or 405 for good, unless it was refused (403, 424).
BatchFails(i) ==
  /\ Reported(batches[i].answer)
  /\ \/ at' = Rejected(batches[i].readers) /\ unsupported' \in {unsupported, TRUE}
     \/ /\ at' = [r \in Readers |-> IF r \in batches[i].readers THEN "refused" ELSE at[r]]
        /\ UNCHANGED unsupported
  /\ batches' = RemoveAt(batches, i)
  /\ UNCHANGED <<serverVars, pushes, lastScope, timer, ask, got, write>>

\* What a GET of its own answered, or that it failed, is the caller's.
Finished(r) ==
  /\ at' = [at EXCEPT ![r] = "idle"] /\ got' = [got EXCEPT ![r] = {}]
  /\ ask' = [ask EXCEPT ![r] = NoAsk]

\* plainGet
GetReads(r) ==
  /\ at[r] = "get" /\ got[r] = {}
  /\ got' = [got EXCEPT ![r] = {Now}]
  /\ UNCHANGED <<serverVars, pushes, cacheVars, timer, unsupported, at, ask, batches, write>>

GetLands(r) ==
  /\ at[r] = "get"
  /\ \E a \in got[r] : current' = Header(a) /\ partCache' = Observed(a)
  /\ Finished(r)
  /\ UNCHANGED <<serverVars, pushes, lastScope, timer, unsupported, batches, write>>

GetFails(r) ==
  /\ at[r] = "get"
  /\ Reported(got[r])
  /\ Finished(r)
  /\ UNCHANGED <<serverVars, pushes, lastScope, timer, unsupported, batches, write>>

-----------------------------------------------------------------------------
(***************************************************************************)
(* Saves, addons, sessions.                                                *)
(***************************************************************************)

\* mutating(request), before and after
WriteStarts ==
  /\ write = {} /\ write' = {Sent}
  /\ partCache' = InvalidateData
  /\ UNCHANGED <<serverVars, pushes, lastScope, current, readVars>>

\* The host API saves the row, or refuses to.
WriteApplies ==
  /\ write = {Sent}
  /\ rows' = rows \/ (rows < MaxWrites /\ MayChange /\ rows' = rows + 1)
  /\ write' = {[who |-> identity, epoch |-> epoch, rows |-> rows']}
  /\ UNCHANGED <<identity, scope, epoch, moves, pushes, cacheVars, readVars>>

\* Its answer, of either kind.
WriteSettles ==
  /\ \E a \in write :
        /\ a # Sent
        /\ current' = Header(a)
        /\ partCache' = IF current \in {None, Header(a)} THEN InvalidateData ELSE Empty
  /\ write' = {}
  /\ UNCHANGED <<serverVars, pushes, lastScope, readVars>>

\* No answer, whether the row was saved or not.
WriteFails ==
  /\ write # {} /\ write' = {}
  /\ partCache' = InvalidateData
  /\ UNCHANGED <<serverVars, pushes, lastScope, current, readVars>>

\* An addon is installed or upgraded; the frame that says so may be lost.
AddonChanges ==
  /\ epoch < MaxEpochs /\ MayChange /\ epoch' = epoch + 1
  /\ pushes' \in {pushes, pushes + 1}
  /\ UNCHANGED <<identity, scope, rows, moves, cacheVars, readVars, write>>

\* wireCacheEpochPush: the next header is the baseline.
PushArrives ==
  /\ pushes > 0 /\ pushes' = pushes - 1
  /\ current' = None /\ partCache' = Empty
  /\ UNCHANGED <<serverVars, lastScope, readVars, write>>

\* Sign-in, sign-out or another language: the token is there before auth_user,
\* and while they disagree the scope is unknown.
IdentityMoves ==
  /\ moves < MaxMoves /\ MayChange /\ moves' = moves + 1
  /\ \E i \in Identities : \E s \in {None, i} :
        <<i, s>> # <<identity, scope>> /\ identity' = i /\ scope' = s
  /\ UNCHANGED <<rows, epoch, pushes, cacheVars, readVars, write>>

UserIsKnown ==
  /\ scope = None /\ scope' = identity
  /\ UNCHANGED <<identity, rows, epoch, moves, pushes, cacheVars, readVars, write>>

\* syncCacheScope, on a storage event or when the window gets the focus
SyncCacheScope ==
  /\ Moved
  /\ lastScope' = scope /\ partCache' = Synced /\ at' = AtSynced /\ timer' = TimerSynced
  /\ UNCHANGED <<serverVars, pushes, current, unsupported, ask, got, batches, write>>

\* clearQueryBatchCaches, called by the host
ClearQueryBatchCaches ==
  /\ partCache' = Empty /\ at' = Rejected(Waiting) /\ timer' = FALSE
  /\ UNCHANGED <<serverVars, pushes, lastScope, current, unsupported, ask, got, batches, write>>

Next ==
  \/ \E r \in Readers :
        \/ \E t \in Tokens : ReadPlain(r, t) \/ ReadMemory(r, t) \/ ReadWindow(r, t)
        \/ GetReads(r) \/ GetLands(r) \/ GetFails(r)
  \/ Flush
  \/ \E i \in DOMAIN batches : BatchReads(i) \/ BatchLands(i) \/ BatchFails(i)
  \/ WriteStarts \/ WriteApplies \/ WriteSettles \/ WriteFails
  \/ AddonChanges \/ PushArrives
  \/ IdentityMoves \/ UserIsKnown \/ SyncCacheScope \/ ClearQueryBatchCaches

Spec == Init /\ [][Next]_vars

\* The window's timer fires, and requests are answered.
Fairness ==
  /\ WF_vars(Flush)
  /\ WF_vars(\E i \in DOMAIN batches : BatchReads(i))
  /\ WF_vars(\E i \in DOMAIN batches : BatchLands(i))
  /\ \A r \in Readers : WF_vars(GetReads(r)) /\ WF_vars(GetLands(r))

FairSpec == Spec /\ Fairness

-----------------------------------------------------------------------------
(***************************************************************************)
(* Properties.                                                             *)
(***************************************************************************)

ServerTypes ==
  /\ identity \in Identities /\ scope \in {None, identity}
  /\ rows \in 0..MaxWrites /\ epoch \in 0..MaxEpochs /\ moves \in 0..MaxMoves
  /\ pushes \in 0..epoch /\ write \in SUBSET (Answers \cup {Sent})

CacheTypes ==
  /\ lastScope \in Identities \cup {None}
  /\ current \in {None} \cup (Identities \X (0..MaxEpochs))
  /\ partCache \in [Identities -> [Tokens -> SUBSET Answers]]

ReadTypes ==
  /\ timer \in BOOLEAN /\ unsupported \in BOOLEAN
  /\ at \in [Readers -> Resting \cup {"window", "travelling", "get"}]
  /\ ask \in [Readers -> Asks] /\ got \in [Readers -> SUBSET Answers]

\* State is well typed, and no POST travels for nobody.
TypeOK ==
  /\ ServerTypes /\ CacheTypes /\ ReadTypes
  /\ batches \in Seq(Posts) /\ \A i \in DOMAIN batches : batches[i].readers # {}

\* A read in the window is never forgotten, and the timer never fires for
\* nothing: whatever clears the caches in between stops it and answers them.
WindowIsTimed == timer <=> Waiting # {}

\* What is remembered for an identity was answered to it, however the account
\* or language moved while the answer travelled (cache-scope.ts 1-5).
RememberedBelongs ==
  \A s \in Identities : \A t \in Tokens : \A a \in partCache[s][t] : a.who = s

\* What is remembered was read at the cache epoch last observed: neither an
\* answer overtaken by a push nor one overtaken by another answer survives
\* the observation that makes it stale (invalidateQueryBatchAll).
RememberedIsCurrent ==
  \A s \in Identities : \A t \in Tokens : \A a \in partCache[s][t] : Header(a) = current

\* "Neither the answer (rows or not_modified) nor the caches of the previous
\* identity may reach this reader": who is handed an answer from memory or by
\* the batch under a known scope is still who asked, and it is theirs.
HandedInScope ==
  [][\A r \in Readers :
        at'[r] \in {"memory", "batch"} /\ at[r] # at'[r] /\ ask'[r].scope # None =>
           scope = ask'[r].scope /\ \A a \in got'[r] : a.who = scope]_vars

\* What a POST in flight is about: whose it is, what it sent, and who waits.
PostIsItsOwn(b) ==
  /\ b.scope \in {None, b.who}
  /\ \A a \in b.answer : a.who = b.who
  /\ b.scope = None => b.inm = [t \in Tokens |-> {}]
  /\ \A r \in b.readers : at[r] = "travelling" /\ ask[r].scope = b.scope

PostsAreApart ==
  \A i, j \in DOMAIN batches : i # j => batches[i].readers \cap batches[j].readers = {}

\* Why answers and caches stay with their identity: an inductive invariant.
BatchInv ==
  /\ TypeOK /\ WindowIsTimed /\ RememberedBelongs /\ RememberedIsCurrent
  /\ \A i \in DOMAIN batches : PostIsItsOwn(batches[i])
  /\ PostsAreApart

\* Every read ends, whichever way its batch, window or identity went.
EveryReadEnds == \A r \in Readers : at[r] \notin Resting ~> at[r] \in Resting
=============================================================================

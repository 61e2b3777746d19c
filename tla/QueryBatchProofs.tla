-------------------------- MODULE QueryBatchProofs --------------------------
(***************************************************************************)
(* Theorems about QueryBatch, for every set of readers and identities and  *)
(* any number of saves, addon changes and changes of identity.             *)
(***************************************************************************)
EXTENDS QueryHistory, SequenceTheorems, TLAPS

\* A cache whose answers belong to their identity and to epoch token e.
CacheTrue(c, e) ==
  /\ c \in [Identities -> [Tokens -> SUBSET Answers]]
  /\ \A s \in Identities : \A t \in Tokens : \A a \in c[s][t] : a.who = s /\ Header(a) = e

\* Of a cache, two invariants say that it is true of the epoch last observed.
LEMMA CacheFacts ==
  ASSUME CacheTypes, RememberedBelongs, RememberedIsCurrent
  PROVE  CacheTrue(partCache, current)
  BY DEF CacheTypes, RememberedBelongs, RememberedIsCurrent, CacheTrue

\* An empty cache is true of any epoch.
LEMMA EmptyIsTrue == ASSUME NEW e PROVE CacheTrue(Empty, e)
  BY DEF CacheTrue, Empty

\* An answer's owner is known, and its header is a cache epoch.
LEMMA HeaderType ==
  ASSUME NEW a \in Answers
  PROVE  /\ a.who \in Identities /\ Header(a) \in Identities \X (0..MaxEpochs)
         /\ Header(a) # None
  <1>1. a.who \in Identities /\ a.epoch \in 0..MaxEpochs
    BY DEF Answers
  <1>2. Header(a) \in Identities \X (0..MaxEpochs) /\ Header(a) \in Identities \X Nat
    BY <1>1, BoundsAssumption DEF Header
  <1> QED BY <1>1, <1>2, NoneAssumption

\* Whatever drops answers keeps the others true.
LEMMA DropsAreTrue ==
  ASSUME CacheTrue(partCache, current)
  PROVE  /\ CacheTrue(Synced, current) /\ CacheTrue(InvalidateData, current)
         /\ \A a \in Answers : CacheTrue(Observed(a), Header(a))
  <1>1. CacheTrue(Synced, current)
    BY EmptyIsTrue DEF Synced
  <1>2. CacheTrue(InvalidateData, current)
    BY DEF CacheTrue, InvalidateData
  <1>3. ASSUME NEW a \in Answers PROVE CacheTrue(Observed(a), Header(a))
    <2>1. CASE current = None
      <3>1. \A s \in Identities : \A t \in Tokens : partCache[s][t] = {}
        BY <2>1, HeaderType DEF CacheTrue
      <3>2. CacheTrue(partCache, Header(a))
        BY <3>1 DEF CacheTrue
      <3> QED BY <2>1, <3>2 DEF Observed
    <2>2. CASE current = Header(a)
      BY <2>2 DEF Observed
    <2>3. CASE current \notin {None, Header(a)}
      BY <2>3, EmptyIsTrue DEF Observed
    <2> QED BY <2>1, <2>2, <2>3
  <1> QED BY <1>1, <1>2, <1>3

\* What a request that fails reports drops answers too.
LEMMA ReportedIsTrue ==
  ASSUME CacheTypes, CacheTrue(partCache, current), NEW S \in SUBSET Answers, Reported(S)
  PROVE  /\ current' \in {None} \cup (Identities \X (0..MaxEpochs))
         /\ CacheTrue(partCache', current')
  <1>1. CASE UNCHANGED <<current, partCache>>
    BY <1>1 DEF CacheTypes
  <1>2. CASE \E a \in S : current' = Header(a) /\ partCache' = Observed(a)
    BY <1>2, DropsAreTrue, HeaderType
  <1> QED BY <1>1, <1>2 DEF Reported

\* A POST that ended is taken out, and the others stay in their order.
LEMMA RemoveAtFacts ==
  ASSUME NEW S, NEW s \in Seq(S), NEW i \in 1..Len(s)
  PROVE  /\ RemoveAt(s, i) \in Seq(S)
         /\ Len(RemoveAt(s, i)) = Len(s) - 1
         /\ \A j \in 1..(Len(s) - 1) : RemoveAt(s, i)[j] = s[IF j < i THEN j ELSE j + 1]
  <1>0. Len(s) \in Nat /\ i \in Nat
    BY LenProperties
  <1> DEFINE a == SubSeq(s, 1, i - 1)
             b == SubSeq(s, i + 1, Len(s))
  <1>1. a \in Seq(S) /\ Len(a) = i - 1 /\ \A j \in 1..(i - 1) : a[j] = s[j]
    BY <1>0, SubSeqProperties
  <1>2. b \in Seq(S) /\ Len(b) = Len(s) - i /\ \A j \in 1..(Len(s) - i) : b[j] = s[i + j]
    BY <1>0, SubSeqProperties
  <1>3. /\ a \o b \in Seq(S) /\ Len(a \o b) = Len(a) + Len(b)
        /\ \A j \in 1..(Len(a) + Len(b)) : (a \o b)[j] = IF j <= Len(a) THEN a[j] ELSE b[j - Len(a)]
    BY <1>1, <1>2, ConcatProperties
  <1>4. RemoveAt(s, i) = a \o b
    BY DEF RemoveAt
  <1> HIDE DEF a, b
  <1>5. ASSUME NEW j \in 1..(Len(s) - 1)
        PROVE (a \o b)[j] = s[IF j < i THEN j ELSE j + 1]
    <2>1. CASE j < i
      BY <2>1, <1>0, <1>1, <1>2, <1>3
    <2>2. CASE ~(j < i)
      <3>1. (a \o b)[j] = b[j - (i - 1)]
        BY <2>2, <1>0, <1>1, <1>2, <1>3
      <3>2. j - (i - 1) \in 1..(Len(s) - i) /\ i + (j - (i - 1)) = j + 1
        BY <2>2, <1>0
      <3> QED BY <3>1, <3>2, <2>2, <1>0, <1>2
    <2> QED BY <2>1, <2>2
  <1>6. Len(a) + Len(b) = Len(s) - 1
    BY <1>0, <1>1, <1>2
  <1> QED BY <1>3, <1>4, <1>5, <1>6

States == Resting \cup {"window", "travelling", "get"}

\* The posts' part of the invariant, of any reader states and asks.
PostsTrue ==
  /\ batches \in Seq(Posts)
  /\ \A i \in DOMAIN batches : batches[i].readers # {} /\ PostIsItsOwn(batches[i])
  /\ PostsAreApart

\* The invariant, in the parts that the steps disturb one by one.
LEMMA Parts ==
  ASSUME BatchInv
  PROVE  /\ TypeOK /\ ServerTypes /\ CacheTypes /\ ReadTypes /\ WindowIsTimed
         /\ CacheTrue(partCache, current) /\ PostsTrue
  <1>1. ServerTypes /\ CacheTypes /\ ReadTypes /\ TypeOK /\ WindowIsTimed
    BY DEF BatchInv, TypeOK
  <1>2. CacheTrue(partCache, current)
    BY <1>1, CacheFacts DEF BatchInv
  <1>3. PostsTrue
    BY <1>1 DEF BatchInv, TypeOK, PostsTrue
  <1> QED BY <1>1, <1>2, <1>3

\* The parts make the invariant of the next state.
LEMMA Assembled ==
  ASSUME ServerTypes', ReadTypes', WindowIsTimed', PostsTrue',
         lastScope' \in Identities \cup {None},
         current' \in {None} \cup (Identities \X (0..MaxEpochs)),
         CacheTrue(partCache', current')
  PROVE  BatchInv'
  <1>1. CacheTypes' /\ RememberedBelongs' /\ RememberedIsCurrent'
    BY DEF CacheTrue, CacheTypes, RememberedBelongs, RememberedIsCurrent
  <1> QED BY <1>1 DEF BatchInv, TypeOK, PostsTrue

\* POSTs in flight do not mind what other reads do.
LEMMA PostsKept ==
  ASSUME PostsTrue, batches' = batches,
         \A r \in Readers : at[r] = "travelling" => at'[r] = "travelling" /\ ask'[r] = ask[r]
  PROVE  PostsTrue'
  <1>1. ASSUME NEW i \in DOMAIN batches
        PROVE  PostIsItsOwn(batches[i])'
    <2>1. batches[i] \in Posts /\ PostIsItsOwn(batches[i]) /\ batches'[i] = batches[i]
      BY <1>1, ElementOfSeq DEF PostsTrue
    <2>2. batches[i].readers \subseteq Readers
      BY <2>1 DEF Posts
    <2> QED BY <2>1, <2>2 DEF PostIsItsOwn
  <1> QED BY <1>1 DEF PostsTrue, PostsAreApart

\* Rejecting the window's reads empties it and leaves the others alone.
LEMMA RejectedFacts ==
  ASSUME ReadTypes
  PROVE  /\ Rejected(Waiting) \in [Readers -> States]
         /\ \A r \in Readers : Rejected(Waiting)[r] # "window"
         /\ \A r \in Readers : at[r] = "travelling" => Rejected(Waiting)[r] = "travelling"
  BY DEF ReadTypes, Rejected, Waiting, States, Resting

\* cacheScope() rejects the window's reads exactly when it stops its timer.
LEMMA SyncFacts ==
  ASSUME ReadTypes, WindowIsTimed
  PROVE  /\ AtSynced \in [Readers -> States]
         /\ \A r \in Readers : at[r] = "travelling" => AtSynced[r] = "travelling"
         /\ TimerSynced \in BOOLEAN
         /\ TimerSynced <=> \E r \in Readers : AtSynced[r] = "window"
  <1>1. at \in [Readers -> States] /\ timer \in BOOLEAN
    BY DEF ReadTypes, States
  <1>2. timer <=> \E r \in Readers : at[r] = "window"
    BY DEF WindowIsTimed, Waiting
  <1>3. CASE Moved
    <2>1. AtSynced = Rejected(Waiting)
      BY <1>3 DEF AtSynced
    <2>2. ~TimerSynced /\ TimerSynced \in BOOLEAN
      BY <1>3 DEF TimerSynced
    <2>3. ~ \E r \in Readers : AtSynced[r] = "window"
      BY <2>1, RejectedFacts
    <2> QED BY <2>1, <2>2, <2>3, RejectedFacts
  <1>4. CASE ~Moved
    <2>1. AtSynced = at /\ (TimerSynced <=> timer) /\ TimerSynced \in BOOLEAN
      BY <1>1, <1>4 DEF AtSynced, TimerSynced
    <2> QED BY <2>1, <1>1, <1>2
  <1> QED BY <1>3, <1>4

\* The reads start: by a GET, from memory, or in the window.
LEMMA ReadStep ==
  ASSUME BatchInv, NEW r \in Readers, NEW t \in Tokens,
         ReadPlain(r, t) \/ ReadMemory(r, t) \/ ReadWindow(r, t)
  PROVE  BatchInv'
  <1>0. /\ ServerTypes /\ CacheTypes /\ ReadTypes /\ WindowIsTimed
        /\ CacheTrue(partCache, current) /\ PostsTrue
    BY Parts
  <1>1. ServerTypes' /\ current' = current /\ batches' = batches /\ unsupported' = unsupported
    BY <1>0 DEF ServerTypes, ReadPlain, ReadMemory, ReadWindow, serverVars, cacheVars
  <1>2. at[r] \in Resting
    BY DEF ReadPlain, ReadMemory, ReadWindow
  <1>3. ask' \in [Readers -> Asks] /\ \A q \in Readers : q # r => ask'[q] = ask[q]
    <2>1. rows \in 0..MaxWrites /\ 0 \in 0..MaxWrites
      BY <1>0, BoundsAssumption DEF ServerTypes
    <2>2. [token |-> t, scope |-> scope, since |-> IF t = "t" THEN rows ELSE 0] \in Asks
      BY <2>1, <1>0 DEF Asks, ServerTypes
    <2>3. Asked(r, t)
      BY DEF ReadPlain, ReadMemory, ReadWindow
    <2> QED BY <2>2, <2>3, <1>0 DEF Asked, ReadTypes
  <1>4. CASE ReadPlain(r, t)
    <2>1. at' = [at EXCEPT ![r] = "get"] /\ got' = [got EXCEPT ![r] = {}] /\ timer' = timer
          /\ lastScope' = lastScope /\ partCache' = partCache
      BY <1>4 DEF ReadPlain, cacheVars
    <2>2. ReadTypes'
      BY <2>1, <1>0, <1>1, <1>3 DEF ReadTypes
    <2>3. WindowIsTimed'
      BY <2>1, <1>0, <1>2 DEF WindowIsTimed, Waiting, ReadTypes, Resting
    <2>4. PostsTrue'
      BY <2>1, <1>0, <1>1, <1>2, <1>3, PostsKept DEF ReadTypes, Resting
    <2> QED BY <2>1, <2>2, <2>3, <2>4, <1>0, <1>1, Assembled DEF CacheTypes
  <1>5. CASE ReadMemory(r, t)
    <2>1. at' = [AtSynced EXCEPT ![r] = "memory"] /\ got' = [got EXCEPT ![r] = Remembered(t)]
          /\ timer' = TimerSynced /\ lastScope' = scope /\ partCache' = Synced
      BY <1>5 DEF ReadMemory
    <2>2. Remembered(t) \in SUBSET Answers
      <3>1. CacheTrue(Synced, current)
        BY <1>0, DropsAreTrue
      <3> QED BY <3>1, <1>0 DEF Remembered, CacheTrue, ServerTypes
    <2>3. ReadTypes'
      BY <2>1, <2>2, <1>0, <1>1, <1>3, SyncFacts DEF ReadTypes, States, Resting
    <2>4. WindowIsTimed'
      <3>1. AtSynced[r] # "window"
        BY <1>0, <1>2, SyncFacts DEF AtSynced, Rejected, Waiting, ReadTypes, Resting
      <3>2. \A q \in Readers : at'[q] = "window" <=> AtSynced[q] = "window"
        BY <2>1, <3>1, <1>0, SyncFacts
      <3> QED BY <2>1, <3>2, <1>0, SyncFacts DEF WindowIsTimed, Waiting
    <2>5. PostsTrue'
      <3>1. \A q \in Readers : at[q] = "travelling" => at'[q] = "travelling" /\ ask'[q] = ask[q]
        BY <2>1, <1>0, <1>2, <1>3, SyncFacts DEF Resting
      <3> QED BY <3>1, <1>0, <1>1, PostsKept
    <2>6. CacheTrue(partCache', current') /\ lastScope' \in Identities \cup {None}
      BY <2>1, <1>0, <1>1, DropsAreTrue DEF ServerTypes
    <2> QED BY <2>3, <2>4, <2>5, <2>6, <1>0, <1>1, Assembled DEF CacheTypes
  <1>6. CASE ReadWindow(r, t)
    <2>1. at' = [AtSynced EXCEPT ![r] = "window"] /\ got' = [got EXCEPT ![r] = {}]
          /\ timer' = TRUE /\ lastScope' = scope /\ partCache' = Synced
      BY <1>6 DEF ReadWindow
    <2>2. ReadTypes'
      BY <2>1, <1>0, <1>1, <1>3, SyncFacts DEF ReadTypes, States, Resting
    <2>3. WindowIsTimed'
      <3>1. at'[r] = "window"
        BY <2>1, <1>0, SyncFacts
      <3> QED BY <2>1, <3>1 DEF WindowIsTimed, Waiting
    <2>4. PostsTrue'
      <3>1. \A q \in Readers : at[q] = "travelling" => at'[q] = "travelling" /\ ask'[q] = ask[q]
        BY <2>1, <1>0, <1>2, <1>3, SyncFacts DEF Resting
      <3> QED BY <3>1, <1>0, <1>1, PostsKept
    <2>5. CacheTrue(partCache', current') /\ lastScope' \in Identities \cup {None}
      BY <2>1, <1>0, <1>1, DropsAreTrue DEF ServerTypes
    <2> QED BY <2>2, <2>3, <2>4, <2>5, <1>0, <1>1, Assembled DEF CacheTypes
  <1> QED BY <1>4, <1>5, <1>6

\* A GET of its own is asked, answered or refused.
LEMMA GetStep ==
  ASSUME BatchInv, NEW r \in Readers, GetReads(r) \/ GetLands(r) \/ GetFails(r)
  PROVE  BatchInv'
  <1>0. /\ ServerTypes /\ CacheTypes /\ ReadTypes /\ WindowIsTimed
        /\ CacheTrue(partCache, current) /\ PostsTrue
    BY Parts
  <1>1. /\ ServerTypes' /\ batches' = batches /\ unsupported' = unsupported /\ timer' = timer
        /\ lastScope' = lastScope /\ at[r] = "get"
    BY <1>0 DEF ServerTypes, GetReads, GetLands, GetFails, serverVars, cacheVars
  <1>2. /\ \A q \in Readers : q # r => at'[q] = at[q] /\ ask'[q] = ask[q]
        /\ at'[r] # "window" /\ ReadTypes'
    <2>1. CASE GetReads(r)
      <3>1. Now \in Answers
        BY <1>0 DEF Now, AnswerTo, Answers, ServerTypes
      <3> QED BY <3>1, <2>1, <1>0, <1>1 DEF GetReads, ReadTypes
    <2>2. CASE GetLands(r) \/ GetFails(r)
      <3>1. Finished(r)
        BY <2>2 DEF GetLands, GetFails
      <3>2. NoAsk \in Asks
        BY BoundsAssumption DEF NoAsk, Asks, Tokens
      <3> QED BY <3>1, <3>2, <1>0, <1>1 DEF Finished, ReadTypes, Resting
    <2> QED BY <2>1, <2>2
  <1>3. WindowIsTimed'
    BY <1>0, <1>1, <1>2 DEF WindowIsTimed, Waiting
  <1>4. PostsTrue'
    BY <1>0, <1>1, <1>2, PostsKept
  <1>5. /\ current' \in {None} \cup (Identities \X (0..MaxEpochs))
        /\ CacheTrue(partCache', current')
    <2>1. CASE GetLands(r)
      <3>1. PICK a \in got[r] : current' = Header(a) /\ partCache' = Observed(a)
        BY <2>1 DEF GetLands
      <3>2. a \in Answers
        BY <1>0 DEF ReadTypes
      <3> QED BY <3>1, <3>2, <1>0, DropsAreTrue, HeaderType
    <2>2. CASE GetReads(r)
      BY <2>2, <1>0 DEF GetReads, cacheVars, CacheTypes
    <2>3. CASE GetFails(r)
      <3>1. PICK S \in SUBSET Answers : S = got[r]
        BY <1>0 DEF ReadTypes
      <3>2. Reported(S)
        BY <2>3, <3>1 DEF GetFails
      <3> QED BY <3>2, <1>0, ReportedIsTrue
    <2> QED BY <2>1, <2>2, <2>3
  <1> QED BY <1>0, <1>1, <1>2, <1>3, <1>4, <1>5, Assembled DEF CacheTypes

\* The window leaves as one POST, of the reads that are still of its scope.
LEMMA FlushStep ==
  ASSUME BatchInv, Flush
  PROVE  BatchInv'
  <1>0. /\ ServerTypes /\ CacheTypes /\ ReadTypes /\ WindowIsTimed
        /\ CacheTrue(partCache, current) /\ PostsTrue
    BY Parts
  <1> DEFINE new == [scope |-> scope, who |-> identity, readers |-> Batch,
                     inm |-> Inm(Batch), answer |-> {}, parts |-> {}]
  <1>1. /\ ServerTypes' /\ timer' = FALSE /\ unsupported' = unsupported /\ ask' = ask
        /\ got' = got /\ current' = current /\ lastScope' = scope /\ partCache' = Synced
        /\ batches' = Post(Batch)
        /\ at' = [r \in Readers |-> IF r \in Batch THEN "travelling" ELSE Rejected(Waiting)[r]]
    BY <1>0 DEF ServerTypes, Flush, serverVars
  <1>2. ReadTypes'
    BY <1>0, <1>1, RejectedFacts DEF ReadTypes, States
  <1>3. WindowIsTimed'
    BY <1>0, <1>1, RejectedFacts DEF WindowIsTimed, Waiting
  <1>4. CacheTrue(Synced, current)
    BY <1>0, DropsAreTrue
  <1>5. \A r \in Readers : at[r] = "travelling" => at'[r] = "travelling"
    BY <1>0, <1>1, RejectedFacts
  <1>6. CASE Batch = {}
    <2>1. batches' = batches
      BY <1>1, <1>6 DEF Post
    <2>2. PostsTrue'
      BY <2>1, <1>0, <1>1, <1>5, PostsKept
    <2> QED BY <2>2, <1>0, <1>1, <1>2, <1>3, <1>4, Assembled DEF CacheTypes, ServerTypes
  <1>7. CASE Batch # {}
    <2>1. batches' = Append(batches, new)
      BY <1>1, <1>7 DEF Post
    <2>2. Batch \subseteq Readers /\ \A r \in Batch : at[r] = "window" /\ ask[r].scope = scope
      BY DEF Batch, Waiting
    <2>3. Inm(Batch) \in [Tokens -> SUBSET Answers]
      <3>1. ASSUME scope # None, NEW t \in Tokens PROVE Synced[scope][t] \in SUBSET Answers
        <4>1. scope \in Identities
          BY <3>1, <1>0 DEF ServerTypes
        <4> QED BY <4>1, <1>4 DEF CacheTrue
      <3> QED BY <3>1 DEF Inm
    <2>4. new \in Posts
      <3>1. scope \in Identities \cup {None} /\ identity \in Identities
        BY <1>0 DEF ServerTypes
      <3> QED BY <3>1, <2>2, <2>3 DEF Posts
    <2>5. PICK e \in Posts : e = new
      BY <2>4
    <2>6. /\ e.scope = scope /\ e.who = identity /\ e.readers = Batch
          /\ e.inm = Inm(Batch) /\ e.answer = {}
      BY <2>5
    <2>7. batches' = Append(batches, e)
      BY <2>1, <2>5
    <2> HIDE DEF new
    <2>8. /\ batches' \in Seq(Posts)
          /\ DOMAIN batches' = 1..(Len(batches) + 1) /\ DOMAIN batches = 1..Len(batches)
          /\ Len(batches) \in Nat /\ batches'[Len(batches) + 1] = e
          /\ \A i \in 1..Len(batches) : batches'[i] = batches[i]
      BY <2>7, <1>0, AppendProperties, LenProperties DEF PostsTrue
    <2>9. PostIsItsOwn(e)'
      <3>1. scope \in {None, identity}
        BY <1>0 DEF ServerTypes
      <3>2. e.scope = None => e.inm = [t \in Tokens |-> {}]
        BY <2>6 DEF Inm
      <3>3. \A r \in e.readers : at'[r] = "travelling" /\ ask'[r].scope = e.scope
        BY <2>2, <2>6, <1>1
      <3>4. e.scope \in {None, e.who} /\ \A a \in e.answer : a.who = e.who
        BY <3>1, <2>6
      <3> QED BY <3>2, <3>3, <3>4 DEF PostIsItsOwn
    <2>10. ASSUME NEW i \in 1..Len(batches)
           PROVE /\ batches[i].readers # {} /\ PostIsItsOwn(batches[i])'
                 /\ batches[i].readers \cap e.readers = {}
      <3>1. batches[i] \in Posts /\ PostIsItsOwn(batches[i]) /\ batches[i].readers # {}
        BY <2>8, <1>0, ElementOfSeq DEF PostsTrue
      <3>2. batches[i].readers \subseteq Readers
        BY <3>1 DEF Posts
      <3>3. PostIsItsOwn(batches[i])'
        BY <3>1, <3>2, <1>1, <1>5, <2>8 DEF PostIsItsOwn
      <3> QED BY <3>1, <3>2, <3>3, <2>2, <2>6 DEF PostIsItsOwn
    <2>11. PostsTrue'
      <3>1. ASSUME NEW i \in DOMAIN batches'
            PROVE  batches'[i].readers # {} /\ PostIsItsOwn(batches[i])'
        <4>1. CASE i = Len(batches) + 1
          BY <4>1, <2>6, <2>8, <2>9, <1>7 DEF PostIsItsOwn
        <4>2. CASE i # Len(batches) + 1
          BY <4>2, <2>8, <2>10
        <4> QED BY <4>1, <4>2
      <3>2. ASSUME NEW i \in DOMAIN batches', NEW j \in DOMAIN batches', i # j
            PROVE  batches'[i].readers \cap batches'[j].readers = {}
        <4>1. CASE i \in 1..Len(batches) /\ j \in 1..Len(batches)
          BY <4>1, <3>2, <2>8, <1>0 DEF PostsTrue, PostsAreApart
        <4>2. CASE i = Len(batches) + 1
          BY <4>2, <3>2, <2>8, <2>10
        <4>3. CASE j = Len(batches) + 1
          BY <4>3, <3>2, <2>8, <2>10
        <4> QED BY <4>1, <4>2, <4>3, <2>8
      <3> QED BY <3>1, <3>2, <2>8 DEF PostsTrue, PostsAreApart
    <2> QED BY <2>11, <1>0, <1>1, <1>2, <1>3, <1>4, Assembled DEF CacheTypes, ServerTypes
  <1> QED BY <1>6, <1>7

\* A POST that ended leaves the others travelling.
LEMMA PostsWithout ==
  ASSUME PostsTrue, NEW i \in DOMAIN batches, batches' = RemoveAt(batches, i), ask' = ask,
         \A r \in Readers : at[r] = "travelling" /\ r \notin batches[i].readers
                              => at'[r] = "travelling"
  PROVE  PostsTrue'
  <1> DEFINE old(j) == IF j < i THEN j ELSE j + 1
  <1>1. Len(batches) \in Nat /\ DOMAIN batches = 1..Len(batches) /\ i \in 1..Len(batches)
    BY LenProperties DEF PostsTrue
  <1>2. /\ batches' \in Seq(Posts) /\ DOMAIN batches' = 1..(Len(batches) - 1)
        /\ \A j \in 1..(Len(batches) - 1) : batches'[j] = batches[old(j)]
    <2>1. batches \in Seq(Posts)
      BY DEF PostsTrue
    <2>2. /\ batches' \in Seq(Posts) /\ Len(batches') = Len(batches) - 1
          /\ \A j \in 1..(Len(batches) - 1) :
                batches'[j] = batches[IF j < i THEN j ELSE j + 1]
      BY <2>1, <1>1, RemoveAtFacts
    <2>3. DOMAIN batches' = 1..Len(batches')
      BY <2>2, LenProperties
    <2> QED BY <2>2, <2>3
  <1>3. \A j \in 1..(Len(batches) - 1) : old(j) \in 1..Len(batches) /\ old(j) # i
    BY <1>1
  <1>4. \A j, k \in 1..(Len(batches) - 1) : j # k => old(j) # old(k)
    BY <1>1
  <1> HIDE DEF old
  <1>5. ASSUME NEW j \in DOMAIN batches'
        PROVE  batches'[j].readers # {} /\ PostIsItsOwn(batches[j])'
    <2>1. batches'[j] = batches[old(j)] /\ old(j) \in DOMAIN batches /\ old(j) # i
      BY <1>1, <1>2, <1>3
    <2>2. /\ batches[old(j)] \in Posts /\ PostIsItsOwn(batches[old(j)])
          /\ batches[old(j)].readers # {} /\ batches[old(j)].readers \cap batches[i].readers = {}
      BY <2>1, <1>1, ElementOfSeq DEF PostsTrue, PostsAreApart
    <2>3. batches[old(j)].readers \subseteq Readers
      BY <2>2 DEF Posts
    <2> QED BY <2>1, <2>2, <2>3 DEF PostIsItsOwn
  <1>6. ASSUME NEW j \in DOMAIN batches', NEW k \in DOMAIN batches', j # k
        PROVE  batches'[j].readers \cap batches'[k].readers = {}
    BY <1>1, <1>2, <1>3, <1>4, <1>6 DEF PostsTrue, PostsAreApart
  <1> QED BY <1>2, <1>5, <1>6 DEF PostsTrue, PostsAreApart

\* The server answers a POST with what it read for its own identity.
LEMMA BatchReadsStep ==
  ASSUME BatchInv, NEW i \in DOMAIN batches, BatchReads(i)
  PROVE  BatchInv'
  <1>0. /\ ServerTypes /\ CacheTypes /\ ReadTypes /\ WindowIsTimed
        /\ CacheTrue(partCache, current) /\ PostsTrue
    BY Parts
  <1>1. /\ ServerTypes' /\ timer' = timer /\ unsupported' = unsupported /\ at' = at
        /\ ask' = ask /\ got' = got /\ current' = current /\ lastScope' = lastScope
        /\ partCache' = partCache
    BY <1>0 DEF ServerTypes, BatchReads, serverVars, cacheVars
  <1>2. ReadTypes' /\ WindowIsTimed'
    BY <1>0, <1>1 DEF ReadTypes, WindowIsTimed, Waiting
  <1>3. PICK b \in Posts : b = batches[i]
    BY <1>0, ElementOfSeq, LenProperties DEF PostsTrue
  <1>4. PostIsItsOwn(b) /\ b.readers \subseteq Readers /\ b.who \in Identities
    BY <1>0, <1>3 DEF PostsTrue, Posts
  <1>5. PICK parts \in SUBSET {ask[r].token : r \in b.readers} :
          batches' = [batches EXCEPT ![i] =
                        [b EXCEPT !.answer = {AnswerTo(b.who)}, !.parts = parts]]
    BY <1>3 DEF BatchReads
  <1>6. parts \in SUBSET Tokens
    BY <1>0, <1>4, <1>5 DEF ReadTypes, Asks
  <1>7. PICK x \in SUBSET Answers : x = {AnswerTo(b.who)} /\ \A a \in x : a.who = b.who
    <2>1. AnswerTo(b.who) \in Answers /\ AnswerTo(b.who).who = b.who
      BY <1>0, <1>4 DEF AnswerTo, Answers, ServerTypes
    <2>2. {AnswerTo(b.who)} \in SUBSET Answers /\ \A a \in {AnswerTo(b.who)} : a.who = b.who
      BY <2>1
    <2> HIDE DEF AnswerTo
    <2> QED BY <2>2
  <1> DEFINE answered == [b EXCEPT !.answer = x, !.parts = parts]
  <1>8. /\ answered \in Posts /\ answered.scope = b.scope /\ answered.who = b.who
        /\ answered.readers = b.readers /\ answered.inm = b.inm /\ answered.answer = x
    <2>1. /\ [b EXCEPT !.answer = x] \in Posts
          /\ [b EXCEPT !.answer = x].scope = b.scope
          /\ [b EXCEPT !.answer = x].who = b.who
          /\ [b EXCEPT !.answer = x].readers = b.readers
          /\ [b EXCEPT !.answer = x].inm = b.inm
          /\ [b EXCEPT !.answer = x].answer = x
      BY DEF Posts
    <2>2. PICK d \in Posts : d = [b EXCEPT !.answer = x]
      BY <2>1
    <2>3. /\ [d EXCEPT !.parts = parts] \in Posts
          /\ [d EXCEPT !.parts = parts].scope = d.scope
          /\ [d EXCEPT !.parts = parts].who = d.who
          /\ [d EXCEPT !.parts = parts].readers = d.readers
          /\ [d EXCEPT !.parts = parts].inm = d.inm
          /\ [d EXCEPT !.parts = parts].answer = d.answer
      BY <1>6 DEF Posts
    <2>4. answered = [d EXCEPT !.parts = parts]
      BY <2>2
    <2> QED BY <2>1, <2>2, <2>3, <2>4
  <1>9. PICK c \in Posts : /\ batches' = [batches EXCEPT ![i] = c]
                           /\ c.scope = b.scope /\ c.who = b.who /\ c.readers = b.readers
                           /\ c.inm = b.inm /\ c.answer = x
    BY <1>5, <1>7, <1>8
  <1>10. batches' \in Seq(Posts) /\ DOMAIN batches' = DOMAIN batches
    BY <1>0, <1>9, ExceptSeq DEF PostsTrue
  <1>11. \A j \in DOMAIN batches : batches'[j] = IF j = i THEN c ELSE batches[j]
    BY <1>9, <1>10
  <1>12. PostIsItsOwn(c)'
    BY <1>1, <1>4, <1>7, <1>9 DEF PostIsItsOwn
  <1>13. PostsTrue'
    <2>1. ASSUME NEW j \in DOMAIN batches' PROVE batches'[j].readers # {} /\ PostIsItsOwn(batches[j])'
      <3>1. b.readers # {}
        BY <1>0, <1>3 DEF PostsTrue
      <3>2. CASE j = i
        <4>1. batches'[j] = c
          BY <3>2, <1>10, <1>11
        <4> QED BY <4>1, <3>1, <1>9, <1>12 DEF PostIsItsOwn
      <3>3. CASE j # i
        <4>1. batches'[j] = batches[j]
          BY <3>3, <1>10, <1>11
        <4>2. PostIsItsOwn(batches[j]) /\ batches[j].readers # {}
          BY <1>0, <1>10 DEF PostsTrue
        <4> QED BY <4>1, <4>2, <1>1 DEF PostIsItsOwn
      <3> QED BY <3>2, <3>3
    <2>2. \A j \in DOMAIN batches : batches'[j].readers = batches[j].readers
      BY <1>3, <1>9, <1>11
    <2>3. PostsAreApart'
      BY <2>2, <1>0, <1>10 DEF PostsTrue, PostsAreApart
    <2> QED BY <2>1, <2>3, <1>10 DEF PostsTrue
  <1> QED BY <1>0, <1>1, <1>2, <1>13, Assembled DEF CacheTypes

\* A POST fails: its readers fall back to a GET, or fail with it.
LEMMA BatchFailsStep ==
  ASSUME BatchInv, NEW i \in DOMAIN batches, BatchFails(i)
  PROVE  BatchInv'
  <1>0. /\ ServerTypes /\ CacheTypes /\ ReadTypes /\ WindowIsTimed
        /\ CacheTrue(partCache, current) /\ PostsTrue
    BY Parts
  <1>1. /\ ServerTypes' /\ timer' = timer /\ unsupported' \in BOOLEAN
        /\ ask' = ask /\ got' = got /\ lastScope' = lastScope
        /\ batches' = RemoveAt(batches, i)
    BY <1>0 DEF ServerTypes, BatchFails, serverVars, ReadTypes
  <1>2. PICK f \in {"get", "refused"} :
          at' = [r \in Readers |-> IF r \in batches[i].readers THEN f ELSE at[r]]
    BY DEF BatchFails, Rejected
  <1>3. \A r \in batches[i].readers : at[r] = "travelling"
    BY <1>0 DEF PostsTrue, PostIsItsOwn
  <1>4. ReadTypes'
    BY <1>0, <1>1, <1>2 DEF ReadTypes, Resting
  <1>5. WindowIsTimed'
    <2>1. \A r \in Readers : at'[r] = "window" <=> at[r] = "window"
      BY <1>2, <1>3
    <2> QED BY <2>1, <1>0, <1>1 DEF WindowIsTimed, Waiting
  <1>6. PostsTrue'
    BY <1>0, <1>1, <1>2, PostsWithout
  <1>7. /\ current' \in {None} \cup (Identities \X (0..MaxEpochs))
        /\ CacheTrue(partCache', current')
    <2>1. batches[i] \in Posts
      BY <1>0, ElementOfSeq, LenProperties DEF PostsTrue
    <2>2. PICK S \in SUBSET Answers : S = batches[i].answer
      BY <2>1 DEF Posts
    <2>3. Reported(S)
      BY <2>2 DEF BatchFails
    <2> QED BY <2>3, <1>0, ReportedIsTrue
  <1> QED BY <1>0, <1>1, <1>4, <1>5, <1>6, <1>7, Assembled DEF CacheTypes

\* An answer lands: what is remembered of it belongs to whom it was asked
\* for, whatever the epoch and the identity did in between.
LEMMA BatchLandsStep ==
  ASSUME BatchInv, NEW i \in DOMAIN batches, BatchLands(i)
  PROVE  BatchInv'
  <1>0. /\ ServerTypes /\ CacheTypes /\ ReadTypes /\ WindowIsTimed
        /\ CacheTrue(partCache, current) /\ PostsTrue
    BY Parts
  <1> DEFINE b == batches[i]
  <1>1. b \in Posts
    BY <1>0, ElementOfSeq, LenProperties DEF PostsTrue
  <1>2. PostIsItsOwn(b) /\ b.readers \subseteq Readers /\ b.answer \subseteq Answers
    BY <1>0, <1>1 DEF PostsTrue, Posts
  <1>3. PICK new \in b.answer, denied \in SUBSET (Tokens \ b.parts) :
          LET held == IF Moved THEN Empty ELSE Observed(new)
              Stored(s, t) == s = ScopeOf(b) /\ StillMine(b) /\ t \in b.parts /\ ~NotModified(b, t, new)
              Handed(r) == Part(b, ask[r].token, new, held)
          IN /\ current' = Header(new)
             /\ partCache' = [s \in Identities |-> [t \in Tokens |->
                                IF Stored(s, t) THEN {new} ELSE held[s][t]]]
             /\ at' = [r \in Readers |->
                         CASE r \notin b.readers -> AtSynced[r]
                           [] r \in b.readers /\ Handed(r) # {} -> "batch"
                           [] r \in b.readers /\ StillMine(b) /\ ask[r].token \in denied -> "refused"
                           [] OTHER -> "get"]
             /\ got' = [r \in Readers |-> IF r \in b.readers THEN Handed(r) ELSE got[r]]
    BY DEF BatchLands
  <1>4. /\ ServerTypes' /\ unsupported' = unsupported /\ ask' = ask /\ timer' = TimerSynced
        /\ lastScope' = scope /\ batches' = RemoveAt(batches, i)
    BY <1>0 DEF ServerTypes, BatchLands, serverVars
  <1> HIDE DEF b
  <1>5. new \in Answers /\ new.who = b.who /\ b.scope \in {None, b.who}
    BY <1>2, <1>3 DEF PostIsItsOwn
  <1> DEFINE held == IF Moved THEN Empty ELSE Observed(new)
  <1>6. CacheTrue(held, Header(new))
    BY <1>0, <1>5, EmptyIsTrue, DropsAreTrue
  <1>7. ASSUME NEW t \in Tokens PROVE Part(b, t, new, held) \in SUBSET Answers
    <2>1. CASE NotModified(b, t, new)
      <3>1. b.inm[t] # {}
        BY <2>1 DEF NotModified
      <3>2. b.scope \in Identities
        BY <3>1, <1>2, <1>5, HeaderType DEF PostIsItsOwn
      <3> QED BY <2>1, <3>2, <1>6 DEF Part, ScopeOf, CacheTrue
    <2>2. CASE ~NotModified(b, t, new)
      BY <2>2, <1>5 DEF Part
    <2> QED BY <2>1, <2>2
  <1>8. /\ \A r \in Readers \ b.readers : at'[r] = AtSynced[r]
        /\ \A r \in b.readers : at'[r] \in {"batch", "refused", "get"}
    BY <1>2, <1>3
  <1>9. ReadTypes'
    <2>1. at' \in [Readers -> States]
      <3>1. \A r \in Readers : at'[r] \in States
        BY <1>8, <1>0, SyncFacts DEF States, Resting
      <3>2. at' = [r \in Readers |-> at'[r]]
        BY <1>3
      <3> QED BY <3>1, <3>2
    <2>2. got' \in [Readers -> SUBSET Answers]
      <3>1. \A r \in Readers : ask[r].token \in Tokens /\ got[r] \in SUBSET Answers
        BY <1>0 DEF ReadTypes, Asks
      <3>2. \A r \in Readers : Part(b, ask[r].token, new, held) \in SUBSET Answers
        BY <3>1, <1>7
      <3> HIDE DEF Part
      <3> QED BY <3>1, <3>2, <1>3
    <2>3. TimerSynced \in BOOLEAN
      BY <1>0, SyncFacts
    <2> QED BY <2>1, <2>2, <2>3, <1>0, <1>4 DEF ReadTypes, States
  <1>10. WindowIsTimed'
    <2>1. \A r \in b.readers : AtSynced[r] = "travelling" /\ at'[r] # "window"
      BY <1>0, <1>2, <1>8, SyncFacts DEF PostIsItsOwn
    <2>2. \A r \in Readers : at'[r] = "window" <=> AtSynced[r] = "window"
      BY <2>1, <1>8
    <2> QED BY <2>2, <1>0, <1>4, SyncFacts DEF WindowIsTimed, Waiting
  <1>11. PostsTrue'
    <2>1. \A r \in Readers : at[r] = "travelling" /\ r \notin batches[i].readers => at'[r] = "travelling"
      BY <1>0, <1>8, SyncFacts DEF b
    <2> QED BY <2>1, <1>0, <1>4, PostsWithout
  <1>12. CacheTrue(partCache', Header(new))
    <2>1. ASSUME NEW s \in Identities, s = b.scope
          PROVE  new.who = s
      BY <2>1, <1>5, NoneAssumption
    <2>2. ASSUME NEW s \in Identities, NEW t \in Tokens
          PROVE  /\ partCache'[s][t] \in SUBSET Answers
                 /\ \A a \in partCache'[s][t] : a.who = s /\ Header(a) = Header(new)
      <3>1. \/ partCache'[s][t] = {new} /\ s = b.scope
            \/ partCache'[s][t] = held[s][t]
        BY <1>3 DEF ScopeOf
      <3> QED BY <3>1, <2>1, <1>5, <1>6 DEF CacheTrue
    <2>3. partCache' = [s \in Identities |-> [t \in Tokens |-> partCache'[s][t]]]
      BY <1>3
    <2> QED BY <2>2, <2>3 DEF CacheTrue
  <1>13. Header(new) \in {None} \cup (Identities \X (0..MaxEpochs)) /\ scope \in Identities \cup {None}
    BY <1>0, <1>5, HeaderType DEF ServerTypes
  <1> QED BY <1>3, <1>4, <1>9, <1>10, <1>11, <1>12, <1>13, Assembled

\* Saves, addons, identities and what clears the caches.
LEMMA AroundStep ==
  ASSUME BatchInv,
         \/ WriteStarts \/ WriteApplies \/ WriteSettles \/ WriteFails
         \/ AddonChanges \/ PushArrives \/ IdentityMoves \/ UserIsKnown
  PROVE  BatchInv'
  <1>0. /\ ServerTypes /\ CacheTypes /\ ReadTypes /\ WindowIsTimed
        /\ CacheTrue(partCache, current) /\ PostsTrue
    BY Parts
  <1>1. UNCHANGED <<lastScope, timer, unsupported, at, ask, got, batches>>
    BY DEF WriteStarts, WriteApplies, WriteSettles, WriteFails, AddonChanges, PushArrives,
           IdentityMoves, UserIsKnown, cacheVars, readVars
  <1>2. ReadTypes' /\ WindowIsTimed'
    BY <1>0, <1>1 DEF ReadTypes, WindowIsTimed, Waiting
  <1>3. PostsTrue'
    BY <1>0, <1>1, PostsKept
  <1>4. ServerTypes'
    <2>1. CASE WriteStarts \/ WriteSettles \/ WriteFails
      <3>1. UNCHANGED serverVars /\ pushes' = pushes /\ write' \in {{}, {Sent}}
        BY <2>1 DEF WriteStarts, WriteSettles, WriteFails
      <3> QED BY <3>1, <1>0 DEF ServerTypes, serverVars
    <2>2. CASE WriteApplies
      <3>1. /\ identity' = identity /\ scope' = scope /\ epoch' = epoch /\ moves' = moves
            /\ pushes' = pushes
        BY <2>2 DEF WriteApplies
      <3>2. PICK n \in 0..MaxWrites : rows' = n
        BY <2>2, <1>0, BoundsAssumption DEF ServerTypes, WriteApplies
      <3>3. write' = {[who |-> identity, epoch |-> epoch, rows |-> n]}
        BY <2>2, <3>2 DEF WriteApplies
      <3>4. [who |-> identity, epoch |-> epoch, rows |-> n] \in Answers
        BY <3>2, <1>0 DEF ServerTypes, Answers
      <3> QED BY <3>1, <3>2, <3>3, <3>4, <1>0 DEF ServerTypes
    <2>3. CASE AddonChanges
      BY <2>3, <1>0, BoundsAssumption DEF AddonChanges, ServerTypes
    <2>4. CASE PushArrives
      BY <2>4, <1>0, BoundsAssumption DEF PushArrives, ServerTypes, serverVars
    <2>5. CASE IdentityMoves \/ UserIsKnown
      BY <2>5, <1>0, BoundsAssumption DEF IdentityMoves, UserIsKnown, ServerTypes
    <2> QED BY <2>1, <2>2, <2>3, <2>4, <2>5
  <1>5. /\ current' \in {None} \cup (Identities \X (0..MaxEpochs))
        /\ CacheTrue(partCache', current')
    <2>1. CASE WriteStarts \/ WriteFails
      BY <2>1, <1>0, DropsAreTrue DEF WriteStarts, WriteFails, CacheTypes
    <2>2. CASE WriteSettles
      <3>1. PICK a \in write :
              /\ a # Sent /\ current' = Header(a)
              /\ partCache' = IF current \in {None, Header(a)} THEN InvalidateData ELSE Empty
        BY <2>2 DEF WriteSettles
      <3>2. a \in Answers
        BY <3>1, <1>0 DEF ServerTypes
      <3>3. CASE current \in {None, Header(a)}
        <4>1. CacheTrue(partCache, Header(a))
          BY <3>2, <3>3, <1>0, DropsAreTrue DEF Observed
        <4>2. CacheTrue(InvalidateData, Header(a))
          BY <4>1 DEF CacheTrue, InvalidateData
        <4> QED BY <3>1, <3>2, <3>3, <4>2, HeaderType
      <3>4. CASE current \notin {None, Header(a)}
        BY <3>1, <3>2, <3>4, HeaderType, EmptyIsTrue
      <3> QED BY <3>3, <3>4
    <2>3. CASE PushArrives
      BY <2>3, EmptyIsTrue DEF PushArrives
    <2>4. CASE WriteApplies \/ AddonChanges \/ IdentityMoves \/ UserIsKnown
      BY <2>4, <1>0 DEF WriteApplies, AddonChanges, IdentityMoves, UserIsKnown, cacheVars, CacheTypes
    <2> QED BY <2>1, <2>2, <2>3, <2>4
  <1> QED BY <1>0, <1>1, <1>2, <1>3, <1>4, <1>5, Assembled DEF CacheTypes

\* What clears the caches answers the window's reads by a GET.
LEMMA ClearStep ==
  ASSUME BatchInv, SyncCacheScope \/ ClearQueryBatchCaches
  PROVE  BatchInv'
  <1>0. /\ ServerTypes /\ CacheTypes /\ ReadTypes /\ WindowIsTimed
        /\ CacheTrue(partCache, current) /\ PostsTrue
    BY Parts
  <1>1. /\ ServerTypes' /\ unsupported' = unsupported /\ ask' = ask /\ got' = got
        /\ batches' = batches /\ current' = current /\ lastScope' \in {scope, lastScope}
    BY <1>0 DEF ServerTypes, SyncCacheScope, ClearQueryBatchCaches, serverVars
  <1>2. CASE SyncCacheScope
    <2>1. partCache' = Synced /\ at' = AtSynced /\ timer' = TimerSynced
      BY <1>2 DEF SyncCacheScope
    <2>2. ReadTypes' /\ WindowIsTimed'
      BY <2>1, <1>0, <1>1, SyncFacts DEF ReadTypes, WindowIsTimed, Waiting, States
    <2>3. PostsTrue'
      BY <2>1, <1>0, <1>1, SyncFacts, PostsKept
    <2>4. CacheTrue(partCache', current')
      BY <2>1, <1>0, <1>1, DropsAreTrue
    <2> QED BY <2>2, <2>3, <2>4, <1>0, <1>1, Assembled DEF CacheTypes, ServerTypes
  <1>3. CASE ClearQueryBatchCaches
    <2>1. partCache' = Empty /\ at' = Rejected(Waiting) /\ timer' = FALSE
      BY <1>3 DEF ClearQueryBatchCaches
    <2>2. ReadTypes' /\ WindowIsTimed'
      BY <2>1, <1>0, <1>1, RejectedFacts DEF ReadTypes, WindowIsTimed, Waiting, States
    <2>3. PostsTrue'
      BY <2>1, <1>0, <1>1, RejectedFacts, PostsKept
    <2>4. CacheTrue(partCache', current')
      BY <2>1, EmptyIsTrue
    <2> QED BY <2>2, <2>3, <2>4, <1>0, <1>1, Assembled DEF CacheTypes, ServerTypes
  <1> QED BY <1>2, <1>3

\* Nothing is remembered, asked or in flight yet.
LEMMA InitIsTrue ==
  ASSUME Init
  PROVE  BatchInv
  <1>1. 0 \in 0..MaxWrites /\ 0 \in 0..MaxEpochs /\ 0 \in 0..MaxMoves
    BY BoundsAssumption
  <1>2. ServerTypes
    BY <1>1 DEF Init, ServerTypes
  <1>3. CacheTrue(partCache, current)
    BY EmptyIsTrue DEF Init
  <1>4. CacheTypes /\ RememberedBelongs /\ RememberedIsCurrent
    BY <1>3 DEF Init, CacheTypes, CacheTrue, RememberedBelongs, RememberedIsCurrent
  <1>5. ReadTypes
    <2>1. NoAsk \in Asks
      BY <1>1 DEF NoAsk, Asks, Tokens
    <2> QED BY <2>1 DEF Init, ReadTypes, Resting
  <1>6. WindowIsTimed
    BY DEF Init, WindowIsTimed, Waiting
  <1>7. batches = <<>> /\ batches \in Seq(Posts) /\ DOMAIN batches = {}
    BY EmptySeq DEF Init
  <1> QED BY <1>2, <1>4, <1>5, <1>6, <1>7 DEF BatchInv, TypeOK, PostsAreApart

\* Every step keeps the invariant.
LEMMA StepIsTrue ==
  ASSUME BatchInv, [Next]_vars
  PROVE  BatchInv'
  <1>1. ASSUME NEW r \in Readers, NEW t \in Tokens,
               ReadPlain(r, t) \/ ReadMemory(r, t) \/ ReadWindow(r, t)
        PROVE  BatchInv'
    BY <1>1, ReadStep
  <1>2. ASSUME NEW r \in Readers, GetReads(r) \/ GetLands(r) \/ GetFails(r)
        PROVE  BatchInv'
    BY <1>2, GetStep
  <1>3. CASE Flush
    BY <1>3, FlushStep
  <1>4. ASSUME NEW i \in DOMAIN batches, BatchReads(i) \/ BatchLands(i) \/ BatchFails(i)
        PROVE  BatchInv'
    BY <1>4, BatchReadsStep, BatchLandsStep, BatchFailsStep
  <1>5. CASE \/ WriteStarts \/ WriteApplies \/ WriteSettles \/ WriteFails
             \/ AddonChanges \/ PushArrives \/ IdentityMoves \/ UserIsKnown
    BY <1>5, AroundStep
  <1>6. CASE SyncCacheScope \/ ClearQueryBatchCaches
    BY <1>6, ClearStep
  <1>7. CASE UNCHANGED vars
    <2>0. /\ ServerTypes /\ CacheTypes /\ ReadTypes /\ WindowIsTimed
          /\ CacheTrue(partCache, current) /\ PostsTrue
      BY Parts
    <2>1. /\ ServerTypes' /\ ReadTypes' /\ WindowIsTimed'
          /\ UNCHANGED <<lastScope, current, partCache, batches, at, ask>>
      BY <1>7, <2>0 DEF vars, serverVars, cacheVars, readVars, ServerTypes, ReadTypes,
                        WindowIsTimed, Waiting
    <2>2. PostsTrue'
      BY <2>0, <2>1, PostsKept
    <2> QED BY <2>0, <2>1, <2>2, Assembled DEF CacheTypes
  <1> QED BY <1>1, <1>2, <1>3, <1>4, <1>5, <1>6, <1>7 DEF Next

\* Whatever the order of answers, pushes, saves and changes of identity, the
\* invariant holds (query-batch.ts, cache-scope.ts, cache-epoch.ts).
THEOREM BatchInvariant == Spec => []BatchInv
  BY InitIsTrue, StepIsTrue, PTL DEF Spec

\* Types, and what is remembered belongs to the identity it is remembered for
\* and was read at the cache epoch last observed.
THEOREM RememberedIsTrue == Spec => [](TypeOK /\ RememberedBelongs /\ RememberedIsCurrent)
  <1>1. BatchInv => TypeOK /\ RememberedBelongs /\ RememberedIsCurrent
    BY DEF BatchInv
  <1> QED BY <1>1, BatchInvariant, PTL

\* The timer of the window runs exactly while a read waits in it, through every
\* clearing of the caches in between.
THEOREM WindowAlwaysTimed == Spec => []WindowIsTimed
  <1>1. BatchInv => WindowIsTimed
    BY DEF BatchInv
  <1> QED BY <1>1, BatchInvariant, PTL

\* Memory and the batch hand an answer of the reader's own identity.
LEMMA LandingHands ==
  ASSUME BatchInv, NEW i \in DOMAIN batches, BatchLands(i),
         NEW r \in Readers, at'[r] \in {"memory", "batch"}, at[r] # at'[r], ask'[r].scope # None
  PROVE  scope = ask'[r].scope /\ \A a \in got'[r] : a.who = scope
  <1>0. /\ ServerTypes /\ ReadTypes /\ WindowIsTimed /\ CacheTrue(partCache, current) /\ PostsTrue
    BY Parts
  <1> DEFINE b == batches[i]
  <1>1. b \in Posts /\ PostIsItsOwn(b) /\ b.readers \subseteq Readers /\ b.answer \subseteq Answers
    <2>1. b \in Posts
      BY <1>0, ElementOfSeq, LenProperties DEF PostsTrue
    <2> QED BY <2>1, <1>0 DEF PostsTrue, Posts
  <1>2. PICK new \in b.answer, denied \in SUBSET (Tokens \ b.parts) :
          LET held == IF Moved THEN Empty ELSE Observed(new)
              Handed(q) == Part(b, ask[q].token, new, held)
          IN /\ at' = [q \in Readers |->
                         CASE q \notin b.readers -> AtSynced[q]
                           [] q \in b.readers /\ Handed(q) # {} -> "batch"
                           [] q \in b.readers /\ StillMine(b) /\ ask[q].token \in denied -> "refused"
                           [] OTHER -> "get"]
             /\ got' = [q \in Readers |-> IF q \in b.readers THEN Handed(q) ELSE got[q]]
    BY DEF BatchLands
  <1>3. ask' = ask
    BY DEF BatchLands
  <1> DEFINE held == IF Moved THEN Empty ELSE Observed(new)
             handed == Part(b, ask[r].token, new, held)
  <1>4. new \in Answers /\ new.who = b.who /\ b.scope \in {None, b.who}
    BY <1>1, <1>2 DEF PostIsItsOwn
  <1>5. CacheTrue(held, Header(new))
    BY <1>0, <1>4, EmptyIsTrue, DropsAreTrue
  <1>6. r \in b.readers
    <2>1. AtSynced[r] \in {at[r], "get"}
      BY <1>0 DEF AtSynced, Rejected, ReadTypes
    <2> QED BY <2>1, <1>2
  <1> HIDE DEF b, held
  <1>7. handed # {} /\ got'[r] = handed
    BY <1>2, <1>6 DEF held
  <1>8. scope = b.scope /\ ask[r].scope = b.scope /\ ask[r].token \in Tokens
    BY <1>0, <1>1, <1>6, <1>7 DEF Part, StillMine, ScopeOf, PostIsItsOwn, ReadTypes, Asks
  <1>9. scope \in Identities /\ new.who = scope
    BY <1>0, <1>3, <1>4, <1>8 DEF ServerTypes
  <1>10. handed = held[scope][ask[r].token] \/ handed = {new}
    BY <1>7, <1>8 DEF Part, ScopeOf
  <1> QED BY <1>3, <1>5, <1>7, <1>8, <1>9, <1>10 DEF CacheTrue

\* No other step hands an answer from memory or by the batch.
LEMMA HandedStep ==
  ASSUME BatchInv, [Next]_vars,
         NEW r \in Readers, at'[r] \in {"memory", "batch"}, at[r] # at'[r], ask'[r].scope # None
  PROVE  scope = ask'[r].scope /\ \A a \in got'[r] : a.who = scope
  <1>0. /\ ServerTypes /\ ReadTypes /\ WindowIsTimed /\ CacheTrue(partCache, current) /\ PostsTrue
    BY Parts
  <1>1. /\ AtSynced[r] \in {at[r], "get"} /\ Rejected(Waiting)[r] \in {at[r], "get"}
        /\ AtSynced \in [Readers -> States]
    BY <1>0, SyncFacts DEF AtSynced, Rejected, ReadTypes
  <1>2. ASSUME NEW q \in Readers, NEW t \in Tokens, ReadMemory(q, t)
        PROVE  scope = ask'[r].scope /\ \A a \in got'[r] : a.who = scope
    <2>1. /\ at' = [AtSynced EXCEPT ![q] = "memory"] /\ got' = [got EXCEPT ![q] = Remembered(t)]
          /\ Asked(q, t)
      BY <1>2 DEF ReadMemory
    <2>2. q = r
      BY <2>1, <1>1
    <2>3. ask'[r].scope = scope /\ got'[r] = Remembered(t)
      BY <2>1, <2>2, <1>0 DEF Asked, ReadTypes
    <2>4. scope \in Identities /\ CacheTrue(Synced, current)
      BY <2>3, <1>0, DropsAreTrue DEF ServerTypes
    <2> QED BY <2>3, <2>4 DEF Remembered, CacheTrue
  <1>3. ASSUME NEW q \in Readers, NEW t \in Tokens, ReadPlain(q, t) \/ ReadWindow(q, t)
        PROVE  FALSE
    <2>1. \/ at' = [at EXCEPT ![q] = "get"]
          \/ at' = [AtSynced EXCEPT ![q] = "window"]
      BY <1>3 DEF ReadPlain, ReadWindow
    <2> QED BY <2>1, <1>0, <1>1 DEF ReadTypes
  <1>4. ASSUME NEW q \in Readers, GetReads(q) \/ GetLands(q) \/ GetFails(q)
        PROVE  FALSE
    <2>1. at' = at \/ at' = [at EXCEPT ![q] = "idle"]
      BY <1>4 DEF GetReads, GetLands, GetFails, Finished
    <2> QED BY <2>1, <1>0 DEF ReadTypes
  <1>5. ASSUME NEW i \in DOMAIN batches, BatchReads(i) \/ BatchFails(i)
        PROVE  FALSE
    <2>1. at'[r] \in {at[r], "get", "refused"}
      BY <1>5 DEF BatchReads, BatchFails, Rejected
    <2> QED BY <2>1
  <1>6. CASE Flush
    <2>1. at'[r] \in {"travelling", Rejected(Waiting)[r]}
      BY <1>6 DEF Flush
    <2> QED BY <2>1, <1>1
  <1>7. CASE \/ WriteStarts \/ WriteApplies \/ WriteSettles \/ WriteFails
             \/ AddonChanges \/ PushArrives \/ IdentityMoves \/ UserIsKnown \/ UNCHANGED vars
    BY <1>7 DEF WriteStarts, WriteApplies, WriteSettles, WriteFails, AddonChanges, PushArrives,
                IdentityMoves, UserIsKnown, readVars, vars
  <1>8. CASE SyncCacheScope \/ ClearQueryBatchCaches
    BY <1>8, <1>1 DEF SyncCacheScope, ClearQueryBatchCaches
  <1> QED BY <1>2, <1>3, <1>4, <1>5, <1>6, <1>7, <1>8, LandingHands DEF Next

\* Who is handed an answer from memory or by the batch is still who asked, and
\* it is theirs (query-batch.ts:46-48), whatever moved while it travelled.
THEOREM HandedToItsOwner == Spec => HandedInScope
  <1>1. BatchInv /\ [Next]_vars =>
          \A r \in Readers :
             at'[r] \in {"memory", "batch"} /\ at[r] # at'[r] /\ ask'[r].scope # None =>
               scope = ask'[r].scope /\ \A a \in got'[r] : a.who = scope
    BY HandedStep
  <1> QED BY <1>1, BatchInvariant, PTL DEF Spec, HandedInScope

-----------------------------------------------------------------------------
(***************************************************************************)
(* Lists are fresh, but for those that an older batch overtook.             *)
(***************************************************************************)

\* The versions of the rows that the invariant compares are numbers.
LEMMA RowTypes ==
  ASSUME BatchInv
  PROVE  /\ rows \in Nat
         /\ \A s \in Identities : \A h \in partCache[s]["t"] : h.rows \in Nat
         /\ Len(batches) \in Nat /\ DOMAIN batches = 1..Len(batches)
         /\ \A i \in 1..Len(batches) :
              /\ batches[i].readers \subseteq Readers
              /\ \A r \in batches[i].readers : at[r] = "travelling"
              /\ \A a \in batches[i].answer : a.rows \in Nat
              /\ \A e \in batches[i].inm["t"] : e.rows \in Nat
         /\ \A r \in Readers :
              /\ ask[r].since \in Nat
              /\ \A a \in got[r] : a.rows \in Nat
  <1>0. ServerTypes /\ CacheTypes /\ ReadTypes /\ PostsTrue
    BY Parts
  <1>1. 0..MaxWrites \subseteq Nat /\ "t" \in Tokens
    BY BoundsAssumption DEF Tokens
  <1>2. \A a \in Answers : a.rows \in Nat
    BY <1>1 DEF Answers
  <1>3. Len(batches) \in Nat /\ DOMAIN batches = 1..Len(batches)
    BY <1>0, LenProperties DEF PostsTrue
  <1>4. ASSUME NEW i \in 1..Len(batches)
        PROVE  /\ batches[i].readers \subseteq Readers
               /\ \A r \in batches[i].readers : at[r] = "travelling"
               /\ batches[i].answer \subseteq Answers /\ batches[i].inm["t"] \subseteq Answers
    <2>1. batches[i] \in Posts /\ PostIsItsOwn(batches[i])
      BY <1>0, <1>3, ElementOfSeq DEF PostsTrue
    <2> QED BY <2>1, <1>1 DEF Posts, PostIsItsOwn
  <1>5. rows \in Nat
    BY <1>0, <1>1 DEF ServerTypes
  <1>6. \A s \in Identities : partCache[s]["t"] \subseteq Answers
    BY <1>0, <1>1 DEF CacheTypes
  <1>7. \A r \in Readers : ask[r].since \in Nat /\ got[r] \subseteq Answers
    BY <1>0, <1>1 DEF ReadTypes, Asks
  <1> QED BY <1>2, <1>3, <1>4, <1>5, <1>6, <1>7

\* Rows never go back, and what is remembered of a list shrinks, or is the
\* answer that landed: the etags of a batch that was not overtaken are then no
\* newer than what is remembered.
LEMMA AgeCarried ==
  ASSUME BatchInv, AgeInv, BatchInv', Records, rows' >= rows,
         \A s \in Identities : \/ partCache'[s]["t"] \subseteq partCache[s]["t"]
                               \/ \E a \in Answers : partCache'[s]["t"] = {a},
         \A r \in Readers : ask'[r].since \in {ask[r].since, rows, 0},
         AnswersAreFresh', RowsAreFresh'
  PROVE  AgeInv'
  <1>1. /\ rows \in Nat /\ rows' \in Nat
        /\ \A r \in Readers : ask[r].since \in Nat /\ ask[r].since <= rows
    <2>1. ServerTypes'
      BY DEF BatchInv, TypeOK
    <2> QED BY <2>1, RowTypes, BoundsAssumption DEF ServerTypes, AgeInv, AsksArePast
  <1>2. AsksArePast'
    BY <1>1 DEF AsksArePast
  <1>3. OvertakenTravelled'
    BY DEF Records, OvertakenTravelled
  <1>4. ASSUME NEW s \in Identities, NEW h \in partCache'[s]["t"], NEW k \in partCache'[s]["t"]
        PROVE  h.rows = k.rows
    <2>1. CASE partCache'[s]["t"] \subseteq partCache[s]["t"]
      BY <1>4, <2>1 DEF AgeInv, HeldIsNewer
    <2>2. CASE \E a \in Answers : partCache'[s]["t"] = {a}
      BY <1>4, <2>2
    <2> QED BY <2>1, <2>2
  <1>5. ASSUME NEW i \in DOMAIN batches', ~(batches'[i].readers \subseteq overtaken'),
               NEW e \in batches'[i].inm["t"], NEW h \in partCache'[batches'[i].scope]["t"]
        PROVE  e.rows <= h.rows
    <2>1. PICK q \in batches'[i].readers : q \notin overtaken'
      BY <1>5
    <2>2. /\ batches' \in Seq(Posts) /\ PostIsItsOwn(batches[i])' /\ CacheTypes'
      BY <1>5 DEF BatchInv, TypeOK
    <2>3. batches'[i] \in Posts
      BY <2>2, <1>5, ElementOfSeq, LenProperties
    <2>4. q \in Readers /\ at'[q] = "travelling"
      BY <2>1, <2>2, <2>3 DEF PostIsItsOwn, Posts
    <2>5. q \notin Outdated'
      BY <2>1, <2>4 DEF Records
    <2>6. ~(h.rows < e.rows)
      BY <2>1, <2>4, <2>5, <1>5 DEF Outdated
    <2>7. batches'[i].scope \in Identities
      <3>1. batches'[i].scope # None
        BY <2>2, <1>5 DEF PostIsItsOwn, Tokens
      <3> QED BY <3>1, <2>3 DEF Posts
    <2>8. e \in Answers /\ h \in Answers
      BY <2>2, <2>3, <2>7, <1>5 DEF Posts, CacheTypes, Tokens
    <2>9. e.rows \in Nat /\ h.rows \in Nat
      BY <2>8, BoundsAssumption DEF Answers
    <2> QED BY <2>6, <2>9
  <1>6. HeldIsNewer'
    BY <1>4, <1>5 DEF HeldIsNewer
  <1> QED BY <1>2, <1>3, <1>6 DEF AgeInv

\* Whatever drops answers adds none.
LEMMA DropsAddNothing ==
  ASSUME CacheTypes, NEW s \in Identities
  PROVE  /\ Empty[s]["t"] = {} /\ InvalidateData[s]["t"] = {}
         /\ Synced[s]["t"] \subseteq partCache[s]["t"]
         /\ \A a : Observed(a)[s]["t"] \subseteq partCache[s]["t"]
  <1>1. Empty[s]["t"] = {} /\ InvalidateData[s]["t"] = {}
    BY DEF Empty, InvalidateData, Tokens, ServedFromMemory
  <1>2. Synced[s]["t"] \subseteq partCache[s]["t"]
    BY <1>1 DEF Synced
  <1>3. \A a : Observed(a)[s]["t"] \subseteq partCache[s]["t"]
    BY <1>1 DEF Observed
  <1> QED BY <1>1, <1>2, <1>3

\* Nor does what a request that fails reports.
LEMMA ReportedAddsNothing ==
  ASSUME CacheTypes, NEW S \in SUBSET Answers, Reported(S), NEW s \in Identities
  PROVE  partCache'[s]["t"] \subseteq partCache[s]["t"]
  BY DropsAddNothing DEF Reported

\* The lists that readers keep stay fresh.
LEMMA FreshKept ==
  ASSUME AgeInv, Records,
         \A r \in Readers : at'[r] \in {"memory", "batch"} /\ ask'[r].token = "t" =>
            at[r] = at'[r] /\ ask'[r] = ask[r] /\ got'[r] = got[r]
  PROVE  RowsAreFresh'
  <1>1. ASSUME NEW r \in Readers, r \notin overtaken', at'[r] \in {"memory", "batch"},
               ask'[r].token = "t", NEW a \in got'[r]
        PROVE  a.rows >= ask'[r].since
    <2>1. at[r] = at'[r] /\ ask'[r] = ask[r] /\ got'[r] = got[r]
      BY <1>1
    <2>2. r \notin overtaken
      BY <1>1, <2>1 DEF Records, AgeInv, OvertakenTravelled
    <2> QED BY <1>1, <2>1, <2>2 DEF AgeInv, RowsAreFresh
  <1> QED BY <1>1 DEF RowsAreFresh

\* The answers on their way stay fresh, unless one is read anew.
LEMMA AnswersKept ==
  ASSUME BatchInv, AgeInv, BatchInv', rows' >= rows,
         \A j \in DOMAIN batches' : \A a \in batches'[j].answer :
            \E i \in DOMAIN batches : batches[i] = batches'[j],
         \A r \in Readers : at[r] = "travelling" => ask'[r] = ask[r]
  PROVE  AnswersAreFresh'
  <1>1. rows \in Nat /\ rows' \in Nat
    <2>1. ServerTypes'
      BY DEF BatchInv, TypeOK
    <2> QED BY <2>1, RowTypes, BoundsAssumption DEF ServerTypes
  <1>2. ASSUME NEW j \in DOMAIN batches', NEW a \in batches'[j].answer
        PROVE  a.rows <= rows' /\ \A r \in batches'[j].readers : ask'[r].since <= a.rows
    <2>1. PICK i \in DOMAIN batches : batches[i] = batches'[j]
      BY <1>2
    <2>2. /\ a.rows <= rows /\ a.rows \in Nat
          /\ \A r \in batches[i].readers : ask[r].since <= a.rows
      BY <1>2, <2>1, RowTypes DEF AgeInv, AnswersAreFresh
    <2>3. \A r \in batches[i].readers : ask'[r] = ask[r]
      BY RowTypes
    <2> QED BY <2>1, <2>2, <2>3, <1>1
  <1> QED BY <1>2 DEF AnswersAreFresh

\* A step that hands no list and leaves the POSTs alone.
LEMMA AgeKept ==
  ASSUME BatchInv, AgeInv, BatchInv', Records, batches' = batches, rows' >= rows,
         \A s \in Identities : partCache'[s]["t"] \subseteq partCache[s]["t"],
         \A r \in Readers : at[r] = "travelling" => ask'[r] = ask[r],
         \A r \in Readers : ask'[r].since \in {ask[r].since, rows, 0},
         \A r \in Readers : at'[r] \in {"memory", "batch"} /\ ask'[r].token = "t" =>
            at[r] = at'[r] /\ ask'[r] = ask[r] /\ got'[r] = got[r]
  PROVE  AgeInv'
  <1>1. RowsAreFresh'
    BY FreshKept
  <1>2. AnswersAreFresh'
    BY AnswersKept
  <1> QED BY <1>1, <1>2, AgeCarried

\* A read starts.
LEMMA ReadAge ==
  ASSUME BatchInv, AgeInv, Records, NEW r \in Readers, NEW t \in Tokens,
         ReadPlain(r, t) \/ ReadMemory(r, t) \/ ReadWindow(r, t)
  PROVE  AgeInv'
  <1>0. ServerTypes /\ CacheTypes /\ ReadTypes /\ WindowIsTimed /\ BatchInv'
    BY Parts, ReadStep
  <1>1. /\ batches' = batches /\ rows' = rows /\ at[r] \in Resting /\ Asked(r, t)
        /\ \/ partCache' = partCache
           \/ partCache' = Synced
    BY DEF ReadPlain, ReadMemory, ReadWindow, serverVars, cacheVars
  <1>2. /\ ask' \in [Readers -> Asks] /\ ask'[r].token = t
        /\ ask'[r].since \in {rows, 0}
        /\ \A q \in Readers : q # r => ask'[q] = ask[q]
    <2>1. ask' = [ask EXCEPT ![r] = [token |-> t, scope |-> scope,
                                     since |-> IF t = "t" THEN rows ELSE 0]]
      BY <1>1 DEF Asked
    <2>2. ask' \in [Readers -> Asks]
      BY <1>0 DEF BatchInv, TypeOK, ReadTypes
    <2> QED BY <2>1, <2>2, <1>0 DEF ReadTypes
  <1>3. ASSUME NEW q \in Readers, at'[q] \in {"memory", "batch"}, ask'[q].token = "t"
        PROVE  at[q] = at'[q] /\ ask'[q] = ask[q] /\ got'[q] = got[q]
    <2>1. AtSynced \in [Readers -> States] /\ AtSynced[q] \in {at[q], "get"}
      BY <1>0, SyncFacts DEF AtSynced, Rejected, ReadTypes
    <2>2. q # r
      <3>1. CASE ReadPlain(r, t)
        BY <3>1, <1>0, <1>3 DEF ReadPlain, ReadTypes
      <3>2. CASE ReadWindow(r, t)
        BY <3>2, <1>3, <2>1 DEF ReadWindow
      <3>3. CASE ReadMemory(r, t)
        <4>1. t = "m"
          BY <3>3 DEF ReadMemory, Remembered, ServedFromMemory
        <4> QED BY <4>1, <1>2, <1>3
      <3> QED BY <3>1, <3>2, <3>3
    <2>3. got'[q] = got[q] /\ at'[q] \in {at[q], AtSynced[q]}
      BY <2>1, <2>2, <1>0 DEF ReadPlain, ReadMemory, ReadWindow, ReadTypes
    <2> QED BY <2>1, <2>2, <2>3, <1>2, <1>3
  <1>4. \A s \in Identities : partCache'[s]["t"] \subseteq partCache[s]["t"]
    BY <1>0, <1>1, DropsAddNothing
  <1>5. \A q \in Readers : at[q] = "travelling" => ask'[q] = ask[q]
    BY <1>1, <1>2 DEF Resting
  <1>6. rows' >= rows
    BY <1>1, RowTypes
  <1>7. \A q \in Readers : ask'[q].since \in {ask[q].since, rows, 0}
    BY <1>2
  <1> QED BY <1>0, <1>1, <1>3, <1>4, <1>5, <1>6, <1>7, AgeKept

\* A GET of its own.
LEMMA GetAge ==
  ASSUME BatchInv, AgeInv, Records, NEW r \in Readers,
         GetReads(r) \/ GetLands(r) \/ GetFails(r)
  PROVE  AgeInv'
  <1>0. CacheTypes /\ ReadTypes /\ BatchInv'
    BY Parts, GetStep
  <1>1. batches' = batches /\ rows' = rows /\ at[r] = "get"
    BY DEF GetReads, GetLands, GetFails, serverVars, cacheVars
  <1>2. \A s \in Identities : partCache'[s]["t"] \subseteq partCache[s]["t"]
    <2>1. CASE GetLands(r)
      BY <2>1, <1>0, DropsAddNothing DEF GetLands
    <2>2. CASE GetReads(r)
      BY <2>2 DEF GetReads, cacheVars
    <2>3. CASE GetFails(r)
      <3>1. PICK S \in SUBSET Answers : S = got[r]
        BY <1>0 DEF ReadTypes
      <3>2. Reported(S)
        BY <2>3, <3>1 DEF GetFails
      <3> QED BY <3>2, <1>0, ReportedAddsNothing
    <2> QED BY <2>1, <2>2, <2>3
  <1>3. /\ \A q \in Readers : q # r => at'[q] = at[q] /\ ask'[q] = ask[q] /\ got'[q] = got[q]
        /\ at'[r] \in {"get", "idle"} /\ ask'[r].since \in {ask[r].since, 0}
    BY <1>0, <1>1 DEF GetReads, GetLands, GetFails, Finished, ReadTypes, NoAsk
  <1>4. rows' >= rows
    BY <1>1, RowTypes
  <1>5. \A q \in Readers : at[q] = "travelling" => ask'[q] = ask[q]
    BY <1>1, <1>3
  <1>6. \A q \in Readers : ask'[q].since \in {ask[q].since, rows, 0}
    BY <1>3
  <1>7. \A q \in Readers : at'[q] \in {"memory", "batch"} /\ ask'[q].token = "t" =>
           at[q] = at'[q] /\ ask'[q] = ask[q] /\ got'[q] = got[q]
    BY <1>3
  <1> QED BY <1>0, <1>1, <1>2, <1>4, <1>5, <1>6, <1>7, AgeKept

\* Saves, addons, identities and what clears the caches.
LEMMA AroundAge ==
  ASSUME BatchInv, AgeInv, Records,
         \/ WriteStarts \/ WriteApplies \/ WriteSettles \/ WriteFails
         \/ AddonChanges \/ PushArrives \/ IdentityMoves \/ UserIsKnown
         \/ SyncCacheScope \/ ClearQueryBatchCaches
  PROVE  AgeInv'
  <1>0. CacheTypes /\ ReadTypes /\ BatchInv'
    BY Parts, AroundStep, ClearStep
  <1>1. /\ batches' = batches /\ ask' = ask /\ got' = got
        /\ \/ at' = at
           \/ at' = AtSynced
           \/ at' = Rejected(Waiting)
    BY DEF WriteStarts, WriteApplies, WriteSettles, WriteFails, AddonChanges, PushArrives,
           IdentityMoves, UserIsKnown, SyncCacheScope, ClearQueryBatchCaches, readVars
  <1>2. rows' \in {rows, rows + 1}
    BY DEF WriteStarts, WriteApplies, WriteSettles, WriteFails, AddonChanges, PushArrives,
           IdentityMoves, UserIsKnown, SyncCacheScope, ClearQueryBatchCaches, serverVars
  <1>3. partCache' \in {partCache, InvalidateData, Empty, Synced}
    BY DEF WriteStarts, WriteApplies, WriteSettles, WriteFails, AddonChanges, PushArrives,
           IdentityMoves, UserIsKnown, SyncCacheScope, ClearQueryBatchCaches, cacheVars
  <1>4. \A s \in Identities : partCache'[s]["t"] \subseteq partCache[s]["t"]
    BY <1>0, <1>3, DropsAddNothing
  <1>5. \A q \in Readers : at'[q] \in {"memory", "batch"} => at'[q] = at[q]
    BY <1>0, <1>1 DEF AtSynced, Rejected, ReadTypes
  <1>6. rows' >= rows
    BY <1>2, RowTypes
  <1> QED BY <1>0, <1>1, <1>4, <1>5, <1>6, AgeKept

\* Of POSTs, one is taken out.
LEMMA OthersStay ==
  ASSUME PostsTrue, NEW i \in DOMAIN batches, batches' = RemoveAt(batches, i)
  PROVE  \A j \in DOMAIN batches' : \E k \in DOMAIN batches : batches[k] = batches'[j]
  <1>1. batches \in Seq(Posts) /\ Len(batches) \in Nat /\ DOMAIN batches = 1..Len(batches)
    BY LenProperties DEF PostsTrue
  <1>2. /\ batches' \in Seq(Posts) /\ Len(batches') = Len(batches) - 1
        /\ \A j \in 1..(Len(batches) - 1) : batches'[j] = batches[IF j < i THEN j ELSE j + 1]
    BY <1>1, RemoveAtFacts
  <1>3. DOMAIN batches' = 1..(Len(batches) - 1)
    BY <1>2, LenProperties
  <1>4. ASSUME NEW j \in DOMAIN batches'
        PROVE  \E k \in DOMAIN batches : batches[k] = batches'[j]
    <2>1. (IF j < i THEN j ELSE j + 1) \in DOMAIN batches
      BY <1>1, <1>3, <1>4
    <2> QED BY <2>1, <1>2, <1>3
  <1> QED BY <1>4

\* A POST fails: nobody is handed a list.
LEMMA BatchFailsAge ==
  ASSUME BatchInv, AgeInv, Records, NEW i \in DOMAIN batches, BatchFails(i)
  PROVE  AgeInv'
  <1>0. ServerTypes /\ CacheTypes /\ ReadTypes /\ PostsTrue /\ BatchInv'
    BY Parts, BatchFailsStep
  <1>1. /\ batches' = RemoveAt(batches, i) /\ rows' = rows /\ ask' = ask /\ got' = got
    BY DEF BatchFails, serverVars
  <1>2. PICK f \in {"get", "refused"} :
          at' = [r \in Readers |-> IF r \in batches[i].readers THEN f ELSE at[r]]
    BY DEF BatchFails, Rejected
  <1>3. RowsAreFresh'
    BY <1>1, <1>2, FreshKept
  <1>4. rows' >= rows
    BY <1>1, RowTypes
  <1>5. AnswersAreFresh'
    <2>1. \A j \in DOMAIN batches' : \E k \in DOMAIN batches : batches[k] = batches'[j]
      BY <1>0, <1>1, OthersStay
    <2> QED BY <2>1, <1>0, <1>1, <1>4, AnswersKept
  <1>6. \A s \in Identities : partCache'[s]["t"] \subseteq partCache[s]["t"]
    <2>1. batches[i] \in Posts
      BY <1>0, ElementOfSeq, LenProperties DEF PostsTrue
    <2>2. PICK S \in SUBSET Answers : S = batches[i].answer
      BY <2>1 DEF Posts
    <2>3. Reported(S)
      BY <2>2 DEF BatchFails
    <2> QED BY <2>3, <1>0, ReportedAddsNothing
  <1>7. \A r \in Readers : ask'[r].since \in {ask[r].since, rows, 0}
    BY <1>1
  <1> QED BY <1>0, <1>3, <1>4, <1>5, <1>6, <1>7, AgeCarried

\* The window leaves, with no answer yet.
LEMMA FlushAge ==
  ASSUME BatchInv, AgeInv, Records, Flush
  PROVE  AgeInv'
  <1>0. ServerTypes /\ CacheTypes /\ ReadTypes /\ PostsTrue /\ BatchInv'
    BY Parts, FlushStep
  <1> DEFINE new == [scope |-> scope, who |-> identity, readers |-> Batch,
                     inm |-> Inm(Batch), answer |-> {}, parts |-> {}]
  <1>1. /\ rows' = rows /\ ask' = ask /\ got' = got /\ partCache' = Synced
        /\ batches' = Post(Batch)
        /\ at' = [r \in Readers |-> IF r \in Batch THEN "travelling" ELSE Rejected(Waiting)[r]]
    BY DEF Flush, serverVars
  <1>2. \A s \in Identities : partCache'[s]["t"] \subseteq partCache[s]["t"]
    BY <1>0, <1>1, DropsAddNothing
  <1>3. \A r \in Readers : at'[r] \in {"memory", "batch"} => at'[r] = at[r]
    BY <1>0, <1>1 DEF Rejected, ReadTypes
  <1>4. RowsAreFresh'
    BY <1>1, <1>3, FreshKept
  <1>5. rows' >= rows
    BY <1>1, RowTypes
  <1>6. ASSUME NEW j \in DOMAIN batches', NEW a \in batches'[j].answer
        PROVE  \E k \in DOMAIN batches : batches[k] = batches'[j]
    <2>1. CASE Batch = {}
      BY <2>1, <1>1, <1>6 DEF Post
    <2>2. CASE Batch # {}
      <3>1. /\ batches' = Append(batches, new) /\ batches \in Seq(Posts)
            /\ Len(batches) \in Nat /\ DOMAIN batches = 1..Len(batches)
        BY <1>0, <1>1, <2>2, LenProperties DEF Post, PostsTrue
      <3>2. new.answer = {}
        OBVIOUS
      <3> HIDE DEF new
      <3>3. /\ DOMAIN batches' = 1..(Len(batches) + 1) /\ batches'[Len(batches) + 1] = new
            /\ \A k \in 1..Len(batches) : batches'[k] = batches[k]
        BY <3>1, AppendProperties, LenProperties
      <3>4. j \in DOMAIN batches /\ batches'[j] = batches[j]
        BY <3>1, <3>2, <3>3, <1>6
      <3> QED BY <3>4
    <2> QED BY <2>1, <2>2
  <1>7. AnswersAreFresh'
    BY <1>0, <1>1, <1>5, <1>6, AnswersKept
  <1>8. \A r \in Readers : ask'[r].since \in {ask[r].since, rows, 0}
    BY <1>1
  <1> HIDE DEF new
  <1> QED BY <1>0, <1>2, <1>4, <1>5, <1>7, <1>8, AgeCarried

\* The server reads the rows of now, which no reader of the batch asked for
\* later.
LEMMA BatchReadsAge ==
  ASSUME BatchInv, AgeInv, Records, NEW i \in DOMAIN batches, BatchReads(i)
  PROVE  AgeInv'
  <1>0. ServerTypes /\ PostsTrue /\ BatchInv'
    BY Parts, BatchReadsStep
  <1>1. rows' = rows /\ partCache' = partCache /\ at' = at /\ ask' = ask /\ got' = got
    BY DEF BatchReads, serverVars, cacheVars
  <1>2. /\ batches \in Seq(Posts) /\ Len(batches) \in Nat /\ DOMAIN batches = 1..Len(batches)
        /\ rows \in Nat
    BY <1>0, RowTypes DEF PostsTrue
  <1>3. PICK b \in Posts : b = batches[i]
    BY <1>2, ElementOfSeq
  <1>4. PICK x, parts : /\ x.rows = rows
                        /\ batches' = [batches EXCEPT ![i] = [b EXCEPT !.answer = {x}, !.parts = parts]]
    <2>1. AnswerTo(b.who).rows = rows
      BY DEF AnswerTo
    <2> QED BY <2>1, <1>3 DEF BatchReads
  <1> DEFINE answered == [b EXCEPT !.answer = {x}, !.parts = parts]
  <1>5. x.rows = rows
    BY <1>4
  <1>6. answered.readers = b.readers /\ answered.answer = {x}
    BY DEF Posts
  <1>7. /\ DOMAIN batches' = DOMAIN batches /\ batches'[i] = answered
        /\ \A j \in DOMAIN batches : j # i => batches'[j] = batches[j]
    BY <1>2, <1>4
  <1> HIDE DEF answered
  <1>8. ASSUME NEW j \in DOMAIN batches', NEW a \in batches'[j].answer
        PROVE  a.rows <= rows' /\ \A r \in batches'[j].readers : ask'[r].since <= a.rows
    <2>1. CASE j = i
      <3>1. a.rows = rows /\ batches'[j].readers = batches[i].readers
        BY <2>1, <1>3, <1>5, <1>6, <1>7, <1>8
      <3>2. batches[i].readers \subseteq Readers
        BY <1>2, RowTypes
      <3> QED BY <3>1, <3>2, <1>1, <1>2 DEF AgeInv, AsksArePast
    <2>2. CASE j # i
      BY <2>2, <1>1, <1>7, <1>8 DEF AgeInv, AnswersAreFresh
    <2> QED BY <2>1, <2>2
  <1>9. AnswersAreFresh'
    BY <1>8 DEF AnswersAreFresh
  <1>10. RowsAreFresh'
    BY <1>1, FreshKept
  <1>11. \A s \in Identities : partCache'[s]["t"] \subseteq partCache[s]["t"]
    BY <1>1
  <1>12. rows' >= rows /\ \A r \in Readers : ask'[r].since \in {ask[r].since, rows, 0}
    BY <1>1, <1>2
  <1> QED BY <1>0, <1>9, <1>10, <1>11, <1>12, AgeCarried

\* A batch lands: its lists are newer than what their readers waited for, and
\* unless it was overtaken what a not_modified part leaves in place is not
\* older.
LEMMA BatchLandsAge ==
  ASSUME BatchInv, AgeInv, Records, NEW i \in DOMAIN batches, BatchLands(i)
  PROVE  AgeInv'
  <1>0. ServerTypes /\ CacheTypes /\ ReadTypes /\ WindowIsTimed /\ PostsTrue /\ BatchInv'
    BY Parts, BatchLandsStep
  <1>1. rows' = rows /\ ask' = ask /\ batches' = RemoveAt(batches, i)
    BY DEF BatchLands, serverVars
  <1> DEFINE b == batches[i]
  <1>2. b \in Posts
    BY <1>0, ElementOfSeq, LenProperties DEF PostsTrue
  <1>3. PostIsItsOwn(b) /\ b.readers \subseteq Readers
    BY <1>0, <1>2 DEF PostsTrue, Posts
  <1>4. PICK new \in b.answer, denied \in SUBSET (Tokens \ b.parts) :
          LET held == IF Moved THEN Empty ELSE Observed(new)
              Stored(s, t) == s = ScopeOf(b) /\ StillMine(b) /\ t \in b.parts /\ ~NotModified(b, t, new)
              Handed(r) == Part(b, ask[r].token, new, held)
          IN /\ partCache' = [s \in Identities |-> [t \in Tokens |->
                                IF Stored(s, t) THEN {new} ELSE held[s][t]]]
             /\ at' = [r \in Readers |->
                         CASE r \notin b.readers -> AtSynced[r]
                           [] r \in b.readers /\ Handed(r) # {} -> "batch"
                           [] r \in b.readers /\ StillMine(b) /\ ask[r].token \in denied -> "refused"
                           [] OTHER -> "get"]
             /\ got' = [r \in Readers |-> IF r \in b.readers THEN Handed(r) ELSE got[r]]
    BY DEF BatchLands
  <1> DEFINE held == IF Moved THEN Empty ELSE Observed(new)
  <1>5. \A s \in Identities : held[s]["t"] \subseteq partCache[s]["t"]
    BY <1>0, DropsAddNothing
  <1>6. \A s \in Identities : partCache'[s]["t"] \in {{new}, held[s]["t"]}
    BY <1>4 DEF Tokens
  <1>7. \A r \in Readers : /\ r \in b.readers => got'[r] = Part(b, ask[r].token, new, held)
                           /\ r \notin b.readers => got'[r] = got[r] /\ at'[r] = AtSynced[r]
    BY <1>4
  <1> HIDE DEF held
  <1>8. new \in Answers
    BY <1>2, <1>4 DEF Posts
  <1>9. ASSUME NEW r \in Readers, r \in b.readers, r \notin overtaken, ask[r].token = "t",
               NEW a \in got'[r]
        PROVE  a.rows >= ask[r].since
    <2>1. a \in Part(b, "t", new, held)
      BY <1>7, <1>9
    <2>2. ask[r].since <= new.rows /\ new.rows \in Nat /\ ask[r].since \in Nat
      BY <1>4, <1>9, RowTypes DEF AgeInv, AnswersAreFresh
    <2>3. CASE a = new
      BY <2>2, <2>3
    <2>4. CASE NotModified(b, "t", new) /\ a \in held[b.scope]["t"]
      <3>1. PICK e \in b.inm["t"] : Etag("t", e) = Etag("t", new)
        BY <2>4 DEF NotModified
      <3>2. e.rows = new.rows
        BY <3>1 DEF Etag
      <3>3. b.scope \in Identities
        <4>1. b.scope # None
          BY <3>1, <1>3 DEF PostIsItsOwn, Tokens
        <4> QED BY <4>1, <1>2 DEF Posts
      <3>4. a \in partCache[b.scope]["t"]
        BY <3>3, <2>4, <1>5
      <3>5. ~(b.readers \subseteq overtaken)
        BY <1>9
      <3>6. e.rows <= a.rows /\ a.rows \in Nat
        BY <3>1, <3>3, <3>4, <3>5, RowTypes DEF AgeInv, HeldIsNewer
      <3> QED BY <2>2, <3>2, <3>6
    <2>5. a = new \/ (NotModified(b, "t", new) /\ a \in held[b.scope]["t"])
      BY <2>1 DEF Part, ScopeOf
    <2> QED BY <2>3, <2>4, <2>5
  <1>10. RowsAreFresh'
    <2>1. ASSUME NEW r \in Readers, r \notin overtaken', at'[r] \in {"memory", "batch"},
                 ask'[r].token = "t", NEW a \in got'[r]
          PROVE  a.rows >= ask'[r].since
      <3>1. CASE r \in b.readers
        <4>1. at'[r] = "batch"
          BY <3>1, <2>1, <1>4
        <4>2. r \notin overtaken
          BY <4>1, <2>1 DEF Records
        <4> QED BY <3>1, <4>2, <2>1, <1>1, <1>9
      <3>2. CASE r \notin b.readers
        <4>1. at'[r] = at[r] /\ got'[r] = got[r]
          BY <3>2, <2>1, <1>0, <1>7 DEF AtSynced, Rejected, ReadTypes
        <4>2. r \notin overtaken
          BY <4>1, <2>1 DEF Records, AgeInv, OvertakenTravelled
        <4> QED BY <4>1, <4>2, <2>1, <1>1 DEF AgeInv, RowsAreFresh
      <3> QED BY <3>1, <3>2
    <2> QED BY <2>1 DEF RowsAreFresh
  <1>11. \A s \in Identities : \/ partCache'[s]["t"] \subseteq partCache[s]["t"]
                               \/ \E a \in Answers : partCache'[s]["t"] = {a}
    BY <1>5, <1>6, <1>8
  <1>12. rows' >= rows /\ \A r \in Readers : ask'[r].since \in {ask[r].since, rows, 0}
    BY <1>1, RowTypes
  <1> HIDE DEF b
  <1>13. AnswersAreFresh'
    <2>1. \A j \in DOMAIN batches' : \E k \in DOMAIN batches : batches[k] = batches'[j]
      BY <1>0, <1>1, OthersStay
    <2> QED BY <2>1, <1>0, <1>1, <1>12, AnswersKept
  <1> QED BY <1>0, <1>10, <1>11, <1>12, <1>13, AgeCarried

\* Nothing is remembered or asked yet.
LEMMA InitAge ==
  ASSUME HistoryInit
  PROVE  AgeInv
  <1>1. DOMAIN batches = {} /\ rows = 0 /\ overtaken = {}
    BY DEF HistoryInit, Init
  <1>2. \A s \in Identities : partCache[s]["t"] = {}
    BY DEF HistoryInit, Init, Empty, Tokens
  <1>3. \A r \in Readers : ask[r].since = 0 /\ got[r] = {}
    BY DEF HistoryInit, Init, NoAsk
  <1> QED BY <1>1, <1>2, <1>3
          DEF AgeInv, AsksArePast, AnswersAreFresh, HeldIsNewer, OvertakenTravelled, RowsAreFresh

\* Every step keeps the lists fresh.
LEMMA StepAge ==
  ASSUME BatchInv, AgeInv, [Next /\ Records]_<<vars, overtaken>>
  PROVE  AgeInv'
  <1>1. ASSUME Records, NEW r \in Readers, NEW t \in Tokens,
               ReadPlain(r, t) \/ ReadMemory(r, t) \/ ReadWindow(r, t)
        PROVE  AgeInv'
    BY <1>1, ReadAge
  <1>2. ASSUME Records, NEW r \in Readers, GetReads(r) \/ GetLands(r) \/ GetFails(r)
        PROVE  AgeInv'
    BY <1>2, GetAge
  <1>3. CASE Records /\ Flush
    BY <1>3, FlushAge
  <1>4. ASSUME Records, NEW i \in DOMAIN batches, BatchReads(i) \/ BatchLands(i) \/ BatchFails(i)
        PROVE  AgeInv'
    BY <1>4, BatchReadsAge, BatchLandsAge, BatchFailsAge
  <1>5. CASE /\ Records
             /\ \/ WriteStarts \/ WriteApplies \/ WriteSettles \/ WriteFails
                \/ AddonChanges \/ PushArrives \/ IdentityMoves \/ UserIsKnown
                \/ SyncCacheScope \/ ClearQueryBatchCaches
    BY <1>5, AroundAge
  <1>6. CASE UNCHANGED <<vars, overtaken>>
    BY <1>6 DEF vars, serverVars, cacheVars, readVars, AgeInv, AsksArePast, AnswersAreFresh,
                HeldIsNewer, OvertakenTravelled, RowsAreFresh
  <1>7. CASE Next /\ Records
    BY <1>7, <1>1, <1>2, <1>3, <1>4, <1>5 DEF Next
  <1> QED BY <1>6, <1>7

\* A list handed by the batch shows every save that the server had when it was
\* asked for (query-batch.ts), in whatever order batches, GETs and saves are
\* answered: unless an older answer took the place of the copy whose etag was
\* sent, which a not_modified part is then answered with (347-354).
THEOREM ListsAreFresh == HistorySpec => []RowsAreFresh
  <1>1. HistoryInit => BatchInv /\ AgeInv
    BY InitIsTrue, InitAge DEF HistoryInit
  <1>2. BatchInv /\ AgeInv /\ [Next /\ Records]_<<vars, overtaken>> => BatchInv' /\ AgeInv'
    <2>1. [Next /\ Records]_<<vars, overtaken>> => [Next]_vars
      BY Zenon
    <2> QED BY <2>1, StepIsTrue, StepAge
  <1>3. HistorySpec => [](BatchInv /\ AgeInv)
    BY <1>1, <1>2, PTL DEF HistorySpec
  <1>4. AgeInv => RowsAreFresh
    BY DEF AgeInv
  <1> QED BY <1>3, <1>4, PTL
=============================================================================

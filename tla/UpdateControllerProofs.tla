---------------------- MODULE UpdateControllerProofs ----------------------
(***************************************************************************)
(* Theorems about UpdateController, for any number of tabs, of controllers *)
(* stopped in them and of deploys, and any delays of the policy.           *)
(***************************************************************************)
EXTENDS UpdateController, FiniteSetTheorems, TLAPS

\* The builds are in the order they are deployed.
Ordered ==
    /\ active <= published
    /\ waiting # 0 => active < waiting /\ waiting <= published

\* Only a controller that applied an update, and was not stopped over it,
\* listens, waits for its timer or reloads, and it reloads once; the pages of
\* closed tabs remember nothing.
OneController(r) ==
    /\ r.reloads <= 1
    /\ r.armed \/ r.fallback \/ r.reloads > 0 => r.applying /\ ~r.left
    /\ r.left => r.applying
    /\ r.attached \/ r.seen # 0 => r.build # 0

\* An acceptance is no younger than the attempt stamped with it.
StampedTogether(s) == \A a \in s.accepted : \E b \in s.attempt : a <= b /\ b <= now

\* The controllers that remember a worker that was replaced: each of them
\* erases the stored attempt once.
Behind == {c \in Controllers : ctl[c].seen \notin {0, waiting}}

\* A burst of attempts leaves one on record, unless a controller that was
\* behind has erased it; then that one is not behind any more.
Burst(w) ==
    /\ tries[w].n <= Cardinality(Here) /\ tries[w].at <= now
    /\ tries[w].n > 0 => w <= published /\ (w = published => w \in {active, waiting})
    /\ w = waiting =>
         /\ tries[w].n + Cardinality(Behind) <= Cardinality(Here)
         /\ (tries[w].n > 0 /\ now - tries[w].at < AcceptedTtl) =>
               \/ \E b \in store.attempt : tries[w].at <= b
               \/ tries[w].n + Cardinality(Behind) + 1 <= Cardinality(Here)

UpdateInv ==
    /\ TypeOK /\ Ordered /\ StampedTogether(store)
    /\ \A c \in Controllers : OneController(ctl[c])
    /\ \A w \in Workers : Burst(w)

\* What evaluate makes of the storage before it decides.
Looked(seen) == Guarded(Inherited(seen, store))

---------------------------------------------------------------------------
\* The controllers, those here and those behind, are finitely many.
LEMMA BehindFinite ==
    /\ IsFiniteSet(Behind) /\ Cardinality(Behind) \in Nat
    /\ IsFiniteSet(Here) /\ Cardinality(Here) \in Nat
  <1>1. Behind \in SUBSET Controllers /\ Here \in SUBSET Controllers /\ IsFiniteSet(Controllers)
    BY UpdateAssumption DEF Behind, Here
  <1> QED BY <1>1, FS_Subset, FS_CardinalityType

\* No controller is behind before the first deploy.
LEMMA InitInv == Init => UpdateInv
  <1> SUFFICES ASSUME Init PROVE UpdateInv
    OBVIOUS
  <1> USE UpdateAssumption
  <1>1. Cardinality(Behind) = 0 /\ Cardinality(Here) \in Nat
    <2>1. Behind = {}
      BY DEF Init, Behind, Created
    <2> QED BY <2>1, BehindFinite, FS_EmptySet
  <1>2. \A b \in {0, 1} : Created(b) \in ControllerRecords /\ OneController(Created(b))
    BY DEF Created, ControllerRecords, Workers, OneController
  <1>9. Cleared \in Stores
    BY DEF Cleared, Stores, Instants
  <1>3. tries \in [Workers -> [n : Nat, at : Times]] /\ \A w \in Workers : tries[w].n = 0 /\ tries[w].at = 0
    BY DEF Init, Times
  <1>7. now \in Times /\ published \in Workers /\ active \in Workers /\ clicks \in 0..MaxClicks
    BY DEF Init, Times, Workers
  <1>8. /\ ctl \in [Controllers -> ControllerRecords] /\ store \in Stores
        /\ \A c \in Controllers : OneController(ctl[c])
    <2>1. PICK open \in Openings :
            ctl = [c \in Controllers |-> Created(IF c[1] \in open THEN 1 ELSE 0)]
      BY DEF Init
    <2>2. \A c \in Controllers : (IF c[1] \in open THEN 1 ELSE 0) \in {0, 1}
      OBVIOUS
    <2> QED BY <1>2, <1>9, <2>1, <2>2 DEF Init
  <1>4. TypeOK
    BY <1>3, <1>7, <1>8 DEF Init, TypeOK
  <1>5. \A w \in Workers : Burst(w)
    BY <1>1, <1>3 DEF Burst, Init, Workers
  <1>6. Ordered /\ StampedTogether(store)
    BY DEF Init, Ordered, StampedTogether, Cleared
  <1> QED BY <1>4, <1>5, <1>6, <1>8 DEF UpdateInv

\* The storage evaluate decides on: typed, without an acceptance when a
\* recent attempt is on record, and with the record unless it was behind.
LEMMA LookedFacts ==
  ASSUME UpdateInv, NEW seen \in {0} \cup Workers
  PROVE  /\ Looked(seen) \in Stores /\ StampedTogether(Looked(seen))
         /\ Within(Looked(seen).attempt, AcceptedTtl) => Looked(seen).accepted = {}
         /\ seen \in {0, waiting} => Looked(seen).attempt = store.attempt
  <1> DEFINE s == Inherited(seen, store)
  <1>1. store \in Stores /\ StampedTogether(store) /\ now \in Times
    BY DEF UpdateInv, TypeOK
  <1>2. Cleared \in Stores /\ Cleared.accepted = {}
    BY DEF Cleared, Stores, Instants
  <1>3. s \in Stores /\ StampedTogether(s) /\ (seen \in {0, waiting} => s = store)
    BY <1>1, <1>2 DEF Inherited, StampedTogether
  <1>4. Looked(seen) = [s EXCEPT !.accepted = IF Within(s.attempt, AcceptedTtl) THEN {} ELSE @,
                                 !.since = IF @ = {} THEN {now} ELSE @]
    BY DEF Looked, Guarded
  <1> HIDE DEF s
  <1>5. PICK si, di, ac, at : s = [since |-> si, dismissed |-> di, accepted |-> ac, attempt |-> at]
                              /\ si \in Instants /\ di \in Instants /\ ac \in Instants /\ at \in Instants
    BY <1>3 DEF Stores
  <1>6. Looked(seen) = [since |-> IF si = {} THEN {now} ELSE si, dismissed |-> di,
                        accepted |-> IF Within(at, AcceptedTtl) THEN {} ELSE ac, attempt |-> at]
    BY <1>4, <1>5
  <1>7. {now} \in Instants /\ {} \in Instants
    BY <1>1 DEF Instants
  <1>8. Looked(seen) \in Stores
    BY <1>5, <1>6, <1>7 DEF Stores
  <1>9. StampedTogether(Looked(seen))
    BY <1>3, <1>5, <1>6 DEF StampedTogether
  <1> QED BY <1>3, <1>5, <1>6, <1>8, <1>9

\* A page is reloaded by the first call only.
LEMMA ReloadingFacts ==
  ASSUME NEW r \in ControllerRecords, r.reloads <= 1
  PROVE  /\ Reloading(r) \in ControllerRecords /\ Reloading(r).reloads <= 1
         /\ Reloading(r).applying = r.applying /\ Reloading(r).seen = r.seen
         /\ Reloading(r).stale = r.stale /\ Reloading(r).left = r.left
         /\ Reloading(r).attached = r.attached /\ Reloading(r).build = r.build
  <1>1. r.reloads \in Nat
    BY DEF ControllerRecords
  <1>2. CASE r.reloads = 0
    <2>1. Reloading(r) = [r EXCEPT !.reloads = 1]
      BY <1>2 DEF Reloading
    <2>2. 1 \in Nat /\ 1 <= 1
      OBVIOUS
    <2> QED BY <2>1, <2>2 DEF ControllerRecords
  <1>3. CASE r.reloads # 0
    <2>1. Reloading(r) = [r EXCEPT !.reloads = r.reloads]
      BY <1>3 DEF Reloading
    <2>2. Reloading(r) = r
      BY <2>1 DEF ControllerRecords
    <2> QED BY <2>2
  <1> QED BY <1>2, <1>3

\* What applyNow leaves behind.
LEMMA ApplyFacts ==
  ASSUME now \in Times, NEW c \in Controllers, NEW r \in ControllerRecords, OneController(r), ~r.applying,
         NEW s \in Stores, StampedTogether(s), skip \in BOOLEAN, Apply(c, r, s)
  PROVE  /\ store' \in Stores /\ skip' \in BOOLEAN
         /\ store'.attempt = {now} /\ store'.since = s.since
         /\ \A a \in store'.accepted : a <= now
         /\ \E q \in ControllerRecords :
               /\ ctl' = [ctl EXCEPT ![c] = q] /\ OneController(q) /\ q.seen = r.seen
               /\ q.build = r.build /\ q.stale = r.stale
  <1>1. PICK si, di, ac, at : s = [since |-> si, dismissed |-> di, accepted |-> ac, attempt |-> at]
                              /\ si \in Instants /\ di \in Instants /\ ac \in Instants /\ at \in Instants
    BY DEF Stores
  <1>2. store' = [since |-> si, dismissed |-> {},
                  accepted |-> IF Within(ac, AcceptedTtl) THEN ac ELSE {now}, attempt |-> {now}]
    BY <1>1 DEF Apply, Stamped
  <1>3. {now} \in Instants /\ {} \in Instants
    BY DEF Instants
  <1>4. store' \in Stores
    BY <1>1, <1>2, <1>3 DEF Stores
  <1>5. \A a \in store'.accepted : a <= now
    <2>1. \A a \in ac : a <= now
      BY <1>1, UpdateAssumption DEF StampedTogether, Instants, Times
    <2>2. now <= now
      BY UpdateAssumption DEF Times
    <2> QED BY <1>2, <2>1, <2>2
  <1> DEFINE on == [r EXCEPT !.applying = TRUE, !.pending = FALSE, !.armed = TRUE, !.fallback = TRUE]
  <1>6. /\ on \in ControllerRecords /\ on.seen = r.seen /\ on.stale = r.stale /\ on.build = r.build
        /\ on.applying /\ on.reloads = r.reloads /\ on.left = r.left /\ on.attached = r.attached
    BY DEF ControllerRecords
  <1>r. r.reloads <= 1 /\ ~r.left /\ (r.attached \/ r.seen # 0 => r.build # 0)
    BY DEF OneController
  <1> HIDE DEF on
  <1>7. /\ Reloading(on) \in ControllerRecords /\ Reloading(on).seen = r.seen
        /\ Reloading(on).stale = r.stale /\ Reloading(on).build = r.build
        /\ Reloading(on).left = r.left /\ Reloading(on).attached = r.attached
        /\ Reloading(on).applying /\ Reloading(on).reloads <= 1
    BY <1>6, <1>r, ReloadingFacts
  <1>8. OneController(on) /\ OneController(Reloading(on))
    BY <1>6, <1>7, <1>r DEF OneController
  <1>9. skip' \in BOOLEAN /\ (ctl' = [ctl EXCEPT ![c] = on] \/ ctl' = [ctl EXCEPT ![c] = Reloading(on)])
    BY DEF Apply, on
  <1> QED BY <1>1, <1>2, <1>4, <1>5, <1>6, <1>7, <1>8, <1>9

\* A step of one controller that keeps the waiting worker: who is behind
\* stays behind or leaves.
LEMMA BehindAfter ==
  ASSUME UpdateInv, NEW c \in Controllers, NEW q \in ControllerRecords, ctl' = [ctl EXCEPT ![c] = q],
         waiting' = waiting, q.seen \in {0, waiting, ctl[c].seen},
         ctl[c].build # 0 => q.build # 0
  PROVE  /\ Cardinality(Behind') \in Nat /\ Cardinality(Behind') <= Cardinality(Behind)
         /\ (ctl[c].seen \notin {0, waiting} /\ q.seen \in {0, waiting})
               => Cardinality(Behind') + 1 <= Cardinality(Behind)
         /\ (ctl[c].build # 0 /\ q.seen \in {0, waiting}) => Cardinality(Behind') + 1 <= Cardinality(Here)
         /\ Here \subseteq Here'
  <1>t. ctl \in [Controllers -> ControllerRecords] /\ \A d \in Controllers : OneController(ctl[d])
    BY DEF UpdateInv, TypeOK
  <1>1. Behind' \in SUBSET Behind
    BY <1>t DEF Behind
  <1>2. /\ IsFiniteSet(Behind) /\ Cardinality(Behind) \in Nat
        /\ IsFiniteSet(Here) /\ Cardinality(Here) \in Nat
    BY BehindFinite
  <1>3. IsFiniteSet(Behind') /\ Cardinality(Behind') <= Cardinality(Behind)
    BY <1>1, <1>2, FS_Subset
  <1>4. Cardinality(Behind') \in Nat
    BY <1>3, FS_CardinalityType
  <1>5. ASSUME ctl[c].seen \notin {0, waiting}, q.seen \in {0, waiting}
        PROVE  Cardinality(Behind') + 1 <= Cardinality(Behind)
    <2>1. c \in Behind /\ c \notin Behind'
      BY <1>t, <1>5 DEF Behind
    <2>2. Cardinality(Behind') # Cardinality(Behind)
      BY <1>1, <1>2, <2>1, FS_Subset
    <2> QED BY <1>2, <1>3, <1>4, <2>2
  <1>6. ASSUME ctl[c].build # 0, q.seen \in {0, waiting} PROVE Cardinality(Behind') + 1 <= Cardinality(Here)
    <2>1. c \in Here /\ c \notin Behind'
      BY <1>t, <1>6 DEF Behind, Here
    <2>2. Behind \in SUBSET Here
      BY <1>t DEF Behind, Here, OneController
    <2>3. Behind' \in SUBSET Here
      BY <1>1, <2>2
    <2>4. Cardinality(Behind') # Cardinality(Here) /\ Cardinality(Behind') <= Cardinality(Here)
      BY <1>2, <2>1, <2>3, FS_Subset
    <2> QED BY <1>2, <1>4, <2>4
  <1>7. Here \subseteq Here'
    BY <1>t DEF Here
  <1> QED BY <1>3, <1>4, <1>5, <1>6, <1>7

\* A step that applies nothing: the invariant is kept when what it writes is
\* typed, nobody falls behind and the record of the attempt is kept, or
\* somebody is behind no longer.
LEMMA CalmStep ==
  ASSUME UpdateInv, ctl' \in [Controllers -> ControllerRecords],
         \A d \in Controllers : OneController(ctl'[d]),
         Here \subseteq Here', Cardinality(Behind') \in Nat, Cardinality(Behind') <= Cardinality(Behind),
         store' \in Stores, StampedTogether(store'), skip' \in BOOLEAN,
         clicks' \in 0..MaxClicks, changed' \subseteq Tabs,
         UNCHANGED <<now, published, active, waiting, tries>>,
         \/ store'.attempt = store.attempt
         \/ store'.attempt = {now}
         \/ waiting = 0
         \/ Cardinality(Behind') + 1 <= Cardinality(Behind)
  PROVE  UpdateInv'
  <1>t. TypeOK /\ Ordered /\ \A w \in Workers : Burst(w)
    BY DEF UpdateInv
  <1>1. TypeOK'
    BY <1>t DEF TypeOK
  <1>2. Ordered' /\ StampedTogether(store)'
    BY <1>t DEF Ordered, StampedTogether
  <1>3. Cardinality(Behind) \in Nat /\ Cardinality(Here) \in Nat /\ Cardinality(Here') \in Nat
        /\ Cardinality(Here) <= Cardinality(Here')
    <2>1. Here' \in SUBSET Controllers /\ IsFiniteSet(Controllers)
      BY UpdateAssumption DEF Here
    <2>2. IsFiniteSet(Here') /\ Here \in SUBSET Here'
      BY <2>1, FS_Subset
    <2>3. Cardinality(Here') \in Nat /\ Cardinality(Here) <= Cardinality(Here')
      BY <2>2, FS_Subset, FS_CardinalityType
    <2> QED BY <2>3, BehindFinite
  <1>4. ASSUME NEW w \in Workers PROVE Burst(w)'
    <2>1. tries[w].n \in Nat /\ tries[w].at \in Nat /\ now \in Nat
      BY <1>t, UpdateAssumption DEF TypeOK, Times
    <2>2. tries'[w].n <= Cardinality(Here') /\ tries'[w].at <= now'
          /\ (tries'[w].n > 0 => w <= published' /\ (w = published' => w \in {active', waiting'}))
      BY <1>t, <1>3, <2>1 DEF Burst
    <2>5. ASSUME w = waiting PROVE tries[w].n + Cardinality(Behind') <= Cardinality(Here')
      BY <1>t, <1>3, <2>1, <2>5 DEF Burst
    <2>6. ASSUME w = waiting, tries[w].n > 0, now - tries[w].at < AcceptedTtl
          PROVE  \/ \E b \in store'.attempt : tries[w].at <= b
                 \/ tries[w].n + Cardinality(Behind') + 1 <= Cardinality(Here')
      <3>0. waiting # 0
        BY <2>6, UpdateAssumption DEF Workers
      <3>1. \/ \E b \in store.attempt : tries[w].at <= b
            \/ tries[w].n + Cardinality(Behind) + 1 <= Cardinality(Here)
        BY <1>t, <2>6 DEF Burst
      <3>2. tries[w].n + Cardinality(Behind) <= Cardinality(Here) /\ tries[w].at <= now
        BY <1>t, <2>6 DEF Burst
      <3>3. CASE store'.attempt = store.attempt
        BY <3>1, <3>3, <1>3, <2>1
      <3>4. CASE store'.attempt = {now}
        BY <3>2, <3>4
      <3>5. CASE Cardinality(Behind') + 1 <= Cardinality(Behind)
        BY <3>2, <3>5, <1>3, <2>1
      <3> QED BY <3>0, <3>3, <3>4, <3>5
    <2> QED BY <2>2, <2>5, <2>6 DEF Burst
  <1> QED BY <1>1, <1>2, <1>4 DEF UpdateInv

\* Such a step of one controller.
LEMMA QuietStep ==
  ASSUME UpdateInv, NEW c \in Controllers, NEW q \in ControllerRecords, ctl' = [ctl EXCEPT ![c] = q],
         OneController(q), q.seen \in {0, waiting, ctl[c].seen}, ctl[c].build # 0 => q.build # 0,
         store' \in Stores, StampedTogether(store'), skip' \in BOOLEAN,
         clicks' \in 0..MaxClicks, changed' \subseteq Tabs,
         UNCHANGED <<now, published, active, waiting, tries>>,
         \/ store'.attempt = store.attempt
         \/ store'.attempt = {now}
         \/ waiting = 0
         \/ ctl[c].seen \notin {0, waiting} /\ q.seen \in {0, waiting}
  PROVE  UpdateInv'
  <1>1. /\ ctl' \in [Controllers -> ControllerRecords]
        /\ \A d \in Controllers : OneController(ctl'[d])
    BY DEF UpdateInv, TypeOK
  <1>2. /\ Cardinality(Behind') \in Nat /\ Cardinality(Behind') <= Cardinality(Behind)
        /\ (ctl[c].seen \notin {0, waiting} /\ q.seen \in {0, waiting})
               => Cardinality(Behind') + 1 <= Cardinality(Behind)
        /\ Here \subseteq Here'
    BY BehindAfter
  <1> QED BY <1>1, <1>2, CalmStep

\* A step of the pages that leaves the storage alone and makes nobody
\* remember another worker.
LEMMA PageStep ==
  ASSUME UpdateInv, ctl' \in [Controllers -> ControllerRecords],
         \A d \in Controllers : /\ OneController(ctl'[d]) /\ ctl'[d].seen \in {0, ctl[d].seen}
                                /\ ctl[d].build # 0 => ctl'[d].build # 0,
         changed' \subseteq Tabs,
         UNCHANGED <<now, published, active, waiting, skip, store, clicks, tries>>
  PROVE  UpdateInv'
  <1>1. Here \subseteq Here' /\ Behind' \in SUBSET Behind
    BY DEF Here, Behind
  <1>2. Cardinality(Behind') \in Nat /\ Cardinality(Behind') <= Cardinality(Behind)
    <2>1. IsFiniteSet(Behind') /\ Cardinality(Behind') <= Cardinality(Behind)
      BY <1>1, BehindFinite, FS_Subset
    <2> QED BY <2>1, FS_CardinalityType
  <1>3. store' \in Stores /\ StampedTogether(store') /\ skip' \in BOOLEAN /\ clicks' \in 0..MaxClicks
    BY DEF UpdateInv, TypeOK
  <1> QED BY <1>1, <1>2, <1>3, CalmStep

\* evaluate applies only what the policy permits, and on account of a delay
\* that has passed: an acceptance applies nothing by itself.
LEMMA DecisionFacts ==
  ASSUME UpdateInv, NEW r \in ControllerRecords, NEW safe \in BOOLEAN,
         Decision(Looked(r.seen), r.stale, Permitted(Looked(r.seen), safe)) = "apply"
  PROVE  /\ ~Within(Looked(r.seen).attempt, AcceptedTtl)
         /\ Ripe(Looked(r.seen).since, r.stale)
  <1> DEFINE s == Looked(r.seen)
  <1>0. r.seen \in {0} \cup Workers
    BY DEF ControllerRecords
  <1>1. s \in Stores /\ StampedTogether(s)
    BY <1>0, LookedFacts
  <1>n. now \in Nat /\ AcceptedTtl \in Nat
    BY UpdateAssumption DEF UpdateInv, TypeOK, Times
  <1>2. Within(s.accepted, AcceptedTtl) => Within(s.attempt, AcceptedTtl)
    <2>1. \A a \in s.accepted \cup s.attempt : a \in Nat
      BY <1>1, UpdateAssumption DEF Stores, Instants, Times
    <2> QED BY <1>1, <1>n, <2>1 DEF Within, StampedTogether
  <1> HIDE DEF s
  <1>3. Permitted(s, safe) /\ (Within(s.accepted, AcceptedTtl) \/ Ripe(s.since, r.stale))
    <2>1. Decision(s, r.stale, Permitted(s, safe)) = "apply"
      BY DEF s
    <2>2. CASE Within(s.accepted, AcceptedTtl)
      BY <2>1, <2>2 DEF Decision
    <2>3. CASE ~Within(s.accepted, AcceptedTtl) /\ Permitted(s, safe) /\ Ripe(s.since, r.stale)
      BY <2>3
    <2>4. CASE ~Within(s.accepted, AcceptedTtl) /\ ~(Permitted(s, safe) /\ Ripe(s.since, r.stale))
      <3>1. Decision(s, r.stale, Permitted(s, safe)) \in {"none", "prompt"}
        BY <2>4 DEF Decision
      <3> QED BY <2>1, <3>1
    <2> QED BY <2>2, <2>3, <2>4
  <1>4. ~Within(s.attempt, AcceptedTtl)
    BY <1>3 DEF Permitted
  <1> QED BY <1>2, <1>3, <1>4 DEF s

\* evaluate keeps the invariant, whatever made the controller look.
LEMMA EvaluatedInv ==
  ASSUME UpdateInv, NEW c \in Controllers, NEW r \in ControllerRecords, OneController(r),
         r.seen = ctl[c].seen, r.build = ctl[c].build, r.attached,
         NEW safe \in BOOLEAN, Evaluated(c, r, safe), UNCHANGED <<now, browser, clicks>>
  PROVE  UpdateInv'
  <1>t. TypeOK /\ Ordered /\ StampedTogether(store) /\ \A w \in Workers : Burst(w)
    BY DEF UpdateInv
  <1>s. /\ now \in Times /\ waiting \in {0} \cup Workers /\ skip \in BOOLEAN /\ store \in Stores
        /\ clicks \in 0..MaxClicks /\ changed \subseteq Tabs
    BY <1>t DEF TypeOK
  <1>u. UNCHANGED <<now, published, active, waiting, changed, clicks>>
    BY DEF browser
  <1>v. clicks' \in 0..MaxClicks /\ changed' \subseteq Tabs
    BY <1>s, <1>u
  <1> DEFINE s == Looked(r.seen)
             seen == [r EXCEPT !.seen = waiting]
  <1>l. s \in Stores /\ StampedTogether(s) /\ (r.seen \in {0, waiting} => s.attempt = store.attempt)
    BY LookedFacts DEF ControllerRecords
  <1>b. r.build # 0
    BY DEF OneController
  <1>q. /\ seen \in ControllerRecords /\ seen.seen = waiting /\ seen.build = r.build
        /\ seen.applying = r.applying /\ OneController(seen)
    BY <1>s, <1>b DEF ControllerRecords, OneController
  <1>p. \A b \in BOOLEAN : LET q == [seen EXCEPT !.pending = b]
                          IN  q \in ControllerRecords /\ OneController(q) /\ q.seen = waiting /\ q.build # 0
    BY <1>q, <1>b DEF ControllerRecords, OneController
  <1> DEFINE d == Decision(s, r.stale, Permitted(s, safe))
  <1>e. \/ /\ waiting = 0
           /\ store' = [Cleared EXCEPT !.dismissed = store.dismissed]
           /\ ctl' = [ctl EXCEPT ![c] = [seen EXCEPT !.pending = FALSE]]
           /\ UNCHANGED <<skip, tries>>
        \/ /\ waiting # 0 /\ r.applying
           /\ ctl' = [ctl EXCEPT ![c] = r]
           /\ UNCHANGED <<store, skip, tries>>
        \/ /\ waiting # 0 /\ ~r.applying /\ d = "apply" /\ Apply(c, seen, s)
           /\ tries' = [tries EXCEPT ![waiting] = Counted(@)]
        \/ /\ waiting # 0 /\ store' = s
           /\ ctl' = [ctl EXCEPT ![c] = [seen EXCEPT !.pending = (d = "prompt")]]
           /\ UNCHANGED <<skip, tries>>
    BY DEF Evaluated, Looked
  <1> HIDE DEF d, seen, s
  <1>1. CASE /\ waiting = 0
             /\ store' = [Cleared EXCEPT !.dismissed = store.dismissed]
             /\ ctl' = [ctl EXCEPT ![c] = [seen EXCEPT !.pending = FALSE]]
             /\ UNCHANGED <<skip, tries>>
    <2>1. store' \in Stores /\ StampedTogether(store')
      BY <1>1, <1>s DEF Cleared, Stores, Instants, StampedTogether
    <2>2. skip' \in BOOLEAN
      BY <1>1, <1>s
    <2>3. PICK q \in ControllerRecords : ctl' = [ctl EXCEPT ![c] = q] /\ OneController(q) /\ q.seen = waiting /\ q.build # 0
      BY <1>1, <1>p
    <2> QED BY <1>1, <1>u, <1>v, <2>1, <2>2, <2>3, QuietStep
  <1>2. CASE waiting # 0 /\ r.applying /\ ctl' = [ctl EXCEPT ![c] = r] /\ UNCHANGED <<store, skip, tries>>
    <2>1. store' \in Stores /\ StampedTogether(store') /\ skip' \in BOOLEAN /\ store'.attempt = store.attempt
      BY <1>2, <1>s, <1>t
    <2> QED BY <1>2, <1>u, <1>v, <2>1, QuietStep
  <1>4. CASE /\ waiting # 0 /\ store' = s
             /\ ctl' = [ctl EXCEPT ![c] = [seen EXCEPT !.pending = (d = "prompt")]]
             /\ UNCHANGED <<skip, tries>>
    <2>1. store' \in Stores /\ StampedTogether(store') /\ skip' \in BOOLEAN
      BY <1>4, <1>s, <1>l
    <2>2. PICK q \in ControllerRecords : ctl' = [ctl EXCEPT ![c] = q] /\ OneController(q) /\ q.seen = waiting /\ q.build # 0
      <3>1. (d = "prompt") \in BOOLEAN
        OBVIOUS
      <3> QED BY <1>4, <1>p, <3>1
    <2>3. store'.attempt = store.attempt \/ ctl[c].seen \notin {0, waiting}
      BY <1>4, <1>l
    <2> QED BY <1>4, <1>u, <1>v, <2>1, <2>2, <2>3, QuietStep
  <1>3. CASE /\ waiting # 0 /\ ~r.applying /\ d = "apply" /\ Apply(c, seen, s)
             /\ tries' = [tries EXCEPT ![waiting] = Counted(@)]
    <2>1. /\ store' \in Stores /\ skip' \in BOOLEAN /\ store'.attempt = {now}
          /\ \A a \in store'.accepted : a <= now
          /\ \E q \in ControllerRecords : ctl' = [ctl EXCEPT ![c] = q] /\ OneController(q) /\ q.seen = seen.seen /\ q.build = seen.build
      BY <1>3, <1>l, <1>q, <1>s, ApplyFacts
    <2>2. PICK q \in ControllerRecords : ctl' = [ctl EXCEPT ![c] = q] /\ OneController(q) /\ q.seen = waiting /\ q.build # 0
      BY <1>b, <1>q, <2>1
    <2>3. waiting \in Workers /\ tries \in [Workers -> [n : Nat, at : Times]] /\ now \in Nat
      BY <1>3, <1>s, <1>t, UpdateAssumption DEF TypeOK, Times
    <2>n. tries[waiting].n \in Nat /\ tries[waiting].at \in Times /\ tries[waiting].at \in Nat
      BY <2>3, UpdateAssumption DEF Times
    <2> DEFINE b == tries[waiting]
    <2>4. /\ Counted(b) \in [n : Nat, at : Times] /\ Counted(b).at <= now
          /\ \/ b.n > 0 /\ now - b.at < AcceptedTtl /\ Counted(b).n = b.n + 1
             \/ Counted(b).n = 1
      <3>1. CASE b.n > 0 /\ now - b.at < AcceptedTtl
        <4>1. Counted(b) = [b EXCEPT !.n = b.n + 1]
          BY <3>1 DEF Counted
        <4>2. b.n + 1 \in Nat /\ b.at <= now /\ b \in [n : Nat, at : Times]
          BY <1>t, <2>3, <2>n DEF Burst
        <4> HIDE DEF b
        <4> QED BY <3>1, <4>1, <4>2
      <3>2. CASE ~(b.n > 0 /\ now - b.at < AcceptedTtl)
        <4>1. Counted(b) = [n |-> 1, at |-> now]
          BY <3>2 DEF Counted
        <4> QED BY <1>s, <2>3, <4>1
      <3> QED BY <3>1, <3>2
    <2>5. tries' \in [Workers -> [n : Nat, at : Times]] /\ tries'[waiting] = Counted(b)
      BY <1>3, <2>3, <2>4
    <2>6. TypeOK'
      <3>1. ctl' \in [Controllers -> ControllerRecords]
        BY <1>t, <2>2 DEF TypeOK
      <3> QED BY <1>t, <1>u, <2>1, <2>5, <3>1 DEF TypeOK
    <2>7. Ordered'
      BY <1>t, <1>u DEF Ordered
    <2>8. StampedTogether(store)'
      BY <1>u, <2>1, <2>3 DEF StampedTogether
    <2>9. \A u \in Controllers : OneController(ctl'[u])
      BY <2>2 DEF UpdateInv, TypeOK
    <2>10. /\ Cardinality(Behind') \in Nat /\ Cardinality(Behind') <= Cardinality(Behind)
           /\ (ctl[c].seen \notin {0, waiting} => Cardinality(Behind') + 1 <= Cardinality(Behind))
           /\ Cardinality(Behind') + 1 <= Cardinality(Here)
           /\ Here \subseteq Here'
      BY <1>u, <1>b, <2>2, BehindAfter
    <2>11. Cardinality(Behind) \in Nat /\ Cardinality(Here) \in Nat 
      BY BehindFinite
    <2>h. Cardinality(Here') = Cardinality(Here)
      <3>1. Here' = Here
        BY <1>b, <1>t, <2>2 DEF Here, TypeOK
      <3> QED BY <3>1
    <2>12. Counted(b).n + Cardinality(Behind') <= Cardinality(Here)
      <3>1. CASE Counted(b).n = 1
        BY <2>10, <2>11, <3>1
      <3>2. CASE b.n > 0 /\ now - b.at < AcceptedTtl /\ Counted(b).n = b.n + 1
        <4>1. ~Within(s.attempt, AcceptedTtl)
          BY <1>3, DecisionFacts DEF d, s
        <4>2. \/ \E x \in store.attempt : b.at <= x
              \/ b.n + Cardinality(Behind) + 1 <= Cardinality(Here)
          BY <1>t, <2>3, <3>2 DEF Burst
        <4>3. b.n + Cardinality(Behind) <= Cardinality(Here)
          BY <1>t, <2>3 DEF Burst
        <4>4. CASE \E x \in store.attempt : b.at <= x
          <5>1. PICK x \in store.attempt : b.at <= x
            BY <4>4
          <5>2. x \in Nat
            BY <1>s, UpdateAssumption DEF Stores, Instants, Times
          <5>3. now - x < AcceptedTtl
            BY <2>3, <2>n, <3>2, <5>1, <5>2, UpdateAssumption
          <5>4. s.attempt # store.attempt
            BY <4>1, <5>1, <5>3 DEF Within
          <5>5. Cardinality(Behind') + 1 <= Cardinality(Behind)
            BY <1>l, <2>10, <5>4
          <5> QED BY <2>10, <2>11, <2>n, <3>2, <4>3, <5>5
        <4>5. CASE b.n + Cardinality(Behind) + 1 <= Cardinality(Here)
          BY <2>10, <2>11, <2>n, <3>2, <4>5
        <4> QED BY <4>2, <4>4, <4>5
      <3> QED BY <2>4, <3>1, <3>2
    <2>13. ASSUME NEW w \in Workers PROVE Burst(w)'
      <3>1. CASE w = waiting
        <4>1. tries'[w] = Counted(b) /\ Counted(b).n \in Nat /\ Counted(b).n <= Cardinality(Here)
          BY <2>4, <2>5, <2>10, <2>11, <2>12, <3>1
        <4>2. w <= published' /\ w \in {active', waiting'}
          BY <1>t, <1>u, <1>3, <3>1 DEF Ordered
        <4>3. \E x \in store'.attempt : tries'[w].at <= x
          BY <2>1, <2>4, <4>1
        <4> QED BY <1>u, <2>4, <2>h, <2>12, <4>1, <4>2, <4>3 DEF Burst
      <3>2. CASE w # waiting
        <4>1. tries'[w] = tries[w] /\ w # waiting'
          BY <1>u, <1>3, <2>3, <3>2
        <4>2. Burst(w)
          BY <1>t
        <4> QED BY <1>u, <2>h, <4>1, <4>2 DEF Burst
      <3> QED BY <3>1, <3>2
    <2> QED BY <2>6, <2>7, <2>8, <2>9, <2>13 DEF UpdateInv
  <1> QED BY <1>e, <1>1, <1>2, <1>3, <1>4

\* What an answer of checkVersion leaves alone of a controller.
Answered(c, r) ==
    /\ r.seen = ctl[c].seen /\ r.build = ctl[c].build /\ r.attached = ctl[c].attached
    /\ r.applying = ctl[c].applying /\ r.left = ctl[c].left /\ r.reloads = ctl[c].reloads
    /\ r.armed = ctl[c].armed /\ r.fallback = ctl[c].fallback

\* checkVersion notes the answer, and evaluates or not.
LEMMA CheckVersionFacts ==
  ASSUME NEW c \in Controllers, ctl \in [Controllers -> ControllerRecords], CheckVersion(c)
  PROVE  \E r \in ControllerRecords :
            /\ Answered(c, r) /\ UNCHANGED <<now, browser, clicks>>
            /\ \/ ctl' = [ctl EXCEPT ![c] = r] /\ UNCHANGED <<store, skip, tries>>
               \/ r.attached /\ \E safe \in BOOLEAN : Evaluated(c, r, safe)
  <1> USE UpdateAssumption
  <1> DEFINE old == ctl[c]
             R(stale) == IF Running(c) THEN [old EXCEPT !.stale = stale]
                         ELSE [old EXCEPT !.stale = stale, !.due = old.due - 1,
                                  !.look = old.look \/ (stale /\ old.attached /\ (~old.stale \/ waiting = 0))]
  <1>1. PICK stale \in BOOLEAN :
          /\ Running(c) \/ old.due > 0
          /\ UNCHANGED <<now, browser, clicks>>
          /\ \/ ctl' = [ctl EXCEPT ![c] = R(stale)] /\ UNCHANGED <<store, skip, tries>>
             \/ old.attached /\ \E safe \in BOOLEAN : Evaluated(c, R(stale), safe)
    <2>1. PICK latest \in ctl[c].build..published :
            LET stale == latest # old.build
                checks == stale /\ old.attached /\ (~old.stale \/ waiting = 0)
                r == IF Running(c) THEN [old EXCEPT !.stale = stale]
                     ELSE [old EXCEPT !.stale = stale, !.due = @ - 1, !.look = @ \/ checks]
            IN  /\ Running(c) \/ old.due > 0
                /\ IF checks \/ ~old.attached \/ stale = old.stale
                   THEN ctl' = [ctl EXCEPT ![c] = r] /\ UNCHANGED <<store, skip, tries>>
                   ELSE \E safe \in BOOLEAN : Evaluated(c, r, safe)
                /\ UNCHANGED <<now, browser, clicks>>
      BY DEF CheckVersion
    <2>2. PICK stale \in BOOLEAN : stale = (latest # old.build)
      OBVIOUS
    <2> QED BY <2>1, <2>2
  <1>2. PICK r : r = R(stale)
    OBVIOUS
  <1>3. r \in ControllerRecords /\ Answered(c, r)
    <2>1. old \in ControllerRecords /\ old.due \in 0..MaxDue
      BY DEF ControllerRecords
    <2>2. CASE Running(c)
      BY <1>2, <2>1, <2>2 DEF ControllerRecords, Answered
    <2>3. CASE ~Running(c)
      <3>1. PICK look \in BOOLEAN : look = (old.look \/ (stale /\ old.attached /\ (~old.stale \/ waiting = 0)))
        OBVIOUS
      <3>2. PICK due \in 0..MaxDue : due = old.due - 1
        BY <1>1, <2>1, <2>3
      <3>3. r = [old EXCEPT !.stale = stale, !.due = due, !.look = look]
        BY <1>2, <2>3, <3>1, <3>2
      <3> QED BY <2>1, <3>3 DEF ControllerRecords, Answered
    <2> QED BY <2>2, <2>3
  <1> HIDE DEF R, old
  <1>4. r.attached = old.attached
    BY <1>3 DEF Answered, old
  <1> QED BY <1>1, <1>2, <1>3, <1>4

\* stop moves what the controller remembers to another name of its page.
LEMMA RestartInv ==
  ASSUME UpdateInv, NEW c \in Controllers, Restart(c)
  PROVE  UpdateInv'
  <1> USE UpdateAssumption
  <1>t. /\ \A d \in Controllers : OneController(ctl[d])
        /\ ctl \in [Controllers -> ControllerRecords] /\ changed \subseteq Tabs
    BY DEF UpdateInv, TypeOK
  <1>k. /\ ctl[c].build # 0 /\ ctl[c].reloads = 0
        /\ UNCHANGED <<now, published, active, waiting, changed, skip, store, clicks, tries>>
    BY DEF Restart, Running, browser
  <1>u. store' \in Stores /\ StampedTogether(store') /\ skip' \in BOOLEAN
        /\ clicks' \in 0..MaxClicks /\ changed' \subseteq Tabs
    BY <1>k DEF UpdateInv, TypeOK
  <1>n. PICK n : n = Created(ctl[c].build)
    OBVIOUS
  <1>c. n \in ControllerRecords /\ OneController(n) /\ n.seen = 0 /\ n.build # 0
    BY <1>k, <1>n, <1>t DEF Created, ControllerRecords, OneController
  <1>1. CASE ctl' = [ctl EXCEPT ![c] = n]
    BY <1>1, <1>c, <1>k, <1>u, QuietStep
  <1>2. ASSUME NEW d \in Spare(c), ctl' = [ctl EXCEPT ![c] = n, ![d] = Stopped(ctl[c])]
        PROVE  UpdateInv'
    <2>1. PICK q : q = Stopped(ctl[c])
      OBVIOUS
    <2>2. q \in ControllerRecords /\ OneController(q) /\ q.seen = ctl[c].seen /\ q.build # 0
      <3>1. q = [ctl[c] EXCEPT !.armed = FALSE, !.fallback = FALSE, !.pending = FALSE,
                               !.due = MaxDue, !.left = ctl[c].applying]
        BY <2>1 DEF Stopped
      <3>2. MaxDue \in 0..MaxDue /\ ctl[c] \in ControllerRecords /\ ctl[c].applying \in BOOLEAN
        BY <1>t DEF ControllerRecords
      <3>3. q \in ControllerRecords /\ q.build = ctl[c].build /\ q.seen = ctl[c].seen
            /\ q.reloads = ctl[c].reloads /\ q.left = ctl[c].applying /\ q.applying = ctl[c].applying
            /\ ~q.armed /\ ~q.fallback /\ q.attached = ctl[c].attached
        BY <3>1, <3>2 DEF ControllerRecords
      <3> QED BY <1>k, <3>3 DEF OneController
    <2>3. d \in Controllers /\ ctl' = [ctl EXCEPT ![c] = n, ![d] = q]
      BY <1>2, <2>1 DEF Spare
    <2>4. /\ ctl' \in [Controllers -> ControllerRecords]
          /\ \A e \in Controllers : /\ OneController(ctl'[e])
                                    /\ ctl[e].build # 0 => ctl'[e].build # 0
          /\ ctl'[c].seen \in {0, ctl[c].seen} /\ (c # d => ctl'[c].seen = 0)
          /\ ctl'[d].seen = ctl[c].seen
          /\ \A e \in Controllers \ {c, d} : ctl'[e] = ctl[e]
      BY <1>c, <1>t, <2>2, <2>3
    <2>5. Here \subseteq Here'
      BY <2>4 DEF Here
    <2>6. Cardinality(Behind') \in Nat /\ Cardinality(Behind') <= Cardinality(Behind)
      <3>1. CASE c \notin Behind
        <4>1. Behind' \in SUBSET Behind
          BY <1>k, <2>4, <3>1 DEF Behind
        <4>2. IsFiniteSet(Behind') /\ Cardinality(Behind') <= Cardinality(Behind)
          BY <4>1, BehindFinite, FS_Subset
        <4> QED BY <4>2, FS_CardinalityType
      <3>2. CASE c \in Behind
        <4>1. Behind' \in SUBSET ((Behind \ {c}) \cup {d})
          BY <1>k, <2>4 DEF Behind
        <4>2. /\ IsFiniteSet(Behind \ {c}) /\ Cardinality(Behind) \in Nat
              /\ Cardinality(Behind \ {c}) = Cardinality(Behind) - 1
          BY <3>2, BehindFinite, FS_RemoveElement
        <4>3. /\ IsFiniteSet((Behind \ {c}) \cup {d})
              /\ Cardinality((Behind \ {c}) \cup {d}) <= Cardinality(Behind)
              /\ Cardinality((Behind \ {c}) \cup {d}) \in Nat
          <5>1. /\ IsFiniteSet((Behind \ {c}) \cup {d})
                /\ Cardinality((Behind \ {c}) \cup {d}) =
                     IF d \in Behind \ {c} THEN Cardinality(Behind \ {c}) ELSE Cardinality(Behind \ {c}) + 1
            BY <4>2, FS_AddElement
          <5> QED BY <4>2, <5>1, FS_CardinalityType
        <4>4. IsFiniteSet(Behind') /\ Cardinality(Behind') <= Cardinality((Behind \ {c}) \cup {d})
          BY <4>1, <4>3, FS_Subset
        <4>5. Cardinality(Behind') \in Nat
          BY <4>4, FS_CardinalityType
        <4> QED BY <4>2, <4>3, <4>4, <4>5
      <3> QED BY <3>1, <3>2
    <2> QED BY <1>k, <1>u, <2>4, <2>5, <2>6, CalmStep
  <1> QED BY <1>1, <1>2, <1>n DEF Restart

\* The invariant is kept by every step.
LEMMA StepInv == UpdateInv /\ [Next]_vars => UpdateInv'
  <1> SUFFICES ASSUME UpdateInv, [Next]_vars PROVE UpdateInv'
    OBVIOUS
  <1> USE UpdateAssumption
  <1>t. TypeOK /\ Ordered /\ StampedTogether(store) /\ (\A c \in Controllers : OneController(ctl[c]))
        /\ \A w \in Workers : Burst(w)
    BY DEF UpdateInv
  <1>s. /\ now \in Times /\ waiting \in {0} \cup Workers /\ skip \in BOOLEAN /\ store \in Stores
        /\ clicks \in 0..MaxClicks /\ changed \subseteq Tabs /\ published \in Workers
        /\ active \in Workers /\ ctl \in [Controllers -> ControllerRecords]
    BY <1>t DEF TypeOK
  <1>c. \A build \in Workers : /\ Created(build) \in ControllerRecords /\ OneController(Created(build))
                              /\ Created(build).seen = 0 /\ Created(build).build # 0
    BY DEF Created, ControllerRecords, OneController, Workers
  <1>1. ASSUME NEW c \in Controllers, Evaluate(c) PROVE UpdateInv'
    <2> DEFINE r == [ctl[c] EXCEPT !.look = FALSE]
    <2>1. /\ r \in ControllerRecords /\ r.seen = ctl[c].seen /\ r.build = ctl[c].build
          /\ r.attached /\ OneController(r)
      BY <1>1, <1>s, <1>t DEF Evaluate, ControllerRecords, OneController
    <2>2. PICK safe \in BOOLEAN : Evaluated(c, r, safe)
      BY <1>1 DEF Evaluate
    <2> HIDE DEF r
    <2> QED BY <1>1, <2>1, <2>2, EvaluatedInv DEF Evaluate
  <1>2. ASSUME NEW c \in Controllers, Attach(c) PROVE UpdateInv'
    <2> DEFINE r == [ctl[c] EXCEPT !.attached = TRUE]
    <2>1. /\ r \in ControllerRecords /\ r.seen = ctl[c].seen /\ r.build = ctl[c].build
          /\ r.attached /\ OneController(r)
      BY <1>2, <1>s, <1>t DEF Attach, Running, ControllerRecords, OneController
    <2>2. PICK safe \in BOOLEAN : Evaluated(c, r, safe)
      BY <1>2 DEF Attach
    <2> HIDE DEF r
    <2> QED BY <1>2, <2>1, <2>2, EvaluatedInv DEF Attach
  <1>3. ASSUME NEW c \in Controllers, CheckVersion(c) PROVE UpdateInv'
    <2>1. PICK r \in ControllerRecords :
            /\ Answered(c, r) /\ UNCHANGED <<now, browser, clicks>>
            /\ \/ ctl' = [ctl EXCEPT ![c] = r] /\ UNCHANGED <<store, skip, tries>>
               \/ r.attached /\ \E safe \in BOOLEAN : Evaluated(c, r, safe)
      BY <1>3, <1>s, CheckVersionFacts
    <2>2. r.seen = ctl[c].seen /\ r.build = ctl[c].build /\ OneController(r)
      BY <1>t, <2>1 DEF Answered, OneController
    <2>3. CASE ctl' = [ctl EXCEPT ![c] = r] /\ UNCHANGED <<store, skip, tries>>
      BY <1>s, <1>t, <2>1, <2>2, <2>3, QuietStep DEF browser
    <2>4. CASE r.attached /\ \E safe \in BOOLEAN : Evaluated(c, r, safe)
      BY <2>1, <2>2, <2>4, EvaluatedInv
    <2> QED BY <2>1, <2>3, <2>4
  <1>4. ASSUME NEW c \in Controllers, Click(c) PROVE UpdateInv'
    <2>1. ctl[c] \in ControllerRecords /\ ~ctl[c].applying /\ Apply(c, ctl[c], store)
          /\ clicks' = clicks + 1 /\ clicks < MaxClicks /\ UNCHANGED <<now, browser, tries>>
      BY <1>4, <1>s DEF Click
    <2>2. /\ store' \in Stores /\ skip' \in BOOLEAN /\ store'.attempt = {now}
          /\ \A a \in store'.accepted : a <= now
          /\ \E q \in ControllerRecords : ctl' = [ctl EXCEPT ![c] = q] /\ OneController(q) /\ q.seen = ctl[c].seen
                                   /\ q.build = ctl[c].build
      BY <1>s, <1>t, <2>1, ApplyFacts
    <2>3. PICK q \in ControllerRecords : ctl' = [ctl EXCEPT ![c] = q] /\ OneController(q) /\ q.seen = ctl[c].seen
                                   /\ q.build = ctl[c].build
      BY <2>2
    <2>4. StampedTogether(store')
      BY <1>s, <2>2 DEF StampedTogether, Times
    <2>5. clicks' \in 0..MaxClicks
      BY <1>s, <2>1
    <2> QED BY <1>s, <2>1, <2>2, <2>3, <2>4, <2>5, QuietStep DEF browser
  <1>5. ASSUME NEW c \in Controllers, Dismiss(c) PROVE UpdateInv'
    <2>1. /\ clicks' = clicks + 1 /\ clicks < MaxClicks
          /\ store' = [store EXCEPT !.dismissed = {now}]
          /\ ctl' = [ctl EXCEPT ![c] = [ctl[c] EXCEPT !.pending = FALSE]]
          /\ UNCHANGED <<now, browser, skip, tries>>
      BY <1>5, <1>s DEF Dismiss
    <2>2. [ctl[c] EXCEPT !.pending = FALSE] \in ControllerRecords
          /\ [ctl[c] EXCEPT !.pending = FALSE].seen = ctl[c].seen
          /\ [ctl[c] EXCEPT !.pending = FALSE].build = ctl[c].build
          /\ OneController([ctl[c] EXCEPT !.pending = FALSE])
      BY <1>s, <1>t DEF ControllerRecords, OneController
    <2>3. PICK q \in ControllerRecords : ctl' = [ctl EXCEPT ![c] = q] /\ OneController(q) /\ q.seen = ctl[c].seen
                                   /\ q.build = ctl[c].build
      BY <2>1, <2>2
    <2>4. store' \in Stores /\ StampedTogether(store') /\ store'.attempt = store.attempt
      BY <1>s, <1>t, <2>1 DEF Stores, Instants, StampedTogether
    <2>5. clicks' \in 0..MaxClicks
      BY <1>s, <2>1
    <2> QED BY <1>s, <2>1, <2>3, <2>4, <2>5, QuietStep DEF browser
  <1>6. ASSUME NEW p \in Tabs, ControllerChange(p) PROVE UpdateInv'
    <2>1. /\ changed' \subseteq Tabs
          /\ UNCHANGED <<now, published, active, waiting, skip, store, clicks, tries>>
          /\ ctl' = [c \in Controllers |-> IF c[1] = p /\ ctl[c].armed
                        THEN Reloading([ctl[c] EXCEPT !.armed = FALSE]) ELSE ctl[c]]
      BY <1>6, <1>s DEF ControllerChange
    <2>2. ASSUME NEW c \in Controllers
          PROVE  /\ ctl'[c] \in ControllerRecords /\ OneController(ctl'[c])
                 /\ ctl'[c].seen = ctl[c].seen /\ ctl'[c].build = ctl[c].build
      <3>1. CASE c[1] = p /\ ctl[c].armed
        <4> DEFINE r == [ctl[c] EXCEPT !.armed = FALSE]
        <4>1. /\ r \in ControllerRecords /\ r.reloads <= 1 /\ r.applying /\ r.seen = ctl[c].seen
              /\ r.build = ctl[c].build /\ ~r.left /\ (r.attached \/ r.seen # 0 => r.build # 0)
          BY <1>s, <1>t, <3>1 DEF ControllerRecords, OneController
        <4>2. ctl'[c] = Reloading(r)
          BY <2>1, <3>1
        <4> HIDE DEF r
        <4> QED BY <4>1, <4>2, ReloadingFacts DEF OneController
      <3>2. CASE ~(c[1] = p /\ ctl[c].armed)
        BY <1>s, <1>t, <2>1, <3>2
      <3> QED BY <3>1, <3>2
    <2>3. ctl' \in [Controllers -> ControllerRecords]
      BY <2>1, <2>2
    <2> QED BY <2>1, <2>2, <2>3, PageStep
  <1>7. ASSUME NEW c \in Controllers, Fallback(c) PROVE UpdateInv'
    <2> DEFINE r == [ctl[c] EXCEPT !.fallback = FALSE]
    <2>1. /\ r \in ControllerRecords /\ r.reloads <= 1 /\ r.applying /\ r.seen = ctl[c].seen
          /\ r.build = ctl[c].build /\ ~r.left /\ (r.attached \/ r.seen # 0 => r.build # 0)
      BY <1>7, <1>s, <1>t DEF ControllerRecords, OneController, Fallback
    <2>2. ctl' = [ctl EXCEPT ![c] = Reloading(r)] /\ UNCHANGED <<now, browser, skip, store, clicks, tries>>
      BY <1>7, <1>s DEF Fallback
    <2> HIDE DEF r
    <2>3. /\ Reloading(r) \in ControllerRecords /\ OneController(Reloading(r))
          /\ Reloading(r).seen = ctl[c].seen /\ Reloading(r).build = ctl[c].build
      BY <2>1, ReloadingFacts DEF OneController
    <2> QED BY <1>s, <1>t, <2>2, <2>3, QuietStep DEF browser
  <1>8. ASSUME NEW c \in Controllers, Restart(c) PROVE UpdateInv'
    BY <1>8, RestartInv
  <1>9. ASSUME NEW p \in Tabs, Load(p) PROVE UpdateInv'
    <2>1. /\ ctl' = [c \in Controllers |-> IF c[1] = p THEN Created(active) ELSE ctl[c]]
          /\ changed' \subseteq Tabs
          /\ UNCHANGED <<now, published, active, waiting, skip, store, clicks, tries>>
      BY <1>9, <1>s DEF Load
    <2>2. /\ Created(active) \in ControllerRecords /\ OneController(Created(active))
          /\ Created(active).seen = 0 /\ Created(active).build # 0
      BY <1>c, <1>s
    <2>3. \A c \in Controllers : /\ ctl'[c] \in ControllerRecords /\ OneController(ctl'[c])
                                 /\ ctl'[c].seen \in {0, ctl[c].seen}
                                 /\ ctl[c].build # 0 => ctl'[c].build # 0
      BY <1>s, <1>t, <2>1, <2>2
    <2>4. ctl' \in [Controllers -> ControllerRecords]
      BY <2>1, <2>3
    <2> QED BY <2>1, <2>3, <2>4, PageStep
  <1>10. CASE Deploy
    <2>1. published < MaxDeploys /\ published' = published + 1
          /\ UNCHANGED <<now, active, waiting, skip, changed, store, ctl, clicks, tries>>
      BY <1>10 DEF Deploy
    <2>2. published \in Nat /\ published' \in Workers
      BY <1>s, <2>1 DEF Workers
    <2>3. TypeOK'
      BY <1>t, <2>1, <2>2 DEF TypeOK
    <2>4. Ordered' /\ StampedTogether(store)' /\ \A c \in Controllers : OneController(ctl'[c])
      BY <1>s, <1>t, <2>1, <2>2 DEF Ordered, StampedTogether, Workers
    <2>5. Behind' = Behind /\ Here' = Here
      BY <2>1 DEF Behind, Here
    <2>6. ASSUME NEW w \in Workers PROVE Burst(w)'
      <3>1. tries[w].n > 0 => w <= published' /\ w # published'
        BY <1>t, <2>1, <2>2 DEF Burst, Workers
      <3> QED BY <1>t, <2>1, <2>5, <3>1 DEF Burst
    <2> QED BY <2>3, <2>4, <2>6 DEF UpdateInv
  <1>11. CASE Install
    <2>1. published \notin {active, waiting} /\ waiting' = published /\ skip' = FALSE
          /\ UNCHANGED <<now, published, active, changed, store, ctl, clicks, tries>>
      BY <1>11 DEF Install
    <2>2. TypeOK'
      BY <1>t, <1>s, <2>1 DEF TypeOK
    <2>3. Ordered' /\ StampedTogether(store)' /\ \A c \in Controllers : OneController(ctl'[c])
      BY <1>s, <1>t, <2>1 DEF Ordered, StampedTogether, Workers
    <2>4. Behind' \in SUBSET Here /\ IsFiniteSet(Here) /\ Here' = Here
      BY <1>t, <2>1, BehindFinite DEF Behind, Here, OneController
    <2>5. Cardinality(Behind') <= Cardinality(Here) /\ Cardinality(Behind') \in Nat
      BY <2>4, FS_Subset, FS_CardinalityType
    <2>6. ASSUME NEW w \in Workers PROVE Burst(w)'
      <3>1. tries[w].n \in Nat
        BY <1>t DEF TypeOK
      <3>2. w = waiting' => tries[w].n = 0
        BY <1>t, <2>1, <3>1 DEF Burst
      <3>3. tries[w].n > 0 => w <= published /\ w # published
        BY <1>t, <2>1 DEF Burst
      <3> QED BY <1>t, <2>1, <2>4, <2>5, <3>1, <3>2, <3>3, BehindFinite DEF Burst
    <2> QED BY <2>2, <2>3, <2>6 DEF UpdateInv
  <1>12. CASE Activate
    <2>1. waiting # 0 /\ active' = waiting /\ waiting' = 0 /\ skip' = FALSE /\ changed' \subseteq Tabs
          /\ UNCHANGED <<now, published, store, ctl, clicks, tries>>
      BY <1>12 DEF Activate
    <2>2. TypeOK'
      BY <1>t, <1>s, <2>1 DEF TypeOK
    <2>3. Ordered' /\ StampedTogether(store)' /\ \A c \in Controllers : OneController(ctl'[c])
      BY <1>t, <2>1 DEF Ordered, StampedTogether
    <2>4. ASSUME NEW w \in Workers PROVE Burst(w)'
      <3>1. w # waiting'
        BY <2>1 DEF Workers
      <3>2. tries[w].n > 0 => w <= published /\ (w = published => w = waiting)
        BY <1>t, <1>s, <2>1 DEF Burst, Ordered, Workers
      <3>3. Here' = Here
        BY <2>1 DEF Here
      <3>4. tries'[w] = tries[w] /\ Burst(w)
        BY <1>t, <2>1
      <3> QED BY <2>1, <3>1, <3>2, <3>3, <3>4 DEF Burst
    <2> QED BY <2>2, <2>3, <2>4 DEF UpdateInv
  <1>13. CASE Tick
    <2>1. now < MaxClock /\ now' = now + 1 /\ UNCHANGED <<browser, skip, store, ctl, clicks, tries>>
      BY <1>13 DEF Tick
    <2>2. now \in Nat /\ now' \in Times
      BY <1>s, <2>1 DEF Times
    <2>3. TypeOK'
      BY <1>t, <2>1, <2>2 DEF TypeOK, browser
    <2>4. StampedTogether(store)'
      <3>1. \A a \in store.accepted \cup store.attempt : a \in Nat
        BY <1>s DEF Stores, Instants, Times
      <3> QED BY <1>t, <2>1, <2>2, <3>1 DEF StampedTogether
    <2>5. Ordered' /\ \A c \in Controllers : OneController(ctl'[c])
      BY <1>t, <2>1 DEF Ordered, browser
    <2>6. Behind' = Behind /\ Here' = Here
      BY <2>1 DEF Behind, Here, browser
    <2>7. ASSUME NEW w \in Workers PROVE Burst(w)'
      <3>1. tries[w].at \in Nat /\ tries'[w] = tries[w] /\ tries[w].at <= now
        BY <1>t, <2>1 DEF TypeOK, Times, Burst
      <3>2. tries[w].at <= now' /\ (now' - tries[w].at < AcceptedTtl => now - tries[w].at < AcceptedTtl)
        BY <2>1, <2>2, <3>1
      <3>3. UNCHANGED <<published, active, waiting, store>>
        BY <2>1 DEF browser
      <3> QED BY <1>t, <2>6, <3>1, <3>2, <3>3 DEF Burst
    <2> QED BY <2>3, <2>4, <2>5, <2>7 DEF UpdateInv
  <1>14. CASE UNCHANGED vars
    <2>1. UNCHANGED <<now, published, active, waiting, skip, changed, store, ctl, clicks, tries>>
      BY <1>14 DEF vars
    <2>2. Behind' = Behind /\ Here' = Here
      BY <2>1 DEF Behind, Here
    <2> QED
      BY <1>t, <2>1, <2>2 DEF UpdateInv, TypeOK, Ordered, StampedTogether, Burst
  <1> QED
    BY <1>1, <1>2, <1>3, <1>4, <1>5, <1>6, <1>7, <1>8, <1>9, <1>10, <1>11, <1>12, <1>13, <1>14 DEF Next

---------------------------------------------------------------------------
\* For any tabs, deploys and delays the state is well typed.
THEOREM UpdateIsTyped == Spec => []TypeOK
  <1>1. UpdateInv => TypeOK
    BY DEF UpdateInv
  <1> QED BY <1>1, InitInv, StepInv, PTL DEF Spec

\* A controller reloads its page once, and only for an update it applied and
\* was not stopped over, however the timers, the events, the restarts and the
\* late answers of all tabs interleave.
THEOREM OneReloadAlways == Spec => []OneReload
  <1>1. UpdateInv => OneReload
    <2> SUFFICES ASSUME UpdateInv, NEW c \in Controllers, ctl[c].reloads > 0
                 PROVE  ctl[c].reloads = 1 /\ ctl[c].applying /\ ~ctl[c].left
      BY DEF OneReload
    <2>1. OneController(ctl[c]) /\ ctl[c].reloads \in Nat
      BY DEF UpdateInv, TypeOK, ControllerRecords
    <2> QED BY <2>1 DEF OneController
  <1> QED BY <1>1, InitInv, StepInv, PTL DEF Spec

\* A waiting worker is attempted automatically at most once per controller in
\* any acceptedTtlMs, the stopped ones included: the storage the tabs share
\* never lets them loop.
THEOREM NoAttemptLoop == Spec => []AttemptsAreBounded
  <1>1. UpdateInv => AttemptsAreBounded
    BY DEF UpdateInv, Burst, AttemptsAreBounded
  <1> QED BY <1>1, InitInv, StepInv, PTL DEF Spec

\* With a single controller the loop guard of the README holds: one attempt.
THEOREM AloneOneAttempt == ASSUME Cardinality(Controllers) = 1 PROVE Spec => []OneAttempt
  <1>1. UpdateInv => OneAttempt
    <2>1. Cardinality(Here) <= Cardinality(Controllers)
      <3>1. Here \in SUBSET Controllers /\ IsFiniteSet(Controllers)
        BY UpdateAssumption DEF Here
      <3> QED BY <3>1, FS_Subset
    <2>2. Cardinality(Here) \in Nat
      BY BehindFinite
    <2>3. UpdateInv => \A w \in Workers : tries[w].n \in Nat /\ tries[w].n <= Cardinality(Here)
      BY DEF UpdateInv, TypeOK, Burst
    <2> QED BY <2>1, <2>2, <2>3 DEF OneAttempt
  <1> QED BY <1>1, InitInv, StepInv, PTL DEF Spec

\* A valid acceptance comes with a recent attempt, which the guard looks at
\* first: no acceptance ever applies an update.
THEOREM AcceptanceAppliesNothing == Spec => []AcceptanceIsInert
  <1>1. UpdateInv => AcceptanceIsInert
    <2> SUFFICES ASSUME UpdateInv, Within(store.accepted, AcceptedTtl)
                 PROVE  Within(store.attempt, AcceptedTtl)
      BY DEF AcceptanceIsInert
    <2>1. \A a \in store.accepted \cup store.attempt : a \in Nat
      BY UpdateAssumption DEF UpdateInv, TypeOK, Stores, Instants, Times
    <2>2. now \in Nat /\ AcceptedTtl \in Nat /\ StampedTogether(store)
      BY UpdateAssumption DEF UpdateInv, TypeOK, Times
    <2> QED BY <2>1, <2>2 DEF Within, StampedTogether
  <1> QED BY <1>1, InitInv, StepInv, PTL DEF Spec

\* A step that starts applying without a click is one of a controller that
\* looks and finds the stored age of the worker past a configured delay.
LEMMA AppliedRipe ==
  ASSUME UpdateInv, NEW c \in Controllers, NEW r \in ControllerRecords, r.seen = ctl[c].seen, OneController(r),
         r.applying = ctl[c].applying, NEW safe \in BOOLEAN, Evaluated(c, r, safe),
         r.attached, UNCHANGED <<now, browser, clicks>>,
         NEW u \in Controllers, ctl'[u].applying, ~ctl[u].applying
  PROVE  Ripe(store'.since, ctl'[u].stale)
  <1> DEFINE s == Looked(r.seen)
             seen == [r EXCEPT !.seen = waiting]
             d == Decision(s, r.stale, Permitted(s, safe))
  <1>t. ctl \in [Controllers -> ControllerRecords] /\ waiting \in {0} \cup Workers /\ now \in Times /\ skip \in BOOLEAN
    BY DEF UpdateInv, TypeOK
  <1>1. /\ seen \in ControllerRecords /\ seen.stale = r.stale /\ seen.applying = r.applying
        /\ OneController(seen)
    BY <1>t DEF ControllerRecords, OneController
  <1>2. \A b \in BOOLEAN : [seen EXCEPT !.pending = b].applying = r.applying
    BY <1>1 DEF ControllerRecords
  <1>3. \/ \E q : ctl' = [ctl EXCEPT ![c] = q] /\ q.applying = r.applying
        \/ ~r.applying /\ d = "apply" /\ Apply(c, seen, s)
    <2>1. (d = "prompt") \in BOOLEAN
      OBVIOUS
    <2>2. \/ ctl' = [ctl EXCEPT ![c] = [seen EXCEPT !.pending = FALSE]]
          \/ ctl' = [ctl EXCEPT ![c] = r]
          \/ ~r.applying /\ d = "apply" /\ Apply(c, seen, s)
          \/ ctl' = [ctl EXCEPT ![c] = [seen EXCEPT !.pending = (d = "prompt")]]
      BY DEF Evaluated, Looked
    <2> HIDE DEF seen, d
    <2> QED BY <1>2, <2>1, <2>2
  <1> HIDE DEF seen, d, s
  <1>4. CASE \E q : ctl' = [ctl EXCEPT ![c] = q] /\ q.applying = r.applying
    BY <1>4, <1>t
  <1>5. CASE ~r.applying /\ d = "apply" /\ Apply(c, seen, s)
    <2>1. s \in Stores /\ StampedTogether(s)
      BY LookedFacts DEF ControllerRecords, s
    <2>2. /\ store'.since = s.since
          /\ \E q \in ControllerRecords : ctl' = [ctl EXCEPT ![c] = q] /\ q.stale = r.stale
      BY <1>1, <1>5, <1>t, <2>1, ApplyFacts
    <2>3. u = c /\ ctl'[c].stale = r.stale
      BY <1>t, <2>2
    <2>4. Ripe(s.since, r.stale)
      BY <1>5, DecisionFacts DEF d, s
    <2> QED
      <3>1. now' = now
        OBVIOUS
      <3> QED BY <2>2, <2>3, <2>4, <3>1 DEF Ripe
  <1> QED BY <1>3, <1>4, <1>5

\* Nothing is applied without a click before a configured delay has passed,
\* by a stopped controller neither.
THEOREM NeverAppliedSilently == Spec => NeverSilently
  <1>1. UpdateInv /\ [Next]_vars =>
          [\A c \in Controllers :
              (ctl'[c].applying /\ ~ctl[c].applying /\ ~ctl'[c].left /\ clicks' = clicks)
                  => Ripe(store'.since, ctl'[c].stale)]_vars
    <2> SUFFICES ASSUME UpdateInv, Next, NEW u \in Controllers,
                        ctl'[u].applying, ~ctl[u].applying, ~ctl'[u].left, clicks' = clicks
                 PROVE  Ripe(store'.since, ctl'[u].stale)
      OBVIOUS
    <2>t. /\ ctl \in [Controllers -> ControllerRecords] /\ clicks \in Nat /\ active \in Workers
          /\ \A c \in Controllers : OneController(ctl[c])
      BY UpdateAssumption DEF UpdateInv, TypeOK
    <2>1. ASSUME NEW c \in Controllers, Evaluate(c) PROVE Ripe(store'.since, ctl'[u].stale)
      <3> DEFINE r == [ctl[c] EXCEPT !.look = FALSE]
      <3>1. /\ r \in ControllerRecords /\ r.seen = ctl[c].seen /\ OneController(r)
            /\ r.applying = ctl[c].applying /\ r.attached
        BY <2>1, <2>t DEF Evaluate, ControllerRecords, OneController
      <3>2. PICK safe \in BOOLEAN : Evaluated(c, r, safe)
        BY <2>1 DEF Evaluate
      <3> HIDE DEF r
      <3> QED BY <2>1, <3>1, <3>2, AppliedRipe DEF Evaluate
    <2>2. ASSUME NEW c \in Controllers, Attach(c) PROVE Ripe(store'.since, ctl'[u].stale)
      <3> DEFINE r == [ctl[c] EXCEPT !.attached = TRUE]
      <3>1. /\ r \in ControllerRecords /\ r.seen = ctl[c].seen /\ OneController(r)
            /\ r.applying = ctl[c].applying /\ r.attached
        BY <2>2, <2>t DEF Attach, Running, ControllerRecords, OneController
      <3>2. PICK safe \in BOOLEAN : Evaluated(c, r, safe)
        BY <2>2 DEF Attach
      <3> HIDE DEF r
      <3> QED BY <2>2, <3>1, <3>2, AppliedRipe DEF Attach
    <2>3. ASSUME NEW c \in Controllers, CheckVersion(c) PROVE Ripe(store'.since, ctl'[u].stale)
      <3>1. PICK r \in ControllerRecords :
              /\ Answered(c, r) /\ UNCHANGED <<now, browser, clicks>>
              /\ \/ ctl' = [ctl EXCEPT ![c] = r] /\ UNCHANGED <<store, skip, tries>>
                 \/ r.attached /\ \E safe \in BOOLEAN : Evaluated(c, r, safe)
        BY <2>3, <2>t, CheckVersionFacts
      <3>2. r.seen = ctl[c].seen /\ OneController(r) /\ r.applying = ctl[c].applying
        BY <2>t, <3>1 DEF Answered, OneController
      <3>3. CASE ctl' = [ctl EXCEPT ![c] = r]
        BY <2>t, <3>2, <3>3
      <3>4. CASE r.attached /\ \E safe \in BOOLEAN : Evaluated(c, r, safe)
        BY <3>1, <3>2, <3>4, AppliedRipe
      <3> QED BY <3>1, <3>3, <3>4
    <2>4. \A c \in Controllers : ~Click(c) /\ ~Dismiss(c)
      BY <2>t DEF Click, Dismiss
    <2>5. ASSUME NEW r \in ControllerRecords, r.applying = ctl[u].applying PROVE ~Reloading(r).applying
      BY <2>5 DEF Reloading, ControllerRecords
    <2>6. ASSUME NEW p \in Tabs, ControllerChange(p) PROVE FALSE
      <3> DEFINE r == [ctl[u] EXCEPT !.armed = FALSE]
      <3>1. r \in ControllerRecords /\ r.applying = ctl[u].applying
        BY <2>t DEF ControllerRecords
      <3>2. ctl'[u] = Reloading(r) \/ ctl'[u] = ctl[u]
        BY <2>6 DEF ControllerChange
      <3> HIDE DEF r
      <3> QED BY <2>5, <3>1, <3>2
    <2>7. ASSUME NEW c \in Controllers, Fallback(c) PROVE FALSE
      <3> DEFINE r == [ctl[c] EXCEPT !.fallback = FALSE]
      <3>1. r \in ControllerRecords /\ r.applying = ctl[c].applying
        BY <2>t DEF ControllerRecords
      <3>2. ctl' = [ctl EXCEPT ![c] = Reloading(r)]
        BY <2>7, <2>t DEF Fallback
      <3> HIDE DEF r
      <3>3. c = u /\ ctl'[u] = Reloading(r)
        BY <2>t, <3>2
      <3> QED BY <2>5, <3>1, <3>3
    <2>8. ASSUME NEW c \in Controllers, Restart(c) PROVE FALSE
      <3>1. PICK n : n = Created(ctl[c].build)
        OBVIOUS
      <3>2. ~n.applying
        BY <3>1 DEF Created
      <3>3. CASE ctl' = [ctl EXCEPT ![c] = n]
        BY <2>t, <3>2, <3>3
      <3>4. ASSUME NEW d \in Controllers, NEW q, q = Stopped(ctl[c]), ctl' = [ctl EXCEPT ![c] = n, ![d] = q]
            PROVE  FALSE
        <4>1. q.applying = q.left
          BY <2>t, <3>4 DEF Stopped, ControllerRecords
        <4> QED BY <2>t, <3>2, <3>4, <4>1
      <3> QED BY <2>8, <3>1, <3>3, <3>4 DEF Restart, Spare
    <2>9. ASSUME NEW p \in Tabs, Load(p) PROVE FALSE
      <3>1. ctl'[u] = ctl[u] \/ ctl'[u] = Created(active)
        BY <2>9 DEF Load
      <3> QED BY <3>1 DEF Created
    <2>10. CASE Deploy \/ Install \/ Activate \/ Tick
      BY <2>10 DEF Deploy, Install, Activate, Tick
    <2> QED BY <2>1, <2>2, <2>3, <2>4, <2>6, <2>7, <2>8, <2>9, <2>10 DEF Next
  <1> QED BY <1>1, InitInv, StepInv, PTL DEF Spec, NeverSilently
=============================================================================

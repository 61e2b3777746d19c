------------------------ MODULE RealtimeClientProofs ------------------------
(***************************************************************************)
(* Theorems about RealtimeClient, for every page (boards, the models they  *)
(* list and how often), number of changes, drops, frames and refetches.    *)
(***************************************************************************)
EXTENDS RealtimeHistory, FiniteSetTheorems, SequenceTheorems, TLAPS

-----------------------------------------------------------------------------
(***************************************************************************)
(* Counting references.                                                    *)
(***************************************************************************)

\* The references of the boards of S to m.
RefsOf(S, m) == UNION {{b} \X (1..Watches[b][m]) : b \in S}

\* A board makes as many references as its list has mentions.
LEMMA BlockFacts ==
  ASSUME NEW b, NEW w \in Nat
  PROVE  /\ IsFiniteSet({b} \X (1..w)) /\ Cardinality({b} \X (1..w)) = w
  <1>1. IsFiniteSet({b}) /\ Cardinality({b}) = 1
    BY FS_Singleton
  <1>2. IsFiniteSet(1..w) /\ Cardinality(1..w) = w
    BY FS_Interval
  <1>3. IsFiniteSet({b} \X (1..w)) /\ Cardinality({b} \X (1..w)) = Cardinality({b}) * Cardinality(1..w)
    BY <1>1, <1>2, FS_Product
  <1> QED BY <1>1, <1>2, <1>3

\* A board more, and its references more.
LEMMA RefsAdd ==
  ASSUME NEW S \in SUBSET Boards, NEW b \in Boards, b \notin S, NEW m \in Models,
         IsFiniteSet(RefsOf(S, m))
  PROVE  /\ IsFiniteSet(RefsOf(S \cup {b}, m))
         /\ Cardinality(RefsOf(S \cup {b}, m)) = Cardinality(RefsOf(S, m)) + Watches[b][m]
  <1> DEFINE block == {b} \X (1..Watches[b][m])
  <1>1. IsFiniteSet(block) /\ Cardinality(block) = Watches[b][m] /\ Watches[b][m] \in Nat
    BY WatchesAssumption, BlockFacts
  <1>2. RefsOf(S \cup {b}, m) = RefsOf(S, m) \cup block
    BY DEF RefsOf
  <1>3. RefsOf(S, m) \cap block = {}
    BY DEF RefsOf
  <1> HIDE DEF block
  <1>4. Cardinality(RefsOf(S, m) \cap block) = 0 /\ Cardinality(RefsOf(S, m)) \in Nat
    BY <1>3, FS_EmptySet, FS_CardinalityType
  <1>5. /\ IsFiniteSet(RefsOf(S, m) \cup block)
        /\ Cardinality(RefsOf(S, m) \cup block)
             = Cardinality(RefsOf(S, m)) + Cardinality(block) - Cardinality(RefsOf(S, m) \cap block)
    BY <1>1, FS_Union
  <1>6. Cardinality(RefsOf(S, m) \cup block) = Cardinality(RefsOf(S, m)) + Watches[b][m]
    BY <1>1, <1>4, <1>5
  <1> QED BY <1>2, <1>5, <1>6

\* A board less, and its references less.
LEMMA RefsDrop ==
  ASSUME NEW S \in SUBSET Boards, NEW b \in S, NEW m \in Models, IsFiniteSet(RefsOf(S, m))
  PROVE  /\ IsFiniteSet(RefsOf(S \ {b}, m)) /\ Cardinality(RefsOf(S \ {b}, m)) \in Nat
         /\ Cardinality(RefsOf(S, m)) = Cardinality(RefsOf(S \ {b}, m)) + Watches[b][m]
  <1>1. RefsOf(S \ {b}, m) \subseteq RefsOf(S, m)
    BY DEF RefsOf
  <1>2. IsFiniteSet(RefsOf(S \ {b}, m)) /\ Cardinality(RefsOf(S \ {b}, m)) \in Nat
    BY <1>1, FS_Subset, FS_CardinalityType
  <1> DEFINE R == S \ {b}
  <1>3. R \cup {b} = S /\ R \in SUBSET Boards /\ b \in Boards /\ b \notin R
    OBVIOUS
  <1> HIDE DEF R
  <1>4. Cardinality(RefsOf(R \cup {b}, m)) = Cardinality(RefsOf(R, m)) + Watches[b][m]
    BY <1>2, <1>3, RefsAdd DEF R
  <1> QED BY <1>2, <1>3, <1>4 DEF R

\* A model has references exactly if a board lists it.
LEMMA RefsCount ==
  ASSUME NEW S \in SUBSET Boards, NEW m \in Models, IsFiniteSet(RefsOf(S, m))
  PROVE  Cardinality(RefsOf(S, m)) > 0 <=> \E b \in S : m \in Names(b)
  <1>1. Cardinality(RefsOf(S, m)) \in Nat /\ (Cardinality(RefsOf(S, m)) = 0 <=> RefsOf(S, m) = {})
    BY FS_CardinalityType, FS_EmptySet
  <1>2. ASSUME NEW b \in S
        PROVE  Watches[b][m] \in Nat /\ (m \in Names(b) <=> Watches[b][m] > 0)
    BY WatchesAssumption DEF Names
  <1>3. RefsOf(S, m) # {} <=> \E b \in S : m \in Names(b)
    <2>1. ASSUME NEW b \in S, m \in Names(b) PROVE RefsOf(S, m) # {}
      <3>1. 1 \in 1..Watches[b][m]
        BY <1>2, <2>1
      <3>2. <<b, 1>> \in {b} \X (1..Watches[b][m])
        BY <3>1
      <3> QED BY <3>2 DEF RefsOf
    <2>2. ASSUME NEW x \in RefsOf(S, m) PROVE \E b \in S : m \in Names(b)
      <3>1. PICK b \in S : x \in {b} \X (1..Watches[b][m])
        BY <2>2 DEF RefsOf
      <3>2. PICK k \in 1..Watches[b][m] : x = <<b, k>>
        BY <3>1
      <3> QED BY <1>2, <3>2
    <2> QED BY <2>1, <2>2
  <1> QED BY <1>1, <1>3

\* What the client counts is what the boards list.
LEMMA CountedIsWanted ==
  ASSUME PageInv
  PROVE  /\ Counted = Wanted
         /\ \A b \in subscriptions : \A m \in Names(b) : m \in Counted
  <1>1. subscriptions \in SUBSET Boards
    BY DEF PageInv, TypeOK
  <1>2. ASSUME NEW m \in Models PROVE m \in Counted <=> \E b \in subscriptions : m \in Names(b)
    <2>1. References(m) = RefsOf(subscriptions, m)
      BY DEF References, RefsOf
    <2> QED BY <1>1, <2>1, RefsCount DEF PageInv, Counted
  <1> QED BY <1>2 DEF Counted, Wanted, Names

-----------------------------------------------------------------------------
(***************************************************************************)
(* Frames on the wire.                                                     *)
(***************************************************************************)

\* The hub reads the first frame: what it will forward was counted in.
LEMMA TailForward ==
  ASSUME up \in Seq(Frames), up # <<>>, up' = Tail(up), hub' = Apply(hub, Head(up)),
         hub \subseteq Models
  PROVE  WillForward' = WillForward /\ hub' \subseteq Models
  <1>1. /\ Len(up) \in Nat /\ DOMAIN up = 1..Len(up) /\ Len(up) >= 1
        /\ Len(up') = Len(up) - 1 /\ DOMAIN up' = 1..(Len(up) - 1)
        /\ \A i \in 1..(Len(up) - 1) : up'[i] = up[i + 1]
    BY LenProperties, HeadTailProperties, EmptySeq
  <1>2. Head(up) = up[1] /\ up[1] \in Frames
    BY <1>1, ElementOfSeq
  <1>3. hub' \subseteq Models
    BY <1>2 DEF Apply, Frames
  <1>4. ASSUME NEW m \in Models PROVE m \in WillForward' <=> m \in WillForward
    <2> DEFINE Quiet == \A i \in DOMAIN up' : m \notin up'[i].models
               LastWord(i) == /\ up[i].type = "SUBSCRIBE" /\ m \in up[i].models
                              /\ \A j \in DOMAIN up : j > i => m \notin up[j].models
               LastThen(i) == /\ up'[i].type = "SUBSCRIBE" /\ m \in up'[i].models
                              /\ \A j \in DOMAIN up' : j > i => m \notin up'[j].models
    <2>1. Quiet <=> \A j \in DOMAIN up : j > 1 => m \notin up[j].models
      <3>1. ASSUME Quiet, NEW j \in DOMAIN up, j > 1 PROVE m \notin up[j].models
        <4>1. j - 1 \in DOMAIN up' /\ up'[j - 1] = up[j]
          BY <1>1, <3>1
        <4> QED BY <3>1, <4>1
      <3>2. ASSUME NEW i \in DOMAIN up', \A j \in DOMAIN up : j > 1 => m \notin up[j].models
            PROVE  m \notin up'[i].models
        BY <1>1, <3>2
      <3> QED BY <3>1, <3>2
    <2>2. ASSUME NEW i \in DOMAIN up' PROVE LastThen(i) <=> LastWord(i + 1)
      <3>1. up'[i] = up[i + 1]
        BY <1>1, <2>2
      <3>2. ASSUME LastWord(i + 1), NEW j \in DOMAIN up', j > i PROVE m \notin up'[j].models
        <4>1. j + 1 \in DOMAIN up /\ j + 1 > i + 1 /\ up'[j] = up[j + 1]
          BY <1>1, <2>2, <3>2
        <4> QED BY <3>2, <4>1
      <3>3. ASSUME LastThen(i), NEW j \in DOMAIN up, j > i + 1 PROVE m \notin up[j].models
        <4>1. j - 1 \in DOMAIN up' /\ j - 1 > i /\ up'[j - 1] = up[j]
          BY <1>1, <2>2, <3>3
        <4> QED BY <3>3, <4>1
      <3> QED BY <3>1, <3>2, <3>3
    <2>3. m \in WillForward <=>
            \/ m \in hub /\ m \notin up[1].models /\ Quiet
            \/ LastWord(1) \/ \E i \in DOMAIN up' : LastWord(i + 1)
      <3>1. \A i \in DOMAIN up : i = 1 \/ (i > 1 /\ i - 1 \in DOMAIN up' /\ (i - 1) + 1 = i)
        BY <1>1
      <3>2. \A i \in DOMAIN up' : i + 1 \in DOMAIN up
        BY <1>1
      <3>3. 1 \in DOMAIN up
        BY <1>1
      <3>4. (\E i \in DOMAIN up : LastWord(i)) <=> LastWord(1) \/ \E i \in DOMAIN up' : LastWord(i + 1)
        <4> HIDE DEF LastWord
        <4> QED BY <3>1, <3>2, <3>3
      <3>5. (\A i \in DOMAIN up : m \notin up[i].models) <=> m \notin up[1].models /\ Quiet
        BY <2>1, <3>1, <3>3
      <3> QED BY <3>4, <3>5 DEF WillForward
    <2>4. m \in WillForward' <=> (m \in hub' /\ Quiet) \/ \E i \in DOMAIN up' : LastThen(i)
      BY DEF WillForward
    <2>5. LastWord(1) <=> up[1].type = "SUBSCRIBE" /\ m \in up[1].models /\ Quiet
      BY <2>1
    <2>6. m \in hub' <=> \/ up[1].type = "SUBSCRIBE" /\ m \in up[1].models
                         \/ m \in hub /\ m \notin up[1].models
                         \/ m \in hub /\ up[1].type = "SUBSCRIBE"
      BY <1>2 DEF Apply
    <2> HIDE DEF Quiet, LastWord, LastThen
    <2>7. m \in hub /\ up[1].type = "SUBSCRIBE" /\ m \in up[1].models
            => up[1].type = "SUBSCRIBE" /\ m \in up[1].models
      OBVIOUS
    <2> QED BY <2>2, <2>3, <2>4, <2>5, <2>6
  <1> QED BY <1>3, <1>4 DEF WillForward

\* A frame more.
LEMMA AppendForward ==
  ASSUME up \in Seq(Frames), NEW type \in {"SUBSCRIBE", "UNSUBSCRIBE"}, NEW models \in SUBSET Models,
         up' = Append(up, Frame(type, models)), hub' = hub
  PROVE  /\ up' \in Seq(Frames)
         /\ WillForward' = IF type = "SUBSCRIBE" THEN WillForward \cup models ELSE WillForward \ models
  <1> DEFINE n == Len(up) + 1
  <1>1. Frame(type, models) \in Frames /\ Frame(type, models).type = type
        /\ Frame(type, models).models = models
    BY DEF Frame, Frames
  <1>2. /\ up' \in Seq(Frames) /\ Len(up) \in Nat /\ Len(up') = n
        /\ DOMAIN up = 1..Len(up) /\ DOMAIN up' = 1..n
        /\ \A i \in DOMAIN up : up'[i] = up[i]
        /\ up'[n].type = type /\ up'[n].models = models
    <2>1. /\ up' \in Seq(Frames) /\ Len(up') = Len(up) + 1
          /\ \A i \in 1..Len(up) : up'[i] = up[i]
          /\ up'[Len(up) + 1] = Frame(type, models)
      BY <1>1, AppendProperties
    <2> QED BY <1>1, <2>1, LenProperties
  <1>3. /\ \A i \in DOMAIN up : i \in DOMAIN up' /\ n > i /\ ~(i > n) /\ i # n
        /\ n \in DOMAIN up' /\ ~(n > n)
        /\ \A i \in DOMAIN up' : i = n \/ i \in DOMAIN up
    BY <1>2
  <1> HIDE DEF n
  <1>4. ASSUME NEW m \in Models
        PROVE  m \in WillForward' <=> IF m \in models THEN type = "SUBSCRIBE" ELSE m \in WillForward
    <2>1. CASE m \in models
      <3>1. m \in up'[n].models
        BY <1>2, <2>1
      <3>2. m \in WillForward' <=> type = "SUBSCRIBE"
        BY <1>2, <1>3, <3>1 DEF WillForward
      <3> QED BY <2>1, <3>2
    <2>2. CASE m \notin models
      <3>1. m \notin up'[n].models
        BY <1>2, <2>2
      <3>2. (\A i \in DOMAIN up' : m \notin up'[i].models) <=> \A i \in DOMAIN up : m \notin up[i].models
        BY <1>2, <1>3, <3>1
      <3>3. ASSUME NEW i \in DOMAIN up
            PROVE  (\A j \in DOMAIN up' : j > i => m \notin up'[j].models)
                     <=> \A j \in DOMAIN up : j > i => m \notin up[j].models
        BY <1>2, <1>3, <3>1
      <3>4. m \in WillForward' <=> m \in WillForward
        BY <1>2, <1>3, <3>1, <3>2, <3>3 DEF WillForward
      <3> QED BY <2>2, <3>4
    <2> QED BY <2>1, <2>2
  <1>5. WillForward \subseteq Models /\ WillForward' \subseteq Models
    BY DEF WillForward
  <1> QED BY <1>2, <1>4, <1>5

\* A new socket: the hub forwards what the only frame names.
LEMMA FirstForward ==
  ASSUME NEW models \in SUBSET Models, hub' = {},
         up' = IF models # {} THEN <<Frame("SUBSCRIBE", models)>> ELSE <<>>
  PROVE  up' \in Seq(Frames) /\ WillForward' = models
  <1>1. Frame("SUBSCRIBE", models) \in Frames
    BY DEF Frame, Frames
  <1>2. CASE models # {}
    <2>1. up' = <<Frame("SUBSCRIBE", models)>>
      BY <1>2
    <2>2. up' \in Seq(Frames) /\ DOMAIN up' = {1} /\ up'[1].type = "SUBSCRIBE" /\ up'[1].models = models
      BY <1>1, <2>1 DEF Frame
    <2> QED BY <2>2 DEF WillForward
  <1>3. CASE models = {}
    <2>1. up' = <<>> /\ DOMAIN up' = {} /\ up' \in Seq(Frames)
      BY <1>3
    <2> QED BY <1>3, <2>1 DEF WillForward
  <1> QED BY <1>2, <1>3

-----------------------------------------------------------------------------
(***************************************************************************)
(* The page and its socket.                                                *)
(***************************************************************************)

\* A page that begins.
LEMMA InitPage == Init => PageInv
  <1> SUFFICES ASSUME Init PROVE PageInv
    OBVIOUS
  <1> USE BoundsAssumption
  <1>1. TypeOK
    <2>1. up \in Seq(Frames) /\ down \in Seq(Frames)
      BY EmptySeq DEF Init
    <2>3. fetches \in [Boards -> Seq({Asked} \cup {{rows} : rows \in Versions})]
      <3> DEFINE Kinds == {Asked} \cup {{rows} : rows \in Versions}
      <3>1. <<>> \in Seq(Kinds)
        BY EmptySeq
      <3> HIDE DEF Kinds
      <3>2. fetches \in [Boards -> Seq(Kinds)]
        BY <3>1 DEF Init
      <3> QED BY <3>2 DEF Kinds
    <2>2. version \in Versions /\ seen \in [Boards -> Versions]
      <3>1. 0 \in 0..MaxChanges
        OBVIOUS
      <3> QED BY <3>1 DEF Init, Versions
    <2>4. attempts \in 0..MaxAttempts /\ drops \in 0..MaxDrops /\ {timer, refused} \subseteq BOOLEAN
          /\ ws \in {"none", "connecting", "open", "closing"}
      <3>1. 0 \in 0..MaxAttempts /\ 1 \in 0..MaxAttempts /\ 0 \in 0..MaxDrops
        OBVIOUS
      <3>2. attempts \in {0, 1} /\ timer \in BOOLEAN /\ ws \in {"none", "connecting"}
        BY DEF Init
      <3> QED BY <3>1, <3>2 DEF Init
    <2>5. counts \in [Models -> Nat] /\ {due, failed} \subseteq SUBSET Boards
      BY DEF Init
    <2> QED BY <2>1, <2>2, <2>3, <2>4, <2>5 DEF Init, TypeOK
  <1>2. ASSUME NEW m \in Models PROVE IsFiniteSet(References(m)) /\ counts[m] = Cardinality(References(m))
    <2>1. References(m) = {}
      BY DEF Init, References
    <2> QED BY <2>1, FS_EmptySet DEF Init
  <1>3. HubHearsThePage
    BY DEF Init, HubHearsThePage, IsOpen
  <1> QED BY <1>1, <1>2, <1>3 DEF Init, PageInv

\* What does not touch the subscriptions, the socket or the hub keeps what the
\* hub hears.
LEMMA PageKept ==
  ASSUME PageInv, TypeOK', UNCHANGED <<subscriptions, counts, everOpened, up, hub, ws, timer>>,
         ws \in {"none", "connecting"} => down' = down
  PROVE  PageInv'
  <1>1. \A m \in Models : References(m)' = References(m)
    BY DEF References
  <1>2. HubHearsThePage'
    BY DEF PageInv, HubHearsThePage, IsOpen, WillForward, Wanted, Names
  <1> QED BY <1>1, <1>2 DEF PageInv

\* A board mounts.
LEMMA MountPage ==
  ASSUME PageInv, NEW b \in Boards, Mount(b)
  PROVE  PageInv'
  <1> DEFINE added == {m \in Names(b) : counts[m] = 0}
  <1>1. /\ TypeOK /\ b \notin subscriptions /\ subscriptions' = subscriptions \cup {b}
        /\ counts' = [m \in Models |-> counts[m] + Watches[b][m]]
        /\ up' = Sent("SUBSCRIBE", added) /\ due' = due \cup {b}
        /\ UNCHANGED <<acked, everOpened, closed, transportVars, down, hub, version, fetches,
                       seen, failed>>
        /\ up \in Seq(Frames)
    BY DEF PageInv, TypeOK, Mount
  <1>2. UNCHANGED <<ws, timer, attempts, refused, drops>>
    BY <1>1 DEF transportVars
  <1>3. added \in SUBSET Models
    BY DEF Names
  <1>4. ASSUME NEW m \in Models
        PROVE  /\ IsFiniteSet(References(m)') /\ counts'[m] = Cardinality(References(m)')
               /\ counts'[m] \in Nat
    <2>1. References(m) = RefsOf(subscriptions, m) /\ References(m)' = RefsOf(subscriptions', m)
      BY DEF References, RefsOf
    <2>2. IsFiniteSet(RefsOf(subscriptions, m)) /\ counts[m] = Cardinality(RefsOf(subscriptions, m))
      BY <2>1 DEF PageInv
    <2>3. subscriptions \in SUBSET Boards /\ counts'[m] = counts[m] + Watches[b][m]
      BY <1>1 DEF TypeOK
    <2>4. /\ IsFiniteSet(RefsOf(subscriptions', m))
          /\ Cardinality(RefsOf(subscriptions', m)) = counts'[m]
      BY <1>1, <2>2, <2>3, RefsAdd
    <2> QED BY <2>1, <2>4, FS_CardinalityType
  <1>5. /\ up' \in Seq(Frames)
        /\ IsOpen /\ added # {} => WillForward' = WillForward \cup added
        /\ ~IsOpen \/ added = {} => up' = up
    <2> HIDE DEF added
    <2>1. CASE IsOpen /\ added # {}
      <3>1. up' = Append(up, Frame("SUBSCRIBE", added)) /\ hub' = hub
        BY <1>1, <2>1 DEF Sent
      <3> QED BY <1>1, <1>3, <2>1, <3>1, AppendForward
    <2>2. CASE ~(IsOpen /\ added # {})
      BY <1>1, <2>2 DEF Sent
    <2> QED BY <2>1, <2>2
  <1>6. TypeOK'
    BY <1>1, <1>2, <1>4, <1>5 DEF TypeOK
  <1>7. HubHearsThePage'
    <2> SUFFICES ASSUME IsOpen' PROVE WillForward' = Wanted'
      BY DEF HubHearsThePage
    <2>1. IsOpen /\ WillForward = Wanted
      BY <1>2 DEF IsOpen, PageInv, HubHearsThePage
    <2>2. WillForward' = WillForward \cup added
      <3>1. CASE added = {}
        BY <1>1, <1>5, <3>1 DEF WillForward
      <3> QED BY <1>5, <2>1, <3>1
    <2>3. \A m \in Names(b) : m \in added \/ m \in Wanted
      <3>1. \A m \in Models : counts[m] = 0 \/ m \in Counted
        BY <1>1 DEF Counted, TypeOK
      <3> QED BY <3>1, CountedIsWanted DEF Names
    <2>4. Wanted' = Wanted \cup Names(b) /\ added \subseteq Names(b)
      BY <1>1 DEF Wanted, Names
    <2> QED BY <2>1, <2>2, <2>3, <2>4
  <1>8. ws \in {"none", "connecting"} => up' = up
    BY <1>5 DEF IsOpen
  <1> QED BY <1>1, <1>2, <1>4, <1>6, <1>7, <1>8 DEF PageInv

\* A board unmounts: the models it leaves to nobody are given up.
LEMMA UnmountPage ==
  ASSUME PageInv, NEW b \in Boards, Unmount(b)
  PROVE  PageInv'
  <1>1. /\ TypeOK /\ b \in subscriptions /\ subscriptions' = subscriptions \ {b}
        /\ counts' = [m \in Models |-> IF m \in Released(b) THEN 0 ELSE counts[m] - Watches[b][m]]
        /\ up' = Sent("UNSUBSCRIBE", Released(b)) /\ due' = due \ {b}
        /\ fetches' = [fetches EXCEPT ![b] = <<>>] /\ failed' = failed \ {b}
        /\ UNCHANGED <<acked, everOpened, closed, transportVars, down, hub, version, seen>>
        /\ up \in Seq(Frames)
    BY DEF PageInv, TypeOK, Unmount
  <1>2. UNCHANGED <<ws, timer, attempts, refused, drops>>
    BY <1>1 DEF transportVars
  <1>3. Released(b) \in SUBSET Models
    BY DEF Released, Names
  <1>4. ASSUME NEW m \in Models
        PROVE  /\ IsFiniteSet(References(m)') /\ counts'[m] = Cardinality(References(m)')
               /\ counts'[m] \in Nat
               /\ m \in Released(b) <=>
                    m \in Names(b) /\ \A c \in subscriptions' : m \notin Names(c)
    <2>1. References(m) = RefsOf(subscriptions, m) /\ References(m)' = RefsOf(subscriptions', m)
      BY DEF References, RefsOf
    <2>2. IsFiniteSet(RefsOf(subscriptions, m)) /\ counts[m] = Cardinality(RefsOf(subscriptions, m))
      BY <2>1 DEF PageInv
    <2>3. subscriptions \in SUBSET Boards /\ subscriptions' \in SUBSET Boards
      BY <1>1 DEF TypeOK
    <2>4. /\ IsFiniteSet(RefsOf(subscriptions', m)) /\ Cardinality(RefsOf(subscriptions', m)) \in Nat
          /\ counts[m] = Cardinality(RefsOf(subscriptions', m)) + Watches[b][m]
      BY <1>1, <2>2, <2>3, RefsDrop
    <2>5. Cardinality(RefsOf(subscriptions', m)) > 0 <=> \E c \in subscriptions' : m \in Names(c)
      BY <2>3, <2>4, RefsCount
    <2>6. Watches[b][m] \in Nat
      BY WatchesAssumption
    <2>7. m \in Released(b) <=> m \in Names(b) /\ Cardinality(RefsOf(subscriptions', m)) = 0
      BY <2>4, <2>6 DEF Released
    <2>8. counts'[m] = Cardinality(RefsOf(subscriptions', m))
      BY <1>1, <2>4, <2>6, <2>7
    <2> QED BY <2>1, <2>4, <2>5, <2>7, <2>8
  <1>5. /\ up' \in Seq(Frames)
        /\ IsOpen /\ Released(b) # {} => WillForward' = WillForward \ Released(b)
        /\ ~IsOpen \/ Released(b) = {} => up' = up
    <2>1. CASE IsOpen /\ Released(b) # {}
      <3>1. up' = Append(up, Frame("UNSUBSCRIBE", Released(b))) /\ hub' = hub
        BY <1>1, <2>1 DEF Sent
      <3> QED BY <1>1, <1>3, <2>1, <3>1, AppendForward
    <2>2. CASE ~(IsOpen /\ Released(b) # {})
      BY <1>1, <2>2 DEF Sent
    <2> QED BY <2>1, <2>2
  <1>6. TypeOK'
    <2>1. counts' \in [Models -> Nat]
      BY <1>1, <1>4
    <2>2. fetches' \in [Boards -> Seq({Asked} \cup {{rows} : rows \in Versions})]
      BY <1>1, EmptySeq DEF TypeOK
    <2> QED BY <1>1, <1>2, <1>5, <2>1, <2>2 DEF TypeOK
  <1>7. HubHearsThePage'
    <2> SUFFICES ASSUME IsOpen' PROVE WillForward' = Wanted'
      BY DEF HubHearsThePage
    <2>1. IsOpen /\ WillForward = Wanted
      BY <1>2 DEF IsOpen, PageInv, HubHearsThePage
    <2>2. WillForward' = WillForward \ Released(b)
      <3>1. CASE Released(b) = {}
        BY <1>1, <1>5, <3>1 DEF WillForward
      <3> QED BY <1>5, <2>1, <3>1
    <2>3. Wanted' = Wanted \ Released(b)
      <3>1. \A m \in Released(b) : m \notin Wanted'
        BY <1>3, <1>4 DEF Wanted, Names
      <3>2. \A m \in Wanted : m \in Wanted' \/ m \in Released(b)
        BY <1>1, <1>4 DEF Wanted, Names
      <3>3. Wanted' \subseteq Wanted
        BY <1>1 DEF Wanted, Names
      <3> QED BY <3>1, <3>2, <3>3
    <2> QED BY <2>1, <2>2, <2>3
  <1>8. ws \in {"none", "connecting"} => up' = up
    BY <1>5 DEF IsOpen
  <1> QED BY <1>1, <1>2, <1>4, <1>6, <1>7, <1>8 DEF PageInv

\* A refetch leaves those in flight; the first one leaves the others.
LEMMA RemoveFacts ==
  ASSUME NEW S, NEW s \in Seq(S), NEW i \in DOMAIN s
  PROVE  /\ RemoveAt(s, i) \in Seq(S)
         /\ Len(RemoveAt(s, i)) = Len(s) - 1
  <1>0. Len(s) \in Nat /\ DOMAIN s = 1..Len(s) /\ i \in 1..Len(s)
    BY LenProperties
  <1>1. SubSeq(s, 1, i - 1) \in Seq(S) /\ SubSeq(s, i + 1, Len(s)) \in Seq(S)
    BY <1>0, SubSeqProperties, ElementOfSeq
  <1>2. Len(SubSeq(s, 1, i - 1)) = i - 1 /\ Len(SubSeq(s, i + 1, Len(s))) = Len(s) - i
    BY <1>0, SubSeqProperties, ElementOfSeq
  <1>3. /\ RemoveAt(s, i) \in Seq(S)
        /\ Len(RemoveAt(s, i)) = (i - 1) + (Len(s) - i)
    BY <1>1, <1>2, ConcatProperties DEF RemoveAt
  <1> QED BY <1>0, <1>3

\* What a refetch in flight may be.
Answered == {Asked} \cup {{rows} : rows \in Versions}

\* The types a step of a board or of the server starts from.
LEMMA BoardTypes ==
  ASSUME TypeOK
  PROVE  /\ fetches \in [Boards -> Seq(Answered)] /\ version \in Versions
         /\ seen \in [Boards -> Versions] /\ down \in Seq(Frames)
         /\ \A b \in Boards : fetches[b] \in Seq(Answered) /\ Len(fetches[b]) \in Nat
                              /\ DOMAIN fetches[b] = 1..Len(fetches[b])
  <1>1. fetches \in [Boards -> Seq(Answered)]
    BY DEF TypeOK, Answered
  <1> QED BY <1>1, LenProperties DEF TypeOK

\* The steps of a board that is mounted, or was.
LEMMA BoardPage ==
  ASSUME PageInv, NEW b \in Boards,
         \/ TickFires(b)
         \/ \E i \in DOMAIN fetches[b] : FetchReads(b, i) \/ FetchLands(b, i) \/ FetchFails(b, i)
  PROVE  PageInv'
  <1>1. /\ TypeOK /\ UNCHANGED <<clientVars, transportVars, wireVars, version>>
        /\ fetches[b] \in Seq(Answered) /\ fetches \in [Boards -> Seq(Answered)]
        /\ version \in Versions /\ seen \in [Boards -> Versions]
    BY BoardTypes DEF PageInv, TickFires, FetchReads, FetchLands, FetchFails
  <1>2. UNCHANGED <<subscriptions, counts, acked, everOpened, closed, ws, timer, attempts, refused,
                    drops, up, down, hub, version>>
    BY <1>1 DEF clientVars, transportVars, wireVars
  <1>3. /\ fetches' \in [Boards -> Seq(Answered)] /\ seen' \in [Boards -> Versions]
        /\ {due', failed'} \subseteq SUBSET Boards
    <2>0. {due, failed} \subseteq SUBSET Boards
      BY <1>1 DEF TypeOK
    <2>1. CASE TickFires(b)
      <3>1. Append(fetches[b], Asked) \in Seq(Answered)
        BY <1>1, AppendProperties DEF Answered
      <3> QED BY <1>1, <2>0, <2>1, <3>1 DEF TickFires
    <2>2. ASSUME NEW i \in DOMAIN fetches[b], FetchReads(b, i)
          PROVE  fetches' \in [Boards -> Seq(Answered)] /\ UNCHANGED <<seen, due, failed>>
      <3>1. {Rows(b)} \in Answered /\ i \in 1..Len(fetches[b])
        <4>1. Rows(b) \in Versions
          BY <1>1, BoundsAssumption DEF Versions, Rows
        <4> QED BY <1>1, <2>2, <4>1, LenProperties DEF Answered
      <3>2. [fetches[b] EXCEPT ![i] = {Rows(b)}] \in Seq(Answered)
        BY <1>1, <3>1, ExceptSeq
      <3>3. fetches' = [fetches EXCEPT ![b] = [fetches[b] EXCEPT ![i] = {Rows(b)}]]
        BY <1>1, <2>2 DEF FetchReads
      <3> QED BY <1>1, <2>2, <3>2, <3>3 DEF FetchReads
    <2>3. ASSUME NEW i \in DOMAIN fetches[b], FetchLands(b, i)
          PROVE  /\ fetches' \in [Boards -> Seq(Answered)] /\ seen' \in [Boards -> Versions]
                 /\ due' = due /\ failed' = failed \ {b}
      <3>1. RemoveAt(fetches[b], i) \in Seq(Answered)
        BY <1>1, <2>3, RemoveFacts
      <3>2. fetches[b][i] \in Answered
        BY <1>1, <2>3, LenProperties, ElementOfSeq
      <3>3. \A rows \in fetches[b][i] : rows \in Versions
        BY <3>2 DEF Answered, Asked
      <3> QED BY <1>1, <2>3, <3>1, <3>3 DEF FetchLands
    <2>4. ASSUME NEW i \in DOMAIN fetches[b], FetchFails(b, i)
          PROVE  /\ fetches' \in [Boards -> Seq(Answered)]
                 /\ UNCHANGED <<seen, due>> /\ failed' = failed \cup {b}
      <3>1. RemoveAt(fetches[b], i) \in Seq(Answered)
        BY <1>1, <2>4, RemoveFacts
      <3> QED BY <1>1, <2>4, <3>1 DEF FetchFails
    <2> QED BY <1>1, <2>0, <2>1, <2>2, <2>3, <2>4
  <1>4. TypeOK'
    BY <1>1, <1>2, <1>3 DEF TypeOK, Answered
  <1> QED BY <1>2, <1>4, PageKept

\* A frame arrives.
LEMMA ReceivePage ==
  ASSUME PageInv, Receive
  PROVE  PageInv'
  <1>1. /\ TypeOK /\ IsOpen /\ down # <<>> /\ down' = Tail(down) /\ down \in Seq(Frames)
        /\ UNCHANGED <<subscriptions, counts, everOpened, closed, transportVars, up, hub, version,
                       fetches, seen, failed>>
    BY DEF PageInv, TypeOK, Receive
  <1>2. UNCHANGED <<ws, timer, attempts, refused, drops>>
    BY <1>1 DEF transportVars
  <1>3. down' \in Seq(Frames) /\ Head(down).models \subseteq Models
    <2>1. Tail(down) \in Seq(Frames) /\ Head(down) \in Frames
      BY <1>1, HeadTailProperties
    <2> QED BY <1>1, <2>1 DEF Frames
  <1>4. acked' \subseteq Models /\ due' \subseteq Boards
    BY <1>1, <1>3 DEF Receive, TypeOK, Listeners, Resynced
  <1>5. TypeOK'
    BY <1>1, <1>2, <1>3, <1>4 DEF TypeOK
  <1> QED BY <1>1, <1>2, <1>5, PageKept DEF IsOpen

\* The socket opens: the hub is told of everything that is counted.
LEMMA SocketOpensPage ==
  ASSUME PageInv, SocketOpens
  PROVE  PageInv'
  <1>1. /\ TypeOK /\ ws = "connecting" /\ ws' = "open" /\ attempts' = 0
        /\ up' = (IF Counted # {} THEN <<Frame("SUBSCRIBE", Counted)>> ELSE <<>>)
        /\ due' = due \cup ResyncedOnOpen /\ everOpened' = TRUE
        /\ UNCHANGED <<subscriptions, counts, acked, closed, timer, refused, drops, down, hub, version,
                       fetches, seen, failed>>
    BY DEF PageInv, SocketOpens, Announced
  <1>2. hub' = {} /\ Counted \in SUBSET Models /\ ~timer
    BY <1>1 DEF PageInv, Counted
  <1>3. up' \in Seq(Frames) /\ WillForward' = Counted
    BY <1>1, <1>2, FirstForward
  <1>4. Wanted' = Counted
    BY <1>1, CountedIsWanted DEF Wanted, Names
  <1>5. due' \subseteq Boards /\ 0 \in 0..MaxAttempts
    BY <1>1, BoundsAssumption DEF TypeOK, ResyncedOnOpen, Resynced
  <1>6. TypeOK'
    BY <1>1, <1>3, <1>5 DEF TypeOK
  <1>7. HubHearsThePage'
    BY <1>3, <1>4 DEF HubHearsThePage
  <1>8. \A m \in Models : References(m)' = References(m)
    BY <1>1 DEF References
  <1> QED BY <1>1, <1>2, <1>6, <1>7, <1>8 DEF PageInv

\* close(): nothing is left.
LEMMA ClosePage ==
  ASSUME PageInv, Close
  PROVE  PageInv'
  <1>1. /\ TypeOK /\ closed' = TRUE /\ subscriptions' = {} /\ counts' = [m \in Models |-> 0]
        /\ ws' = "none" /\ timer' = FALSE /\ up' = <<>> /\ down' = <<>> /\ hub' = {}
        /\ UNCHANGED <<acked, everOpened, attempts, refused, drops, version, due, fetches, seen, failed>>
    BY DEF PageInv, Close, boardVars
  <1>2. TypeOK'
    <2>1. up' \in Seq(Frames) /\ down' \in Seq(Frames)
      BY <1>1, EmptySeq
    <2> QED BY <1>1, <2>1 DEF TypeOK
  <1>3. ASSUME NEW m \in Models
        PROVE  IsFiniteSet(References(m)') /\ counts'[m] = Cardinality(References(m)')
    <2>1. References(m)' = {}
      BY <1>1 DEF References
    <2> QED BY <1>1, <2>1, FS_EmptySet
  <1> QED BY <1>1, <1>2, <1>3 DEF PageInv, HubHearsThePage, IsOpen

\* The socket is lost or closes for good, or a timer makes another one.
LEMMA TransportPage ==
  ASSUME PageInv, TimerFires \/ HubCloses \/ SocketCloses
  PROVE  PageInv'
  <1>1. /\ TypeOK /\ UNCHANGED <<subscriptions, counts, acked, everOpened, closed, version, due,
                                 fetches, seen, failed>>
    BY DEF PageInv, TimerFires, HubCloses, SocketCloses, clientVars, boardVars
  <1>2. \A m \in Models : References(m)' = References(m)
    BY <1>1 DEF References
  <1>3. Schedule => timer' \in BOOLEAN /\ attempts' \in 0..MaxAttempts
    <2>1. attempts \in 0..MaxAttempts /\ MaxAttempts \in Nat
      BY <1>1, BoundsAssumption DEF TypeOK
    <2>2. CASE attempts >= MaxAttempts
      BY <2>1, <2>2 DEF Schedule
    <2>3. CASE ~(attempts >= MaxAttempts)
      <3>1. attempts + 1 \in 0..MaxAttempts
        BY <2>1, <2>3
      <3>2. Schedule => timer' = TRUE /\ attempts' = attempts + 1
        BY <2>3 DEF Schedule
      <3> QED BY <3>1, <3>2
    <2> QED BY <2>2, <2>3
  <1>4. CASE TimerFires
    <2>1. /\ timer /\ UNCHANGED <<refused, drops, up, down, hub>> /\ ws = "none"
          /\ \/ ws' = "connecting" /\ timer' = FALSE /\ attempts' = attempts
             \/ Schedule /\ ws' = ws
      BY <1>4 DEF TimerFires, PageInv, clientVars, wireVars
    <2>2. /\ timer' \in BOOLEAN /\ attempts' \in 0..MaxAttempts /\ ws' \in {"none", "connecting"}
          /\ timer' => ws' = "none"
      BY <1>1, <1>3, <1>4, <2>1 DEF TimerFires, TypeOK
    <2>3. TypeOK'
      BY <1>1, <2>1, <2>2 DEF TypeOK
    <2> QED BY <1>1, <1>2, <2>1, <2>2, <2>3 DEF PageInv, HubHearsThePage, IsOpen
  <1>5. CASE HubCloses
    <2>1. /\ ws = "open" /\ ws' = "closing" /\ drops' = drops + 1 /\ drops < MaxDrops
          /\ UNCHANGED <<timer, attempts, refused, up, down, hub>>
      BY <1>5 DEF HubCloses, wireVars
    <2>2. drops' \in 0..MaxDrops
      BY <1>1, <2>1, BoundsAssumption DEF TypeOK
    <2>3. TypeOK'
      BY <1>1, <2>1, <2>2 DEF TypeOK
    <2> QED BY <1>1, <1>2, <2>1, <2>3 DEF PageInv, HubHearsThePage, IsOpen
  <1>6. CASE SocketCloses
    <2>1. /\ ws' = "none" /\ up' = <<>> /\ down' = <<>> /\ hub' = {}
          /\ refused' \in BOOLEAN /\ timer' \in BOOLEAN /\ attempts' \in 0..MaxAttempts
      BY <1>1, <1>3, <1>6 DEF SocketCloses, Reconnect, TypeOK
    <2>2. drops' \in 0..MaxDrops
      BY <1>1, <1>6, BoundsAssumption DEF SocketCloses, TypeOK
    <2>3. up' \in Seq(Frames) /\ down' \in Seq(Frames)
      BY <2>1, EmptySeq
    <2>4. TypeOK'
      BY <1>1, <2>1, <2>2, <2>3 DEF TypeOK
    <2> QED BY <1>1, <1>2, <2>1, <2>4 DEF PageInv, HubHearsThePage, IsOpen
  <1> QED BY <1>4, <1>5, <1>6

\* The hub reads a frame.
LEMMA HubReceivesPage ==
  ASSUME PageInv, HubReceives
  PROVE  PageInv'
  <1>1. /\ TypeOK /\ IsOpen /\ up # <<>> /\ up' = Tail(up) /\ hub' = Apply(hub, Head(up))
        /\ down' \in {down, Append(down, Frame("DATA_SUBSCRIBED", hub'))}
        /\ UNCHANGED <<clientVars, transportVars, version, boardVars>>
        /\ up \in Seq(Frames) /\ down \in Seq(Frames) /\ hub \subseteq Models
    BY DEF PageInv, TypeOK, HubReceives
  <1>2. UNCHANGED <<subscriptions, counts, acked, everOpened, closed, ws, timer, attempts, refused,
                    drops, version, due, fetches, seen, failed>>
    BY <1>1 DEF clientVars, transportVars, boardVars
  <1>3. WillForward' = WillForward /\ hub' \subseteq Models /\ up' \in Seq(Frames)
    BY <1>1, TailForward, HeadTailProperties
  <1>4. down' \in Seq(Frames)
    <2>1. Frame("DATA_SUBSCRIBED", hub') \in Frames
      BY <1>3 DEF Frame, Frames
    <2>2. down \in Seq(Frames)
      BY <1>1
    <2>3. Append(down, Frame("DATA_SUBSCRIBED", hub')) \in Seq(Frames)
      BY <2>1, <2>2, AppendProperties
    <2>4. down' = down \/ down' = Append(down, Frame("DATA_SUBSCRIBED", hub'))
      BY <1>1
    <2> QED BY <2>2, <2>3, <2>4
  <1>5. TypeOK'
    BY <1>1, <1>2, <1>3, <1>4 DEF TypeOK
  <1>6. HubHearsThePage'
    BY <1>1, <1>2, <1>3 DEF PageInv, HubHearsThePage, IsOpen, Wanted, Names
  <1>7. \A m \in Models : References(m)' = References(m)
    BY <1>2 DEF References
  <1> QED BY <1>1, <1>2, <1>5, <1>6, <1>7 DEF PageInv, IsOpen

\* A row changes.
LEMMA ChangePage ==
  ASSUME PageInv, NEW m \in Models, Change(m)
  PROVE  PageInv'
  <1>1. /\ TypeOK /\ version' = [version EXCEPT ![m] = @ + 1] /\ version[m] < MaxChanges
        /\ UNCHANGED <<clientVars, transportVars, up, hub, boardVars>>
        /\ \/ IsOpen /\ \E type \in {"DATA_EVENT", "DATA_EVENTS_DROPPED"} :
                          down' = Append(down, Frame(type, {m}))
           \/ down' = down
        /\ version \in Versions /\ down \in Seq(Frames)
    BY DEF PageInv, TypeOK, Change
  <1>2. UNCHANGED <<subscriptions, counts, acked, everOpened, closed, ws, timer, attempts, refused,
                    drops, due, fetches, seen, failed>>
    BY <1>1 DEF clientVars, transportVars, boardVars
  <1>3. version' \in Versions
    <2>1. version[m] + 1 \in 0..MaxChanges
      BY <1>1, BoundsAssumption DEF Versions
    <2> QED BY <1>1, <2>1 DEF Versions
  <1>4. down' \in Seq(Frames)
    <2>1. \A type \in {"DATA_EVENT", "DATA_EVENTS_DROPPED"} : Frame(type, {m}) \in Frames
      BY DEF Frame, Frames
    <2> QED BY <1>1, <2>1, AppendProperties
  <1>5. TypeOK'
    BY <1>1, <1>2, <1>3, <1>4 DEF TypeOK
  <1> QED BY <1>1, <1>2, <1>5, PageKept DEF IsOpen

\* Every step keeps the page and its socket true.
LEMMA StepPage ==
  ASSUME PageInv, [Next]_vars
  PROVE  PageInv'
  <1>1. CASE BoardNext
    BY <1>1, MountPage, UnmountPage, BoardPage DEF BoardNext
  <1>2. CASE UNCHANGED vars
    <2>1. /\ UNCHANGED <<subscriptions, counts, acked, everOpened, closed, ws, timer, attempts, refused,
                         drops, up, down, hub, version, due, fetches, seen, failed>>
      BY <1>2 DEF vars, clientVars, transportVars, wireVars, boardVars
    <2>2. TypeOK'
      BY <2>1 DEF PageInv, TypeOK
    <2> QED BY <2>1, <2>2, PageKept
  <1>3. CASE \E m \in Models : Change(m)
    BY <1>3, ChangePage
  <1> QED BY <1>1, <1>2, <1>3, ReceivePage, SocketOpensPage, ClosePage, TransportPage,
             HubReceivesPage DEF Next

-----------------------------------------------------------------------------
(***************************************************************************)
(* Catching up.                                                            *)
(***************************************************************************)

\* A frame that stands for a change of m.
Tells(frame, m) ==
  (frame.type = "DATA_EVENT" /\ m \in frame.models) \/ frame.type = "DATA_EVENTS_DROPPED"

\* Frames that are on their way stay so behind a new one, which joins them.
LEMMA TellsAppend ==
  ASSUME down \in Seq(Frames), NEW frame \in Frames, down' = Append(down, frame), NEW m \in Models
  PROVE  TellsOf(m) \/ Tells(frame, m) => TellsOf(m)'
  <1>1. /\ Len(down) \in Nat /\ DOMAIN down = 1..Len(down) /\ DOMAIN down' = 1..(Len(down) + 1)
        /\ \A i \in DOMAIN down : down'[i] = down[i]
        /\ down'[Len(down) + 1] = frame
    <2>1. down' \in Seq(Frames) /\ Len(down') = Len(down) + 1
      BY AppendProperties
    <2> QED BY <2>1, AppendProperties, LenProperties
  <1>2. Len(down) + 1 \in DOMAIN down' /\ \A i \in DOMAIN down : i \in DOMAIN down'
    BY <1>1
  <1> QED BY <1>1, <1>2 DEF TellsOf, Tells

\* The first frame arrives, and the others stay on their way.
LEMMA TellsTail ==
  ASSUME down \in Seq(Frames), down # <<>>, down' = Tail(down), NEW m \in Models, TellsOf(m)
  PROVE  TellsOf(m)' \/ Tells(Head(down), m)
  <1>1. /\ Len(down) \in Nat /\ Len(down) >= 1 /\ DOMAIN down = 1..Len(down)
        /\ DOMAIN down' = 1..(Len(down) - 1)
        /\ \A i \in 1..(Len(down) - 1) : down'[i] = down[i + 1]
        /\ Head(down) = down[1]
    BY LenProperties, HeadTailProperties, EmptySeq
  <1>2. PICK i \in DOMAIN down : Tells(down[i], m)
    BY DEF TellsOf, Tells
  <1>3. CASE i = 1
    BY <1>1, <1>2, <1>3
  <1>4. CASE i # 1
    <2>1. i - 1 \in DOMAIN down' /\ down'[i - 1] = down[i]
      BY <1>1, <1>4
    <2> QED BY <1>2, <2>1 DEF TellsOf, Tells
  <1> QED BY <1>3, <1>4

\* What a board waits for does not change, and it is not left without it.
LEMMA StaysOnItsWay ==
  ASSUME NEW b \in Boards, NEW m \in Models, OnItsWay(b, m),
         b \in due => b \in due', TellsOf(m) => TellsOf(m)' \/ b \in due' \/ (everOpened' /\ ~IsOpen'),
         everOpened /\ ~IsOpen => (everOpened' /\ ~IsOpen') \/ b \in due',
         fetches'[b] = fetches[b], seen'[b] = seen[b], version'[m] = version[m],
         b \in failed => b \in failed'
  PROVE  OnItsWay(b, m)'
  BY DEF OnItsWay

\* A board that nobody doubts after a step: no change or answer of the step
\* makes it unsure, and it was sure before unless it refetches just now.
LEMMA SureFacts ==
  ASSUME Records, NEW b \in subscriptions' \ unsure'
  PROVE  Refetches(b) \/ (b \notin unsure /\ ~Unheard(b) /\ ~Overtaken(b))
  BY DEF Records

\* Without a refetch it was sure before.
LEMMA StillSure ==
  ASSUME PageInv, Records, NEW b \in subscriptions' \ unsure', b \in subscriptions,
         fetches'[b] = fetches[b]
  PROVE  b \in subscriptions \ unsure /\ ~Unheard(b)
  <1>1. Len(fetches[b]) \in Nat
    BY BoardTypes DEF PageInv, TypeOK
  <1> QED BY <1>1, SureFacts DEF Refetches

\* What a board waits for, of a board that mounted.
LEMMA Waits ==
  ASSUME PageInv, CatchUpInv, NEW b \in subscriptions \ unsure, NEW m \in Names(b)
  PROVE  b \in Boards /\ m \in Models /\ OnItsWay(b, m) /\ m \in Counted
  BY CountedIsWanted DEF PageInv, TypeOK, CatchUpInv, Names

\* A board mounts and refetches, or unmounts.
LEMMA MountCatchUp ==
  ASSUME PageInv, CatchUpInv, Records, NEW c \in Boards, Mount(c) \/ Unmount(c)
  PROVE  CatchUpInv'
  <1>1. /\ UNCHANGED <<everOpened, ws, down, version, seen>>
        /\ fetches \in [Boards -> Seq(Answered)]
    BY BoardTypes DEF Mount, Unmount, transportVars, PageInv
  <1>2. ASSUME NEW b \in subscriptions' \ unsure', NEW m \in Names(b) PROVE OnItsWay(b, m)'
    <2>1. CASE Mount(c) /\ b = c
      BY <2>1 DEF Mount, OnItsWay
    <2>2. CASE b # c
      <3>1. b \in subscriptions
        BY <1>2, <2>2 DEF Mount, Unmount
      <3>2. /\ fetches'[b] = fetches[b] /\ (b \in due => b \in due') /\ (b \in failed => b \in failed')
        <4>1. CASE Mount(c)
          BY <2>2, <4>1 DEF Mount
        <4>2. CASE Unmount(c)
          BY <1>1, <2>2, <4>2 DEF Unmount
        <4> QED BY <4>1, <4>2
      <3>3. (IsOpen' <=> IsOpen) /\ (TellsOf(m)' <=> TellsOf(m))
        BY <1>1 DEF IsOpen, TellsOf
      <3>4. b \in subscriptions \ unsure
        BY <1>2, <3>1, <3>2, StillSure
      <3>5. b \in Boards /\ m \in Models /\ OnItsWay(b, m)
        BY <1>2, <3>4, Waits
      <3> QED BY <1>1, <3>2, <3>3, <3>5, StaysOnItsWay
    <2> QED BY <1>2, <2>1, <2>2 DEF Unmount
  <1> QED BY <1>2 DEF CatchUpInv, Names

\* A frame arrives: whoever it tells of a change refetches.
LEMMA ReceiveCatchUp ==
  ASSUME PageInv, CatchUpInv, Records, Receive
  PROVE  CatchUpInv'
  <1>1. /\ IsOpen /\ down # <<>> /\ down' = Tail(down) /\ down \in Seq(Frames)
        /\ UNCHANGED <<subscriptions, counts, everOpened, ws, version, fetches, seen, failed>>
        /\ due \subseteq due'
    BY DEF PageInv, TypeOK, Receive, transportVars
  <1>2. ASSUME NEW b \in subscriptions' \ unsure', NEW m \in Names(b) PROVE OnItsWay(b, m)'
    <2>1. b \in subscriptions /\ b \in Boards /\ m \in Models /\ OnItsWay(b, m) /\ m \in Counted
      BY <1>1, <1>2, StillSure, Waits
    <2>2. Tells(Head(down), m) => b \in due'
      <3>1. CASE Head(down).type = "DATA_EVENT" /\ m \in Head(down).models
        <4>1. b \in Listeners(m)
          BY <1>2, <2>1 DEF Listeners
        <4>2. due' = due \cup UNION {Listeners(k) : k \in Head(down).models}
          BY <3>1 DEF Receive
        <4> QED BY <3>1, <4>1, <4>2
      <3>2. CASE Head(down).type = "DATA_EVENTS_DROPPED"
        <4>1. b \in Resynced
          BY <1>2, <2>1 DEF Resynced
        <4>2. due' = due \cup Resynced
          BY <3>2 DEF Receive
        <4> QED BY <4>1, <4>2
      <3> QED BY <3>1, <3>2 DEF Tells
    <2>3. TellsOf(m) => TellsOf(m)' \/ b \in due'
      BY <1>1, <2>1, <2>2, TellsTail
    <2>4. IsOpen'
      BY <1>1 DEF IsOpen
    <2> QED BY <1>1, <2>1, <2>3, <2>4, StaysOnItsWay
  <1> QED BY <1>2 DEF CatchUpInv, Names

\* The socket opens: after a gap everybody refetches.
LEMMA SocketOpensCatchUp ==
  ASSUME PageInv, CatchUpInv, Records, SocketOpens
  PROVE  CatchUpInv'
  <1>1. /\ ws = "connecting" /\ down = <<>> /\ due' = due \cup ResyncedOnOpen
        /\ UNCHANGED <<subscriptions, counts, version, fetches, seen, failed>>
    BY DEF PageInv, SocketOpens
  <1>2. ASSUME NEW b \in subscriptions' \ unsure', NEW m \in Names(b) PROVE OnItsWay(b, m)'
    <2>1. b \in subscriptions /\ b \in Boards /\ m \in Models /\ OnItsWay(b, m) /\ m \in Counted
      BY <1>1, <1>2, StillSure, Waits
    <2>2. everOpened => b \in due'
      BY <1>1, <1>2, <2>1 DEF ResyncedOnOpen, Resynced
    <2>3. ~TellsOf(m)
      BY <1>1 DEF TellsOf
    <2> QED BY <1>1, <2>1, <2>2, <2>3, StaysOnItsWay
  <1> QED BY <1>2 DEF CatchUpInv, Names

\* The socket is lost or closes: it was open before, or told nobody anything.
LEMMA TransportCatchUp ==
  ASSUME PageInv, CatchUpInv, Records, TimerFires \/ HubCloses \/ SocketCloses
  PROVE  CatchUpInv'
  <1>1. /\ UNCHANGED <<subscriptions, counts, everOpened, version, due, fetches, seen, failed>>
        /\ ws' # "open" /\ (ws \in {"open", "closing"} => everOpened)
        /\ ws \notin {"open", "closing"} => down = <<>>
    BY DEF TimerFires, HubCloses, SocketCloses, clientVars, boardVars, PageInv, TypeOK
  <1>2. ASSUME NEW b \in subscriptions' \ unsure', NEW m \in Names(b) PROVE OnItsWay(b, m)'
    <2>1. b \in subscriptions /\ b \in Boards /\ m \in Models /\ OnItsWay(b, m)
      BY <1>1, <1>2, StillSure, Waits
    <2>2. TellsOf(m) => everOpened' /\ ~IsOpen'
      BY <1>1 DEF TellsOf, IsOpen
    <2>3. ~IsOpen'
      BY <1>1 DEF IsOpen
    <2> QED BY <1>1, <2>1, <2>2, <2>3, StaysOnItsWay
  <1> QED BY <1>2 DEF CatchUpInv, Names

\* The hub reads a frame: what it sends joins what is on its way.
LEMMA HubCatchUp ==
  ASSUME PageInv, CatchUpInv, Records, HubReceives
  PROVE  CatchUpInv'
  <1>1. /\ UNCHANGED <<clientVars, transportVars, version, boardVars>> /\ down \in Seq(Frames)
        /\ down' \in {down, Append(down, Frame("DATA_SUBSCRIBED", hub'))}
    BY DEF HubReceives, PageInv, TypeOK
  <1>2. UNCHANGED <<subscriptions, everOpened, ws, version, due, fetches, seen, failed>>
    BY <1>1 DEF clientVars, transportVars, boardVars
  <1>3. Frame("DATA_SUBSCRIBED", hub') \in Frames
    <2>1. hub' \subseteq Models
      BY HubReceivesPage DEF PageInv, TypeOK
    <2> QED BY <2>1 DEF Frame, Frames
  <1>4. ASSUME NEW b \in subscriptions' \ unsure', NEW m \in Names(b) PROVE OnItsWay(b, m)'
    <2>1. b \in subscriptions /\ b \in Boards /\ m \in Models /\ OnItsWay(b, m)
      BY <1>2, <1>4, StillSure, Waits
    <2>2. TellsOf(m) => TellsOf(m)'
      <3>1. CASE down' = down
        BY <3>1 DEF TellsOf
      <3>2. CASE down' = Append(down, Frame("DATA_SUBSCRIBED", hub'))
        BY <1>1, <1>3, <2>1, <3>2, TellsAppend
      <3> QED BY <1>1, <3>1, <3>2
    <2>3. IsOpen' <=> IsOpen
      BY <1>2 DEF IsOpen
    <2> QED BY <1>2, <2>1, <2>2, <2>3, StaysOnItsWay
  <1> QED BY <1>4 DEF CatchUpInv, Names

\* A row changes: the hub tells whoever lists its model, or will be asked.
LEMMA ChangeCatchUp ==
  ASSUME PageInv, CatchUpInv, Records, NEW k \in Models, Change(k)
  PROVE  CatchUpInv'
  <1>1. /\ version' = [version EXCEPT ![k] = @ + 1]
        /\ UNCHANGED <<subscriptions, everOpened, ws, due, fetches, seen, failed, hub>>
        /\ down \in Seq(Frames) /\ version \in Versions
    BY DEF Change, PageInv, TypeOK, clientVars, transportVars, boardVars
  <1>2. \A type \in {"DATA_EVENT", "DATA_EVENTS_DROPPED"} :
           Frame(type, {k}) \in Frames /\ Tells(Frame(type, {k}), k)
    BY DEF Frame, Frames, Tells
  <1>3. \/ IsOpen /\ k \in hub /\ \E type \in {"DATA_EVENT", "DATA_EVENTS_DROPPED"} :
                                     down' = Append(down, Frame(type, {k}))
        \/ ~(IsOpen /\ k \in hub) /\ down' = down
    BY DEF Change
  <1>4. IsOpen' <=> IsOpen
    BY <1>1 DEF IsOpen
  <1>5. ASSUME NEW b \in subscriptions' \ unsure', NEW m \in Names(b) PROVE OnItsWay(b, m)'
    <2>1. b \in subscriptions /\ b \in Boards /\ m \in Models /\ OnItsWay(b, m)
      BY <1>1, <1>5, StillSure, Waits
    <2>2. CASE m # k
      <3>1. TellsOf(m) => TellsOf(m)'
        <4>1. CASE down' = down
          BY <4>1 DEF TellsOf
        <4>2. CASE \E type \in {"DATA_EVENT", "DATA_EVENTS_DROPPED"} : down' = Append(down, Frame(type, {k}))
          BY <1>1, <1>2, <2>1, <4>2, TellsAppend
        <4> QED BY <1>3, <4>1, <4>2
      <3>2. version'[m] = version[m]
        BY <1>1, <2>1, <2>2 DEF Versions
      <3> QED BY <1>1, <1>4, <2>1, <3>1, <3>2, StaysOnItsWay
    <2>3. CASE m = k
      <3>1. k \in hub \/ (everOpened /\ ~IsOpen)
        <4>1. version'[k] # version[k]
          BY <1>1 DEF Versions
        <4>2. ~Unheard(b)
          BY <1>1, <1>5, <2>1, StillSure
        <4> QED BY <1>5, <2>3, <4>1, <4>2 DEF Unheard, Joined
      <3>2. CASE everOpened /\ ~IsOpen
        BY <1>1, <1>4, <3>2 DEF OnItsWay
      <3>3. CASE k \in hub /\ ~IsOpen
        <4>1. everOpened
          BY <3>3 DEF PageInv, TypeOK
        <4> QED BY <1>1, <1>4, <3>3, <4>1 DEF OnItsWay
      <3>4. CASE k \in hub /\ IsOpen
        <4>1. TellsOf(k)'
          BY <1>1, <1>2, <1>3, <3>4, TellsAppend
        <4> QED BY <2>3, <4>1 DEF OnItsWay
      <3> QED BY <3>1, <3>2, <3>3, <3>4
    <2> QED BY <2>2, <2>3
  <1> QED BY <1>5 DEF CatchUpInv, Names

\* A refetch of a board goes out, is answered or fails: the last one that was
\* answered, and answers come in order, leaves the board current or failed.
LEMMA BoardCatchUp ==
  ASSUME PageInv, CatchUpInv, Records, NEW c \in Boards,
         \/ TickFires(c)
         \/ \E i \in DOMAIN fetches[c] : FetchReads(c, i) \/ FetchLands(c, i) \/ FetchFails(c, i)
  PROVE  CatchUpInv'
  <1>1. /\ UNCHANGED <<clientVars, transportVars, wireVars, version>>
        /\ \A b \in Boards : fetches[b] \in Seq(Answered) /\ Len(fetches[b]) \in Nat
                            /\ DOMAIN fetches[b] = 1..Len(fetches[b])
        /\ fetches \in [Boards -> Seq(Answered)] /\ seen \in [Boards -> Versions]
    BY BoardTypes DEF PageInv, TickFires, FetchReads, FetchLands, FetchFails
  <1>2. UNCHANGED <<subscriptions, everOpened, ws, down, version>>
    BY <1>1 DEF clientVars, transportVars, wireVars
  <1>3. (IsOpen' <=> IsOpen) /\ \A m : TellsOf(m)' <=> TellsOf(m)
    BY <1>2 DEF IsOpen, TellsOf
  <1>4. ASSUME NEW b \in subscriptions' \ unsure', NEW m \in Names(b) PROVE OnItsWay(b, m)'
    <2>1. b \in subscriptions /\ b \in Boards /\ m \in Models
      BY <1>2, <1>4 DEF PageInv, TypeOK, Names
    <2>9. ~Refetches(b) => OnItsWay(b, m) /\ ~Overtaken(b)
      BY <1>2, <1>4, SureFacts, Waits
    <2>2. CASE b # c
      <3>1. /\ fetches'[b] = fetches[b] /\ seen'[b] = seen[b] /\ (b \in due => b \in due')
            /\ b \in failed => b \in failed'
        <4>1. CASE TickFires(c)
          BY <1>1, <2>1, <2>2, <4>1 DEF TickFires
        <4>2. ASSUME NEW i, FetchReads(c, i) PROVE <3>1
          BY <1>1, <2>1, <2>2, <4>2 DEF FetchReads
        <4>3. ASSUME NEW i, FetchLands(c, i) PROVE <3>1
          BY <1>1, <2>1, <2>2, <4>3 DEF FetchLands
        <4>4. ASSUME NEW i, FetchFails(c, i) PROVE <3>1
          BY <1>1, <2>1, <2>2, <4>4 DEF FetchFails
        <4> QED BY <4>1, <4>2, <4>3, <4>4
      <3>2. OnItsWay(b, m)
        BY <1>2, <1>4, <2>1, <3>1, StillSure, Waits
      <3> QED BY <1>2, <1>3, <2>1, <3>1, <3>2, StaysOnItsWay
    <2>3. CASE b = c /\ TickFires(c)
      <3>1. fetches'[b] = Append(fetches[b], Asked)
        BY <1>1, <2>3 DEF TickFires
      <3>2. Len(fetches'[b]) = Len(fetches[b]) + 1 /\ fetches'[b][Len(fetches[b]) + 1] = Asked
        BY <1>1, <2>1, <3>1, AppendProperties DEF Answered
      <3>3. fetches'[b] # <<>>
        BY <1>1, <2>1, <3>1, AppendProperties DEF Answered
      <3> QED BY <3>2, <3>3 DEF OnItsWay, Asked
    <2>4. ASSUME NEW i \in DOMAIN fetches[c], b = c, FetchReads(c, i) PROVE OnItsWay(b, m)'
      <3>1. /\ fetches'[b] = [fetches[b] EXCEPT ![i] = {Rows(b)}] /\ i \in 1..Len(fetches[b])
            /\ UNCHANGED <<due, seen, failed>>
        BY <1>1, <2>1, <2>4 DEF FetchReads
      <3>2. Len(fetches'[b]) = Len(fetches[b]) /\ fetches[b] # <<>> /\ fetches'[b] # <<>>
        BY <1>1, <2>1, <3>1, ExceptSeq, EmptySeq
      <3>3. \/ fetches'[b][Len(fetches[b])] = fetches[b][Len(fetches[b])]
            \/ fetches'[b][Len(fetches[b])] = {Rows(b)}
        BY <1>1, <2>1, <3>1
      <3>4. OnItsWay(b, m)
        BY <1>1, <2>1, <2>9, <3>2 DEF Refetches
      <3>5. Rows(b)[m] = version'[m]
        BY <1>2, <1>4, <2>1 DEF Rows
      <3>6. CASE fetches'[b][Len(fetches[b])] = {Rows(b)}
        BY <3>2, <3>5, <3>6 DEF OnItsWay
      <3>7. CASE fetches'[b][Len(fetches[b])] = fetches[b][Len(fetches[b])]
        BY <1>2, <1>3, <2>1, <3>1, <3>2, <3>4, <3>7 DEF OnItsWay
      <3> QED BY <3>3, <3>6, <3>7
    <2>5. ASSUME NEW i \in DOMAIN fetches[c], b = c, FetchLands(c, i) \/ FetchFails(c, i)
          PROVE  OnItsWay(b, m)'
      <3>1. /\ fetches'[b] = RemoveAt(fetches[b], i) /\ due' = due /\ i \in 1..Len(fetches[b])
            /\ fetches[b] # <<>> /\ Len(fetches[b]) >= 1
        BY <1>1, <2>1, <2>5, EmptySeq DEF FetchLands, FetchFails
      <3>8. Len(fetches'[b]) = Len(fetches[b]) - 1
        BY <1>1, <2>1, <2>5, <3>1, RemoveFacts
      <3>9. ~Refetches(b) /\ Len(fetches'[b]) < Len(fetches[b])
        BY <1>1, <2>1, <3>8 DEF Refetches
      <3>10. OnItsWay(b, m) /\ fetches'[b] = Tail(fetches[b])
        BY <2>9, <3>9 DEF Overtaken
      <3>2. CASE b \in due \/ TellsOf(m) \/ (everOpened /\ ~IsOpen)
        BY <1>2, <1>3, <3>1, <3>2 DEF OnItsWay
      <3>3. ASSUME \A rows \in fetches[b][Len(fetches[b])] : rows[m] = version[m], Len(fetches[b]) = 1
            PROVE  OnItsWay(b, m)'
        <4>1. fetches'[b] = <<>>
          <5>1. fetches[b] \in Seq(Answered) /\ fetches[b] # <<>> /\ Len(fetches[b]) = 1
            BY <1>1, <2>1, <3>1, <3>3
          <5>2. Tail(fetches[b]) \in Seq(Answered) /\ Len(Tail(fetches[b])) = 0
            BY <5>1, HeadTailProperties
          <5> QED BY <3>10, <5>2, EmptySeq
        <4>2. CASE FetchLands(c, i)
          <5>0. i = 1
            BY <3>1, <3>3
          <5>1. PICK rows \in fetches[b][1] : seen' = [seen EXCEPT ![b] = rows]
            BY <2>5, <4>2, <5>0 DEF FetchLands
          <5>2. seen'[b][m] = version'[m]
            BY <1>1, <1>2, <2>1, <3>3, <5>1
          <5> QED BY <4>1, <5>2 DEF OnItsWay
        <4>3. CASE FetchFails(c, i)
          BY <2>5, <4>1, <4>3 DEF FetchFails, OnItsWay
        <4> QED BY <2>5, <4>2, <4>3
      <3>4. ASSUME \A rows \in fetches[b][Len(fetches[b])] : rows[m] = version[m], Len(fetches[b]) > 1
            PROVE  OnItsWay(b, m)'
        <4>1. /\ Len(fetches'[b]) = Len(fetches[b]) - 1
              /\ \A j \in 1..(Len(fetches[b]) - 1) : fetches'[b][j] = fetches[b][j + 1]
          BY <1>1, <2>1, <3>1, <3>10, HeadTailProperties, EmptySeq
        <4>2. fetches'[b][Len(fetches'[b])] = fetches[b][Len(fetches[b])]
          <5> DEFINE n == Len(fetches[b])
          <5>1. n \in Nat /\ n > 1
            BY <1>1, <2>1, <3>4
          <5>2. n - 1 \in 1..(n - 1) /\ n - 1 + 1 = n
            BY <5>1
          <5> QED BY <4>1, <5>2
        <4>3. fetches'[b] # <<>>
          BY <1>1, <2>1, <3>4, <4>1, EmptySeq
        <4> QED BY <1>2, <3>4, <4>2, <4>3 DEF OnItsWay
      <3>5. Len(fetches[b]) = 1 \/ Len(fetches[b]) > 1
        <4>1. Len(fetches[b]) \in Nat /\ Len(fetches[b]) >= 1
          BY <1>1, <2>1, <3>1
        <4>2. \A n \in Nat : n >= 1 => n = 1 \/ n > 1
          OBVIOUS
        <4> QED BY <4>1, <4>2
      <3> QED BY <2>1, <3>1, <3>2, <3>3, <3>4, <3>5, <3>10 DEF OnItsWay
    <2> QED BY <2>2, <2>3, <2>4, <2>5
  <1> QED BY <1>4 DEF CatchUpInv, Names

\* Every step keeps what a board waits for on its way to it.
LEMMA StepCatchUp ==
  ASSUME PageInv, CatchUpInv, [Next /\ Records]_<<vars, unsure>>
  PROVE  CatchUpInv'
  <1>0. ASSUME Next, Records PROVE CatchUpInv'
    <2>1. CASE BoardNext
      BY <1>0, <2>1, MountCatchUp, BoardCatchUp DEF BoardNext
    <2>2. CASE Close
      BY <2>2 DEF Close, CatchUpInv
    <2>3. CASE \E m \in Models : Change(m)
      BY <1>0, <2>3, ChangeCatchUp
    <2> QED BY <1>0, <2>1, <2>2, <2>3, ReceiveCatchUp, SocketOpensCatchUp, TransportCatchUp,
               HubCatchUp DEF Next
  <1>4. CASE UNCHANGED <<vars, unsure>>
    <2>1. UNCHANGED <<subscriptions, everOpened, ws, down, version, due, fetches, seen, failed, unsure>>
      BY <1>4 DEF vars, clientVars, transportVars, wireVars, boardVars
    <2> QED BY <2>1 DEF CatchUpInv, Names, OnItsWay, TellsOf, IsOpen
  <1> QED BY <1>0, <1>4

-----------------------------------------------------------------------------
(***************************************************************************)
(* Theorems.                                                               *)
(***************************************************************************)

\* The state stays typed, the counters count the references of the page, and
\* what the hub forwards, or will once it read the frames on the wire, is
\* exactly what a mounted board lists, whatever mounts, unmounts, is lost and
\* reconnects: the counting of createRealtimeClient and its onOpen.
THEOREM HubAlwaysHearsThePage == Spec => [](TypeOK /\ HubHearsThePage)
  <1>1. PageInv => TypeOK /\ HubHearsThePage
    BY DEF PageInv
  <1> QED BY <1>1, InitPage, StepPage, PTL DEF Spec

\* A page at rest shows every change of what it lists: the refetches that
\* events, dropped frames and gaps cause suffice, of every board but one that
\* the code leaves unsure until it refetches again, because a row changed before
\* the hub knew of the board or an answer overtook an older one (realtime.ts
\* subscribe, dynamic-kanban.tsx fetchData).
THEOREM NothingIsEverMissed == HistorySpec => []NothingMissed
  <1>1. HistoryInit => PageInv /\ CatchUpInv
    BY InitPage DEF HistoryInit, Init, CatchUpInv
  <1>2. PageInv /\ CatchUpInv /\ [Next /\ Records]_<<vars, unsure>> => PageInv' /\ CatchUpInv'
    <2> SUFFICES ASSUME PageInv, CatchUpInv, [Next /\ Records]_<<vars, unsure>>
                 PROVE  PageInv' /\ CatchUpInv'
      OBVIOUS
    <2>1. [Next]_vars
      OBVIOUS
    <2> QED BY <2>1, StepPage, StepCatchUp
  <1>3. PageInv /\ CatchUpInv => NothingMissed
    <2> SUFFICES ASSUME PageInv, CatchUpInv, AtRest, NEW b \in subscriptions \ (failed \cup unsure),
                        NEW m \in Names(b)
                 PROVE  seen[b][m] = version[m]
      BY DEF NothingMissed
    <2>1. OnItsWay(b, m) /\ b \in Boards
      BY Waits
    <2>2. ~TellsOf(m)
      BY DEF AtRest, TellsOf
    <2> QED BY <2>1, <2>2 DEF AtRest, OnItsWay
  <1> QED BY <1>1, <1>2, <1>3, PTL DEF HistorySpec

\* When frames were lost, whoever subscribed refetches, a listener without
\* models too as long as the page lists any (resyncAll, onOpen).
THEOREM EveryoneAlwaysHearsOfAGap == Spec => EveryoneHearsOfAGap
  <1> DEFINE Told == \A b \in subscriptions : (Names(b) # {} \/ Counted # {}) => b \in due'
  <1>1. PageInv /\ [Next]_vars => [LostFrames => Told]_vars
    <2> SUFFICES ASSUME PageInv, Next, LostFrames PROVE Told
      OBVIOUS
    <2>1. \A b \in subscriptions : (Names(b) # {} \/ Counted # {}) => b \in Resynced
      <3>1. ASSUME NEW b \in subscriptions, Names(b) # {} PROVE b \in Resynced
        <4>1. PICK m \in Names(b) : TRUE
          BY <3>1
        <4>2. m \in Counted
          BY CountedIsWanted, <4>1
        <4> QED BY <4>1, <4>2 DEF Resynced
      <3>2. ASSUME NEW b \in subscriptions, Names(b) = {}, Counted # {} PROVE b \in Resynced
        BY <3>2 DEF Resynced
      <3> QED BY <3>1, <3>2
    <2>2. /\ down \in Seq(Frames) /\ (timer => ws = "none") /\ Len(down) \in Nat
          /\ \A frame \in Frames : Len(Append(down, frame)) = Len(down) + 1
          /\ down # <<>> => Len(Tail(down)) = Len(down) - 1
          /\ \A type \in {"DATA_EVENT", "DATA_EVENTS_DROPPED"} : \A m \in Models : Frame(type, {m}) \in Frames
      BY LenProperties, AppendProperties, HeadTailProperties, EmptySeq DEF PageInv, TypeOK, Frame, Frames
    <2>3. CASE SocketOpens
      BY <2>1, <2>3 DEF SocketOpens, ResyncedOnOpen, LostFrames, IsOpen
    <2>4. CASE Receive
      BY <2>1, <2>4 DEF Receive, LostFrames, IsOpen, transportVars
    <2>5. CASE BoardNext
      <3>1. ws' = ws /\ down' = down
        BY <2>5 DEF BoardNext, Mount, Unmount, TickFires, FetchReads, FetchLands, FetchFails,
                    transportVars, wireVars
      <3> QED BY <2>2, <3>1 DEF LostFrames
    <2>6. CASE Close \/ TimerFires \/ HubCloses \/ SocketCloses
      BY <2>2, <2>6 DEF LostFrames, Close, TimerFires, HubCloses, SocketCloses, Schedule, wireVars, IsOpen
    <2>7. CASE HubReceives
      <3>1. Frame("DATA_SUBSCRIBED", hub') \in Frames
        BY <2>7, HubReceivesPage DEF PageInv, TypeOK, Frame, Frames
      <3>2. ws' = ws /\ down' \in {down, Append(down, Frame("DATA_SUBSCRIBED", hub'))}
        BY <2>7 DEF HubReceives, transportVars
      <3> QED BY <2>2, <3>1, <3>2 DEF LostFrames
    <2>8. ASSUME NEW m \in Models, Change(m) PROVE Told
      BY <2>2, <2>8 DEF LostFrames, Change, transportVars
    <2> QED BY <2>3, <2>4, <2>5, <2>6, <2>7, <2>8 DEF Next
  <1> QED BY <1>1, InitPage, StepPage, PTL DEF Spec, EveryoneHearsOfAGap

=============================================================================

----------------------- MODULE EmbeddedPaymentProofs -----------------------
(***************************************************************************)
(* Theorems about EmbeddedPayment, for any number of keys, cards, changes  *)
(* of total, repeats and retries, and any kinds of open result.            *)
(***************************************************************************)
EXTENDS PaymentHistory, TLAPS

(* The invariant: the page ------------------------------------------------*)

Statuses ==
  {"idle", "loading", "ready", "rejected", "refused", "fallback"} \cup OutcomePending \cup Settled
Forms == {"none", "creating", "mounted"}
Updates == [total : 0..MaxTotals, live : BOOLEAN]
Pendings == [token : 1..MaxCards, total : 0..MaxTotals]
Answers == {"paid", "failed"} \cup Open

\* TypeOK, of the page and of the service.
PageType ==
  /\ status \in Statuses /\ watch \in {"off", "on", "over"}
  /\ left \in BOOLEAN /\ running \in BOOLEAN /\ enabled \in BOOLEAN
  /\ initial \subseteq Challenges /\ call \subseteq Calls /\ pending \subseteq Pendings
  /\ form \in Forms /\ remount \in {"no", "asked", "sync"}
  /\ updating \subseteq Updates
  /\ applied \in 0..MaxTotals /\ total \in 0..MaxTotals
  /\ attempt \in 0..MaxKeys /\ minted \in 0..MaxKeys /\ cards \in 0..MaxCards

ServiceType ==
  /\ session \in BOOLEAN /\ due \in 0..MaxTotals /\ latest \in 0..MaxKeys
  /\ net \subseteq Requests
  /\ ops \in [Keys -> [st : Results \cup {"none"}, first : Results \cup {"none"},
                       token : 0..MaxCards]]

\* A submit has no key while the card is tokenised, and then that of the
\* session storage.
Keyless(c) == c.stage \in {"update", "collect"} /\ c.key = 0 /\ c.token = 0
Keyed(c) == c.stage \notin {"update", "collect"} /\ c.key \in Keys /\ c.token \in 1..MaxCards

CallInv ==
  /\ \A c, d \in call : c = d
  /\ \A c \in call : Keyless(c) \/ (Keyed(c) /\ c.key = attempt)

\* What goes with each status: no loop runs under a submit, a challenge found
\* by the page load comes before anything else, a challenge left is verified,
\* and a charge that may be retried has its key.
StatusInv ==
  /\ call # {} => Loop(status) = "none"
  /\ watch # "off" => Loop(status) # "none"
  /\ initial # {} => status \in {"idle", "loading"} /\ ~running /\ ~left /\ call = {} /\ pending = {}
  /\ (left \/ status = "challenge") => call = {} /\ pending = {} /\ ~running
  /\ left => status = "verifying"
  /\ (status = "network_error" \/ pending # {}) => attempt # 0

PageInv == PageType /\ CallInv /\ StatusInv

\* The calls and the retries of the next state send no card under another key.
Kept ==
  /\ \A c \in call' : c.token = 0 \/ \E d \in call : d.key = c.key /\ d.token = c.token
  /\ pending' = {} \/ (pending' = pending /\ (pending # {} => attempt' = attempt))

\* The page approves what it has read to be paid.
Honest == status' = "approved" => (status = "approved" \/ View = "paid")

\* What a step of the page does.
PageStep == PageInv' /\ Kept /\ Honest

(* The invariant: the service ---------------------------------------------*)

\* The card t goes, went or may go out under the key k.
Uses(k, t) ==
  \/ \E r \in net : r.key = k /\ r.token = t
  \/ ops[k].token = t
  \/ \E c \in call : c.key = k /\ c.token = t
  \/ attempt = k /\ \E p \in pending : p.token = t

TokenInv ==
  \A j, k \in Keys, t \in 1..MaxCards : Uses(j, t) => t <= cards /\ (Uses(k, t) => j = k)

ChargeInv ==
  /\ ApprovedIsPaid
  /\ \A k \in Keys : ops[k].first = "paid" => ops[k].st = "paid"

PayInv == PageInv /\ ServiceType /\ TokenInv /\ ChargeInv

-----------------------------------------------------------------------------
\* The bounds are numbers.
LEMMA Bounds ==
  /\ MaxKeys \in Nat /\ MaxCards \in Nat /\ MaxTotals \in Nat /\ Repeats \in Nat /\ AutoRetries \in Nat
  /\ 0 \in 0..MaxTotals /\ 0 \in 0..MaxKeys /\ 0 \in 0..MaxCards
  <1>1. MaxKeys \in Nat /\ MaxCards \in Nat /\ MaxTotals \in Nat /\ Repeats \in Nat /\ AutoRetries \in Nat
    BY BoundsAssumption
  <1> QED BY <1>1

\* A status and the loop that goes with it.
LEMMA StatusFacts ==
  ASSUME PageInv, NEW s \in Statuses, SetStatus(s)
  PROVE  status' = s /\ watch' \in {"off", "on", "over"} /\ (watch' # "off" => Loop(s) # "none")
  <1>1. status' = s /\ watch' = IF Loop(s) = Loop(status) THEN watch ELSE IF Loop(s) = "none" THEN "off" ELSE "on"
    BY DEF SetStatus
  <1>2. watch \in {"off", "on", "over"} /\ (watch # "off" => Loop(status) # "none")
    BY DEF PageInv, PageType, StatusInv
  <1> QED BY <1>1, <1>2

\* The loops are those of four statuses.
LEMMA LoopFacts ==
  /\ \A s : s \notin Unknown \cup {"in_review"} => Loop(s) = "none"
  /\ \A s \in Unknown \cup {"in_review"} : Loop(s) # "none"
  /\ Loop("challenge") = "challenge" /\ Loop("verifying") = "verify"
  BY DEF Loop, Unknown

\* What finish makes of a result.
LEMMA FinishFacts ==
  ASSUME PageInv, NEW r \in Answers, NEW f \in Forms, Finish(r, f)
  PROVE  /\ pending' = {} /\ left' = (r = "blind") /\ running' = (r = "action")
         /\ status' \in Settled \cup {"rejected", "challenge", "verifying", "processing"}
         /\ watch' \in {"off", "on", "over"} /\ (watch' # "off" => Loop(status') # "none")
         /\ attempt' \in {0, attempt} /\ (r \notin {"paid", "failed"} => attempt' = attempt)
         /\ form' \in Forms /\ remount' \in {"no", "asked", "sync"}
         /\ status' = "approved" => r = "paid"
         /\ status' = "challenge" <=> r = "challenge"
         /\ status' = "verifying" <=> r = "blind"
         /\ status' = "processing" <=> r = "action"
  <1>0. remount \in {"no", "asked", "sync"}
    BY DEF PageInv, PageType
  <1>1. CASE r = "action"
    <2>1. /\ pending' = {} /\ left' = FALSE /\ running' = TRUE /\ SetStatus("processing")
          /\ form' = f /\ remount' = (IF status \in Settled THEN Asked ELSE remount) /\ attempt' = attempt
      BY <1>1 DEF Finish, RunAction
    <2>2. status' = "processing" /\ watch' \in {"off", "on", "over"} /\ (watch' # "off" => Loop(status') # "none")
      BY <2>1, StatusFacts DEF Statuses, OutcomePending
    <2>3. remount' \in {"no", "asked", "sync"}
      BY <1>0, <2>1 DEF Asked
    <2> QED BY <1>1, <2>1, <2>2, <2>3
  <1>2. CASE r = "blind"
    <2>1. /\ pending' = {} /\ left' = TRUE /\ running' = FALSE /\ SetStatus("verifying")
          /\ form' = f /\ remount' = (IF status \in Settled THEN Asked ELSE remount) /\ attempt' = attempt
      BY <1>2 DEF Finish, VerifyPending
    <2>2. status' = "verifying" /\ watch' \in {"off", "on", "over"} /\ (watch' # "off" => Loop(status') # "none")
      BY <2>1, StatusFacts DEF Statuses, OutcomePending, Unknown
    <2>3. remount' \in {"no", "asked", "sync"}
      BY <1>0, <2>1 DEF Asked
    <2> QED BY <1>2, <2>1, <2>2, <2>3
  <1>3. CASE r \notin {"action", "blind"}
    <2>1. /\ pending' = {} /\ left' = FALSE /\ running' = FALSE /\ SetStatus(Outcome(r))
          /\ attempt' = (IF r \in {"paid", "failed"} THEN 0 ELSE attempt)
          /\ form' = (IF Outcome(r) \in Settled THEN "none" ELSE f)
          /\ remount' \in {Asked, remount}
      BY <1>3 DEF Finish
    <2>2. /\ Outcome(r) \in Settled \cup {"rejected", "challenge"}
          /\ Outcome(r) = "approved" => r = "paid"
          /\ Outcome(r) = "challenge" <=> r = "challenge"
          /\ Outcome(r) \notin {"verifying", "processing"}
      BY <1>3 DEF Outcome, Answers, Open, Settled
    <2>3. Outcome(r) \in Statuses
      BY <2>2 DEF Statuses, OutcomePending, Unknown
    <2>4. status' = Outcome(r) /\ watch' \in {"off", "on", "over"} /\ (watch' # "off" => Loop(status') # "none")
      BY <2>1, <2>3, StatusFacts
    <2>5. remount' \in {"no", "asked", "sync"} /\ form' \in Forms
      BY <1>0, <2>1 DEF Asked, Forms
    <2> QED BY <1>3, <2>1, <2>2, <2>4, <2>5
  <1> QED BY <1>1, <1>2, <1>3

\* After finish, with no submit under way but the one whose action runs.
LEMMA FinishStatus ==
  ASSUME PageInv, NEW r \in Answers, NEW f \in Forms, Finish(r, f),
         initial' = {}, call' = {} \/ r = "action"
  PROVE  StatusInv'
  <1>1. /\ pending' = {} /\ left' = (r = "blind") /\ running' = (r = "action")
        /\ status' \in Settled \cup {"rejected", "challenge", "verifying", "processing"}
        /\ watch' # "off" => Loop(status') # "none"
        /\ status' = "challenge" <=> r = "challenge"
        /\ status' = "verifying" <=> r = "blind"
        /\ status' = "processing" <=> r = "action"
    BY FinishFacts
  <1>2. status' # "network_error"
    BY <1>1 DEF Settled
  <1>3. call' # {} => Loop(status') = "none"
    BY <1>1, LoopFacts DEF Unknown
  <1> QED BY <1>1, <1>2, <1>3 DEF StatusInv

\* The update of the total that syncAmount starts, if any.
LEMMA SyncFromFacts ==
  ASSUME NEW u, u \subseteq Updates, total' \in 0..MaxTotals, SyncFrom(u) PROVE updating' \subseteq Updates
  <1>1. updating' \in {u, {[total |-> total', live |-> TRUE]}}
    BY DEF SyncFrom
  <1>2. [total |-> total', live |-> TRUE] \in Updates
    BY DEF Updates
  <1> QED BY <1>1, <1>2

\* The same of the update that may be under way.
LEMMA SyncFacts ==
  ASSUME PageInv, total' \in 0..MaxTotals, Sync PROVE updating' \subseteq Updates
  <1>1. updating \subseteq Updates
    BY DEF PageInv, PageType
  <1> QED BY <1>1, SyncFromFacts DEF Sync

\* The submit and the update of a form that went away.
LEMMA GoneFacts ==
  ASSUME PageInv, FormGone, attempt' = attempt
  PROVE  /\ call' \subseteq Calls /\ updating' \subseteq Updates /\ CallInv'
         /\ call' = {} <=> call = {}
         /\ \A c \in call' : \E d \in call : d.key = c.key /\ d.token = c.token
  <1>1. call' = {[c EXCEPT !.mine = FALSE] : c \in call} /\ updating' = {[u EXCEPT !.live = FALSE] : u \in updating}
    BY DEF FormGone
  <1>2. call \subseteq Calls /\ updating \subseteq Updates /\ CallInv
    BY DEF PageInv, PageType
  <1>3. \A c \in Calls : /\ [c EXCEPT !.mine = FALSE] \in Calls
                         /\ [c EXCEPT !.mine = FALSE].stage = c.stage
                         /\ [c EXCEPT !.mine = FALSE].key = c.key
                         /\ [c EXCEPT !.mine = FALSE].token = c.token
    BY DEF Calls
  <1>4. \A u \in Updates : [u EXCEPT !.live = FALSE] \in Updates
    BY DEF Updates
  <1>5. \A c \in call' : c \in Calls /\ \E d \in call : /\ c = [d EXCEPT !.mine = FALSE] /\ d.stage = c.stage
                                                       /\ d.key = c.key /\ d.token = c.token
    <2> SUFFICES ASSUME NEW c \in call'
                 PROVE  c \in Calls /\ \E d \in call : /\ c = [d EXCEPT !.mine = FALSE] /\ d.stage = c.stage
                                                      /\ d.key = c.key /\ d.token = c.token
      OBVIOUS
    <2>1. PICK d \in call : c = [d EXCEPT !.mine = FALSE]
      BY <1>1
    <2>2. d \in Calls
      BY <1>2
    <2> QED BY <1>3, <2>1, <2>2
  <1>6. updating' \subseteq Updates
    BY <1>1, <1>2, <1>4
  <1>7. CallInv'
    <2>1. \A c, d \in call' : c = d
      BY <1>2, <1>5 DEF CallInv
    <2>2. \A c \in call' : Keyless(c) \/ (Keyed(c) /\ c.key = attempt)
      BY <1>2, <1>5 DEF CallInv, Keyless, Keyed
    <2> QED BY <2>1, <2>2 DEF CallInv, Keyless, Keyed
  <1>8. call' = {} <=> call = {}
    BY <1>1
  <1> QED BY <1>5, <1>6, <1>7, <1>8

\* What a read of the status may say.
LEMMA ViewFacts ==
  ASSUME ServiceType
  PROVE  /\ View \in Answers \cup {"none"}
         /\ View = "paid" => \E k \in Keys : ops[k].st = "paid"
  <1> USE KindsAssumption
  <1>1. CASE ~session \/ latest = 0
    BY <1>1 DEF View, Answers
  <1>2. CASE session /\ latest # 0
    <2>1. latest \in Keys /\ View = ops[latest].st
      BY <1>2 DEF View, ServiceType, Keys
    <2>2. View \in Results \cup {"none"}
      BY <2>1 DEF ServiceType
    <2> QED BY <2>1, <2>2 DEF Results, Answers, Open
  <1> QED BY <1>1, <1>2 DEF ServiceType

-----------------------------------------------------------------------------
(* The steps of the form.                                                  *)

\* A form mounts.
LEMMA MountStep == ASSUME PageInv, Mount PROVE PageStep
  <1>t. PageType /\ CallInv /\ StatusInv
    BY DEF PageInv
  <1> DEFINE s == IF status \in OutcomePending THEN status ELSE "loading"
  <1>1. /\ form' = "creating" /\ remount' = "no" /\ applied' = total /\ FormGone /\ SetStatus(s)
        /\ UNCHANGED <<left, initial, running, pending, total, enabled, attempt, minted, cards>>
    BY DEF Mount, keyVars
  <1>2. s \in Statuses /\ s # "approved" /\ (s \in Unknown => s = status) /\ s \notin Settled
        /\ (status \in Unknown => s = status) /\ (initial # {} => s \in {"idle", "loading"})
    BY <1>t DEF Statuses, OutcomePending, Unknown, Settled, StatusInv
  <1> HIDE DEF s
  <1>3. status' = s /\ watch' \in {"off", "on", "over"} /\ (watch' # "off" => Loop(s) # "none")
    BY <1>1, <1>2, StatusFacts
  <1>4. /\ call' \subseteq Calls /\ updating' \subseteq Updates /\ CallInv' /\ (call' = {} <=> call = {})
        /\ \A c \in call' : \E d \in call : d.key = c.key /\ d.token = c.token
    BY <1>1, GoneFacts
  <1>5. PageType'
    BY <1>t, <1>1, <1>2, <1>3, <1>4 DEF PageType, Forms
  <1>6. StatusInv'
    <2>1. call # {} => Loop(s) = "none"
      BY <1>t, <1>2, LoopFacts DEF StatusInv, Settled
    <2>2. left => s = "verifying"
      BY <1>t, <1>2 DEF StatusInv, Unknown
    <2>3. (s = "challenge" => status = "challenge") /\ (s = "network_error" => status = "network_error")
      BY <1>2 DEF Unknown
    <2> QED BY <1>t, <1>1, <1>2, <1>3, <1>4, <2>1, <2>2, <2>3 DEF StatusInv
  <1> QED BY <1>1, <1>2, <1>3, <1>4, <1>5, <1>6 DEF PageStep, PageInv, Kept, Honest

\* The form is ready.
LEMMA FormReadyStep == ASSUME PageInv, FormReady PROVE PageStep
  <1>t. PageType /\ CallInv /\ StatusInv
    BY DEF PageInv
  <1>1. initial' = {} /\ Sync /\ UNCHANGED <<call, applied, total, enabled, minted, cards>>
    BY DEF FormReady
  <1>2. updating' \subseteq Updates
    BY <1>t, <1>1, SyncFacts DEF PageType
  <1>3. CASE initial = {}
    <2> DEFINE s == IF status = "loading" THEN "ready" ELSE status
    <2>1. SetStatus(s) /\ form' = "mounted" /\ UNCHANGED <<left, running, pending, remount, attempt>>
      BY <1>3 DEF FormReady
    <2>2. s \in Statuses /\ (s # status => s = "ready" /\ status = "loading")
      BY <1>t DEF PageType, Statuses
    <2> HIDE DEF s
    <2>3. status' = s /\ watch' \in {"off", "on", "over"} /\ (watch' # "off" => Loop(s) # "none")
      BY <2>1, <2>2, StatusFacts
    <2>4. PageType'
      BY <1>t, <1>1, <1>2, <2>1, <2>2, <2>3 DEF PageType, Forms
    <2>5. CallInv'
      BY <1>t, <1>1, <2>1 DEF CallInv, Keyless, Keyed
    <2>6. StatusInv'
      <3>1. call # {} => Loop(s) = "none"
        BY <1>t, <2>2, LoopFacts DEF StatusInv, Unknown
      <3> QED BY <1>t, <1>1, <2>1, <2>2, <2>3, <3>1 DEF StatusInv
    <2> QED BY <1>1, <2>1, <2>2, <2>3, <2>4, <2>5, <2>6 DEF PageStep, PageInv, Kept, Honest
  <1>4. CASE initial # {}
    <2>1. PICK r \in initial : Finish(r, "mounted")
      BY <1>4 DEF FormReady
    <2>2. r \in Answers /\ r \notin {"paid", "failed"} /\ "mounted" \in Forms
      BY <1>t DEF PageType, Challenges, Answers, Open, Forms
    <2>3. call' = {}
      BY <1>t, <1>1, <1>4 DEF StatusInv
    <2>4. StatusInv'
      BY <1>1, <2>1, <2>2, <2>3, FinishStatus
    <2>5. /\ pending' = {} /\ left' = (r = "blind") /\ running' = (r = "action")
          /\ status' \in Settled \cup {"rejected", "challenge", "verifying", "processing"}
          /\ watch' \in {"off", "on", "over"} /\ attempt' = attempt
          /\ form' \in Forms /\ remount' \in {"no", "asked", "sync"} /\ status' # "approved"
      BY <2>1, <2>2, FinishFacts
    <2>6. status' \in Statuses
      BY <2>5 DEF Statuses, OutcomePending, Unknown
    <2>7. PageType'
      BY <1>t, <1>1, <1>2, <2>3, <2>5, <2>6 DEF PageType
    <2> QED BY <2>3, <2>4, <2>5, <2>7 DEF PageStep, PageInv, CallInv, Kept, Honest
  <1> QED BY <1>3, <1>4

\* A form that goes off the page: finish has its way with a challenge that
\* waited, or the status is s.
LEMMA LeaveStep ==
  ASSUME PageInv, FormGone, initial' = {}, applied' = 0, UNCHANGED <<total, minted, cards>>, enabled' \in BOOLEAN,
         NEW s \in Statuses,
         status \in Unknown => s = status,
         s # status => s \in {"idle", "fallback"},
         IF initial # {} THEN \E r \in initial : Finish(r, "none")
         ELSE form' = "none" /\ SetStatus(s) /\ UNCHANGED <<left, running, pending, remount, attempt>>
  PROVE  PageStep
  <1>t. PageType /\ CallInv /\ StatusInv
    BY DEF PageInv
  <1>2. CASE initial = {}
    <2>1. SetStatus(s) /\ form' = "none" /\ UNCHANGED <<left, running, pending, remount, attempt>>
      BY <1>2
    <2>2. status' = s /\ watch' \in {"off", "on", "over"} /\ (watch' # "off" => Loop(s) # "none")
      BY <2>1, StatusFacts
    <2>3. /\ call' \subseteq Calls /\ updating' \subseteq Updates /\ CallInv' /\ (call' = {} <=> call = {})
          /\ \A c \in call' : \E d \in call : d.key = c.key /\ d.token = c.token
      BY <2>1, GoneFacts
    <2>4. PageType'
      BY <1>t, <2>1, <2>2, <2>3, Bounds DEF PageType, Forms
    <2>5. StatusInv'
      <3>1. call # {} => Loop(s) = "none"
        BY <1>t, LoopFacts DEF StatusInv, Unknown
      <3>2. left => s = "verifying"
        BY <1>t DEF StatusInv, Unknown
      <3> QED BY <1>t, <2>1, <2>2, <2>3, <3>1, <3>2 DEF StatusInv
    <2> QED BY <2>1, <2>2, <2>3, <2>4, <2>5 DEF PageStep, PageInv, Kept, Honest
  <1>3. CASE initial # {}
    <2>1. PICK r \in initial : Finish(r, "none")
      BY <1>3
    <2>2. r \in Answers /\ r \notin {"paid", "failed"} /\ "none" \in Forms
      BY <1>t DEF PageType, Challenges, Answers, Open, Forms
    <2>5. /\ pending' = {} /\ left' = (r = "blind") /\ running' = (r = "action")
          /\ status' \in Settled \cup {"rejected", "challenge", "verifying", "processing"}
          /\ watch' \in {"off", "on", "over"} /\ attempt' = attempt
          /\ form' \in Forms /\ remount' \in {"no", "asked", "sync"} /\ status' # "approved"
      BY <2>1, <2>2, FinishFacts
    <2>3. call' = {} /\ updating' \subseteq Updates
      BY <1>t, <1>3, <2>5, GoneFacts DEF StatusInv
    <2>4. StatusInv'
      BY <2>1, <2>2, <2>3, FinishStatus
    <2>6. status' \in Statuses
      BY <2>5 DEF Statuses, OutcomePending, Unknown
    <2>7. PageType'
      BY <1>t, <2>3, <2>5, <2>6, Bounds DEF PageType
    <2> QED BY <2>3, <2>4, <2>5, <2>7 DEF PageStep, PageInv, CallInv, Kept, Honest
  <1> QED BY <1>2, <1>3

\* The form breaks, or another way to pay is picked.
LEMMA FormFailsStep == ASSUME PageInv, FormFails PROVE PageStep
  <1> DEFINE s == IF running \/ status \in Unknown THEN status ELSE "fallback"
  <1>1. PageType
    BY DEF PageInv
  <1>2. /\ s \in Statuses /\ (status \in Unknown => s = status) /\ (s # status => s \in {"idle", "fallback"})
    BY <1>1 DEF PageType, Statuses
  <1>3. /\ FormGone /\ initial' = {} /\ applied' = 0 /\ UNCHANGED <<total, minted, cards>> /\ enabled' \in BOOLEAN
        /\ IF initial # {} THEN \E r \in initial : Finish(r, "none")
           ELSE form' = "none" /\ SetStatus(s) /\ UNCHANGED <<left, running, pending, remount, attempt>>
    BY <1>1 DEF FormFails, PageType
  <1> HIDE DEF s
  <1> QED BY <1>2, <1>3, LeaveStep

\* Another way to pay takes the form away and leaves an unknown outcome alone.
LEMMA DisableStep == ASSUME PageInv, Disable PROVE PageStep
  <1> DEFINE s == IF status \in {"loading", "ready"} THEN "idle" ELSE status
  <1>1. PageType
    BY DEF PageInv
  <1>2. /\ s \in Statuses /\ (status \in Unknown => s = status) /\ (s # status => s \in {"idle", "fallback"})
    BY <1>1 DEF PageType, Statuses, Unknown
  <1>3. /\ FormGone /\ initial' = {} /\ applied' = 0 /\ UNCHANGED <<total, minted, cards>> /\ enabled' \in BOOLEAN
        /\ IF initial # {} THEN \E r \in initial : Finish(r, "none")
           ELSE form' = "none" /\ SetStatus(s) /\ UNCHANGED <<left, running, pending, remount, attempt>>
    BY <1>1 DEF Disable, PageType
  <1> HIDE DEF s
  <1> QED BY <1>2, <1>3, LeaveStep

\* The card is picked again; the page learns the total.
LEMMA EnableStep == ASSUME PageInv, Enable PROVE PageStep
  <1>t. PageType /\ CallInv /\ StatusInv
    BY DEF PageInv
  <1>1. /\ enabled' = TRUE /\ remount' = Asked
        /\ UNCHANGED <<status, watch, left, initial, running, pending, call, form, updating, applied, total,
                       attempt, minted, cards>>
    BY DEF Enable, pageVars, keyVars
  <1>2. remount' \in {"no", "asked", "sync"}
    BY <1>t, <1>1 DEF Asked, PageType
  <1>3. PageType'
    BY <1>t, <1>1, <1>2 DEF PageType
  <1>4. CallInv' /\ StatusInv'
    BY <1>t, <1>1 DEF CallInv, Keyless, Keyed, StatusInv
  <1> QED BY <1>1, <1>3, <1>4 DEF PageStep, PageInv, Kept, Honest

\* A new total reaches the form, and the charge that is out keeps its own.
LEMMA LearnTotalStep == ASSUME PageInv, ServiceType, LearnTotal PROVE PageStep
  <1>t. PageType /\ CallInv /\ StatusInv
    BY DEF PageInv
  <1>1. /\ total' = due /\ Sync
        /\ UNCHANGED <<status, watch, left, initial, running, pending, call, form, remount, applied, enabled,
                       attempt, minted, cards>>
    BY DEF LearnTotal, pageVars, keyVars
  <1>2. total' \in 0..MaxTotals
    BY <1>1 DEF ServiceType
  <1>3. updating' \subseteq Updates
    BY <1>1, <1>2, SyncFacts
  <1>4. PageType'
    BY <1>t, <1>1, <1>2, <1>3 DEF PageType
  <1>5. CallInv' /\ StatusInv'
    BY <1>t, <1>1 DEF CallInv, Keyless, Keyed, StatusInv
  <1> QED BY <1>1, <1>4, <1>5 DEF PageStep, PageInv, Kept, Honest

\* A total on its way into the form wakes a submit that waits for it.
LEMMA WokenFacts ==
  ASSUME PageInv, Woken, attempt' = attempt
  PROVE  /\ status' \in {status, "processing"} /\ watch' \in {"off", "on", "over"}
         /\ watch' # "off" => Loop(status') # "none"
         /\ call' \subseteq Calls /\ CallInv' /\ (call' = {} <=> call = {})
         /\ \A c \in call' : \E d \in call : d.key = c.key /\ d.token = c.token
         /\ status' # status => call # {}
  <1>t. PageType /\ CallInv /\ StatusInv
    BY DEF PageInv
  <1>1. CASE \E c \in call : c.stage = "update"
    <2>1. PICK c \in call : c.stage = "update"
      BY <1>1
    <2>2. call' = {[d EXCEPT !.stage = "collect"] : d \in call} /\ SetStatus("processing")
      BY <1>1 DEF Woken
    <2>3. PICK n : n = [c EXCEPT !.stage = "collect"]
      OBVIOUS
    <2>4. call = {c} /\ c \in Calls /\ Keyless(c)
      BY <1>t, <2>1 DEF PageType, CallInv, Keyed
    <2>5. call' = {n}
      BY <2>2, <2>3, <2>4
    <2>6. n \in Calls /\ n.stage = "collect" /\ n.key = c.key /\ n.token = c.token
      BY <2>3, <2>4 DEF Calls, Stages
    <2>7. "processing" \in Statuses
      BY DEF Statuses, OutcomePending
    <2>8. status' = "processing" /\ watch' \in {"off", "on", "over"} /\ (watch' # "off" => Loop(status') # "none")
      BY <2>2, <2>7, StatusFacts
    <2>9. CallInv'
      BY <2>4, <2>5, <2>6 DEF CallInv, Keyless
    <2> QED BY <2>4, <2>5, <2>6, <2>8, <2>9
  <1>2. CASE ~\E c \in call : c.stage = "update"
    <2>1. UNCHANGED <<call, status, watch>>
      BY <1>2 DEF Woken
    <2> QED BY <1>t, <2>1 DEF PageType, CallInv, StatusInv, Keyless, Keyed
  <1> QED BY <1>1, <1>2

\* The update of the form's total resolves or fails.
LEMMA UpdateStep == ASSUME PageInv, UpdateDone \/ UpdateFails PROVE PageStep
  <1>t. PageType /\ CallInv /\ StatusInv
    BY DEF PageInv
  <1>1. UNCHANGED <<left, initial, running, pending, form, total, enabled, attempt, minted, cards>>
    BY DEF UpdateDone, UpdateFails, keyVars
  <1>2. \/ Woken
        \/ UNCHANGED <<call, status, watch>>
    BY DEF UpdateDone, UpdateFails
  <1>3. /\ status' \in {status, "processing"} /\ watch' \in {"off", "on", "over"}
        /\ watch' # "off" => Loop(status') # "none"
        /\ call' \subseteq Calls /\ CallInv' /\ (call' = {} <=> call = {})
        /\ \A c \in call' : \E d \in call : d.key = c.key /\ d.token = c.token
        /\ status' # status => call # {}
    <2>1. CASE Woken
      BY <1>1, <2>1, WokenFacts
    <2>2. CASE UNCHANGED <<call, status, watch>>
      BY <1>t, <1>1, <2>2 DEF PageType, CallInv, StatusInv, Keyless, Keyed
    <2> QED BY <1>2, <2>1, <2>2
  <1>4. applied' \in 0..MaxTotals /\ updating' \subseteq Updates /\ remount' \in {"no", "asked", "sync"}
    <2>1. CASE UpdateDone
      <3>1. PICK u \in updating :
                /\ applied' = (IF form = "creating" THEN applied ELSE u.total)
                /\ updating' = {[u EXCEPT !.total = total]} \/ SyncFrom({})
                /\ remount' = remount /\ total' = total
        BY <2>1 DEF UpdateDone
      <3>2. u \in Updates /\ u.total \in 0..MaxTotals
        BY <1>t DEF PageType, Updates
      <3>3. [u EXCEPT !.total = total] \in Updates
        BY <1>t, <3>2 DEF PageType, Updates
      <3>4. updating' \subseteq Updates
        BY <1>t, <3>1, <3>3, SyncFromFacts DEF PageType
      <3> QED BY <1>t, <3>1, <3>2, <3>4 DEF PageType
    <2>2. CASE UpdateFails
      <3>1. updating' \subseteq Updates
        BY <1>t, <1>1, <2>2, SyncFromFacts DEF UpdateFails, PageType
      <3> QED BY <1>t, <2>2, <3>1 DEF UpdateFails, PageType
    <2> QED BY <2>1, <2>2
  <1>5. status' \in Statuses
    BY <1>t, <1>3 DEF PageType, Statuses, OutcomePending
  <1>6. PageType'
    BY <1>t, <1>1, <1>3, <1>4, <1>5 DEF PageType
  <1>7. StatusInv'
    <2>1. call' # {} => Loop(status') = "none"
      BY <1>t, <1>3, LoopFacts DEF StatusInv, Unknown
    <2>2. initial = {} \/ status' = status
      BY <1>t, <1>3 DEF StatusInv
    <2>3. left => status' = status
      BY <1>t, <1>3 DEF StatusInv
    <2> QED BY <1>t, <1>1, <1>3, <2>1, <2>2, <2>3 DEF StatusInv
  <1>8. Kept /\ Honest
    BY <1>1, <1>3 DEF Kept, Honest
  <1> QED BY <1>3, <1>6, <1>7, <1>8 DEF PageStep, PageInv

-----------------------------------------------------------------------------
(* The steps of a submit.                                                  *)

\* PAY is pressed.
LEMMA SubmitStep == ASSUME PageInv, Submit PROVE PageStep
  <1>t. PageType /\ CallInv /\ StatusInv
    BY DEF PageInv
  <1>1. /\ call = {} /\ initial = {} /\ ~running /\ status = "ready"
        /\ UNCHANGED <<left, initial, running, pending, form, remount, updating, applied, total, enabled,
                       attempt, minted, cards>>
        /\ \/ call' = {NewCall("collect")} /\ SetStatus("processing")
           \/ call' = {NewCall("update")} /\ UNCHANGED <<status, watch>>
    BY DEF Submit, formVars, keyVars
  <1>2. status' \in {"processing", "ready"} /\ watch' \in {"off", "on", "over"}
        /\ (watch' # "off" => Loop(status') # "none")
    <2>1. "processing" \in Statuses
      BY DEF Statuses, OutcomePending
    <2>2. CASE SetStatus("processing")
      BY <2>1, <2>2, StatusFacts
    <2>3. CASE UNCHANGED <<status, watch>>
      BY <1>t, <1>1, <2>3 DEF PageType, StatusInv
    <2> QED BY <1>1, <2>2, <2>3
  <1>3. PICK n : n \in {NewCall("collect"), NewCall("update")} /\ call' = {n}
    BY <1>1
  <1>4. n \in Calls /\ Keyless(n)
    <2>1. \A g \in {"collect", "update"} : NewCall(g) \in Calls /\ Keyless(NewCall(g))
      BY <1>t, Bounds DEF PageType, NewCall, Calls, Stages, Keyless
    <2> QED BY <1>3, <2>1
  <1>5. CallInv' /\ call' \subseteq Calls /\ call' # {}
    BY <1>3, <1>4 DEF CallInv, Keyless
  <1>6. PageType'
    <2>1. status' \in Statuses
      BY <1>2 DEF Statuses, OutcomePending
    <2> QED BY <1>t, <1>1, <1>2, <1>5, <2>1 DEF PageType
  <1>7. StatusInv'
    BY <1>t, <1>1, <1>2, <1>5, LoopFacts DEF StatusInv, Unknown
  <1>8. Kept /\ Honest
    BY <1>1, <1>2, <1>3, <1>4 DEF Kept, Honest, Keyless
  <1> QED BY <1>5, <1>6, <1>7, <1>8 DEF PageStep, PageInv

\* A charge leaves.
LEMMA SentFacts ==
  ASSUME NEW c \in Calls, c.key \in Keys, c.token \in 1..MaxCards, net \subseteq Requests, Sent(c)
  PROVE  /\ \E n \in Calls : call' = {n} /\ n.stage = "send" /\ n.key = c.key /\ n.token = c.token
         /\ net' \subseteq Requests
         /\ \A r \in net' : r \in net \/ (r.key = c.key /\ r.token = c.token)
  <1>1. PICK n : n = [c EXCEPT !.stage = "send"]
    OBVIOUS
  <1>2. n \in Calls /\ n.stage = "send" /\ n.key = c.key /\ n.token = c.token
    BY <1>1 DEF Calls, Stages
  <1>3. call' = {n}
    BY <1>1 DEF Sent
  <1>4. PICK q : q = [key |-> c.key, token |-> c.token, total |-> c.total]
    OBVIOUS
  <1>5. q \in Requests /\ q.key = c.key /\ q.token = c.token
    BY <1>4 DEF Requests, Calls
  <1>6. net' = net \cup {q}
    BY <1>4 DEF Sent
  <1> QED BY <1>2, <1>3, <1>5, <1>6

\* A page whose submit is the only thing that moves, under a key it holds.
LEMMA CallStepFacts ==
  ASSUME PageInv, NEW n \in Calls, call' = {n}, Keyed(n), n.key = attempt',
         attempt' \in 0..MaxKeys, minted' \in 0..MaxKeys, cards' \in 0..MaxCards,
         UNCHANGED <<left, initial, running, pending, form, remount, updating, applied, total, enabled>>,
         initial = {}, ~left,
         status' \in Statuses, watch' \in {"off", "on", "over"}, watch' # "off" => Loop(status') # "none",
         Loop(status') = "none"
  PROVE  PageInv'
  <1>t. PageType /\ CallInv /\ StatusInv
    BY DEF PageInv
  <1>1. PageType'
    BY <1>t DEF PageType
  <1>2. CallInv'
    BY DEF CallInv, Keyed
  <1>3. attempt' # 0
    BY DEF Keyed, Keys
  <1>4. status' \notin Unknown
    BY LoopFacts
  <1>5. StatusInv'
    BY <1>t, <1>3, <1>4 DEF StatusInv, Unknown
  <1> QED BY <1>1, <1>2, <1>5 DEF PageInv

\* What a submit under way says of the page.
LEMMA UnderWay ==
  ASSUME PageInv, NEW c \in call
  PROVE  /\ c \in Calls /\ call = {c} /\ initial = {} /\ ~left
         /\ Loop(status) = "none" /\ status \notin Unknown
         /\ Keyless(c) \/ (Keyed(c) /\ c.key = attempt)
  <1>1. PageType /\ CallInv /\ StatusInv
    BY DEF PageInv
  <1>2. c \in Calls /\ call = {c} /\ (Keyless(c) \/ (Keyed(c) /\ c.key = attempt))
    BY <1>1 DEF PageType, CallInv
  <1>3. initial = {} /\ ~left /\ Loop(status) = "none"
    BY <1>1, <1>2 DEF StatusInv
  <1>4. status \notin Unknown
    BY <1>3, LoopFacts
  <1> QED BY <1>2, <1>3, <1>4

\* The key of the attempt, or the next one.
LEMMA AttemptFacts ==
  ASSUME PageInv, ReadAttempt \in Keys,
         attempt' = ReadAttempt, minted' = IF ReadAttempt > minted THEN ReadAttempt ELSE minted
  PROVE  attempt' \in Keys /\ attempt' \in 0..MaxKeys /\ minted' \in 0..MaxKeys
         /\ (attempt # 0 => attempt' = attempt)
  BY DEF PageInv, PageType, ReadAttempt, Keys

\* The card is tokenised: its token is new.
LEMMA CollectedStep ==
  ASSUME PageInv, ServiceType, Collected
  PROVE  /\ PageInv' /\ Honest /\ net' \subseteq Requests
         /\ cards' = cards + 1 /\ attempt' \in Keys
         /\ \A c \in call' : c.key = attempt' /\ c.token = cards'
         /\ \A r \in net' : r \in net \/ (r.key = attempt' /\ r.token = cards')
         /\ pending' = pending /\ (pending # {} => attempt' = attempt)
  <1>t. PageType /\ CallInv /\ StatusInv
    BY DEF PageInv
  <1>1. PICK c \in call :
          /\ c.stage = "collect" /\ cards < MaxCards /\ ReadAttempt \in Keys
          /\ cards' = cards + 1 /\ attempt' = ReadAttempt
          /\ minted' = IF ReadAttempt > minted THEN ReadAttempt ELSE minted
          /\ Sent([c EXCEPT !.key = ReadAttempt, !.token = cards + 1])
          /\ UNCHANGED <<status, watch, left, initial, running, pending, form, remount, updating, applied,
                         total, enabled>>
    BY DEF Collected, formVars
  <1>2. /\ c \in Calls /\ initial = {} /\ ~left /\ Loop(status) = "none"
    BY UnderWay
  <1>3. attempt' \in Keys /\ attempt' \in 0..MaxKeys /\ minted' \in 0..MaxKeys /\ (attempt # 0 => attempt' = attempt)
    BY <1>1, AttemptFacts
  <1>4. cards' \in 0..MaxCards /\ cards' \in 1..MaxCards
    BY <1>t, <1>1, Bounds DEF PageType
  <1>5. PICK k : k = ReadAttempt
    OBVIOUS
  <1>6. PICK d : d = [c EXCEPT !.key = k, !.token = cards + 1]
    OBVIOUS
  <1>7. d \in Calls /\ d.key = attempt' /\ d.token = cards'
    <2>1. k \in 0..MaxKeys /\ cards + 1 \in 0..MaxCards
      BY <1>1, <1>3, <1>4, <1>5
    <2> QED BY <1>1, <1>2, <1>5, <1>6, <2>1 DEF Calls
  <1>8. Sent(d)
    BY <1>1, <1>5, <1>6
  <1>9. net \subseteq Requests
    BY DEF ServiceType
  <1>10. /\ \E n \in Calls : call' = {n} /\ n.stage = "send" /\ n.key = d.key /\ n.token = d.token
         /\ net' \subseteq Requests
         /\ \A r \in net' : r \in net \/ (r.key = d.key /\ r.token = d.token)
    BY <1>3, <1>4, <1>7, <1>8, <1>9, SentFacts
  <1>11. PICK n \in Calls : call' = {n} /\ n.stage = "send" /\ n.key = attempt' /\ n.token = cards'
    BY <1>7, <1>10
  <1>12. Keyed(n)
    BY <1>3, <1>4, <1>11 DEF Keyed
  <1>13. PageInv'
    <2>1. /\ UNCHANGED <<left, initial, running, pending, form, remount, updating, applied, total, enabled>>
          /\ status' \in Statuses /\ watch' \in {"off", "on", "over"} /\ (watch' # "off" => Loop(status') # "none")
          /\ Loop(status') = "none"
      BY <1>t, <1>1, <1>2 DEF PageType, StatusInv
    <2> QED BY <1>2, <1>3, <1>4, <1>11, <1>12, <2>1, CallStepFacts
  <1>14. pending' = pending /\ (pending # {} => attempt' = attempt) /\ Honest
    BY <1>t, <1>1, <1>3 DEF StatusInv, Honest
  <1> QED BY <1>1, <1>3, <1>7, <1>10, <1>11, <1>13, <1>14

\* Nothing was tokenised, and nothing sent.
LEMMA NotCollectedStep == ASSUME PageInv, NotCollected PROVE PageStep
  <1>t. PageType /\ CallInv /\ StatusInv
    BY DEF PageInv
  <1>1. PICK c \in call :
          /\ SetStatus(IF c.mine THEN "ready" ELSE IF status = "processing" THEN "idle" ELSE status)
          /\ call' = {} /\ Sync
          /\ UNCHANGED <<left, initial, running, pending, form, remount, applied, total, enabled,
                         attempt, minted, cards>>
    BY DEF NotCollected, keyVars
  <1>2. initial = {} /\ ~left /\ status \notin Unknown
    BY UnderWay
  <1>3. PICK s : s = IF c.mine THEN "ready" ELSE IF status = "processing" THEN "idle" ELSE status
    OBVIOUS
  <1>4. s \in Statuses /\ s \in {"ready", "idle", status}
    BY <1>t, <1>3 DEF PageType, Statuses
  <1>5. status' = s /\ watch' \in {"off", "on", "over"} /\ (watch' # "off" => Loop(status') # "none")
    BY <1>1, <1>3, <1>4, StatusFacts
  <1>6. PageType'
    <2>1. updating' \subseteq Updates
      BY <1>t, <1>1, SyncFacts DEF PageType
    <2> QED BY <1>t, <1>1, <1>4, <1>5, <2>1 DEF PageType
  <1>7. CallInv'
    BY <1>1 DEF CallInv
  <1>8. StatusInv'
    BY <1>t, <1>1, <1>2, <1>4, <1>5 DEF StatusInv, Unknown
  <1>9. Kept /\ Honest
    BY <1>1, <1>4, <1>5 DEF Kept, Honest
  <1> QED BY <1>6, <1>7, <1>8, <1>9 DEF PageStep, PageInv

\* retry(): the same card under the key of the attempt.
LEMMA RetryStep ==
  ASSUME PageInv, ServiceType, Retry
  PROVE  /\ PageInv' /\ Honest /\ net' \subseteq Requests /\ cards' = cards
         /\ attempt' = attempt /\ pending' = pending
         /\ \E p \in pending : /\ \A c \in call' : c.key = attempt /\ c.token = p.token
                               /\ \A r \in net' : r \in net \/ (r.key = attempt /\ r.token = p.token)
  <1>t. PageType /\ CallInv /\ StatusInv
    BY DEF PageInv
  <1>1. PICK p \in pending :
          /\ call = {} /\ ReadAttempt \in Keys /\ SetStatus("processing")
          /\ attempt' = ReadAttempt
          /\ minted' = IF ReadAttempt > minted THEN ReadAttempt ELSE minted
          /\ Sent([NewCall("send") EXCEPT !.key = ReadAttempt, !.token = p.token, !.total = p.total])
          /\ UNCHANGED <<left, initial, running, pending, form, remount, updating, applied, total, enabled, cards>>
    BY DEF Retry, formVars
  <1>2. attempt' \in Keys /\ attempt' \in 0..MaxKeys /\ minted' \in 0..MaxKeys /\ attempt' = attempt
    BY <1>t, <1>1, AttemptFacts DEF StatusInv
  <1>3. p.token \in 1..MaxCards /\ p.token \in 0..MaxCards /\ p.total \in 0..MaxTotals
    BY <1>t, <1>1, Bounds DEF PageType, Pendings
  <1>4. PICK k : k = ReadAttempt
    OBVIOUS
  <1>5. PICK e : e = NewCall("send")
    OBVIOUS
  <1>6. PICK d : d = [e EXCEPT !.key = k, !.token = p.token, !.total = p.total]
    OBVIOUS
  <1>7. e \in Calls
    BY <1>t, <1>5, Bounds DEF PageType, NewCall, Calls, Stages
  <1>8. d \in Calls /\ d.key = attempt' /\ d.token = p.token
    BY <1>1, <1>2, <1>3, <1>4, <1>6, <1>7 DEF Calls
  <1>9. Sent(d)
    BY <1>1, <1>4, <1>5, <1>6
  <1>10. net \subseteq Requests
    BY DEF ServiceType
  <1>11. /\ \E n \in Calls : call' = {n} /\ n.stage = "send" /\ n.key = d.key /\ n.token = d.token
         /\ net' \subseteq Requests
         /\ \A r \in net' : r \in net \/ (r.key = d.key /\ r.token = d.token)
    BY <1>2, <1>3, <1>8, <1>9, <1>10, SentFacts
  <1>12. PICK n \in Calls : call' = {n} /\ n.stage = "send" /\ n.key = attempt' /\ n.token = p.token
    BY <1>8, <1>11
  <1>13. Keyed(n)
    BY <1>2, <1>3, <1>12 DEF Keyed
  <1>14. "processing" \in Statuses /\ Loop("processing") = "none"
    BY LoopFacts DEF Statuses, OutcomePending, Unknown
  <1>15. status' = "processing" /\ watch' \in {"off", "on", "over"} /\ (watch' # "off" => Loop(status') # "none")
    BY <1>1, <1>14, StatusFacts
  <1>16. PageInv'
    <2>1. initial = {} /\ ~left /\ cards' \in 0..MaxCards
      BY <1>t, <1>1 DEF StatusInv, PageType
    <2>2. UNCHANGED <<left, initial, running, pending, form, remount, updating, applied, total, enabled>>
      BY <1>1
    <2> QED BY <1>2, <1>12, <1>13, <1>14, <1>15, <2>1, <2>2, CallStepFacts
  <1>17. \E q \in pending : /\ \A c \in call' : c.key = attempt /\ c.token = q.token
                           /\ \A r \in net' : r \in net \/ (r.key = attempt /\ r.token = q.token)
    BY <1>1, <1>2, <1>8, <1>11, <1>12
  <1> QED BY <1>1, <1>2, <1>11, <1>15, <1>16, <1>17 DEF Honest

\* A request without an answer, of a submit that holds a key.
LEMMA NoAnswerStep ==
  ASSUME PageInv, NEW c \in call, c.stage = "send", NEW why \in {"transient", "in_progress"}, NoAnswer(c, why)
  PROVE  PageStep
  <1>t. PageType /\ CallInv /\ StatusInv
    BY DEF PageInv
  <1>1. /\ call' = {[c EXCEPT !.stage = IF c.tries < Repeats THEN "backoff" ELSE "read", !.last = why]}
        /\ UNCHANGED <<status, watch, left, initial, running, pending, form, remount, updating, applied,
                       total, enabled, attempt, minted, cards>>
    BY DEF NoAnswer, formVars, keyVars
  <1>2. c \in Calls /\ call = {c} /\ initial = {} /\ ~left /\ Loop(status) = "none" /\ Keyed(c) /\ c.key = attempt
    BY UnderWay DEF Keyless
  <1>3. PICK g : g = IF c.tries < Repeats THEN "backoff" ELSE "read"
    OBVIOUS
  <1>4. PICK n : n = [c EXCEPT !.stage = g, !.last = why]
    OBVIOUS
  <1>5. g \in {"backoff", "read"} /\ call' = {n}
    BY <1>1, <1>3, <1>4
  <1>6. n \in Calls /\ n.key = c.key /\ n.token = c.token /\ n.stage = g
    BY <1>2, <1>4, <1>5 DEF Calls, Stages
  <1>7. Keyed(n)
    BY <1>2, <1>5, <1>6 DEF Keyed
  <1>8. PageInv'
    <2>1. /\ UNCHANGED <<left, initial, running, pending, form, remount, updating, applied, total, enabled>>
          /\ status' \in Statuses /\ watch' \in {"off", "on", "over"} /\ (watch' # "off" => Loop(status') # "none")
          /\ Loop(status') = "none" /\ n.key = attempt'
          /\ attempt' \in 0..MaxKeys /\ minted' \in 0..MaxKeys /\ cards' \in 0..MaxCards
      BY <1>t, <1>1, <1>2, <1>6 DEF PageType, StatusInv
    <2> QED BY <1>2, <1>5, <1>6, <1>7, <2>1, CallStepFacts
  <1>9. Kept /\ Honest
    BY <1>1, <1>2, <1>5, <1>6 DEF Kept, Honest
  <1> QED BY <1>8, <1>9 DEF PageStep

\* A repeat of the request, by the transport or by the hook.
LEMMA AgainStep ==
  ASSUME PageInv, ServiceType, NEW c \in call, NEW d \in Calls, Keyed(c), d.key = c.key, d.token = c.token, Sent(d),
         UNCHANGED <<status, watch, left, initial, running, pending, formVars, keyVars>>
  PROVE  /\ PageStep /\ net' \subseteq Requests
         /\ \A r \in net' : r \in net \/ (r.key = c.key /\ r.token = c.token)
  <1>t. PageType /\ CallInv /\ StatusInv
    BY DEF PageInv
  <1>1. UNCHANGED <<status, watch, left, initial, running, pending, form, remount, updating, applied,
                    total, enabled, attempt, minted, cards>>
    BY DEF formVars, keyVars
  <1>2. call = {c} /\ initial = {} /\ ~left /\ Loop(status) = "none" /\ c.key = attempt /\ c.key \in Keys
        /\ c.token \in 1..MaxCards
    BY UnderWay DEF Keyless, Keyed
  <1>3. net \subseteq Requests
    BY DEF ServiceType
  <1>4. /\ \E n \in Calls : call' = {n} /\ n.stage = "send" /\ n.key = d.key /\ n.token = d.token
        /\ net' \subseteq Requests
        /\ \A r \in net' : r \in net \/ (r.key = d.key /\ r.token = d.token)
    BY <1>2, <1>3, SentFacts
  <1>5. PICK n \in Calls : call' = {n} /\ n.stage = "send" /\ n.key = c.key /\ n.token = c.token
    BY <1>4
  <1>6. Keyed(n)
    BY <1>2, <1>5 DEF Keyed
  <1>7. PageInv'
    <2>1. /\ UNCHANGED <<left, initial, running, pending, form, remount, updating, applied, total, enabled>>
          /\ status' \in Statuses /\ watch' \in {"off", "on", "over"} /\ (watch' # "off" => Loop(status') # "none")
          /\ Loop(status') = "none" /\ n.key = attempt'
          /\ attempt' \in 0..MaxKeys /\ minted' \in 0..MaxKeys /\ cards' \in 0..MaxCards
      BY <1>t, <1>1, <1>2, <1>5 DEF PageType, StatusInv
    <2> QED BY <1>2, <1>5, <1>6, <2>1, CallStepFacts
  <1>8. Kept /\ Honest
    BY <1>1, <1>5 DEF Kept, Honest
  <1> QED BY <1>4, <1>7, <1>8 DEF PageStep

\* A result ends the submit, or runs its action.
LEMMA EndsStep ==
  ASSUME PageInv, NEW c \in call, NEW r \in Answers, Ends(r), r = "action" => Keyed(c)
  PROVE  PageInv' /\ Kept /\ (status' = "approved" => r = "paid")
  <1>t. PageType /\ CallInv /\ StatusInv
    BY DEF PageInv
  <1>1. c \in Calls /\ call = {c} /\ initial = {} /\ (Keyed(c) => c.key = attempt)
    BY UnderWay DEF Keyless, Keyed
  <1>2. /\ Finish(r, form) /\ form \in Forms
        /\ call' = (IF r = "action" THEN {[c EXCEPT !.stage = "action"]} ELSE {})
        /\ UNCHANGED <<initial, applied, total, enabled, minted, cards>> /\ Sync
    <2>1. PICK d \in call :
            /\ Finish(r, form) /\ call' = (IF r = "action" THEN {[d EXCEPT !.stage = "action"]} ELSE {})
            /\ UNCHANGED <<initial, applied, total, enabled, minted, cards>> /\ Sync
      BY DEF Ends
    <2>2. d = c
      BY <1>1, <2>1
    <2> QED BY <1>t, <2>1, <2>2 DEF PageType
  <1>3. PICK n : n = [c EXCEPT !.stage = "action"]
    OBVIOUS
  <1>4. n \in Calls /\ n.stage = "action" /\ n.key = c.key /\ n.token = c.token
    BY <1>1, <1>3 DEF Calls, Stages
  <1>5. Keyed(c) => Keyed(n)
    BY <1>4 DEF Keyed
  <1>6. call' = {} \/ (r = "action" /\ call' = {n})
    BY <1>2, <1>3
  <1>7. /\ pending' = {} /\ left' = (r = "blind") /\ running' = (r = "action")
        /\ status' \in Settled \cup {"rejected", "challenge", "verifying", "processing"}
        /\ watch' \in {"off", "on", "over"}
        /\ attempt' \in {0, attempt} /\ (r \notin {"paid", "failed"} => attempt' = attempt)
        /\ form' \in Forms /\ remount' \in {"no", "asked", "sync"}
        /\ status' = "approved" => r = "paid"
    BY <1>2, FinishFacts
  <1>8. StatusInv'
    <2>1. initial' = {} /\ (call' = {} \/ r = "action")
      BY <1>1, <1>2, <1>6
    <2> QED BY <1>2, <2>1, FinishStatus
  <1>9. CallInv'
    BY <1>1, <1>4, <1>5, <1>6, <1>7 DEF CallInv, Keyed
  <1>10. PageType'
    <2>1. updating' \subseteq Updates
      BY <1>t, <1>2, SyncFacts DEF PageType
    <2>2. status' \in Statuses
      BY <1>7 DEF Statuses, OutcomePending, Unknown
    <2>3. call' \subseteq Calls
      BY <1>4, <1>6
    <2> QED BY <1>t, <1>2, <1>7, <2>1, <2>2, <2>3, Bounds DEF PageType
  <1>11. Kept
    BY <1>4, <1>6, <1>7 DEF Kept
  <1> QED BY <1>7, <1>8, <1>9, <1>10, <1>11 DEF PageInv

\* The submit ends without a result: given up, left to the verification, or
\* refused.
LEMMA ClosedStep ==
  ASSUME PageInv, NEW c \in call, Keyed(c), call' = {},
         NEW s \in {"network_error", "verifying", "refused", "ready"}, SetStatus(s),
         attempt' \in {0, attempt}, s = "network_error" => attempt' = attempt,
         \/ pending' = {}
         \/ pending' = {[token |-> c.token, total |-> c.total]} /\ attempt' = attempt,
         remount' \in {remount, Asked}, Sync,
         UNCHANGED <<left, initial, running, form, applied, total, enabled, minted, cards>>
  PROVE  PageInv' /\ status' # "approved"
  <1>t. PageType /\ CallInv /\ StatusInv
    BY DEF PageInv
  <1>1. c \in Calls /\ initial = {} /\ ~left /\ c.key = attempt /\ c.key # 0 /\ c.token \in 1..MaxCards
    BY UnderWay DEF Keyless, Keyed, Keys
  <1>2. s \in Statuses
    BY DEF Statuses, OutcomePending, Unknown
  <1>3. status' = s /\ watch' \in {"off", "on", "over"} /\ (watch' # "off" => Loop(status') # "none")
    BY <1>2, StatusFacts
  <1>4. PageType'
    <2>1. updating' \subseteq Updates
      BY <1>t, SyncFacts DEF PageType
    <2>2. pending' \subseteq Pendings
      BY <1>1 DEF Pendings, Calls
    <2>3. remount' \in {"no", "asked", "sync"} /\ attempt' \in 0..MaxKeys /\ call' \subseteq Calls
      BY <1>t, Bounds DEF PageType, Asked
    <2> QED BY <1>t, <1>2, <1>3, <2>1, <2>2, <2>3 DEF PageType
  <1>5. CallInv'
    BY DEF CallInv
  <1>6. StatusInv'
    BY <1>1, <1>3 DEF StatusInv
  <1> QED BY <1>3, <1>4, <1>5, <1>6 DEF PageInv

\* A result read by a loop or after an action, with no submit under way.
LEMMA PlainFinish ==
  ASSUME PageInv, call = {}, initial = {}, NEW r \in Answers, Finish(r, form),
         Sync \/ updating' = updating,
         UNCHANGED <<initial, call, applied, total, enabled, minted, cards>>
  PROVE  PageInv' /\ Kept /\ (status' = "approved" => r = "paid")
  <1>t. PageType /\ CallInv /\ StatusInv
    BY DEF PageInv
  <1>1. form \in Forms
    BY <1>t DEF PageType
  <1>2. /\ pending' = {} /\ left' = (r = "blind") /\ running' = (r = "action")
        /\ status' \in Settled \cup {"rejected", "challenge", "verifying", "processing"}
        /\ watch' \in {"off", "on", "over"} /\ attempt' \in {0, attempt}
        /\ form' \in Forms /\ remount' \in {"no", "asked", "sync"}
        /\ status' = "approved" => r = "paid"
    BY <1>1, FinishFacts
  <1>3. StatusInv'
    <2>1. initial' = {} /\ call' = {}
      OBVIOUS
    <2> QED BY <1>1, <2>1, FinishStatus
  <1>4. PageType'
    <2>1. updating' \subseteq Updates
      BY <1>t, SyncFacts DEF PageType
    <2>2. status' \in Statuses
      BY <1>2 DEF Statuses, OutcomePending, Unknown
    <2> QED BY <1>t, <1>2, <2>1, <2>2, Bounds DEF PageType
  <1> QED BY <1>2, <1>3, <1>4 DEF PageInv, CallInv, Kept

\* The action of the provider's SDK ends: the server's word counts.
LEMMA ActionDoneStep == ASSUME PageInv, ServiceType, ActionDone PROVE PageStep
  <1>t. PageType /\ CallInv /\ StatusInv
    BY DEF PageInv
  <1>1. running
    BY DEF ActionDone
  <1>2. initial = {}
    BY <1>t, <1>1 DEF StatusInv
  <1>3. Resolved(View) => View \in Answers
    BY ViewFacts DEF Resolved
  <1>b. "blind" \in Answers
    BY DEF Answers, Open
  <1>4. CASE call = {}
    <2>1. UNCHANGED <<call, initial, updating, applied, total, enabled, minted, cards>>
      BY <1>4 DEF ActionDone
    <2>2. CASE Resolved(View) /\ View # "action" /\ Finish(View, form)
      <3>1. View \in Answers
        BY <1>3, <2>2
      <3>2. PageInv' /\ Kept /\ (status' = "approved" => View = "paid")
        BY <1>2, <1>4, <2>1, <2>2, <3>1, PlainFinish
      <3> QED BY <3>2 DEF PageStep, Honest
    <2>3. CASE VerifyPending(form)
      <3>1. Finish("blind", form)
        BY <2>3 DEF Finish
      <3>2. PageInv' /\ Kept /\ (status' = "approved" => "blind" = "paid")
        BY <1>2, <1>4, <1>b, <2>1, <3>1, PlainFinish
      <3> QED BY <3>2 DEF PageStep, Honest
    <2> QED BY <1>4, <2>2, <2>3 DEF ActionDone
  <1>5. CASE call # {}
    <2>1. PICK c \in call : TRUE
      BY <1>5
    <2>2. CASE Resolved(View) /\ View # "action" /\ Ends(View)
      <3>1. View \in Answers
        BY <1>3, <2>2
      <3>2. PageInv' /\ Kept /\ (status' = "approved" => View = "paid")
        BY <2>2, <3>1, EndsStep
      <3> QED BY <3>2 DEF PageStep, Honest
    <2>3. CASE /\ VerifyPending(form) /\ call' = {} /\ Sync
               /\ UNCHANGED <<initial, applied, total, enabled, minted, cards>>
      <3>1. Finish("blind", form)
        BY <2>3 DEF Finish
      <3>2. Ends("blind")
        BY <2>1, <2>3, <3>1 DEF Ends
      <3>3. PageInv' /\ Kept /\ (status' = "approved" => "blind" = "paid")
        BY <1>b, <2>1, <3>2, EndsStep
      <3> QED BY <3>3 DEF PageStep, Honest
    <2> QED BY <1>5, <2>2, <2>3 DEF ActionDone
  <1> QED BY <1>4, <1>5

-----------------------------------------------------------------------------
(* The steps of the loops, and of the buyer.                               *)

\* No submit and no challenge of the page load goes with a loop.
LEMMA Watching ==
  ASSUME PageInv, Loop(status) # "none"
  PROVE  call = {} /\ initial = {}
  <1>1. StatusInv
    BY DEF PageInv
  <1>2. status \in {"idle", "loading"} => Loop(status) = "none"
    BY LoopFacts DEF Unknown
  <1> QED BY <1>1, <1>2 DEF StatusInv

\* What a loop reads is what the service has of the last attempt.
LEMMA PollStep == ASSUME PageInv, ServiceType, PollAnswers PROVE PageStep
  <1>t. PageType /\ CallInv /\ StatusInv
    BY DEF PageInv
  <1>1. /\ watch = "on" /\ News(View) /\ Finish(View, form) /\ (Sync \/ updating' = updating)
        /\ UNCHANGED <<initial, call, applied, total, enabled, minted, cards>>
    BY DEF PollAnswers
  <1>2. call = {} /\ initial = {}
    BY <1>t, <1>1, Watching DEF StatusInv
  <1>3. View # "none"
    BY <1>1 DEF News, Resolved
  <1>4. View \in Answers
    BY <1>3, ViewFacts
  <1>5. PageInv' /\ Kept /\ (status' = "approved" => View = "paid")
    BY <1>1, <1>2, <1>4, PlainFinish
  <1> QED BY <1>5 DEF PageStep, Honest

\* The window of a loop says nothing of the payment.
LEMMA WindowStep == ASSUME PageInv, WindowCloses \/ Recheck PROVE PageStep
  <1>t. PageType /\ CallInv /\ StatusInv
    BY DEF PageInv
  <1>1. /\ watch # "off" /\ watch' \in {"on", "over"}
        /\ UNCHANGED <<status, left, initial, running, pending, call, form, remount, updating, applied, total,
                       enabled, attempt, minted, cards>>
    BY DEF WindowCloses, Recheck, formVars, keyVars
  <1>2. PageType' /\ StatusInv'
    BY <1>t, <1>1 DEF PageType, StatusInv
  <1>3. CallInv'
    BY <1>t, <1>1 DEF CallInv, Keyless, Keyed
  <1> QED BY <1>1, <1>2, <1>3 DEF PageStep, PageInv, Kept, Honest

\* The buyer leaves the bank's page.
LEMMA CancelStep == ASSUME PageInv, CancelChallenge PROVE PageStep
  <1>t. PageType /\ CallInv /\ StatusInv
    BY DEF PageInv
  <1>1. /\ status = "challenge" /\ left' = TRUE /\ SetStatus("verifying")
        /\ UNCHANGED <<initial, running, pending, call, form, remount, updating, applied, total,
                       enabled, attempt, minted, cards>>
    BY DEF CancelChallenge, formVars, keyVars
  <1>2. "verifying" \in Statuses
    BY DEF Statuses, OutcomePending, Unknown
  <1>3. status' = "verifying" /\ watch' \in {"off", "on", "over"} /\ (watch' # "off" => Loop(status') # "none")
    BY <1>1, <1>2, StatusFacts
  <1>4. call = {} /\ pending = {} /\ ~running /\ initial = {}
    BY <1>t, <1>1 DEF StatusInv
  <1>5. PageType' /\ StatusInv'
    BY <1>t, <1>1, <1>2, <1>3, <1>4 DEF PageType, StatusInv
  <1>6. CallInv'
    BY <1>1, <1>4 DEF CallInv
  <1> QED BY <1>1, <1>3, <1>4, <1>5, <1>6 DEF PageStep, PageInv, Kept, Honest

\* The page is loaded again: the key stays.
LEMMA ReloadStep == ASSUME PageInv, ServiceType, Reload PROVE PageStep
  <1>t. PageType /\ CallInv /\ StatusInv
    BY DEF PageInv
  <1>1. /\ status' = "idle" /\ watch' = "off" /\ left' = FALSE /\ running' = FALSE
        /\ initial' \subseteq Challenges /\ pending' = {} /\ call' = {} /\ updating' = {}
        /\ form' = "none" /\ remount' = "asked" /\ enabled' = TRUE /\ applied' = 0 /\ total' = due
        /\ UNCHANGED <<attempt, minted, cards>>
    BY DEF Reload, PageLoad, keyVars
  <1>2. PageType'
    <2>1. total' \in 0..MaxTotals
      BY <1>1 DEF ServiceType
    <2> QED BY <1>t, <1>1, <2>1, Bounds DEF PageType, Statuses, Forms
  <1>3. CallInv' /\ StatusInv'
    BY <1>1 DEF CallInv, StatusInv
  <1> QED BY <1>1, <1>2, <1>3 DEF PageStep, PageInv, Kept, Honest

-----------------------------------------------------------------------------
(* The service, and the invariant.                                         *)

\* Nothing new goes out under any key.
LEMMA TokensKept ==
  ASSUME TokenInv, cards' = cards, \A k \in Keys, t \in 1..MaxCards : Uses(k, t)' => Uses(k, t)
  PROVE  TokenInv'
  <1> SUFFICES ASSUME NEW j \in Keys, NEW k \in Keys, NEW t \in 1..MaxCards, Uses(j, t)'
               PROVE  t <= cards' /\ (Uses(k, t)' => j = k)
    BY DEF TokenInv
  <1> QED BY DEF TokenInv

\* While no request is added and no attempt made, a token is used under the same keys.
LEMMA KeptUses ==
  ASSUME Kept, net' \subseteq net, \A k \in Keys : ops'[k].token = ops[k].token
  PROVE  \A k \in Keys, t \in 1..MaxCards : Uses(k, t)' => Uses(k, t)
  <1> SUFFICES ASSUME NEW k \in Keys, NEW t \in 1..MaxCards, Uses(k, t)' PROVE Uses(k, t)
    OBVIOUS
  <1>1. t # 0
    OBVIOUS
  <1>2. CASE \E r \in net' : r.key = k /\ r.token = t
    BY <1>2 DEF Uses
  <1>3. CASE ops'[k].token = t
    BY <1>3 DEF Uses
  <1>4. CASE \E c \in call' : c.key = k /\ c.token = t
    BY <1>1, <1>4 DEF Uses, Kept
  <1>5. CASE attempt' = k /\ \E p \in pending' : p.token = t
    BY <1>5 DEF Uses, Kept
  <1> QED BY <1>2, <1>3, <1>4, <1>5 DEF Uses

\* A step of the page that sends nothing.
LEMMA QuietStep ==
  ASSUME PayInv, PageStep, net' \subseteq net, UNCHANGED <<cards, due, ops, latest, session>>
  PROVE  PayInv'
  <1>1. PageInv' /\ Kept /\ Honest /\ ServiceType /\ TokenInv /\ ChargeInv
    BY DEF PayInv, PageStep
  <1>2. ServiceType'
    BY <1>1 DEF ServiceType
  <1>3. TokenInv'
    <2>1. \A k \in Keys : ops'[k].token = ops[k].token
      OBVIOUS
    <2> QED BY <1>1, <2>1, KeptUses, TokensKept
  <1>4. ChargeInv'
    <2>1. ApprovedIsPaid'
      BY <1>1, ViewFacts DEF ChargeInv, ApprovedIsPaid, Honest
    <2> QED BY <1>1, <2>1 DEF ChargeInv
  <1> QED BY <1>1, <1>2, <1>3, <1>4 DEF PayInv

\* A request with a card that the submit or retry() holds already.
LEMMA AgainKeeps ==
  ASSUME PayInv, PageInv', Honest, net' \subseteq Requests, UNCHANGED <<cards, due, ops, latest, session>>,
         \A k \in Keys, t \in 1..MaxCards : Uses(k, t)' => Uses(k, t)
  PROVE  PayInv'
  <1>1. ServiceType /\ TokenInv /\ ChargeInv
    BY DEF PayInv
  <1>2. ServiceType'
    BY <1>1 DEF ServiceType
  <1>3. TokenInv'
    BY <1>1, TokensKept
  <1>4. ChargeInv'
    <2>1. ApprovedIsPaid'
      BY <1>1, ViewFacts DEF ChargeInv, ApprovedIsPaid, Honest
    <2> QED BY <1>1, <2>1 DEF ChargeInv
  <1> QED BY <1>2, <1>3, <1>4 DEF PayInv

\* A fresh token leaves with the key in the storage: no other key uses it.
LEMMA CollectedInv == ASSUME PayInv, Collected PROVE PayInv'
  <1>1. PageInv /\ ServiceType /\ TokenInv /\ ChargeInv
    BY DEF PayInv
  <1>2. /\ PageInv' /\ Honest /\ net' \subseteq Requests
        /\ cards' = cards + 1 /\ attempt' \in Keys
        /\ \A c \in call' : c.key = attempt' /\ c.token = cards'
        /\ \A r \in net' : r \in net \/ (r.key = attempt' /\ r.token = cards')
        /\ pending' = pending /\ (pending # {} => attempt' = attempt)
    BY <1>1, CollectedStep
  <1>3. UNCHANGED <<due, ops, latest, session>>
    BY DEF Collected, opsVars
  <1>4. ServiceType'
    BY <1>1, <1>2, <1>3 DEF ServiceType
  <1>5. TokenInv'
    <2>1. ASSUME NEW k \in Keys, NEW t \in 1..MaxCards, Uses(k, t)'
          PROVE  Uses(k, t) \/ (k = attempt' /\ t = cards + 1)
      BY <1>2, <1>3, <2>1 DEF Uses
    <2>2. \A k \in Keys, t \in 1..MaxCards : Uses(k, t) => t <= cards
      BY <1>1 DEF TokenInv
    <2>3. cards \in Nat
      BY <1>1, Bounds DEF PageInv, PageType
    <2> SUFFICES ASSUME NEW j \in Keys, NEW k \in Keys, NEW t \in 1..MaxCards, Uses(j, t)'
                 PROVE  t <= cards' /\ (Uses(k, t)' => j = k)
      BY DEF TokenInv
    <2>4. t <= cards'
      BY <1>2, <2>1, <2>2, <2>3
    <2>5. ASSUME Uses(k, t)' PROVE j = k
      <3>1. (Uses(j, t) \/ (j = attempt' /\ t = cards + 1)) /\ (Uses(k, t) \/ (k = attempt' /\ t = cards + 1))
        BY <2>1, <2>5
      <3>2. t <= cards => t # cards + 1
        BY <2>3
      <3> QED BY <1>1, <2>2, <3>1, <3>2 DEF TokenInv
    <2> QED BY <2>4, <2>5
  <1>6. ChargeInv'
    <2>1. ApprovedIsPaid'
      BY <1>1, <1>2, <1>3, ViewFacts DEF ChargeInv, ApprovedIsPaid, Honest
    <2> QED BY <1>1, <1>3, <2>1 DEF ChargeInv
  <1> QED BY <1>2, <1>4, <1>5, <1>6 DEF PayInv

\* retry() sends the token of a charge without an answer, whose key is still stored.
LEMMA RetryInv == ASSUME PayInv, Retry PROVE PayInv'
  <1>1. PageInv /\ ServiceType
    BY DEF PayInv
  <1>2. /\ PageInv' /\ Honest /\ net' \subseteq Requests /\ cards' = cards
        /\ attempt' = attempt /\ pending' = pending
        /\ \E p \in pending : /\ \A c \in call' : c.key = attempt /\ c.token = p.token
                              /\ \A r \in net' : r \in net \/ (r.key = attempt /\ r.token = p.token)
    BY <1>1, RetryStep
  <1>3. UNCHANGED <<due, ops, latest, session>>
    BY DEF Retry, opsVars
  <1>4. \A k \in Keys, t \in 1..MaxCards : Uses(k, t)' => Uses(k, t)
    BY <1>2, <1>3 DEF Uses
  <1> QED BY <1>2, <1>3, <1>4, AgainKeeps

\* The transport repeats the very request.
LEMMA RepeatInv == ASSUME PayInv, Repeat PROVE PayInv'
  <1>1. PageInv /\ ServiceType
    BY DEF PayInv
  <1>2. PICK c \in call :
          /\ c.stage = "backoff" /\ c.tries < Repeats /\ Sent([c EXCEPT !.tries = c.tries + 1])
          /\ UNCHANGED <<status, watch, left, initial, running, pending, formVars, keyVars, opsVars>>
    BY DEF Repeat
  <1>3. PICK d : d = [c EXCEPT !.tries = c.tries + 1]
    OBVIOUS
  <1>4. c \in Calls /\ Keyed(c) /\ c.tries \in 0..Repeats
    <2>1. c \in Calls /\ Keyed(c)
      BY <1>1, <1>2, UnderWay DEF Keyless
    <2> QED BY <2>1 DEF Calls
  <1>5. d \in Calls /\ d.key = c.key /\ d.token = c.token
    <2>1. c.tries + 1 \in 0..Repeats
      BY <1>2, <1>4, Bounds
    <2> QED BY <1>3, <1>4, <2>1 DEF Calls
  <1>6. /\ PageStep /\ net' \subseteq Requests
        /\ \A r \in net' : r \in net \/ (r.key = c.key /\ r.token = c.token)
    <2>1. Sent(d)
      BY <1>2, <1>3
    <2> QED BY <1>1, <1>2, <1>4, <1>5, <2>1, AgainStep
  <1>7. UNCHANGED <<cards, due, ops, latest, session>> /\ pending' = pending /\ attempt' = attempt
    BY <1>2 DEF opsVars, keyVars
  <1>8. \A k \in Keys, t \in 1..MaxCards : Uses(k, t)' => Uses(k, t)
    BY <1>6, <1>7 DEF Uses, PageStep, Kept
  <1> QED BY <1>6, <1>7, <1>8, AgainKeeps DEF PageStep

\* A status read ends the call, or the hook sends the same request again.
LEMMA ReadStatusInv == ASSUME PayInv, ReadStatus PROVE PayInv'
  <1>1. PageInv /\ ServiceType
    BY DEF PayInv
  <1>2. PICK c \in call :
          /\ c.stage = "read"
          /\ \/ Resolved(View) /\ Ends(View) /\ UNCHANGED net
             \/ /\ Sent([c EXCEPT !.rounds = c.rounds + 1, !.tries = 0]) /\ c.rounds < AutoRetries
                /\ UNCHANGED <<status, watch, left, initial, running, pending, formVars, keyVars>>
             \/ /\ call' = {} /\ pending' = {[token |-> c.token, total |-> c.total]} /\ SetStatus("network_error")
                /\ UNCHANGED <<left, initial, running, form, remount, applied, total, enabled, keyVars, net>> /\ Sync
             \/ /\ call' = {} /\ pending' = {} /\ SetStatus("verifying")
                /\ UNCHANGED <<left, initial, running, form, remount, applied, total, enabled, keyVars, net>> /\ Sync
    BY DEF ReadStatus
  <1>3. c \in Calls /\ Keyed(c) /\ c.key = attempt
    BY <1>1, <1>2, UnderWay DEF Keyless
  <1>4. UNCHANGED <<due, ops, latest, session>>
    BY DEF ReadStatus, opsVars
  <1>5. CASE Resolved(View) /\ Ends(View) /\ UNCHANGED net
    <2>1. View \in Answers
      BY <1>1, <1>5, ViewFacts DEF Resolved
    <2>2. PageInv' /\ Kept /\ (status' = "approved" => View = "paid")
      BY <1>1, <1>2, <1>3, <1>5, <2>1, EndsStep
    <2>3. cards' = cards
      BY <1>5 DEF Ends
    <2> QED BY <1>4, <1>5, <2>2, <2>3, QuietStep DEF PageStep, Honest
  <1>6. CASE /\ Sent([c EXCEPT !.rounds = c.rounds + 1, !.tries = 0]) /\ c.rounds < AutoRetries
             /\ UNCHANGED <<status, watch, left, initial, running, pending, formVars, keyVars>>
    <2>1. PICK d : d = [c EXCEPT !.rounds = c.rounds + 1, !.tries = 0]
      OBVIOUS
    <2>2. d \in Calls /\ d.key = c.key /\ d.token = c.token
      <3>1. c.rounds \in 0..AutoRetries
        BY <1>3 DEF Calls
      <3>2. c.rounds + 1 \in 0..AutoRetries /\ 0 \in 0..Repeats
        BY <1>6, <3>1, Bounds
      <3> QED BY <1>3, <2>1, <3>2 DEF Calls
    <2>3. /\ PageStep /\ net' \subseteq Requests
          /\ \A r \in net' : r \in net \/ (r.key = c.key /\ r.token = c.token)
      <3>1. Sent(d)
        BY <1>6, <2>1
      <3> QED BY <1>1, <1>2, <1>3, <1>6, <2>2, <3>1, AgainStep
    <2>4. cards' = cards /\ pending' = pending /\ attempt' = attempt
      BY <1>6 DEF keyVars
    <2>5. \A k \in Keys, t \in 1..MaxCards : Uses(k, t)' => Uses(k, t)
      BY <1>2, <1>4, <2>3, <2>4 DEF Uses, PageStep, Kept
    <2> QED BY <1>4, <2>3, <2>4, <2>5, AgainKeeps DEF PageStep
  <1>7. CASE /\ call' = {} /\ pending' = {[token |-> c.token, total |-> c.total]} /\ SetStatus("network_error")
             /\ UNCHANGED <<left, initial, running, form, remount, applied, total, enabled, keyVars, net>> /\ Sync
    <2>1. UNCHANGED <<attempt, minted, cards>>
      BY <1>7 DEF keyVars
    <2>2. PageInv' /\ status' # "approved"
      BY <1>1, <1>2, <1>3, <1>7, <2>1, ClosedStep
    <2>3. \A p \in pending' : p.token = c.token
      BY <1>7
    <2>4. \A k \in Keys, t \in 1..MaxCards : Uses(k, t)' => Uses(k, t)
      BY <1>2, <1>3, <1>4, <1>7, <2>1, <2>3 DEF Uses
    <2>5. net' \subseteq Requests
      BY <1>1, <1>7 DEF ServiceType
    <2> QED BY <1>4, <2>1, <2>2, <2>4, <2>5, AgainKeeps DEF Honest
  <1>8. CASE /\ call' = {} /\ pending' = {} /\ SetStatus("verifying")
             /\ UNCHANGED <<left, initial, running, form, remount, applied, total, enabled, keyVars, net>> /\ Sync
    <2>1. UNCHANGED <<attempt, minted, cards>>
      BY <1>8 DEF keyVars
    <2>2. PageInv' /\ status' # "approved"
      BY <1>1, <1>2, <1>3, <1>8, <2>1, ClosedStep
    <2> QED BY <1>4, <1>8, <2>1, <2>2, QuietStep DEF PageStep, Kept, Honest
  <1> QED BY <1>2, <1>5, <1>6, <1>7, <1>8

\* What the service does with a charge: nothing, or a first attempt of its
\* key when no other is alive.
LEMMA ChargeFacts ==
  ASSUME PayInv, NEW r \in net, NEW a \in Results \cup {"generic", "mismatch", "in_progress"}, Charge(r, a)
  PROVE  /\ ops' \in [Keys -> [st : Results \cup {"none"}, first : Results \cup {"none"}, token : 0..MaxCards]]
         /\ latest' \in 0..MaxKeys
         /\ \A k \in Keys : /\ ops'[k].first = "paid" => ops'[k].st = "paid"
                            /\ ops[k].st = "paid" => ops'[k].st = "paid"
                            /\ ops'[k].token = ops[k].token \/ (r.key = k /\ ops'[k].token = r.token)
         /\ a = "paid" => \E k \in Keys : ops'[k].st = "paid"
  <1> USE KindsAssumption
  <1>1. /\ ServiceType /\ (\A k \in Keys : ops[k].first = "paid" => ops[k].st = "paid")
        /\ r.key \in Keys /\ r.token \in 1..MaxCards
    BY DEF PayInv, ServiceType, ChargeInv, Requests
  <1>2. CASE UNCHANGED <<ops, latest>> /\ (a = "paid" => \E k \in Keys : ops[k].st = "paid")
    BY <1>1, <1>2 DEF ServiceType
  <1>3. CASE a \in Results /\ Record(r, a) /\ ops[r.key].st = "none"
    <2>1. PICK n : n = [st |-> a, first |-> a, token |-> r.token]
      OBVIOUS
    <2>2. ops' = [ops EXCEPT ![r.key] = n] /\ latest' = r.key
      BY <1>3, <2>1 DEF Record
    <2>3. n \in [st : Results \cup {"none"}, first : Results \cup {"none"}, token : 0..MaxCards]
          /\ n.st = a /\ n.first = a /\ n.token = r.token
      BY <1>1, <1>3, <2>1, Bounds
    <2>4. /\ ops' \in [Keys -> [st : Results \cup {"none"}, first : Results \cup {"none"}, token : 0..MaxCards]]
          /\ ops'[r.key] = n /\ \A k \in Keys : k # r.key => ops'[k] = ops[k]
      BY <1>1, <2>2, <2>3 DEF ServiceType
    <2>5. latest' \in 0..MaxKeys
      BY <1>1, <2>2 DEF Keys
    <2>8. ASSUME NEW k \in Keys
          PROVE  /\ ops'[k].first = "paid" => ops'[k].st = "paid"
                 /\ ops[k].st = "paid" => ops'[k].st = "paid"
                 /\ ops'[k].token = ops[k].token \/ (r.key = k /\ ops'[k].token = r.token)
      <3>1. CASE k = r.key
        BY <1>3, <2>3, <2>4, <3>1
      <3>2. CASE k # r.key
        BY <1>1, <2>4, <3>2
      <3> QED BY <3>1, <3>2
    <2>9. a = "paid" => ops'[r.key].st = "paid"
      BY <2>3, <2>4
    <2> QED BY <1>1, <2>4, <2>5, <2>8, <2>9
  <1>4. \/ UNCHANGED <<ops, latest>> /\ (a = "paid" => \E k \in Keys : ops[k].st = "paid")
        \/ a \in Results /\ Record(r, a) /\ ops[r.key].st = "none"
    <2>1. CASE ops[r.key].st # "none"
      <3>1. UNCHANGED <<ops, latest>> /\ a = ops[r.key].first
        BY <2>1 DEF Charge
      <3> QED BY <1>1, <3>1
    <2>2. CASE ops[r.key].st = "none"
      <3>1. CASE r.total # due
        BY <2>2, <3>1 DEF Charge
      <3>2. CASE r.total = due /\ ~Free(r)
        BY <2>2, <3>2 DEF Charge
      <3>3. CASE r.total = due /\ Free(r)
        BY <2>2, <3>3 DEF Charge
      <3> QED BY <3>1, <3>2, <3>3
    <2> QED BY <2>1, <2>2
  <1> QED BY <1>2, <1>3, <1>4

\* What the submit does with an answer.
LEMMA AnsweredStep ==
  ASSUME PageInv, NEW c \in call, c.stage = "send",
         NEW a \in Results \cup {"generic", "mismatch", "in_progress", "refused"}, Answered(c, a)
  PROVE  PageInv' /\ Kept /\ cards' = cards /\ (status' = "approved" => status = "approved" \/ a = "paid")
  <1> USE KindsAssumption
  <1>1. c \in Calls /\ Keyed(c)
    BY UnderWay DEF Keyless
  <1>2. \A b \in {"generic", "mismatch", "in_progress", "refused"} : b \notin Results
    BY DEF Results
  <1>3. CASE a \in Results
    <2>1. Ends(a)
      BY <1>2, <1>3 DEF Answered
    <2>2. a \in Answers
      BY <1>3 DEF Results, Answers, Open
    <2>3. cards' = cards
      BY <2>1 DEF Ends
    <2> QED BY <1>1, <2>1, <2>2, <2>3, EndsStep
  <1>4. CASE a = "in_progress"
    <2>1. NoAnswer(c, "in_progress")
      BY <1>2, <1>4 DEF Answered
    <2>2. PageStep
      BY <2>1, NoAnswerStep
    <2>3. cards' = cards /\ status' = status
      BY <2>1 DEF NoAnswer, keyVars
    <2> QED BY <2>2, <2>3 DEF PageStep
  <1>5. CASE a \in {"generic", "mismatch", "refused"}
    <2>1. /\ call' = {} /\ pending' = {}
          /\ attempt' = (IF a = "refused" THEN attempt ELSE 0)
          /\ remount' = (IF a = "refused" THEN remount ELSE Asked)
          /\ SetStatus(IF a = "refused" THEN "refused" ELSE "ready")
          /\ UNCHANGED <<left, initial, running, form, applied, total, enabled, minted, cards>>
          /\ Sync
      BY <1>2, <1>5 DEF Answered
    <2>2. PICK s : s = IF a = "refused" THEN "refused" ELSE "ready"
      OBVIOUS
    <2>3. s \in {"network_error", "verifying", "refused", "ready"} /\ s # "network_error" /\ SetStatus(s)
      BY <2>1, <2>2
    <2>4. PageInv' /\ status' # "approved"
      BY <1>1, <2>1, <2>3, ClosedStep
    <2> QED BY <2>1, <2>4 DEF Kept
  <1> QED BY <1>3, <1>4, <1>5

\* A request arrives, and its answer reaches the page or nobody.
LEMMA ArrivesInv == ASSUME PayInv, NEW r \in net, Arrives(r) PROVE PayInv'
  <1>t. PageInv /\ ServiceType /\ TokenInv /\ ChargeInv
    BY DEF PayInv
  <1>1. PICK a \in Results \cup {"generic", "mismatch", "in_progress", "refused"} :
          /\ net' \in {net, net \ {r}}
          /\ IF a = "refused" THEN UNCHANGED <<ops, latest>> ELSE Charge(r, a)
          /\ \/ UNCHANGED <<pageVars, formVars, keyVars, session>>
             \/ \E c \in call :
                  /\ c.stage = "send" /\ c.key = r.key /\ c.token = r.token
                  /\ session' = (session \/ a # "refused")
                  /\ Answered(c, a)
          /\ UNCHANGED due
    BY DEF Arrives
  <1>2. /\ ops' \in [Keys -> [st : Results \cup {"none"}, first : Results \cup {"none"}, token : 0..MaxCards]]
        /\ latest' \in 0..MaxKeys
        /\ \A k \in Keys : /\ ops'[k].first = "paid" => ops'[k].st = "paid"
                           /\ ops[k].st = "paid" => ops'[k].st = "paid"
                           /\ ops'[k].token = ops[k].token \/ (r.key = k /\ ops'[k].token = r.token)
        /\ a = "paid" => \E k \in Keys : ops'[k].st = "paid"
    <2>1. CASE a = "refused"
      BY <1>t, <1>1, <2>1 DEF ServiceType, ChargeInv
    <2>2. CASE a # "refused"
      <3>1. Charge(r, a) /\ a \in Results \cup {"generic", "mismatch", "in_progress"}
        BY <1>1, <2>2
      <3> QED BY <3>1, ChargeFacts
    <2> QED BY <2>1, <2>2
  <1>3. /\ PageInv' /\ Kept /\ cards' = cards /\ session' \in BOOLEAN
        /\ (status' = "approved" => status = "approved" \/ a = "paid")
    <2>1. CASE UNCHANGED <<pageVars, formVars, keyVars, session>>
      <3>1. UNCHANGED <<status, watch, left, initial, running, pending, call, form, remount, updating, applied,
                        total, enabled, attempt, minted, cards, session>>
        BY <2>1 DEF pageVars, formVars, keyVars
      <3>2. PageType' /\ StatusInv'
        BY <1>t, <3>1 DEF PageInv, PageType, StatusInv
      <3>3. CallInv'
        BY <1>t, <3>1 DEF PageInv, CallInv, Keyless, Keyed
      <3> QED BY <1>t, <3>1, <3>2, <3>3 DEF PageInv, Kept, ServiceType
    <2>2. CASE \E c \in call : /\ c.stage = "send" /\ c.key = r.key /\ c.token = r.token
                               /\ session' = (session \/ a # "refused") /\ Answered(c, a)
      <3>1. PICK c \in call : c.stage = "send" /\ session' = (session \/ a # "refused") /\ Answered(c, a)
        BY <2>2
      <3>2. PageInv' /\ Kept /\ cards' = cards /\ (status' = "approved" => status = "approved" \/ a = "paid")
        BY <1>t, <1>1, <3>1, AnsweredStep
      <3>3. session' \in BOOLEAN
        BY <3>1
      <3> QED BY <3>2, <3>3
    <2> QED BY <1>1, <2>1, <2>2
  <1>4. ServiceType'
    BY <1>t, <1>1, <1>2, <1>3 DEF ServiceType
  <1>5. TokenInv'
    <2> SUFFICES ASSUME NEW k \in Keys, NEW t \in 1..MaxCards, Uses(k, t)' PROVE Uses(k, t)
      BY <1>t, <1>3, TokensKept
    <2>1. t # 0
      OBVIOUS
    <2>2. CASE \E q \in net' : q.key = k /\ q.token = t
      BY <1>1, <2>2 DEF Uses
    <2>3. CASE ops'[k].token = t
      BY <1>2, <2>3 DEF Uses
    <2>4. CASE \E c \in call' : c.key = k /\ c.token = t
      BY <1>3, <2>1, <2>4 DEF Uses, Kept
    <2>5. CASE attempt' = k /\ \E p \in pending' : p.token = t
      BY <1>3, <2>5 DEF Uses, Kept
    <2> QED BY <2>2, <2>3, <2>4, <2>5 DEF Uses
  <1>6. ApprovedIsPaid'
    BY <1>t, <1>2, <1>3 DEF ChargeInv, ApprovedIsPaid
  <1>7. ChargeInv'
    BY <1>2, <1>6 DEF ChargeInv
  <1> QED BY <1>3, <1>4, <1>5, <1>7 DEF PayInv

\* The bank decides an open attempt.
LEMMA BankInv == ASSUME PayInv, NEW k \in Keys, BankSettles(k) PROVE PayInv'
  <1>t. PageInv /\ ServiceType /\ TokenInv /\ ChargeInv
    BY DEF PayInv
  <1>1. PICK st \in {"paid", "failed"} : ops' = [ops EXCEPT ![k].st = st]
    BY DEF BankSettles
  <1>2. /\ ops[k].st \in Open
        /\ UNCHANGED <<status, watch, left, initial, running, pending, call, form, remount, updating, applied,
                       total, enabled, attempt, minted, cards, net, due, latest, session>>
    BY DEF BankSettles, pageVars, formVars, keyVars
  <1>3. PICK n : n = [ops[k] EXCEPT !.st = st]
    OBVIOUS
  <1>4. n \in [st : Results \cup {"none"}, first : Results \cup {"none"}, token : 0..MaxCards]
        /\ n.st = st /\ n.first = ops[k].first /\ n.token = ops[k].token
    <2>1. st \in Results
      BY DEF Results
    <2> QED BY <1>t, <1>3, <2>1 DEF ServiceType
  <1>5. ops' = [ops EXCEPT ![k] = n]
    BY <1>1, <1>3
  <1>6. /\ ops' \in [Keys -> [st : Results \cup {"none"}, first : Results \cup {"none"}, token : 0..MaxCards]]
        /\ ops'[k] = n /\ \A j \in Keys : j # k => ops'[j] = ops[j]
    BY <1>t, <1>4, <1>5 DEF ServiceType
  <1>7. ServiceType'
    BY <1>t, <1>2, <1>6 DEF ServiceType
  <1>8. PageInv'
    <2>1. PageType' /\ StatusInv'
      BY <1>t, <1>2 DEF PageInv, PageType, StatusInv
    <2>2. CallInv'
      BY <1>t, <1>2 DEF PageInv, CallInv, Keyless, Keyed
    <2> QED BY <2>1, <2>2 DEF PageInv
  <1>9. TokenInv'
    <2>1. \A j \in Keys : ops'[j].token = ops[j].token
      BY <1>4, <1>6
    <2>2. \A j \in Keys, t \in 1..MaxCards : Uses(j, t)' => Uses(j, t)
      BY <1>2, <2>1 DEF Uses
    <2> QED BY <1>t, <1>2, <2>2, TokensKept
  <1>10. ChargeInv'
    <2>3. ops[k].st # "paid"
      BY <1>2 DEF Open
    <2>4. \A j \in Keys : ops[j].st = "paid" => ops'[j].st = "paid"
      BY <1>6, <2>3
    <2>5. ApprovedIsPaid'
      BY <1>t, <1>2, <2>4 DEF ChargeInv, ApprovedIsPaid
    <2>6. \A j \in Keys : ops'[j].first = "paid" => ops'[j].st = "paid"
      BY <1>t, <1>4, <1>6, <2>3 DEF ChargeInv
    <2> QED BY <2>5, <2>6 DEF ChargeInv
  <1> QED BY <1>7, <1>8, <1>9, <1>10 DEF PayInv

\* The order changes, or nothing does.
LEMMA RestInv ==
  ASSUME PayInv, due' \in 0..MaxTotals,
         UNCHANGED <<pageVars, formVars, keyVars, net, ops, latest, session>>
  PROVE  PayInv'
  <1>t. PageInv /\ ServiceType /\ TokenInv /\ ChargeInv
    BY DEF PayInv
  <1>1. UNCHANGED <<status, watch, left, initial, running, pending, call, form, remount, updating, applied,
                    total, enabled, attempt, minted, cards, net, ops, latest, session>>
    BY DEF pageVars, formVars, keyVars
  <1>2. PageInv'
    <2>1. PageType' /\ StatusInv'
      BY <1>t, <1>1 DEF PageInv, PageType, StatusInv
    <2>2. CallInv'
      BY <1>t, <1>1 DEF PageInv, CallInv, Keyless, Keyed
    <2> QED BY <2>1, <2>2 DEF PageInv
  <1>3. ServiceType'
    BY <1>t, <1>1 DEF ServiceType
  <1>4. TokenInv'
    <2>1. \A j \in Keys, t \in 1..MaxCards : Uses(j, t)' => Uses(j, t)
      BY <1>1 DEF Uses
    <2> QED BY <1>t, <1>1, <2>1, TokensKept
  <1>5. ChargeInv'
    BY <1>t, <1>1 DEF ChargeInv, ApprovedIsPaid
  <1> QED BY <1>2, <1>3, <1>4, <1>5 DEF PayInv

\* A shopper arrives.
LEMMA InitInv == Init => PayInv
  <1> SUFFICES ASSUME Init PROVE PayInv
    OBVIOUS
  <1>1. PageType
    BY Bounds DEF Init, PageType, Statuses, Forms
  <1>2. CallInv /\ StatusInv
    BY DEF Init, CallInv, StatusInv
  <1>3. ServiceType
    <2>1. NoAttempt \in [st : Results \cup {"none"}, first : Results \cup {"none"}, token : 0..MaxCards]
      BY Bounds DEF NoAttempt
    <2> QED BY <2>1, Bounds DEF Init, ServiceType
  <1>4. \A k \in Keys : ops[k].st = "none" /\ ops[k].first = "none" /\ ops[k].token = 0
    BY DEF Init, NoAttempt
  <1>5. TokenInv
    BY <1>4 DEF Init, TokenInv, Uses
  <1>6. ChargeInv
    BY <1>4 DEF Init, ChargeInv, ApprovedIsPaid, Open
  <1> QED BY <1>1, <1>2, <1>3, <1>5, <1>6 DEF PayInv, PageInv

\* Every step of the page, the form, the transport, the service and the bank
\* keeps the invariant.
LEMMA StepInv == ASSUME PayInv, [Next]_vars PROVE PayInv'
  <1>t. PageInv /\ ServiceType
    BY DEF PayInv
  <1>1. CASE FormStep
    <2>1. PageStep
      BY <1>t, <1>1, MountStep, FormReadyStep, FormFailsStep, DisableStep, EnableStep, LearnTotalStep, UpdateStep
         DEF FormStep
    <2>2. UNCHANGED <<cards, net, due, ops, latest, session>>
      BY <1>1 DEF FormStep, Mount, FormReady, FormFails, Disable, Enable, LearnTotal, UpdateDone, UpdateFails,
                  keyVars, opsVars
    <2> QED BY <2>1, <2>2, QuietStep
  <1>2. CASE CallStep
    <2>1. CASE Submit \/ NotCollected \/ ActionDone
      <3>1. PageStep
        BY <1>t, <2>1, SubmitStep, NotCollectedStep, ActionDoneStep
      <3>2. CASE Submit \/ NotCollected
        <4>1. UNCHANGED <<cards, net, due, ops, latest, session>>
          BY <3>2 DEF Submit, NotCollected, keyVars, opsVars
        <4> QED BY <3>1, <4>1, QuietStep
      <3>3. CASE ActionDone
        <4>1. UNCHANGED <<net, due, ops, latest, session>>
          BY <3>3 DEF ActionDone, opsVars
        <4>2. cards' = cards
          BY <3>3 DEF ActionDone, Ends
        <4> QED BY <3>1, <4>1, <4>2, QuietStep
      <3> QED BY <2>1, <3>2, <3>3
    <2>2. CASE Transient
      <3>1. PICK c \in call :
              /\ c.stage = "send" /\ NoAnswer(c, "transient")
              /\ net' \in {net, net \ {[key |-> c.key, token |-> c.token, total |-> c.total]}}
              /\ UNCHANGED opsVars
        BY <2>2 DEF Transient
      <3>2. PageStep
        BY <1>t, <3>1, NoAnswerStep
      <3>3. UNCHANGED <<cards, due, ops, latest, session>> /\ net' \subseteq net
        BY <3>1 DEF NoAnswer, keyVars, opsVars
      <3> QED BY <3>2, <3>3, QuietStep
    <2> QED BY <1>2, <2>1, <2>2, CollectedInv, RetryInv, RepeatInv, ReadStatusInv DEF CallStep
  <1>3. CASE WatchStep
    <2>1. PageStep
      BY <1>t, <1>3, PollStep, WindowStep, CancelStep DEF WatchStep
    <2>2. UNCHANGED <<cards, net, due, ops, latest, session>>
      BY <1>3 DEF WatchStep, PollAnswers, WindowCloses, Recheck, CancelChallenge, keyVars, opsVars
    <2> QED BY <2>1, <2>2, QuietStep
  <1>4. CASE ServiceStep
    <2>1. CASE ChangeTotal
      <3>1. due' \in 0..MaxTotals /\ UNCHANGED <<pageVars, formVars, keyVars, net, ops, latest, session>>
        BY <1>t, <2>1, Bounds DEF ChangeTotal, ServiceType
      <3> QED BY <3>1, RestInv
    <2> QED BY <1>4, <2>1, ArrivesInv, BankInv DEF ServiceStep
  <1>5. CASE Reload
    <2>1. PageStep
      BY <1>t, <1>5, ReloadStep
    <2>2. UNCHANGED <<cards, net, due, ops, latest, session>>
      BY <1>5 DEF Reload, keyVars, opsVars
    <2> QED BY <2>1, <2>2, QuietStep
  <1>6. CASE UNCHANGED vars
    <2>1. due' \in 0..MaxTotals /\ UNCHANGED <<pageVars, formVars, keyVars, net, ops, latest, session>>
      BY <1>t, <1>6 DEF vars, opsVars, ServiceType
    <2> QED BY <2>1, RestInv
  <1> QED BY <1>1, <1>2, <1>3, <1>4, <1>5, <1>6 DEF Next

\* From an unknown outcome, the page is left only by an answer, and never to
\* the challenge the buyer left.
LEMMA UnknownStep ==
  ASSUME PayInv, [Next]_vars, ~Reload, status \in Unknown
  PROVE  /\ status' \in OutcomePending \cup Settled \cup {"rejected"}
         /\ left => status' # "challenge"
  <1>t. PageInv /\ ServiceType /\ StatusInv /\ PageType
    BY DEF PayInv, PageInv
  <1>1. call = {} /\ initial = {}
    BY <1>t, LoopFacts, Watching
  <1>2. left => status = "verifying" /\ pending = {} /\ ~running
    BY <1>t DEF StatusInv
  <1>3. CASE status' = status \/ (status' = "processing" /\ ~left) \/ (status' = "verifying" /\ ~left)
    BY <1>2, <1>3 DEF Unknown, OutcomePending
  <1>4. ASSUME NEW r \in Answers, Finish(r, form), left => r # "challenge"
        PROVE  /\ status' \in OutcomePending \cup Settled \cup {"rejected"}
               /\ left => status' # "challenge"
    <2>1. form \in Forms
      BY <1>t DEF PageType
    <2>2. status' \in Settled \cup {"rejected", "challenge", "verifying", "processing"}
          /\ (status' = "challenge" <=> r = "challenge")
      BY <1>t, <1>4, <2>1, FinishFacts
    <2> QED BY <1>4, <2>2 DEF OutcomePending, Unknown
  <1>5. CASE FormStep
    <2>1. status # "loading" /\ status # "ready" /\ status \in OutcomePending
      BY DEF Unknown, OutcomePending
    <2>2. status' = status
      BY <1>1, <1>5, <2>1 DEF FormStep, Mount, FormReady, FormFails, Disable, Enable, LearnTotal, UpdateDone,
                              UpdateFails, Woken, SetStatus, pageVars
    <2> QED BY <1>3, <2>2
  <1>6. CASE CallStep
    <2>1. ~Submit /\ ~Collected /\ ~NotCollected /\ ~Transient /\ ~Repeat /\ ~ReadStatus
      BY <1>1 DEF Submit, Collected, NotCollected, Transient, Repeat, ReadStatus, Unknown
    <2>2. CASE Retry
      BY <1>2, <1>3, <2>2 DEF Retry, SetStatus
    <2>3. CASE ActionDone
      <3>1. ~left
        BY <1>2, <2>3 DEF ActionDone
      <3>2. CASE Resolved(View) /\ Finish(View, form)
        BY <1>4, <1>t, <3>1, <3>2, ViewFacts DEF Resolved
      <3>3. CASE VerifyPending(form)
        BY <1>3, <3>1, <3>3 DEF VerifyPending, SetStatus
      <3> QED BY <1>1, <2>3, <3>2, <3>3 DEF ActionDone
    <2> QED BY <1>6, <2>1, <2>2, <2>3 DEF CallStep
  <1>7. CASE WatchStep
    <2>1. CASE PollAnswers
      <3>1. Finish(View, form) /\ News(View)
        BY <2>1 DEF PollAnswers
      <3>2. View # "none"
        BY <3>1 DEF News, Resolved
      <3>3. left => View # "challenge"
        BY <1>2, <3>1, LoopFacts DEF News, Challenges
      <3>4. View \in Answers
        BY <1>t, <3>2, ViewFacts
      <3> QED BY <1>4, <3>1, <3>3, <3>4
    <2>2. CASE WindowCloses \/ Recheck
      BY <1>3, <2>2 DEF WindowCloses, Recheck
    <2>3. CASE CancelChallenge
      BY <1>2, <1>3, <2>3 DEF CancelChallenge, SetStatus
    <2> QED BY <1>7, <2>1, <2>2, <2>3 DEF WatchStep
  <1>8. CASE ServiceStep
    <2>1. status' = status
      BY <1>1, <1>8 DEF ServiceStep, ChangeTotal, Arrives, BankSettles, pageVars
    <2> QED BY <1>3, <2>1
  <1>9. CASE UNCHANGED vars
    BY <1>3, <1>9 DEF vars, pageVars
  <1> QED BY <1>5, <1>6, <1>7, <1>8, <1>9 DEF Next

-----------------------------------------------------------------------------
(* The history.                                                            *)

\* The newest key is the one in the storage, if there is one, and the charge of
\* every other key on its way was answered or recorded.
HistoryInv ==
  /\ attempt \in {0, minted}
  /\ \A r \in net : r.key <= minted /\ (misread \/ r.key = attempt \/ ~Unanswered(r))

\* What a step does to the keys: it sends the key in the storage, the service
\* forgets no attempt, and a key is given up for an answer or a status read.
KeyStep ==
  /\ attempt' \in {0, minted'} /\ minted <= minted'
  /\ \A r \in net' : r \in net \/ r.key = attempt'
  /\ \A k \in Keys : ops[k].st # "none" => ops'[k].st # "none"
  /\ \/ attempt' = attempt \/ attempt = 0
     \/ attempt' = 0 /\ (attempt \in JustTold \/ Resolved(View))

\* A result gives a key up only if it is decided.
LEMMA FinishKey ==
  ASSUME NEW r, NEW f, Finish(r, f)
  PROVE  attempt' = attempt \/ (attempt' = 0 /\ r \in {"paid", "failed"})
  <1> QED BY DEF Finish, RunAction, VerifyPending

\* A step that mints no key, sends nothing and leaves the service alone.
LEMMA QuietKey ==
  ASSUME PayInv, HistoryInv, minted' = minted, net' \subseteq net, ops' = ops,
         attempt' = attempt \/ (attempt' = 0 /\ (attempt \in JustTold \/ Resolved(View)))
  PROVE  KeyStep
  <1>1. minted \in Nat
    BY Bounds DEF PayInv, PageInv, PageType
  <1> QED BY <1>1 DEF KeyStep, HistoryInv

\* The form: a challenge taken up keeps the key.
LEMMA FormKey == ASSUME PayInv, HistoryInv, FormStep PROVE KeyStep
  <1>1. initial \subseteq Challenges
    BY DEF PayInv, PageInv, PageType
  <1>2. \A r \in initial : r \notin {"paid", "failed"}
    BY <1>1 DEF Challenges
  <1>3. minted' = minted /\ net' = net /\ ops' = ops
    BY DEF FormStep, Mount, FormReady, FormFails, Disable, Enable, LearnTotal, UpdateDone, UpdateFails,
           keyVars, opsVars
  <1>4. attempt' = attempt
    <2>1. CASE FormReady
      BY <1>2, <2>1, FinishKey DEF FormReady
    <2>2. CASE FormFails
      BY <1>2, <2>2, FinishKey DEF FormFails
    <2>3. CASE Disable
      BY <1>2, <2>3, FinishKey DEF Disable
    <2>4. CASE Mount \/ Enable \/ LearnTotal \/ UpdateDone \/ UpdateFails
      BY <2>4 DEF Mount, Enable, LearnTotal, UpdateDone, UpdateFails, keyVars
    <2> QED BY <2>1, <2>2, <2>3, <2>4 DEF FormStep
  <1> QED BY <1>3, <1>4, QuietKey

\* The submit: what it sends has the key in the storage, and a status it reads
\* in place of an answer is resolved.
LEMMA CallKey == ASSUME PayInv, HistoryInv, CallStep PROVE KeyStep
  <1>t. PageType /\ CallInv
    BY DEF PayInv, PageInv
  <1>m. minted \in Nat /\ attempt \in Nat
    BY <1>t, Bounds DEF PageType
  <1>1. CASE Submit \/ NotCollected
    BY <1>1, QuietKey DEF Submit, NotCollected, keyVars, opsVars
  <1>2. CASE Collected \/ Retry
    <2>1. /\ attempt' = ReadAttempt /\ minted' = IF ReadAttempt > minted THEN ReadAttempt ELSE minted
          /\ \A r \in net' : r \in net \/ r.key = attempt'
          /\ ops' = ops
      <3>1. CASE Collected
        <4>1. PICK c \in call :
                /\ attempt' = ReadAttempt /\ minted' = IF ReadAttempt > minted THEN ReadAttempt ELSE minted
                /\ Sent([c EXCEPT !.key = ReadAttempt, !.token = cards + 1])
                /\ UNCHANGED opsVars
          BY <3>1 DEF Collected
        <4>2. [c EXCEPT !.key = ReadAttempt, !.token = cards + 1].key = ReadAttempt
          BY <1>t DEF PageType, Calls
        <4> QED BY <4>1, <4>2 DEF Sent, opsVars
      <3>2. CASE Retry
        <4>1. PICK p \in pending :
                /\ attempt' = ReadAttempt /\ minted' = IF ReadAttempt > minted THEN ReadAttempt ELSE minted
                /\ Sent([NewCall("send") EXCEPT !.key = ReadAttempt, !.token = p.token, !.total = p.total])
                /\ UNCHANGED opsVars
          BY <3>2 DEF Retry
        <4>2. [NewCall("send") EXCEPT !.key = ReadAttempt, !.token = p.token, !.total = p.total].key = ReadAttempt
          BY DEF NewCall
        <4> QED BY <4>1, <4>2 DEF Sent, opsVars
      <3> QED BY <1>2, <3>1, <3>2
    <2>2. CASE attempt = 0
      BY <1>m, <2>1, <2>2 DEF ReadAttempt, KeyStep
    <2>3. CASE attempt # 0
      BY <1>m, <2>1, <2>3 DEF ReadAttempt, KeyStep, HistoryInv
    <2> QED BY <2>2, <2>3
  <1>3. CASE Transient
    BY <1>3, QuietKey DEF Transient, NoAnswer, keyVars, opsVars
  <1>4. ASSUME NEW c \in call, c.stage \in {"backoff", "read"}, NEW d, Sent(d), d.key = c.key,
               UNCHANGED <<keyVars, opsVars>>
        PROVE  KeyStep
    <2>1. c.key = attempt
      BY <1>t, <1>4 DEF CallInv, Keyless
    <2>2. \A r \in net' : r \in net \/ r.key = attempt'
      BY <1>4, <2>1 DEF Sent, keyVars
    <2> QED BY <1>m, <1>4, <2>2 DEF KeyStep, HistoryInv, keyVars, opsVars
  <1>5. CASE Repeat
    <2>1. PICK c \in call : c.stage = "backoff" /\ Sent([c EXCEPT !.tries = c.tries + 1])
      BY <1>5 DEF Repeat
    <2>2. [c EXCEPT !.tries = c.tries + 1].key = c.key
      BY <1>t DEF PageType, Calls
    <2> QED BY <1>4, <1>5, <2>1, <2>2 DEF Repeat
  <1>6. CASE ReadStatus
    <2>1. PICK c \in call :
            /\ c.stage = "read"
            /\ \/ Resolved(View) /\ Ends(View) /\ UNCHANGED net
               \/ Sent([c EXCEPT !.rounds = c.rounds + 1, !.tries = 0]) /\ UNCHANGED keyVars
               \/ UNCHANGED <<keyVars, net>>
            /\ UNCHANGED opsVars
      BY <1>6 DEF ReadStatus
    <2>2. CASE Resolved(View) /\ Ends(View) /\ UNCHANGED net
      BY <2>1, <2>2, FinishKey, QuietKey DEF Ends, opsVars
    <2>3. CASE Sent([c EXCEPT !.rounds = c.rounds + 1, !.tries = 0]) /\ UNCHANGED keyVars
      <3>1. [c EXCEPT !.rounds = c.rounds + 1, !.tries = 0].key = c.key
        BY <1>t DEF PageType, Calls
      <3> QED BY <1>4, <2>1, <2>3, <3>1
    <2>4. CASE UNCHANGED <<keyVars, net>>
      BY <2>1, <2>4, QuietKey DEF keyVars, opsVars
    <2> QED BY <2>1, <2>2, <2>3, <2>4
  <1>7. CASE ActionDone
    <2>1. net' = net /\ ops' = ops /\ minted' = minted
      BY <1>7 DEF ActionDone, Ends, opsVars
    <2>2. attempt' = attempt \/ (attempt' = 0 /\ Resolved(View))
      BY <1>7, FinishKey DEF ActionDone, Ends, VerifyPending
    <2> QED BY <2>1, <2>2, QuietKey
  <1> QED BY <1>1, <1>2, <1>3, <1>5, <1>6, <1>7 DEF CallStep

\* The loops, a reload, and what happens elsewhere.
LEMMA RestKey ==
  ASSUME PayInv, HistoryInv,
         WatchStep \/ Reload \/ ChangeTotal \/ \E k \in Keys : BankSettles(k)
  PROVE  KeyStep
  <1>t. ServiceType
    BY DEF PayInv
  <1>m. minted \in Nat
    BY Bounds DEF PayInv, PageInv, PageType
  <1>1. CASE PollAnswers
    <2>1. minted' = minted /\ net' = net /\ ops' = ops
      BY <1>1 DEF PollAnswers, opsVars
    <2>2. attempt' = attempt \/ (attempt' = 0 /\ View \in {"paid", "failed"})
      BY <1>1, FinishKey DEF PollAnswers
    <2> QED BY <2>1, <2>2, QuietKey DEF Resolved
  <1>2. CASE WindowCloses \/ Recheck \/ CancelChallenge \/ Reload \/ ChangeTotal
    BY <1>2, QuietKey DEF WindowCloses, Recheck, CancelChallenge, Reload, ChangeTotal, keyVars, opsVars
  <1>3. ASSUME NEW k \in Keys, BankSettles(k) PROVE KeyStep
    <2>1. PICK st \in {"paid", "failed"} : ops' = [ops EXCEPT ![k].st = st]
      BY <1>3 DEF BankSettles
    <2>2. \A j \in Keys : ops[j].st # "none" => ops'[j].st # "none"
      BY <1>t, <2>1 DEF ServiceType
    <2>3. UNCHANGED <<attempt, minted, net>>
      BY <1>3 DEF BankSettles, keyVars
    <2> QED BY <1>m, <2>2, <2>3 DEF KeyStep, HistoryInv
  <1> QED BY <1>1, <1>2, <1>3 DEF WatchStep

\* A charge arrives: a key it gives up is the one the call was told of.
LEMMA ArrivesKey == ASSUME PayInv, HistoryInv, NEW r \in net, Arrives(r) PROVE KeyStep
  <1>t. ServiceType /\ PageType /\ CallInv
    BY DEF PayInv, PageInv
  <1>m. minted \in Nat
    BY <1>t, Bounds DEF PageType
  <1>1. PICK a \in Results \cup {"generic", "mismatch", "in_progress", "refused"} :
          /\ net' \in {net, net \ {r}}
          /\ IF a = "refused" THEN UNCHANGED <<ops, latest>> ELSE Charge(r, a)
          /\ \/ UNCHANGED <<pageVars, formVars, keyVars, session>>
             \/ \E c \in call : c.stage = "send" /\ Answered(c, a)
    BY DEF Arrives
  <1>2. \A k \in Keys : ops[k].st # "none" => ops'[k].st # "none"
    <2>1. ops' = ops \/ (Record(r, a) /\ ops[r.key].st = "none")
      BY <1>1 DEF Charge
    <2>2. CASE Record(r, a) /\ ops[r.key].st = "none"
      BY <1>t, <2>2 DEF Record, ServiceType
    <2> QED BY <2>1, <2>2
  <1>3. minted' = minted /\ (attempt' = attempt \/ (attempt' = 0 /\ attempt \in JustTold))
    <2>1. CASE UNCHANGED keyVars
      BY <2>1 DEF keyVars
    <2>2. ASSUME NEW c \in call, c.stage = "send", Answered(c, a)
          PROVE  minted' = minted /\ (attempt' = attempt \/ (attempt' = 0 /\ attempt \in JustTold))
      <3>1. c.key = attempt
        BY <1>t, <2>2 DEF CallInv, Keyless
      <3>2. CASE a = "in_progress"
        <4>1. a \notin Results
          BY <3>2, KindsAssumption DEF Results
        <4> QED BY <2>2, <3>2, <4>1 DEF Answered, NoAnswer, keyVars
      <3>3. CASE a \in Results
        <4>1. Ends(a)
          <5>1. a # "in_progress"
            BY <3>3, KindsAssumption DEF Results
          <5> QED BY <2>2, <3>3, <5>1 DEF Answered
        <4>2. \A e \in call' : e.stage = "action"
          <5>1. PICK d \in call : call' = (IF a = "action" THEN {[d EXCEPT !.stage = "action"]} ELSE {})
            BY <4>1 DEF Ends
          <5>2. [d EXCEPT !.stage = "action"].stage = "action"
            BY <1>t DEF PageType, Calls
          <5> QED BY <5>1, <5>2
        <4>3. attempt \in JustTold
          BY <2>2, <3>1, <4>2 DEF JustTold
        <4> QED BY <4>1, <4>3, FinishKey DEF Ends
      <3>4. CASE a \notin Results /\ a # "in_progress"
        <4>1. call' = {} /\ minted' = minted /\ attempt' \in {attempt, 0}
          BY <2>2, <3>4 DEF Answered
        <4>2. attempt \in JustTold
          BY <2>2, <3>1, <4>1 DEF JustTold
        <4> QED BY <4>1, <4>2
      <3> QED BY <3>2, <3>3, <3>4
    <2> QED BY <1>1, <2>1, <2>2
  <1> QED BY <1>m, <1>1, <1>2, <1>3 DEF KeyStep, HistoryInv

\* Every step keeps the invariant of the history.
LEMMA HistoryStep ==
  ASSUME PayInv, HistoryInv, [Next /\ Records]_<<vars, history>> PROVE HistoryInv'
  <1>t. ServiceType /\ PageType
    BY DEF PayInv, PageInv
  <1>p. PayInv'
    BY StepInv DEF vars
  <1>m. minted \in Nat /\ minted' \in Nat /\ attempt \in Nat
    BY <1>t, <1>p, Bounds DEF PageType, PayInv, PageInv
  <1>n. /\ \A r \in net : r.key \in Keys /\ r.key \in Nat
        /\ \A r \in net' : r.key \in Keys /\ r.key \in Nat
    BY <1>t, <1>p DEF PayInv, ServiceType, Requests, Keys
  <1>1. CASE UNCHANGED <<vars, history>>
    BY <1>1 DEF vars, history, keyVars, opsVars, HistoryInv, Unanswered
  <1>2. CASE Next /\ Records
    <2>1. KeyStep
      BY <1>2, FormKey, CallKey, RestKey, ArrivesKey DEF Next, ServiceStep
    <2>2. ASSUME NEW k \in Keys, k \in told \/ ops[k].st # "none"
          PROVE  k \in told' \/ ops'[k].st # "none"
      BY <1>2, <2>1, <2>2 DEF Records, KeyStep
    <2>3. attempt' # attempt /\ attempt # 0 =>
            \/ misread' \/ attempt \in told' \/ ops'[attempt].st # "none"
      <3> SUFFICES ASSUME attempt' # attempt, attempt # 0, attempt \notin JustTold
                   PROVE  misread' \/ ops'[attempt].st # "none"
        BY <1>2 DEF Records
      <3>1. Resolved(View)
        BY <2>1 DEF KeyStep
      <3>2. CASE latest # attempt
        <4>1. attempt' = 0
          BY <2>1 DEF KeyStep
        <4> QED BY <1>2, <3>1, <3>2, <4>1 DEF Records
      <3>3. CASE latest = attempt
        <4>1. ops[attempt].st # "none"
          BY <3>1, <3>3 DEF Resolved, View
        <4>2. attempt \in Keys
          BY <1>t DEF PageType, Keys
        <4> QED BY <2>1, <4>1, <4>2 DEF KeyStep
      <3> QED BY <3>2, <3>3
    <2>4. misread => misread'
      BY <1>2 DEF Records
    <2>5. ASSUME NEW r \in net'
          PROVE  r.key <= minted' /\ (misread' \/ r.key = attempt' \/ ~Unanswered(r)')
      <3>1. CASE r.key = attempt'
        BY <1>m, <1>n, <2>1, <3>1 DEF KeyStep
      <3>2. CASE r \in net /\ r.key # attempt'
        <4>1. r.key <= minted'
          BY <1>m, <1>n, <2>1, <3>2 DEF KeyStep, HistoryInv
        <4>2. CASE misread \/ ~Unanswered(r)
          BY <1>n, <2>2, <2>4, <3>2, <4>1, <4>2 DEF Unanswered
        <4>3. CASE r.key = attempt
          <5>1. attempt' # attempt /\ attempt # 0
            BY <1>n, <3>2, <4>3 DEF Keys
          <5> QED BY <2>3, <4>1, <4>3, <5>1 DEF Unanswered
        <4> QED BY <3>2, <4>1, <4>2, <4>3 DEF HistoryInv
      <3> QED BY <2>1, <3>1, <3>2 DEF KeyStep
    <2> QED BY <2>1, <2>5 DEF HistoryInv, KeyStep
  <1> QED BY <1>1, <1>2

---------------------------------------------------------------------------
\* The page, the requests on their way and the service's attempts are well
\* typed for any bounds.
THEOREM PaymentIsTyped == Spec => []TypeOK
  <1>1. PayInv => TypeOK
    BY DEF PayInv, PageInv, PageType, ServiceType, TypeOK, Statuses, Forms, Updates, Pendings
  <1> QED BY <1>1, InitInv, StepInv, PTL DEF Spec

\* The page says "approved" only of a payment the service has, whatever the
\* provider's SDK said and whichever answer came late.
THEOREM ApprovedIsAlwaysPaid == Spec => []ApprovedIsPaid
  <1>1. PayInv => ApprovedIsPaid
    BY DEF PayInv, ChargeInv
  <1> QED BY <1>1, InitInv, StepInv, PTL DEF Spec

\* A card token goes out under one key only, whatever is lost, retried or
\* loaded again.
THEOREM OneKeyPerCardAlways == Spec => []OneKeyPerCard
  <1>1. ASSUME PayInv PROVE OneKeyPerCard
    <2> SUFFICES ASSUME NEW r \in net
                 PROVE  /\ \A q \in net : q.token = r.token => q.key = r.key
                        /\ \A k \in Keys : ops[k].token = r.token => k = r.key
      BY DEF OneKeyPerCard
    <2>1. \A q \in net : q.key \in Keys /\ q.token \in 1..MaxCards
      BY <1>1 DEF PayInv, ServiceType, Requests
    <2>2. \A q \in net : Uses(q.key, q.token)
      BY DEF Uses
    <2>3. \A k \in Keys : ops[k].token = r.token => Uses(k, r.token)
      BY DEF Uses
    <2> QED BY <1>1, <2>1, <2>2, <2>3 DEF PayInv, TokenInv
  <1> QED BY <1>1, InitInv, StepInv, PTL DEF Spec

\* While a charge is sent, repeated or checked, and after a network error, the
\* session storage holds its key.
THEOREM KeyAlwaysKept == Spec => []KeyIsKept
  <1>1. PayInv => KeyIsKept
    BY DEF PayInv, PageInv, CallInv, StatusInv, Keyless, KeyIsKept
  <1> QED BY <1>1, InitInv, StepInv, PTL DEF Spec

\* A newer key leaves beside a charge nobody knows the outcome of only after the
\* page read the status of another attempt in place of its answer.
THEOREM NoKeyBesideTheUnknownEver == HistorySpec => []NoKeyBesideTheUnknown
  <1>1. HistoryInit => PayInv /\ HistoryInv
    BY InitInv DEF HistoryInit, Init, HistoryInv
  <1>2. PayInv /\ HistoryInv /\ [Next /\ Records]_<<vars, history>> => PayInv' /\ HistoryInv'
    <2>1. [Next /\ Records]_<<vars, history>> => [Next]_vars
      BY DEF vars
    <2> QED BY <2>1, StepInv, HistoryStep
  <1>3. ASSUME PayInv, HistoryInv PROVE NoKeyBesideTheUnknown
    <2> SUFFICES ASSUME NEW q \in net, NEW r \in net, q.key < r.key, ~misread PROVE ~Unanswered(q)
      BY DEF NoKeyBesideTheUnknown, NeverAnotherKey
    <2>1. minted \in Nat /\ q.key \in Nat /\ r.key \in Nat /\ q.key # 0
      BY <1>3, Bounds DEF PayInv, PageInv, PageType, ServiceType, Requests, Keys
    <2>2. q.key # attempt
      BY <1>3, <2>1 DEF HistoryInv
    <2> QED BY <1>3, <2>2 DEF HistoryInv
  <1> QED BY <1>1, <1>2, <1>3, PTL DEF HistorySpec

\* Only an answer takes the page out of an unknown outcome.
THEOREM UnknownAlwaysStays == Spec => UnknownStays
  <1>1. ASSUME PayInv, [Next]_vars
        PROVE  [(status \in Unknown /\ ~Reload)
                  => status' \in (OutcomePending \cup Settled \cup {"rejected"})]_vars
    BY <1>1, UnknownStep
  <1> QED BY <1>1, InitInv, StepInv, PTL DEF Spec, UnknownStays

\* The dialog of a bank page the buyer left stays closed.
THEOREM LeftAlwaysStaysLeft == Spec => LeftStaysLeft
  <1>1. ASSUME PayInv, [Next]_vars
        PROVE  [(left /\ ~Reload) => status' # "challenge"]_vars
    <2>1. left => status \in Unknown
      BY <1>1 DEF PayInv, PageInv, StatusInv, Unknown
    <2> QED BY <1>1, <2>1, UnknownStep
  <1> QED BY <1>1, InitInv, StepInv, PTL DEF Spec, LeftStaysLeft
===========================================================================

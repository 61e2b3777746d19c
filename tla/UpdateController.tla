------------------------- MODULE UpdateController -------------------------
(***************************************************************************)
(* createUpdateController of packages/pwa/src/update-controller.ts with    *)
(* the policy of update-policy.ts, in several tabs of one origin.          *)
(*                                                                         *)
(* Every tab runs a controller of its own, and a change of its options     *)
(* makes another in its place; the one that was stopped may still have a   *)
(* version check in flight, whose answer it acts on. Number 1 of a tab is  *)
(* the one that runs, the others are names for those that were stopped.    *)
(* The tabs share the local storage (since when the worker waits, the      *)
(* last dismissal, acceptance and attempt) and the registration, whose     *)
(* waiting worker a new deploy may replace.                                *)
(*                                                                         *)
(* Workers are numbered in the order they are deployed; 0 is no worker.    *)
(* The storage of one entry is {} or {time}. Whether a moment is safe      *)
(* (modal, edit in progress, idle) is chosen by the environment at each    *)
(* evaluation. The times are those of one clock that never goes back.      *)
(***************************************************************************)
EXTENDS Naturals, FiniteSets

CONSTANTS
    Tabs,            \* tabs of the same origin
    Controllers,     \* their controllers: pairs of a tab and a number
    Openings,        \* the sets of tabs that may be open
    Checking,        \* the tabs whose host passes options.versionCheck
    AcceptedTtl,     \* policy.acceptedTtlMs
    DismissTtl,      \* policy.dismissTtlMs
    AutoAfter,       \* policy.autoApplyAfterMs: {} (undefined) or {delay}
    StaleAfter,      \* policy.staleAutoApplyAfterMs: {} or {delay}
    MaxClock,        \* bound: the last instant
    MaxDeploys,      \* bound: number of the last build
    MaxDue,          \* bound: version checks in flight when a controller is stopped
    MaxClicks        \* bound: clicks on "Update" and "Later" together

ASSUME UpdateAssumption ==
    /\ AcceptedTtl \in Nat /\ DismissTtl \in Nat
    /\ AutoAfter \subseteq Nat /\ StaleAfter \subseteq Nat
    /\ MaxClock \in Nat /\ MaxDeploys \in Nat \ {0}
    /\ MaxDue \in Nat /\ MaxClicks \in Nat
    /\ Controllers \subseteq Tabs \X Nat /\ IsFiniteSet(Controllers)

VARIABLES
    now,        \* the clock
    published,  \* the build the server has
    active,     \* the worker that controls the pages
    waiting,    \* registration.waiting, 0 when there is none
    skip,       \* the waiting worker was sent SKIP_WAITING
    changed,    \* tabs whose controllerchange event is not dispatched yet
    store,      \* the local storage: since, dismissed, accepted, attempt
    ctl,        \* the controllers, each with what it knows of its page
    clicks,     \* clicks so far
    tries       \* ghost: automatic attempts per worker, and the first of the burst

browser == <<published, active, waiting, changed>>
vars == <<now, published, active, waiting, skip, changed, store, ctl, clicks, tries>>

Workers == 1..MaxDeploys
Times == 0..MaxClock
Cleared == [since |-> {}, dismissed |-> {}, accepted |-> {}, attempt |-> {}]

\* A controller just created, in a page of the given build, 0 for a tab that
\* is not open: no registration yet.  Of a stopped one, due are the answers of
\* checkVersion still to come, look the evaluation one of them called for, and
\* left (a ghost) that it was applying an update when it was stopped.
Created(build) ==
    [attached |-> FALSE, seen |-> 0, applying |-> FALSE, pending |-> FALSE,
     stale |-> FALSE, reloads |-> 0, armed |-> FALSE, fallback |-> FALSE,
     due |-> 0, look |-> FALSE, left |-> FALSE, build |-> build]

Init ==
    /\ now = 0 /\ published = 1 /\ active = 1 /\ waiting = 0
    /\ skip = FALSE /\ changed = {} /\ store = Cleared
    /\ \E open \in Openings :
          ctl = [c \in Controllers |-> Created(IF c[1] \in open THEN 1 ELSE 0)]
    /\ clicks = 0
    /\ tries = [w \in Workers |-> [n |-> 0, at |-> 0]]

---------------------------------------------------------------------------
(* The policy (update-policy.ts).                                          *)

\* isWithinTtl: the instant is recorded and less than ttl old.
Within(at, ttl) == \E a \in at : now - a < ttl

\* autoApplyThreshold reached: one of the delays in force has passed.
Ripe(since, stale) ==
    \E d \in AutoAfter \cup (IF stale THEN StaleAfter ELSE {}) :
        \E a \in since : now - a >= d

\* Variant: a safe moment is enough.
EagerDecision(s, stale, safe) ==
    IF safe THEN "apply" ELSE IF Within(s.dismissed, DismissTtl) THEN "none" ELSE "prompt"

\* decideUpdate, for a worker that waits.
Decision(s, stale, safe) ==
    CASE Within(s.accepted, AcceptedTtl) -> IF safe THEN "apply" ELSE "none"
      [] ~Within(s.accepted, AcceptedTtl) /\ safe /\ Ripe(s.since, stale) -> "apply"
      [] OTHER -> IF Within(s.dismissed, DismissTtl) THEN "none" ELSE "prompt"

---------------------------------------------------------------------------
(* The controller.                                                         *)

\* reloadOnce: the first call reloads the page, the next ones do nothing.
Reloading(r) == [r EXCEPT !.reloads = IF @ = 0 THEN 1 ELSE @]

\* A ghost step: one more automatic attempt at the waiting worker.
Counted(b) ==
    IF b.n > 0 /\ now - b.at < AcceptedTtl THEN [b EXCEPT !.n = @ + 1]
                                           ELSE [n |-> 1, at |-> now]

\* What applyNow leaves in the storage: no dismissal, an acceptance (never
\* renewed while it is valid) and the instant of the attempt.
Stamped(s) ==
    [s EXCEPT !.dismissed = {},
              !.accepted = IF Within(@, AcceptedTtl) THEN @ ELSE {now},
              !.attempt = {now}]

\* applyNow past its guard, by controller c whose record is r: the listener and
\* the fallback timer are set, and the waiting worker is told to activate.  With
\* no worker to tell, or when telling it throws, the page reloads at once.
Apply(c, r, s) ==
    LET on == [r EXCEPT !.applying = TRUE, !.pending = FALSE,
                        !.armed = TRUE, !.fallback = TRUE]
    IN  /\ store' = Stamped(s)
        /\ \/ waiting # 0 /\ skip' = TRUE /\ ctl' = [ctl EXCEPT ![c] = on]
           \/ UNCHANGED skip /\ ctl' = [ctl EXCEPT ![c] = Reloading(on)]

\* The storage after the worker was compared with the one last seen by this
\* instance: another one inherits nothing.
Inherited(seen, s) == IF seen \in {0, waiting} THEN s ELSE Cleared

\* Variant: the loop guard keeps the acceptance.
GuardedKeeps(s) == [s EXCEPT !.since = IF @ = {} THEN {now} ELSE @]

\* The loop guard: a recent attempt forgets the acceptance.
Guarded(s) ==
    [s EXCEPT !.accepted = IF Within(s.attempt, AcceptedTtl) THEN {} ELSE @,
              !.since = IF @ = {} THEN {now} ELSE @]

\* Variant: a recent attempt does not weigh on the decision.
PermittedAnyway(s, safe) == safe

\* Nothing is applied after a recent attempt, nor at an unsafe moment.
Permitted(s, safe) == safe /\ ~Within(s.attempt, AcceptedTtl)

\* evaluate, by controller c whose record is r (its registration is attached).
Evaluated(c, r, safe) ==
    LET s == Guarded(Inherited(r.seen, store))
        seen == [r EXCEPT !.seen = waiting]
        d == Decision(s, r.stale, Permitted(s, safe))
    IN  \/ /\ waiting = 0
           /\ store' = [Cleared EXCEPT !.dismissed = store.dismissed]
           /\ ctl' = [ctl EXCEPT ![c] = [seen EXCEPT !.pending = FALSE]]
           /\ UNCHANGED <<skip, tries>>
        \/ /\ waiting # 0 /\ r.applying
           /\ ctl' = [ctl EXCEPT ![c] = r]
           /\ UNCHANGED <<store, skip, tries>>
        \/ /\ waiting # 0 /\ ~r.applying /\ d = "apply"
           /\ Apply(c, seen, s)
           /\ tries' = [tries EXCEPT ![waiting] = Counted(@)]
        \/ /\ waiting # 0 /\ ~r.applying /\ d # "apply"
           /\ store' = s
           /\ ctl' = [ctl EXCEPT ![c] = [seen EXCEPT !.pending = (d = "prompt")]]
           /\ UNCHANGED <<skip, tries>>

\* The controller that runs in its page.
Running(c) == c[2] = 1 /\ ctl[c].build # 0

\* The interval, a visibility change, focus, an installed worker or the look
\* that follows update() evaluates; of a stopped controller, that look only.
Evaluate(c) ==
    /\ ctl[c].attached /\ (Running(c) \/ ctl[c].look)
    /\ \E safe \in BOOLEAN : Evaluated(c, [ctl[c] EXCEPT !.look = FALSE], safe)
    /\ UNCHANGED <<now, browser, clicks>>

\* attach: the registration is ready, and is evaluated at once.
Attach(c) ==
    /\ Running(c) /\ ~ctl[c].attached
    /\ \E safe \in BOOLEAN : Evaluated(c, [ctl[c] EXCEPT !.attached = TRUE], safe)
    /\ UNCHANGED <<now, browser, clicks>>

\* checkVersion: an answer arrives, of this moment or (two requests overtook
\* one another) of an earlier one since the page was loaded; stop cancels
\* none.  update() of a client found stale is the browser's, see Install; the
\* look that follows it is noted of a stopped controller (one that runs looks
\* at any time).
CheckVersion(c) ==
    \E latest \in ctl[c].build..published :
        LET old == ctl[c]
            stale == latest # old.build
            checks == stale /\ old.attached /\ (~old.stale \/ waiting = 0)
            r == IF Running(c) THEN [old EXCEPT !.stale = stale]
                 ELSE [old EXCEPT !.stale = stale, !.due = @ - 1, !.look = @ \/ checks]
        IN  /\ c[1] \in Checking /\ (Running(c) \/ old.due > 0) /\ r # old
            /\ IF checks \/ ~old.attached \/ stale = old.stale
               THEN ctl' = [ctl EXCEPT ![c] = r] /\ UNCHANGED <<store, skip, tries>>
               ELSE \E safe \in BOOLEAN : Evaluated(c, r, safe)
            /\ UNCHANGED <<now, browser, clicks>>

\* applyNow from the button.
Click(c) ==
    /\ clicks < MaxClicks /\ clicks' = clicks + 1
    /\ Running(c) /\ ctl[c].attached /\ ~ctl[c].applying
    /\ Apply(c, ctl[c], store)
    /\ UNCHANGED <<now, browser, tries>>

\* dismiss.
Dismiss(c) ==
    /\ clicks < MaxClicks /\ clicks' = clicks + 1
    /\ Running(c) /\ ctl[c].pending
    /\ store' = [store EXCEPT !.dismissed = {now}]
    /\ ctl' = [ctl EXCEPT ![c].pending = FALSE]
    /\ UNCHANGED <<now, browser, skip, tries>>

\* The controllerchange event reaches the page of tab p: whoever listens
\* there reloads it.
ControllerChange(p) ==
    /\ p \in changed /\ changed' = changed \ {p}
    /\ ctl' = [c \in Controllers |->
                  IF c[1] = p /\ ctl[c].armed
                  THEN Reloading([ctl[c] EXCEPT !.armed = FALSE]) ELSE ctl[c]]
    /\ UNCHANGED <<now, published, active, waiting, skip, store, clicks, tries>>

\* The fallback timer of applyNow.
Fallback(c) ==
    /\ ctl[c].fallback
    /\ ctl' = [ctl EXCEPT ![c] = Reloading([@ EXCEPT !.fallback = FALSE])]
    /\ UNCHANGED <<now, browser, skip, store, clicks, tries>>

\* Variant: stop forgets the fallback timer.
StoppedWithTimer(r) ==
    [r EXCEPT !.armed = FALSE, !.pending = FALSE,
              !.due = MaxDue, !.left = r.applying]

\* stop: the timers and the listener are gone; what the controller knew and
\* the version checks in flight are not.  (Nobody sees it prompt any more.)
Stopped(r) ==
    [r EXCEPT !.armed = FALSE, !.fallback = FALSE, !.pending = FALSE,
              !.due = MaxDue, !.left = r.applying]

\* The names of the page of c whose controller has nothing more to do, but
\* for answers that fail.
Spare(c) ==
    {d \in Controllers :
        /\ d[1] = c[1] /\ d[2] # 1 /\ ctl[d].build # 0
        /\ ~ctl[d].look /\ ~ctl[d].armed /\ ~ctl[d].fallback /\ ctl[d].reloads = 0}

\* The hook stops the controller and makes another in the same page (a change
\* of its options, not in the moment between reload() and the unload).  The
\* stopped one stays when checks are in flight; without any, or never
\* attached, it does nothing more.
Restart(c) ==
    /\ Running(c) /\ ctl[c].reloads = 0
    /\ \/ ctl' = [ctl EXCEPT ![c] = Created(@.build)]
       \/ /\ ctl[c].attached /\ c[1] \in Checking
          /\ \E d \in Spare(c) :
                ctl' = [ctl EXCEPT ![c] = Created(@.build), ![d] = Stopped(ctl[c])]
    /\ UNCHANGED <<now, browser, skip, store, clicks, tries>>

---------------------------------------------------------------------------
(* The browser and the server.                                             *)

\* The page comes back, served by the active worker.
Load(p) ==
    /\ \E c \in Controllers : c[1] = p /\ ctl[c].reloads > 0
    /\ ctl' = [c \in Controllers |-> IF c[1] = p THEN Created(active) ELSE ctl[c]]
    /\ changed' = changed \ {p}
    /\ UNCHANGED <<now, published, active, waiting, skip, store, clicks, tries>>

\* A build is published.
Deploy ==
    /\ published < MaxDeploys /\ published' = published + 1
    /\ UNCHANGED <<now, active, waiting, skip, changed, store, ctl, clicks, tries>>

\* An update check of a tab or of the browser installs it: it waits, in the
\* place of the one that waited.
Install ==
    /\ published \notin {active, waiting}
    /\ waiting' = published /\ skip' = FALSE
    /\ UNCHANGED <<now, published, active, changed, store, ctl, clicks, tries>>

\* The waiting worker obeys SKIP_WAITING (it may never do so).
Activate ==
    /\ waiting # 0 /\ skip
    /\ active' = waiting /\ waiting' = 0 /\ skip' = FALSE
    /\ changed' = {p \in Tabs : \E c \in Controllers : c[1] = p /\ Running(c)}
    /\ UNCHANGED <<now, published, store, ctl, clicks, tries>>

Tick ==
    /\ now < MaxClock /\ now' = now + 1
    /\ UNCHANGED <<browser, skip, store, ctl, clicks, tries>>

Next ==
    \/ \E c \in Controllers :
          \/ Evaluate(c) \/ Attach(c) \/ CheckVersion(c) \/ Click(c) \/ Dismiss(c)
          \/ Fallback(c) \/ Restart(c)
    \/ \E p \in Tabs : ControllerChange(p) \/ Load(p)
    \/ Deploy \/ Install \/ Activate \/ Tick

Spec == Init /\ [][Next]_vars

\* Events and timers are delivered, a reload completes and the registration
\* becomes ready; nobody owes a click, a deploy or an activation.
Fairness ==
    /\ \A c \in Controllers :
          WF_vars(Evaluate(c)) /\ WF_vars(Attach(c)) /\ WF_vars(Fallback(c))
    /\ \A p \in Tabs : WF_vars(ControllerChange(p)) /\ WF_vars(Load(p))

FairSpec == Spec /\ Fairness

---------------------------------------------------------------------------
(* Properties.                                                             *)

Instants == {{}} \cup {{a} : a \in Times}

Stores == [since : Instants, dismissed : Instants,
           accepted : Instants, attempt : Instants]
ControllerRecords ==
    [attached : BOOLEAN, seen : {0} \cup Workers, applying : BOOLEAN,
     pending : BOOLEAN, stale : BOOLEAN, reloads : Nat, armed : BOOLEAN,
     fallback : BOOLEAN, due : 0..MaxDue, look : BOOLEAN, left : BOOLEAN,
     build : {0} \cup Workers]

TypeOK ==
    /\ now \in Times /\ published \in Workers /\ active \in Workers
    /\ waiting \in {0} \cup Workers /\ skip \in BOOLEAN /\ changed \subseteq Tabs
    /\ store \in Stores /\ ctl \in [Controllers -> ControllerRecords]
    /\ clicks \in 0..MaxClicks
    /\ tries \in [Workers -> [n : Nat, at : Times]]

\* A controller reloads its page once and only for an update it applied: not
\* twice by the event and the timer that race (reloadOnce), not for an update
\* applied by another, and one that was stopped never for the update it was
\* applying then (it may for one that a late answer of checkVersion finds).
OneReload ==
    \A c \in Controllers :
        ctl[c].reloads > 0 => ctl[c].reloads = 1 /\ ctl[c].applying /\ ~ctl[c].left

\* The loop guard (README.md of the package): one automatic attempt at a
\* waiting worker per acceptedTtlMs.  True of one controller; with several, one
\* that still remembers the replaced worker erases the attempt of another.
OneAttempt == \A w \in Workers : tries[w].n <= 1

\* The controllers of the tabs that are open.
Here == {c \in Controllers : ctl[c].build # 0}

\* What the guard gives any number of tabs: as many attempts as there are
\* controllers to remember the replaced worker, stopped ones that a late answer
\* wakes among them, and no reload loop.
AttemptsAreBounded == \A w \in Workers : tries[w].n <= Cardinality(Here)

\* The stored acceptance never outlives the attempt stamped with it, so the
\* guard always comes first and the acceptance applies nothing by itself.
AcceptanceIsInert == Within(store.accepted, AcceptedTtl) => Within(store.attempt, AcceptedTtl)

\* Nothing is applied without a click before the stored age of the waiting
\* worker has reached a delay the host configured, by a stopped controller
\* neither (left: it was already applying when it was stopped): without
\* delays nothing is ever applied on its own.
NeverSilently ==
    [][\A c \in Controllers :
          (ctl'[c].applying /\ ~ctl[c].applying /\ ~ctl'[c].left /\ clicks' = clicks)
              => Ripe(store'.since, ctl'[c].stale)]_vars

\* An update never hangs: while a worker waits, or is being applied, a running
\* controller eventually reloads the page, or prompts, or was told "Later", or
\* has nothing more to apply.  Neither an acceptance nor an attempt that failed
\* silences the prompt, and applying never lasts (unless the controller is
\* replaced, or the page reloaded by another).
UpdateSettles ==
    \A c \in {d \in Controllers : d[2] = 1} :
        (ctl[c].attached /\ (waiting # 0 \/ ctl[c].applying))
            ~> \/ ctl[c].reloads > 0 \/ ~ctl[c].attached
               \/ /\ ~ctl[c].applying
                  /\ waiting = 0 \/ ctl[c].pending \/ Within(store.dismissed, DismissTtl)
=============================================================================

--------------------------- MODULE EmbeddedPayment ---------------------------
(***************************************************************************)
(* The card form of a shop (packages/storefront-react/src/payments/        *)
(* use-embedded-payment.ts), its transport (resilient-transport.ts), the   *)
(* shop's pay and status routes (server.ts) and the payment service behind *)
(* them, as its mock answers (packages/storefront/src/mock/index.ts).      *)
(*                                                                         *)
(* A charge carries a key, minted once per attempt and kept in the session *)
(* storage, and a card token, good for one use.  It may be late, its       *)
(* answer may be lost, and meanwhile the buyer reloads, leaves the bank's  *)
(* page, retries, picks another way to pay, or the provider's form breaks. *)
(* Keys and tokens are numbered as they are minted.                        *)
(*                                                                         *)
(* A result is what the provider says of an attempt: "paid", "failed",     *)
(* "pending" (under review), "challenge" (a bank page for the dialog),     *)
(* "blind" (a challenge with no page) or "action" (a step run by the       *)
(* provider's SDK).  status "verifying" is the hook's blocked with         *)
(* payment_in_progress, "refused" its blocked with any other error.        *)
(***************************************************************************)
EXTENDS Naturals

CONSTANTS
  MaxKeys,     \* bound: keys minted
  MaxCards,    \* bound: cards tokenised
  MaxTotals,   \* bound: changes of the total
  OpenKinds,   \* results that leave an attempt open
  Repeats,     \* requests a transport adds to the first
  AutoRetries  \* submits the hook adds to the first

ASSUME BoundsAssumption ==
  {MaxKeys, MaxCards, MaxTotals, Repeats, AutoRetries} \subseteq Nat
ASSUME KindsAssumption == OpenKinds \subseteq {"pending", "challenge", "blind", "action"}

VARIABLES
  status, watch,  \* watch: the loop that reads the payment, "off", "on" or "over" (its window closed)
  left,           \* the buyer left the bank's page, or there was none
  initial,        \* the open challenge found by the page load, until it is taken up: {} or {result}
  running,        \* the provider's SDK runs an action
  pending,        \* what retry() sends again: {} or {[token, total]}
  call,           \* the submit in flight: {} or {record}
  form,           \* "none", "creating" or "mounted"
  remount,        \* the form is to be mounted: "no", "asked", or "sync" (an update failed)
  updating,       \* a change of total on its way into the form: {} or {[total, live]}
  applied, total, \* the total of the form, and of the page
  enabled,
  attempt,        \* the key in the session storage, 0 for none
  minted, cards,
  net,            \* requests on their way
  due, ops,       \* the server's total, and its attempts by key
  latest,         \* the last key it made an attempt of
  session         \* the cookie that lets the status route find the checkout

pageVars == <<status, watch, left, initial, running, pending, call>>
formVars == <<form, remount, updating, applied, total, enabled>>
keyVars  == <<attempt, minted, cards>>
opsVars  == <<due, ops, latest, session>>
vars == <<pageVars, formVars, keyVars, net, opsVars>>

Keys == 1..MaxKeys
Open == {"pending", "challenge", "blind", "action"}
Results == {"paid", "failed"} \cup OpenKinds
Challenges == {"challenge", "blind", "action"}
Unknown == {"challenge", "network_error", "verifying"}
OutcomePending == Unknown \cup {"processing"}
Settled == {"approved", "in_review"}
Stages == {"update", "collect", "send", "backoff", "read", "action"}

Requests == [key : Keys, token : 1..MaxCards, total : 0..MaxTotals]
Calls == [stage : Stages, mine : BOOLEAN, key : 0..MaxKeys, token : 0..MaxCards,
          total : 0..MaxTotals, tries : 0..Repeats, rounds : 0..AutoRetries,
          last : {"transient", "in_progress"}]
NoAttempt == [st |-> "none", first |-> "none", token |-> 0]

PageLoad(open) ==
  /\ status' = "idle" /\ watch' = "off" /\ left' = FALSE /\ running' = FALSE
  /\ initial' = open /\ pending' = {} /\ call' = {} /\ updating' = {}
  /\ form' = "none" /\ remount' = "asked" /\ enabled' = TRUE /\ applied' = 0

Init ==
  /\ status = "idle" /\ watch = "off" /\ left = FALSE /\ running = FALSE
  /\ initial = {} /\ pending = {} /\ call = {} /\ updating = {}
  /\ form = "none" /\ remount = "asked" /\ enabled = TRUE /\ applied = 0
  /\ total = 0 /\ attempt = 0 /\ minted = 0 /\ cards = 0 /\ net = {}
  /\ due = 0 /\ ops = [k \in Keys |-> NoAttempt] /\ latest = 0
  /\ session = FALSE

-----------------------------------------------------------------------------
(***************************************************************************)
(* What the hook does with a result.                                       *)
(***************************************************************************)

Loop(s) == CASE s \in {"network_error", "verifying"} -> "verify"
             [] s = "challenge" -> "challenge"
             [] s = "in_review" -> "review"
             [] OTHER -> "none"

\* The loops are effects of the status: a status of another loop ends the one
\* that runs and starts its own.
SetStatus(s) ==
  /\ status' = s
  /\ watch' = IF Loop(s) = Loop(status) THEN watch ELSE IF Loop(s) = "none" THEN "off" ELSE "on"

\* A form taken off the screen: its submit is withdrawn, its update forgotten.
FormGone ==
  /\ call' = {[c EXCEPT !.mine = FALSE] : c \in call}
  /\ updating' = {[u EXCEPT !.live = FALSE] : u \in updating}

Asked == IF remount = "no" THEN "asked" ELSE remount

\* verifyPending
VerifyPending(f) ==
  /\ pending' = {} /\ left' = TRUE /\ running' = FALSE /\ SetStatus("verifying")
  /\ form' = f /\ remount' = (IF status \in Settled THEN Asked ELSE remount)
  /\ UNCHANGED attempt

\* runAction, until the SDK ends.
RunAction(f) ==
  /\ pending' = {} /\ left' = FALSE /\ running' = TRUE /\ SetStatus("processing")
  /\ form' = f /\ remount' = (IF status \in Settled THEN Asked ELSE remount)
  /\ UNCHANGED attempt

\* Variant: whatever is not a refusal is an approval.
EagerOutcome(r) == CASE r = "failed" -> "rejected" [] r = "challenge" -> "challenge" [] OTHER -> "approved"

\* paymentOutcome
Outcome(r) == CASE r = "paid" -> "approved" [] r = "failed" -> "rejected"
                [] r = "challenge" -> "challenge" [] OTHER -> "in_review"

\* finish: a decided attempt gives up its key, a refused one asks for a fresh
\* form; a settled payment takes the form off the page.
Finish(r, f) ==
  IF r = "action" THEN RunAction(f)
  ELSE IF r = "blind" THEN VerifyPending(f)
  ELSE /\ pending' = {} /\ left' = FALSE /\ running' = FALSE /\ SetStatus(Outcome(r))
       /\ attempt' = IF r \in {"paid", "failed"} THEN 0 ELSE attempt
       /\ form' = IF Outcome(r) \in Settled THEN "none" ELSE f
       /\ remount' = IF r = "failed" \/ (status \in Settled /\ Outcome(r) \notin Settled)
                     THEN Asked ELSE remount

\* syncAmount: a new total goes into the form unless something is going on, an
\* update of before (u) included.
SyncFrom(u) ==
  updating' = IF /\ form' = "mounted" /\ call' = {} /\ u = {} /\ remount' # "sync"
                 /\ ~running' /\ status' \notin OutcomePending /\ initial' = {}
                 /\ applied' # total'
              THEN {[total |-> total', live |-> TRUE]} ELSE u

Sync == SyncFrom(updating)

-----------------------------------------------------------------------------
(***************************************************************************)
(* The provider's form.                                                    *)
(***************************************************************************)

\* Variant: a mount shows "loading" whatever the status.
MountOverAnything ==
  /\ enabled /\ remount # "no" /\ status \notin Settled
  /\ form' = "creating" /\ remount' = "no" /\ applied' = total /\ FormGone
  /\ SetStatus("loading")
  /\ UNCHANGED <<left, initial, running, pending, total, enabled, keyVars, net, opsVars>>

\* The mount effect, the cleanup of the one before included.
Mount ==
  /\ enabled /\ remount # "no" /\ status \notin Settled
  /\ form' = "creating" /\ remount' = "no" /\ applied' = total /\ FormGone
  /\ SetStatus(IF status \in OutcomePending THEN status ELSE "loading")
  /\ UNCHANGED <<left, initial, running, pending, total, enabled, keyVars, net, opsVars>>

\* The form is ready: a challenge from before the reload goes first.
FormReady ==
  /\ form = "creating"
  /\ initial' = {}
  /\ IF initial = {}
     THEN /\ SetStatus(IF status = "loading" THEN "ready" ELSE status)
          /\ form' = "mounted"
          /\ UNCHANGED <<left, running, pending, remount, attempt>>
     ELSE \E r \in initial : Finish(r, "mounted")
  /\ UNCHANGED <<call, applied, total, enabled, minted, cards, net, opsVars>>
  /\ Sync

\* fail: the SDK or the form breaks, or is not ready in time.
FormFails ==
  /\ form # "none"
  /\ FormGone /\ initial' = {}
  /\ IF initial # {} THEN \E r \in initial : Finish(r, "none")
     ELSE /\ form' = "none"
          /\ SetStatus(IF running \/ status \in Unknown THEN status ELSE "fallback")
          /\ UNCHANGED <<left, running, pending, remount, attempt>>
  /\ applied' = 0
  /\ UNCHANGED <<total, enabled, minted, cards, net, opsVars>>

\* Another way to pay is picked.
Disable ==
  /\ enabled /\ enabled' = FALSE
  /\ FormGone /\ applied' = 0 /\ initial' = {}
  /\ IF initial # {} THEN \E r \in initial : Finish(r, "none")
     ELSE /\ form' = "none"
          /\ SetStatus(IF status \in {"loading", "ready"} THEN "idle" ELSE status)
          /\ UNCHANGED <<left, running, pending, remount, attempt>>
  /\ UNCHANGED <<total, minted, cards, net, opsVars>>

\* The card is picked again.
Enable ==
  /\ ~enabled /\ enabled' = TRUE /\ remount' = Asked
  /\ UNCHANGED <<pageVars, form, updating, applied, total, keyVars, net, opsVars>>

\* The page renders the server's total.
LearnTotal ==
  /\ total # due /\ total' = due
  /\ UNCHANGED <<pageVars, form, remount, applied, enabled, keyVars, net, opsVars>>
  /\ Sync

\* submit waits for the update on its way, whatever comes of it.
Woken ==
  IF \E c \in call : c.stage = "update"
  THEN call' = {[c EXCEPT !.stage = "collect"] : c \in call} /\ SetStatus("processing")
  ELSE UNCHANGED <<call, status, watch>>

\* update resolves, be the form still there or not: its total is noted (a form
\* that is being created notes its own when it is there), and the form of now
\* is updated once more when the total is another.
UpdateDone == \E u \in updating :
  /\ applied' = IF form = "creating" THEN applied ELSE u.total
  /\ UNCHANGED <<left, initial, running, pending, form, remount, total, enabled, keyVars, net,
                 opsVars>>
  /\ IF u.live /\ u.total # total
     THEN updating' = {[u EXCEPT !.total = total]} /\ UNCHANGED <<call, status, watch>>
     ELSE Woken /\ SyncFrom({})

\* update fails, or the provider has none: its form is mounted again.
UpdateFails == \E u \in updating :
  /\ remount' = IF u.live THEN "sync" ELSE remount
  /\ UNCHANGED <<left, initial, running, pending, form, applied, total, enabled, keyVars, net,
                 opsVars>>
  /\ Woken /\ SyncFrom({})

-----------------------------------------------------------------------------
(***************************************************************************)
(* submit, send and the transport.                                         *)
(***************************************************************************)

NewCall(stage) == [stage |-> stage, mine |-> TRUE, key |-> 0, token |-> 0, total |-> total,
                   tries |-> 0, rounds |-> 0, last |-> "transient"]

\* submit: PAY is pressed.
Submit ==
  /\ call = {} /\ initial = {} /\ ~running /\ form = "mounted" /\ status = "ready"
  /\ IF updating = {} THEN call' = {NewCall("collect")} /\ SetStatus("processing")
     ELSE call' = {NewCall("update")} /\ UNCHANGED <<status, watch>>
  /\ UNCHANGED <<left, initial, running, pending, formVars, keyVars, net, opsVars>>

\* Variant: every submit, and every retry, mints a key.
FreshAttempt == minted + 1

\* readAttempt
ReadAttempt == IF attempt # 0 THEN attempt ELSE minted + 1

Sent(c) ==
  /\ call' = {[c EXCEPT !.stage = "send"]}
  /\ net' = net \cup {[key |-> c.key, token |-> c.token, total |-> c.total]}

\* The card is tokenised, and the charge leaves with the key of the attempt.
Collected == \E c \in call :
  /\ c.stage = "collect" /\ c.mine
  /\ cards < MaxCards /\ ReadAttempt \in Keys
  /\ cards' = cards + 1
  /\ attempt' = ReadAttempt
  /\ minted' = IF ReadAttempt > minted THEN ReadAttempt ELSE minted
  /\ Sent([c EXCEPT !.key = ReadAttempt, !.token = cards + 1])
  /\ UNCHANGED <<status, watch, left, initial, running, pending, formVars, opsVars>>

\* Variant: a withdrawn submit leaves the status to whoever withdrew it.
NotCollectedQuietly == \E c \in call :
  /\ c.stage = "collect"
  /\ call' = {}
  /\ SetStatus(IF c.mine THEN "ready" ELSE status)
  /\ UNCHANGED <<left, initial, running, pending, form, remount, applied, total, enabled, keyVars,
                 net, opsVars>>
  /\ Sync

\* The buyer's card data are wrong, or the form went away while it tokenised:
\* nothing is sent.
NotCollected == \E c \in call :
  /\ c.stage = "collect"
  /\ call' = {}
  /\ SetStatus(IF c.mine THEN "ready" ELSE IF status = "processing" THEN "idle" ELSE status)
  /\ UNCHANGED <<left, initial, running, pending, form, remount, applied, total, enabled, keyVars,
                 net, opsVars>>
  /\ Sync

\* retry: the same data under the key of the attempt.
Retry == \E p \in pending :
  /\ call = {} /\ ReadAttempt \in Keys
  /\ SetStatus("processing")
  /\ attempt' = ReadAttempt
  /\ minted' = IF ReadAttempt > minted THEN ReadAttempt ELSE minted
  /\ Sent([NewCall("send") EXCEPT !.key = ReadAttempt, !.token = p.token, !.total = p.total])
  /\ UNCHANGED <<left, initial, running, pending, formVars, cards, opsVars>>

\* Variant: a request without an answer gives up the key.
KeyDropped(c, why) ==
  /\ call' = {[c EXCEPT !.stage = IF c.tries < Repeats THEN "backoff" ELSE "read", !.last = why]}
  /\ attempt' = 0
  /\ UNCHANGED <<status, watch, left, initial, running, pending, formVars, minted, cards>>

\* A failure that says nothing of the payment: the same request again, then
\* the status is read.
NoAnswer(c, why) ==
  /\ call' = {[c EXCEPT !.stage = IF c.tries < Repeats THEN "backoff" ELSE "read", !.last = why]}
  /\ UNCHANGED <<status, watch, left, initial, running, pending, formVars, keyVars>>

\* No answer, a 5xx, a proxy's page.  The request may still be on its way.
Transient == \E c \in call :
  /\ c.stage = "send" /\ NoAnswer(c, "transient")
  /\ net' \in {net, net \ {[key |-> c.key, token |-> c.token, total |-> c.total]}}
  /\ UNCHANGED <<opsVars>>

Repeat == \E c \in call :
  /\ c.stage = "backoff" /\ c.tries < Repeats
  /\ Sent([c EXCEPT !.tries = c.tries + 1])
  /\ UNCHANGED <<status, watch, left, initial, running, pending, formVars, keyVars, opsVars>>

\* What a read of the status says: "none" without the session cookie.
View == IF ~session \/ latest = 0 THEN "none" ELSE ops[latest].st

\* isResolvedAttempt
Resolved(r) == r \notin {"none", "pending"}

\* The call ends with a result; an action keeps it until the SDK ends.
Ends(r) == \E c \in call :
  /\ Finish(r, form)
  /\ call' = IF r = "action" THEN {[c EXCEPT !.stage = "action"]} ELSE {}
  /\ UNCHANGED <<initial, applied, total, enabled, minted, cards>>
  /\ Sync

\* resolveByStatus, and what send does when it says nothing.
ReadStatus == \E c \in call :
  /\ c.stage = "read"
  /\ \/ Resolved(View) /\ Ends(View) /\ UNCHANGED net
     \/ /\ c.last = "transient" /\ c.rounds < AutoRetries
        /\ Sent([c EXCEPT !.rounds = c.rounds + 1, !.tries = 0])
        /\ UNCHANGED <<status, watch, left, initial, running, pending, formVars, keyVars>>
     \/ /\ c.last = "transient" /\ c.rounds = AutoRetries
        /\ call' = {} /\ pending' = {[token |-> c.token, total |-> c.total]}
        /\ SetStatus("network_error")
        /\ UNCHANGED <<left, initial, running, form, remount, applied, total, enabled, keyVars, net>>
        /\ Sync
     \/ /\ c.last = "in_progress"
        /\ call' = {} /\ pending' = {} /\ SetStatus("verifying")
        /\ UNCHANGED <<left, initial, running, form, remount, applied, total, enabled, keyVars, net>>
        /\ Sync
  /\ UNCHANGED <<opsVars>>

\* send with an answer: a result, an open payment, a refusal that asks for
\* another attempt, or one that closes the form.
Answered(c, a) ==
  CASE a \in Results -> Ends(a)
    [] a = "in_progress" -> NoAnswer(c, a)
    [] OTHER ->
         /\ call' = {} /\ pending' = {}
         /\ attempt' = IF a = "refused" THEN attempt ELSE 0
         /\ remount' = IF a = "refused" THEN remount ELSE Asked
         /\ SetStatus(IF a = "refused" THEN "refused" ELSE "ready")
         /\ UNCHANGED <<left, initial, running, form, applied, total, enabled, minted, cards>>
         /\ Sync

\* The SDK ends, well or badly: only the server's word counts.
ActionDone ==
  /\ running
  /\ IF call = {}
     THEN /\ \/ Resolved(View) /\ View # "action" /\ Finish(View, form)
             \/ VerifyPending(form)
          /\ UNCHANGED <<call, initial, updating, applied, total, enabled, minted, cards>>
     ELSE \/ Resolved(View) /\ View # "action" /\ Ends(View)
          \/ /\ VerifyPending(form) /\ call' = {}
             /\ UNCHANGED <<initial, applied, total, enabled, minted, cards>>
             /\ Sync
  /\ UNCHANGED <<net, opsVars>>

-----------------------------------------------------------------------------
(***************************************************************************)
(* After the call.                                                         *)
(***************************************************************************)

\* Variant: a challenge the buyer left is news.
NewsAnyway(v) == CASE Loop(status) = "challenge" -> v \notin {"none", "challenge"}
                   [] Loop(status) = "review" -> v \notin {"none", "pending"}
                   [] OTHER -> Resolved(v)

\* What ends each loop.  A challenge the buyer left is not an answer.
News(v) == CASE Loop(status) = "challenge" -> v \notin {"none", "challenge"}
             [] Loop(status) = "review" -> v \notin {"none", "pending"}
             [] OTHER -> Resolved(v) /\ ~(left /\ v \in Challenges)

PollAnswers ==
  /\ watch = "on" /\ News(View)
  /\ Finish(View, form)
  /\ UNCHANGED <<initial, call, applied, total, enabled, minted, cards, net, opsVars>>
  /\ IF Loop(status) = "verify" THEN Sync ELSE UNCHANGED updating

WindowCloses ==
  /\ watch = "on" /\ watch' = "over"
  /\ UNCHANGED <<status, left, initial, running, pending, call, formVars, keyVars, net, opsVars>>

Recheck ==
  /\ watch = "over" /\ status # "challenge" /\ watch' = "on"
  /\ UNCHANGED <<status, left, initial, running, pending, call, formVars, keyVars, net, opsVars>>

CancelChallenge ==
  /\ status = "challenge"
  /\ left' = TRUE /\ SetStatus("verifying")
  /\ UNCHANGED <<initial, running, pending, call, formVars, keyVars, net, opsVars>>

\* The page is left and loaded again: the key and the cookie stay, an open
\* challenge is read with the payment's configuration.
Reload ==
  /\ PageLoad({View} \cap Challenges)
  /\ total' = due
  /\ UNCHANGED <<keyVars, net, opsVars>>

-----------------------------------------------------------------------------
(***************************************************************************)
(* The payment service.                                                    *)
(***************************************************************************)

Live(k) == ops[k].st \in Open \cup {"paid"}

\* One attempt at a time, and none once the order is paid.
Free(r) == \A k \in Keys : ~Live(k)

Record(r, res) ==
  /\ ops' = [ops EXCEPT ![r.key] = [st |-> res, first |-> res, token |-> r.token]]
  /\ latest' = r.key

\* POST /checkouts/:id/payment: a known key gets the answer of its first
\* request, whatever the payment it comes with.
Charge(r, a) ==
  IF ops[r.key].st # "none"
  THEN a = ops[r.key].first /\ UNCHANGED <<ops, latest>>
  ELSE IF r.total # due THEN a = "mismatch" /\ UNCHANGED <<ops, latest>>
  ELSE IF ~Free(r) THEN a = "in_progress" /\ UNCHANGED <<ops, latest>>
  ELSE \/ a \in Results /\ Record(r, a)
       \/ a = "generic" /\ UNCHANGED <<ops, latest>>

\* A request arrives, a copy of it may still be on its way; the shop's limiter
\* may refuse it, and its answer reaches the call that waits for it or nobody.
Arrives(r) == \E a \in Results \cup {"generic", "mismatch", "in_progress", "refused"} :
  /\ net' \in {net, net \ {r}}
  /\ IF a = "refused" THEN UNCHANGED <<ops, latest>> ELSE Charge(r, a)
  /\ \/ UNCHANGED <<pageVars, formVars, keyVars, session>>
     \/ \E c \in call :
          /\ c.stage = "send" /\ c.key = r.key /\ c.token = r.token
          /\ session' = (session \/ a # "refused")
          /\ Answered(c, a)
  /\ UNCHANGED due

\* The bank decides.
BankSettles(k) ==
  /\ ops[k].st \in Open
  /\ \E st \in {"paid", "failed"} : ops' = [ops EXCEPT ![k].st = st]
  /\ UNCHANGED <<pageVars, formVars, keyVars, net, due, latest, session>>

\* The order changes while the cart is not an order yet.
ChangeTotal ==
  /\ due < MaxTotals /\ latest = 0 /\ due' = due + 1
  /\ UNCHANGED <<pageVars, formVars, keyVars, net, ops, latest, session>>

-----------------------------------------------------------------------------
FormStep == Mount \/ FormReady \/ FormFails \/ Disable \/ Enable \/ LearnTotal
              \/ UpdateDone \/ UpdateFails
CallStep == Submit \/ Collected \/ NotCollected \/ Retry \/ Transient \/ Repeat \/ ReadStatus
              \/ ActionDone
WatchStep == PollAnswers \/ WindowCloses \/ Recheck \/ CancelChallenge
ServiceStep == ChangeTotal \/ (\E r \in net : Arrives(r)) \/ (\E k \in Keys : BankSettles(k))
Next == FormStep \/ CallStep \/ WatchStep \/ ServiceStep \/ Reload

Spec == Init /\ [][Next]_vars

\* Every wait has an end: the provider's form answers (collect, update and the
\* SDK's action have no timeout of the hook's own: this is assumed of the
\* provider), a request is answered or fails (the browser's doing: the page sets
\* no timeout either), the timers fire.  The buyer, the bank and the network owe
\* nothing.
Fairness ==
  /\ WF_vars(Mount) /\ WF_vars(FormReady \/ FormFails) /\ WF_vars(UpdateDone \/ UpdateFails)
  /\ WF_vars(Collected \/ NotCollected) /\ WF_vars(Transient) /\ WF_vars(Repeat)
  /\ WF_vars(ReadStatus) /\ WF_vars(ActionDone) /\ WF_vars(WindowCloses)
FairSpec == Spec /\ Fairness

-----------------------------------------------------------------------------
(***************************************************************************)
(* Properties.                                                             *)
(***************************************************************************)

\* The page, the requests and the attempts have the shapes declared above.
TypeOK ==
  /\ status \in {"idle", "loading", "ready", "rejected", "refused", "fallback"}
                  \cup OutcomePending \cup Settled
  /\ watch \in {"off", "on", "over"} /\ {left, running, enabled, session} \subseteq BOOLEAN
  /\ initial \subseteq Challenges /\ call \subseteq Calls
  /\ pending \subseteq [token : 1..MaxCards, total : 0..MaxTotals]
  /\ form \in {"none", "creating", "mounted"} /\ remount \in {"no", "asked", "sync"}
  /\ updating \subseteq [total : 0..MaxTotals, live : BOOLEAN]
  /\ {applied, total, due} \subseteq 0..MaxTotals
  /\ {attempt, minted, latest} \subseteq 0..MaxKeys /\ cards \in 0..MaxCards
  /\ net \subseteq Requests
  /\ ops \in [Keys -> [st : Results \cup {"none"}, first : Results \cup {"none"},
                       token : 0..MaxCards]]

\* The page says "approved" only of a payment the service has: neither the
\* SDK's word nor an unknown state is ever taken for one (runAction).
ApprovedIsPaid == status = "approved" => \E k \in Keys : ops[k].st = "paid"

\* While a charge is sent, repeated or checked, the session storage holds its
\* key: a reload, or retry(), finds the attempt the service may already have.
KeyIsKept ==
  /\ \A c \in call : c.key # 0 => attempt = c.key
  /\ status = "network_error" => attempt # 0

\* A card token goes out under one key only, whatever retry() and the loops
\* do: no card is charged twice because an answer was lost.
OneKeyPerCard ==
  \A r \in net :
    /\ \A q \in net : q.token = r.token => q.key = r.key
    /\ \A k \in Keys : ops[k].token = r.token => k = r.key

\* Forms that mount, break, change total or go away never take the page out of
\* an unknown outcome: only an answer does (comments of Mount and fail).
UnknownStays ==
  [][(status \in Unknown /\ ~Reload)
       => status' \in (OutcomePending \cup Settled \cup {"rejected"})]_vars

\* The dialog of a bank page the buyer left is not opened again by a status
\* that still says "challenge" (cancelChallenge).
LeftStaysLeft == [][(left /\ ~Reload) => status' # "challenge"]_vars

\* "Processing" ends: no order of failures, repeats and readings keeps PAY
\* locked for ever.
NeverStuck == (status = "processing") ~> (status # "processing")

\* After a refused card the buyer gets a form again, or another way to pay.
FormComesBack == (status = "rejected") ~> (status # "rejected" \/ ~enabled)

\* "idle: no client / disabled / not hydrated" (EmbeddedPaymentStatus): there
\* is no form then.  A form mounted while the last one tokenised stays idle,
\* and PAY is dead.
IdleHasNoForm == (status = "idle" /\ call = {}) => form # "mounted"

\* "no redirect offered" once something reached the server (fail): a form that
\* breaks while the charge is sent, and not only tokenised, falls back.
NoRedirectOverACharge == status = "fallback" => \A c \in call : c.stage \in {"update", "collect"}
=============================================================================

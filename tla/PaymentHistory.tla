-------------------------- MODULE PaymentHistory ---------------------------
(***************************************************************************)
(* The card form with two history variables that no action reads: which    *)
(* keys the page was told the outcome of, and whether it gave a key up for *)
(* the outcome of another one.                                             *)
(***************************************************************************)
EXTENDS EmbeddedPayment

VARIABLES
  told,    \* keys of which a charge was answered to the call that waited for it
  misread  \* a key was given up on a status that was not of its own attempt

history == <<told, misread>>

\* The keys of the calls this step answers for good: "in_progress", or no
\* answer, has them repeated or read instead.
JustTold ==
  {c.key : c \in {d \in call : /\ d.stage = "send" /\ \E r \in net : Arrives(r)
                               /\ \A e \in call' : e.stage = "action"}}

Records ==
  /\ told' = told \cup JustTold
  /\ misread' = (misread \/ (/\ attempt # 0 /\ attempt' = 0 /\ attempt \notin JustTold
                             /\ Resolved(View) /\ latest # attempt))

HistoryInit == Init /\ told = {} /\ misread = FALSE
HistorySpec == HistoryInit /\ [][Next /\ Records]_<<vars, history>>
FairHistorySpec == HistorySpec /\ Fairness

-----------------------------------------------------------------------------
\* A charge whose outcome the page was not told, and which the service has not
\* made an attempt of: it may still be one.
Unanswered(r) == r.key \notin told /\ ops[r.key].st = "none"

\* "A payment whose outcome is unknown is NEVER charged with another key"
\* (resilient-transport.ts:5-6): no charge is on its way under a newer key than
\* one that may still be charged.
NeverAnotherKey == \A q, r \in net : q.key < r.key => ~Unanswered(q)

\* What the code does keep of it: over lost answers, repeats, retries, reloads
\* and forms that break, a newer key leaves beside an unanswered charge only
\* after the page read the status of another attempt in place of its answer.
NoKeyBesideTheUnknown == misread \/ NeverAnotherKey
=============================================================================

---------------------------- MODULE WriteScreen ----------------------------
(***************************************************************************)
(* What an optimistic write promises to the screen that uses it            *)
(* (packages/runtime-react/src/use-optimistic-mutation.ts, lines 77-82):   *)
(* each call is shown at once, calls are answered in call order, only the  *)
(* answer to the latest one changes what is shown, and a rejected latest   *)
(* call leaves the last value the server confirmed.                        *)
(***************************************************************************)
EXTENDS Naturals, Sequences

CONSTANTS
  Variables,        \* what a call may ask for
  Docs,             \* the values of the resource
  Undefined,        \* nothing is loaded, nothing is shown
  Optimistic(_, _)  \* what the screen shows for a value and a call

VARIABLES
  screen,  \* what is shown
  known,   \* the last value of the resource the server told
  calls    \* the calls that await an answer, in call order

vars == <<screen, known, calls>>

Init ==
  /\ known \in Docs
  /\ screen \in {known, Undefined}
  /\ calls = <<>>

\* A call is shown at once; it may replace the latest call if that one has
\* not left yet (debounce), and repeats of the latest call are not calls.
Call(v) ==
  /\ calls # <<>> => calls[Len(calls)] # v
  /\ screen' = IF Optimistic(screen, v) = Undefined THEN screen ELSE Optimistic(screen, v)
  /\ \/ calls' = Append(calls, v)
     \/ /\ calls # <<>>
        /\ calls' = [calls EXCEPT ![Len(calls)] = v]
  /\ UNCHANGED known

\* The oldest call is confirmed with the resulting resource.
Confirm(doc) ==
  /\ calls # <<>>
  /\ calls' = Tail(calls)
  /\ known' = doc
  /\ screen' = IF Len(calls) = 1 THEN doc ELSE screen

\* The oldest call failed.
Reject ==
  /\ calls # <<>>
  /\ calls' = Tail(calls)
  /\ screen' = IF Len(calls) = 1 /\ screen # Undefined THEN known ELSE screen
  /\ UNCHANGED known

\* The resource is read again while no call awaits an answer.
Refresh(doc) ==
  /\ calls = <<>>
  /\ known' = doc
  /\ screen' = doc
  /\ UNCHANGED calls

Next ==
  \/ \E v \in Variables : Call(v)
  \/ \E doc \in Docs : Confirm(doc) \/ Refresh(doc)
  \/ Reject

Spec == Init /\ [][Next]_vars
=============================================================================

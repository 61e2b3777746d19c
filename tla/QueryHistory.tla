---------------------------- MODULE QueryHistory ----------------------------
(***************************************************************************)
(* QueryBatch with a history of the batches that were overtaken.           *)
(*                                                                         *)
(* A part that comes back as not_modified is answered with the copy that   *)
(* is remembered when it lands, which need not be the copy whose etag was  *)
(* sent: an older batch may have landed meanwhile and left older rows in   *)
(* its place (query-batch.ts 347-354).  No action reads the history.       *)
(***************************************************************************)
EXTENDS QueryBatch

VARIABLE overtaken  \* readers whose batch travelled while that happened

\* The readers of a batch in flight which sent the etag of a copy newer than
\* the one remembered.
Outdated ==
  {r \in Readers : \E i \in DOMAIN batches :
      /\ r \in batches[i].readers
      /\ \E e \in batches[i].inm["t"] : \E h \in partCache[batches[i].scope]["t"] : h.rows < e.rows}

Records ==
  overtaken' = {r \in overtaken \cup Outdated' : at'[r] \in {"travelling", "batch"}}

HistoryInit == Init /\ overtaken = {}

HistorySpec == HistoryInit /\ [][Next /\ Records]_<<vars, overtaken>>

-----------------------------------------------------------------------------
(***************************************************************************)
(* Properties.                                                             *)
(***************************************************************************)

\* A list handed by the batch shows every save that the server had when it was
\* asked for ("the refresh after a save reads the saved row"), whichever way
\* batches, saves and GETs overtake one another: unless an older answer took
\* the place of the copy whose etag was sent.
RowsAreFresh ==
  \A r \in Readers \ overtaken : at[r] \in {"memory", "batch"} /\ ask[r].token = "t" =>
     \A a \in got[r] : a.rows >= ask[r].since

\* Nothing is asked for after the rows of now.
AsksArePast == \A r \in Readers : ask[r].since <= rows

\* An answer on its way is not older than what its readers waited for.
AnswersAreFresh ==
  \A i \in DOMAIN batches : \A a \in batches[i].answer :
     a.rows <= rows /\ \A r \in batches[i].readers : ask[r].since <= a.rows

\* A list is remembered once, and unless it was overtaken a batch in flight
\* sent the etag of no newer one: that is what not_modified is answered with.
HeldIsNewer ==
  /\ \A s \in Identities : \A h, k \in partCache[s]["t"] : h.rows = k.rows
  /\ \A i \in DOMAIN batches : ~(batches[i].readers \subseteq overtaken) =>
       \A e \in batches[i].inm["t"] : \A h \in partCache[batches[i].scope]["t"] : e.rows <= h.rows

\* The history is of reads that the batch has or had.
OvertakenTravelled == \A r \in overtaken : at[r] \in {"travelling", "batch"}

\* Why lists are fresh: an inductive invariant.
AgeInv == AsksArePast /\ AnswersAreFresh /\ HeldIsNewer /\ OvertakenTravelled /\ RowsAreFresh
=============================================================================

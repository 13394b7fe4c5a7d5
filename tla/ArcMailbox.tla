----------------------------- MODULE ArcMailbox -----------------------------
(***************************************************************************)
(* What the ARC routing state and its semaphore promise together: a cell   *)
(* that many writers set and one reader, the routing thread, observes.     *)
(* Values may be overwritten before they are observed, and an observation  *)
(* may find nothing new, but `fresh' is down only when the reader has seen *)
(* the last value published or the cell has been retired since.            *)
(***************************************************************************)
CONSTANTS
  States,  \* what the cell can hold
  Retired  \* the one of them that calls for no message

VARIABLES cell, seen, fresh

mailbox == <<cell, seen, fresh>>

Init == cell = Retired /\ seen = Retired /\ fresh = FALSE

\* A request, an answer or the end: it calls for a message.
Publish ==
  /\ \E s \in States : cell' = s
  /\ fresh' = TRUE
  /\ UNCHANGED seen

\* The timer, hot plug or CECDisable: no message.
Retire == cell' = Retired /\ UNCHANGED <<seen, fresh>>

\* The reader observes the cell; another publication may still be under way.
Observe ==
  /\ fresh
  /\ seen' = cell
  /\ fresh' \in BOOLEAN
  /\ UNCHANGED cell

Next == Publish \/ Retire \/ Observe

Spec == Init /\ [][Next]_mailbox

\* The reader never stays behind a published value without being told.
Told == ~fresh => cell \in {seen, Retired}
=============================================================================

--------------------------- MODULE DeliveryLedger ---------------------------
(***************************************************************************)
(* What the event queue promises, whatever the mechanism: an event is      *)
(* attempted, and after an attempt that failed it waits for the next one   *)
(* or, when none is left, is dead-lettered; so it is attempted at most     *)
(* MaxRetries + 1 times.  It ends in exactly one of three ways: processed, *)
(* dead-lettered, or stranded in a step in which the infrastructure fails. *)
(* Events are independent: a crash may strand several in one step.         *)
(***************************************************************************)
EXTENDS Naturals

CONSTANTS Events, MaxRetries

VARIABLES
  status,      \* status[e]: where the event is in its life
  failures,    \* failures[e]: how many attempts at processing it failed
  incidents,   \* how often the infrastructure has failed
  keyLapsed,   \* a retry counter has outlived its time to live
  replyLost    \* a call took effect and its reply never arrived

vars == <<status, failures, incidents, keyLapsed, replyLost>>

Init ==
  /\ status = [e \in Events |-> "unpublished"]
  /\ failures = [e \in Events |-> 0]
  /\ incidents = 0
  /\ keyLapsed = FALSE
  /\ replyLost = FALSE

Move(e, from, to) == status[e] \in from /\ status'[e] = to

\* An attempt fails, and is the last one until the event has been deferred.
Fail(e) == Move(e, {"running"}, "failed") /\ failures'[e] = failures[e] + 1

\* Back to the queue later, only while attempts are left.
Defer(e) == Move(e, {"failed"}, "backoff") /\ (failures[e] <= MaxRetries \/ keyLapsed)

\* Given up on, only when no attempt is left.
Bury(e) == Move(e, {"failed"}, "dead") /\ failures[e] > MaxRetries

\* Lost, only when something fails.
Strand(e) ==
  Move(e, {"queued", "running", "failed", "backoff"}, "stranded") /\ incidents' > incidents

Advance(e) ==
  \/ Move(e, {"unpublished", "backoff"}, "queued")
  \/ Move(e, {"queued"}, "running")
  \/ Move(e, {"running"}, "done")
  \/ status'[e] = status[e]

\* A lost reply leaves the caller unable to tell what happened: from then on
\* an event may be processed beside its copy, and the ledger promises nothing.
Next ==
  /\ incidents' >= incidents
  /\ keyLapsed => keyLapsed'
  /\ replyLost => replyLost'
  /\ \/ replyLost'
     \/ \A e \in Events :
          \/ Fail(e)
          \/ (Advance(e) \/ Defer(e) \/ Bury(e) \/ Strand(e)) /\ failures'[e] = failures[e]

Spec == Init /\ [][Next]_vars
=============================================================================

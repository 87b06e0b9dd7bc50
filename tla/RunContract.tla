---------------------------- MODULE RunContract ----------------------------
(***************************************************************************)
(* What the service promises about ONE Run to the client that submitted    *)
(* it, whoever executes it: it is worked on by one attempt at a time, at   *)
(* most MaxAttempts times, it ends at most once, a requested cancellation  *)
(* is the only way to "cancelled" and, once requested, excludes an answer  *)
(* and a further attempt.  Nothing here knows about workers, leases or     *)
(* timers: RunStore, where those live, is shown to implement this module.  *)
(***************************************************************************)
EXTENDS Naturals

CONSTANT MaxAttempts

VARIABLES phase, asked, tries

contractVars == <<phase, asked, tries>>

Phase == {"none", "queued", "working", "answered", "failed", "cancelled", "gone"}

ContractInit ==
  /\ phase = "none"
  /\ asked = FALSE
  /\ tries = 0

Submit ==
  /\ phase = "none"
  /\ phase' = "queued"
  /\ UNCHANGED <<asked, tries>>

\* A new attempt: the first one, a retry, or a takeover of a lost attempt.
Attempt ==
  /\ phase \in {"queued", "working"}
  /\ ~asked
  /\ tries < MaxAttempts
  /\ phase' = "working"
  /\ tries' = tries + 1
  /\ UNCHANGED asked

\* Back to the queue, only while the budget allows another attempt.
Requeue ==
  /\ phase = "working"
  /\ ~asked
  /\ tries < MaxAttempts
  /\ phase' = "queued"
  /\ UNCHANGED <<asked, tries>>

\* The end of an attempt that nobody asked to cancel.
Conclude ==
  /\ phase = "working"
  /\ ~asked
  /\ phase' \in {"answered", "failed"}
  /\ UNCHANGED <<asked, tries>>

\* A queued Run is cancelled on the spot, a Run being worked on is marked.
AskCancel ==
  /\ phase \in {"queued", "working"}
  /\ asked' = TRUE
  /\ phase' = IF phase = "queued" THEN "cancelled" ELSE phase
  /\ UNCHANGED tries

HonourCancel ==
  /\ phase = "working"
  /\ asked
  /\ phase' = "cancelled"
  /\ UNCHANGED <<asked, tries>>

\* The owner deletes the session: the Run and its history are gone.
Remove ==
  /\ phase \notin {"none", "gone"}
  /\ phase' = "gone"
  /\ asked' = FALSE
  /\ tries' = 0

ContractNext ==
  Submit \/ Attempt \/ Requeue \/ Conclude \/ AskCancel \/ HonourCancel \/ Remove

ContractSpec == ContractInit /\ [][ContractNext]_contractVars
=============================================================================

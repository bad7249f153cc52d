--------------------------- MODULE TestDataScope ---------------------------
(***************************************************************************)
(* The scope of test data (saqa/test_data.py): cleanups are registered     *)
(* while a test runs and called in reverse order when the scope closes.    *)
(* A cleanup may raise, may be interrupted, and may register another one   *)
(* while the scope is closing; the body of the with statement may raise.   *)
(***************************************************************************)
EXTENDS Naturals, Sequences

CONSTANTS Cleanups  \* cleanup callables

VARIABLES
  _cleanup,   \* the registered callables, in order
  cursor,     \* what the reversed iterator has left: a position, 0 at its end
  closing,    \* close is running
  closed,     \* no more registration
  errors,     \* callables whose exception this close collected
  calls,      \* calls[c]: how often c was called
  late,       \* callables registered while the scope was closing
  interrupted,\* close was left by an interrupt
  body,       \* the test: "runs", "passed" or "raised"
  raised      \* what the with statement raises: "nothing", "the test", "the cleanup", "the interrupt"

scopeVars == <<_cleanup, cursor, closing, closed, errors, calls, late, interrupted, body, raised>>

registered == {_cleanup[i] : i \in DOMAIN _cleanup}

ScopeTypeOK ==
  /\ _cleanup \in Seq(Cleanups)
  /\ cursor \in 0..Len(_cleanup)
  /\ closing \in BOOLEAN /\ closed \in BOOLEAN /\ interrupted \in BOOLEAN
  /\ errors \subseteq Cleanups /\ late \subseteq Cleanups
  /\ calls \in [Cleanups -> 0..2]
  /\ body \in {"runs", "passed", "raised"}
  /\ raised \in {"nothing", "the test", "the cleanup", "the interrupt"}

ScopeInit ==
  /\ _cleanup = <<>> /\ cursor = 0 /\ closing = FALSE /\ closed = FALSE
  /\ errors = {} /\ calls = [c \in Cleanups |-> 0] /\ late = {} /\ interrupted = FALSE
  /\ body = "runs" /\ raised = "nothing"

-----------------------------------------------------------------------------
(* By the test, or by a cleanup while the scope closes. *)
register(c) ==
  /\ ~closed /\ c \notin registered
  /\ body = "runs" \/ (closing /\ cursor > 0)
  /\ _cleanup' = Append(_cleanup, c)
  /\ late' = IF closing THEN late \cup {c} ELSE late
  /\ UNCHANGED <<cursor, closing, closed, errors, calls, interrupted, body, raised>>

(* __exit__ closes the scope whatever the test came to; after an interrupt *)
(* close may be called once more.                                          *)
BeginClose(outcome) ==
  /\ ~closed /\ ~closing
  /\ IF body = "runs" THEN body' = outcome
     ELSE interrupted /\ outcome = body /\ body' = body /\ \A c \in Cleanups : calls[c] < 2
  /\ closing' = TRUE /\ cursor' = Len(_cleanup) /\ errors' = {}
  /\ UNCHANGED <<_cleanup, closed, calls, late, interrupted, raised>>

\* Mutant: the first cleanup that raises ends the loop.
CallCleanupOrStop(raises) ==
  LET c == _cleanup[cursor] IN
  /\ closing /\ cursor > 0
  /\ calls' = [calls EXCEPT ![c] = @ + 1]
  /\ cursor' = IF raises THEN 0 ELSE cursor - 1
  /\ errors' = IF raises THEN errors \cup {c} ELSE errors
  /\ UNCHANGED <<_cleanup, closing, closed, late, interrupted, body, raised>>

CallCleanup(raises) ==
  LET c == _cleanup[cursor] IN
  /\ closing /\ cursor > 0
  /\ calls' = [calls EXCEPT ![c] = @ + 1]
  /\ cursor' = cursor - 1
  /\ errors' = IF raises THEN errors \cup {c} ELSE errors
  /\ UNCHANGED <<_cleanup, closing, closed, late, interrupted, body, raised>>

(* An interrupt in a cleanup is not caught: the scope stays open. *)
Interrupt ==
  /\ closing /\ cursor > 0 /\ ~interrupted
  /\ calls' = [calls EXCEPT ![_cleanup[cursor]] = @ + 1]
  /\ closing' = FALSE /\ cursor' = 0 /\ interrupted' = TRUE
  /\ raised' = "the interrupt"
  /\ UNCHANGED <<_cleanup, closed, errors, late, body>>

(* The exception of the test goes out with a note about the cleanups, and  *)
(* only a test that passed raises what the cleanups raised.  A close after *)
(* an interrupt is a call of its own, beside the interrupt.                *)
EndClose ==
  /\ closing /\ cursor = 0
  /\ closing' = FALSE /\ closed' = TRUE
  /\ raised' = IF body = "raised" /\ ~interrupted THEN "the test"
               ELSE IF errors # {} THEN "the cleanup" ELSE raised
  /\ UNCHANGED <<_cleanup, cursor, errors, calls, late, interrupted, body>>

ScopeNext ==
  \/ \E c \in Cleanups : register(c)
  \/ \E outcome \in {"passed", "raised"} : BeginClose(outcome)
  \/ \E raises \in BOOLEAN : CallCleanup(raises)
  \/ Interrupt
  \/ EndClose

ScopeSpec == ScopeInit /\ [][ScopeNext]_scopeVars

-----------------------------------------------------------------------------
(* A closed scope has called every cleanup, the failed ones too, exactly   *)
(* once, or twice where close had to be repeated after an interrupt; only  *)
(* what was registered while it was closing may never have been called.    *)
ClosedCalledAll ==
  closed => \A c \in registered \ late :
              calls[c] >= 1 /\ (calls[c] > 1 => interrupted)

(* A cleanup is called after every cleanup registered later than it: data  *)
(* goes before what it was built on.                                       *)
ReverseOrder ==
  \A i, j \in DOMAIN _cleanup :
    i < j /\ _cleanup[j] \notin late => calls[_cleanup[j]] >= calls[_cleanup[i]]

(* A test that failed is never reported as a failed cleanup unless its     *)
(* cleanup was interrupted, and nothing is raised only if the test passed, *)
(* every cleanup succeeded and none was interrupted.                       *)
OutcomeIsKept ==
  closed => /\ body = "raised" /\ ~interrupted => raised = "the test"
            /\ raised = "nothing" => body = "passed" /\ errors = {} /\ ~interrupted

(* A closed scope cleaned up, in order, and kept the outcome of its test. *)
CleanupIsComplete == ClosedCalledAll /\ ReverseOrder /\ OutcomeIsKept
=============================================================================

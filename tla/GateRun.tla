------------------------------ MODULE GateRun ------------------------------
(***************************************************************************)
(* The gates of saqa-ci.yml, saqa-mobile.yml, saqa-accessibility.yml and   *)
(* saqa-k6.yml: scripts that ask a target something and leave one JSON of  *)
(* evidence with a status and an exit status.  A script is a sequence of   *)
(* steps any of which may fault; what differs is what a fault does.  The   *)
(* output of an earlier run may still be there: no gate removes it first,  *)
(* and its directory may take no new one.                                  *)
(***************************************************************************)
EXTENDS Naturals, Sequences

CONSTANTS MaxRedirects  \* SAQA_REAL_WEB_MAX_REDIRECTS

ASSUME GateAssumption == MaxRedirects \in Nat

VARIABLES
  gate,        \* the script that runs
  at,          \* its next step; Len(steps) + 1 when all are done
  aborted,     \* a fault skipped the steps that were left
  status,      \* the status in memory
  faults,      \* the steps that faulted
  held,        \* what is open of {"driver", "browser", "context"}
  redirects,   \* redirects followed
  output,      \* the file: "none", "old_PASS", "torn", or this run's status
  gateExit     \* exit status: 0, 1, or 2 while it runs

gateVars == <<gate, at, aborted, status, faults, held, redirects, output, gateExit>>

(* A script: its status before the first step, its steps, the pairs of     *)
(* step and fault that make it BLOCKED, those that leave the script        *)
(* without any evidence, and the steps whose fault is recorded and not     *)
(* fatal.  Every other fault is a FAIL.                                    *)
Browse == <<"guard", "driver", "browser", "context", "check", "close_context", "close_browser", "pass", "driver_exit">>
Faults == {"assertion", "unreachable", "timeout"}
Anyhow(steps) == steps \X Faults

juice_shop_e2e == [initial |-> "FAIL", steps |-> Browse, blocked |-> {}, lost |-> {}, recorded |-> {}]

juice_shop_mobile_readiness == [initial |-> "FAIL", steps |-> Browse, blocked |-> {}, lost |-> {}, recorded |-> {}]

juice_shop_accessibility_gate ==
  [initial |-> "FAIL", blocked |-> {}, lost |-> {}, recorded |-> {},
   steps |-> <<"guard", "axe_source", "driver", "browser", "context", "check", "axe", "mobile_check",
               "findings", "close_context", "close_browser", "pass", "driver_exit">>]

(* Target and browser are checked before there is evidence; an error of    *)
(* the driver meets names that are not bound yet.                          *)
webgoat_e2e ==
  [initial |-> "FAIL", steps |-> Browse, blocked |-> {},
   lost |-> Anyhow({"guard", "driver"}), recorded |-> {"close_context", "close_browser"}]

juice_shop_api_smoke ==
  [initial |-> "BLOCKED", steps |-> <<"guard", "get", "check", "pass">>,
   blocked |-> {<<"get", "unreachable">>}, lost |-> {}, recorded |-> {}]

(* The handler reads the response, which a guard that raises, or a request *)
(* that raises what request() does not turn into an answer, leaves unbound.*)
api_contract_smoke ==
  [initial |-> "BLOCKED", steps |-> <<"guard", "get", "check", "pass">>,
   blocked |-> {<<"get", "unreachable">>, <<"get", "timeout">>},
   lost |-> Anyhow({"guard"}) \cup {<<"get", "assertion">>}, recorded |-> {}]

juice_shop_performance_gate ==
  [initial |-> "BLOCKED", steps |-> <<"guard", "get", "get", "get", "check", "pass">>,
   blocked |-> {"get"} \X {"unreachable", "timeout"}, lost |-> {}, recorded |-> {}]

database_quality_gate ==
  [initial |-> "UNVERIFIED", steps |-> <<"connect", "check", "pass">>, blocked |-> {}, lost |-> {}, recorded |-> {}]

real_web_smoke ==
  [initial |-> "BLOCKED", steps |-> <<"guard", "get", "check", "pass">>,
   blocked |-> {"get"} \X {"unreachable", "timeout"}, lost |-> {}, recorded |-> {}]

(* k6: an operating system error before the summary is judged and the     *)
(* timeout of docker block, everything else fails.  The summary of an      *)
(* earlier run was removed first.                                          *)
k6_gate ==
  [initial |-> "BLOCKED", steps |-> <<"files", "thresholds", "docker", "summary", "check", "pass">>,
   blocked |-> ({"thresholds", "docker", "summary"} \X {"unreachable"}) \cup {<<"docker", "timeout">>}, lost |-> {}, recorded |-> {}]

Scripts == [juice_shop_e2e |-> juice_shop_e2e, juice_shop_mobile_readiness |-> juice_shop_mobile_readiness,
            juice_shop_accessibility_gate |-> juice_shop_accessibility_gate, webgoat_e2e |-> webgoat_e2e,
            juice_shop_api_smoke |-> juice_shop_api_smoke, api_contract_smoke |-> api_contract_smoke,
            juice_shop_performance_gate |-> juice_shop_performance_gate,
            database_quality_gate |-> database_quality_gate, real_web_smoke |-> real_web_smoke,
            k6_gate |-> k6_gate]

Gates == DOMAIN Scripts
steps == Scripts[gate].steps
due_step == IF at \in DOMAIN steps /\ ~aborted THEN steps[at] ELSE "write"
AllSteps == UNION {{s[i] : i \in DOMAIN s} : s \in {Scripts[g].steps : g \in Gates}}
FileFaults == {"prepare", "write"}
Resources == {"driver", "browser", "context"}

GateTypeOK ==
  /\ gate \in Gates
  /\ at \in 1..14
  /\ aborted \in BOOLEAN
  /\ status \in {"PASS", "FAIL", "BLOCKED", "UNVERIFIED"}
  /\ faults \subseteq AllSteps \cup FileFaults
  /\ held \subseteq Resources
  /\ redirects \in 0..MaxRedirects
  /\ output \in {"none", "old_PASS", "torn", "PASS", "FAIL", "BLOCKED", "UNVERIFIED"}
  /\ gateExit \in 0..2

GateInit ==
  /\ gate \in Gates
  /\ at = 1 /\ aborted = FALSE /\ faults = {} /\ held = {} /\ redirects = 0
  /\ status = Scripts[gate].initial
  /\ output \in {"none", "old_PASS"}
  /\ gateExit = 2

(* What a step leaves open or closed. *)
HeldAfter(step) ==
  CASE step \in Resources        -> held \cup {step}
    [] step = "close_context" -> held \ {"context"}
    [] step = "close_browser" -> held \ {"browser"}
    [] step = "driver_exit"   -> {}
    [] OTHER                  -> held

StepOk ==
  /\ gateExit = 2 /\ due_step # "write"
  /\ at' = at + 1
  /\ held' = HeldAfter(due_step)
  /\ status' = IF due_step = "pass" /\ faults = {} THEN "PASS" ELSE status
  /\ UNCHANGED <<gate, aborted, faults, redirects, output, gateExit>>

(* The driver's exit comes after PASS was set, and its error leaves it. *)
verdict(step, fault) ==
  IF step = "driver_exit" \/ step \in Scripts[gate].recorded THEN status
  ELSE IF <<step, fault>> \in Scripts[gate].blocked THEN "BLOCKED"
  ELSE "FAIL"

(* A fault that is not just recorded skips the rest; the handlers close    *)
(* what is open, each error on its own.  When the error meets an unbound   *)
(* name the script ends without having written anything.                   *)
StepFaults(fault) ==
  LET recorded == due_step \in Scripts[gate].recorded
      lost == <<due_step, fault>> \in Scripts[gate].lost
  IN
  /\ gateExit = 2 /\ due_step \notin {"write", "pass"}
  /\ faults' = faults \cup {due_step}
  /\ status' = verdict(due_step, fault)
  /\ at' = IF recorded THEN at + 1 ELSE at
  /\ aborted' = ~recorded
  /\ held' = IF recorded THEN HeldAfter(due_step) ELSE {}
  /\ gateExit' = IF lost THEN 1 ELSE 2
  /\ UNCHANGED <<gate, redirects, output>>

(* Real web: the location of a redirect is validated and asked next, up to *)
(* a number of redirects; a location that is missing or not allowed, and   *)
(* one redirect more, is a policy error.                                   *)
Redirect(allowed) ==
  /\ gateExit = 2 /\ gate = "real_web_smoke" /\ due_step = "get"
  /\ IF allowed /\ redirects < MaxRedirects
       THEN redirects' = redirects + 1 /\ UNCHANGED <<faults, status, aborted>>
       ELSE /\ faults' = faults \cup {"get"} /\ status' = "FAIL" /\ aborted' = TRUE
            /\ UNCHANGED redirects
  /\ UNCHANGED <<gate, at, held, output, gateExit>>

(* A script makes its directories, and k6_gate removes the last summary,   *)
(* outside of every handler: an error there ends it.  The contract smoke   *)
(* makes its directory when it writes.                                     *)
PrepareFails ==
  /\ gateExit = 2 /\ at = 1 /\ faults = {} /\ gate # "api_contract_smoke"
  /\ faults' = {"prepare"} /\ gateExit' = 1
  /\ UNCHANGED <<gate, at, aborted, status, held, redirects, output>>

(* So does an error of the write, and of the close of the database before  *)
(* it: the file is the older one, or is left half written.                 *)
WriteFails ==
  /\ gateExit = 2 /\ due_step = "write"
  /\ output' \in {output, "torn"}
  /\ faults' = faults \cup {"write"} /\ gateExit' = 1
  /\ UNCHANGED <<gate, at, aborted, status, held, redirects>>

\* Mutant: a gate that was blocked writes nothing.
WriteEvidenceUnlessBlocked ==
  /\ gateExit = 2 /\ due_step = "write"
  /\ output' = IF status = "BLOCKED" THEN output ELSE status
  /\ gateExit' = IF status = "PASS" THEN 0 ELSE 1
  /\ UNCHANGED <<gate, at, aborted, status, faults, held, redirects>>

WriteEvidence ==
  /\ gateExit = 2 /\ due_step = "write"
  /\ output' = status
  /\ gateExit' = IF status = "PASS" THEN 0 ELSE 1
  /\ UNCHANGED <<gate, at, aborted, status, faults, held, redirects>>

GateNext ==
  \/ StepOk
  \/ \E fault \in Faults : StepFaults(fault)
  \/ \E allowed \in BOOLEAN : Redirect(allowed)
  \/ PrepareFails
  \/ WriteEvidence
  \/ WriteFails

GateSpec == GateInit /\ [][GateNext]_gateVars

-----------------------------------------------------------------------------
(* A gate is green only with a PASS of its own on disk, and that rests on  *)
(* every check and every orderly close; only the driver may have failed to *)
(* stop.                                                                   *)
GreenIsEarned ==
  gateExit = 0 => /\ output = "PASS"
                  /\ faults \subseteq {"driver_exit"}
                  /\ at = Len(steps) + 1 \/ faults = {"driver_exit"}

(* A red gate never leaves a PASS of its own, and it leaves the PASS of an *)
(* earlier run only when it ended before its first request was answered,   *)
(* or could not write.                                                     *)
RedIsNotOverwritten ==
  gateExit = 1 =>
    /\ output # "PASS"
    /\ output = "old_PASS" => faults \subseteq {"prepare", "guard", "driver", "get"} \/ "write" \in faults

(* The exit status and the file a gate leaves agree. *)
ExitMatchesEvidence == GreenIsEarned /\ RedIsNotOverwritten
=============================================================================

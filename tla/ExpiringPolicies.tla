-------------------------- MODULE ExpiringPolicies --------------------------
(***************************************************************************)
(* Three policies with entries that expire: the exceptions for vulnerable  *)
(* dependencies (scripts/validate_pip_audit_report.py,                     *)
(* evaluate_vulnerability_policy.py), those for findings in images         *)
(* (evaluate_container_security_policy.py) and the quarantine of tests     *)
(* (test_quality_report.py).  Findings and failures come and go, the       *)
(* policies are edited, days pass; what a run would decide on a day is an  *)
(* operator of the day.                                                    *)
(***************************************************************************)
EXTENDS Naturals

CONSTANTS
  Vulnerabilities,  \* findings that meet the threshold: package and identifiers
  Aliases,          \* [Vulnerabilities -> what else an exception may call them]
  SuiteTests,       \* test ids
  LastDate          \* bound on the date and on the expiries

ASSUME PolicyAssumption ==
  /\ LastDate \in Nat
  /\ Aliases \in [Vulnerabilities -> SUBSET Vulnerabilities]

VARIABLES
  today,
  exceptions,      \* [identifier -> expires_on], NoEntry where there is none
  quarantines,     \* [test -> expires_on], the same
  image_exception, \* expires_on of the exception for one blocking finding
  known,           \* vulnerabilities of the installed dependencies
  scan,            \* what pip-audit wrote: "report", "skipped", "none"
  image_finding,   \* the image has that finding
  junit            \* [test -> outcome]

policyVars == <<today, exceptions, quarantines, image_exception, known, scan, image_finding, junit>>

Days == 0..LastDate
NoEntry == LastDate + 1
JUnitOutcomes4 == {"PASS", "FAIL", "SKIP", "gone"}  \* gone: not in the JUnit

PolicyTypeOK ==
  /\ today \in Days
  /\ exceptions \in [Vulnerabilities -> Days \cup {NoEntry}]
  /\ quarantines \in [SuiteTests -> Days \cup {NoEntry}]
  /\ image_exception \in Days \cup {NoEntry}
  /\ known \subseteq Vulnerabilities
  /\ scan \in {"report", "skipped", "none"}
  /\ image_finding \in BOOLEAN
  /\ junit \in [SuiteTests -> JUnitOutcomes4]

PolicyInit ==
  /\ today = 0
  /\ exceptions = [v \in Vulnerabilities |-> NoEntry] /\ quarantines = [t \in SuiteTests |-> NoEntry]
  /\ image_exception = NoEntry
  /\ known = {} /\ scan = "report" /\ image_finding = FALSE
  /\ junit = [t \in SuiteTests |-> "PASS"]

-----------------------------------------------------------------------------
Tomorrow ==
  /\ today < LastDate /\ today' = today + 1
  /\ UNCHANGED <<exceptions, quarantines, image_exception, known, scan, image_finding, junit>>

(* A reviewed change of one entry of one policy. *)
EditPolicy(expires) ==
  /\ \/ /\ \E v \in Vulnerabilities : exceptions' = [exceptions EXCEPT ![v] = expires]
        /\ UNCHANGED <<quarantines, image_exception>>
     \/ /\ \E t \in SuiteTests : quarantines' = [quarantines EXCEPT ![t] = expires]
        /\ UNCHANGED <<exceptions, image_exception>>
     \/ image_exception' = expires /\ UNCHANGED <<exceptions, quarantines>>
  /\ UNCHANGED <<today, known, scan, image_finding, junit>>

(* pip-audit's exit status is not looked at: it may leave nothing, or a    *)
(* report in which every dependency was skipped.                           *)
ScanDependencies(found, wrote) ==
  /\ known' = found /\ scan' = wrote
  /\ UNCHANGED <<today, exceptions, quarantines, image_exception, image_finding, junit>>

FindInImage(found) ==
  /\ image_finding' = found
  /\ UNCHANGED <<today, exceptions, quarantines, image_exception, known, scan, junit>>

RunTests(t, outcome) ==
  /\ junit' = [junit EXCEPT ![t] = outcome]
  /\ UNCHANGED <<today, exceptions, quarantines, image_exception, known, scan, image_finding>>

-----------------------------------------------------------------------------
(* Valid on the day it expires, expired on the next. *)
expired_exceptions(day) == {v \in Vulnerabilities : exceptions[v] < day}

(* An exception for the identifier of a finding or for one of its aliases. *)
excepted(v, day) == \E x \in {v} \cup Aliases[v] : exceptions[x] # NoEntry /\ exceptions[x] >= day

(* One expired entry fails the policy whatever was found, and a report     *)
(* without an audited dependency is no report.                             *)
evaluate_dependencies(day) ==
  IF scan = "report" /\ expired_exceptions(day) = {} /\ \A v \in known : excepted(v, day)
  THEN "PASS" ELSE "FAIL"

(* An entry for an image has expired on the day it names. *)
evaluate_image(day) ==
  IF image_exception <= day THEN "BLOCKED"
  ELSE IF image_finding /\ image_exception = NoEntry THEN "FAIL" ELSE "PASS"

(* So has a quarantine; it hides no failure, and one of a test that is     *)
(* gone is stale.  The suite has more tests than these.                    *)
summarize_junit(day) ==
  IF \E t \in SuiteTests : quarantines[t] <= day THEN "BLOCKED"
  ELSE IF \E t \in SuiteTests : junit[t] = "FAIL" \/ (junit[t] = "gone" /\ quarantines[t] # NoEntry)
       THEN "FAIL" ELSE "PASS"

Decisions(day) == <<evaluate_dependencies(day), evaluate_image(day), summarize_junit(day)>>

PolicyNext ==
  \/ Tomorrow
  \/ \E expires \in Days \cup {NoEntry} : EditPolicy(expires)
  \/ \E found \in SUBSET Vulnerabilities, wrote \in {"report", "skipped", "none"} : ScanDependencies(found, wrote)
  \/ \E found \in BOOLEAN : FindInImage(found)
  \/ \E t \in SuiteTests, o \in JUnitOutcomes4 : RunTests(t, o)

PolicySpec == PolicyInit /\ [][PolicyNext]_policyVars

-----------------------------------------------------------------------------
(* Waiting never makes a red decision green: with the same findings, tests *)
(* and policies, what is not a PASS today is none on any later day.        *)
WaitingNeverGreens ==
  \A later \in today..LastDate, i \in 1..3 :
    Decisions(later)[i] = "PASS" => Decisions(today)[i] = "PASS"

(* Once every decision is a PASS, every finding has an entry that has not  *)
(* expired, no entry at all has -- one for a finding that disappeared      *)
(* neither (docs/CI_ARCHITECTURE.md: "expired exceptions fail the policy   *)
(* even if the issue disappears from the latest scan") -- and no test      *)
(* failed in or out of quarantine.                                         *)
GreenIsReviewed ==
  (\A i \in 1..3 : Decisions(today)[i] = "PASS") =>
    /\ scan = "report" /\ \A t \in SuiteTests : junit[t] # "FAIL"
    /\ \A v \in Vulnerabilities : exceptions[v] >= today
    /\ image_exception > today /\ \A t \in SuiteTests : quarantines[t] > today
    /\ \A v \in known : \E x \in {v} \cup Aliases[v] : exceptions[x] \in today..LastDate
    /\ image_finding => image_exception \in today..LastDate
=============================================================================

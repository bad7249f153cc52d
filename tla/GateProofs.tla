----------------------------- MODULE GateProofs -----------------------------
(***************************************************************************)
(* What holds of GateRun for any number of redirects, and of               *)
(* PerformanceSamples for any measurements, limits and numbers of samples. *)
(***************************************************************************)
EXTENDS GateRun, PerformanceSamples, FiniteSetTheorems, TLAPS

-----------------------------------------------------------------------------
(* What the scripts have in common: they begin with a status that is no    *)
(* PASS; the pass is the last step but for the exit of the driver; only a  *)
(* close is recorded rather than fatal; and where a fault leaves no        *)
(* evidence nothing has been recorded yet.                                 *)
StepNames == {"guard", "driver", "browser", "context", "check", "close_context", "close_browser", "pass",
              "driver_exit", "axe_source", "axe", "mobile_check", "findings", "get", "connect", "files",
              "thresholds", "docker", "summary"}

Ordered(s) ==
  /\ Len(s) \in 3..13 /\ DOMAIN s = 1..Len(s)
  /\ \A i \in 1..Len(s) : s[i] \in StepNames
  /\ \A i \in 1..Len(s) : s[i] = "pass" => i = Len(s) \/ (i + 1 = Len(s) /\ s[i + 1] = "driver_exit")
  /\ \A i \in 1..Len(s) : s[i] = "driver_exit" => i = Len(s) /\ s[i - 1] = "pass"
  /\ s[Len(s)] \in {"pass", "driver_exit"}

WellFormed(script) ==
  /\ script.initial \in {"FAIL", "BLOCKED", "UNVERIFIED"}
  /\ Ordered(script.steps)
  /\ script.recorded \subseteq {"close_context", "close_browser"}
  /\ \A step, fault : <<step, fault>> \in script.lost => step \in {"guard", "driver", "get"}
  /\ script.recorded = {} \/ \A i, j \in 1..Len(script.steps) :
       script.steps[i] \in {"guard", "driver", "get"} /\ script.steps[j] \in script.recorded => i < j

LEMMA BrowseOrdered == Ordered(Browse)
<1>1. Len(Browse) = 9 /\ DOMAIN Browse = 1..9
  BY DEF Browse
<1>2. /\ Browse[1] = "guard" /\ Browse[2] = "driver" /\ Browse[3] = "browser" /\ Browse[4] = "context"
      /\ Browse[5] = "check" /\ Browse[6] = "close_context" /\ Browse[7] = "close_browser"
      /\ Browse[8] = "pass" /\ Browse[9] = "driver_exit"
  BY DEF Browse
<1>3. \A i \in 1..9 : i = 1 \/ i = 2 \/ i = 3 \/ i = 4 \/ i = 5 \/ i = 6 \/ i = 7 \/ i = 8 \/ i = 9
  OBVIOUS
<1> QED BY <1>1, <1>2, <1>3 DEF Ordered, StepNames

LEMMA EveryScriptWellFormed == \A g \in Gates : WellFormed(Scripts[g])
<1>1. WellFormed(juice_shop_e2e) /\ WellFormed(juice_shop_mobile_readiness)
  BY BrowseOrdered DEF WellFormed, juice_shop_e2e, juice_shop_mobile_readiness
<1>2. WellFormed(juice_shop_accessibility_gate)
  <2> DEFINE s == <<"guard", "axe_source", "driver", "browser", "context", "check", "axe", "mobile_check",
                    "findings", "close_context", "close_browser", "pass", "driver_exit">>
  <2>1. Ordered(s)
    <3>1. Len(s) = 13 /\ DOMAIN s = 1..13
      OBVIOUS
    <3>2. \A i \in 1..13 : i = 1 \/ i = 2 \/ i = 3 \/ i = 4 \/ i = 5 \/ i = 6 \/ i = 7 \/ i = 8 \/ i = 9
                           \/ i = 10 \/ i = 11 \/ i = 12 \/ i = 13
      OBVIOUS
    <3>3. /\ s[1] = "guard" /\ s[2] = "axe_source" /\ s[3] = "driver" /\ s[4] = "browser"
          /\ s[5] = "context" /\ s[6] = "check" /\ s[7] = "axe" /\ s[8] = "mobile_check"
          /\ s[9] = "findings" /\ s[10] = "close_context" /\ s[11] = "close_browser"
          /\ s[12] = "pass" /\ s[13] = "driver_exit"
      OBVIOUS
    <3> HIDE DEF s
    <3> QED BY <3>1, <3>2, <3>3 DEF Ordered, StepNames
  <2> QED BY <2>1 DEF WellFormed, juice_shop_accessibility_gate
<1>3. WellFormed(webgoat_e2e)
  <2>1. \A i \in 1..9 : Browse[i] \in {"guard", "driver", "get"} => i \in 1..2
    BY DEF Browse
  <2>2. \A i \in 1..9 : Browse[i] \in {"close_context", "close_browser"} => i \in 6..7
    BY DEF Browse
  <2>3. Len(Browse) = 9
    BY DEF Browse
  <2>4. /\ webgoat_e2e.initial = "FAIL" /\ webgoat_e2e.steps = Browse
        /\ webgoat_e2e.recorded = {"close_context", "close_browser"}
        /\ webgoat_e2e.lost = {"guard", "driver"} \X Faults
    BY DEF webgoat_e2e, Anyhow
  <2>5. \A step, fault : <<step, fault>> \in webgoat_e2e.lost => step \in {"guard", "driver", "get"}
    BY <2>4
  <2>6. \A i, j \in 1..Len(Browse) :
          Browse[i] \in {"guard", "driver", "get"} /\ Browse[j] \in {"close_context", "close_browser"} => i < j
    BY <2>1, <2>2, <2>3
  <2> QED BY <2>4, <2>5, <2>6, BrowseOrdered DEF WellFormed
<1>4. WellFormed(juice_shop_api_smoke) /\ WellFormed(api_contract_smoke) /\ WellFormed(real_web_smoke)
  <2>1. Ordered(<<"guard", "get", "check", "pass">>)
    BY DEF Ordered, StepNames
  <2> QED BY <2>1 DEF WellFormed, juice_shop_api_smoke, api_contract_smoke, real_web_smoke, Anyhow
<1>5. WellFormed(juice_shop_performance_gate)
  <2>1. Ordered(<<"guard", "get", "get", "get", "check", "pass">>)
    BY DEF Ordered, StepNames
  <2> QED BY <2>1 DEF WellFormed, juice_shop_performance_gate
<1>6. WellFormed(database_quality_gate)
  <2>1. Ordered(<<"connect", "check", "pass">>)
    BY DEF Ordered, StepNames
  <2> QED BY <2>1 DEF WellFormed, database_quality_gate
<1>7. WellFormed(k6_gate)
  <2>1. Ordered(<<"files", "thresholds", "docker", "summary", "check", "pass">>)
    BY DEF Ordered, StepNames
  <2> QED BY <2>1 DEF WellFormed, k6_gate
<1> HIDE DEF WellFormed
<1> QED BY <1>1, <1>2, <1>3, <1>4, <1>5, <1>6, <1>7 DEF Scripts, Gates

-----------------------------------------------------------------------------
(* How far a gate is, and what its faults and its status say of that: the  *)
(* faults lie behind it but for the one that stopped it or the one of its  *)
(* files that ended it, and a PASS comes of the pass alone.                *)
Behind(f) == f \in Scripts[gate].recorded /\ \E i \in 1..Len(steps) : i < at /\ steps[i] = f
Stopped(f) == aborted /\ f = steps[at]
OnDisk(f) == f \in FileFaults /\ gateExit = 1

Progress ==
  /\ at \in 1..(Len(steps) + 1)
  /\ aborted => at <= Len(steps) /\ steps[at] \in faults
  /\ \A f \in faults : Stopped(f) \/ Behind(f) \/ OnDisk(f)

PassIsLast ==
  status = "PASS" => /\ faults \subseteq {"driver_exit"} \/ gateExit = 1
                     /\ \E i \in 1..Len(steps) : i < at /\ steps[i] = "pass"

NothingWritten == gateExit = 2 => output \in {"none", "old_PASS"}

GateInv == GateTypeOK /\ Progress /\ PassIsLast /\ NothingWritten /\ ExitMatchesEvidence

LEMMA DueStep ==
  ASSUME GateInv, due_step # "write"
  PROVE  /\ WellFormed(Scripts[gate]) /\ at \in 1..Len(steps) /\ ~aborted /\ due_step = steps[at]
         /\ due_step \in AllSteps
<1>1. WellFormed(Scripts[gate])
  BY EveryScriptWellFormed DEF GateInv, GateTypeOK
<1>2. at \in DOMAIN steps /\ ~aborted /\ due_step = steps[at]
  BY DEF due_step
<1>3. DOMAIN steps = 1..Len(steps)
  BY <1>1 DEF WellFormed, Ordered, steps
<1>4. steps \in {Scripts[g].steps : g \in Gates}
  BY DEF steps, GateInv, GateTypeOK
<1>5. due_step \in {steps[i] : i \in DOMAIN steps}
  BY <1>2
<1> QED BY <1>1, <1>2, <1>3, <1>4, <1>5 DEF AllSteps

(* After the pass there is at most the exit of the driver.                 *)
LEMMA AfterPass ==
  ASSUME GateInv, due_step # "write", gateExit = 2, status = "PASS"
  PROVE  due_step = "driver_exit" /\ faults \subseteq {"driver_exit"}
<1>1. /\ Ordered(steps) /\ at \in 1..Len(steps) /\ due_step = steps[at]
  BY DueStep DEF WellFormed, steps
<1>2. PICK i \in 1..Len(steps) : i < at /\ steps[i] = "pass"
  BY DEF GateInv, PassIsLast
<1>3. Len(steps) \in Nat
  BY <1>1 DEF Ordered, steps
<1>4. i + 1 = Len(steps) /\ steps[i + 1] = "driver_exit"
  <2>1. i = Len(steps) \/ (i + 1 = Len(steps) /\ steps[i + 1] = "driver_exit")
    BY <1>1, <1>2 DEF Ordered, steps
  <2> QED BY <1>1, <1>2, <1>3, <2>1
<1>5. at = i + 1
  BY <1>1, <1>2, <1>3, <1>4
<1> QED BY <1>1, <1>4, <1>5 DEF GateInv, PassIsLast

LEMMA StepOkKeeps ==
  ASSUME GateInv, StepOk
  PROVE  GateInv'
<1>1. /\ Ordered(steps) /\ at \in 1..Len(steps) /\ ~aborted /\ due_step = steps[at] /\ Len(steps) \in 3..13
  BY DueStep DEF WellFormed, steps, StepOk, Ordered
<1>2. /\ gateExit = 2 /\ due_step # "write" /\ at' = at + 1 /\ held' = HeldAfter(due_step)
      /\ status' = (IF due_step = "pass" /\ faults = {} THEN "PASS" ELSE status)
      /\ UNCHANGED <<gate, aborted, faults, redirects, output, gateExit, steps>>
  BY DEF StepOk, steps
<1>3. HeldAfter(due_step) \subseteq Resources
  BY DEF HeldAfter, Resources, GateInv, GateTypeOK
<1>4. GateTypeOK'
  BY <1>1, <1>2, <1>3 DEF GateInv, GateTypeOK
<1>5. Progress'
  BY <1>1, <1>2 DEF GateInv, Progress, Behind, Stopped, OnDisk
<1>6. PassIsLast'
  BY <1>1, <1>2 DEF GateInv, PassIsLast
<1> QED BY <1>2, <1>4, <1>5, <1>6
  DEF GateInv, NothingWritten, ExitMatchesEvidence, GreenIsEarned, RedIsNotOverwritten

LEMMA StepFaultsKeeps ==
  ASSUME GateInv, NEW fault \in Faults, StepFaults(fault)
  PROVE  GateInv'
<1> DEFINE recorded == due_step \in Scripts[gate].recorded
           lost == <<due_step, fault>> \in Scripts[gate].lost
<1>1. /\ WellFormed(Scripts[gate]) /\ Ordered(steps) /\ at \in 1..Len(steps) /\ ~aborted
      /\ due_step = steps[at] /\ Len(steps) \in 3..13
      /\ due_step \in AllSteps
  BY DueStep DEF WellFormed, steps, StepFaults, Ordered
<1>2. /\ gateExit = 2 /\ due_step # "write" /\ due_step # "pass"
      /\ faults' = faults \cup {due_step} /\ status' = verdict(due_step, fault)
      /\ at' = (IF recorded THEN at + 1 ELSE at) /\ aborted' = ~recorded
      /\ held' = (IF recorded THEN HeldAfter(due_step) ELSE {})
      /\ gateExit' = (IF lost THEN 1 ELSE 2)
      /\ UNCHANGED <<gate, redirects, output, steps>>
  BY DEF StepFaults, steps
<1>3. HeldAfter(due_step) \subseteq Resources
  BY DEF HeldAfter, Resources, GateInv, GateTypeOK
<1>4. verdict(due_step, fault) \in {"PASS", "FAIL", "BLOCKED", "UNVERIFIED"}
  BY DEF verdict, GateInv, GateTypeOK
<1>5. GateTypeOK'
  <2>1. faults' \subseteq AllSteps \cup FileFaults
    BY <1>1, <1>2 DEF GateInv, GateTypeOK
  <2>2. at' \in 1..14 /\ aborted' \in BOOLEAN /\ status' \in {"PASS", "FAIL", "BLOCKED", "UNVERIFIED"}
        /\ held' \subseteq Resources /\ gateExit' \in 0..2
    BY <1>1, <1>2, <1>3, <1>4
  <2> QED BY <1>2, <2>1, <2>2 DEF GateInv, GateTypeOK
<1>6. Progress'
  <2>1. CASE recorded
    <3>1. at' = at + 1 /\ ~aborted'
      BY <1>2, <2>1
    <3>2. ASSUME NEW f \in faults PROVE Behind(f)'
      <4>1. Behind(f)
        BY <1>1, <1>2 DEF GateInv, Progress, Stopped, OnDisk
      <4> QED BY <1>1, <1>2, <3>1, <4>1 DEF Behind
    <3>3. ASSUME NEW f, f = due_step PROVE Behind(f)'
      BY <3>3, <1>1, <1>2, <2>1, <3>1 DEF Behind
    <3>4. \A f \in faults' : Behind(f)'
      BY <1>2, <3>2, <3>3
    <3>5. at' \in 1..(Len(steps') + 1)
      BY <1>1, <1>2, <3>1
    <3> QED BY <3>1, <3>4, <3>5 DEF Progress
  <2>2. CASE ~recorded
    <3>1. at' = at /\ aborted' /\ due_step = steps'[at'] /\ due_step \in faults'
      BY <1>1, <1>2, <2>2
    <3>2. at' \in 1..(Len(steps) + 1) /\ at' <= Len(steps)
      BY <1>1, <3>1
    <3>3. at' = at /\ steps' = steps /\ gate' = gate /\ aborted'
      BY <1>2, <3>1
    <3>4. ASSUME NEW f \in faults PROVE Behind(f)'
      <4>1. Behind(f)
        BY <1>1, <1>2 DEF GateInv, Progress, Stopped, OnDisk
      <4> QED BY <3>3, <4>1 DEF Behind
    <3>5. ASSUME NEW f, f = due_step PROVE Stopped(f)'
      BY <3>5, <1>1, <1>2, <3>1, <3>3 DEF Stopped
    <3>6. at' \in 1..(Len(steps') + 1) /\ at' <= Len(steps') /\ steps'[at'] \in faults'
      BY <3>1, <3>2, <3>3
    <3>7. \A f \in faults' : Stopped(f)' \/ Behind(f)' \/ OnDisk(f)'
      BY <1>2, <3>4, <3>5
    <3> QED BY <3>6, <3>7 DEF Progress
  <2> QED BY <2>1, <2>2
<1>7. PassIsLast'
  <2> SUFFICES ASSUME status' = "PASS"
               PROVE  /\ faults' \subseteq {"driver_exit"}
                      /\ \E i \in 1..Len(steps) : i < at' /\ steps[i] = "pass"
    BY <1>2 DEF PassIsLast
  <2>1. status = "PASS"
    BY <1>2 DEF verdict
  <2>2. due_step = "driver_exit" /\ faults \subseteq {"driver_exit"}
    BY <1>2, <2>1, AfterPass
  <2>3. at' >= at
    BY <1>1, <1>2
  <2>4. PICK i \in 1..Len(steps) : i < at /\ steps[i] = "pass"
    BY <2>1 DEF GateInv, PassIsLast
  <2> QED BY <1>1, <1>2, <2>2, <2>3, <2>4
<1>8. NothingWritten'
  BY <1>2 DEF GateInv, NothingWritten
<1>9. ExitMatchesEvidence'
  <2>1. CASE lost
    <3>1. due_step \in {"guard", "driver", "get"}
      BY <1>1, <2>1 DEF WellFormed
    <3>2. \A f \in faults : FALSE
      <4> SUFFICES ASSUME NEW f \in faults PROVE FALSE
        OBVIOUS
      <4>1. f \in Scripts[gate].recorded /\ \E i \in 1..Len(steps) : i < at /\ steps[i] = f
        BY <1>1, <1>2 DEF GateInv, Progress, Stopped, Behind, OnDisk
      <4>2. PICK i \in 1..Len(steps) : i < at /\ steps[i] \in Scripts[gate].recorded
        BY <4>1
      <4>3. at < i
        BY <1>1, <3>1, <4>1, <4>2 DEF WellFormed, steps
      <4> QED BY <1>1, <4>2, <4>3
    <3>3. faults' \subseteq {"guard", "driver", "get"}
      BY <1>2, <3>1, <3>2
    <3> QED BY <1>2, <2>1, <3>3
      DEF GateInv, NothingWritten, ExitMatchesEvidence, GreenIsEarned, RedIsNotOverwritten
  <2>2. CASE ~lost
    BY <1>2, <2>2 DEF ExitMatchesEvidence, GreenIsEarned, RedIsNotOverwritten
  <2> QED BY <2>1, <2>2
<1> QED BY <1>5, <1>6, <1>7, <1>8, <1>9 DEF GateInv

LEMMA RedirectKeeps ==
  ASSUME GateInv, NEW allowed \in BOOLEAN, Redirect(allowed)
  PROVE  GateInv'
<1>1. /\ at \in 1..Len(steps) /\ Len(steps) \in 3..13 /\ ~aborted /\ due_step = steps[at]
      /\ due_step \in AllSteps
  BY DueStep DEF Redirect, WellFormed, steps, Ordered
<1>2. gateExit = 2 /\ due_step = "get" /\ UNCHANGED <<gate, at, held, output, gateExit, steps>>
  BY DEF Redirect, steps
<1>3. CASE allowed /\ redirects < MaxRedirects
  <2>1. redirects' = redirects + 1 /\ UNCHANGED <<faults, status, aborted>>
    BY <1>3 DEF Redirect
  <2>2. GateTypeOK'
    BY <1>2, <1>3, <2>1, GateAssumption DEF GateInv, GateTypeOK
  <2>3. Progress' /\ PassIsLast'
    BY <1>2, <2>1 DEF GateInv, Progress, Behind, Stopped, OnDisk, PassIsLast
  <2> QED BY <1>2, <2>1, <2>2, <2>3
    DEF GateInv, NothingWritten, ExitMatchesEvidence, GreenIsEarned, RedIsNotOverwritten
<1>4. CASE ~(allowed /\ redirects < MaxRedirects)
  <2>1. faults' = faults \cup {"get"} /\ status' = "FAIL" /\ aborted' = TRUE /\ UNCHANGED redirects
    BY <1>4 DEF Redirect
  <2>2. GateTypeOK'
    BY <1>1, <1>2, <2>1 DEF GateInv, GateTypeOK
  <2>3. Progress'
    <3>1. at \in 1..(Len(steps) + 1) /\ at <= Len(steps) /\ steps[at] = "get" /\ "get" \in faults'
      BY <1>1, <1>2, <2>1
    <3>2. at' = at /\ steps' = steps /\ gate' = gate /\ aborted'
      BY <1>2, <2>1
    <3>3. ASSUME NEW f \in faults PROVE Behind(f)'
      <4>1. Behind(f)
        BY <1>1, <1>2 DEF GateInv, Progress, Stopped, OnDisk
      <4> QED BY <3>2, <4>1 DEF Behind
    <3>4. Stopped("get")'
      BY <3>1, <3>2 DEF Stopped
    <3>5. at' \in 1..(Len(steps') + 1) /\ at' <= Len(steps') /\ steps'[at'] \in faults'
      BY <3>1, <3>2
    <3>6. \A f \in faults' : Stopped(f)' \/ Behind(f)' \/ OnDisk(f)'
      BY <2>1, <3>3, <3>4
    <3> QED BY <3>5, <3>6 DEF Progress
  <2>4. PassIsLast'
    BY <2>1 DEF PassIsLast
  <2> QED BY <1>2, <2>1, <2>2, <2>3, <2>4
    DEF GateInv, NothingWritten, ExitMatchesEvidence, GreenIsEarned, RedIsNotOverwritten
<1> QED BY <1>3, <1>4

LEMMA WriteKeeps ==
  ASSUME GateInv, WriteEvidence
  PROVE  GateInv'
<1>1. /\ gateExit = 2 /\ due_step = "write" /\ output' = status
      /\ gateExit' = (IF status = "PASS" THEN 0 ELSE 1)
      /\ UNCHANGED <<gate, at, aborted, status, faults, held, redirects, steps>>
  BY DEF WriteEvidence, steps
<1>2. GateTypeOK'
  BY <1>1 DEF GateInv, GateTypeOK
<1>3. Progress' /\ PassIsLast' /\ NothingWritten'
  BY <1>1 DEF GateInv, Progress, Behind, Stopped, OnDisk, PassIsLast, NothingWritten
<1>4. status = "PASS" => at = Len(steps) + 1 \/ faults = {"driver_exit"}
  <2> SUFFICES ASSUME status = "PASS", at # Len(steps) + 1 PROVE faults = {"driver_exit"}
    OBVIOUS
  <2>1. WellFormed(Scripts[gate])
    BY EveryScriptWellFormed DEF GateInv, GateTypeOK
  <2>2. /\ DOMAIN steps = 1..Len(steps) /\ Len(steps) \in 3..13
        /\ \A i \in 1..Len(steps) : steps[i] \in StepNames
    BY <2>1 DEF WellFormed, Ordered, steps
  <2>3. at \in DOMAIN steps
    BY <2>2 DEF GateInv, Progress
  <2>4. aborted
    BY <1>1, <2>2, <2>3 DEF due_step, StepNames
  <2> QED BY <1>1, <2>4 DEF GateInv, Progress, PassIsLast
<1>5. ExitMatchesEvidence'
  BY <1>1, <1>4 DEF GateInv, GateTypeOK, PassIsLast, ExitMatchesEvidence, GreenIsEarned, RedIsNotOverwritten
<1> QED BY <1>2, <1>3, <1>5 DEF GateInv

LEMMA FilesKeep ==
  ASSUME GateInv, PrepareFails \/ WriteFails
  PROVE  GateInv'
<1>1. PICK f \in FileFaults : /\ gateExit = 2 /\ faults' = faults \cup {f} /\ gateExit' = 1
                             /\ (f = "prepare" => faults = {} /\ output' = output)
                             /\ (f = "write" => output' \in {output, "torn"})
                             /\ UNCHANGED <<gate, at, aborted, status, held, redirects, steps>>
  BY DEF PrepareFails, WriteFails, FileFaults, steps
<1>2. output' \in {output, "torn"} /\ f \in {"prepare", "write"}
  BY <1>1 DEF FileFaults
<1>3. GateTypeOK'
  <2>1. output' \in {"none", "old_PASS", "torn", "PASS", "FAIL", "BLOCKED", "UNVERIFIED"}
    BY <1>2 DEF GateInv, GateTypeOK
  <2>2. faults' \subseteq AllSteps \cup FileFaults
    BY <1>1 DEF GateInv, GateTypeOK
  <2> QED BY <1>1, <2>1, <2>2 DEF GateInv, GateTypeOK
<1>4. Progress'
  <2>1. ASSUME NEW g \in faults' PROVE Stopped(g)' \/ Behind(g)' \/ OnDisk(g)'
    <3>1. CASE g = f
      BY <1>1, <3>1 DEF OnDisk
    <3>2. CASE g \in faults
      <4>1. Stopped(g) \/ Behind(g)
        BY <1>1, <3>2 DEF GateInv, Progress, OnDisk
      <4> QED BY <1>1, <4>1 DEF Stopped, Behind
    <3> QED BY <1>1, <2>1, <3>1, <3>2
  <2> QED BY <1>1, <2>1 DEF GateInv, Progress
<1>5. PassIsLast' /\ NothingWritten'
  BY <1>1 DEF GateInv, PassIsLast, NothingWritten
<1>6. ExitMatchesEvidence'
  BY <1>1, <1>2 DEF GateInv, NothingWritten, ExitMatchesEvidence, GreenIsEarned, RedIsNotOverwritten
<1> QED BY <1>3, <1>4, <1>5, <1>6 DEF GateInv

LEMMA GateInvariant == GateSpec => []GateInv
<1>1. GateInit => GateInv
  <2> SUFFICES ASSUME GateInit PROVE GateInv
    OBVIOUS
  <2>1. WellFormed(Scripts[gate])
    BY EveryScriptWellFormed DEF GateInit
  <2>2. Len(steps) \in 3..13 /\ status \in {"FAIL", "BLOCKED", "UNVERIFIED"}
    BY <2>1 DEF WellFormed, Ordered, steps, GateInit
  <2>3. GateTypeOK
    <3>1. /\ gate \in Gates /\ at = 1 /\ aborted = FALSE /\ faults = {} /\ held = {} /\ redirects = 0
          /\ output \in {"none", "old_PASS"} /\ gateExit = 2
      BY DEF GateInit
    <3>2. redirects \in 0..MaxRedirects
      BY <3>1, GateAssumption
    <3>3. faults \subseteq AllSteps \cup FileFaults /\ held \subseteq Resources
      BY <3>1
    <3>4. status \in {"PASS", "FAIL", "BLOCKED", "UNVERIFIED"}
      BY <2>2
    <3>5. output \in {"none", "old_PASS", "torn", "PASS", "FAIL", "BLOCKED", "UNVERIFIED"}
      BY <3>1, Zenon
    <3>6. at \in 1..14 /\ gateExit \in 0..2
      BY <3>1
    <3>7. aborted \in BOOLEAN
      BY <3>1
    <3> QED BY <3>1, <3>2, <3>3, <3>4, <3>5, <3>6, <3>7, Zenon DEF GateTypeOK
  <2> QED BY <2>2, <2>3
    DEF GateInit, GateInv, Progress, PassIsLast, NothingWritten, ExitMatchesEvidence, GreenIsEarned, RedIsNotOverwritten
<1>2. ASSUME GateInv, [GateNext]_gateVars PROVE GateInv'
  <2>1. CASE UNCHANGED gateVars
    <3>1. UNCHANGED <<gate, at, aborted, status, faults, held, redirects, output, gateExit, steps>>
      BY <2>1 DEF gateVars, steps
    <3> QED BY <1>2, <3>1
      DEF GateInv, GateTypeOK, Progress, Behind, Stopped, OnDisk, PassIsLast, NothingWritten, ExitMatchesEvidence, GreenIsEarned, RedIsNotOverwritten
  <2> QED BY <1>2, <2>1, StepOkKeeps, StepFaultsKeeps, RedirectKeeps, WriteKeeps, FilesKeep DEF GateNext
<1> QED BY <1>1, <1>2, PTL DEF GateSpec

(* The exit status and the evidence of every gate agree, whatever faults   *)
(* and however many redirects it met: green only with a PASS of its own    *)
(* that every check earned, and red without one, an older PASS left only   *)
(* by a gate that ended before its first answer or could not write         *)
(* (juice_shop_e2e.py and its siblings, k6_gate.py, real_web_smoke.py,     *)
(* webgoat_e2e.py).                                                        *)
THEOREM GateExitMatches == GateSpec => []ExitMatchesEvidence
<1>1. GateInv => ExitMatchesEvidence
  BY DEF GateInv
<1> QED BY <1>1, GateInvariant, PTL

-----------------------------------------------------------------------------
(* Order statistics.  A finite set that is not empty has an element whose  *)
(* value is the largest, and one whose value is the smallest: of the sets  *)
(* of what lies beyond an element, one is minimal.                         *)
LEMMA LargestValue ==
  ASSUME NEW D, IsFiniteSet(D), D # {}, NEW f, \A d \in D : f[d] \in Nat
  PROVE  \E d \in D : \A e \in D : f[e] <= f[d]
<1> DEFINE beyond(d) == {e \in D : f[e] > f[d]}
           sets == {beyond(d) : d \in D}
           less == StrictSubsetOrdering(D)
<1>1. IsWellFoundedOn(less, SUBSET D)
  BY FS_StrictSubsetOrderingWellFounded, FS_FiniteSubsetsOfFinite
<1>2. sets \subseteq SUBSET D /\ sets # {}
  OBVIOUS
<1>3. PICK s \in sets : \A t \in sets : <<t, s>> \notin less
  <2> HIDE DEF sets, less
  <2> QED BY <1>1, <1>2, WFMin
<1>4. PICK d \in D : s = beyond(d)
  OBVIOUS
<1>5. ASSUME NEW e \in D, f[e] > f[d] PROVE FALSE
  <2>1. beyond(e) \in sets /\ beyond(e) \in SUBSET D /\ s \in SUBSET D
    BY <1>2
  <2>2. beyond(e) \subseteq s
    <3> SUFFICES ASSUME NEW x \in D, f[x] > f[e] PROVE f[x] > f[d]
      BY <1>4
    <3> QED BY <1>5
  <2>3. e \in s /\ e \notin beyond(e)
    BY <1>4, <1>5
  <2>4. <<beyond(e), s>> \in less
    <3> HIDE DEF beyond
    <3> QED BY <2>1, <2>2, <2>3 DEF StrictSubsetOrdering
  <2> QED BY <1>3, <2>1, <2>4
<1> QED BY <1>5

LEMMA SmallestValue ==
  ASSUME NEW D, IsFiniteSet(D), D # {}, NEW f, \A d \in D : f[d] \in Nat
  PROVE  \E d \in D : \A e \in D : f[d] <= f[e]
<1> DEFINE below(d) == {e \in D : f[e] < f[d]}
           sets == {below(d) : d \in D}
           less == StrictSubsetOrdering(D)
<1>1. IsWellFoundedOn(less, SUBSET D)
  BY FS_StrictSubsetOrderingWellFounded, FS_FiniteSubsetsOfFinite
<1>2. sets \subseteq SUBSET D /\ sets # {}
  OBVIOUS
<1>3. PICK s \in sets : \A t \in sets : <<t, s>> \notin less
  <2> HIDE DEF sets, less
  <2> QED BY <1>1, <1>2, WFMin
<1>4. PICK d \in D : s = below(d)
  OBVIOUS
<1>5. ASSUME NEW e \in D, f[e] < f[d] PROVE FALSE
  <2>1. below(e) \in sets /\ below(e) \in SUBSET D /\ s \in SUBSET D
    BY <1>2
  <2>2. below(e) \subseteq s
    <3> SUFFICES ASSUME NEW x \in D, f[x] < f[e] PROVE f[x] < f[d]
      BY <1>4
    <3> QED BY <1>5
  <2>3. e \in s /\ e \notin below(e)
    BY <1>4, <1>5
  <2>4. <<below(e), s>> \in less
    <3> HIDE DEF below
    <3> QED BY <2>1, <2>2, <2>3 DEF StrictSubsetOrdering
  <2> QED BY <1>3, <2>1, <2>4
<1> QED BY <1>5

(* The value of rank k: fewer than k are below it, and k are not above.    *)
(* For every rank there is one; and where every value is at most another's *)
(* so are the values of a rank.                                            *)
HasRank(D, f, k, v) ==
  /\ Cardinality({d \in D : f[d] < v}) < k
  /\ k <= Cardinality({d \in D : f[d] <= v})

LEMMA RankExists ==
  ASSUME NEW D, IsFiniteSet(D), NEW f, \A d \in D : f[d] \in Nat, NEW k \in 1..Cardinality(D)
  PROVE  \E v \in {f[d] : d \in D} : HasRank(D, f, k, v)
<1> DEFINE upto(v) == {d \in D : f[d] <= v}
           below(v) == {d \in D : f[d] < v}
           enough == {d \in D : k <= Cardinality(upto(f[d]))}
<1>1. \A v : /\ IsFiniteSet(upto(v)) /\ Cardinality(upto(v)) \in Nat
             /\ IsFiniteSet(below(v)) /\ Cardinality(below(v)) \in Nat
  <2> TAKE v
  <2>1. upto(v) \in SUBSET D /\ below(v) \in SUBSET D
    OBVIOUS
  <2> HIDE DEF upto, below
  <2> QED BY <2>1, FS_Subset, FS_CardinalityType
<1>2. D # {} /\ Cardinality(D) \in Nat
  BY FS_EmptySet, FS_CardinalityType
<1>3. enough # {}
  <2>1. PICK d \in D : \A e \in D : f[e] <= f[d]
    BY <1>2, LargestValue
  <2>2. upto(f[d]) = D
    BY <2>1
  <2> HIDE DEF upto
  <2>3. d \in enough
    BY <1>2, <2>2
  <2> QED BY <2>3
<1>4. PICK d \in enough : \A e \in enough : f[d] <= f[e]
  <2>1. enough \in SUBSET D /\ \A e \in enough : f[e] \in Nat
    OBVIOUS
  <2> HIDE DEF enough
  <2>2. IsFiniteSet(enough)
    BY <2>1, FS_Subset
  <2> QED BY <1>3, <2>1, <2>2, SmallestValue
<1>5. ASSUME k <= Cardinality(below(f[d])) PROVE FALSE
  <2> DEFINE b == below(f[d])
  <2>1. b # {} /\ IsFiniteSet(b) /\ \A e \in b : f[e] \in Nat
    <3>1. IsFiniteSet(b) /\ Cardinality(b) >= 1
      BY <1>1, <1>5
    <3> QED BY <3>1, FS_EmptySet
  <2>2. PICK e \in b : \A x \in b : f[x] <= f[e]
    <3> HIDE DEF b
    <3> QED BY <2>1, LargestValue
  <2>3. e \in D /\ d \in D /\ f[e] < f[d] /\ f[e] \in Nat /\ f[d] \in Nat
    BY <2>2
  <2>4. upto(f[e]) = b
    <3>1. ASSUME NEW x \in D PROVE f[x] <= f[e] <=> f[x] < f[d]
      <4>1. f[x] \in Nat
        OBVIOUS
      <4>2. f[x] < f[d] => f[x] <= f[e]
        BY <2>2
      <4> QED BY <2>3, <4>1, <4>2
    <3> QED BY <3>1
  <2>5. e \in enough
    BY <1>5, <2>3, <2>4
  <2> QED BY <1>4, <2>3, <2>5
<1>6. d \in D /\ k <= Cardinality(upto(f[d])) /\ Cardinality(below(f[d])) < k
  <2>1. Cardinality(below(f[d])) \in Nat
    BY <1>1
  <2>2. ~(k <= Cardinality(below(f[d])))
    BY <1>5
  <2> QED BY <1>4, <2>1, <2>2
<1> QED BY <1>6 DEF HasRank

LEMMA RankIsMonotone ==
  ASSUME NEW D, IsFiniteSet(D), NEW f, NEW g, \A d \in D : f[d] \in Nat /\ g[d] \in Nat /\ f[d] <= g[d],
         NEW k \in Nat, NEW v \in Nat, NEW w \in Nat, HasRank(D, f, k, v), HasRank(D, g, k, w)
  PROVE  v <= w
<1> SUFFICES ASSUME w < v PROVE FALSE
  OBVIOUS
<1> DEFINE below == {d \in D : f[d] < v}
           upto == {d \in D : g[d] <= w}
<1>1. Cardinality(below) < k /\ k <= Cardinality(upto)
  BY DEF HasRank
<1>2. upto \in SUBSET below /\ below \in SUBSET D
  <2> SUFFICES ASSUME NEW d \in D, g[d] <= w PROVE f[d] < v
    OBVIOUS
  <2>1. f[d] \in Nat /\ g[d] \in Nat /\ f[d] <= g[d]
    OBVIOUS
  <2> QED BY <2>1
<1> HIDE DEF below, upto
<1>3. /\ IsFiniteSet(below) /\ Cardinality(below) \in Nat /\ Cardinality(upto) \in Nat
      /\ Cardinality(upto) <= Cardinality(below)
  BY <1>2, FS_Subset, FS_CardinalityType
<1> QED BY <1>1, <1>3

-----------------------------------------------------------------------------
(* Twice the median is the sum of the values of two ranks, and no smaller  *)
(* where no sample is.                                                     *)
Fields == {"median", "p95", "p99", "throughput", "errors"}
RunSets == {s \in Seq([digest : Nat, m : Measurements]) : Len(s) >= 1}
values(run_set, field) == [i \in DOMAIN run_set |-> run_set[i].m[field]]

LEMMA SamplesAreNumbers ==
  ASSUME NEW m \in Measurements, NEW field \in Fields
  PROVE  m[field] \in Nat
BY PerformanceAssumption DEF Fields

LEMMA ChecksAreShares ==
  ASSUME NEW m \in Measurements
  PROVE  m.checks \in 0..1000
BY PerformanceAssumption

LEMMA RunSetSamples ==
  ASSUME NEW s \in RunSets
  PROVE  /\ Len(s) \in Nat /\ Len(s) >= 1 /\ DOMAIN s = 1..Len(s)
         /\ \A i \in 1..Len(s) : s[i] \in [digest : Nat, m : Measurements]
         /\ \A i \in 1..Len(s) : s[i].m \in Measurements
<1> DEFINE Sample == [digest : Nat, m : Measurements]
<1>1. s \in Seq(Sample) /\ Len(s) >= 1
  BY DEF RunSets
<1>2. \A x \in Sample : x.m \in Measurements
  OBVIOUS
<1> HIDE DEF Sample
<1>3. Len(s) \in Nat /\ DOMAIN s = 1..Len(s) /\ \A i \in 1..Len(s) : s[i] \in Sample
  BY <1>1
<1>4. \A i \in 1..Len(s) : s[i].m \in Measurements
  BY <1>2, <1>3
<1> QED BY <1>1, <1>3, <1>4 DEF Sample

LEMMA MedianIsOfRanks ==
  ASSUME NEW run_set \in RunSets, NEW field \in Fields
  PROVE  \E lo, hi \in Nat :
           /\ median2(run_set, field) = lo + hi
           /\ HasRank(DOMAIN run_set, values(run_set, field), (Len(run_set) + 1) \div 2, lo)
           /\ HasRank(DOMAIN run_set, values(run_set, field), (Len(run_set) + 2) \div 2, hi)
<1> DEFINE D == DOMAIN run_set
           f == values(run_set, field)
           n == Len(run_set)
           ranked(k) == CHOOSE v \in {f[d] : d \in D} : HasRank(D, f, k, v)
<1>1. n \in Nat /\ n >= 1 /\ D = 1..n
  BY DEF RunSets
<1>2. IsFiniteSet(D) /\ Cardinality(D) = n
  BY <1>1, FS_Interval
<1>3. \A d \in D : f[d] = run_set[d].m[field] /\ f[d] \in Nat
  <2> SUFFICES ASSUME NEW d \in D PROVE f[d] = run_set[d].m[field] /\ f[d] \in Nat
    OBVIOUS
  <2>1. run_set[d].m \in Measurements
    BY <1>1, RunSetSamples
  <2> QED BY <2>1, SamplesAreNumbers DEF values
<1>4. ASSUME NEW k \in 1..n PROVE ranked(k) \in Nat /\ HasRank(D, f, k, ranked(k))
  <2>1. \E v \in {f[d] : d \in D} : HasRank(D, f, k, v)
    <3> HIDE DEF D, f
    <3> QED BY <1>2, <1>3, RankExists
  <2>2. ranked(k) \in {f[d] : d \in D} /\ HasRank(D, f, k, ranked(k))
    <3> HIDE DEF D, f
    <3> QED BY <2>1
  <2> QED BY <1>3, <2>2
<1>5. (n + 1) \div 2 \in 1..n /\ (n + 2) \div 2 \in 1..n
  BY <1>1
<1>6. median2(run_set, field) = ranked((n + 1) \div 2) + ranked((n + 2) \div 2)
  <2>1. {f[d] : d \in D} = {run_set[i].m[field] : i \in D}
    BY <1>3
  <2>2. \A v : /\ {d \in D : f[d] < v} = {i \in D : run_set[i].m[field] < v}
               /\ {d \in D : f[d] <= v} = {i \in D : run_set[i].m[field] <= v}
    BY <1>3
  <2>3. \A k, v : HasRank(D, f, k, v) <=>
          /\ Cardinality({i \in D : run_set[i].m[field] < v}) < k
          /\ k <= Cardinality({i \in D : run_set[i].m[field] <= v})
    BY <2>2 DEF HasRank
  <2>4. \A k : ranked(k) = CHOOSE v \in {run_set[i].m[field] : i \in D} :
                             /\ Cardinality({i \in D : run_set[i].m[field] < v}) < k
                             /\ k <= Cardinality({i \in D : run_set[i].m[field] <= v})
    BY <2>1, <2>3
  <2> HIDE DEF ranked
  <2> QED BY <2>4 DEF median2
<1> QED BY <1>4, <1>5, <1>6

LEMMA MedianIsMonotone ==
  ASSUME NEW low \in RunSets, NEW high \in RunSets, NEW field \in Fields, Len(low) = Len(high),
         \A i \in 1..Len(low) : low[i].m[field] <= high[i].m[field]
  PROVE  median2(low, field) \in Nat /\ median2(high, field) \in Nat /\ median2(low, field) <= median2(high, field)
<1> DEFINE D == DOMAIN low
           f == values(low, field)
           g == values(high, field)
           n == Len(low)
<1>1. n \in Nat /\ n >= 1 /\ D = 1..n /\ DOMAIN high = D
  BY DEF RunSets
<1>2. IsFiniteSet(D)
  BY <1>1, FS_Interval
<1>3. \A d \in D : f[d] \in Nat /\ g[d] \in Nat /\ f[d] <= g[d]
  <2> SUFFICES ASSUME NEW d \in D PROVE f[d] \in Nat /\ g[d] \in Nat /\ f[d] <= g[d]
    OBVIOUS
  <2>1. low[d].m \in Measurements /\ high[d].m \in Measurements
    BY <1>1, RunSetSamples
  <2> QED BY <1>1, <2>1, SamplesAreNumbers DEF values
<1>4. PICK a, b \in Nat : /\ median2(low, field) = a + b
                          /\ HasRank(D, f, (n + 1) \div 2, a) /\ HasRank(D, f, (n + 2) \div 2, b)
  BY MedianIsOfRanks
<1>5. PICK c, d \in Nat : /\ median2(high, field) = c + d
                          /\ HasRank(D, g, (n + 1) \div 2, c) /\ HasRank(D, g, (n + 2) \div 2, d)
  BY <1>1, MedianIsOfRanks
<1>6. (n + 1) \div 2 \in Nat /\ (n + 2) \div 2 \in Nat
  BY <1>1
<1> HIDE DEF D, f, g, n
<1>7. a <= c /\ b <= d
  BY <1>2, <1>3, <1>4, <1>5, <1>6, RankIsMonotone
<1> QED BY <1>4, <1>5, <1>7

(* A run set with one sample replaced.                                     *)
LEMMA OneSampleReplaced ==
  ASSUME NEW s \in RunSets, NEW i \in DOMAIN s, NEW m \in Measurements
  PROVE  LET t == [s EXCEPT ![i].m = m]
         IN /\ t \in RunSets /\ Len(t) = Len(s) /\ DOMAIN t = DOMAIN s
            /\ \A j \in DOMAIN s : t[j].digest = s[j].digest /\ t[j].m = IF j = i THEN m ELSE s[j].m
<1> DEFINE Sample == [digest : Nat, m : Measurements]
           t == [s EXCEPT ![i].m = m]
<1>1. /\ Len(s) \in Nat /\ Len(s) >= 1 /\ DOMAIN s = 1..Len(s)
      /\ \A j \in 1..Len(s) : s[j] \in Sample
  BY RunSetSamples
<1>2. DOMAIN t = 1..Len(s) /\ \A j \in 1..Len(s) : t[j] = IF j = i THEN [s[j] EXCEPT !.m = m] ELSE s[j]
  BY <1>1
<1>3. \A x \in Sample : /\ [x EXCEPT !.m = m] \in Sample /\ [x EXCEPT !.m = m].m = m
                        /\ [x EXCEPT !.m = m].digest = x.digest
  OBVIOUS
<1>4. t = [j \in 1..Len(s) |-> IF j = i THEN [s[j] EXCEPT !.m = m] ELSE s[j]]
  BY <1>1
<1> HIDE DEF t, Sample
<1>5. ASSUME NEW j \in 1..Len(s)
      PROVE  t[j] \in Sample /\ t[j].digest = s[j].digest /\ t[j].m = IF j = i THEN m ELSE s[j].m
  <2>1. CASE j = i
    BY <1>1, <1>2, <1>3, <2>1
  <2>2. CASE j # i
    BY <1>1, <1>2, <2>2
  <2> QED BY <2>1, <2>2
<1>6. t \in Seq(Sample) /\ Len(t) = Len(s)
  BY <1>1, <1>4, <1>5
<1>7. t \in RunSets
  BY <1>1, <1>6 DEF RunSets, Sample
<1>8. t \in RunSets /\ Len(t) = Len(s) /\ DOMAIN t = DOMAIN s
      /\ \A j \in DOMAIN s : t[j].digest = s[j].digest /\ t[j].m = IF j = i THEN m ELSE s[j].m
  BY <1>1, <1>2, <1>5, <1>6, <1>7
<1> QED BY <1>8 DEF t

(* Where every sample of one run set is at least as good as the other's, a *)
(* comparison that holds of the worse candidate holds of the better, and   *)
(* one that holds of the better baseline holds of the worse.               *)
Better(good, bad) ==
  /\ Len(good) = Len(bad)
  /\ \A i \in 1..Len(good) : Worse(bad[i].m, good[i].m)

LEMMA MediansOfBetter ==
  ASSUME NEW good \in RunSets, NEW bad \in RunSets, Better(good, bad)
  PROVE  /\ \A field \in Fields : median2(good, field) \in Nat /\ median2(bad, field) \in Nat
         /\ \A field \in Fields \ {"throughput"} : median2(good, field) <= median2(bad, field)
         /\ median2(bad, "throughput") <= median2(good, "throughput")
<1>1. ASSUME NEW field \in Fields \ {"throughput"}
      PROVE  /\ median2(good, field) \in Nat /\ median2(bad, field) \in Nat
             /\ median2(good, field) <= median2(bad, field)
  <2>1. \A i \in 1..Len(good) : good[i].m[field] <= bad[i].m[field]
    BY DEF Better, Worse, Fields
  <2> QED BY <2>1, MedianIsMonotone DEF Better
<1>2. median2(good, "throughput") \in Nat /\ median2(bad, "throughput") \in Nat
      /\ median2(bad, "throughput") <= median2(good, "throughput")
  <2>1. \A i \in 1..Len(bad) : bad[i].m["throughput"] <= good[i].m["throughput"]
    BY DEF Better, Worse
  <2> QED BY <2>1, MedianIsMonotone DEF Better, Fields
<1> QED BY <1>1, <1>2

LEMMA MedianType ==
  ASSUME NEW s \in RunSets, NEW field \in Fields
  PROVE  median2(s, field) \in Nat
<1>1. \A i \in 1..Len(s) : s[i].m[field] \in Nat
  BY SamplesAreNumbers, RunSetSamples
<1>2. \A i \in 1..Len(s) : s[i].m[field] <= s[i].m[field]
  BY <1>1
<1> QED BY <1>2, MedianIsMonotone

LEMMA BetterCandidatePasses ==
  ASSUME NEW before \in RunSets, NEW good \in RunSets, NEW bad \in RunSets, Better(good, bad),
         comparison_checks(before, bad)
  PROVE  comparison_checks(before, good)
<1>1. \A field \in Fields : median2(before, field) \in Nat
  BY MedianType
<1>2. \A i \in DOMAIN good : good[i].m.checks = 1000
  <2>1. DOMAIN good = 1..Len(good) /\ DOMAIN bad = 1..Len(good)
    BY DEF RunSets, Better
  <2>2. ASSUME NEW i \in 1..Len(good) PROVE good[i].m.checks = 1000
    <3>1. PICK share, other : share = good[i].m.checks /\ other = bad[i].m.checks
      OBVIOUS
    <3>2. other = 1000 /\ other <= share
      BY <2>1, <3>1 DEF Better, Worse, comparison_checks
    <3>3. share \in 0..1000
      BY <3>1, RunSetSamples, ChecksAreShares
    <3>4. share = 1000
      BY <3>2, <3>3
    <3> QED BY <3>1, <3>4
  <2> QED BY <2>1, <2>2
<1>3. ASSUME NEW l \in Latencies
      PROVE  10 * (median2(good, l) - median2(before, l)) <= median2(before, l)
  <2>1. l \in Fields \ {"throughput"}
    BY DEF Latencies, Fields
  <2>2. 10 * (median2(bad, l) - median2(before, l)) <= median2(before, l)
    BY DEF comparison_checks
  <2> QED BY <1>1, <2>1, <2>2, MediansOfBetter
<1>4. 10 * (median2(before, "throughput") - median2(good, "throughput")) <= median2(before, "throughput")
  BY <1>1, MediansOfBetter DEF Fields, comparison_checks
<1>5. median2(good, "errors") - median2(before, "errors") <= 10
  BY <1>1, MediansOfBetter DEF Fields, comparison_checks
<1> QED BY <1>2, <1>3, <1>4, <1>5 DEF comparison_checks

LEMMA WorseBaselinePasses ==
  ASSUME NEW after \in RunSets, NEW good \in RunSets, NEW bad \in RunSets, Better(good, bad),
         comparison_checks(good, after)
  PROVE  comparison_checks(bad, after)
<1>1. \A field \in Fields : median2(after, field) \in Nat
  BY MedianType
<1>2. ASSUME NEW l \in Latencies
      PROVE  10 * (median2(after, l) - median2(bad, l)) <= median2(bad, l)
  <2>1. l \in Fields \ {"throughput"}
    BY DEF Latencies, Fields
  <2>2. 10 * (median2(after, l) - median2(good, l)) <= median2(good, l)
    BY DEF comparison_checks
  <2> QED BY <1>1, <2>1, <2>2, MediansOfBetter
<1>3. 10 * (median2(bad, "throughput") - median2(after, "throughput")) <= median2(bad, "throughput")
  BY <1>1, MediansOfBetter DEF Fields, comparison_checks
<1>4. median2(after, "errors") - median2(bad, "errors") <= 10
  BY <1>1, MediansOfBetter DEF Fields, comparison_checks
<1> QED BY <1>2, <1>3, <1>4 DEF comparison_checks

LEMMA WorseIsReflexive ==
  ASSUME NEW m \in Measurements
  PROVE  Worse(m, m)
<1>1. m.median \in Nat /\ m.p95 \in Nat /\ m.p99 \in Nat /\ m.throughput \in Nat
      /\ m.errors \in Nat /\ m.checks \in Nat
  BY PerformanceAssumption
<1> QED BY <1>1 DEF Worse

(* Replacing a sample by a worse one leaves a run set that is no better.   *)
LEMMA ReplacedByWorse ==
  ASSUME NEW s \in RunSets, NEW i \in DOMAIN s, NEW p \in WorseThan, s[i].m = p[2]
  PROVE  Better(s, [s EXCEPT ![i].m = p[1]])
<1> DEFINE t == [s EXCEPT ![i].m = p[1]]
<1>1. p[1] \in Measurements /\ p[2] \in Measurements /\ Worse(p[1], p[2])
  BY PerformanceAssumption
<1>2. /\ Len(t) = Len(s) /\ DOMAIN s = 1..Len(s)
      /\ \A j \in DOMAIN s : t[j].m = IF j = i THEN p[1] ELSE s[j].m
  BY <1>1, OneSampleReplaced DEF RunSets
<1> HIDE DEF t
<1>3. ASSUME NEW j \in 1..Len(s) PROVE Worse(t[j].m, s[j].m)
  <2>1. CASE j = i
    BY <1>1, <1>2, <2>1
  <2>2. CASE j # i
    BY <1>2, <2>2, RunSetSamples, WorseIsReflexive
  <2> QED BY <2>1, <2>2
<1>4. Better(s, t)
  BY <1>2, <1>3 DEF Better
<1> QED BY <1>4 DEF t

LEMMA ReplacedByBetter ==
  ASSUME NEW s \in RunSets, NEW i \in DOMAIN s, NEW p \in WorseThan, s[i].m = p[1]
  PROVE  Better([s EXCEPT ![i].m = p[2]], s)
<1> DEFINE t == [s EXCEPT ![i].m = p[2]]
<1>1. p[1] \in Measurements /\ p[2] \in Measurements /\ Worse(p[1], p[2])
  BY PerformanceAssumption
<1>2. /\ Len(t) = Len(s) /\ DOMAIN s = 1..Len(s)
      /\ \A j \in DOMAIN s : t[j].m = IF j = i THEN p[2] ELSE s[j].m
  BY <1>1, OneSampleReplaced DEF RunSets
<1> HIDE DEF t
<1>3. ASSUME NEW j \in 1..Len(s) PROVE Worse(s[j].m, t[j].m)
  <2>1. CASE j = i
    BY <1>1, <1>2, <2>1
  <2>2. CASE j # i
    BY <1>2, <2>2, RunSetSamples, WorseIsReflexive
  <2> QED BY <2>1, <2>2
<1>4. Better(t, s)
  BY <1>2, <1>3 DEF Better
<1> QED BY <1>4 DEF t

LEMMA WorseCandidateNeverPasses ==
  ASSUME NEW before \in RunSets, NEW after \in RunSets, NEW i \in DOMAIN after, NEW p \in WorseThan,
         after[i].m = p[2], compare_run_sets(before, [after EXCEPT ![i].m = p[1]]) = "PASS"
  PROVE  compare_run_sets(before, after) = "PASS"
<1> DEFINE t == [after EXCEPT ![i].m = p[1]]
<1>1. p[1] \in Measurements
  BY PerformanceAssumption
<1>2. /\ t \in RunSets /\ Len(t) = Len(after) /\ DOMAIN t = DOMAIN after
      /\ \A j \in DOMAIN after : t[j].digest = after[j].digest
  BY <1>1, OneSampleReplaced
<1>3. Better(after, t)
  BY ReplacedByWorse
<1> HIDE DEF t
<1>4. compare_run_sets(before, t) = "PASS"
  BY DEF t
<1>5. /\ ~(Len(before) < MIN_SAMPLES \/ Len(t) < MIN_SAMPLES)
      /\ ~\E k \in DOMAIN before, j \in DOMAIN t : before[k].digest = t[j].digest
      /\ ~\E field \in Latencies \cup {"throughput"} : median2(before, field) = 0
      /\ comparison_checks(before, t)
  BY <1>4 DEF compare_run_sets
<1>6. comparison_checks(before, after)
  BY <1>2, <1>3, <1>5, BetterCandidatePasses
<1>7. /\ ~(Len(before) < MIN_SAMPLES \/ Len(after) < MIN_SAMPLES)
      /\ ~\E k \in DOMAIN before, j \in DOMAIN after : before[k].digest = after[j].digest
  BY <1>2, <1>5
<1> QED BY <1>5, <1>6, <1>7 DEF compare_run_sets

LEMMA BetterBaselineNeverSaves ==
  ASSUME NEW before \in RunSets, NEW after \in RunSets, NEW i \in DOMAIN before, NEW p \in WorseThan,
         before[i].m = p[1], compare_run_sets([before EXCEPT ![i].m = p[2]], after) = "PASS"
  PROVE  compare_run_sets(before, after) # "FAIL"
<1> DEFINE t == [before EXCEPT ![i].m = p[2]]
<1>1. t \in RunSets
  BY OneSampleReplaced, PerformanceAssumption
<1>2. Better(t, before)
  BY ReplacedByBetter
<1>3. comparison_checks(t, after)
  BY DEF compare_run_sets
<1> HIDE DEF t
<1>4. comparison_checks(before, after)
  BY <1>1, <1>2, <1>3, WorseBaselinePasses
<1> QED BY <1>4 DEF compare_run_sets

-----------------------------------------------------------------------------
(* What the collection keeps: every sample is a file of its own, and one   *)
(* that broke the limits is remembered until the end.                      *)
Collected ==
  /\ \A i \in DOMAIN summaries : summaries[i].digest = i
  /\ ~run_failed => \A i \in DOMAIN summaries : evaluate_summary(summaries[i].m)
  /\ conclusion = "success" => Len(summaries) = 2 * MIN_SAMPLES /\ ~run_failed

PerfInv == PerfTypeOK /\ Collected

LEMMA PerfInvariant == PerfSpec => []PerfInv
<1> USE PerformanceAssumption
<1>1. PerfInit => PerfInv
  <2> SUFFICES ASSUME PerfInit PROVE PerfInv
    OBVIOUS
  <2>1. summaries = <<>> /\ run_failed = FALSE /\ conclusion = "none"
    BY DEF PerfInit
  <2>2. summaries \in Seq([digest : Nat, m : Measurements]) /\ Len(summaries) <= 2 * MIN_SAMPLES
    BY <2>1
  <2>3. PerfTypeOK
    BY <2>1, <2>2 DEF PerfInit, PerfTypeOK, Verdicts
  <2>4. Collected
    BY <2>1 DEF Collected
  <2> QED BY <2>3, <2>4 DEF PerfInv
<1>2. ASSUME PerfInv, [PerfNext]_perfVars PROVE PerfInv'
  <2>1. ASSUME NEW m \in Measurements, NEW exited \in {0, 99}, Collect(m, exited) PROVE PerfInv'
    <3> DEFINE Sample == [digest : Nat, m : Measurements]
               sample == [digest |-> Len(summaries) + 1, m |-> m]
    <3>1. summaries \in Seq(Sample) /\ Len(summaries) \in Nat /\ DOMAIN summaries = 1..Len(summaries)
      BY <1>2 DEF PerfInv, PerfTypeOK
    <3>2. sample \in Sample /\ sample.digest = Len(summaries) + 1 /\ sample.m = m
      BY <3>1
    <3>3. /\ summaries' = Append(summaries, sample) /\ Len(summaries) < 2 * MIN_SAMPLES
          /\ run_failed' = (run_failed \/ exited # 0 \/ ~evaluate_summary(m))
          /\ conclusion = "none" /\ UNCHANGED <<origin, comparison, conclusion, artifact, requested>>
      BY <2>1 DEF Collect
    <3> HIDE DEF Sample, sample
    <3>4. /\ summaries' \in Seq(Sample) /\ Len(summaries') = Len(summaries) + 1
          /\ DOMAIN summaries' = 1..(Len(summaries) + 1)
          /\ \A i \in 1..Len(summaries) : summaries'[i] = summaries[i]
          /\ summaries'[Len(summaries) + 1] = sample
      BY <3>1, <3>2, <3>3
    <3>5. run_failed' \in BOOLEAN /\ Len(summaries') <= 2 * MIN_SAMPLES
      BY <3>1, <3>3, <3>4
    <3>6. PerfTypeOK'
      BY <1>2, <3>3, <3>4, <3>5 DEF PerfInv, PerfTypeOK, Sample
    <3>7. Collected'
      <4>1. ASSUME NEW i \in DOMAIN summaries'
            PROVE  /\ summaries'[i].digest = i
                   /\ ~run_failed' => evaluate_summary(summaries'[i].m)
        <5>1. CASE i \in 1..Len(summaries)
          <6>1. summaries'[i] = summaries[i] /\ i \in DOMAIN summaries
            BY <3>1, <3>4, <5>1
          <6>2. summaries[i].digest = i /\ (~run_failed => evaluate_summary(summaries[i].m))
            BY <1>2, <6>1 DEF PerfInv, Collected
          <6>3. run_failed \in BOOLEAN /\ (~run_failed' => ~run_failed)
            BY <1>2, <3>3 DEF PerfInv, PerfTypeOK
          <6> QED BY <6>1, <6>2, <6>3
        <5>2. CASE i = Len(summaries) + 1
          <6>1. summaries'[i].digest = i /\ summaries'[i].m = m
            BY <3>2, <3>4, <5>2, Zenon
          <6>2. ~run_failed' => evaluate_summary(m)
            BY <3>3, Zenon
          <6> QED BY <6>1, <6>2, Zenon
        <5> QED BY <3>1, <3>4, <4>1, <5>1, <5>2
      <4> QED BY <3>3, <4>1 DEF Collected
    <3> QED BY <3>6, <3>7 DEF PerfInv
  <2>2. CASE CollectFails
    <3>1. artifact' \subseteq {"raw-runs", "baseline-run-set.json"}
      BY <2>2 DEF CollectFails
    <3>2. conclusion' = "failure" /\ UNCHANGED <<origin, summaries, run_failed, comparison, requested>>
      BY <2>2 DEF CollectFails
    <3> QED BY <1>2, <3>1, <3>2 DEF PerfInv, PerfTypeOK, Collected
  <2>3. CASE Finish
    <3>1. comparison' \in Verdicts
      BY <2>3 DEF Finish, compare_run_sets, Verdicts
    <3>2. conclusion' \in {"success", "failure"} /\ (conclusion' = "success" => ~run_failed)
          /\ Len(summaries) = 2 * MIN_SAMPLES
      BY <2>3 DEF Finish
    <3>3. artifact' = {"raw-runs", "baseline-run-set.json", "candidate-run-set.json", "repeatability-result.json"}
          /\ UNCHANGED <<origin, summaries, run_failed, requested>>
      BY <2>3 DEF Finish
    <3>4. PerfTypeOK'
      BY <1>2, <3>1, <3>2, <3>3 DEF PerfInv, PerfTypeOK
    <3>5. Collected'
      BY <1>2, <3>2, <3>3 DEF PerfInv, Collected
    <3> QED BY <3>4, <3>5 DEF PerfInv
  <2>4. CASE Request
    BY <1>2, <2>4 DEF PerfInv, PerfTypeOK, Collected, Request
  <2>5. CASE UNCHANGED perfVars
    BY <1>2, <2>5 DEF PerfInv, PerfTypeOK, Collected, perfVars
  <2> QED BY <1>2, <2>1, <2>2, <2>3, <2>4, <2>5 DEF PerfNext
<1> QED BY <1>1, <1>2, PTL DEF PerfSpec

(* Both halves of the samples are run sets, as they are.                   *)
LEMMA HalvesAreRunSets ==
  ASSUME PerfInv, Len(summaries) = 2 * MIN_SAMPLES
  PROVE  baseline_set \in RunSets /\ candidate_set \in RunSets
<1> DEFINE Sample == [digest : Nat, m : Measurements]
           n == MIN_SAMPLES
<1>1. n \in Nat /\ n >= 1
  BY PerformanceAssumption
<1>2. /\ summaries \in Seq(Sample) /\ Len(summaries) = 2 * n /\ DOMAIN summaries = 1..(2 * n)
      /\ \A i \in 1..(2 * n) : summaries[i] \in Sample /\ summaries[i].digest = i
  <2>1. summaries \in Seq(Sample) /\ \A i \in DOMAIN summaries : summaries[i].digest = i
    BY DEF PerfInv, PerfTypeOK, Collected
  <2> HIDE DEF Sample
  <2> QED BY <1>1, <2>1
<1> HIDE DEF Sample, n
<1>3. ASSUME NEW a \in {1, n + 1}
      PROVE  LET s == SubSeq(summaries, a, a + n - 1)
             IN s \in Seq(Sample) /\ Len(s) = n /\ \A i \in 1..n : s[i] = summaries[a + i - 1]
  <2>1. a \in 1..(2 * n) /\ a + n - 1 \in 1..(2 * n)
    BY <1>1
  <2> QED BY <1>1, <1>2, <2>1
<1>4. ASSUME NEW a \in {1, n + 1}
      PROVE  build_run_set(SubSeq(summaries, a, a + n - 1)) \in RunSets
  <2> DEFINE s == SubSeq(summaries, a, a + n - 1)
  <2>1. s \in Seq(Sample) /\ Len(s) = n /\ \A i \in 1..n : s[i] = summaries[a + i - 1]
    BY <1>3
  <2> HIDE DEF s
  <2>2. DOMAIN s = 1..n
    BY <2>1
  <2>3. ASSUME NEW i \in 1..n PROVE s[i].digest = a + i - 1
    <3>1. a + i - 1 \in 1..(2 * n)
      BY <1>1
    <3> QED BY <1>2, <2>1, <3>1
  <2>4. \A i, j \in DOMAIN s : s[i].digest = s[j].digest => i = j
    BY <1>1, <2>2, <2>3
  <2>5. build_run_set(s) = s
    BY <1>1, <2>1, <2>4 DEF build_run_set, n
  <2>6. s \in RunSets
    BY <1>1, <2>1 DEF RunSets, Sample
  <2> QED BY <2>5, <2>6 DEF s
<1>5. baseline_set = build_run_set(SubSeq(summaries, 1, 1 + n - 1))
  BY <1>1 DEF baseline_set, n
<1>6. candidate_set = build_run_set(SubSeq(summaries, n + 1, (n + 1) + n - 1))
  BY <1>1 DEF candidate_set, n
<1> QED BY <1>4, <1>5, <1>6

(* Of any samples: a regression in one never turns a comparison into a     *)
(* PASS, nor does an improvement of the baseline turn a FAIL into one; and *)
(* a collection that succeeded has every sample within the five limits of  *)
(* the policy, for any limits, numbers of samples and measurements, zeros  *)
(* too (compare_performance_baseline.py, build_performance_run_set.py,     *)
(* k6_gate.py).                                                            *)
THEOREM ComparisonSound == PerfSpec => []ComparisonIsSound
<1>1. PerfInv => WorseNeverPasses
  BY HalvesAreRunSets, WorseCandidateNeverPasses, BetterBaselineNeverSaves DEF WorseNeverPasses
<1>2. PerfInv => CollectedAreHealthy
  BY DEF PerfInv, Collected, CollectedAreHealthy
<1> QED BY <1>1, <1>2, PerfInvariant, PTL DEF ComparisonIsSound
=============================================================================
